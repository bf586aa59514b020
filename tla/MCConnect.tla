------------------------------ MODULE MCConnect ------------------------------
(***************************************************************************)
(* Connect for TLC.                                                        *)
(***************************************************************************)
EXTENDS Connect

Hosts == {NoHost, Plain("name"), Plain("path"), [password |-> "host's", rest |-> "name"],
          [password |-> "host's", rest |-> "@name"]}

\* every host with every other, and a timeout of each kind: of the seconds, 3
\* fit, 4 wrap to zero and 5 wrap to another number
SomeGivens ==
    [host : Hosts, envHost : {NoHost, Plain("@name"), [password |-> "host's", rest |-> "name"]},
     port : {0, 1}, envPort : {0, 2}, timeout : {0, 1}, envTimeout : {0, 3, 4, 5},
     password : {NULL, "argument"}]

SomeWelcomes ==
    {[prefix |-> FALSE, numbers |-> <<>>], [prefix |-> TRUE, numbers |-> <<>>],
     [prefix |-> TRUE, numbers |-> <<1>>], [prefix |-> TRUE, numbers |-> <<0, 2>>],
     [prefix |-> TRUE, numbers |-> <<0, -1, 3, 4>>]}

SomeGarbage == {[i \in 1 .. 3 |-> 7]}
=============================================================================
