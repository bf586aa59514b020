------------------------------ MODULE Channel ------------------------------
(***************************************************************************)
(* What struct mpd_async promises its user: two first-in first-out queues  *)
(* of bytes that hold at most Size bytes each, one towards the server and  *)
(* one from it.  Nothing is lost, repeated or reordered in a queue.  Once  *)
(* the channel has failed, the server gets nothing more and nothing more   *)
(* comes from it, but what has come can still be taken.                    *)
(***************************************************************************)
EXTENDS Integers, Sequences

CONSTANT Size

VARIABLES outgoing, incoming, failed

Init == outgoing = <<>> /\ incoming = <<>> /\ failed = FALSE

\* s begins with all of t, or ends with all of t
Extends(s, t) == Len(s) >= Len(t) /\ \A i \in 1 .. Len(t) : s[i] = t[i]
EndsWith(s, t) ==
    /\ Len(s) >= Len(t)
    /\ \A i \in 1 .. Len(t) : t[i] = s[Len(s) - Len(t) + i]

\* a request is appended to the outgoing queue
Accept ==
    /\ ~failed
    /\ Extends(outgoing', outgoing) /\ Len(outgoing') <= Size
    /\ UNCHANGED <<incoming, failed>>

\* bytes come from the server, bytes go to it, and the channel may fail
Transfer ==
    /\ ~failed
    /\ Extends(incoming', incoming) /\ Len(incoming') <= Size
    /\ EndsWith(outgoing, outgoing')
    /\ failed' \in BOOLEAN

\* the user takes bytes
Take ==
    /\ EndsWith(incoming, incoming')
    /\ UNCHANGED <<outgoing, failed>>

\* the channel fails on its own
Fail == ~failed /\ failed' /\ UNCHANGED <<outgoing, incoming>>

Next == Accept \/ Transfer \/ Take \/ Fail

Spec == Init /\ [][Next]_<<outgoing, incoming, failed>>
=============================================================================
