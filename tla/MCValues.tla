------------------------------ MODULE MCValues ------------------------------
(***************************************************************************)
(* Values for TLC.                                                         *)
(***************************************************************************)
EXTENDS Values

SomeDigits ==
    ("0" :> <<0>>) @@ ("1" :> <<1>>) @@ ("2" :> <<2>>) @@ ("64" :> <<6, 4>>)
    @@ ("16" :> <<1, 6>>) @@ ("234" :> <<2, 3, 4>>) @@ ("0007" :> <<0, 0, 0, 7>>)
    @@ ("2009" :> <<2, 0, 0, 9>>) @@ ("1971" :> <<1, 9, 7, 1>>) @@ ("02" :> <<0, 2>>) @@ ("6" :> <<6>>)

ADate == <<"2009", "-", "02", "-", "16", "T", "16", ":", "02", ":", "1", "Z">>

\* the same in the year in which London was an hour ahead in winter, too
AnOldDate == [ADate EXCEPT ![1] = "1971"]

\* a zone whose standard time was an hour ahead until October 1971, as London's
SomeZone(t) == IF t[1] = 1971 /\ t[2] < 11 THEN 7200 ELSE 3600

P(name, values) == {[name |-> name, value |-> v] : v \in values}

Dated == P("Last-Modified", {ADate, AnOldDate, <<"2009", "-", "02">>})

SomePairs ==
    [song |-> P("file", {<<"x">>, <<>>}) \cup P("Title", {<<"x">>, <<"y">>})
              \cup P("Time", {<<"2">>}) \cup P("Pos", {<<"1">>})
              \cup P("duration", {<<"1", ".", "6">>, <<"0", ".", "234">>})
              \cup P("Range", {<<"0", "-", "0", ".", "234">>, <<"-", "2">>, <<"1", "-">>})
              \cup P("RealUri", {<<"x">>, <<>>})
              \cup P("Format", {<<"dsd", "64", ":", "2">>}) \cup P("Last-Modified", {ADate}),
     directory |-> P("directory", {<<"x">>, <<"x", "/">>}) \cup Dated,
     playlist |-> P("playlist", {<<"x">>, <<>>}) \cup Dated,
     output |-> P("outputid", {<<"1">>}) \cup P("outputname", {<<"x">>, <<"y">>})
                \cup P("plugin", {<<"x">>}) \cup P("outputenabled", {<<"1">>})
                \cup P("attribute", {<<"x", "=", "y">>, <<"=", "y">>, <<"x">>}),
     mount |-> P("mount", {<<"x">>}) \cup P("storage", {<<"x">>, <<"y">>, <<>>}),
     neighbor |-> P("neighbor", {<<"x">>}) \cup P("name", {<<"x">>, <<"y">>}),
     partition |-> P("partition", {<<"x">>}),
     message |-> P("channel", {<<"x">>}) \cup P("message", {<<"x">>, <<"y">>}),
     status |-> P("volume", {<<"-", "1">>}) \cup P("state", {<<"play">>, <<"x">>})
                \cup P("single", {<<"oneshot">>}) \cup P("playlist", {<<"2">>})
                \cup P("repeat", {<<"1">>})
                \cup P("time", {<<"0", ":", "2">>, <<"2", ":", "64">>, <<"1">>})
                \cup P("elapsed", {<<"0", ".", "0">>, <<"1", ".", "6">>, <<"1", ".", "234">>, <<"0", ".", "6">>})
                \cup P("error", {<<"x">>, <<>>}) \cup P("partition", {<<"x">>, <<"y">>})
                \cup P("mixrampdb", {<<"-", "1", ".", "6">>})
                \cup P("audio", {<<"2009", ":", "16", ":", "2">>, <<"2009", ":", "f", ":", "2">>}),
     stats |-> P("songs", {<<"1">>, <<"2">>}) \cup P("uptime", {<<"64">>})]
=============================================================================
