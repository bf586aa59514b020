------------------------------- MODULE InStep -------------------------------
(***************************************************************************)
(* Why Connection is right for a careful client and a server that keeps    *)
(* the protocol: at any time, what the client still expects is what the    *)
(* requests on their way, the server and the lines on their way will still *)
(* give it, in that order and with nothing in between.  `Fit' says so; in  *)
(* StaysInStep it is part of an inductive invariant, from which the        *)
(* properties of Connection follow.                                        *)
(*                                                                         *)
(* The operators are about five values: the connection c, the requests     *)
(* awaiting an answer (aw), the requests on their way (q), the server s    *)
(* and the lines on their way (w).                                         *)
(***************************************************************************)
EXTENDS Connection

\* the requests on their way, the oldest first
queue == inbox \o outbuf

(* An error after which the connection is lost.  OOM is fatal as well, but  *)
(* leaves the connection in step, and mpd_flush() may replace it.          *)
Lost(e) == Fatal(e) /\ e # "OOM"

Discrete(c) == c.sendingList /\ c.sendingListOk

\* every request from position m to n is a "noidle" that comes too late
Noidles(q, m, n) == \A i \in m .. n : q[i].kind = "noidle"

\* the server has nothing to do
AtRest(s) == s.mode = "ready" /\ s.list = <<>> /\ s.id = 0

(***************************************************************************)
(* What the client expects.  Requests are numbered in a row, so that the   *)
(* numbers tell how many (sub-)responses there are: First is the one that  *)
(* the next line belongs to, Last the one that completes the response.     *)
(***************************************************************************)
Numbered(aw) ==
    /\ \A i \in 1 .. Len(aw) : aw[i].id = aw[1].id + i - 1
    /\ aw # <<>> => aw[1].id > 0

First(c, aw) ==
    IF c.sendingList /\ c.discreteFinished THEN aw[1].id + 1 ELSE aw[1].id

Last(aw) == aw[Len(aw)].id

\* a list is being sent
Gathering(c, aw) ==
    /\ ~c.discreteFinished
    /\ IF c.sendingListOk
       THEN /\ c.remaining = Len(aw)
            /\ \A i \in 1 .. Len(aw) : aw[i].kind = "cmd"
       ELSE c.remaining = 0 /\ aw = <<>>

\* a list has been sent: the last request is "command_list_end"
SentList(c, aw) ==
    /\ aw # <<>> /\ First(c, aw) <= Last(aw)
    /\ \A i \in 1 .. Len(aw) : aw[i].kind = IF i = Len(aw) THEN "end" ELSE "cmd"
    /\ IF c.sendingListOk
       THEN c.remaining = Last(aw) - First(c, aw)
       ELSE c.remaining = 0 /\ Len(aw) = 1 /\ ~c.discreteFinished

\* one request has been sent
SentOne(aw) == Len(aw) = 1 /\ aw[1].kind \in {"cmd", "idle"}

(***************************************************************************)
(* Where it is.                                                            *)
(***************************************************************************)
\* Behind position m of the queue is the part of a list that the server has not
\* got: together with the part that it has got, this is what the client awaits.
Remainder(m, c, aw, q, s) ==
    /\ c.receiving => Len(q) > m
    /\ IF c.sendingListOk
       THEN /\ Len(s.list) + Len(q) - m = Len(aw)
            /\ \A j \in 1 .. Len(s.list) : s.list[j] = aw[j].id
            /\ \A i \in m + 1 .. Len(q) : q[i] = aw[Len(s.list) + i - m]
       ELSE /\ \A i \in m + 1 .. Len(q) :
                  i < Len(q) \/ ~c.receiving => q[i].kind = "cmd"
            /\ c.receiving => q[Len(q)] = aw[1]

\* the server has not got the end of the list, or not even its beginning
ListUnderWay(c, aw, q, s, w) ==
    /\ w = <<>> /\ ~c.discreteFinished
    /\ \/ /\ s.mode = "list" /\ s.discrete = c.sendingListOk
          /\ Remainder(0, c, aw, q, s)
       \/ /\ AtRest(s)
          /\ \E m \in 1 .. Len(q) :
                /\ Noidles(q, 1, m - 1)
                /\ q[m].kind = IF c.sendingListOk THEN "begin_ok" ELSE "begin"
                /\ Remainder(m, c, aw, q, s)

\* the server has not got the request, or it is idling
OneUnderWay(aw, q, s, w) ==
    /\ w = <<>>
    /\ \/ /\ AtRest(s)
          /\ \E m \in 1 .. Len(q) :
                q[m] = aw[1] /\ Noidles(q, 1, m - 1) /\ Noidles(q, m + 1, Len(q))
       \/ /\ s.mode = "idle" /\ s.id = aw[1].id /\ aw[1].kind = "idle"
          /\ Noidles(q, 1, Len(q))

\* the (sub-)response that the line behind this one belongs to
Behind(line) == IF line.kind = "list_OK" THEN line.id + 1 ELSE line.id

Ends(line) == line.kind \in {"OK", "ACK"}

\* a line of some (sub-)response that the client expects
Expected(line, c, aw) ==
    /\ line.kind \in {"pair", "list_OK", "OK", "ACK"}
    /\ line.kind = "list_OK" => Discrete(c)
    /\ Discrete(c) /\ line.kind \in {"pair", "list_OK"} => line.id < Last(aw)
    /\ ~Discrete(c) \/ line.kind = "OK" => line.id = Last(aw)

\* The lines are those of the (sub-)responses that the client expects, in order:
\* only the last one may end the response.
Answers(c, aw, w) ==
    /\ w # <<>> => w[1].id = First(c, aw)
    /\ \A i \in 1 .. Len(w) : Expected(w[i], c, aw)
    /\ \A i \in 1 .. Len(w) - 1 : ~Ends(w[i]) /\ w[i + 1].id = Behind(w[i])
    /\ \A i, j \in 1 .. Len(w) : i < j => w[j].id >= Behind(w[i])

\* the (sub-)response that the server's next line belongs to
Upcoming(c, aw, w) == IF w = <<>> THEN First(c, aw) ELSE Behind(w[Len(w)])

\* the server is running a list: it has yet to run what was not answered
Running(c, aw, q, s, w) ==
    /\ s.mode = "run" /\ s.id = Last(aw) /\ s.discrete = c.sendingListOk
    /\ q = <<>>
    /\ Answers(c, aw, w)
    /\ \A i \in 1 .. Len(w) : ~Ends(w[i])
    /\ c.sendingListOk =>
          /\ Len(s.list) = Last(aw) - Upcoming(c, aw, w)
          /\ \A j \in 1 .. Len(s.list) : s.list[j] = Upcoming(c, aw, w) + j - 1

\* the (sub-)response that a server running a list is about to send
InHand(s) == IF s.discrete THEN Head(s.list) ELSE s.id

\* all of the response is on its way
Answered(c, aw, s, w) ==
    /\ AtRest(s)
    /\ Answers(c, aw, w)
    /\ w # <<>> /\ Ends(w[Len(w)])

\* nothing is expected, and nothing comes
Quiet(aw, q, s, w) ==
    AtRest(s) /\ aw = <<>> /\ w = <<>> /\ Noidles(q, 1, Len(q))

Fit(c, aw, q, s, w) ==
    IF c.receiving
    THEN /\ Numbered(aw)
         /\ IF c.sendingList
            THEN /\ SentList(c, aw)
                 /\ \/ ListUnderWay(c, aw, q, s, w)
                    \/ Running(c, aw, q, s, w)
                    \/ Answered(c, aw, s, w) /\ q = <<>>
            ELSE /\ SentOne(aw)
                 /\ \/ OneUnderWay(aw, q, s, w)
                    \/ Answered(c, aw, s, w) /\ Noidles(q, 1, Len(q))
    ELSE IF c.sendingList
    THEN Numbered(aw) /\ Gathering(c, aw) /\ ListUnderWay(c, aw, q, s, w)
    ELSE Quiet(aw, q, s, w)

(***************************************************************************)
(* The invariant.                                                          *)
(***************************************************************************)
\* A pair that was received or put back belongs to the first (sub-)response
\* awaited, whose end has not been received.
PairFits(c, aw) ==
    c.pairState \in {"FLOATING", "QUEUED"} =>
        /\ aw # <<>> /\ c.pair = aw[1].id
        /\ ~(c.sendingList /\ c.discreteFinished)

\* NULL was received or put back only where a (sub-)response has ended.
NullFits(c, r) ==
    (c.pairState = "NULL" \/ r = "end") /\ c.receiving =>
        Discrete(c) /\ c.discreteFinished

\* Only the commands of a list are held back, and they are numbered on from the
\* last one, unless one was refused, after which mpd_async refuses all.
HeldBack ==
    /\ ~conn.sendingList => outbuf = <<>>
    /\ ~conn.receiving /\ awaiting # <<>> /\ ~Defined(asyncError)
           => Last(awaiting) = sent

\* No loop goes on with an error, or with a NULL that it would take for an end.
LoopsRight ==
    /\ call = "finish" =>
          /\ conn.pairState \in {"NONE", "QUEUED"}
          /\ conn.receiving => ~Defined(conn.error) /\ result # "end"
    /\ call = "next" =>
          /\ ~Defined(conn.error) /\ conn.pairState = "NONE"
          /\ conn.receiving /\ Discrete(conn) /\ Len(awaiting) > 1
    /\ call = "recv_idle" => conn.pairState # "FLOATING"
    /\ call = "run_idle" => conn.pairState = "NONE" /\ ~conn.sendingList
    /\ result = "end" =>
          call \in {"none", "finish", "freed"} /\ ~Defined(conn.error)

\* Client, server and what is between them fit together: what is expected is
\* what will come, for as long as the connection is neither lost nor freed.
StaysInStep ==
    /\ ~Lost(conn.error) =>
          /\ call # "freed" => Fit(conn, awaiting, queue, server, wire) /\ HeldBack
          /\ PairFits(conn, awaiting)
          /\ NullFits(conn, result)
    /\ call = "freed" => wire = <<>> /\ link = "down"
    /\ LoopsRight
=============================================================================
