-------------------------- MODULE ConnectionProofs --------------------------
(***************************************************************************)
(* Theorems about Connection, for every number of requests and pairs.      *)
(*                                                                         *)
(* The first are about every server and every client the constants allow:  *)
(* types, what is flushed before what is received, fatal errors, and       *)
(* command_list_remaining.  The others are about a careful client of a     *)
(* server that keeps the protocol, and rest on StaysInStep, which says     *)
(* where everything is that the client still expects.                      *)
(***************************************************************************)
EXTENDS InStep, SequenceTheorems, TLAPS

(***************************************************************************)
(* The operators of the model stay within their types.                     *)
(***************************************************************************)
\* Any part of a sequence is a sequence of the same elements.
LEMMA PartType ==
    ASSUME NEW S, NEW s \in Seq(S), NEW m \in Nat \ {0}, NEW n \in 0 .. Len(s)
    PROVE  SubSeq(s, m, n) \in Seq(S)
<1>1. CASE m <= n
  BY <1>1, SubSeqProperties
<1>2. CASE n < m
  <2>1. SubSeq(s, m, n) = <<>>
    BY <1>2, SubSeqEmpty
  <2> QED BY <2>1, EmptySeq
<1> QED BY <1>1, <1>2

\* what sending can leave behind when all requests are of S
OutcomesOf(S) == [out : Seq(S), in : Seq(S), err : Errors]

\* What a flush leaves is made of the same requests.
LEMMA DrainedOf ==
    ASSUME NEW S, NEW p \in Seq(S), NEW in \in Seq(S),
           NEW k \in 0 .. Len(p), NEW e \in Errors
    PROVE  Drained(p, in, k, e) \in OutcomesOf(S)
<1>1. SubSeq(p, k + 1, Len(p)) \in Seq(S)
  BY PartType
<1>2. SubSeq(p, 1, k) \in Seq(S)
  BY PartType
<1>3. in \o SubSeq(p, 1, k) \in Seq(S)
  BY <1>2, ConcatProperties
<1> QED BY <1>1, <1>3 DEF Drained, OutcomesOf

\* So are the outcomes of mpd_sync_flush(), whether it fails or not.
LEMMA FlushesOf ==
    ASSUME NEW S, NEW p \in Seq(S), NEW in \in Seq(S), asyncError \in Errors
    PROVE  \A q \in IOFailures(p, in) \cup Flushes(p, in) : q \in OutcomesOf(S)
<1>1. ASSUME NEW q \in IOFailures(p, in) PROVE q \in OutcomesOf(S)
  <2>1. PICK k \in 0 .. Len(p) - 1, e \in IOErrors : q = Drained(p, in, k, e)
    BY DEF IOFailures
  <2>2. k \in 0 .. Len(p) /\ e \in Errors
    BY DEF IOErrors, Errors
  <2> QED BY <2>1, <2>2, DrainedOf
<1>2. Drained(p, in, Len(p), "SUCCESS") \in OutcomesOf(S)
  BY DrainedOf DEF Errors
<1>3. [out |-> p, in |-> in, err |-> asyncError] \in OutcomesOf(S)
  BY DEF OutcomesOf
<1> QED BY <1>1, <1>2, <1>3 DEF Flushes

\* Enqueueing adds nothing but the request.
LEMMA EnqueuesOf ==
    ASSUME NEW S, outbuf \in Seq(S), inbox \in Seq(S), asyncError \in Errors,
           NEW req \in S, NEW long \in BOOLEAN, NEW q \in Enqueues(req, long)
    PROVE  q \in OutcomesOf(S)
<1>1. \A x \in IOFailures(outbuf, inbox) : x \in OutcomesOf(S)
  BY FlushesOf
<1>2. Drained(outbuf, inbox, Len(outbuf), "ARGUMENT") \in OutcomesOf(S)
  BY DrainedOf DEF Errors
<1>3. ASSUME NEW k \in 0 .. Len(outbuf)
      PROVE  [out |-> Append(SubSeq(outbuf, k + 1, Len(outbuf)), req),
              in |-> inbox \o SubSeq(outbuf, 1, k), err |-> "SUCCESS"] \in OutcomesOf(S)
  <2>1. Drained(outbuf, inbox, k, "SUCCESS") \in OutcomesOf(S)
    BY DrainedOf DEF Errors
  <2>2. Append(SubSeq(outbuf, k + 1, Len(outbuf)), req) \in Seq(S)
    BY <2>1, AppendProperties DEF Drained, OutcomesOf
  <2> QED BY <2>1, <2>2 DEF Drained, OutcomesOf
<1>4. [out |-> outbuf, in |-> inbox, err |-> asyncError] \in OutcomesOf(S)
  BY DEF OutcomesOf
<1>5. CASE Defined(asyncError)
  BY <1>4, <1>5 DEF Enqueues
<1>6. CASE q \in IOFailures(outbuf, inbox)
  BY <1>1, <1>6
<1>7. CASE ~Defined(asyncError) /\ q \notin IOFailures(outbuf, inbox)
  <2>1. CASE long
    BY <1>2, <1>7, <2>1 DEF Enqueues
  <2>2. CASE ~long
    BY <1>3, <1>7, <2>2 DEF Enqueues
  <2> QED BY <2>1, <2>2
<1> QED BY <1>5, <1>6, <1>7

\* Neither does sending, with or without a flush.
LEMMA SendsOf ==
    ASSUME NEW S, outbuf \in Seq(S), inbox \in Seq(S), asyncError \in Errors,
           NEW req \in S, NEW long \in BOOLEAN, NEW flush \in BOOLEAN,
           NEW o \in Sends(req, long, flush)
    PROVE  o \in OutcomesOf(S)
<1>1. CASE o \in Enqueues(req, long)
  BY <1>1, EnqueuesOf
<1>2. CASE o \notin Enqueues(req, long)
  <2>1. PICK q \in Enqueues(req, long) : o \in Flushes(q.out, q.in)
    BY <1>2 DEF Sends
  <2>2. q \in OutcomesOf(S)
    BY EnqueuesOf
  <2>3. q.out \in Seq(S) /\ q.in \in Seq(S)
    BY <2>2 DEF OutcomesOf
  <2> QED BY <2>1, <2>3, FlushesOf
<1> QED BY <1>1, <1>2

\* Requests go into the output buffer and to the server, and with them an error code.
LEMMA FlushesType ==
    ASSUME TypeOK, NEW p \in Seq(Request), NEW in \in Seq(Request)
    PROVE  \A q \in IOFailures(p, in) \cup Flushes(p, in) :
               q \in [out : Seq(Request), in : Seq(Request), err : Errors]
<1>1. asyncError \in Errors
  BY DEF TypeOK
<1> QED BY <1>1, FlushesOf DEF OutcomesOf

LEMMA EnqueuesType ==
    ASSUME TypeOK, NEW req \in Request, NEW long \in BOOLEAN,
           NEW q \in Enqueues(req, long)
    PROVE  q \in [out : Seq(Request), in : Seq(Request), err : Errors]
<1>1. outbuf \in Seq(Request) /\ inbox \in Seq(Request) /\ asyncError \in Errors
  BY DEF TypeOK
<1>2. q \in OutcomesOf(Request)
  BY <1>1, EnqueuesOf
<1> QED BY <1>2 DEF OutcomesOf

LEMMA SendsType ==
    ASSUME TypeOK, NEW req \in Request, NEW long \in BOOLEAN,
           NEW flush \in BOOLEAN, NEW o \in Sends(req, long, flush)
    PROVE  o \in [out : Seq(Request), in : Seq(Request), err : Errors]
<1>1. outbuf \in Seq(Request) /\ inbox \in Seq(Request) /\ asyncError \in Errors
  BY DEF TypeOK
<1>2. o \in OutcomesOf(Request)
  BY <1>1, SendsOf
<1> QED BY <1>2 DEF OutcomesOf

\* A line taken from the wire leaves a well-typed connection.
LEMMA FeedType ==
    ASSUME NEW c \in Connection, NEW line \in Line
    PROVE  Feed(c, line) \in Connection
<1>1. \A e \in Errors : SetError(c, e) \in Connection
  BY DEF SetError, Connection, Defined
<1>2. FeedOK(c) \in Connection
  <2> DEFINE checked == IF c.sendingList /\ c.remaining > 0
                        THEN [SetError(c, "MALFORMED") EXCEPT !.remaining = 0]
                        ELSE c
  <2>1. SetError(c, "MALFORMED") \in Connection
    BY <1>1 DEF Errors
  <2>2. checked \in Connection
    BY <2>1 DEF Connection
  <2>3. FeedOK(c) = [checked EXCEPT !.receiving = FALSE, !.sendingList = FALSE,
                                    !.discreteFinished = FALSE]
    BY DEF FeedOK
  <2> HIDE DEF checked
  <2> QED BY <2>2, <2>3 DEF Connection
<1>3. FeedListOK(c) \in Connection
  <2>1. SetError(c, "MALFORMED") \in Connection
    BY <1>1 DEF Errors
  <2>2. \A r \in Int :
          [c EXCEPT !.discreteFinished = TRUE, !.remaining = r] \in Connection
    BY DEF Connection
  <2>3. c.remaining - 1 \in Int
    BY DEF Connection
  <2> QED BY <2>1, <2>2, <2>3 DEF FeedListOK
<1>4. FeedACK(c) \in Connection
  <2> DEFINE failed == SetError(c, "SERVER")
  <2>1. failed \in Connection
    BY <1>1 DEF Errors
  <2>2. FeedACK(c) = [failed EXCEPT !.receiving = FALSE, !.sendingList = FALSE]
    BY DEF FeedACK
  <2> HIDE DEF failed
  <2> QED BY <2>1, <2>2 DEF Connection
<1>5. [c EXCEPT !.pairState = "FLOATING", !.pair = line.id] \in Connection
  BY DEF Connection, PairStates, Line
<1>6. [SetError(c, "MALFORMED") EXCEPT !.receiving = FALSE] \in Connection
  <2>1. \A d \in Connection : [d EXCEPT !.receiving = FALSE] \in Connection
    BY DEF Connection
  <2>2. SetError(c, "MALFORMED") \in Connection
    BY <1>1 DEF Errors
  <2> QED BY <2>1, <2>2
<1> QED BY <1>2, <1>3, <1>4, <1>5, <1>6 DEF Feed

\* mpd_recv_pair() leaves a well-typed connection, wire and async error.
LEMMA RecvPairsType ==
    ASSUME TypeOK, NEW c \in Connection, NEW o \in RecvPairs(c)
    PROVE  o.conn \in Connection /\ o.wire \in Seq(Line) /\ o.async \in Errors
<1> DEFINE Typed(x) ==
        x.conn \in Connection /\ x.wire \in Seq(Line) /\ x.async \in Errors
<1>0. wire \in Seq(Line) /\ asyncError \in Errors
  BY DEF TypeOK
<1>1. ASSUME NEW d \in Connection PROVE Typed(Answer(d))
  BY <1>0 DEF Answer
<1>2. /\ [c EXCEPT !.pairState = "NONE"] \in Connection
      /\ [c EXCEPT !.pairState = "FLOATING"] \in Connection
      /\ SetError(c, "STATE") \in Connection
  BY DEF Connection, PairStates, SetError, Errors, Defined
<1>3. ASSUME NEW x \in LineReads(c) PROVE Typed(x)
  <2>1. wire # <<>>
    BY DEF LineReads
  <2>2. Head(wire) \in Line /\ Tail(wire) \in Seq(Line)
    BY <1>0, <2>1, HeadTailProperties
  <2>3. x = [conn |-> Feed(c, Head(wire)), wire |-> Tail(wire), async |-> asyncError]
    BY <2>1 DEF LineReads
  <2> QED BY <1>0, <2>2, <2>3, FeedType
<1>4. ASSUME NEW x \in FailedReads(c) PROVE Typed(x)
  <2>1. PICK e \in ReadErrors :
          x = [conn |-> SyncError([c EXCEPT !.receiving = FALSE,
                                            !.sendingList = FALSE], e),
               wire |-> wire, async |-> AsyncAfter(e)]
    BY DEF FailedReads
  <2>2. e \in Errors
    BY <1>0 DEF ReadErrors, IOErrors, Errors
  <2> QED BY <1>0, <2>1, <2>2 DEF SyncError, AsyncAfter, Connection
<1> QED BY <1>1, <1>2, <1>3, <1>4 DEF RecvPairs

\* The other operators on connections keep their type.
LEMMA ConnectionType ==
    ASSUME NEW c \in Connection
    PROVE  /\ \A e \in Errors : SetError(c, e) \in Connection /\ SyncError(c, e) \in Connection
           /\ Commanded(c) \in Connection
           /\ Returned(c) \in Connection /\ Finishing(c) \in Connection
           /\ SendCheck(c) \in Connection /\ RunCheck(c) \in Connection
           /\ Cleared(c) \in Connection
           /\ \A b \in BOOLEAN : /\ Listing(c, b) \in Connection
                                 /\ [c EXCEPT !.receiving = b] \in Connection
                                 /\ [c EXCEPT !.sendingList = b] \in Connection
                                 /\ [c EXCEPT !.discreteFinished = b] \in Connection
                                 /\ [c EXCEPT !.asserts = b] \in Connection
           /\ \A p \in PairStates : [c EXCEPT !.pairState = p] \in Connection
<1>1. \A e \in Errors : SetError(c, e) \in Connection /\ SyncError(c, e) \in Connection
  BY DEF SetError, SyncError, Connection, Defined
<1>2. Commanded(c) \in Connection
  <2>1. \A r \in Int : [c EXCEPT !.remaining = r] \in Connection
    BY DEF Connection
  <2>2. c.remaining + 1 \in Int
    BY DEF Connection
  <2>3. [c EXCEPT !.receiving = TRUE] \in Connection
    BY DEF Connection
  <2> QED BY <2>1, <2>2, <2>3 DEF Commanded
<1>3. \A p \in PairStates : [c EXCEPT !.pairState = p] \in Connection
  BY DEF Connection
<1>4. Returned(c) \in Connection /\ Finishing(c) \in Connection
  BY <1>3 DEF Returned, Finishing, PairStates
<1>5. SendCheck(c) \in Connection /\ RunCheck(c) \in Connection
  BY <1>1 DEF SendCheck, RunCheck, Errors
<1>6. Cleared(c) \in Connection
  BY DEF Cleared, Connection, Errors
<1>7. \A b \in BOOLEAN : /\ Listing(c, b) \in Connection
                         /\ [c EXCEPT !.receiving = b] \in Connection
                         /\ [c EXCEPT !.sendingList = b] \in Connection
                         /\ [c EXCEPT !.discreteFinished = b] \in Connection
                         /\ [c EXCEPT !.asserts = b] \in Connection
  <2> SUFFICES ASSUME NEW b \in BOOLEAN
               PROVE  /\ Listing(c, b) \in Connection
                      /\ [c EXCEPT !.receiving = b] \in Connection
                      /\ [c EXCEPT !.sendingList = b] \in Connection
                      /\ [c EXCEPT !.discreteFinished = b] \in Connection
                      /\ [c EXCEPT !.asserts = b] \in Connection
    OBVIOUS
  <2>1. Listing(c, b) \in Connection
    <3>1. 0 \in Int
      OBVIOUS
    <3>2. \A r \in Int : [c EXCEPT !.sendingList = TRUE, !.sendingListOk = b,
                                   !.remaining = r, !.discreteFinished = FALSE] \in Connection
      BY DEF Connection
    <3> QED BY <3>1, <3>2 DEF Listing
  <2>2. [c EXCEPT !.receiving = b] \in Connection /\ [c EXCEPT !.sendingList = b] \in Connection
    BY DEF Connection
  <2>3. [c EXCEPT !.discreteFinished = b] \in Connection /\ [c EXCEPT !.asserts = b] \in Connection
    BY DEF Connection
  <2> QED BY <2>1, <2>2, <2>3
<1> QED BY <1>1, <1>2, <1>3, <1>4, <1>5, <1>6, <1>7

\* The client's history stays a sequence of requests.
LEMMA HistoryType ==
    ASSUME TypeOK
    PROVE  /\ \A kind \in Kinds : NextRequest(kind) \in Request
           /\ Following \in Seq(Request)
           /\ \A c \in Connection, d \in Connection : Outstanding(c, d) \in Seq(Request)
           /\ \A c \in Connection, r \in Request : Appended(c, r) \in Seq(Request)
           /\ \A r \in Request : <<r>> \in Seq(Request) /\ Append(awaiting, r) \in Seq(Request)
<1>1. awaiting \in Seq(Request) /\ sent \in Nat /\ <<>> \in Seq(Request)
  BY DEF TypeOK
<1>2. \A kind \in Kinds : NextRequest(kind) \in Request
  BY <1>1 DEF NextRequest, Request
<1>3. Following \in Seq(Request)
  <2>1. CASE awaiting = <<>>
    BY <2>1, <1>1, SubSeqEmpty DEF Following
  <2>2. CASE awaiting # <<>>
    BY <2>2, <1>1, TailIsSubSeq, HeadTailProperties DEF Following
  <2> QED BY <2>1, <2>2
<1>4. \A r \in Request : <<r>> \in Seq(Request) /\ Append(awaiting, r) \in Seq(Request)
  BY <1>1, AppendProperties
<1> QED BY <1>1, <1>2, <1>3, <1>4 DEF Outstanding, Appended

\* Every library step and every call of the client keeps the types.
LEMMA CallsKeepTypes ==
    ASSUME TypeOK, ClientCall \/ LibraryStep
    PROVE  TypeOK'
<1> USE DEF Idle
<1>0. /\ conn \in Connection /\ asyncError \in Errors /\ outbuf \in Seq(Request)
      /\ timeout \in BOOLEAN /\ call \in Calls /\ result \in Results
      /\ inbox \in Seq(Request) /\ server \in Server /\ wire \in Seq(Line)
      /\ link \in {"up", "down"} /\ sent \in Nat /\ awaiting \in Seq(Request)
  BY DEF TypeOK
<1>1. \A c \in Connection : Received(c) \in Results /\ Succeeded(c) \in Results
  BY DEF Received, Succeeded, Results
<1>2. ASSUME NEW c \in Connection, Refused(c) PROVE TypeOK'
  BY <1>0, <1>2 DEF Refused, TypeOK, environment, history, Results
<1>3. ASSUME RecvPair PROVE TypeOK'
  BY <1>0, <1>1, <1>3, RecvPairsType, HistoryType DEF RecvPair, Took, TypeOK
<1>4. ASSUME ReturnPair \/ EnqueuePair \/ EnqueueNull PROVE TypeOK'
  BY <1>0, <1>4, ConnectionType
     DEF ReturnPair, EnqueuePair, EnqueueNull, TypeOK, environment, history,
         Results, PairStates
<1>5. ASSUME ResponseFinish PROVE TypeOK'
  BY <1>0, <1>2, <1>5, ConnectionType
     DEF ResponseFinish, TypeOK, environment, history, Results, Calls
<1>6. ASSUME FinishStep PROVE TypeOK'
  <2> DEFINE entered == [conn EXCEPT !.discreteFinished = FALSE,
                                     !.asserts = @ \/ Defined(conn.error)]
  <2>1. entered \in Connection
    BY <1>0 DEF Connection, Defined
  <2> HIDE DEF entered
  <2>2. PICK o \in RecvPairs(entered) :
          /\ \E b \in BOOLEAN : conn' = [Returned(o.conn) EXCEPT !.asserts = b]
          /\ Took(o)
          /\ \/ awaiting' = <<>>
             \/ awaiting' = Following
             \/ awaiting' = awaiting
    <3>1. PICK o \in RecvPairs(entered) :
          LET progress == \/ o.conn.pairState = "FLOATING"
                          \/ ~o.conn.receiving
                          \/ o.conn.sendingList /\ o.conn.discreteFinished
                          \/ Defined(o.conn.error)
          IN  /\ conn' = [Returned(o.conn) EXCEPT !.asserts = @ \/ ~progress]
              /\ Took(o)
              /\ awaiting' = IF ~o.conn.receiving THEN <<>>
                             ELSE IF conn.sendingList /\ conn.discreteFinished
                             THEN Following
                             ELSE awaiting
      BY <1>6 DEF FinishStep, entered
    <3>2. Returned(o.conn) \in Connection
      BY <2>1, RecvPairsType, ConnectionType
    <3> DEFINE b == \/ Returned(o.conn).asserts
                    \/ ~(\/ o.conn.pairState = "FLOATING"
                         \/ ~o.conn.receiving
                         \/ o.conn.sendingList /\ o.conn.discreteFinished
                         \/ Defined(o.conn.error))
    <3>3. conn' = [Returned(o.conn) EXCEPT !.asserts = b] /\ b \in BOOLEAN
      BY <3>1
    <3> HIDE DEF b
    <3> QED BY <3>1, <3>3
  <2>3. o.conn \in Connection /\ o.wire \in Seq(Line) /\ o.async \in Errors
    BY <2>1, RecvPairsType
  <2>4. conn' \in Connection
    <3>1. Returned(o.conn) \in Connection
      BY <2>3, ConnectionType
    <3>2. \A b \in BOOLEAN : [Returned(o.conn) EXCEPT !.asserts = b] \in Connection
      BY <3>1, ConnectionType
    <3> QED BY <2>2, <3>2
  <2>5. awaiting' \in Seq(Request) /\ wire' \in Seq(Line) /\ asyncError' \in Errors
    BY <1>0, <2>2, <2>3, HistoryType, EmptySeq DEF Took
  <2> QED BY <1>0, <1>6, <2>4, <2>5 DEF FinishStep, TypeOK
<1>7. ASSUME FinishReturns PROVE TypeOK'
  BY <1>0, <1>1, <1>7 DEF FinishReturns, TypeOK, environment, history, Calls
<1>8. ASSUME ResponseNext PROVE TypeOK'
  BY <1>0, <1>2, <1>8, ConnectionType
     DEF ResponseNext, TypeOK, environment, history, Results, Calls, Errors
<1>9. ASSUME NextStep PROVE TypeOK'
  <2>1. PICK o \in RecvPairs(conn) :
          /\ conn' = Returned(o.conn)
          /\ Took(o)
          /\ awaiting' = Outstanding(conn, o.conn)
          /\ IF Defined(o.conn.error)
             THEN call' = "none" /\ result' = "false"
             ELSE UNCHANGED <<call, result>>
    BY <1>9 DEF NextStep
  <2>2. o.conn \in Connection /\ o.wire \in Seq(Line) /\ o.async \in Errors
    BY <1>0, RecvPairsType
  <2>3. conn' \in Connection /\ awaiting' \in Seq(Request)
    BY <1>0, <2>1, <2>2, ConnectionType, HistoryType
  <2>4. call' \in Calls /\ result' \in Results
    BY <1>0, <2>1 DEF Calls, Results
  <2> QED BY <1>0, <1>9, <2>1, <2>2, <2>3, <2>4 DEF NextStep, Took, TypeOK
<1>10. ASSUME NextGivesUp PROVE TypeOK'
  BY <1>0, <1>10, ConnectionType
     DEF NextGivesUp, TypeOK, environment, history, Results, Calls, Errors
<1>11. ASSUME NextReturns PROVE TypeOK'
  BY <1>0, <1>11, ConnectionType, HistoryType
     DEF NextReturns, TypeOK, environment, Results, Calls
<1>12. ASSUME NEW kind \in Kinds, NEW long \in BOOLEAN, NEW flush \in BOOLEAN,
              NEW o \in Sends(NextRequest(kind), long, flush), Transmitted(o)
       PROVE  /\ outbuf' \in Seq(Request) /\ inbox' \in Seq(Request)
              /\ asyncError' \in Errors /\ sent' \in Nat
              /\ o.err \in Errors
              /\ \A c \in Connection : AfterSend(c, o) \in Connection /\ SyncError(c, o.err) \in Connection
  <2>1. o \in [out : Seq(Request), in : Seq(Request), err : Errors]
    BY <1>12, SendsType, HistoryType
  <2> QED BY <1>0, <1>12, <2>1, ConnectionType DEF Transmitted, AsyncAfter, AfterSend, Errors
<1>13. ASSUME NEW kind \in {"cmd", "idle"}, NEW long \in BOOLEAN, SendCommand(kind, long)
       PROVE  TypeOK'
  <2>1. CASE ~MaySend(conn)
    BY <1>0, <1>2, <1>13, <2>1, ConnectionType DEF SendCommand
  <2>2. CASE MaySend(conn)
    <3>1. PICK o \in Sends(NextRequest(kind), long, ~conn.sendingList) :
            /\ Transmitted(o)
            /\ conn' = AfterSend(conn, o)
            /\ result' = IF Defined(o.err) THEN "false" ELSE "true"
            /\ awaiting' = IF Defined(o.err) THEN awaiting
                           ELSE Appended(conn, NextRequest(kind))
            /\ UNCHANGED <<timeout, call, environment>>
      BY <1>13, <2>2 DEF SendCommand
    <3>2. (~conn.sendingList) \in BOOLEAN /\ kind \in Kinds
      BY DEF Kinds
    <3>3. /\ outbuf' \in Seq(Request) /\ inbox' \in Seq(Request)
          /\ asyncError' \in Errors /\ sent' \in Nat /\ conn' \in Connection
      BY <1>0, <1>12, <3>1, <3>2
    <3>4. awaiting' \in Seq(Request) /\ result' \in Results
      BY <1>0, <3>1, <3>2, HistoryType DEF Results
    <3> QED BY <1>0, <3>1, <3>3, <3>4 DEF TypeOK, environment
  <2> QED BY <2>1, <2>2
<1>14. ASSUME NEW kind \in {"cmd", "idle"}, Run(kind) PROVE TypeOK'
  <2>1. CASE conn.sendingList \/ ~MaySend(conn)
    BY <1>0, <1>2, <1>14, <2>1, ConnectionType DEF Run
  <2>2. CASE ~(conn.sendingList \/ ~MaySend(conn))
    <3>1. Commanded(conn) \in Connection /\ Finishing(Commanded(conn)) \in Connection
      BY <1>0, ConnectionType
    <3>2. timeout' \in BOOLEAN /\ call' \in Calls /\ result' \in Results
      BY <1>0, <1>14, <2>2 DEF Run, Calls, Results
    <3>3. kind \in Kinds
      BY DEF Kinds
    <3>4. PICK o \in Sends(NextRequest(kind), FALSE, TRUE) :
            /\ Transmitted(o)
            /\ conn' \in {SyncError(conn, o.err), Finishing(Commanded(conn)), Commanded(conn)}
            /\ awaiting' \in {awaiting, <<NextRequest(kind)>>}
            /\ UNCHANGED environment
      BY <1>14, <2>2 DEF Run
    <3>5. /\ outbuf' \in Seq(Request) /\ inbox' \in Seq(Request)
          /\ asyncError' \in Errors /\ sent' \in Nat
          /\ SyncError(conn, o.err) \in Connection
      BY <1>0, <1>12, <3>3, <3>4
    <3>6. conn' \in Connection
      BY <3>1, <3>4, <3>5
    <3>7. awaiting' \in Seq(Request)
      BY <1>0, <3>3, <3>4, HistoryType
    <3> QED BY <1>0, <3>2, <3>4, <3>5, <3>6, <3>7 DEF TypeOK, environment
  <2> QED BY <2>1, <2>2
<1>15. ASSUME NEW discrete \in BOOLEAN, ListBegin(discrete) PROVE TypeOK'
  <2>1. CASE conn.sendingList \/ ~MaySend(conn)
    BY <1>0, <1>2, <1>15, <2>1, ConnectionType DEF ListBegin, Errors
  <2>2. CASE ~conn.sendingList /\ MaySend(conn)
    <3> DEFINE kind == IF discrete THEN "begin_ok" ELSE "begin"
    <3>1. PICK o \in Sends(NextRequest(kind), FALSE, FALSE) :
            /\ Transmitted(o)
            /\ conn' = IF Defined(o.err) THEN SyncError(conn, o.err)
                       ELSE Listing(conn, discrete)
            /\ result' = IF Defined(o.err) THEN "false" ELSE "true"
            /\ awaiting' = <<>>
            /\ UNCHANGED <<timeout, call, environment>>
      BY <1>15, <2>2 DEF ListBegin
    <3>2. kind \in Kinds
      BY DEF Kinds
    <3> HIDE DEF kind
    <3>3. /\ outbuf' \in Seq(Request) /\ inbox' \in Seq(Request)
          /\ asyncError' \in Errors /\ sent' \in Nat /\ conn' \in Connection
      BY <1>0, <1>12, <3>1, <3>2, ConnectionType
    <3>4. awaiting' \in Seq(Request) /\ result' \in Results
      BY <3>1, EmptySeq DEF Results
    <3> QED BY <1>0, <3>1, <3>3, <3>4 DEF TypeOK, environment
  <2> QED BY <2>1, <2>2
<1>16. ASSUME ListEnd PROVE TypeOK'
  <2>1. CASE ~conn.sendingList \/ ~MaySend(conn)
    BY <1>0, <1>2, <1>16, <2>1, ConnectionType DEF ListEnd, Errors
  <2>2. CASE conn.sendingList /\ MaySend(conn)
    <3>1. PICK o \in Sends(NextRequest("end"), FALSE, TRUE) :
            LET after == AfterSend([conn EXCEPT !.sendingList = FALSE], o)
            IN  /\ Transmitted(o)
                /\ conn' = [after EXCEPT
                              !.sendingList = TRUE,
                              !.asserts = @ \/ ~(after.receiving \/ Defined(o.err))]
                /\ result' = IF Defined(o.err) THEN "false" ELSE "true"
                /\ awaiting' = IF Defined(o.err) THEN awaiting
                               ELSE Append(awaiting, NextRequest("end"))
                /\ UNCHANGED <<timeout, call, environment>>
      BY <1>16, <2>2 DEF ListEnd
    <3> DEFINE after == AfterSend([conn EXCEPT !.sendingList = FALSE], o)
    <3>2. after \in Connection
      BY <1>0, <1>12, <3>1, ConnectionType DEF Kinds
    <3>3. conn' = [after EXCEPT
                     !.sendingList = TRUE,
                     !.asserts = @ \/ ~(after.receiving \/ Defined(o.err))]
      BY <3>1
    <3> HIDE DEF after
    <3>4. conn' \in Connection
      BY <3>2, <3>3 DEF Connection
    <3> QED BY <1>0, <1>12, <3>1, <3>4, HistoryType DEF TypeOK, environment, Results, Kinds
  <2> QED BY <2>1, <2>2
<1>17. ASSUME NEW run \in BOOLEAN, Noidle(run) PROVE TypeOK'
  <2> DEFINE ready == [conn EXCEPT !.receiving = FALSE]
  <2>1. ready \in Connection
    BY <1>0, ConnectionType
  <2>2. CASE Defined(conn.error)
    BY <1>0, <1>2, <1>17, <2>1, <2>2 DEF Noidle
  <2>3. CASE ~Defined(conn.error)
    <3>1. PICK o \in Sends(NextRequest("noidle"), FALSE, TRUE) :
            /\ Transmitted(o)
            /\ conn' = AfterSend(ready, o)
            /\ call' = IF run /\ ~Defined(o.err) THEN "run_idle" ELSE "none"
            /\ result' = IF Defined(o.err) THEN "false" ELSE "true"
            /\ UNCHANGED <<timeout, environment, awaiting>>
      BY <1>17, <2>3 DEF Noidle
    <3>2. /\ outbuf' \in Seq(Request) /\ inbox' \in Seq(Request)
          /\ asyncError' \in Errors /\ sent' \in Nat /\ conn' \in Connection
      BY <1>12, <2>1, <3>1 DEF Kinds
    <3>3. call' \in Calls /\ result' \in Results
      BY <3>1 DEF Calls, Results
    <3> QED BY <1>0, <3>1, <3>2, <3>3 DEF TypeOK, environment
  <2> QED BY <2>2, <2>3
<1>18. ASSUME NEW o \in Flushes(outbuf, inbox)
       PROVE  /\ o.out \in Seq(Request) /\ o.in \in Seq(Request) /\ o.err \in Errors
              /\ AsyncAfter(o.err) \in Errors /\ SyncError(conn, o.err) \in Connection
  <2>1. o \in [out : Seq(Request), in : Seq(Request), err : Errors]
    BY <1>0, FlushesType
  <2> QED BY <1>0, <2>1, ConnectionType DEF AsyncAfter
<1>19. ASSUME Flush PROVE TypeOK'
  BY <1>0, <1>18, <1>19 DEF Flush, TypeOK, environment, history, Results
<1>20. ASSUME NEW disable \in BOOLEAN, RecvIdle(disable) PROVE TypeOK'
  BY <1>0, <1>18, <1>20 DEF RecvIdle, TypeOK, environment, history, Results, Calls, AsyncAfter, Defined
<1>21. ASSUME RecvIdleStep PROVE TypeOK'
  BY <1>0, <1>21, RecvPairsType, ConnectionType DEF RecvIdleStep, Took, TypeOK, history
<1>22. ASSUME RecvIdleReturns PROVE TypeOK'
  BY <1>0, <1>1, <1>22, RecvPairsType, HistoryType
     DEF RecvIdleReturns, RestoredTimeout, Took, TypeOK, Calls
<1>23. ASSUME ClearError PROVE TypeOK'
  BY <1>0, <1>1, <1>23, ConnectionType DEF ClearError, TypeOK, environment, history
<1>24. ASSUME Free PROVE TypeOK'
  BY <1>0, <1>24, EmptySeq DEF Free, TypeOK, history, Calls
<1>25. ASSUME BadArgument \/ OutOfTurn \/ OutOfMemory \/ Declined PROVE TypeOK'
  BY <1>0, <1>2, <1>25, ConnectionType DEF BadArgument, OutOfTurn, OutOfMemory, Declined, Errors
<1> QED BY <1>3, <1>4, <1>5, <1>6, <1>7, <1>8, <1>9, <1>10, <1>11, <1>13, <1>14,
           <1>15, <1>16, <1>17, <1>19, <1>20, <1>21, <1>22, <1>23, <1>24,
           <1>25 DEF ClientCall, LibraryStep

\* The server's answers are lines.
LEMMA LinesType ==
    ASSUME TypeOK, NEW n \in 0 .. MaxPairs, NEW id \in Nat
    PROVE  /\ wire \o Lines(n, id) \in Seq(Line)
           /\ \A kind \in LineKinds :
                wire \o Append(Lines(n, id), [kind |-> kind, id |-> id]) \in Seq(Line)
<1>1. n \in Nat /\ wire \in Seq(Line)
  BY ConstantsAssumption DEF TypeOK
<1>2. [kind |-> "pair", id |-> id] \in Line
  BY DEF Line, LineKinds
<1>3. Lines(n, id) \in [1 .. n -> Line]
  BY <1>2 DEF Lines
<1>4. Lines(n, id) \in Seq(Line)
  BY <1>1, <1>3, SeqDef
<1>5. \A kind \in LineKinds : Append(Lines(n, id), [kind |-> kind, id |-> id]) \in Seq(Line)
  BY <1>4, AppendProperties DEF Line
<1> QED BY <1>1, <1>4, <1>5, ConcatProperties

\* Every step of the server and of the network keeps the types.
LEMMA EnvironmentKeepsTypes ==
    ASSUME TypeOK, ServerStep \/ HangUp \/ Misbehave
    PROVE  TypeOK'
<1> USE DEF Environment, library
<1>0. /\ conn \in Connection /\ asyncError \in Errors /\ outbuf \in Seq(Request)
      /\ timeout \in BOOLEAN /\ call \in Calls /\ result \in Results
      /\ inbox \in Seq(Request) /\ server \in Server /\ wire \in Seq(Line)
      /\ link \in {"up", "down"} /\ sent \in Nat /\ awaiting \in Seq(Request)
  BY DEF TypeOK
<1>1. ASSUME inbox # <<>> PROVE Head(inbox) \in Request /\ Tail(inbox) \in Seq(Request)
  BY <1>0, <1>1, HeadTailProperties
<1>2. ASSUME NEW n \in 0 .. MaxPairs, NEW kind \in LineKinds, NEW id \in Nat,
             Respond(n, kind, id)
      PROVE  wire' \in Seq(Line)
  BY <1>2, LinesType DEF Respond
<1>3. Ready \in Server /\ server.id \in Nat /\ server.list \in Seq(Nat)
  <2>1. <<>> \in Seq(Nat)
    BY EmptySeq
  <2>2. \A s \in Seq(Nat) : [server EXCEPT !.mode = "ready", !.list = s, !.id = 0,
                                           !.discrete = FALSE] \in Server
    BY <1>0 DEF Server
  <2> QED BY <1>0, <2>1, <2>2 DEF Ready, Server
<1>4. 0 \in 0 .. MaxPairs
  BY ConstantsAssumption
<1>5. ASSUME ServeCommand PROVE TypeOK'
  BY <1>0, <1>1, <1>2, <1>5 DEF ServeCommand, Accept, TypeOK, Request, LineKinds
<1>6. ASSUME ServeListBegin PROVE TypeOK'
  <2>1. \A s \in Seq(Nat), b \in BOOLEAN :
          [server EXCEPT !.mode = "list", !.list = s, !.discrete = b] \in Server
    BY <1>0 DEF Server
  <2>2. server' \in Server
    BY <1>6, <2>1, EmptySeq DEF ServeListBegin
  <2> QED BY <1>0, <1>1, <1>6, <2>2 DEF ServeListBegin, Accept, TypeOK
<1>7. ASSUME ServeListed PROVE TypeOK'
  <2>1. Append(server.list, Head(inbox).id) \in Seq(Nat)
    BY <1>1, <1>3, <1>7, AppendProperties DEF ServeListed, Accept, Request
  <2>2. \A s \in Seq(Nat) : [server EXCEPT !.list = s] \in Server
    BY <1>0 DEF Server
  <2>3. server' \in Server
    BY <1>7, <2>1, <2>2 DEF ServeListed
  <2> QED BY <1>0, <1>1, <1>7, <2>3 DEF ServeListed, Accept, TypeOK
<1>8. ASSUME ServeListEnd \/ ServeIdle PROVE TypeOK'
  <2>1. \A i \in Nat : /\ [server EXCEPT !.mode = "run", !.id = i] \in Server
                       /\ [server EXCEPT !.mode = "idle", !.id = i] \in Server
    BY <1>0 DEF Server
  <2>2. server' \in Server
    BY <1>1, <1>8, <2>1 DEF ServeListEnd, ServeIdle, Accept, Request
  <2> QED BY <1>0, <1>1, <1>8, <2>2 DEF ServeListEnd, ServeIdle, Accept, TypeOK
<1>9. ASSUME RunListed PROVE TypeOK'
  <2> DEFINE id == IF server.discrete THEN Head(server.list) ELSE server.id
  <2>1. Head(server.list) \in Nat /\ Tail(server.list) \in Seq(Nat)
    BY <1>3, <1>9, HeadTailProperties DEF RunListed
  <2>2. id \in Nat
    BY <1>3, <2>1
  <2>3. \A s \in Seq(Nat) : [server EXCEPT !.list = s] \in Server
    BY <1>0 DEF Server
  <2>4. PICK n \in 0 .. MaxPairs :
          \/ Respond(n, "ACK", id) /\ server' = [server EXCEPT !.mode = "ready", !.list = <<>>,
                                                             !.id = 0, !.discrete = FALSE]
          \/ /\ IF server.discrete THEN Respond(n, "list_OK", id)
                                   ELSE wire' = wire \o Lines(n, id)
             /\ server' = [server EXCEPT !.list = Tail(@)]
    BY <1>9 DEF RunListed, Ready
  <2>5. server' \in Server
    BY <1>3, <2>1, <2>3, <2>4 DEF Ready
  <2> HIDE DEF id
  <2>6. wire' \in Seq(Line)
    BY <1>2, <2>2, <2>4, LinesType DEF LineKinds
  <2> QED BY <1>0, <1>9, <2>5, <2>6 DEF RunListed, TypeOK
<1>10. ASSUME RunListEnds PROVE TypeOK'
  BY <1>0, <1>2, <1>3, <1>4, <1>10 DEF RunListEnds, TypeOK, LineKinds
<1>11. ASSUME ServeNoidle PROVE TypeOK'
  <2>1. wire' \in Seq(Line)
    BY <1>0, <1>2, <1>3, <1>4, <1>11 DEF ServeNoidle, LineKinds
  <2> QED BY <1>0, <1>1, <1>3, <1>11, <2>1 DEF ServeNoidle, Accept, TypeOK
<1>12. ASSUME Notify PROVE TypeOK'
  BY <1>0, <1>2, <1>3, <1>12 DEF Notify, TypeOK, LineKinds
<1>13. ASSUME HangUp PROVE TypeOK'
  BY <1>0, <1>13 DEF HangUp, TypeOK
<1>14. ASSUME Misbehave PROVE TypeOK'
  <2>1. PICK kind \in StrayLines : wire' = Append(wire, [kind |-> kind, id |-> 0])
    BY <1>14 DEF Misbehave
  <2>2. [kind |-> kind, id |-> 0] \in Line
    BY ConstantsAssumption DEF Line, LineKinds
  <2>3. wire' \in Seq(Line)
    BY <1>0, <2>1, <2>2, AppendProperties
  <2>4. \A n \in Nat : [server EXCEPT !.strays = n] \in Server
    BY <1>0 DEF Server
  <2>5. server' \in Server
    BY <1>14, <2>4 DEF Misbehave
  <2> QED BY <1>0, <1>14, <2>3, <2>5 DEF Misbehave, TypeOK
<1> QED BY <1>5, <1>6, <1>7, <1>8, <1>9, <1>10, <1>11, <1>12, <1>13, <1>14 DEF ServerStep

\* Every variable always has its type, whatever client and server do: no
\* error code, counter or pair state outside its range is ever reached.
THEOREM TypeCorrect == Spec => []TypeOK
<1>1. Init => TypeOK
  <2>1. ASSUME Init PROVE TypeOK
    <3>1. conn \in Connection
      <4>1. conn \in [error : {"SUCCESS"}, receiving : {FALSE}, sendingList : {FALSE},
                      sendingListOk : BOOLEAN, discreteFinished : BOOLEAN,
                      remaining : Garbage, pairState : {"NONE"}, pair : {0},
                      asserts : {FALSE}]
        BY <2>1 DEF Init
      <4>2. /\ {"SUCCESS"} \subseteq Errors /\ {FALSE} \subseteq BOOLEAN
            /\ Garbage \subseteq Int /\ {"NONE"} \subseteq PairStates /\ {0} \subseteq Nat
        BY ConstantsAssumption DEF Errors, PairStates
      <4> QED BY <4>1, <4>2 DEF Connection
    <3>2. server \in Server
      BY <2>1, EmptySeq DEF Init, Server
    <3> QED BY <2>1, <3>1, <3>2, EmptySeq DEF Init, TypeOK, Errors, Calls, Results
  <2> QED BY <2>1
<1>2. TypeOK /\ [Next]_vars => TypeOK'
  <2>1. ASSUME TypeOK, UNCHANGED vars PROVE TypeOK'
    BY <2>1 DEF TypeOK, vars
  <2>2. ASSUME TypeOK, Freed PROVE TypeOK'
    BY <2>1, <2>2 DEF Freed
  <2> QED BY <2>1, <2>2, CallsKeepTypes, EnvironmentKeepsTypes DEF Next
<1> QED BY <1>1, <1>2, PTL DEF Spec

(***************************************************************************)
(* Nothing is received before all requests are flushed.                    *)
(***************************************************************************)
\* mpd_recv_pair() never starts receiving, and leaves a connection alone that
\* has an error.
LEMMA RecvPairsReceives ==
    ASSUME NEW c \in Connection, NEW o \in RecvPairs(c)
    PROVE  /\ o.conn.receiving => c.receiving
           /\ Defined(c.error) => o.conn = c /\ o.async = asyncError
<1> DEFINE Keeps(x) == x.conn.receiving => c.receiving
<1>1. Keeps(Answer(c)) /\ Keeps(Answer([c EXCEPT !.pairState = "NONE"]))
      /\ Keeps(Answer([c EXCEPT !.pairState = "FLOATING"]))
      /\ Keeps(Answer(SetError(c, "STATE")))
  BY DEF Answer, SetError, Connection
<1>2. ASSUME c.receiving PROVE Keeps(o)
  BY <1>2
<1>3. ASSUME ~c.receiving PROVE Keeps(o)
  BY <1>1, <1>3 DEF RecvPairs, AlreadyDone
<1> QED BY <1>2, <1>3 DEF RecvPairs, Answer

\* A flush that succeeds, or has nothing to do, leaves the buffer empty.
LEMMA FlushesAll ==
    ASSUME NEW p \in Seq(Request), NEW in \in Seq(Request), NEW o \in Flushes(p, in)
    PROVE  (p = <<>> \/ ~Defined(o.err)) => o.out = <<>>
<1>1. CASE Defined(asyncError)
  BY <1>1 DEF Flushes
<1>2. CASE o = Drained(p, in, Len(p), "SUCCESS")
  BY <1>2, SubSeqEmpty DEF Drained
<1>3. CASE o \in IOFailures(p, in)
  <2>1. PICK k \in 0 .. Len(p) - 1, e \in IOErrors : o = Drained(p, in, k, e)
    BY <1>3 DEF IOFailures
  <2>2. Defined(o.err)
    BY <2>1 DEF Drained, Defined, IOErrors
  <2>3. p # <<>>
    BY <2>1
  <2> QED BY <2>2, <2>3
<1> QED BY <1>1, <1>2, <1>3 DEF Flushes

\* Each step keeps the output buffer empty while a response is received.
LEMMA FlushedStep ==
    ASSUME TypeOK, FlushedBeforeReceiving, [Next]_vars
    PROVE  FlushedBeforeReceiving'
<1> USE DEF FlushedBeforeReceiving
<1>0. conn \in Connection /\ outbuf \in Seq(Request) /\ inbox \in Seq(Request)
  BY DEF TypeOK
<1>3. ASSUME RecvPair \/ NextStep \/ RecvIdleStep \/ RecvIdleReturns
      PROVE  FlushedBeforeReceiving'
  <2>1. PICK o \in RecvPairs(conn) : conn' = o.conn \/ conn' = Returned(o.conn)
    BY <1>3 DEF RecvPair, NextStep, RecvIdleStep, RecvIdleReturns
  <2>2. o.conn \in Connection
    BY <1>0, RecvPairsType
  <2>3. conn'.receiving => conn.receiving
    BY <1>0, <2>1, <2>2, RecvPairsReceives DEF Returned, Connection
  <2>4. outbuf' = outbuf
    BY <1>3 DEF RecvPair, NextStep, RecvIdleStep, RecvIdleReturns
  <2> QED BY <2>3, <2>4
<1>4. ASSUME FinishStep PROVE FlushedBeforeReceiving'
  BY <1>4 DEF FinishStep
<1>5. ASSUME \/ ReturnPair \/ EnqueuePair \/ EnqueueNull \/ FinishReturns
             \/ NextGivesUp \/ NextReturns \/ ClearError
      PROVE  FlushedBeforeReceiving'
  BY <1>0, <1>5
     DEF ReturnPair, EnqueuePair, EnqueueNull, FinishReturns, NextGivesUp,
         NextReturns, ClearError, Cleared, SetError, Connection
<1>6. ASSUME \/ ResponseFinish \/ ResponseNext
             \/ BadArgument \/ OutOfTurn \/ OutOfMemory \/ Declined
      PROVE  FlushedBeforeReceiving'
  BY <1>0, <1>6
     DEF BadArgument, OutOfTurn, OutOfMemory, Declined, ResponseFinish, ResponseNext, Refused, Finishing, SetError, Connection
<1>7. ASSUME NEW req \in Request, NEW long \in BOOLEAN,
             NEW o \in Sends(req, long, TRUE), ~Defined(o.err)
      PROVE  o.out = <<>>
  <2>1. PICK q \in Enqueues(req, long) : o \in Flushes(q.out, q.in) /\ ~Defined(q.err)
    BY <1>7 DEF Sends
  <2>2. q \in [out : Seq(Request), in : Seq(Request), err : Errors]
    BY EnqueuesType
  <2> QED BY <1>7, <2>1, <2>2, FlushesAll
<1>8. \A kind \in Kinds : NextRequest(kind) \in Request
  BY HistoryType
<1>9. ASSUME NEW kind \in {"cmd", "idle"}, NEW long \in BOOLEAN, SendCommand(kind, long)
      PROVE  FlushedBeforeReceiving'
  <2>1. CASE ~MaySend(conn)
    BY <1>0, <1>9, <2>1 DEF SendCommand, Refused, SendCheck, SetError, Connection
  <2>2. CASE MaySend(conn)
    <3>1. PICK o \in Sends(NextRequest(kind), long, ~conn.sendingList) :
            outbuf' = o.out /\ conn' = AfterSend(conn, o)
      BY <1>9, <2>2 DEF SendCommand, Transmitted
    <3>2. CASE conn.sendingList \/ Defined(o.err)
      BY <1>0, <2>2, <3>1, <3>2 DEF AfterSend, SyncError, Commanded, MaySend, Connection
    <3>3. CASE ~conn.sendingList /\ ~Defined(o.err)
      BY <1>7, <1>8, <2>2, <3>1, <3>3 DEF Kinds
    <3> QED BY <3>2, <3>3
  <2> QED BY <2>1, <2>2
<1>10. ASSUME NEW kind \in {"cmd", "idle"}, Run(kind) PROVE FlushedBeforeReceiving'
  <2>1. CASE conn.sendingList \/ ~MaySend(conn)
    BY <1>0, <1>10, <2>1 DEF Run, Refused, RunCheck, SendCheck, SetError, Connection
  <2>2. CASE ~(conn.sendingList \/ ~MaySend(conn))
    <3>1. PICK o \in Sends(NextRequest(kind), FALSE, TRUE) :
            /\ outbuf' = o.out
            /\ Defined(o.err) => conn' = SyncError(conn, o.err)
      BY <1>10, <2>2 DEF Run, Transmitted
    <3>2. CASE Defined(o.err)
      BY <1>0, <2>2, <3>1, <3>2 DEF SyncError, MaySend, Connection
    <3>3. CASE ~Defined(o.err)
      BY <1>7, <1>8, <2>2, <3>1, <3>3 DEF Kinds
    <3> QED BY <3>2, <3>3
  <2> QED BY <2>1, <2>2
<1>11. ASSUME NEW discrete \in BOOLEAN, ListBegin(discrete)
       PROVE  FlushedBeforeReceiving'
  <2>1. CASE conn.sendingList \/ ~MaySend(conn)
    BY <1>0, <1>11, <2>1 DEF ListBegin, Refused, SendCheck, SetError, Connection
  <2>2. CASE ~conn.sendingList /\ MaySend(conn)
    BY <1>0, <1>11, <2>2 DEF ListBegin, Listing, SyncError, MaySend, Connection
  <2> QED BY <2>1, <2>2
<1>12. ASSUME ListEnd PROVE FlushedBeforeReceiving'
  <2>1. CASE ~conn.sendingList \/ ~MaySend(conn)
    BY <1>0, <1>12, <2>1 DEF ListEnd, Refused, SendCheck, SetError, Connection
  <2>2. CASE conn.sendingList /\ MaySend(conn)
    <3> DEFINE lowered == [conn EXCEPT !.sendingList = FALSE]
    <3>1. PICK o \in Sends(NextRequest("end"), FALSE, TRUE), b \in BOOLEAN :
            /\ outbuf' = o.out
            /\ conn' = [AfterSend(lowered, o) EXCEPT !.sendingList = TRUE, !.asserts = b]
      <4>1. PICK o \in Sends(NextRequest("end"), FALSE, TRUE) :
              /\ outbuf' = o.out
              /\ conn' = [AfterSend(lowered, o) EXCEPT
                            !.sendingList = TRUE,
                            !.asserts = @ \/ ~(AfterSend(lowered, o).receiving \/ Defined(o.err))]
        BY <1>12, <2>2 DEF ListEnd, Transmitted
      <4> QED BY <4>1
    <3>2. CASE Defined(o.err)
      BY <1>0, <2>2, <3>1, <3>2 DEF AfterSend, SyncError, MaySend, Connection
    <3>3. CASE ~Defined(o.err)
      BY <1>7, <1>8, <2>2, <3>1, <3>3 DEF Kinds
    <3> QED BY <3>2, <3>3
  <2> QED BY <2>1, <2>2
<1>13. ASSUME NEW run \in BOOLEAN, Noidle(run) PROVE FlushedBeforeReceiving'
  <2> DEFINE ready == [conn EXCEPT !.receiving = FALSE]
  <2>1. CASE Defined(conn.error)
    BY <1>0, <1>13, <2>1 DEF Noidle, Refused, Connection
  <2>2. CASE ~Defined(conn.error)
    <3>1. PICK o \in Sends(NextRequest("noidle"), FALSE, TRUE) :
            outbuf' = o.out /\ conn' = AfterSend(ready, o)
      BY <1>13, <2>2 DEF Noidle, Transmitted
    <3>2. CASE Defined(o.err)
      BY <1>0, <3>1, <3>2 DEF AfterSend, SyncError, Connection
    <3>3. CASE ~Defined(o.err)
      BY <1>7, <1>8, <3>1, <3>3 DEF Kinds
    <3> QED BY <3>2, <3>3
  <2> QED BY <2>1, <2>2
<1>14. ASSUME Flush \/ \E disable \in BOOLEAN : RecvIdle(disable)
       PROVE  FlushedBeforeReceiving'
  <2>1. conn'.receiving = conn.receiving
    BY <1>0, <1>14 DEF Flush, RecvIdle, SyncError, Connection
  <2>2. CASE outbuf' = outbuf
    BY <2>1, <2>2
  <2>3. CASE \E o \in Flushes(outbuf, inbox) : outbuf' = o.out
    BY <1>0, <2>1, <2>3, FlushesAll
  <2> QED BY <1>14, <2>2, <2>3 DEF Flush, RecvIdle
<1>15. ASSUME Free PROVE FlushedBeforeReceiving'
  BY <1>15 DEF Free
<1>16. ASSUME ServerStep \/ HangUp \/ Misbehave \/ Freed \/ UNCHANGED vars
       PROVE  FlushedBeforeReceiving'
  BY <1>16
     DEF ServerStep, ServeCommand, ServeListBegin, ServeListed, ServeListEnd,
         RunListed, RunListEnds, ServeIdle, ServeNoidle, Notify, HangUp,
         Misbehave, Environment, library, Freed, vars
<1> QED BY <1>3, <1>4, <1>5, <1>6, <1>9, <1>10, <1>11, <1>12, <1>13, <1>14,
           <1>15, <1>16 DEF Next, ClientCall, LibraryStep

\* While a response is awaited, no request is held back in the output
\* buffer, so client and server never wait for each other.
THEOREM FlushesBeforeReceiving == Spec => []FlushedBeforeReceiving
<1>1. Init => FlushedBeforeReceiving
  BY DEF Init, FlushedBeforeReceiving
<1>2. TypeOK /\ FlushedBeforeReceiving /\ [Next]_vars => FlushedBeforeReceiving'
  BY FlushedStep
<1> QED BY <1>1, <1>2, TypeCorrect, PTL DEF Spec

(***************************************************************************)
(* A fatal error is never replaced by a recoverable one.                   *)
(***************************************************************************)
\* an error of the connection behind which the async object's ARGUMENT may hide
MayHide(e) == ~Fatal(e) \/ e = "OOM"

\* what FatalIsSticky says of a step
Sticks ==
    Fatal(conn.error) /\ ~(conn.error = "OOM" /\ asyncError = "ARGUMENT")
        => Fatal(conn'.error)

\* What mpd_recv_pair() does to the two errors.
LEMMA RecvPairsErrors ==
    ASSUME AsyncErrorKinds, NEW c \in Connection, c.receiving => conn.receiving,
           c.error = conn.error, NEW o \in RecvPairs(c)
    PROVE  /\ o.async \in {"SUCCESS", "ARGUMENT", "SYSTEM", "MALFORMED", "CLOSED"}
           /\ o.async = "ARGUMENT" => /\ asyncError = "ARGUMENT"
                                      /\ ~o.conn.receiving /\ MayHide(o.conn.error)
           /\ Fatal(conn.error) => Fatal(o.conn.error)
<1> USE DEF AsyncErrorKinds, MayHide
<1>1. CASE Defined(c.error)
  BY <1>1, RecvPairsReceives
<1>2. CASE ~Defined(c.error) /\ c.receiving
  <2>1. ~Fatal(conn.error) /\ asyncError # "ARGUMENT"
    BY <1>2 DEF Fatal, Defined
  <2>2. ASSUME NEW x \in FailedReads(c)
        PROVE  x.async \in {"SUCCESS", "SYSTEM", "MALFORMED", "CLOSED"}
    <3>1. PICK e \in ReadErrors : x.async = AsyncAfter(e)
      BY DEF FailedReads
    <3> QED BY <2>1, <3>1 DEF AsyncAfter, ReadErrors, IOErrors
  <2>3. ASSUME NEW x \in LineReads(c) PROVE x.async = asyncError
    BY DEF LineReads
  <2> QED BY <1>2, <2>1, <2>2, <2>3 DEF RecvPairs, Answer
<1>3. CASE ~Defined(c.error) /\ ~c.receiving
  <2>1. o.async = asyncError
    BY <1>3 DEF RecvPairs, AlreadyDone, Answer
  <2>2. ~o.conn.receiving
    BY <1>3, RecvPairsReceives
  <2>3. o.conn.error \in {"SUCCESS", "STATE"}
    <3>1. \/ o.conn = [c EXCEPT !.pairState = "NONE"]
          \/ o.conn = [c EXCEPT !.pairState = "FLOATING"]
          \/ o.conn = SetError(c, "STATE")
      BY <1>3 DEF RecvPairs, AlreadyDone, Answer
    <3>2. c.error = "SUCCESS"
      BY <1>3 DEF Defined
    <3> QED BY <3>1, <3>2 DEF SetError, Connection
  <2> QED BY <1>3, <2>1, <2>2, <2>3 DEF Fatal, Defined
<1> QED BY <1>1, <1>2, <1>3

\* What sending does: a request that is too long is the only new ARGUMENT.
LEMMA SendsErrors ==
    ASSUME AsyncErrorKinds, NEW p, NEW in, NEW req, NEW long \in BOOLEAN, NEW flush \in BOOLEAN
    PROVE  /\ \A o \in Flushes(p, in) : AsyncAfter(o.err) \in
                  {asyncError} \cup {"SUCCESS", "SYSTEM", "MALFORMED", "CLOSED"}
           /\ \A o \in Flushes(p, in) :
                  Defined(o.err) => o.err = asyncError \/ Fatal(o.err)
           /\ \A o \in Sends(req, long, flush) : AsyncAfter(o.err) \in
                  {"SUCCESS", "ARGUMENT", "SYSTEM", "MALFORMED", "CLOSED"}
           /\ \A o \in Sends(req, long, flush) :
                  AsyncAfter(o.err) = "ARGUMENT" => o.err = "ARGUMENT"
<1> USE DEF AsyncErrorKinds
<1> DEFINE Kept(e) == \/ e \in {"SUCCESS", "TIMEOUT", "SYSTEM", "CLOSED"} /\ ~Defined(asyncError)
                      \/ e = asyncError
<1>1. ASSUME NEW q, NEW i, NEW o \in IOFailures(q, i) PROVE o.err \in IOErrors
  BY <1>1 DEF IOFailures, Drained
<1>2. ASSUME NEW q, NEW i, NEW o \in Flushes(q, i) PROVE Kept(o.err)
  BY <1>1, <1>2 DEF Flushes, Drained, IOErrors, Defined
<1>3. ASSUME NEW o \in Enqueues(req, long)
      PROVE  Kept(o.err) \/ (o.err = "ARGUMENT" /\ ~Defined(asyncError))
  <2>1. CASE Defined(asyncError)
    BY <2>1 DEF Enqueues
  <2>2. CASE ~Defined(asyncError) /\ o \in IOFailures(outbuf, inbox)
    BY <1>1, <2>2 DEF IOErrors
  <2>3. CASE ~Defined(asyncError) /\ o \notin IOFailures(outbuf, inbox) /\ long
    BY <2>3 DEF Enqueues, Drained
  <2>4. CASE ~Defined(asyncError) /\ o \notin IOFailures(outbuf, inbox) /\ ~long
    BY <2>4 DEF Enqueues
  <2> QED BY <2>1, <2>2, <2>3, <2>4
<1>4. ASSUME NEW o \in Sends(req, long, flush)
      PROVE  Kept(o.err) \/ (o.err = "ARGUMENT" /\ ~Defined(asyncError))
  BY <1>2, <1>3, <1>4 DEF Sends
<1> QED BY <1>2, <1>4 DEF AsyncAfter, Defined, Fatal

\* Each step keeps the kinds of the async error, and a fatal error fatal.
LEMMA FatalStep ==
    ASSUME "ignores errors" \notin Careless,
           TypeOK, AsyncErrorKinds, [Next]_vars
    PROVE  AsyncErrorKinds' /\ Sticks
<1> USE DEF MayHide, Sticks
<1> DEFINE Good == AsyncErrorKinds' /\ Sticks
<1>0. /\ conn \in Connection
      /\ asyncError \in {"SUCCESS", "ARGUMENT", "SYSTEM", "MALFORMED", "CLOSED"}
      /\ asyncError = "ARGUMENT" => ~conn.receiving /\ MayHide(conn.error) /\ call # "next"
  BY DEF TypeOK, AsyncErrorKinds
<1>1. ASSUME asyncError' = asyncError, conn'.receiving => conn.receiving,
             MayHide(conn.error) => MayHide(conn'.error),
             Fatal(conn.error) => Fatal(conn'.error),
             call' = "next" => call = "next" \/ asyncError # "ARGUMENT"
      PROVE  Good
  BY <1>0, <1>1 DEF AsyncErrorKinds
<1>2. ASSUME NEW c \in Connection, Refused(c), c.receiving => conn.receiving,
             MayHide(conn.error) => MayHide(c.error), Fatal(conn.error) => Fatal(c.error)
      PROVE  Good
  BY <1>0, <1>1, <1>2 DEF Refused
<1>3. ASSUME RecvPair \/ NextStep \/ RecvIdleStep \/ RecvIdleReturns PROVE Good
  <2>1. PICK o \in RecvPairs(conn) : /\ conn' = o.conn \/ conn' = Returned(o.conn)
                                     /\ asyncError' = o.async
    BY <1>3 DEF RecvPair, NextStep, RecvIdleStep, RecvIdleReturns, Took
  <2>2. o.conn \in Connection
    BY <1>0, RecvPairsType
  <2>3. conn'.error = o.conn.error /\ conn'.receiving = o.conn.receiving
    BY <2>1, <2>2 DEF Returned, Connection
  <2>4. call' = "next" => call = "next"
    BY <1>3 DEF RecvPair, NextStep, RecvIdleStep, RecvIdleReturns, Idle
  <2> QED BY <1>0, <2>1, <2>3, <2>4, RecvPairsErrors DEF AsyncErrorKinds
<1>4. ASSUME FinishStep PROVE Good
  <2> DEFINE entered == [conn EXCEPT !.discreteFinished = FALSE,
                                     !.asserts = @ \/ Defined(conn.error)]
  <2>1. /\ entered \in Connection /\ entered.error = conn.error
        /\ entered.receiving = conn.receiving
    BY <1>0 DEF Connection, Defined
  <2>2. PICK o \in RecvPairs(entered), b \in BOOLEAN :
          /\ conn' = [Returned(o.conn) EXCEPT !.asserts = b]
          /\ asyncError' = o.async
    <3>1. PICK o \in RecvPairs(entered) :
            LET progress == \/ o.conn.pairState = "FLOATING"
                            \/ ~o.conn.receiving
                            \/ o.conn.sendingList /\ o.conn.discreteFinished
                            \/ Defined(o.conn.error)
            IN  /\ conn' = [Returned(o.conn) EXCEPT !.asserts = @ \/ ~progress]
                /\ asyncError' = o.async
      BY <1>4 DEF FinishStep, Took
    <3> HIDE DEF entered
    <3> QED BY <3>1
  <2> HIDE DEF entered
  <2>3. o.conn \in Connection
    BY <2>1, RecvPairsType
  <2>4. conn'.error = o.conn.error /\ conn'.receiving = o.conn.receiving
    BY <2>2, <2>3 DEF Returned, Connection
  <2>5. call' = "finish"
    BY <1>4 DEF FinishStep
  <2> QED BY <1>0, <2>1, <2>2, <2>4, <2>5, RecvPairsErrors DEF AsyncErrorKinds
<1>5. ASSUME \/ ReturnPair \/ EnqueuePair \/ EnqueueNull \/ FinishReturns
             \/ NextReturns \/ Free
      PROVE  Good
  BY <1>0, <1>1, <1>5
     DEF ReturnPair, EnqueuePair, EnqueueNull, FinishReturns, NextReturns, Free,
         Idle, Connection
<1>6. ASSUME NextGivesUp PROVE Good
  BY <1>0, <1>6 DEF NextGivesUp, SetError, AsyncErrorKinds, Fatal, Connection
<1>7. ASSUME ClearError PROVE Good
  BY <1>0, <1>7 DEF ClearError, Cleared, AsyncErrorKinds, Fatal, Connection
<1>8. ASSUME ResponseFinish PROVE Good
  BY <1>0, <1>1, <1>2, <1>8 DEF ResponseFinish, Finishing, Connection
<1>9. ASSUME ~Defined(conn.error), NEW c \in Connection, Refused(c),
              c.receiving => conn.receiving, c.error \in {"SUCCESS", "STATE"}
       PROVE  Good
  BY <1>0, <1>2, <1>9 DEF Fatal, Defined
<1>10. ASSUME ~Defined(conn.error), Refused(SetError(conn, "STATE")) PROVE Good
  <2>1. SetError(conn, "STATE") \in Connection
    BY <1>0, ConnectionType DEF Errors
  <2>2. /\ SetError(conn, "STATE").error = "STATE"
        /\ SetError(conn, "STATE").receiving = conn.receiving
    BY <1>0 DEF SetError, Connection
  <2> QED BY <1>9, <1>10, <2>1, <2>2
<1>11. MayRequest => ~Defined(conn.error) /\ ~Fatal(conn.error)
  BY DEF MayRequest, ChecksErrors, Defined, Fatal
<1>12. ASSUME ResponseNext PROVE Good
  <2>1. CASE Defined(conn.error)
    BY <1>0, <1>2, <1>12, <2>1 DEF ResponseNext
  <2>2. CASE ~Defined(conn.error) /\ (~conn.receiving \/ ~conn.sendingListOk)
    BY <1>10, <1>12, <2>2 DEF ResponseNext
  <2>3. CASE ~Defined(conn.error) /\ conn.receiving /\ conn.sendingListOk
    BY <1>0, <1>1, <1>12, <2>3 DEF ResponseNext
  <2> QED BY <2>1, <2>2, <2>3
<1>13. ASSUME NEW req, NEW long \in BOOLEAN, NEW flush \in BOOLEAN,
              NEW o \in Sends(req, long, flush), asyncError' = AsyncAfter(o.err),
              Defined(o.err) => conn'.error = o.err /\ ~conn'.receiving,
              ~Fatal(conn.error), call' # "next"
       PROVE  Good
  <2>1. /\ asyncError' \in {"SUCCESS", "ARGUMENT", "SYSTEM", "MALFORMED", "CLOSED"}
        /\ asyncError' = "ARGUMENT" => o.err = "ARGUMENT"
    BY <1>13, SendsErrors
  <2>2. o.err = "ARGUMENT" => ~conn'.receiving /\ ~Fatal(conn'.error)
    <3>1. o.err = "ARGUMENT" => conn'.error = "ARGUMENT" /\ ~conn'.receiving
      BY <1>13 DEF Defined
    <3> QED BY <3>1 DEF Fatal
  <2> QED BY <1>13, <2>1, <2>2 DEF AsyncErrorKinds
<1>14. ASSUME NEW kind \in {"cmd", "idle"}, NEW long \in BOOLEAN, SendCommand(kind, long)
       PROVE  Good
  <2>1. CASE ~MaySend(conn)
    BY <1>10, <1>11, <1>14, <2>1 DEF SendCommand, MaySend, SendCheck
  <2>2. CASE MaySend(conn)
    <3>1. PICK o \in Sends(NextRequest(kind), long, ~conn.sendingList) :
            /\ asyncError' = AsyncAfter(o.err) /\ call' = call
            /\ conn' = AfterSend(conn, o)
      BY <1>14, <2>2 DEF SendCommand, Transmitted
    <3>2. Defined(o.err) => conn'.error = o.err /\ ~conn'.receiving
      BY <1>0, <2>2, <3>1 DEF AfterSend, SyncError, MaySend, Connection
    <3>3. call' # "next" /\ (~conn.sendingList) \in BOOLEAN
      BY <1>14, <3>1 DEF SendCommand, Idle
    <3> QED BY <1>11, <1>13, <1>14, <3>1, <3>2, <3>3 DEF SendCommand
  <2> QED BY <2>1, <2>2
<1>15. ASSUME NEW kind \in {"cmd", "idle"}, Run(kind) PROVE Good
  <2>1. CASE conn.sendingList \/ ~MaySend(conn)
    BY <1>10, <1>11, <1>15, <2>1 DEF Run, MaySend, SendCheck, RunCheck
  <2>2. CASE ~(conn.sendingList \/ ~MaySend(conn))
    <3>1. PICK o \in Sends(NextRequest(kind), FALSE, TRUE) :
            /\ asyncError' = AsyncAfter(o.err)
            /\ Defined(o.err) => conn' = SyncError(conn, o.err)
            /\ call' # "next"
      BY <1>15, <2>2 DEF Run, Transmitted, Idle
    <3>2. Defined(o.err) => conn'.error = o.err /\ ~conn'.receiving
      BY <1>0, <2>2, <3>1 DEF SyncError, MaySend, Connection
    <3> QED BY <1>11, <1>13, <1>15, <3>1, <3>2 DEF Run
  <2> QED BY <2>1, <2>2
<1>16. ASSUME NEW discrete \in BOOLEAN, ListBegin(discrete) PROVE Good
  <2>1. CASE conn.sendingList \/ ~MaySend(conn)
    BY <1>10, <1>11, <1>16, <2>1 DEF ListBegin, MaySend, SendCheck
  <2>2. CASE ~conn.sendingList /\ MaySend(conn)
    <3>1. PICK o \in Sends(NextRequest(IF discrete THEN "begin_ok" ELSE "begin"),
                           FALSE, FALSE) :
            /\ asyncError' = AsyncAfter(o.err)
            /\ Defined(o.err) => conn' = SyncError(conn, o.err)
            /\ call' # "next"
      BY <1>16, <2>2 DEF ListBegin, Transmitted, Idle
    <3>2. Defined(o.err) => conn'.error = o.err /\ ~conn'.receiving
      BY <1>0, <2>2, <3>1 DEF SyncError, MaySend, Connection
    <3> QED BY <1>11, <1>13, <1>16, <3>1, <3>2 DEF ListBegin
  <2> QED BY <2>1, <2>2
<1>17. ASSUME ListEnd PROVE Good
  <2>1. CASE ~conn.sendingList \/ ~MaySend(conn)
    BY <1>10, <1>11, <1>17, <2>1 DEF ListEnd, MaySend, SendCheck
  <2>2. CASE conn.sendingList /\ MaySend(conn)
    <3> DEFINE lowered == [conn EXCEPT !.sendingList = FALSE]
    <3>1. PICK o \in Sends(NextRequest("end"), FALSE, TRUE) :
            /\ asyncError' = AsyncAfter(o.err) /\ call' # "next"
            /\ \E b \in BOOLEAN :
                 conn' = [AfterSend(lowered, o) EXCEPT !.sendingList = TRUE, !.asserts = b]
      <4>1. PICK o \in Sends(NextRequest("end"), FALSE, TRUE) :
              /\ asyncError' = AsyncAfter(o.err) /\ call' # "next"
              /\ conn' = [AfterSend(lowered, o) EXCEPT
                            !.sendingList = TRUE,
                            !.asserts = @ \/ ~(AfterSend(lowered, o).receiving \/ Defined(o.err))]
        BY <1>17, <2>2 DEF ListEnd, Transmitted, Idle
      <4> QED BY <4>1
    <3>2. Defined(o.err) => conn'.error = o.err /\ ~conn'.receiving
      BY <1>0, <2>2, <3>1 DEF AfterSend, SyncError, MaySend, Connection
    <3> QED BY <1>11, <1>13, <1>17, <3>1, <3>2 DEF ListEnd
  <2> QED BY <2>1, <2>2
<1>18. ASSUME NEW run \in BOOLEAN, Noidle(run) PROVE Good
  <2> DEFINE ready == [conn EXCEPT !.receiving = FALSE]
  <2>1. PICK o \in Sends(NextRequest("noidle"), FALSE, TRUE) :
          /\ asyncError' = AsyncAfter(o.err) /\ call' # "next"
          /\ conn' = AfterSend(ready, o)
    BY <1>11, <1>18 DEF Noidle, Transmitted
  <2>2. Defined(o.err) => conn'.error = o.err /\ ~conn'.receiving
    BY <1>0, <2>1 DEF AfterSend, SyncError, Connection
  <2> QED BY <1>11, <1>13, <1>18, <2>1, <2>2 DEF Noidle
<1>19. ASSUME Flush \/ \E disable \in BOOLEAN : RecvIdle(disable) PROVE Good
  <2>1. call' # "next"
    BY <1>19 DEF Flush, RecvIdle, Idle
  <2>2. conn'.receiving = conn.receiving
    BY <1>0, <1>19 DEF Flush, RecvIdle, SyncError, Connection
  <2>3. CASE asyncError' = asyncError /\ conn' = conn
    BY <1>0, <2>1, <2>3 DEF AsyncErrorKinds
  <2>4. CASE \E o \in Flushes(outbuf, inbox) :
               /\ asyncError' = AsyncAfter(o.err)
               /\ conn' = IF Defined(o.err) THEN SyncError(conn, o.err) ELSE conn
    <3>1. PICK o \in Flushes(outbuf, inbox) :
            /\ asyncError' = AsyncAfter(o.err)
            /\ conn' = IF Defined(o.err) THEN SyncError(conn, o.err) ELSE conn
      BY <2>4
    <3>2. /\ AsyncAfter(o.err) \in {asyncError} \cup {"SUCCESS", "SYSTEM", "MALFORMED", "CLOSED"}
          /\ Defined(o.err) => o.err = asyncError \/ Fatal(o.err)
      BY SendsErrors
    <3>3. Defined(o.err) => conn'.error = o.err
      BY <1>0, <3>1 DEF SyncError, Connection
    <3>4. CASE asyncError = "ARGUMENT"
      <4>1. o = [out |-> outbuf, in |-> inbox, err |-> asyncError]
        BY <3>1, <3>4 DEF Flushes, Defined
      <4>2. asyncError' = "ARGUMENT" /\ conn'.error = "ARGUMENT"
        BY <3>1, <3>3, <3>4, <4>1 DEF AsyncAfter, Defined
      <4> QED BY <1>0, <2>1, <2>2, <3>4, <4>2 DEF AsyncErrorKinds, Fatal
    <3>5. CASE asyncError # "ARGUMENT"
      BY <1>0, <2>1, <2>2, <3>1, <3>2, <3>3, <3>5 DEF AsyncErrorKinds, Fatal, Defined
    <3> QED BY <3>4, <3>5
  <2>5. ASSUME NEW disable \in BOOLEAN, RecvIdle(disable) PROVE Good
    <3>1. CASE disable
      BY <2>4, <2>5, <3>1 DEF RecvIdle
    <3>2. CASE ~disable
      <4>1. asyncError' = asyncError /\ conn' = conn
        <5> DEFINE quiet == [out |-> outbuf, in |-> inbox, err |-> "SUCCESS"]
        <5>1. \E o \in {quiet} :
                /\ asyncError' = AsyncAfter(o.err)
                /\ conn' = IF Defined(o.err) THEN SyncError(conn, o.err) ELSE conn
          BY <2>5, <3>2 DEF RecvIdle
        <5>2. quiet.err = "SUCCESS"
          OBVIOUS
        <5> HIDE DEF quiet
        <5> QED BY <5>1, <5>2 DEF AsyncAfter, Defined
      <4> QED BY <2>3, <4>1
    <3> QED BY <3>1, <3>2
  <2> QED BY <1>19, <2>4, <2>5 DEF Flush
<1>20. ASSUME BadArgument PROVE Good
  <2>1. ~Defined(conn.error) /\ Refused(SetError(conn, "ARGUMENT"))
    BY <1>20 DEF BadArgument, ChecksErrors
  <2>2. SetError(conn, "ARGUMENT") \in Connection
    BY <1>0, ConnectionType DEF Errors
  <2>3. /\ SetError(conn, "ARGUMENT").error = "ARGUMENT"
        /\ SetError(conn, "ARGUMENT").receiving = conn.receiving
    BY <1>0 DEF SetError, Connection
  <2>4. ~Fatal(conn.error) /\ ~Fatal(SetError(conn, "ARGUMENT").error)
    BY <2>1, <2>3 DEF Fatal, Defined
  <2> QED BY <1>2, <2>1, <2>2, <2>3, <2>4
<1>21. ASSUME OutOfTurn \/ Declined PROVE Good
  BY <1>0, <1>2, <1>10, <1>21 DEF OutOfTurn, Declined
<1>23. ASSUME OutOfMemory PROVE Good
  <2>1. ~Defined(conn.error) /\ Refused(SetError(conn, "OOM"))
    BY <1>23 DEF OutOfMemory
  <2>2. SetError(conn, "OOM") \in Connection
    BY <1>0, ConnectionType DEF Errors
  <2>3. /\ SetError(conn, "OOM").error = "OOM"
        /\ SetError(conn, "OOM").receiving = conn.receiving
    BY <1>0 DEF SetError, Connection
  <2> QED BY <1>2, <2>1, <2>2, <2>3 DEF Fatal
<1>22. ASSUME ServerStep \/ HangUp \/ Misbehave \/ Freed \/ UNCHANGED vars
       PROVE  Good
  <2>1. UNCHANGED <<conn, asyncError, call>>
    BY <1>22
       DEF ServerStep, ServeCommand, ServeListBegin, ServeListed, ServeListEnd,
           RunListed, RunListEnds, ServeIdle, ServeNoidle, Notify, HangUp,
           Misbehave, Environment, library, Freed, vars
  <2> QED BY <1>0, <2>1 DEF AsyncErrorKinds
<1> QED BY <1>3, <1>4, <1>5, <1>6, <1>7, <1>8, <1>12, <1>14, <1>15, <1>16,
           <1>17, <1>18, <1>19, <1>20, <1>21, <1>22, <1>23 DEF Next, ClientCall, LibraryStep

\* A client that clears errors before it goes on never sees a fatal error
\* replaced by a recoverable one, whatever the server sends.
THEOREM FatalErrorsStay ==
    ASSUME "ignores errors" \notin Careless
    PROVE  Spec => []AsyncErrorKinds /\ FatalIsSticky
<1>1. Init => AsyncErrorKinds
  BY DEF Init, AsyncErrorKinds
<1>2. TypeOK /\ AsyncErrorKinds /\ [Next]_vars =>
        AsyncErrorKinds' /\ Sticks
  BY FatalStep
<1>3. Spec => []AsyncErrorKinds
  BY <1>1, <1>2, TypeCorrect, PTL DEF Spec
<1> QED BY <1>2, <1>3, TypeCorrect, PTL DEF Spec, FatalIsSticky, Sticks

(***************************************************************************)
(* command_list_remaining stays in range, whatever the server sends.       *)
(***************************************************************************)
\* the count of a discrete list is that of at most n commands
InRange(c, n) == (c.sendingList /\ c.sendingListOk) => c.remaining \in 0 .. n

\* nothing is begun, and the count of a list that goes on is left alone
CountKept(c, d) ==
    d.sendingList => /\ c.sendingList
                     /\ d.sendingListOk = c.sendingListOk /\ d.remaining = c.remaining

\* Only "list_OK" counts down, and it does not below zero.
LEMMA RecvPairsRange ==
    ASSUME TypeOK, NEW c \in Connection, NEW n \in Nat, InRange(c, n),
           NEW o \in RecvPairs(c)
    PROVE  InRange(o.conn, n)
<1> USE DEF InRange, Connection
<1>1. ASSUME NEW line \in Line PROVE InRange(Feed(c, line), n)
  <2>1. ~FeedOK(c).sendingList /\ ~FeedACK(c).sendingList
    <3>1. ~[SetError(c, "SERVER") EXCEPT !.receiving = FALSE, !.sendingList = FALSE].sendingList
      BY DEF SetError
    <3> DEFINE checked == IF c.sendingList /\ c.remaining > 0
                          THEN [SetError(c, "MALFORMED") EXCEPT !.remaining = 0]
                          ELSE c
    <3>2. checked \in Connection
      <4>1. SetError(c, "MALFORMED") \in Connection
        BY ConnectionType DEF Errors
      <4> QED BY <4>1
    <3>3. FeedOK(c) = [checked EXCEPT !.receiving = FALSE, !.sendingList = FALSE,
                                      !.discreteFinished = FALSE]
      BY DEF FeedOK
    <3> HIDE DEF checked
    <3>4. ~FeedOK(c).sendingList
      BY <3>2, <3>3
    <3> QED BY <3>1, <3>4 DEF FeedACK
  <2>2. InRange(FeedListOK(c), n)
    BY DEF FeedListOK, SetError
  <2>3. CountKept(c, [c EXCEPT !.pairState = "FLOATING", !.pair = line.id])
    BY DEF CountKept
  <2>4. CountKept(c, [SetError(c, "MALFORMED") EXCEPT !.receiving = FALSE])
    BY DEF CountKept, SetError
  <2> QED BY <2>1, <2>2, <2>3, <2>4 DEF Feed, CountKept
<1>2. ASSUME NEW d \in Connection, CountKept(c, d) PROVE InRange(d, n)
  BY <1>2 DEF CountKept
<1>3. ASSUME NEW x \in LineReads(c) PROVE InRange(x.conn, n)
  <2>1. wire # <<>> /\ x.conn = Feed(c, Head(wire))
    BY <1>3 DEF LineReads
  <2>2. Head(wire) \in Line
    BY <2>1, HeadTailProperties DEF TypeOK
  <2> QED BY <1>1, <2>1, <2>2
<1>4. ASSUME NEW x \in FailedReads(c) PROVE InRange(x.conn, n)
  <2>1. PICK e \in ReadErrors :
          x.conn = SyncError([c EXCEPT !.receiving = FALSE, !.sendingList = FALSE], e)
    BY <1>4 DEF FailedReads
  <2>2. ~x.conn.sendingList
    BY <2>1 DEF SyncError
  <2> QED BY <2>2
<1>5. /\ InRange(Answer(c).conn, n)
      /\ InRange(Answer([c EXCEPT !.pairState = "NONE"]).conn, n)
      /\ InRange(Answer([c EXCEPT !.pairState = "FLOATING"]).conn, n)
      /\ InRange(Answer(SetError(c, "STATE")).conn, n)
  BY DEF Answer, SetError
<1> QED BY <1>3, <1>4, <1>5 DEF RecvPairs

\* Each step keeps the count of a discrete list between 0 and the commands sent.
LEMMA RangeStep ==
    ASSUME TypeOK, InRange(conn, sent), [Next]_vars
    PROVE  InRange(conn', sent')
<1>0. conn \in Connection /\ sent \in Nat
  BY DEF TypeOK
<1>1. ASSUME CountKept(conn, conn'), sent' \in {sent, sent + 1} PROVE InRange(conn', sent')
  <2>1. \A r \in 0 .. sent : r \in 0 .. sent'
    BY <1>0, <1>1
  <2>2. (conn'.sendingList /\ conn'.sendingListOk) => conn.sendingList /\ conn.sendingListOk
    BY <1>1 DEF CountKept
  <2>3. conn'.sendingList => conn'.remaining = conn.remaining
    BY <1>1 DEF CountKept
  <2> QED BY <2>1, <2>2, <2>3 DEF InRange
<1>2. ASSUME NEW c, Refused(c), CountKept(conn, c) PROVE InRange(conn', sent')
  BY <1>1, <1>2 DEF Refused, history
<1>3. ASSUME NEW c \in Connection
      PROVE  /\ CountKept(c, c)
             /\ \A e \in Errors : CountKept(c, SetError(c, e)) /\ CountKept(c, SyncError(c, e))
             /\ CountKept(c, Returned(c)) /\ CountKept(c, Finishing(c))
             /\ CountKept(c, SendCheck(c)) /\ CountKept(c, RunCheck(c))
             /\ CountKept(c, Cleared(c))
             /\ \A b \in BOOLEAN : /\ CountKept(c, [c EXCEPT !.discreteFinished = b])
                                   /\ CountKept(c, [c EXCEPT !.receiving = b])
                                   /\ CountKept(c, [c EXCEPT !.asserts = b])
             /\ \A p \in PairStates : CountKept(c, [c EXCEPT !.pairState = p])
  BY DEF CountKept, Connection, SetError, SyncError, Returned, Finishing, SendCheck,
         RunCheck, Cleared
<1>4. ASSUME NEW c \in Connection, NEW d \in Connection, CountKept(c, d), InRange(c, sent)
      PROVE  InRange(d, sent)
  BY <1>0, <1>4 DEF CountKept, InRange, Connection
<1>5. ASSUME RecvPair \/ NextStep \/ RecvIdleStep \/ RecvIdleReturns
      PROVE  InRange(conn', sent')
  <2>1. PICK o \in RecvPairs(conn) : conn' = o.conn \/ conn' = Returned(o.conn)
    BY <1>5 DEF RecvPair, NextStep, RecvIdleStep, RecvIdleReturns
  <2>2. o.conn \in Connection /\ Returned(o.conn) \in Connection
    BY <1>0, RecvPairsType, ConnectionType
  <2>3. InRange(o.conn, sent) /\ CountKept(o.conn, Returned(o.conn))
    BY <1>0, <1>3, <2>2, RecvPairsRange
  <2>4. sent' = sent
    BY <1>5 DEF RecvPair, NextStep, RecvIdleStep, RecvIdleReturns, history
  <2> QED BY <1>4, <2>1, <2>2, <2>3, <2>4
<1>6. ASSUME FinishStep PROVE InRange(conn', sent')
  <2> DEFINE entered == [conn EXCEPT !.discreteFinished = FALSE,
                                     !.asserts = @ \/ Defined(conn.error)]
  <2>1. entered \in Connection /\ CountKept(conn, entered)
    BY <1>0 DEF Connection, Defined, CountKept
  <2>2. PICK o \in RecvPairs(entered), b \in BOOLEAN :
          conn' = [Returned(o.conn) EXCEPT !.asserts = b]
    <3>1. PICK o \in RecvPairs(entered) :
            LET progress == \/ o.conn.pairState = "FLOATING"
                            \/ ~o.conn.receiving
                            \/ o.conn.sendingList /\ o.conn.discreteFinished
                            \/ Defined(o.conn.error)
            IN  conn' = [Returned(o.conn) EXCEPT !.asserts = @ \/ ~progress]
      BY <1>6 DEF FinishStep
    <3> HIDE DEF entered
    <3> QED BY <3>1
  <2> HIDE DEF entered
  <2>3. InRange(entered, sent)
    BY <1>0, <1>4, <2>1
  <2>4. o.conn \in Connection /\ Returned(o.conn) \in Connection
    BY <2>1, RecvPairsType, ConnectionType
  <2>5. InRange(Returned(o.conn), sent)
    BY <1>0, <1>3, <1>4, <2>1, <2>3, <2>4, RecvPairsRange
  <2>6. sent' = sent
    BY <1>6 DEF FinishStep
  <2> QED BY <2>2, <2>4, <2>5, <2>6 DEF InRange, Connection
<1>7. ASSUME \/ ReturnPair \/ EnqueuePair \/ EnqueueNull \/ FinishReturns
             \/ NextGivesUp \/ NextReturns \/ ClearError \/ Free
      PROVE  InRange(conn', sent')
  <2>1. sent' = sent
    BY <1>7 DEF ReturnPair, EnqueuePair, EnqueueNull, FinishReturns, NextGivesUp,
                NextReturns, ClearError, Free, history
  <2>2. CountKept(conn, conn')
    BY <1>0, <1>3, <1>7
       DEF ReturnPair, EnqueuePair, EnqueueNull, FinishReturns, NextGivesUp,
           NextReturns, ClearError, Free, PairStates, Errors
  <2> QED BY <1>1, <2>1, <2>2
<1>8. ASSUME BadArgument \/ OutOfTurn \/ OutOfMemory \/ Declined PROVE InRange(conn', sent')
  BY <1>0, <1>2, <1>3, <1>8 DEF BadArgument, OutOfTurn, OutOfMemory, Declined, Errors
<1>9. ASSUME ResponseFinish \/ ResponseNext PROVE InRange(conn', sent')
  <2>1. CASE \E c \in {conn, SetError(conn, "STATE")} : Refused(c)
    BY <1>0, <1>2, <1>3, <2>1 DEF Errors
  <2>2. CASE conn' \in {conn, Finishing(conn)} /\ sent' = sent
    BY <1>0, <1>1, <1>3, <2>2
  <2>3. CASE ResponseFinish
    BY <2>1, <2>2, <2>3 DEF ResponseFinish, history
  <2>4. CASE ResponseNext
    <3>1. \/ Refused(conn) \/ Refused(SetError(conn, "STATE"))
          \/ UNCHANGED conn /\ UNCHANGED history
      BY <2>4, Zenon DEF ResponseNext
    <3> QED BY <2>1, <2>2, <3>1 DEF history
  <2> QED BY <1>9, <2>3, <2>4
<1>11. ASSUME NEW kind \in {"cmd", "idle"}, NEW long \in BOOLEAN, SendCommand(kind, long)
       PROVE  InRange(conn', sent')
  <2>1. CASE ~MaySend(conn)
    BY <1>0, <1>2, <1>3, <1>11, <2>1 DEF SendCommand
  <2>2. CASE MaySend(conn)
    <3>1. PICK o \in Sends(NextRequest(kind), long, ~conn.sendingList) :
            sent' = sent + 1 /\ conn' = AfterSend(conn, o)
      BY <1>11, <2>2 DEF SendCommand, Transmitted
    <3>2. CASE Defined(o.err)
      <4>1. CountKept(conn, SyncError(conn, o.err))
        BY <1>0 DEF CountKept, SyncError, Connection
      <4> QED BY <1>1, <3>1, <3>2, <4>1 DEF AfterSend
    <3>3. CASE ~Defined(o.err)
      BY <1>0, <3>1, <3>3 DEF AfterSend, Commanded, InRange, Connection
    <3> QED BY <3>2, <3>3
  <2> QED BY <2>1, <2>2
<1>12. ASSUME NEW kind \in {"cmd", "idle"}, Run(kind) PROVE InRange(conn', sent')
  <2>1. CASE conn.sendingList \/ ~MaySend(conn)
    BY <1>0, <1>2, <1>3, <1>12, <2>1 DEF Run
  <2>2. CASE ~conn.sendingList /\ MaySend(conn)
    <3>1. \E o \in Sends(NextRequest(kind), FALSE, TRUE) :
            conn' \in {SyncError(conn, o.err), Commanded(conn), Finishing(Commanded(conn))}
      BY <1>12, <2>2 DEF Run
    <3>2. ~conn'.sendingList
      BY <1>0, <2>2, <3>1 DEF SyncError, Commanded, Finishing, Connection
    <3> QED BY <3>2 DEF InRange
  <2> QED BY <2>1, <2>2
<1>13. ASSUME NEW discrete \in BOOLEAN, ListBegin(discrete) PROVE InRange(conn', sent')
  <2>1. CASE conn.sendingList
    BY <1>0, <1>2, <1>3, <1>13, <2>1 DEF ListBegin, Errors
  <2>2. CASE ~conn.sendingList /\ ~MaySend(conn)
    BY <1>0, <1>2, <1>3, <1>13, <2>2 DEF ListBegin
  <2>3. CASE ~conn.sendingList /\ MaySend(conn)
    <3>1. /\ sent' = sent + 1
          /\ \/ conn' = Listing(conn, discrete)
             \/ \E e : conn' = SyncError(conn, e)
      BY <1>13, <2>3 DEF ListBegin, Transmitted
    <3>2. CASE conn' = Listing(conn, discrete)
      <4>1. conn'.remaining = 0
        BY <1>0, <3>2 DEF Listing, Connection
      <4> QED BY <1>0, <3>1, <4>1 DEF InRange
    <3>3. CASE \E e : conn' = SyncError(conn, e)
      <4>1. ~conn'.sendingList
        BY <1>0, <2>3, <3>3 DEF SyncError, Connection
      <4> QED BY <4>1 DEF InRange
    <3> QED BY <3>1, <3>2, <3>3
  <2> QED BY <2>1, <2>2, <2>3
<1>14. ASSUME ListEnd PROVE InRange(conn', sent')
  <2>1. CASE ~conn.sendingList
    BY <1>0, <1>2, <1>3, <1>14, <2>1 DEF ListEnd, Errors
  <2>2. CASE conn.sendingList /\ ~MaySend(conn)
    BY <1>0, <1>2, <1>3, <1>14, <2>2 DEF ListEnd
  <2>3. CASE conn.sendingList /\ MaySend(conn)
    <3> DEFINE lowered == [conn EXCEPT !.sendingList = FALSE]
    <3>1. PICK o \in Sends(NextRequest("end"), FALSE, TRUE) :
            /\ sent' = sent + 1
            /\ \E b \in BOOLEAN :
                 conn' = [AfterSend(lowered, o) EXCEPT !.sendingList = TRUE, !.asserts = b]
      <4>1. PICK o \in Sends(NextRequest("end"), FALSE, TRUE) :
              /\ sent' = sent + 1
              /\ conn' = [AfterSend(lowered, o) EXCEPT
                            !.sendingList = TRUE,
                            !.asserts = @ \/ ~(AfterSend(lowered, o).receiving \/ Defined(o.err))]
        BY <1>14, <2>3 DEF ListEnd, Transmitted, Idle
      <4> QED BY <4>1
    <3>2. /\ conn'.sendingListOk = conn.sendingListOk
          /\ conn'.remaining = conn.remaining
      BY <1>0, <3>1 DEF AfterSend, SyncError, Commanded, Connection
    <3> QED BY <1>1, <2>3, <3>1, <3>2 DEF CountKept
  <2> QED BY <2>1, <2>2, <2>3
<1>15. ASSUME NEW run \in BOOLEAN, Noidle(run) PROVE InRange(conn', sent')
  <2> DEFINE ready == [conn EXCEPT !.receiving = FALSE]
  <2>0. ready \in Connection /\ CountKept(conn, ready)
    BY <1>0, <1>3, ConnectionType
  <2>1. CASE Defined(conn.error)
    <3>1. Refused(IF run THEN conn ELSE ready)
      BY <1>15, <2>1 DEF Noidle
    <3> HIDE DEF ready
    <3> QED BY <1>0, <1>2, <1>3, <2>0, <3>1
  <2>2. CASE ~Defined(conn.error)
    <3>1. PICK o \in Sends(NextRequest("noidle"), FALSE, TRUE) :
            sent' = sent + 1 /\ conn' = AfterSend(ready, o)
      BY <1>15, <2>2 DEF Noidle, Transmitted
    <3>2. CASE Defined(o.err)
      <4>1. CountKept(conn, SyncError(ready, o.err))
        BY <1>0 DEF CountKept, SyncError, Connection
      <4> QED BY <1>1, <3>1, <3>2, <4>1 DEF AfterSend
    <3>3. CASE ~Defined(o.err)
      BY <1>0, <3>1, <3>3 DEF AfterSend, Commanded, InRange, Connection
    <3> QED BY <3>2, <3>3
  <2> QED BY <2>1, <2>2
<1>16. ASSUME Flush \/ \E disable \in BOOLEAN : RecvIdle(disable)
       PROVE  InRange(conn', sent')
  <2>1. CountKept(conn, conn')
    BY <1>0, <1>3, <1>16 DEF Flush, RecvIdle, SyncError, CountKept, Connection
  <2>2. sent' = sent
    BY <1>16 DEF Flush, RecvIdle, history
  <2> QED BY <1>1, <2>1, <2>2
<1>17. ASSUME ServerStep \/ HangUp \/ Misbehave \/ Freed \/ UNCHANGED vars
       PROVE  InRange(conn', sent')
  <2>1. UNCHANGED <<conn, sent>>
    BY <1>17
       DEF ServerStep, ServeCommand, ServeListBegin, ServeListed, ServeListEnd,
           RunListed, RunListEnds, ServeIdle, ServeNoidle, Notify, HangUp,
           Misbehave, Environment, library, Freed, vars
  <2> QED BY <2>1
<1> QED BY <1>5, <1>6, <1>7, <1>8, <1>9, <1>11, <1>12, <1>13, <1>14, <1>15, <1>16,
           <1>17 DEF Next, ClientCall, LibraryStep

\* No server, whatever it sends, takes command_list_remaining below zero or
\* above the number of commands that the client has tried to send.
THEOREM RemainingAlwaysInRange == Spec => []RemainingInRange
<1>1. Init => RemainingInRange
  BY DEF Init, RemainingInRange
<1>2. TypeOK /\ RemainingInRange /\ [Next]_vars => RemainingInRange'
  BY RangeStep DEF RemainingInRange, InRange
<1> QED BY <1>1, <1>2, TypeCorrect, PTL DEF Spec

(***************************************************************************)
(***************************************************************************)
(* A careful client and a server that keeps the protocol.                  *)
(***************************************************************************)
(***************************************************************************)

(***************************************************************************)
(* Sequences.                                                              *)
(***************************************************************************)
LEMMA TailFacts ==
    ASSUME NEW S, NEW t \in Seq(S), t # <<>>
    PROVE  /\ Len(t) \in Nat \ {0} /\ Head(t) = t[1] /\ t[1] \in S
           /\ Tail(t) \in Seq(S) /\ Len(Tail(t)) = Len(t) - 1
           /\ \A i \in 1 .. Len(t) - 1 : Tail(t)[i] = t[i + 1]
           /\ (Tail(t) = <<>>) <=> (Len(t) = 1)
<1>1. Len(t) \in Nat \ {0} /\ Head(t) = t[1]
  BY EmptySeq
<1>2. t[1] \in S
  BY <1>1, ElementOfSeq
<1>3. /\ Tail(t) \in Seq(S) /\ Len(Tail(t)) = Len(t) - 1
      /\ \A i \in 1 .. Len(Tail(t)) : Tail(t)[i] = t[i + 1]
  BY HeadTailProperties
<1>4. (Tail(t) = <<>>) <=> (Len(t) = 1)
  BY <1>1, <1>3, EmptySeq
<1> QED BY <1>1, <1>2, <1>3, <1>4

Pair(id) == [kind |-> "pair", id |-> id]

\* Behind the lines w: n pairs of a (sub-)response, and a line behind them.
Pairs(w, n, id) == w \o Lines(n, id)
Response(w, n, e) == w \o Append(Lines(n, e.id), e)
Followed(w, e) == Append(w, e)

LEMMA LinesFacts ==
    ASSUME NEW w \in Seq(Line), NEW n \in Nat, NEW id \in Nat
    PROVE  /\ Pairs(w, n, id) \in Seq(Line)
           /\ Len(Pairs(w, n, id)) = Len(w) + n
           /\ \A i \in 1 .. Len(w) : Pairs(w, n, id)[i] = w[i]
           /\ \A i \in Len(w) + 1 .. Len(w) + n : Pairs(w, n, id)[i] = Pair(id)
<1> DEFINE p == Lines(n, id)
<1>1. [kind |-> "pair", id |-> id] \in Line
  BY DEF Line, LineKinds
<1>2. p \in Seq(Line) /\ Len(p) = n /\ \A i \in 1 .. n : p[i] = [kind |-> "pair", id |-> id]
  BY <1>1 DEF Lines
<1> HIDE DEF p
<1>3. Len(w) \in Nat
  BY LenProperties
<1>4. /\ w \o p \in Seq(Line) /\ Len(w \o p) = Len(w) + n
      /\ \A i \in 1 .. Len(w) : (w \o p)[i] = w[i]
      /\ \A i \in Len(w) + 1 .. Len(w) + n : (w \o p)[i] = [kind |-> "pair", id |-> id]
  <2>1. /\ w \o p \in Seq(Line) /\ Len(w \o p) = Len(w) + n
        /\ \A i \in 1 .. Len(w) + n :
             (w \o p)[i] = IF i <= Len(w) THEN w[i] ELSE p[i - Len(w)]
    BY <1>2, ConcatProperties
  <2>2. \A i \in 1 .. Len(w) : i \in 1 .. Len(w) + n /\ i <= Len(w)
    BY <1>3
  <2>3. \A i \in Len(w) + 1 .. Len(w) + n :
          i \in 1 .. Len(w) + n /\ ~(i <= Len(w)) /\ i - Len(w) \in 1 .. n
    BY <1>3
  <2> QED BY <1>2, <2>1, <2>2, <2>3
<1> QED BY <1>4 DEF p, Pairs, Pair

LEMMA ResponseIs ==
    ASSUME NEW w \in Seq(Line), NEW n \in Nat, NEW e \in Line, e.id \in Nat
    PROVE  /\ Pairs(w, n, e.id) \in Seq(Line)
           /\ Response(w, n, e) = Followed(Pairs(w, n, e.id), e)
<1> DEFINE p == Lines(n, e.id)
<1>1. p \in Seq(Line) /\ <<e>> \in Seq(Line)
  BY DEF Lines, Line, LineKinds
<1> HIDE DEF p
<1>2. w \o p \in Seq(Line)
  BY <1>1, ConcatProperties
<1>3. w \o Append(p, e) = Append(w \o p, e)
  BY <1>1, <1>2, AppendIsConcat, ConcatAssociative
<1> QED BY <1>2, <1>3 DEF p, Pairs, Response, Followed

(***************************************************************************)
(* What the server does.                                                   *)
(***************************************************************************)
\* The lines are in order and do not end the response: a line of id is the next.
Unfinished(c, aw, w, id) ==
    Answers(c, aw, w) /\ (\A i \in 1 .. Len(w) : ~Ends(w[i])) /\ Upcoming(c, aw, w) = id

\* The lines are in order; the last one is e, which may end the response.
Through(c, aw, w, e) ==
    /\ Answers(c, aw, w) /\ w # <<>> /\ w[Len(w)] = e
    /\ ~Ends(e) => Unfinished(c, aw, w, Behind(e))

\* Pairs of the upcoming (sub-)response keep the lines in order.
LEMMA PairsFollow ==
    ASSUME NEW c \in Connection, NEW aw, NEW w \in Seq(Line), NEW n \in Nat, NEW id \in Nat,
           Unfinished(c, aw, w, id), Expected(Pair(id), c, aw)
    PROVE  Unfinished(c, aw, Pairs(w, n, id), id)
<1> DEFINE r == Pairs(w, n, id)
           pair == Pair(id)
<1>0. /\ Answers(c, aw, w) /\ \A i \in 1 .. Len(w) : ~Ends(w[i])
      /\ id = Upcoming(c, aw, w) /\ Expected(pair, c, aw)
  BY DEF Unfinished
<1>1. /\ r \in Seq(Line) /\ Len(r) = Len(w) + n /\ Len(w) \in Nat
      /\ \A i \in 1 .. Len(w) : r[i] = w[i]
      /\ \A i \in Len(w) + 1 .. Len(w) + n : r[i] = pair
  <2>1. Len(w) \in Nat
    BY LenProperties
  <2> QED BY <2>1, LinesFacts
<1>2. ~Ends(pair) /\ Behind(pair) = id /\ pair.id = id
  BY DEF Pair, Ends, Behind
<1> HIDE DEF r, pair
<1>3. \A i \in 1 .. Len(w) : w[i] \in Line /\ w[i].id \in Nat /\ Behind(w[i]) \in Nat
  <2>1. \A i \in 1 .. Len(w) : w[i] \in Line
    BY ElementOfSeq
  <2>2. \A line \in Line : line.id \in Nat /\ Behind(line) \in Nat
    BY DEF Line, Behind
  <2> QED BY <2>1, <2>2
<1>4. w # <<>> => Len(w) \in 1 .. Len(w) /\ id = Behind(w[Len(w)])
  BY <1>0, <1>1, EmptySeq DEF Upcoming
<1>5. r # <<>> => r[1].id = First(c, aw)
  <2>1. CASE w = <<>>
    BY <1>0, <1>1, <1>2, <2>1, EmptySeq DEF Upcoming
  <2>2. CASE w # <<>>
    BY <1>0, <1>1, <1>4, <2>2 DEF Answers
  <2> QED BY <2>1, <2>2
<1>6. \A i \in 1 .. Len(r) : Expected(r[i], c, aw) /\ ~Ends(r[i])
  <2>1. ASSUME NEW i \in 1 .. Len(r) PROVE Expected(r[i], c, aw) /\ ~Ends(r[i])
    <3>1. CASE i <= Len(w)
      BY <1>0, <1>1, <2>1, <3>1 DEF Answers
    <3>2. CASE i > Len(w)
      <4>1. i \in Len(w) + 1 .. Len(w) + n
        BY <1>1, <2>1, <3>2
      <4>2. r[i] = pair
        BY <1>1, <4>1
      <4> QED BY <1>0, <1>2, <4>2
    <3>3. i \in Nat /\ Len(w) \in Nat
      BY <1>1, <2>1
    <3>4. i <= Len(w) \/ i > Len(w)
      BY <3>3
    <3> QED BY <3>1, <3>2, <3>4
  <2> QED BY <2>1
<1>7. ASSUME NEW i \in 1 .. Len(r) - 1 PROVE r[i + 1].id = Behind(r[i])
  <2>1. CASE i < Len(w)
    <3>1. i \in 1 .. Len(w) - 1 /\ i \in 1 .. Len(w) /\ i + 1 \in 1 .. Len(w)
      BY <1>1, <2>1
    <3>2. r[i] = w[i] /\ r[i + 1] = w[i + 1]
      BY <1>1, <3>1
    <3> QED BY <1>0, <3>1, <3>2 DEF Answers
  <2>2. CASE i = Len(w)
    <3>1. r[i] = w[i] /\ r[i + 1] = pair /\ w # <<>>
      BY <1>1, <2>2, EmptySeq
    <3> QED BY <1>2, <1>4, <2>2, <3>1
  <2>3. CASE i > Len(w)
    <3>1. r[i] = pair /\ r[i + 1] = pair
      BY <1>1, <2>3
    <3> QED BY <1>2, <3>1
  <2> QED BY <1>1, <2>1, <2>2, <2>3
<1>8. ASSUME NEW i \in 1 .. Len(r), NEW j \in 1 .. Len(r), i < j
      PROVE  r[j].id >= Behind(r[i])
  <2>1. CASE j <= Len(w)
    <3>1. r[i] = w[i] /\ r[j] = w[j] /\ i \in 1 .. Len(w) /\ j \in 1 .. Len(w)
      BY <1>1, <1>8, <2>1
    <3> QED BY <1>0, <1>8, <3>1 DEF Answers
  <2>2. CASE i <= Len(w) /\ j > Len(w)
    <3>1. r[i] = w[i] /\ r[j] = pair /\ i \in 1 .. Len(w) /\ Len(w) \in 1 .. Len(w)
      BY <1>1, <1>8, <2>2
    <3>2. id = Behind(w[Len(w)])
      BY <1>4, <3>1, EmptySeq
    <3>3. i # Len(w) => w[Len(w)].id >= Behind(w[i])
      BY <1>0, <1>1, <3>1 DEF Answers
    <3>4. Behind(w[Len(w)]) >= w[Len(w)].id
      BY <1>3, <3>1 DEF Behind
    <3>5. /\ Behind(w[i]) \in Nat /\ Behind(w[Len(w)]) \in Nat /\ w[Len(w)].id \in Nat
          /\ r[j].id = Behind(w[Len(w)])
      BY <1>2, <1>3, <3>1, <3>2
    <3> QED BY <3>1, <3>3, <3>4, <3>5
  <2>3. CASE i > Len(w)
    <3>1. r[i] = pair /\ r[j] = pair
      BY <1>1, <1>8, <2>3
    <3> QED BY <1>2, <3>1
  <2> QED BY <1>1, <1>8, <2>1, <2>2, <2>3
<1>9. Upcoming(c, aw, r) = id
  <2>1. CASE n = 0
    <3>1. Len(r) = Len(w) /\ (r = <<>> <=> w = <<>>)
      BY <1>1, <2>1, EmptySeq
    <3> QED BY <1>0, <1>1, <1>4, <3>1 DEF Upcoming
  <2>2. CASE n > 0
    <3>1. r # <<>> /\ r[Len(r)] = pair
      BY <1>1, <2>2, EmptySeq
    <3> QED BY <1>2, <3>1 DEF Upcoming
  <2> QED BY <2>1, <2>2
<1>10. Answers(c, aw, r)
  BY <1>1, <1>5, <1>6, <1>7, <1>8 DEF Answers
<1> QED BY <1>6, <1>9, <1>10 DEF Unfinished, r

\* So does one line of it, which may end it, or the response.
LEMMA LineFollows ==
    ASSUME NEW c \in Connection, NEW aw, NEW w \in Seq(Line), NEW e \in Line,
           Unfinished(c, aw, w, e.id), Expected(e, c, aw)
    PROVE  Through(c, aw, Followed(w, e), e)
<1> DEFINE r == Append(w, e)
<1>0. /\ Answers(c, aw, w) /\ \A i \in 1 .. Len(w) : ~Ends(w[i])
      /\ e.id = Upcoming(c, aw, w)
  BY DEF Unfinished
<1>1. /\ r \in Seq(Line) /\ r # <<>> /\ Len(r) = Len(w) + 1 /\ Len(w) \in Nat
      /\ \A i \in 1 .. Len(w) : r[i] = w[i]
      /\ r[Len(r)] = e
  BY AppendProperties, LenProperties
<1> HIDE DEF r
<1>2. \A i \in 1 .. Len(w) : w[i].id \in Nat /\ Behind(w[i]) \in Nat
  <2>1. \A i \in 1 .. Len(w) : w[i] \in Line
    BY ElementOfSeq
  <2>2. \A line \in Line : line.id \in Nat /\ Behind(line) \in Nat
    BY DEF Line, Behind
  <2> QED BY <2>1, <2>2
<1>3. w # <<>> => Len(w) \in 1 .. Len(w) /\ e.id = Behind(w[Len(w)])
  BY <1>0, <1>1, EmptySeq DEF Upcoming
<1>4. r[1].id = First(c, aw)
  <2>1. CASE w = <<>>
    BY <1>0, <1>1, <2>1, EmptySeq DEF Upcoming
  <2>2. CASE w # <<>>
    BY <1>0, <1>1, <1>3, <2>2 DEF Answers
  <2> QED BY <2>1, <2>2
<1>5. \A i \in 1 .. Len(r) : Expected(r[i], c, aw)
  BY <1>0, <1>1 DEF Answers
<1>6. \A i \in 1 .. Len(r) - 1 : i \in 1 .. Len(w) /\ ~Ends(r[i])
  BY <1>0, <1>1
<1>7. ASSUME NEW i \in 1 .. Len(r) - 1 PROVE r[i + 1].id = Behind(r[i])
  <2>1. CASE i < Len(w)
    <3>1. i \in 1 .. Len(w) - 1 /\ i \in 1 .. Len(w) /\ i + 1 \in 1 .. Len(w)
      BY <1>1, <2>1
    <3>2. r[i] = w[i] /\ r[i + 1] = w[i + 1]
      BY <1>1, <3>1
    <3> QED BY <1>0, <3>1, <3>2 DEF Answers
  <2>2. CASE i = Len(w)
    <3>1. r[i] = w[i] /\ r[i + 1] = e /\ w # <<>>
      BY <1>1, <2>2, EmptySeq
    <3> QED BY <1>3, <2>2, <3>1
  <2> QED BY <1>1, <2>1, <2>2
<1>8. ASSUME NEW i \in 1 .. Len(r), NEW j \in 1 .. Len(r), i < j
      PROVE  r[j].id >= Behind(r[i])
  <2>1. CASE j <= Len(w)
    <3>1. r[i] = w[i] /\ r[j] = w[j] /\ i \in 1 .. Len(w) /\ j \in 1 .. Len(w)
      BY <1>1, <1>8, <2>1
    <3> QED BY <1>0, <1>8, <3>1 DEF Answers
  <2>2. CASE j > Len(w)
    <3>1. r[i] = w[i] /\ r[j] = e /\ i \in 1 .. Len(w) /\ Len(w) \in 1 .. Len(w)
      BY <1>1, <1>8, <2>2
    <3>2. e.id = Behind(w[Len(w)])
      BY <1>3, <3>1, EmptySeq
    <3>3. i # Len(w) => w[Len(w)].id >= Behind(w[i])
      BY <1>0, <1>1, <3>1 DEF Answers
    <3>4. Behind(w[Len(w)]) >= w[Len(w)].id
      BY <1>2, <3>1 DEF Behind
    <3> QED BY <1>2, <3>1, <3>2, <3>3, <3>4
  <2> QED BY <1>1, <2>1, <2>2
<1>9. Answers(c, aw, r)
  BY <1>4, <1>5, <1>6, <1>7, <1>8 DEF Answers
<1>10. ~Ends(e) => (\A i \in 1 .. Len(r) : ~Ends(r[i])) /\ Upcoming(c, aw, r) = Behind(e)
  BY <1>0, <1>1 DEF Upcoming
<1> QED BY <1>1, <1>9, <1>10 DEF Through, Unfinished, r, Followed

\* The rest of a queue.
LEMMA RestOfNoidles ==
    ASSUME NEW q \in Seq(Request), q # <<>>,
           NEW m \in Nat \ {0}, NEW n \in 0 .. Len(q) - 1, Noidles(q, m + 1, n + 1)
    PROVE  Noidles(Tail(q), m, n)
<1>1. /\ Len(q) \in Nat \ {0}
      /\ \A i \in 1 .. Len(q) - 1 : Tail(q)[i] = q[i + 1]
  BY TailFacts
<1>2. ASSUME NEW i \in m .. n PROVE Tail(q)[i].kind = "noidle"
  <2>1. i \in 1 .. Len(q) - 1 /\ i + 1 \in m + 1 .. n + 1
    BY <1>1
  <2> QED BY <1>1, <2>1 DEF Noidles
<1> QED BY <1>2 DEF Noidles

LEMMA RestIsLate ==
    ASSUME NEW q \in Seq(Request), q # <<>>, Noidles(q, 2, Len(q))
    PROVE  Noidles(Tail(q), 1, Len(Tail(q)))
<1>1. Len(q) \in Nat \ {0} /\ Len(Tail(q)) = Len(q) - 1
  BY TailFacts
<1>2. Len(Tail(q)) \in 0 .. Len(q) - 1 /\ Noidles(q, 1 + 1, Len(Tail(q)) + 1)
  BY <1>1
<1> QED BY <1>2, RestOfNoidles

LEMMA RestOfRemainder ==
    ASSUME NEW c \in Connection, NEW aw \in Seq(Request), NEW q \in Seq(Request),
           NEW s \in Server, NEW t \in Server, t.list = s.list, q # <<>>,
           NEW m \in 1 .. Len(q), Remainder(m, c, aw, q, s)
    PROVE  Remainder(m - 1, c, aw, Tail(q), t)
<1>1. /\ Len(q) \in Nat \ {0} /\ Len(Tail(q)) = Len(q) - 1
      /\ \A i \in 1 .. Len(q) - 1 : Tail(q)[i] = q[i + 1]
  BY TailFacts
<1>2. Len(s.list) \in Nat /\ Len(aw) \in Nat
  BY LenProperties DEF Server
<1>3. \A i \in m .. Len(q) - 1 :
        i \in 1 .. Len(q) - 1 /\ i + 1 \in m + 1 .. Len(q) /\ Tail(q)[i] = q[i + 1]
  BY <1>1
<1>4. CASE c.sendingListOk
  <2>1. /\ Len(s.list) + Len(q) - m = Len(aw)
        /\ \A j \in 1 .. Len(s.list) : s.list[j] = aw[j].id
        /\ \A i \in m + 1 .. Len(q) : q[i] = aw[Len(s.list) + i - m]
    BY <1>4 DEF Remainder
  <2>2. ASSUME NEW i \in m .. Len(q) - 1
        PROVE  Tail(q)[i] = aw[Len(s.list) + i - (m - 1)]
    <3>1. Tail(q)[i] = aw[Len(s.list) + (i + 1) - m]
      BY <1>3, <2>1
    <3>2. Len(s.list) + (i + 1) - m = Len(s.list) + i - (m - 1)
      BY <1>2
    <3> QED BY <3>1, <3>2
  <2>3. m - 1 + 1 = m /\ Len(s.list) + Len(Tail(q)) - (m - 1) = Len(aw)
    BY <1>1, <1>2, <2>1
  <2>4. c.receiving => Len(Tail(q)) > m - 1
    BY <1>1 DEF Remainder
  <2> QED BY <1>1, <1>4, <2>1, <2>2, <2>3, <2>4 DEF Remainder
<1>5. CASE ~c.sendingListOk
  <2>1. /\ \A i \in m + 1 .. Len(q) : i < Len(q) \/ ~c.receiving => q[i].kind = "cmd"
        /\ c.receiving => q[Len(q)] = aw[1] /\ Len(q) > m
    BY <1>5 DEF Remainder
  <2>2. ASSUME NEW i \in m .. Len(q) - 1, i < Len(Tail(q)) \/ ~c.receiving
        PROVE  Tail(q)[i].kind = "cmd"
    BY <1>1, <1>3, <2>1, <2>2
  <2>3. c.receiving => Tail(q)[Len(Tail(q))] = aw[1] /\ Len(Tail(q)) > m - 1
    BY <1>1, <2>1
  <2>4. m - 1 + 1 = m
    OBVIOUS
  <2> QED BY <1>1, <1>5, <2>2, <2>3, <2>4 DEF Remainder
<1> QED BY <1>4, <1>5

\* What a server that is ready finds next.
LEMMA WhatIsNext ==
    ASSUME NEW c \in Connection, NEW aw \in Seq(Request), NEW q \in Seq(Request),
           NEW s \in Server, NEW w \in Seq(Line), Fit(c, aw, q, s, w),
           s.mode = "ready", q # <<>>
    PROVE  /\ AtRest(s) /\ q[1].kind # "end"
           /\ q[1].kind \in {"cmd", "idle"} =>
                /\ c.receiving /\ ~c.sendingList /\ Numbered(aw) /\ SentOne(aw)
                /\ q[1] = aw[1] /\ w = <<>> /\ Noidles(q, 2, Len(q))
           /\ q[1].kind \in {"begin", "begin_ok"} =>
                /\ c.sendingList /\ w = <<>> /\ ~c.discreteFinished
                /\ q[1].kind = IF c.sendingListOk THEN "begin_ok" ELSE "begin"
                /\ Remainder(1, c, aw, q, s)
<1>0. Len(q) \in Nat \ {0}
  BY EmptySeq
<1>1. CASE AtRest(s) /\ Noidles(q, 1, Len(q))
  BY <1>0, <1>1 DEF Noidles
<1>2. CASE ListUnderWay(c, aw, q, s, w) /\ c.sendingList
  <2>1. PICK m \in 1 .. Len(q) :
          /\ AtRest(s) /\ Noidles(q, 1, m - 1)
          /\ q[m].kind = IF c.sendingListOk THEN "begin_ok" ELSE "begin"
          /\ Remainder(m, c, aw, q, s)
    BY <1>2 DEF ListUnderWay
  <2>2. CASE m = 1
    BY <1>2, <2>1, <2>2 DEF ListUnderWay
  <2>3. CASE m # 1
    <3>1. q[1].kind = "noidle"
      BY <1>0, <2>1, <2>3 DEF Noidles
    <3> QED BY <2>1, <3>1
  <2> QED BY <2>2, <2>3
<1>3. CASE OneUnderWay(aw, q, s, w) /\ Numbered(aw) /\ SentOne(aw) /\ c.receiving /\ ~c.sendingList
  <2>1. PICK m \in 1 .. Len(q) :
          /\ AtRest(s) /\ q[m] = aw[1]
          /\ Noidles(q, 1, m - 1) /\ Noidles(q, m + 1, Len(q))
    BY <1>3 DEF OneUnderWay
  <2>2. CASE m = 1
    BY <1>3, <2>1, <2>2 DEF OneUnderWay, SentOne
  <2>3. CASE m # 1
    <3>1. q[1].kind = "noidle"
      BY <1>0, <2>1, <2>3 DEF Noidles
    <3> QED BY <2>1, <3>1
  <2> QED BY <2>2, <2>3
<1> QED BY <1>1, <1>2, <1>3 DEF Fit, Quiet, Running, Answered

\* Without a discrete list, all lines belong to the one response.
LEMMA OneResponse ==
    ASSUME NEW c \in Connection, NEW aw \in Seq(Request), NEW w \in Seq(Line),
           Answers(c, aw, w), ~Discrete(c), Len(aw) = 1,
           c.sendingList => ~c.discreteFinished
    PROVE  Upcoming(c, aw, w) = Last(aw) /\ Last(aw) = aw[1].id
<1>1. First(c, aw) = aw[1].id /\ Last(aw) = aw[1].id
  BY DEF First, Last
<1>2. CASE w = <<>>
  BY <1>1, <1>2 DEF Upcoming
<1>3. CASE w # <<>>
  <2>1. Len(w) \in 1 .. Len(w)
    BY <1>3, EmptySeq
  <2>2. Expected(w[Len(w)], c, aw)
    BY <2>1 DEF Answers
  <2> QED BY <1>1, <1>3, <2>2 DEF Expected, Behind, Upcoming
<1> QED BY <1>2, <1>3

LEMMA ResponseFollows ==
    ASSUME NEW c \in Connection, NEW aw, NEW w \in Seq(Line), NEW n \in Nat, NEW e \in Line,
           Unfinished(c, aw, w, e.id), Expected(Pair(e.id), c, aw), Expected(e, c, aw)
    PROVE  Through(c, aw, Response(w, n, e), e)
<1>1. e.id \in Nat
  BY DEF Line
<1> DEFINE p == Pairs(w, n, e.id)
<1>2. p \in Seq(Line) /\ Response(w, n, e) = Followed(p, e)
  BY <1>1, ResponseIs
<1>3. Unfinished(c, aw, p, e.id)
  BY <1>1, PairsFollow
<1> HIDE DEF p
<1>4. Through(c, aw, Followed(p, e), e)
  BY <1>2, <1>3, LineFollows
<1> QED BY <1>2, <1>4

LEMMA NoLinesYet ==
    ASSUME NEW c, NEW aw
    PROVE  Unfinished(c, aw, <<>>, First(c, aw))
BY DEF Unfinished, Answers, Upcoming

\* The only response expected, and all of it.
LEMMA OnlyResponse ==
    ASSUME NEW c \in Connection, NEW aw \in Seq(Request), SentOne(aw), ~c.sendingList,
           NEW n \in Nat, NEW kind \in {"OK", "ACK"}
    PROVE  LET r == <<>> \o Append(Lines(n, aw[1].id), [kind |-> kind, id |-> aw[1].id])
           IN  Answers(c, aw, r) /\ r # <<>> /\ Ends(r[Len(r)])
<1> DEFINE e == [kind |-> kind, id |-> aw[1].id]
           w == <<>>
<1>0. Len(aw) = 1 /\ 1 \in 1 .. Len(aw)
  BY DEF SentOne
<1>1. aw[1] \in Request
  BY <1>0, ElementOfSeq
<1>2. e \in Line /\ e.id = aw[1].id /\ Ends(e) /\ w \in Seq(Line)
  BY <1>1 DEF Line, LineKinds, Request, Ends
<1>3. Last(aw) = aw[1].id /\ First(c, aw) = aw[1].id
  BY <1>0 DEF Last, First
<1>4. Expected(e, c, aw) /\ Expected(Pair(e.id), c, aw)
  BY <1>3 DEF Expected, Discrete, Pair
<1>5. Unfinished(c, aw, w, e.id)
  BY <1>3, NoLinesYet
<1>6. w \o Append(Lines(n, aw[1].id), e) = Response(w, n, e)
  BY DEF Response
<1> HIDE DEF e, w
<1>7. Through(c, aw, Response(w, n, e), e)
  BY <1>2, <1>4, <1>5, ResponseFollows
<1> QED BY <1>2, <1>6, <1>7 DEF e, w, Through

LEMMA CommandFits ==
    ASSUME NEW c \in Connection, NEW aw \in Seq(Request), NEW q \in Seq(Request),
           NEW s \in Server, NEW w \in Seq(Line), Fit(c, aw, q, s, w),
           s.mode = "ready", q # <<>>, q[1].kind = "cmd",
           NEW n \in Nat, NEW kind \in {"OK", "ACK"}
    PROVE  Fit(c, aw, Tail(q), s,
               w \o Append(Lines(n, q[1].id), [kind |-> kind, id |-> q[1].id]))
<1> DEFINE r == w \o Append(Lines(n, q[1].id), [kind |-> kind, id |-> q[1].id])
<1>1. /\ AtRest(s) /\ c.receiving /\ ~c.sendingList /\ Numbered(aw) /\ SentOne(aw)
      /\ q[1] = aw[1] /\ w = <<>> /\ Noidles(q, 2, Len(q))
  BY WhatIsNext
<1>2. Answers(c, aw, r) /\ r # <<>> /\ Ends(r[Len(r)])
  BY <1>1, OnlyResponse
<1>4. Noidles(Tail(q), 1, Len(Tail(q)))
  BY <1>1, RestIsLate
<1> HIDE DEF r
<1> QED BY <1>1, <1>2, <1>4 DEF Fit, Answered, r

LEMMA IdleFits ==
    ASSUME NEW c \in Connection, NEW aw \in Seq(Request), NEW q \in Seq(Request),
           NEW s \in Server, NEW w \in Seq(Line), Fit(c, aw, q, s, w),
           s.mode = "ready", q # <<>>, q[1].kind = "idle"
    PROVE  Fit(c, aw, Tail(q), [s EXCEPT !.mode = "idle", !.id = q[1].id], w)
<1> DEFINE t == [s EXCEPT !.mode = "idle", !.id = q[1].id]
<1>1. /\ c.receiving /\ ~c.sendingList /\ Numbered(aw) /\ SentOne(aw)
      /\ q[1] = aw[1] /\ w = <<>> /\ Noidles(q, 2, Len(q))
  BY WhatIsNext
<1>2. t.mode = "idle" /\ t.id = q[1].id
  BY DEF Server
<1>4. Noidles(Tail(q), 1, Len(Tail(q)))
  BY <1>1, RestIsLate
<1> HIDE DEF t
<1>5. OneUnderWay(aw, Tail(q), t, w)
  BY <1>1, <1>2, <1>4 DEF OneUnderWay
<1> QED BY <1>1, <1>5 DEF Fit, t

\* A server that is idling, and what it answers.
LEMMA Idling ==
    ASSUME NEW c \in Connection, NEW aw \in Seq(Request), NEW q \in Seq(Request),
           NEW s \in Server, NEW w \in Seq(Line), Fit(c, aw, q, s, w), s.mode = "idle"
    PROVE  /\ c.receiving /\ ~c.sendingList /\ Numbered(aw) /\ SentOne(aw)
           /\ w = <<>> /\ s.id = aw[1].id /\ Noidles(q, 1, Len(q))
BY DEF Fit, ListUnderWay, OneUnderWay, Running, Answered, Quiet, AtRest

LEMMA IdleEnds ==
    ASSUME NEW c \in Connection, NEW aw \in Seq(Request), NEW q \in Seq(Request),
           NEW s \in Server, NEW w \in Seq(Line), Fit(c, aw, q, s, w), s.mode = "idle",
           NEW t \in Server, AtRest(t), NEW n \in Nat, NEW p, Noidles(p, 1, Len(p))
    PROVE  Fit(c, aw, p, t, w \o Append(Lines(n, s.id), [kind |-> "OK", id |-> s.id]))
<1> DEFINE r == w \o Append(Lines(n, s.id), [kind |-> "OK", id |-> s.id])
<1>1. /\ c.receiving /\ ~c.sendingList /\ Numbered(aw) /\ SentOne(aw)
      /\ w = <<>> /\ s.id = aw[1].id
  BY Idling
<1>2. Answers(c, aw, r) /\ r # <<>> /\ Ends(r[Len(r)])
  BY <1>1, OnlyResponse
<1> HIDE DEF r
<1> QED BY <1>1, <1>2 DEF Fit, Answered, r

LEMMA ListBeginFits ==
    ASSUME NEW c \in Connection, NEW aw \in Seq(Request), NEW q \in Seq(Request),
           NEW s \in Server, NEW w \in Seq(Line), Fit(c, aw, q, s, w),
           s.mode = "ready", q # <<>>, q[1].kind \in {"begin", "begin_ok"}
    PROVE  Fit(c, aw, Tail(q),
               [s EXCEPT !.mode = "list", !.list = <<>>,
                         !.discrete = (q[1].kind = "begin_ok")], w)
<1> DEFINE t == [s EXCEPT !.mode = "list", !.list = <<>>,
                          !.discrete = (q[1].kind = "begin_ok")]
<1>1. /\ c.sendingList /\ w = <<>> /\ ~c.discreteFinished /\ AtRest(s)
      /\ q[1].kind = IF c.sendingListOk THEN "begin_ok" ELSE "begin"
      /\ Remainder(1, c, aw, q, s)
  BY WhatIsNext
<1>2. c.sendingListOk \in BOOLEAN
  BY DEF Connection
<1>3. t \in Server /\ t.mode = "list" /\ t.list = s.list /\ t.discrete = c.sendingListOk
  BY <1>1, <1>2 DEF Server, AtRest
<1>4. 1 \in 1 .. Len(q) /\ 1 - 1 = 0
  BY EmptySeq
<1> HIDE DEF t
<1>5. Remainder(0, c, aw, Tail(q), t)
  BY <1>1, <1>3, <1>4, RestOfRemainder
<1>6. ListUnderWay(c, aw, Tail(q), t, w)
  BY <1>1, <1>3, <1>5 DEF ListUnderWay
<1> QED BY <1>1, <1>6 DEF Fit, t

\* A server that is gathering a list.
LEMMA Gathers ==
    ASSUME NEW c \in Connection, NEW aw \in Seq(Request), NEW q \in Seq(Request),
           NEW s \in Server, NEW w \in Seq(Line), Fit(c, aw, q, s, w), s.mode = "list"
    PROVE  /\ c.sendingList /\ Numbered(aw) /\ w = <<>> /\ ~c.discreteFinished
           /\ s.discrete = c.sendingListOk /\ Remainder(0, c, aw, q, s)
           /\ IF c.receiving THEN SentList(c, aw) ELSE Gathering(c, aw)
BY DEF Fit, ListUnderWay, OneUnderWay, Running, Answered, Quiet, AtRest

\* It is not given the end of the list too early.
LEMMA EndComesLast ==
    ASSUME NEW c \in Connection, NEW aw \in Seq(Request), NEW q \in Seq(Request),
           NEW s \in Server, NEW w \in Seq(Line), Fit(c, aw, q, s, w), s.mode = "list",
           q # <<>>
    PROVE  /\ q[1].kind = IF c.receiving /\ Len(q) = 1 THEN "end" ELSE "cmd"
           /\ c.sendingListOk => q[1] = aw[Len(s.list) + 1]
           /\ ~c.sendingListOk /\ c.receiving /\ Len(q) = 1 => q[1] = aw[1]
<1>1. /\ ~c.discreteFinished /\ Remainder(0, c, aw, q, s)
      /\ IF c.receiving THEN SentList(c, aw) ELSE Gathering(c, aw)
  BY Gathers
<1>2. Len(q) \in Nat \ {0} /\ 1 \in 0 + 1 .. Len(q) /\ Len(s.list) \in Nat /\ Len(aw) \in Nat
  BY EmptySeq, LenProperties DEF Server
<1>3. CASE c.sendingListOk
  <2>1. q[1] = aw[Len(s.list) + 1] /\ Len(s.list) + Len(q) = Len(aw)
    BY <1>1, <1>2, <1>3 DEF Remainder
  <2>2. /\ Len(s.list) + 1 \in 1 .. Len(aw)
        /\ Len(s.list) + 1 = Len(aw) => Len(q) = 1
        /\ Len(q) = 1 => Len(s.list) + 1 = Len(aw)
    <3> DEFINE a == Len(s.list)
               b == Len(q)
               d == Len(aw)
    <3>1. a \in Nat /\ b \in Nat \ {0} /\ d \in Nat /\ a + b = d
      BY <1>2, <2>1
    <3> HIDE DEF a, b, d
    <3>2. a + 1 \in 1 .. d /\ (a + 1 = d => b = 1) /\ (b = 1 => a + 1 = d)
      BY <3>1
    <3> QED BY <3>2 DEF a, b, d
  <2>3. CASE c.receiving
    <3>1. q[1].kind = IF Len(s.list) + 1 = Len(aw) THEN "end" ELSE "cmd"
      BY <1>1, <2>1, <2>2, <2>3 DEF SentList
    <3> QED BY <1>3, <2>1, <2>2, <2>3, <3>1
  <2>4. CASE ~c.receiving
    <3>1. q[1].kind = "cmd"
      BY <1>1, <1>3, <2>1, <2>2, <2>4 DEF Gathering
    <3> QED BY <1>3, <2>1, <2>4, <3>1
  <2> QED BY <2>3, <2>4
<1>4. CASE ~c.sendingListOk
  <2>1. /\ 1 < Len(q) \/ ~c.receiving => q[1].kind = "cmd"
        /\ c.receiving => q[Len(q)] = aw[1]
    BY <1>1, <1>2, <1>4 DEF Remainder
  <2>2. c.receiving => aw[1].kind = "end"
    BY <1>1, <1>2, <1>4 DEF SentList
  <2>3. CASE c.receiving /\ Len(q) = 1
    BY <1>4, <2>1, <2>2, <2>3
  <2>4. CASE ~c.receiving
    BY <1>4, <2>1, <2>4
  <2>5. CASE Len(q) # 1
    <3>1. 1 < Len(q)
      <4>1. \A x \in Nat \ {0} : x # 1 => 1 < x
        OBVIOUS
      <4> QED BY <1>2, <2>5, <4>1
    <3> QED BY <1>4, <2>1, <2>5, <3>1
  <2> QED BY <2>3, <2>4, <2>5
<1> QED BY <1>3, <1>4

LEMMA ListedFits ==
    ASSUME NEW c \in Connection, NEW aw \in Seq(Request), NEW q \in Seq(Request),
           NEW s \in Server, NEW w \in Seq(Line), Fit(c, aw, q, s, w),
           s.mode = "list", q # <<>>, q[1].kind = "cmd"
    PROVE  Fit(c, aw, Tail(q), [s EXCEPT !.list = Append(@, q[1].id)], w)
<1> DEFINE t == [s EXCEPT !.list = Append(@, q[1].id)]
<1>1. /\ c.sendingList /\ Numbered(aw) /\ w = <<>> /\ ~c.discreteFinished
      /\ s.discrete = c.sendingListOk /\ Remainder(0, c, aw, q, s)
      /\ IF c.receiving THEN SentList(c, aw) ELSE Gathering(c, aw)
  BY Gathers
<1>2. /\ Len(q) \in Nat \ {0} /\ q[1] \in Request /\ Len(Tail(q)) = Len(q) - 1
      /\ \A i \in 1 .. Len(q) - 1 : Tail(q)[i] = q[i + 1]
  BY TailFacts
<1>3. /\ s.list \in Seq(Nat) /\ Len(s.list) \in Nat /\ Len(aw) \in Nat /\ q[1].id \in Nat
  BY <1>2, LenProperties DEF Server, Request
<1>4. t.list = Append(s.list, q[1].id) /\ t.mode = s.mode /\ t.discrete = s.discrete
  BY DEF Server
<1>5. /\ Len(t.list) = Len(s.list) + 1
      /\ \A j \in 1 .. Len(s.list) : t.list[j] = s.list[j]
      /\ t.list[Len(s.list) + 1] = q[1].id
  BY <1>3, <1>4, AppendProperties
<1> HIDE DEF t
<1>6. c.receiving => Len(Tail(q)) > 0
  <2>1. ~(c.receiving /\ Len(q) = 1)
    BY EndComesLast
  <2> QED BY <1>2, <2>1
<1>7. ASSUME c.sendingListOk PROVE Remainder(0, c, aw, Tail(q), t)
  <2>1. /\ Len(s.list) + Len(q) = Len(aw) /\ q[1] = aw[Len(s.list) + 1]
        /\ \A j \in 1 .. Len(s.list) : s.list[j] = aw[j].id
        /\ \A i \in 1 .. Len(q) : q[i] = aw[Len(s.list) + i - 0]
    BY <1>1, <1>7, EndComesLast DEF Remainder
  <2>2. ASSUME NEW j \in 1 .. Len(t.list) PROVE t.list[j] = aw[j].id
    <3>1. j \in 1 .. Len(s.list) \/ j = Len(s.list) + 1
      BY <1>3, <1>5
    <3> QED BY <1>5, <2>1, <3>1
  <2>3. ASSUME NEW i \in 1 .. Len(Tail(q)) PROVE Tail(q)[i] = aw[Len(t.list) + i - 0]
    <3>1. i \in 1 .. Len(q) - 1 /\ i + 1 \in 1 .. Len(q)
      BY <1>2
    <3>2. Len(s.list) + (i + 1) - 0 = Len(t.list) + i - 0
      <4>1. \A x, y, z \in Nat : y = x + 1 => x + (z + 1) - 0 = y + z - 0
        OBVIOUS
      <4>2. Len(s.list) \in Nat /\ Len(t.list) \in Nat /\ i \in Nat
        BY <1>3, <1>5
      <4> QED BY <1>5, <4>1, <4>2
    <3> QED BY <1>2, <2>1, <3>1, <3>2
  <2>4. Len(t.list) + Len(Tail(q)) - 0 = Len(aw)
    BY <1>2, <1>3, <1>5, <2>1
  <2> QED BY <1>6, <1>7, <2>2, <2>3, <2>4 DEF Remainder
<1>8. ASSUME ~c.sendingListOk PROVE Remainder(0, c, aw, Tail(q), t)
  <2>1. /\ \A i \in 1 .. Len(q) : i < Len(q) \/ ~c.receiving => q[i].kind = "cmd"
        /\ c.receiving => q[Len(q)] = aw[1]
    BY <1>1, <1>8 DEF Remainder
  <2>2. ASSUME NEW i \in 1 .. Len(Tail(q)), i < Len(Tail(q)) \/ ~c.receiving
        PROVE  Tail(q)[i].kind = "cmd"
    <3>1. i \in 1 .. Len(q) - 1 /\ i + 1 \in 1 .. Len(q) /\ (i + 1 < Len(q) \/ ~c.receiving)
      BY <1>2, <2>2
    <3> QED BY <1>2, <2>1, <3>1
  <2>3. c.receiving => Tail(q)[Len(Tail(q))] = aw[1]
    <3>1. c.receiving => Len(Tail(q)) \in 1 .. Len(q) - 1 /\ Len(Tail(q)) + 1 = Len(q)
      BY <1>2, <1>6
    <3> QED BY <1>2, <2>1, <3>1
  <2> QED BY <1>6, <1>8, <2>2, <2>3 DEF Remainder
<1>9. Remainder(0, c, aw, Tail(q), t)
  BY <1>7, <1>8
<1>10. ListUnderWay(c, aw, Tail(q), t, w)
  BY <1>1, <1>4, <1>9 DEF ListUnderWay
<1> QED BY <1>1, <1>10 DEF Fit, t

\* The numbers of the requests awaited.
LEMMA NumbersOf ==
    ASSUME NEW c \in Connection, NEW aw \in Seq(Request), aw # <<>>, Numbered(aw)
    PROVE  /\ Len(aw) \in Nat \ {0} /\ aw[1].id \in Nat \ {0}
           /\ \A i \in 1 .. Len(aw) : aw[i].id = aw[1].id + i - 1
           /\ Last(aw) = aw[1].id + Len(aw) - 1
           /\ First(c, aw) = aw[1].id \/ First(c, aw) = aw[1].id + 1
           /\ ~c.sendingList \/ ~c.discreteFinished => First(c, aw) = aw[1].id
<1>1. Len(aw) \in Nat \ {0} /\ aw[1] \in Request
  BY TailFacts
<1>2. aw[1].id \in Nat \ {0} /\ \A i \in 1 .. Len(aw) : aw[i].id = aw[1].id + i - 1
  BY <1>1 DEF Numbered, Request
<1> QED BY <1>1, <1>2 DEF Last, First

LEMMA ListEndFits ==
    ASSUME NEW c \in Connection, NEW aw \in Seq(Request), NEW q \in Seq(Request),
           NEW s \in Server, NEW w \in Seq(Line), Fit(c, aw, q, s, w),
           s.mode = "list", q # <<>>, q[1].kind = "end"
    PROVE  Fit(c, aw, Tail(q), [s EXCEPT !.mode = "run", !.id = q[1].id], w)
<1> DEFINE t == [s EXCEPT !.mode = "run", !.id = q[1].id]
<1>1. c.receiving /\ Len(q) = 1
  BY EndComesLast
<1>2. /\ c.sendingList /\ Numbered(aw) /\ w = <<>> /\ ~c.discreteFinished
      /\ s.discrete = c.sendingListOk /\ Remainder(0, c, aw, q, s) /\ SentList(c, aw)
  BY <1>1, Gathers
<1>3. /\ Len(aw) \in Nat \ {0} /\ aw[1].id \in Nat \ {0}
      /\ \A i \in 1 .. Len(aw) : aw[i].id = aw[1].id + i - 1
      /\ Last(aw) = aw[1].id + Len(aw) - 1
      /\ First(c, aw) = aw[1].id
  BY <1>2, NumbersOf DEF SentList
<1>4. t.list = s.list /\ t.mode = "run" /\ t.discrete = c.sendingListOk /\ t.id = q[1].id
      /\ s.list \in Seq(Nat) /\ Len(s.list) \in Nat
  BY <1>2, LenProperties DEF Server
<1>5. Tail(q) = <<>>
  BY <1>1, TailFacts
<1>6. Unfinished(c, aw, w, aw[1].id)
  BY <1>2, <1>3, NoLinesYet
<1> HIDE DEF t
<1>7. q[1].id = Last(aw)
  <2>1. CASE c.sendingListOk
    BY <1>1, <1>2, <1>3, <1>4, <2>1, EndComesLast DEF Remainder, Last
  <2>2. CASE ~c.sendingListOk
    <3>1. q[1] = aw[1]
      BY <1>1, <2>2, EndComesLast, EmptySeq
    <3> QED BY <1>2, <2>2, <3>1 DEF SentList, Last
  <2> QED BY <2>1, <2>2
<1>8. c.sendingListOk =>
          /\ Len(t.list) = Last(aw) - aw[1].id
          /\ \A j \in 1 .. Len(t.list) : t.list[j] = aw[1].id + j - 1
  <2>1. ASSUME c.sendingListOk
        PROVE  /\ Len(t.list) = Last(aw) - aw[1].id
               /\ \A j \in 1 .. Len(t.list) : t.list[j] = aw[1].id + j - 1
    <3>1. Len(s.list) + 1 = Len(aw) /\ \A j \in 1 .. Len(s.list) : s.list[j] = aw[j].id
      BY <1>1, <1>2, <1>3, <1>4, <2>1 DEF Remainder
    <3>2. \A j \in 1 .. Len(s.list) : j \in 1 .. Len(aw)
      BY <1>3, <1>4, <3>1
    <3>3. Len(s.list) = Last(aw) - aw[1].id
      BY <1>3, <1>4, <3>1
    <3>4. \A j \in 1 .. Len(s.list) : s.list[j] = aw[1].id + j - 1
      BY <1>3, <3>1, <3>2
    <3> QED BY <1>4, <3>3, <3>4
  <2> QED BY <2>1
<1>9. Running(c, aw, Tail(q), t, w)
  BY <1>2, <1>4, <1>5, <1>6, <1>7, <1>8 DEF Running, Unfinished
<1> QED BY <1>1, <1>2, <1>9 DEF Fit, t

\* A server that is running a list.
LEMMA Runs ==
    ASSUME NEW c \in Connection, NEW aw \in Seq(Request), NEW q \in Seq(Request),
           NEW s \in Server, NEW w \in Seq(Line), Fit(c, aw, q, s, w), s.mode = "run"
    PROVE  /\ c.receiving /\ c.sendingList /\ Numbered(aw) /\ SentList(c, aw)
           /\ Running(c, aw, q, s, w)
BY DEF Fit, ListUnderWay, OneUnderWay, Running, Answered, Quiet, AtRest

LEMMA UpcomingNumber ==
    ASSUME NEW c \in Connection, NEW aw \in Seq(Request), aw # <<>>, Numbered(aw),
           NEW w \in Seq(Line)
    PROVE  Upcoming(c, aw, w) \in Nat
<1>1. First(c, aw) \in Nat
  BY NumbersOf
<1>2. CASE w = <<>>
  BY <1>1, <1>2 DEF Upcoming
<1>3. CASE w # <<>>
  <2>1. w[Len(w)] \in Line
    BY <1>3, EmptySeq, ElementOfSeq
  <2> QED BY <1>3, <2>1 DEF Upcoming, Behind, Line
<1> QED BY <1>2, <1>3

\* What it answers next.
LEMMA RunsNext ==
    ASSUME NEW c \in Connection, NEW aw \in Seq(Request), NEW q \in Seq(Request),
           NEW s \in Server, NEW w \in Seq(Line), Fit(c, aw, q, s, w), s.mode = "run",
           s.list # <<>>, NEW id, id = InHand(s)
    PROVE  /\ id \in Nat /\ Unfinished(c, aw, w, id)
           /\ Expected(Pair(id), c, aw) /\ Expected([kind |-> "ACK", id |-> id], c, aw)
           /\ s.discrete => Expected([kind |-> "list_OK", id |-> id], c, aw)
<1>1. /\ c.sendingList /\ Numbered(aw) /\ SentList(c, aw)
      /\ s.id = Last(aw) /\ s.discrete = c.sendingListOk
      /\ Answers(c, aw, w) /\ \A i \in 1 .. Len(w) : ~Ends(w[i])
  BY Runs DEF Running
<1>2. s.list \in Seq(Nat) /\ s.id \in Nat
  BY DEF Server
<1>3. /\ Len(s.list) \in Nat \ {0} /\ Head(s.list) = s.list[1] /\ s.list[1] \in Nat
  BY <1>2, TailFacts
<1>4. Last(aw) \in Nat
  BY <1>1, <1>2
<1>5. CASE c.sendingListOk
  <2>1. /\ Len(s.list) = Last(aw) - Upcoming(c, aw, w)
        /\ \A j \in 1 .. Len(s.list) : s.list[j] = Upcoming(c, aw, w) + j - 1
    BY <1>5, Runs DEF Running
  <2>3. Upcoming(c, aw, w) \in Nat
    BY <1>1, UpcomingNumber DEF SentList
  <2>4. id = Upcoming(c, aw, w) + 1 - 1
    BY <1>1, <1>3, <1>5, <2>1 DEF InHand
  <2>5. id = Upcoming(c, aw, w) /\ id < Last(aw)
    BY <1>3, <1>4, <2>1, <2>3, <2>4
  <2> QED BY <1>1, <1>5, <2>3, <2>5 DEF Expected, Discrete, Pair, Unfinished
<1>6. CASE ~c.sendingListOk
  <2>1. id = Last(aw)
    BY <1>1, <1>6 DEF InHand
  <2>2. Len(aw) = 1 /\ ~c.discreteFinished /\ ~Discrete(c)
    BY <1>1, <1>6 DEF SentList, Discrete
  <2>3. Upcoming(c, aw, w) = Last(aw)
    BY <1>1, <2>2, OneResponse
  <2> QED BY <1>1, <1>4, <1>6, <2>1, <2>2, <2>3 DEF Expected, Pair, Unfinished
<1> QED BY <1>5, <1>6

LEMMA FailureFits ==
    ASSUME NEW c \in Connection, NEW aw \in Seq(Request), NEW q \in Seq(Request),
           NEW s \in Server, NEW w \in Seq(Line), Fit(c, aw, q, s, w), s.mode = "run",
           s.list # <<>>, NEW id, id = InHand(s),
           NEW n \in Nat, NEW t, AtRest(t)
    PROVE  Fit(c, aw, q, t, w \o Append(Lines(n, id), [kind |-> "ACK", id |-> id]))
<1> DEFINE e == [kind |-> "ACK", id |-> id]
           r == Response(w, n, e)
<1>1. /\ id \in Nat /\ Unfinished(c, aw, w, id)
      /\ Expected(Pair(id), c, aw) /\ Expected(e, c, aw)
  BY RunsNext
<1>2. c.receiving /\ c.sendingList /\ Numbered(aw) /\ SentList(c, aw) /\ q = <<>>
  BY Runs DEF Running
<1>3. e \in Line /\ e.id = id /\ Ends(e)
  BY <1>1 DEF Line, LineKinds, Ends
<1>4. w \o Append(Lines(n, id), e) = r
  BY DEF Response
<1> HIDE DEF e
<1>5. Through(c, aw, r, e)
  BY <1>1, <1>3, ResponseFollows
<1> HIDE DEF r
<1>6. Answered(c, aw, t, r)
  BY <1>3, <1>5 DEF Answered, Through
<1>7. Fit(c, aw, q, t, r)
  BY <1>2, <1>6 DEF Fit
<1> QED BY <1>4, <1>7 DEF e

LEMMA SuccessFits ==
    ASSUME NEW c \in Connection, NEW aw \in Seq(Request), NEW q \in Seq(Request),
           NEW s \in Server, NEW w \in Seq(Line), Fit(c, aw, q, s, w), s.mode = "run",
           s.list # <<>>, NEW id, id = InHand(s),
           NEW n \in Nat
    PROVE  Fit(c, aw, q, [s EXCEPT !.list = Tail(@)],
               IF s.discrete
               THEN w \o Append(Lines(n, id), [kind |-> "list_OK", id |-> id])
               ELSE w \o Lines(n, id))
<1> DEFINE t == [s EXCEPT !.list = Tail(@)]
<1>1. /\ id \in Nat /\ Unfinished(c, aw, w, id) /\ Upcoming(c, aw, w) = id
      /\ Expected(Pair(id), c, aw)
      /\ s.discrete => Expected([kind |-> "list_OK", id |-> id], c, aw)
  <2>1. Unfinished(c, aw, w, id)
    BY RunsNext
  <2> QED BY <2>1, RunsNext DEF Unfinished
<1>2. /\ c.receiving /\ c.sendingList /\ Numbered(aw) /\ SentList(c, aw)
      /\ q = <<>> /\ Answers(c, aw, w) /\ \A i \in 1 .. Len(w) : ~Ends(w[i])
      /\ s.id = Last(aw) /\ s.discrete = c.sendingListOk
  BY Runs DEF Running
<1>3. t.mode = s.mode /\ t.id = s.id /\ t.discrete = s.discrete /\ t.list = Tail(s.list)
  BY DEF Server
<1> HIDE DEF t
<1>4. CASE s.discrete
  <2> DEFINE e == [kind |-> "list_OK", id |-> id]
             r == Response(w, n, e)
  <2>1. e \in Line /\ e.id = id /\ ~Ends(e) /\ Behind(e) = id + 1
    BY <1>1 DEF Line, LineKinds, Ends, Behind
  <2>2. Expected(e, c, aw) /\ w \o Append(Lines(n, id), e) = r
    BY <1>1, <1>4 DEF Response
  <2> HIDE DEF e
  <2>3. Through(c, aw, r, e)
    BY <1>1, <2>1, <2>2, ResponseFollows
  <2> HIDE DEF r
  <2>4. s.list \in Seq(Nat) /\ Len(s.list) = Last(aw) - id
        /\ \A j \in 1 .. Len(s.list) : s.list[j] = id + j - 1
    <3>1. c.sendingListOk => /\ Len(s.list) = Last(aw) - Upcoming(c, aw, w)
                             /\ \A j \in 1 .. Len(s.list) : s.list[j] = Upcoming(c, aw, w) + j - 1
      BY Runs DEF Running
    <3>2. s.list \in Seq(Nat)
      BY DEF Server
    <3> QED BY <1>1, <1>2, <1>4, <3>1, <3>2
  <2>5. /\ Len(s.list) \in Nat \ {0} /\ Len(Tail(s.list)) = Len(s.list) - 1
        /\ \A j \in 1 .. Len(s.list) - 1 : Tail(s.list)[j] = s.list[j + 1]
    BY <2>4, TailFacts
  <2>6. Last(aw) \in Nat
    BY <1>2 DEF Server
  <2>7. Len(t.list) = Last(aw) - (id + 1)
    BY <1>1, <1>3, <2>4, <2>5, <2>6
  <2>8. ASSUME NEW j \in 1 .. Len(t.list) PROVE t.list[j] = id + 1 + j - 1
    <3>1. j \in 1 .. Len(s.list) - 1 /\ j + 1 \in 1 .. Len(s.list)
      BY <1>3, <2>5
    <3>2. t.list[j] = id + (j + 1) - 1
      BY <1>3, <2>4, <2>5, <3>1
    <3> QED BY <1>1, <3>2
  <2>9. Running(c, aw, q, t, r)
    BY <1>2, <1>3, <2>1, <2>3, <2>7, <2>8 DEF Running, Through, Unfinished
  <2>10. Fit(c, aw, q, t, r)
    BY <1>2, <2>9 DEF Fit
  <2> QED BY <1>4, <2>2, <2>10 DEF e, t
<1>5. CASE ~s.discrete
  <2> DEFINE r == Pairs(w, n, id)
  <2>1. w \o Lines(n, id) = r
    BY DEF Pairs
  <2>2. Unfinished(c, aw, r, id)
    BY <1>1, PairsFollow
  <2> HIDE DEF r
  <2>3. Running(c, aw, q, t, r)
    BY <1>2, <1>3, <1>5, <2>2 DEF Running, Unfinished
  <2>4. Fit(c, aw, q, t, r)
    BY <1>2, <2>3 DEF Fit
  <2> QED BY <1>5, <2>1, <2>4 DEF t
<1> QED BY <1>4, <1>5

LEMMA RunEndsFits ==
    ASSUME NEW c \in Connection, NEW aw \in Seq(Request), NEW q \in Seq(Request),
           NEW s \in Server, NEW w \in Seq(Line), Fit(c, aw, q, s, w), s.mode = "run",
           s.list = <<>>, NEW t, AtRest(t)
    PROVE  Fit(c, aw, q, t, w \o Append(Lines(0, s.id), [kind |-> "OK", id |-> s.id]))
<1> DEFINE e == [kind |-> "OK", id |-> s.id]
           r == Followed(w, e)
<1>1. /\ c.receiving /\ c.sendingList /\ Numbered(aw) /\ SentList(c, aw)
      /\ q = <<>> /\ Answers(c, aw, w) /\ \A i \in 1 .. Len(w) : ~Ends(w[i])
      /\ s.id = Last(aw) /\ s.discrete = c.sendingListOk
  BY Runs DEF Running
<1>2. s.id \in Nat /\ Last(aw) \in Nat
  BY <1>1 DEF Server
<1>3. e \in Line /\ e.id = s.id /\ Ends(e) /\ Expected(e, c, aw)
  BY <1>1, <1>2 DEF Line, LineKinds, Ends, Expected
<1>4. s.id = Upcoming(c, aw, w)
  <2>1. CASE c.sendingListOk
    <3>1. Len(s.list) = Last(aw) - Upcoming(c, aw, w)
      BY <2>1, Runs DEF Running
    <3>3. Upcoming(c, aw, w) \in Nat
      BY <1>1, UpcomingNumber DEF SentList
    <3>4. Len(s.list) = 0
      BY EmptySeq
    <3> QED BY <1>1, <1>2, <3>1, <3>3, <3>4
  <2>2. CASE ~c.sendingListOk
    <3>1. Len(aw) = 1 /\ ~c.discreteFinished /\ ~Discrete(c)
      BY <1>1, <2>2 DEF SentList, Discrete
    <3> QED BY <1>1, <3>1, OneResponse
  <2> QED BY <2>1, <2>2
<1>5. w \o Append(Lines(0, s.id), e) = r
  <2>1. Lines(0, s.id) = <<>>
    BY DEF Lines
  <2>2. Append(<<>>, e) = <<e>>
    BY AppendIsConcat
  <2>3. w \o <<e>> = Append(w, e) /\ r = Append(w, e)
    BY <1>3, AppendIsConcat DEF Followed
  <2> QED BY <2>1, <2>2, <2>3
<1> HIDE DEF e
<1>6. Unfinished(c, aw, w, e.id)
  BY <1>1, <1>3, <1>4 DEF Unfinished
<1>7. Through(c, aw, r, e)
  BY <1>3, <1>6, LineFollows
<1> HIDE DEF r
<1>8. Answered(c, aw, t, r)
  BY <1>3, <1>7 DEF Answered, Through
<1>9. Fit(c, aw, q, t, r)
  BY <1>1, <1>8 DEF Fit
<1> QED BY <1>5, <1>9 DEF e

\* A "noidle" that comes too late goes by.
LEMMA LateNoidleFits ==
    ASSUME NEW c \in Connection, NEW aw \in Seq(Request), NEW q \in Seq(Request),
           NEW s \in Server, NEW w \in Seq(Line), Fit(c, aw, q, s, w),
           s.mode = "ready", q # <<>>, q[1].kind = "noidle", NEW t \in Server, AtRest(t)
    PROVE  Fit(c, aw, Tail(q), t, w)
<1>1. AtRest(s)
  BY WhatIsNext
<1>2. /\ Len(q) \in Nat \ {0} /\ Len(Tail(q)) = Len(q) - 1
      /\ \A i \in 1 .. Len(q) - 1 : Tail(q)[i] = q[i + 1]
  BY TailFacts
<1>3. ASSUME NEW m \in 1 .. Len(q), Noidles(q, 1, m - 1), q[m].kind # "noidle"
      PROVE  /\ m - 1 \in 1 .. Len(Tail(q)) /\ Tail(q)[m - 1] = q[m]
             /\ Noidles(Tail(q), 1, m - 1 - 1)
  <2>1. m # 1
    BY <1>3
  <2>2. m - 1 \in 1 .. Len(q) - 1 /\ (m - 1) + 1 = m /\ m - 2 \in 0 .. Len(q) - 1
    BY <1>2, <2>1
  <2>3. Noidles(q, 1 + 1, (m - 2) + 1)
    BY <1>2, <1>3, <2>2 DEF Noidles
  <2>4. Noidles(Tail(q), 1, m - 2)
    BY <2>2, <2>3, RestOfNoidles
  <2>5. m - 1 - 1 = m - 2
    BY <2>2
  <2> QED BY <1>2, <2>2, <2>4, <2>5
<1>4. Noidles(q, 1, Len(q)) => Noidles(Tail(q), 1, Len(Tail(q)))
  <2>1. Noidles(q, 1, Len(q)) => Noidles(q, 2, Len(q))
    BY <1>2 DEF Noidles
  <2> QED BY <2>1, RestIsLate
<1>5. ASSUME ListUnderWay(c, aw, q, s, w) PROVE ListUnderWay(c, aw, Tail(q), t, w)
  <2>1. PICK m \in 1 .. Len(q) :
          /\ Noidles(q, 1, m - 1)
          /\ q[m].kind = IF c.sendingListOk THEN "begin_ok" ELSE "begin"
          /\ Remainder(m, c, aw, q, s)
    BY <1>1, <1>5 DEF ListUnderWay, AtRest
  <2>2. /\ m - 1 \in 1 .. Len(Tail(q)) /\ Tail(q)[m - 1] = q[m]
        /\ Noidles(Tail(q), 1, m - 1 - 1)
    BY <1>3, <2>1
  <2>3. Remainder(m - 1, c, aw, Tail(q), t)
    BY <1>1, <2>1, RestOfRemainder DEF AtRest
  <2> QED BY <1>5, <2>1, <2>2, <2>3 DEF ListUnderWay
<1>6. ASSUME OneUnderWay(aw, q, s, w), SentOne(aw) PROVE OneUnderWay(aw, Tail(q), t, w)
  <2>1. PICK m \in 1 .. Len(q) :
          q[m] = aw[1] /\ Noidles(q, 1, m - 1) /\ Noidles(q, m + 1, Len(q))
    BY <1>1, <1>6 DEF OneUnderWay, AtRest
  <2>2. /\ m - 1 \in 1 .. Len(Tail(q)) /\ Tail(q)[m - 1] = q[m]
        /\ Noidles(Tail(q), 1, m - 1 - 1)
    BY <1>3, <1>6, <2>1 DEF SentOne
  <2>3. Noidles(Tail(q), (m - 1) + 1, Len(Tail(q)))
    <3>1. /\ m \in Nat \ {0} /\ Len(Tail(q)) \in 0 .. Len(q) - 1
          /\ Len(Tail(q)) + 1 = Len(q) /\ (m - 1) + 1 = m
      BY <1>2
    <3> QED BY <2>1, <3>1, RestOfNoidles
  <2> QED BY <1>6, <2>1, <2>2, <2>3 DEF OneUnderWay
<1>7. ~Running(c, aw, q, s, w)
  BY DEF Running
<1>8. Answered(c, aw, s, w) => Answered(c, aw, t, w)
  BY DEF Answered
<1> QED BY <1>4, <1>5, <1>6, <1>7, <1>8 DEF Fit, Quiet

\* The server takes the oldest request of the queue.
LEMMA TakesOldest ==
    ASSUME TypeOK, inbox # <<>>
    PROVE  /\ queue \in Seq(Request) /\ queue # <<>> /\ queue[1] = Head(inbox)
           /\ Tail(queue) = Tail(inbox) \o outbuf
<1>1. inbox \in Seq(Request) /\ outbuf \in Seq(Request)
  BY DEF TypeOK
<1>2. /\ Len(inbox) \in Nat \ {0} /\ Head(inbox) = inbox[1] /\ inbox[1] \in Request
      /\ Tail(inbox) \in Seq(Request)
  BY <1>1, TailFacts
<1>3. <<inbox[1]>> \in Seq(Request) /\ Len(<<inbox[1]>>) = 1
  BY <1>2
<1>4. inbox = <<inbox[1]>> \o Tail(inbox)
  <2>1. SubSeq(inbox, 1, Len(inbox)) = <<inbox[1]>> \o SubSeq(inbox, 2, Len(inbox))
    BY <1>1, <1>2, SubSeqRecursiveFirst
  <2> QED BY <1>1, <2>1, SubSeqFull, TailIsSubSeq
<1>5. Tail(inbox) \o outbuf \in Seq(Request)
  BY <1>1, <1>2, ConcatProperties
<1>6. queue = <<inbox[1]>> \o (Tail(inbox) \o outbuf)
  BY <1>1, <1>2, <1>3, <1>4, ConcatAssociative DEF queue
<1>7. queue \in Seq(Request) /\ queue # <<>> /\ queue[1] = inbox[1]
  <2>1. queue \in Seq(Request) /\ Len(queue) = Len(inbox) + Len(outbuf) /\ Len(outbuf) \in Nat
    BY <1>1, ConcatProperties, LenProperties DEF queue
  <2>2. queue # <<>>
    BY <1>2, <2>1, EmptySeq
  <2>3. 1 \in 1 .. Len(inbox) + Len(outbuf) /\ 1 <= Len(inbox)
    BY <1>2, <2>1
  <2>4. queue[1] = inbox[1]
    BY <1>1, <2>3, ConcatProperties DEF queue
  <2> QED BY <2>1, <2>2, <2>4
<1>8. Tail(queue) = Tail(inbox) \o outbuf
  <2> DEFINE r == Tail(inbox) \o outbuf
             a == <<inbox[1]>>
  <2>1. /\ Len(queue) \in Nat \ {0} /\ Tail(queue) \in Seq(Request)
        /\ Len(Tail(queue)) = Len(queue) - 1
        /\ \A i \in 1 .. Len(queue) - 1 : Tail(queue)[i] = queue[i + 1]
    BY <1>7, TailFacts
  <2>2. a \in Seq(Request) /\ Len(a) = 1 /\ r \in Seq(Request) /\ queue = a \o r /\ Len(r) \in Nat
    BY <1>3, <1>5, <1>6, LenProperties
  <2> HIDE DEF r, a
  <2>3. /\ Len(queue) = 1 + Len(r)
        /\ \A i \in 1 .. 1 + Len(r) : queue[i] = IF i <= 1 THEN a[i] ELSE r[i - 1]
    <3>1. /\ Len(a \o r) = Len(a) + Len(r)
          /\ \A i \in 1 .. Len(a) + Len(r) : (a \o r)[i] = IF i <= Len(a) THEN a[i] ELSE r[i - Len(a)]
      BY <2>2, ConcatProperties
    <3> QED BY <2>2, <3>1
  <2>4. ASSUME NEW i \in 1 .. Len(r) PROVE Tail(queue)[i] = r[i]
    <3>1. i \in 1 .. Len(queue) - 1 /\ i + 1 \in 1 .. 1 + Len(r) /\ ~(i + 1 <= 1) /\ i + 1 - 1 = i
      BY <2>2, <2>3
    <3> QED BY <2>1, <2>3, <3>1
  <2>5. Len(Tail(queue)) = Len(r)
    BY <2>1, <2>2, <2>3
  <2>6. Tail(queue) = r
    BY <2>1, <2>2, <2>4, <2>5, SeqEqual
  <2> QED BY <2>6 DEF r
<1> QED BY <1>2, <1>7, <1>8

\* Whatever the server does, it fits.
LEMMA ServerFits ==
    ASSUME TypeOK, TypeOK', ServerStep, Fit(conn, awaiting, queue, server, wire)
    PROVE  Fit(conn', awaiting', queue', server', wire')
<1> DEFINE c == conn
           aw == awaiting
           q == queue
           s == server
           w == wire
<1>0. /\ c \in Connection /\ aw \in Seq(Request) /\ s \in Server /\ w \in Seq(Line)
      /\ inbox \in Seq(Request) /\ outbuf \in Seq(Request) /\ server' \in Server
  BY DEF TypeOK
<1>1. q \in Seq(Request)
  BY <1>0, ConcatProperties DEF queue
<1>2. conn' = c /\ awaiting' = aw /\ outbuf' = outbuf
  BY DEF ServerStep, ServeCommand, ServeListBegin, ServeListed, ServeListEnd, RunListed,
         RunListEnds, ServeIdle, ServeNoidle, Notify, Environment, library
<1>3. ASSUME NEW modes, NEW kinds, Accept(modes, kinds)
      PROVE  /\ s.mode \in modes /\ q # <<>> /\ q[1] = Head(inbox) /\ q[1].kind \in kinds
             /\ queue' = Tail(q)
  BY <1>2, <1>3, TakesOldest DEF Accept, queue
<1>4. inbox' = inbox => queue' = q
  BY <1>2 DEF queue
<1>5. AtRest(Ready)
  BY <1>0 DEF AtRest, Ready, Server
<1>6. MaxPairs \in Nat
  BY ConstantsAssumption
<1>7. server' = Ready => server' \in Server /\ AtRest(server')
  BY <1>0, <1>5
<1> HIDE DEF c, aw, q, s, w
<1>8. Fit(c, aw, q, s, w)
  BY DEF c, aw, q, s, w
<1>9. ASSUME ServeCommand PROVE Fit(c, aw, queue', server', wire')
  <2>1. /\ s.mode = "ready" /\ q # <<>> /\ q[1] = Head(inbox) /\ q[1].kind = "cmd"
        /\ queue' = Tail(q) /\ server' = s
    BY <1>3, <1>9 DEF ServeCommand, s
  <2>2. PICK n \in 0 .. MaxPairs, kind \in {"OK", "ACK"} : Respond(n, kind, Head(inbox).id)
    BY <1>9 DEF ServeCommand
  <2>3. wire' = w \o Append(Lines(n, q[1].id), [kind |-> kind, id |-> q[1].id]) /\ n \in Nat
    BY <1>6, <2>1, <2>2 DEF Respond, w
  <2> QED BY <1>0, <1>1, <1>8, <2>1, <2>3, CommandFits DEF c, aw, q, s, w
<1>10. ASSUME ServeListBegin PROVE Fit(c, aw, queue', server', wire')
  <2>1. /\ s.mode = "ready" /\ q # <<>> /\ q[1] = Head(inbox)
        /\ q[1].kind \in {"begin", "begin_ok"} /\ queue' = Tail(q) /\ wire' = w
    BY <1>3, <1>10 DEF ServeListBegin, s, w
  <2>2. server' = [s EXCEPT !.mode = "list", !.list = <<>>,
                              !.discrete = (q[1].kind = "begin_ok")]
    BY <1>10, <2>1 DEF ServeListBegin, s
  <2> QED BY <1>0, <1>1, <1>8, <2>1, <2>2, ListBeginFits DEF c, aw, q, s, w
<1>11. ASSUME ServeListed PROVE Fit(c, aw, queue', server', wire')
  <2>1. /\ s.mode = "list" /\ q # <<>> /\ q[1] = Head(inbox)
        /\ q[1].kind = "cmd" /\ queue' = Tail(q) /\ wire' = w
    BY <1>3, <1>11 DEF ServeListed, s, w
  <2>2. server' = [s EXCEPT !.list = Append(@, q[1].id)]
    BY <1>11, <2>1 DEF ServeListed, s
  <2> QED BY <1>0, <1>1, <1>8, <2>1, <2>2, ListedFits DEF c, aw, q, s, w
<1>12. ASSUME ServeListEnd PROVE Fit(c, aw, queue', server', wire')
  <2>1. /\ s.mode = "list" /\ q # <<>> /\ q[1] = Head(inbox)
        /\ q[1].kind = "end" /\ queue' = Tail(q) /\ wire' = w
    BY <1>3, <1>12 DEF ServeListEnd, s, w
  <2>2. server' = [s EXCEPT !.mode = "run", !.id = q[1].id]
    BY <1>12, <2>1 DEF ServeListEnd, s
  <2> QED BY <1>0, <1>1, <1>8, <2>1, <2>2, ListEndFits DEF c, aw, q, s, w
<1>13. ASSUME RunListed PROVE Fit(c, aw, queue', server', wire')
  <2> DEFINE id == InHand(s)
  <2>1. s.mode = "run" /\ s.list # <<>> /\ queue' = q
    BY <1>4, <1>13 DEF RunListed, s
  <2>2. PICK n \in 0 .. MaxPairs :
          \/ Respond(n, "ACK", id) /\ server' = Ready
          \/ /\ IF server.discrete THEN Respond(n, "list_OK", id)
                                   ELSE wire' = wire \o Lines(n, id)
             /\ server' = [server EXCEPT !.list = Tail(@)]
    BY <1>13 DEF RunListed, InHand, s
  <2> HIDE DEF id
  <2>3. id = InHand(s) /\ n \in Nat
    BY <1>6 DEF id
  <2>4. CASE Respond(n, "ACK", id) /\ server' = Ready
    <3>1. wire' = w \o Append(Lines(n, id), [kind |-> "ACK", id |-> id]) /\ AtRest(server')
      BY <1>7, <2>4 DEF Respond, w
    <3> QED BY <1>0, <1>1, <1>8, <2>1, <2>3, <3>1, FailureFits DEF c, aw, q, s, w
  <2>5. CASE /\ IF server.discrete THEN Respond(n, "list_OK", id)
                                   ELSE wire' = wire \o Lines(n, id)
             /\ server' = [server EXCEPT !.list = Tail(@)]
    <3>1. /\ server' = [s EXCEPT !.list = Tail(@)]
          /\ wire' = IF s.discrete
                     THEN w \o Append(Lines(n, id), [kind |-> "list_OK", id |-> id])
                     ELSE w \o Lines(n, id)
      BY <2>5 DEF Respond, s, w
    <3> QED BY <1>0, <1>1, <1>8, <2>1, <2>3, <3>1, SuccessFits DEF c, aw, q, s, w
  <2> QED BY <2>2, <2>4, <2>5
<1>14. ASSUME RunListEnds PROVE Fit(c, aw, queue', server', wire')
  <2>1. /\ s.mode = "run" /\ s.list = <<>> /\ queue' = q /\ AtRest(server')
        /\ wire' = w \o Append(Lines(0, s.id), [kind |-> "OK", id |-> s.id])
    BY <1>4, <1>7, <1>14 DEF RunListEnds, Respond, s, w
  <2> QED BY <1>0, <1>1, <1>8, <2>1, RunEndsFits DEF c, aw, q, s, w
<1>15. ASSUME ServeIdle PROVE Fit(c, aw, queue', server', wire')
  <2>1. /\ s.mode = "ready" /\ q # <<>> /\ q[1] = Head(inbox)
        /\ q[1].kind = "idle" /\ queue' = Tail(q) /\ wire' = w
    BY <1>3, <1>15 DEF ServeIdle, s, w
  <2>2. server' = [s EXCEPT !.mode = "idle", !.id = q[1].id]
    BY <1>15, <2>1 DEF ServeIdle, s
  <2> QED BY <1>0, <1>1, <1>8, <2>1, <2>2, IdleFits DEF c, aw, q, s, w
<1>16. ASSUME ServeNoidle PROVE Fit(c, aw, queue', server', wire')
  <2>1. /\ s.mode \in {"ready", "idle"} /\ q # <<>> /\ q[1].kind = "noidle"
        /\ queue' = Tail(q) /\ server' \in Server /\ AtRest(server')
    BY <1>3, <1>7, <1>16 DEF ServeNoidle
  <2>2. CASE s.mode = "ready"
    <3>1. wire' = w
      BY <1>16, <2>2 DEF ServeNoidle, s, w
    <3> QED BY <1>0, <1>1, <1>8, <2>1, <2>2, <3>1, LateNoidleFits DEF c, aw, q, s, w
  <2>3. CASE s.mode = "idle"
    <3>1. wire' = w \o Append(Lines(0, s.id), [kind |-> "OK", id |-> s.id])
      BY <1>16, <2>3 DEF ServeNoidle, Respond, s, w
    <3>2. Noidles(q, 1, Len(q))
      BY <1>0, <1>1, <1>8, <2>3, Idling DEF c, aw, q, s, w
    <3>3. Len(q) \in Nat \ {0}
      BY <1>1, <2>1, EmptySeq
    <3>4. Noidles(q, 2, Len(q))
      BY <3>2, <3>3 DEF Noidles
    <3>5. Noidles(Tail(q), 1, Len(Tail(q)))
      BY <1>1, <2>1, <3>4, RestIsLate
    <3> QED BY <1>0, <1>1, <1>8, <2>1, <2>3, <3>1, <3>5, IdleEnds DEF c, aw, q, s, w
  <2> QED BY <2>1, <2>2, <2>3
<1>17. ASSUME Notify PROVE Fit(c, aw, queue', server', wire')
  <2>1. s.mode = "idle" /\ queue' = q /\ server' \in Server /\ AtRest(server')
    BY <1>4, <1>7, <1>17 DEF Notify, s
  <2>2. PICK n \in 0 .. MaxPairs : Respond(n, "OK", server.id)
    BY <1>17 DEF Notify
  <2>3. n \in Nat /\ wire' = w \o Append(Lines(n, s.id), [kind |-> "OK", id |-> s.id])
    BY <1>6, <2>2 DEF Respond, s, w
  <2>4. Noidles(q, 1, Len(q))
    BY <1>0, <1>1, <1>8, <2>1, Idling DEF c, aw, q, s, w
  <2> QED BY <1>0, <1>1, <1>8, <2>1, <2>3, <2>4, IdleEnds DEF c, aw, q, s, w
<1>18. Fit(c, aw, queue', server', wire')
  BY <1>9, <1>10, <1>11, <1>12, <1>13, <1>14, <1>15, <1>16, <1>17 DEF ServerStep
<1> QED BY <1>2, <1>18 DEF c, aw

(***************************************************************************)
(* What the client reads.                                                  *)
(***************************************************************************)
\* What else the connection says makes no difference.
Alike(c, d) ==
    /\ d.receiving = c.receiving /\ d.sendingList = c.sendingList
    /\ c.sendingList => /\ d.sendingListOk = c.sendingListOk
                        /\ d.discreteFinished = c.discreteFinished
                        /\ d.remaining = c.remaining

LEMMA AlikeFits ==
    ASSUME NEW c, NEW d, Alike(c, d), NEW aw, NEW q, NEW s, NEW w, Fit(c, aw, q, s, w)
    PROVE  Fit(d, aw, q, s, w)
<1> USE DEF Alike
<1>1. First(d, aw) = First(c, aw) /\ Upcoming(d, aw, w) = Upcoming(c, aw, w)
  BY DEF First, Upcoming
<1>2. c.sendingList /\ SentList(c, aw) => SentList(d, aw)
  BY <1>1 DEF SentList
<1>3. c.sendingList /\ Gathering(c, aw) => Gathering(d, aw)
  BY DEF Gathering
<1>4. c.sendingList /\ ListUnderWay(c, aw, q, s, w) => ListUnderWay(d, aw, q, s, w)
  BY DEF ListUnderWay, Remainder
<1>5. Answers(c, aw, w) => Answers(d, aw, w)
  BY <1>1 DEF Answers, Expected, Discrete
<1>6. c.sendingList /\ Running(c, aw, q, s, w) => Running(d, aw, q, s, w)
  BY <1>1, <1>5 DEF Running
<1>7. Answered(c, aw, s, w) => Answered(d, aw, s, w)
  BY <1>5 DEF Answered
<1> QED BY <1>2, <1>3, <1>4, <1>6, <1>7 DEF Fit

\* While lines arrive, nothing of the request is left on its way.
LEMMA LinesArrive ==
    ASSUME NEW c, NEW aw \in Seq(Request), NEW q, NEW s, NEW w, Fit(c, aw, q, s, w),
           w # <<>>
    PROVE  /\ c.receiving /\ Numbered(aw) /\ aw # <<>> /\ Answers(c, aw, w)
           /\ IF c.sendingList
              THEN /\ SentList(c, aw) /\ q = <<>>
                   /\ Running(c, aw, q, s, w) \/ Answered(c, aw, s, w)
              ELSE SentOne(aw) /\ Answered(c, aw, s, w) /\ Noidles(q, 1, Len(q))
<1>1. SentOne(aw) => aw # <<>>
  BY EmptySeq DEF SentOne
<1>2. ~ListUnderWay(c, aw, q, s, w) /\ ~OneUnderWay(aw, q, s, w) /\ ~Quiet(aw, q, s, w)
  BY DEF ListUnderWay, OneUnderWay, Quiet
<1>3. Running(c, aw, q, s, w) => q = <<>> /\ Answers(c, aw, w)
  BY DEF Running
<1>4. Answered(c, aw, s, w) => Answers(c, aw, w)
  BY DEF Answered
<1> QED BY <1>1, <1>2, <1>3, <1>4 DEF Fit, SentList

\* Where discrete lists are concerned, the count says what may still come.
LEMMA CountSays ==
    ASSUME NEW c \in Connection, NEW aw \in Seq(Request), NEW q, NEW s,
           NEW w \in Seq(Line), w # <<>>, Fit(c, aw, q, s, w), ~AlreadyDone(c)
    PROVE  /\ w[1] \in Line /\ Expected(w[1], c, aw) /\ w[1].id = First(c, aw)
           /\ First(c, aw) \in Nat /\ Last(aw) \in Nat
           /\ Discrete(c) => c.remaining = Last(aw) - First(c, aw) /\ c.remaining >= 0
           /\ w[1].kind \in {"pair", "list_OK"} =>
                (c.sendingList => ~c.discreteFinished) /\ First(c, aw) = aw[1].id
<1>1. c.receiving /\ Numbered(aw) /\ aw # <<>> /\ Answers(c, aw, w)
  BY LinesArrive
<1>2. c.sendingList => SentList(c, aw)
  BY LinesArrive
<1>3. 1 \in 1 .. Len(w) /\ w[1] \in Line
  BY EmptySeq, ElementOfSeq
<1>4. Expected(w[1], c, aw) /\ w[1].id = First(c, aw)
  BY <1>1, <1>3 DEF Answers
<1>5. /\ First(c, aw) \in Nat /\ Last(aw) \in Nat
      /\ ~c.sendingList \/ ~c.discreteFinished => First(c, aw) = aw[1].id
  BY <1>1, NumbersOf
<1>6. ASSUME Discrete(c)
      PROVE  c.remaining = Last(aw) - First(c, aw) /\ c.remaining >= 0
  <2>1. c.remaining = Last(aw) - First(c, aw) /\ First(c, aw) <= Last(aw)
    BY <1>2, <1>6 DEF SentList, Discrete
  <2> QED BY <1>5, <2>1
<1>7. ASSUME w[1].kind \in {"pair", "list_OK"}, c.sendingList PROVE ~c.discreteFinished
  <2>1. CASE Discrete(c)
    <3>1. First(c, aw) < Last(aw)
      BY <1>4, <1>7, <2>1 DEF Expected
    <3>2. c.remaining > 0
      BY <1>5, <1>6, <2>1, <3>1
    <3> QED BY <1>7, <3>2 DEF AlreadyDone
  <2>2. CASE ~Discrete(c)
    BY <1>2, <1>7, <2>2 DEF SentList, Discrete
  <2> QED BY <2>1, <2>2
<1> QED BY <1>3, <1>4, <1>5, <1>6, <1>7

\* Behind the first line, the others are still in order.
LEMMA RestAnswers ==
    ASSUME NEW c, NEW d, Discrete(d) <=> Discrete(c), NEW aw, NEW w \in Seq(Line), w # <<>>,
           Answers(c, aw, w), ~Ends(w[1]), First(d, aw) = Behind(w[1])
    PROVE  /\ Answers(d, aw, Tail(w))
           /\ Upcoming(d, aw, Tail(w)) = Upcoming(c, aw, w)
           /\ Ends(w[Len(w)]) =>
                Tail(w) # <<>> /\ Tail(w)[Len(Tail(w))] = w[Len(w)]
<1>1. /\ Len(w) \in Nat \ {0} /\ Tail(w) \in Seq(Line) /\ Len(Tail(w)) = Len(w) - 1
      /\ \A i \in 1 .. Len(w) - 1 : Tail(w)[i] = w[i + 1]
      /\ Tail(w) = <<>> <=> Len(w) = 1
  BY TailFacts
<1>2. \A i \in 1 .. Len(w) - 1 : i + 1 \in 1 .. Len(w)
  BY <1>1
<1>3. ASSUME Tail(w) # <<>>
      PROVE  /\ Tail(w)[1].id = First(d, aw)
             /\ Len(Tail(w)) \in 1 .. Len(w) - 1 /\ Tail(w)[Len(Tail(w))] = w[Len(w)]
  <2>1. 1 \in 1 .. Len(w) - 1 /\ Len(w) - 1 \in 1 .. Len(w) - 1 /\ (Len(w) - 1) + 1 = Len(w)
    BY <1>1, <1>3
  <2>2. w[1 + 1].id = Behind(w[1])
    BY <2>1 DEF Answers
  <2> QED BY <1>1, <2>1, <2>2
<1>4. \A i \in 1 .. Len(Tail(w)) : Expected(Tail(w)[i], d, aw)
  <2>1. \A i \in 1 .. Len(Tail(w)) : Expected(Tail(w)[i], c, aw)
    BY <1>1, <1>2 DEF Answers
  <2> QED BY <2>1 DEF Expected
<1>5. ASSUME NEW i \in 1 .. Len(Tail(w)) - 1
      PROVE  ~Ends(Tail(w)[i]) /\ Tail(w)[i + 1].id = Behind(Tail(w)[i])
  <2>1. i \in 1 .. Len(w) - 1 /\ i + 1 \in 1 .. Len(w) - 1
    BY <1>1
  <2> QED BY <1>1, <2>1 DEF Answers
<1>6. ASSUME NEW i \in 1 .. Len(Tail(w)), NEW j \in 1 .. Len(Tail(w)), i < j
      PROVE  Tail(w)[j].id >= Behind(Tail(w)[i])
  <2>1. i + 1 \in 1 .. Len(w) /\ j + 1 \in 1 .. Len(w) /\ i + 1 < j + 1
    BY <1>1, <1>6
  <2>2. Tail(w)[i] = w[i + 1] /\ Tail(w)[j] = w[j + 1]
    BY <1>1
  <2> QED BY <2>1, <2>2 DEF Answers
<1>7. Answers(d, aw, Tail(w))
  BY <1>3, <1>4, <1>5, <1>6 DEF Answers
<1>8. Upcoming(d, aw, Tail(w)) = Upcoming(c, aw, w)
  <2>1. CASE Tail(w) = <<>>
    BY <1>1, <2>1 DEF Upcoming
  <2>2. CASE Tail(w) # <<>>
    BY <1>3, <2>2 DEF Upcoming
  <2> QED BY <2>1, <2>2
<1>9. ASSUME Ends(w[Len(w)]) PROVE Tail(w) # <<>> /\ Tail(w)[Len(Tail(w))] = w[Len(w)]
  BY <1>1, <1>3, <1>9
<1> QED BY <1>7, <1>8, <1>9

\* A line that does not end the response.
LEMMA PartFits ==
    ASSUME NEW c \in Connection, NEW d, NEW aw \in Seq(Request), NEW q, NEW s \in Server,
           NEW w \in Seq(Line), w # <<>>, Fit(c, aw, q, s, w), ~Ends(w[1]),
           d.receiving = c.receiving, d.sendingList = c.sendingList,
           d.sendingListOk = c.sendingListOk, First(d, aw) = Behind(w[1]),
           IF c.sendingList THEN SentList(d, aw) ELSE TRUE
    PROVE  Fit(d, aw, q, s, Tail(w))
<1>1. /\ c.receiving /\ Numbered(aw) /\ aw # <<>> /\ Answers(c, aw, w)
      /\ IF c.sendingList
         THEN /\ SentList(c, aw) /\ q = <<>>
              /\ Running(c, aw, q, s, w) \/ Answered(c, aw, s, w)
         ELSE SentOne(aw) /\ Answered(c, aw, s, w) /\ Noidles(q, 1, Len(q))
  BY LinesArrive
<1>2. /\ Answers(d, aw, Tail(w)) /\ Upcoming(d, aw, Tail(w)) = Upcoming(c, aw, w)
      /\ Ends(w[Len(w)]) => Tail(w) # <<>> /\ Tail(w)[Len(Tail(w))] = w[Len(w)]
  BY <1>1, RestAnswers DEF Discrete
<1>3. Answered(c, aw, s, w) => Answered(d, aw, s, Tail(w))
  BY <1>2 DEF Answered
<1>4. ASSUME Running(c, aw, q, s, w) PROVE Running(d, aw, q, s, Tail(w))
  <2>1. /\ Len(w) \in Nat \ {0} /\ Len(Tail(w)) = Len(w) - 1
        /\ \A i \in 1 .. Len(w) - 1 : Tail(w)[i] = w[i + 1]
    BY TailFacts
  <2>2. ASSUME NEW i \in 1 .. Len(Tail(w)) PROVE ~Ends(Tail(w)[i])
    <3>1. i \in 1 .. Len(w) - 1 /\ i + 1 \in 1 .. Len(w)
      BY <2>1
    <3> QED BY <1>4, <2>1, <3>1 DEF Running
  <2> QED BY <1>2, <1>4, <2>2 DEF Running
<1> QED BY <1>1, <1>3, <1>4 DEF Fit

\* The line that ends the response is the last one.
LEMMA EndFits ==
    ASSUME NEW c, NEW d, NEW aw \in Seq(Request), NEW q, NEW s,
           NEW w \in Seq(Line), w # <<>>, Fit(c, aw, q, s, w), Ends(w[1]),
           ~d.receiving, ~d.sendingList
    PROVE  Fit(d, <<>>, q, s, Tail(w))
<1>1. /\ Answers(c, aw, w)
      /\ q = <<>> \/ Noidles(q, 1, Len(q))
      /\ Running(c, aw, q, s, w) \/ Answered(c, aw, s, w)
  BY LinesArrive
<1>2. Len(w) \in Nat \ {0} /\ (Tail(w) = <<>> <=> Len(w) = 1)
  BY TailFacts
<1>3. 1 \in 1 .. Len(w) /\ (Len(w) # 1 => 1 \in 1 .. Len(w) - 1)
  BY <1>2
<1>4. Tail(w) = <<>>
  BY <1>1, <1>2, <1>3 DEF Answers
<1>5. AtRest(s)
  BY <1>1, <1>3 DEF Running, Answered
<1>6. Noidles(q, 1, Len(q))
  BY <1>1, EmptySeq DEF Noidles
<1> QED BY <1>4, <1>5, <1>6 DEF Fit, Quiet

\* Every line is taken for what it is.
LEMMA FeedFits ==
    ASSUME NEW c \in Connection, NEW aw \in Seq(Request), NEW q, NEW s \in Server,
           NEW w \in Seq(Line), w # <<>>, Fit(c, aw, q, s, w), ~AlreadyDone(c),
           ~Defined(c.error), c.pairState = "NONE"
    PROVE  LET d == Feed(c, w[1])
               after == IF d.receiving THEN aw ELSE <<>>
           IN  /\ w[1].kind # "huge" /\ d.asserts = c.asserts
               /\ d.error \in {"SUCCESS", "SERVER"}
               /\ Fit(d, after, q, s, Tail(w))
               /\ d.pairState \in {"NONE", "FLOATING"} /\ PairFits(d, after)
               /\ IF d.receiving
                  THEN /\ d.error = "SUCCESS"
                       /\ d.sendingList = c.sendingList /\ d.sendingListOk = c.sendingListOk
                       /\ d.pairState = "NONE" => Discrete(d) /\ d.discreteFinished
                  ELSE /\ d.pairState = "NONE"
                       /\ d.error = "SUCCESS" => First(c, aw) = Last(aw)
<1> DEFINE d == Feed(c, w[1])
           after == IF d.receiving THEN aw ELSE <<>>
<1>1. /\ w[1] \in Line /\ Expected(w[1], c, aw) /\ w[1].id = First(c, aw)
      /\ First(c, aw) \in Nat /\ Last(aw) \in Nat
      /\ Discrete(c) => c.remaining = Last(aw) - First(c, aw) /\ c.remaining >= 0
      /\ w[1].kind \in {"pair", "list_OK"} =>
           (c.sendingList => ~c.discreteFinished) /\ First(c, aw) = aw[1].id
  BY CountSays
<1>2. /\ c.receiving /\ Numbered(aw) /\ aw # <<>> /\ Answers(c, aw, w)
      /\ c.sendingList => SentList(c, aw)
  BY LinesArrive
<1>3. c.error = "SUCCESS"
  BY DEF Defined
<1> DEFINE Good(e) ==
             /\ e.asserts = c.asserts /\ e.error \in {"SUCCESS", "SERVER"}
             /\ Fit(e, IF e.receiving THEN aw ELSE <<>>, q, s, Tail(w))
             /\ e.pairState \in {"NONE", "FLOATING"}
             /\ PairFits(e, IF e.receiving THEN aw ELSE <<>>)
             /\ IF e.receiving
                THEN /\ e.error = "SUCCESS"
                     /\ e.sendingList = c.sendingList /\ e.sendingListOk = c.sendingListOk
                     /\ e.pairState = "NONE" => Discrete(e) /\ e.discreteFinished
                ELSE /\ e.pairState = "NONE"
                     /\ e.error = "SUCCESS" => First(c, aw) = Last(aw)
<1>4. ASSUME w[1].kind = "pair" PROVE Good(d)
  <2>1. d = [c EXCEPT !.pairState = "FLOATING", !.pair = w[1].id]
    BY <1>4 DEF Feed
  <2>2. /\ d.receiving = c.receiving /\ d.sendingList = c.sendingList
        /\ d.sendingListOk = c.sendingListOk /\ d.discreteFinished = c.discreteFinished
        /\ d.remaining = c.remaining /\ d.asserts = c.asserts /\ d.error = c.error
        /\ d.pairState = "FLOATING" /\ d.pair = w[1].id
    BY <2>1 DEF Connection
  <2> HIDE DEF d
  <2>4. First(d, aw) = Behind(w[1]) /\ ~Ends(w[1])
    BY <1>1, <1>4, <2>2 DEF First, Behind, Ends
  <2>5. c.sendingList => SentList(d, aw)
    BY <1>2, <2>2 DEF First, SentList
  <2>6. Fit(d, aw, q, s, Tail(w))
    BY <2>2, <2>4, <2>5, PartFits
  <2>7. PairFits(d, aw)
    BY <1>1, <1>2, <1>4, <2>2 DEF PairFits
  <2> QED BY <1>2, <1>3, <2>2, <2>6, <2>7
<1>5. ASSUME w[1].kind = "list_OK" PROVE Good(d)
  <2>1. Discrete(c) /\ First(c, aw) < Last(aw) /\ ~c.discreteFinished /\ First(c, aw) = aw[1].id
    BY <1>1, <1>5 DEF Expected, Discrete
  <2>2. c.sendingList /\ c.remaining > 0 /\ c.remaining \in Int
    BY <1>1, <2>1 DEF Discrete
  <2>3. d = [c EXCEPT !.discreteFinished = TRUE, !.remaining = @ - 1]
    BY <1>5, <2>2 DEF Feed, FeedListOK
  <2>4. /\ d.receiving = c.receiving /\ d.sendingList = c.sendingList
        /\ d.sendingListOk = c.sendingListOk /\ d.discreteFinished
        /\ d.remaining = c.remaining - 1 /\ d.asserts = c.asserts /\ d.error = c.error
        /\ d.pairState = c.pairState
    BY <2>3 DEF Connection
  <2> HIDE DEF d
  <2>5. First(d, aw) = First(c, aw) + 1
    BY <2>1, <2>2, <2>4 DEF First
  <2>6. First(d, aw) = Behind(w[1]) /\ ~Ends(w[1])
    BY <1>1, <1>5, <2>5 DEF Behind, Ends
  <2>7. First(d, aw) <= Last(aw) /\ d.remaining = Last(aw) - First(d, aw)
    <3>1. First(c, aw) \in Int /\ Last(aw) \in Int /\ c.remaining = Last(aw) - First(c, aw)
      BY <1>1, <2>1
    <3> QED BY <2>1, <2>4, <2>5, <3>1
  <2>8. SentList(d, aw)
    BY <1>2, <2>1, <2>2, <2>4, <2>7 DEF SentList, Discrete
  <2>9. Fit(d, aw, q, s, Tail(w))
    BY <2>4, <2>6, <2>8, PartFits
  <2>10. PairFits(d, aw)
    BY <2>4 DEF PairFits
  <2> QED BY <1>2, <1>3, <2>1, <2>4, <2>9, <2>10 DEF Discrete
<1>6. ASSUME w[1].kind = "OK" PROVE Good(d)
  <2>1. ~(c.sendingList /\ c.remaining > 0)
    <3>1. CASE Discrete(c)
      <4>1. c.remaining = 0
        BY <1>1, <1>6, <3>1 DEF Expected
      <4> QED BY <4>1
    <3>2. CASE c.sendingList /\ ~Discrete(c)
      <4>1. c.remaining = 0
        BY <1>2, <3>2 DEF SentList, Discrete
      <4> QED BY <4>1
    <3> QED BY <3>1, <3>2
  <2>2. d = [c EXCEPT !.receiving = FALSE, !.sendingList = FALSE, !.discreteFinished = FALSE]
    BY <1>6, <2>1 DEF Feed, FeedOK
  <2>3. /\ ~d.receiving /\ ~d.sendingList /\ d.asserts = c.asserts /\ d.error = c.error
        /\ d.pairState = c.pairState
    BY <2>2 DEF Connection
  <2> HIDE DEF d
  <2>4. Fit(d, <<>>, q, s, Tail(w))
    BY <1>6, <2>3, EndFits DEF Ends
  <2>5. PairFits(d, <<>>)
    BY <2>3 DEF PairFits
  <2>6. First(c, aw) = Last(aw)
    BY <1>1, <1>6 DEF Expected
  <2> QED BY <1>3, <2>3, <2>4, <2>5, <2>6
<1>7. ASSUME w[1].kind = "ACK" PROVE Good(d)
  <2>1. d = [[c EXCEPT !.error = "SERVER", !.asserts = @ \/ Defined(c.error)]
               EXCEPT !.receiving = FALSE, !.sendingList = FALSE]
    BY <1>7 DEF Feed, FeedACK, SetError
  <2>2. /\ ~d.receiving /\ ~d.sendingList /\ d.asserts = c.asserts /\ d.error = "SERVER"
        /\ d.pairState = c.pairState
    BY <2>1 DEF Connection
  <2> HIDE DEF d
  <2>3. Fit(d, <<>>, q, s, Tail(w))
    BY <1>7, <2>2, EndFits DEF Ends
  <2>4. PairFits(d, <<>>)
    BY <2>2 DEF PairFits
  <2> QED BY <2>2, <2>3, <2>4
<1>8. w[1].kind \in {"pair", "list_OK", "OK", "ACK"}
  BY <1>1 DEF Expected
<1>9. Good(d)
  BY <1>4, <1>5, <1>6, <1>7, <1>8
<1> HIDE DEF d
<1> QED BY <1>8, <1>9 DEF d

\* mpd_recv_pair() with the connection c, whose response is awaited by aw.
Left(c, aw, o) == IF c.receiving /\ ~o.conn.receiving THEN <<>> ELSE aw

ReadWell(c, aw, o) ==
    /\ o.conn.asserts = c.asserts
    /\ o.conn.pairState \in {"NONE", "FLOATING"}
    /\ ~c.receiving => Alike(c, o.conn) /\ o.async = asyncError
    /\ o.conn.receiving =>
          /\ c.receiving
          /\ o.conn.sendingList = c.sendingList /\ o.conn.sendingListOk = c.sendingListOk
          /\ Defined(o.conn.error) => AlreadyDone(c)
    /\ c.receiving /\ ~o.conn.receiving =>
          /\ o.conn.pairState = "NONE"
          /\ ~Defined(o.conn.error) => First(c, aw) = Last(aw)
    /\ IF Lost(o.conn.error) THEN ~o.conn.receiving /\ o.conn.pairState = "NONE"
       ELSE /\ Fit(o.conn, Left(c, aw, o), queue, server, o.wire)
            /\ PairFits(o.conn, Left(c, aw, o))
            /\ o.conn.receiving /\ o.conn.pairState = "NONE" =>
                 Discrete(o.conn) /\ o.conn.discreteFinished

LEMMA ReadFits ==
    ASSUME TypeOK, AsyncErrorKinds, NEW c \in Connection, NEW aw \in Seq(Request),
           ~Defined(c.error), c.receiving => conn.receiving, c.pairState # "FLOATING",
           Fit(c, aw, queue, server, wire), PairFits(c, aw),
           c.pairState = "NULL" /\ c.receiving => Discrete(c) /\ c.discreteFinished,
           NEW o \in RecvPairs(c)
    PROVE  ReadWell(c, aw, o)
<1>1. wire \in Seq(Line) /\ server \in Server /\ c.pairState \in PairStates
  BY DEF TypeOK, Connection
<1>2. ~Lost("SUCCESS") /\ ~Lost("STATE") /\ ~Lost("SERVER") /\ c.error = "SUCCESS"
  BY DEF Lost, Fatal, Defined
<1>3. ASSUME NEW d, Alike(c, d), o = Answer(d), d.asserts = c.asserts,
             ~Lost(d.error), d.pairState \in {"NONE", "FLOATING"},
             d.error = "SUCCESS" \/ AlreadyDone(c),
             PairFits(d, aw),
             d.sendingListOk = c.sendingListOk,
             d.receiving /\ d.pairState = "NONE" => Discrete(d) /\ d.discreteFinished
      PROVE  ReadWell(c, aw, o)
  <2>1. o.conn = d /\ o.wire = wire /\ o.async = asyncError
    BY <1>3 DEF Answer
  <2>2. Fit(d, aw, queue, server, wire)
    BY <1>3, AlikeFits
  <2>3. Left(c, aw, o) = aw
    BY <1>3, <2>1 DEF Left, Alike
  <2> QED BY <1>3, <2>1, <2>2, <2>3 DEF ReadWell, Alike, Defined
<1>4. CASE c.pairState = "NULL"
  <2> DEFINE d == [c EXCEPT !.pairState = "NONE"]
  <2>1. o = Answer(d)
    BY <1>4 DEF RecvPairs
  <2>2. /\ Alike(c, d) /\ d.asserts = c.asserts /\ d.error = c.error /\ d.pairState = "NONE"
        /\ d.sendingListOk = c.sendingListOk
    BY DEF Alike, Connection
  <2> HIDE DEF d
  <2>3. PairFits(d, aw)
    BY <2>2 DEF PairFits
  <2>4. d.receiving => Discrete(d) /\ d.discreteFinished
    BY <1>4, <2>2 DEF Discrete, Alike
  <2> QED BY <1>2, <1>3, <2>1, <2>2, <2>3, <2>4
<1>5. CASE c.pairState = "QUEUED"
  <2> DEFINE d == [c EXCEPT !.pairState = "FLOATING"]
  <2>1. o = Answer(d)
    BY <1>5 DEF RecvPairs
  <2>2. /\ Alike(c, d) /\ d.asserts = c.asserts /\ d.error = c.error
        /\ d.pairState = "FLOATING" /\ d.pair = c.pair /\ d.sendingListOk = c.sendingListOk
    BY DEF Alike, Connection
  <2> HIDE DEF d
  <2>3. PairFits(d, aw)
    BY <1>5, <2>2 DEF PairFits, Alike
  <2> QED BY <1>2, <1>3, <2>1, <2>2, <2>3
<1>6. CASE c.pairState = "NONE" /\ AlreadyDone(c)
  <2> DEFINE d == [c EXCEPT !.error = "STATE", !.asserts = @ \/ Defined(c.error)]
  <2>1. o = Answer(d)
    BY <1>6 DEF RecvPairs, SetError
  <2>2. /\ Alike(c, d) /\ d.asserts = c.asserts /\ d.error = "STATE" /\ d.pairState = "NONE"
        /\ d.sendingListOk = c.sendingListOk
    BY <1>6 DEF Alike, Connection
  <2> HIDE DEF d
  <2>3. PairFits(d, aw)
    BY <2>2 DEF PairFits
  <2>4. d.receiving => Discrete(d) /\ d.discreteFinished
    <3>1. ASSUME c.receiving PROVE Discrete(c) /\ c.discreteFinished
      <4>1. c.sendingList /\ c.remaining > 0 /\ c.discreteFinished
        BY <1>6, <3>1 DEF AlreadyDone
      <4>2. SentList(c, aw)
        BY <3>1, <4>1 DEF Fit
      <4> QED BY <4>1, <4>2 DEF SentList, Discrete
    <3> QED BY <2>2, <3>1 DEF Alike, Discrete
  <2> QED BY <1>2, <1>3, <1>6, <2>1, <2>2, <2>3, <2>4
<1>7. CASE c.pairState = "NONE" /\ ~AlreadyDone(c)
  <2>0. c.receiving /\ conn.receiving
    BY <1>7 DEF AlreadyDone
  <2>1. o \in LineReads(c) \/ o \in FailedReads(c)
    BY <1>7 DEF RecvPairs
  <2>2. CASE o \in LineReads(c)
    <3>1. wire # <<>> /\ o.conn = Feed(c, wire[1]) /\ o.wire = Tail(wire)
      BY <1>1, <2>2, TailFacts DEF LineReads
    <3> DEFINE d == Feed(c, wire[1])
               after == IF d.receiving THEN aw ELSE <<>>
    <3>2. /\ d.asserts = c.asserts /\ d.error \in {"SUCCESS", "SERVER"}
          /\ Fit(d, after, queue, server, Tail(wire))
          /\ d.pairState \in {"NONE", "FLOATING"} /\ PairFits(d, after)
          /\ IF d.receiving
             THEN /\ d.error = "SUCCESS"
                  /\ d.sendingList = c.sendingList /\ d.sendingListOk = c.sendingListOk
                  /\ d.pairState = "NONE" => Discrete(d) /\ d.discreteFinished
             ELSE /\ d.pairState = "NONE"
                  /\ d.error = "SUCCESS" => First(c, aw) = Last(aw)
      BY <1>1, <1>7, <3>1, FeedFits
    <3>3. Left(c, aw, o) = after
      BY <2>0, <3>1 DEF Left
    <3> HIDE DEF d, after
    <3>4. o.conn = d
      BY <3>1 DEF d
    <3>5. ~Lost(d.error)
      BY <1>2, <3>2
    <3> QED BY <2>0, <3>1, <3>2, <3>3, <3>4, <3>5 DEF ReadWell, Defined
  <2>3. CASE o \in FailedReads(c)
    <3> DEFINE stopped == [c EXCEPT !.receiving = FALSE, !.sendingList = FALSE]
    <3>0. PICK e \in ReadErrors : o = [conn |-> SyncError(stopped, e), wire |-> wire,
                                       async |-> AsyncAfter(e)]
      BY <2>3 DEF FailedReads
    <3>1. o.conn = [stopped EXCEPT !.error = e]
      BY <3>0 DEF SyncError
    <3>2. e \in {"SYSTEM", "MALFORMED", "CLOSED", "TIMEOUT"}
      BY <2>0, <3>1 DEF ReadErrors, IOErrors, AsyncErrorKinds, Defined
    <3>3. Lost(e)
      BY <3>2 DEF Lost, Fatal
    <3>4. /\ ~o.conn.receiving /\ o.conn.error = e /\ o.conn.asserts = c.asserts
          /\ o.conn.pairState = "NONE"
      BY <1>7, <3>1 DEF Connection
    <3> QED BY <2>0, <3>3, <3>4 DEF ReadWell, Lost, Fatal, Defined
  <2> QED BY <2>1, <2>2, <2>3
<1> QED BY <1>1, <1>4, <1>5, <1>6, <1>7 DEF PairStates

\* Leaving the sub-response that is finished for the next one.
LEMMA LeavingFits ==
    ASSUME NEW c \in Connection, NEW aw \in Seq(Request), NEW q, NEW s, NEW w \in Seq(Line),
           Fit(c, aw, q, s, w), c.receiving, Discrete(c), c.discreteFinished, NEW d,
           d.receiving, Discrete(d), ~d.discreteFinished, d.remaining = c.remaining
    PROVE  Fit(d, SubSeq(aw, 2, Len(aw)), q, s, w)
<1> DEFINE b == SubSeq(aw, 2, Len(aw))
<1>1. /\ c.sendingList /\ c.sendingListOk /\ Numbered(aw) /\ SentList(c, aw)
      /\ Running(c, aw, q, s, w) \/ Answered(c, aw, s, w)
      /\ q = <<>>
  BY DEF Fit, ListUnderWay, Running, Discrete
<1>2. d.sendingList /\ d.sendingListOk
  BY DEF Discrete
<1>3. /\ Len(aw) \in Nat \ {0} /\ aw[1].id \in Nat \ {0} /\ Last(aw) = aw[1].id + Len(aw) - 1
      /\ \A i \in 1 .. Len(aw) : aw[i].id = aw[1].id + i - 1
  BY <1>1, NumbersOf DEF SentList
<1>4. First(c, aw) = aw[1].id + 1 /\ First(c, aw) <= Last(aw)
  BY <1>1 DEF First, SentList
<1>5. Len(aw) > 1
  BY <1>3, <1>4
<1>6. /\ b \in Seq(Request) /\ Len(b) = Len(aw) - 1
      /\ \A i \in 1 .. Len(aw) - 1 : b[i] = aw[i + 1]
  <2>1. aw # <<>>
    BY <1>1 DEF SentList
  <2>2. b = Tail(aw)
    BY <2>1, TailIsSubSeq
  <2> QED BY <2>1, <2>2, TailFacts
<1> HIDE DEF b
<1>7. \A i \in 1 .. Len(b) : i \in 1 .. Len(aw) - 1 /\ i + 1 \in 1 .. Len(aw)
  BY <1>3, <1>6
<1>8. 1 \in 1 .. Len(b) /\ Len(b) \in 1 .. Len(b) /\ b # <<>>
  BY <1>3, <1>5, <1>6, EmptySeq
<1>9. b[1].id = aw[1].id + 1 /\ Last(b) = Last(aw)
  <2>1. b[1] = aw[1 + 1] /\ b[Len(b)] = aw[Len(b) + 1] /\ Len(b) + 1 = Len(aw)
    BY <1>3, <1>6, <1>8
  <2>2. aw[1 + 1].id = aw[1].id + (1 + 1) - 1
    BY <1>3, <1>7, <1>8
  <2> QED BY <1>3, <2>1, <2>2 DEF Last
<1>10. Numbered(b)
  <2>1. ASSUME NEW i \in 1 .. Len(b) PROVE b[i].id = b[1].id + i - 1
    <3>1. b[i] = aw[i + 1] /\ aw[i + 1].id = aw[1].id + (i + 1) - 1
      BY <1>3, <1>6, <1>7
    <3> QED BY <1>3, <1>9, <3>1
  <2> QED BY <1>3, <1>9, <2>1 DEF Numbered
<1>11. First(d, b) = First(c, aw)
  BY <1>4, <1>9 DEF First
<1>12. SentList(d, b)
  <2>1. ASSUME NEW i \in 1 .. Len(b) PROVE b[i].kind = IF i = Len(b) THEN "end" ELSE "cmd"
    <3>1. b[i] = aw[i + 1] /\ aw[i + 1].kind = IF i + 1 = Len(aw) THEN "end" ELSE "cmd"
      BY <1>1, <1>6, <1>7 DEF SentList
    <3>2. i + 1 = Len(aw) <=> i = Len(b)
      BY <1>3, <1>6
    <3> QED BY <3>1, <3>2
  <2>2. d.remaining = Last(b) - First(d, b) /\ First(d, b) <= Last(b)
    BY <1>1, <1>4, <1>9, <1>11 DEF SentList
  <2> QED BY <1>2, <1>8, <2>1, <2>2 DEF SentList
<1>13. Answers(c, aw, w) => Answers(d, b, w)
  BY <1>1, <1>2, <1>9, <1>11 DEF Answers, Expected, Discrete
<1>14. Upcoming(d, b, w) = Upcoming(c, aw, w)
  BY <1>11 DEF Upcoming
<1>15. Running(c, aw, q, s, w) => Running(d, b, q, s, w)
  BY <1>1, <1>2, <1>9, <1>13, <1>14 DEF Running
<1>16. Answered(c, aw, s, w) => Answered(d, b, s, w)
  BY <1>13 DEF Answered
<1> QED BY <1>1, <1>2, <1>10, <1>12, <1>15, <1>16 DEF Fit, b

(***************************************************************************)
(* What the client sends.                                                  *)
(***************************************************************************)
\* One more request in the queue.
LEMMA GrownQueue ==
    ASSUME NEW q \in Seq(Request), NEW r \in Request
    PROVE  LET p == Append(q, r)
           IN  /\ p \in Seq(Request) /\ Len(p) = Len(q) + 1 /\ Len(q) \in Nat
               /\ \A i \in 1 .. Len(q) : p[i] = q[i]
               /\ p[Len(q) + 1] = r
               /\ \A m \in Nat \ {0}, n \in 0 .. Len(q) : Noidles(q, m, n) => Noidles(p, m, n)
               /\ \A m \in Nat \ {0} : Noidles(q, m, Len(q)) /\ r.kind = "noidle" =>
                                          Noidles(p, m, Len(p))
<1> DEFINE p == Append(q, r)
<1>1. /\ p \in Seq(Request) /\ Len(p) = Len(q) + 1 /\ Len(q) \in Nat
      /\ \A i \in 1 .. Len(q) : p[i] = q[i]
      /\ p[Len(q) + 1] = r
  BY AppendProperties, LenProperties
<1> HIDE DEF p
<1>2. ASSUME NEW m \in Nat \ {0}, NEW n \in 0 .. Len(q), Noidles(q, m, n)
      PROVE  Noidles(p, m, n)
  <2>1. \A i \in m .. n : i \in 1 .. Len(q)
    BY <1>1
  <2> QED BY <1>1, <1>2, <2>1 DEF Noidles
<1>3. ASSUME NEW m \in Nat \ {0}, Noidles(q, m, Len(q)), r.kind = "noidle"
      PROVE  Noidles(p, m, Len(p))
  <2>1. ASSUME NEW i \in m .. Len(p) PROVE p[i].kind = "noidle"
    <3>1. CASE i = Len(q) + 1
      BY <1>1, <1>3, <3>1
    <3>2. CASE i # Len(q) + 1
      <4>1. i \in 1 .. Len(q) /\ i \in m .. Len(q)
        BY <1>1, <2>1, <3>2
      <4> QED BY <1>1, <1>3, <4>1 DEF Noidles
    <3> QED BY <3>1, <3>2
  <2> QED BY <2>1 DEF Noidles
<1> QED BY <1>1, <1>2, <1>3 DEF p

LEMMA CommandSent ==
    ASSUME NEW c, NEW d, NEW aw, NEW q \in Seq(Request), NEW s, NEW w, Fit(c, aw, q, s, w),
           ~c.receiving, ~c.sendingList, d.receiving, ~d.sendingList,
           NEW r \in Request, r.kind \in {"cmd", "idle"}, r.id > 0
    PROVE  Fit(d, <<r>>, Append(q, r), s, w)
<1> DEFINE p == Append(q, r)
<1>1. AtRest(s) /\ w = <<>> /\ Noidles(q, 1, Len(q))
  BY DEF Fit, Quiet
<1>2. /\ Len(p) = Len(q) + 1 /\ Len(q) \in Nat /\ p[Len(q) + 1] = r
      /\ \A m \in Nat \ {0}, n \in 0 .. Len(q) : Noidles(q, m, n) => Noidles(p, m, n)
  BY GrownQueue
<1> HIDE DEF p
<1>3. 1 \in Nat \ {0} /\ Len(q) \in 0 .. Len(q) /\ Len(q) + 1 \in 1 .. Len(p)
      /\ (Len(q) + 1) - 1 = Len(q)
  BY <1>2
<1>4. Noidles(p, 1, (Len(q) + 1) - 1)
  BY <1>1, <1>2, <1>3
<1>5. Noidles(p, (Len(q) + 1) + 1, Len(p))
  BY <1>2 DEF Noidles
<1>6. OneUnderWay(<<r>>, p, s, w)
  BY <1>1, <1>2, <1>3, <1>4, <1>5 DEF OneUnderWay
<1>7. Numbered(<<r>>) /\ SentOne(<<r>>)
  BY DEF Numbered, SentOne, Request
<1> QED BY <1>6, <1>7 DEF Fit, p

LEMMA ListBegun ==
    ASSUME NEW c, NEW d, NEW aw, NEW q \in Seq(Request), NEW s, NEW w, Fit(c, aw, q, s, w),
           ~c.receiving, ~c.sendingList, ~d.receiving, d.sendingList, d.remaining = 0,
           ~d.discreteFinished, NEW r \in Request,
           r.kind = IF d.sendingListOk THEN "begin_ok" ELSE "begin"
    PROVE  Fit(d, <<>>, Append(q, r), s, w)
<1> DEFINE p == Append(q, r)
<1>1. AtRest(s) /\ w = <<>> /\ Noidles(q, 1, Len(q)) /\ s.list = <<>>
  BY DEF Fit, Quiet, AtRest
<1>2. /\ Len(p) = Len(q) + 1 /\ Len(q) \in Nat /\ p[Len(q) + 1] = r
      /\ \A m \in Nat \ {0}, n \in 0 .. Len(q) : Noidles(q, m, n) => Noidles(p, m, n)
  BY GrownQueue
<1> HIDE DEF p
<1>3. 1 \in Nat \ {0} /\ Len(q) \in 0 .. Len(q) /\ Len(q) + 1 \in 1 .. Len(p)
      /\ (Len(q) + 1) - 1 = Len(q)
  BY <1>2
<1>4. Noidles(p, 1, (Len(q) + 1) - 1)
  BY <1>1, <1>2, <1>3
<1>5. Len(<<>>) = 0
  OBVIOUS
<1>6. Len(s.list) + Len(p) - (Len(q) + 1) = Len(<<>>)
  BY <1>1, <1>2, <1>5
<1>7. \A i \in (Len(q) + 1) + 1 .. Len(p) : FALSE
  BY <1>2
<1>8. \A j \in 1 .. Len(s.list) : FALSE
  BY <1>1, <1>5
<1>9. Remainder(Len(q) + 1, d, <<>>, p, s)
  BY <1>6, <1>7, <1>8 DEF Remainder
<1>10. ListUnderWay(d, <<>>, p, s, w)
  BY <1>1, <1>2, <1>3, <1>4, <1>9 DEF ListUnderWay
<1>11. Numbered(<<>>) /\ Gathering(d, <<>>)
  BY <1>5 DEF Numbered, Gathering
<1> QED BY <1>10, <1>11 DEF Fit, p

LEMMA NoidleSent ==
    ASSUME NEW c, NEW d, NEW aw, NEW q \in Seq(Request), NEW s, NEW w, Fit(c, aw, q, s, w),
           c.receiving, ~c.sendingList, d.receiving, ~d.sendingList, NEW r \in Request,
           r.kind = "noidle"
    PROVE  Fit(d, aw, Append(q, r), s, w)
<1> DEFINE p == Append(q, r)
<1>1. /\ p \in Seq(Request) /\ Len(p) = Len(q) + 1 /\ Len(q) \in Nat
      /\ \A i \in 1 .. Len(q) : p[i] = q[i]
      /\ \A m \in Nat \ {0}, n \in 0 .. Len(q) : Noidles(q, m, n) => Noidles(p, m, n)
      /\ \A m \in Nat \ {0} : Noidles(q, m, Len(q)) => Noidles(p, m, Len(p))
  BY GrownQueue
<1>2. 1 \in Nat \ {0}
  OBVIOUS
<1> HIDE DEF p
<1>3. Noidles(q, 1, Len(q)) => Noidles(p, 1, Len(p))
  BY <1>1, <1>2
<1>4. ASSUME OneUnderWay(aw, q, s, w) PROVE OneUnderWay(aw, p, s, w)
  <2>1. CASE AtRest(s) /\ \E m \in 1 .. Len(q) :
               q[m] = aw[1] /\ Noidles(q, 1, m - 1) /\ Noidles(q, m + 1, Len(q))
    <3>1. PICK m \in 1 .. Len(q) :
            q[m] = aw[1] /\ Noidles(q, 1, m - 1) /\ Noidles(q, m + 1, Len(q))
      BY <2>1
    <3>2. m \in 1 .. Len(p) /\ m - 1 \in 0 .. Len(q) /\ m + 1 \in Nat \ {0}
      BY <1>1
    <3>3. p[m] = aw[1] /\ Noidles(p, 1, m - 1) /\ Noidles(p, m + 1, Len(p))
      BY <1>1, <1>2, <3>1, <3>2
    <3> QED BY <1>4, <2>1, <3>2, <3>3 DEF OneUnderWay
  <2>2. CASE /\ s.mode = "idle" /\ s.id = aw[1].id /\ aw[1].kind = "idle"
             /\ Noidles(q, 1, Len(q))
    BY <1>3, <1>4, <2>2 DEF OneUnderWay
  <2> QED BY <1>4, <2>1, <2>2 DEF OneUnderWay
<1>5. Answered(c, aw, s, w) => Answered(d, aw, s, w)
  BY DEF Answered, Answers, Expected, Discrete, First
<1> QED BY <1>3, <1>4, <1>5 DEF Fit, p

\* The part of a list that the server has not got grows with the list.
LEMMA GrownRemainder ==
    ASSUME NEW c, NEW d, NEW aw \in Seq(Request), NEW q \in Seq(Request), NEW s \in Server,
           NEW m \in 0 .. Len(q), Remainder(m, c, aw, q, s), ~c.receiving,
           d.sendingListOk = c.sendingListOk, NEW r \in Request,
           NEW b, b = IF c.sendingListOk \/ d.receiving THEN Append(aw, r) ELSE aw,
           ~d.receiving => r.kind = "cmd", ~c.sendingListOk => aw = <<>>
    PROVE  Remainder(m, d, b, Append(q, r), s)
<1> DEFINE p == Append(q, r)
<1>1. /\ p \in Seq(Request) /\ Len(p) = Len(q) + 1 /\ Len(q) \in Nat
      /\ \A i \in 1 .. Len(q) : p[i] = q[i]
      /\ p[Len(q) + 1] = r
  BY GrownQueue
<1>2. Len(aw) \in Nat /\ Len(s.list) \in Nat /\ m \in Nat
  BY <1>1, LenProperties DEF Server
<1> HIDE DEF p
<1>3. Len(p) > m
  BY <1>1, <1>2
<1>4. ASSUME c.sendingListOk PROVE Remainder(m, d, b, p, s)
  <2>1. /\ b \in Seq(Request) /\ Len(b) = Len(aw) + 1
        /\ \A i \in 1 .. Len(aw) : b[i] = aw[i]
        /\ b[Len(aw) + 1] = r
    BY <1>4, AppendProperties
  <2>2. /\ Len(s.list) + Len(q) - m = Len(aw)
        /\ \A j \in 1 .. Len(s.list) : s.list[j] = aw[j].id
        /\ \A i \in m + 1 .. Len(q) : q[i] = aw[Len(s.list) + i - m]
    BY <1>4 DEF Remainder
  <2>3. Len(s.list) <= Len(aw)
    BY <1>1, <1>2, <2>2
  <2>4. \A j \in 1 .. Len(s.list) : s.list[j] = b[j].id
    <3>1. \A j \in 1 .. Len(s.list) : j \in 1 .. Len(aw)
      BY <1>2, <2>3
    <3> QED BY <2>1, <2>2, <3>1
  <2>5. Len(s.list) + (Len(q) + 1) - m = Len(aw) + 1
    <3> DEFINE j == Len(s.list)
               k == Len(q)
               l == Len(aw)
    <3>1. j \in Nat /\ k \in Nat /\ m \in Nat /\ l \in Nat
      BY <1>1, <1>2
    <3>2. j + k - m = l
      BY <2>2
    <3> HIDE DEF j, k, l
    <3>3. j + (k + 1) - m = l + 1
      BY <3>1, <3>2
    <3> QED BY <3>3 DEF j, k, l
  <2>6. ASSUME NEW i \in m + 1 .. Len(p) PROVE p[i] = b[Len(s.list) + i - m]
    <3>1. CASE i = Len(q) + 1
      <4>1. Len(s.list) + i - m = Len(aw) + 1
        BY <2>5, <3>1
      <4> QED BY <1>1, <2>1, <3>1, <4>1
    <3>2. CASE i # Len(q) + 1
      <4>1. i \in 1 .. Len(q) /\ i \in m + 1 .. Len(q)
        BY <1>1, <1>2, <3>2
      <4>2. Len(s.list) + i - m \in 1 .. Len(aw)
        <5> DEFINE j == Len(s.list)
                   k == Len(q)
                   l == Len(aw)
        <5>1. j \in Nat /\ k \in Nat /\ m \in Nat /\ l \in Nat /\ j + k - m = l
          BY <1>1, <1>2, <2>2
        <5>2. i \in m + 1 .. k
          BY <4>1
        <5> HIDE DEF j, k, l
        <5>3. j + i - m \in 1 .. l
          BY <5>1, <5>2
        <5> QED BY <5>3 DEF j, k, l
      <4>3. p[i] = q[i]
        BY <1>1, <4>1
      <4>4. q[i] = aw[Len(s.list) + i - m]
        BY <2>2, <4>1
      <4>5. b[Len(s.list) + i - m] = aw[Len(s.list) + i - m]
        BY <2>1, <4>2
      <4> QED BY <4>3, <4>4, <4>5
    <3> QED BY <3>1, <3>2
  <2>7. Len(s.list) + Len(p) - m = Len(b)
    BY <1>1, <2>1, <2>5
  <2> QED BY <1>3, <1>4, <2>4, <2>6, <2>7 DEF Remainder
<1>5. ASSUME ~c.sendingListOk PROVE Remainder(m, d, b, p, s)
  <2>1. \A i \in m + 1 .. Len(q) : q[i].kind = "cmd"
    BY <1>5 DEF Remainder
  <2>2. ASSUME NEW i \in m + 1 .. Len(p), i < Len(p) \/ ~d.receiving PROVE p[i].kind = "cmd"
    <3>1. CASE i = Len(q) + 1
      BY <1>1, <2>2, <3>1
    <3>2. CASE i # Len(q) + 1
      <4>1. i \in 1 .. Len(q) /\ i \in m + 1 .. Len(q)
        BY <1>1, <1>2, <3>2
      <4> QED BY <1>1, <2>1, <4>1
    <3> QED BY <3>1, <3>2
  <2>3. d.receiving => p[Len(p)] = b[1]
    BY <1>1, <1>5
  <2> QED BY <1>3, <1>5, <2>2, <2>3 DEF Remainder
<1> QED BY <1>4, <1>5 DEF p

LEMMA GrownList ==
    ASSUME NEW c, NEW d, NEW aw \in Seq(Request), NEW q \in Seq(Request), NEW s \in Server,
           NEW w, ListUnderWay(c, aw, q, s, w), ~c.receiving,
           d.sendingListOk = c.sendingListOk, ~d.discreteFinished, NEW r \in Request,
           NEW b, b = IF c.sendingListOk \/ d.receiving THEN Append(aw, r) ELSE aw,
           ~d.receiving => r.kind = "cmd", ~c.sendingListOk => aw = <<>>
    PROVE  ListUnderWay(d, b, Append(q, r), s, w)
<1> DEFINE p == Append(q, r)
<1>1. /\ Len(p) = Len(q) + 1 /\ Len(q) \in Nat
      /\ \A i \in 1 .. Len(q) : p[i] = q[i]
      /\ \A m \in Nat \ {0}, n \in 0 .. Len(q) : Noidles(q, m, n) => Noidles(p, m, n)
  BY GrownQueue
<1>2. \A m \in 0 .. Len(q) : Remainder(m, c, aw, q, s) => Remainder(m, d, b, p, s)
  BY GrownRemainder
<1> HIDE DEF p
<1>3. CASE s.mode = "list" /\ s.discrete = c.sendingListOk /\ Remainder(0, c, aw, q, s)
  BY <1>1, <1>2, <1>3 DEF ListUnderWay, p
<1>4. CASE AtRest(s) /\ \E m \in 1 .. Len(q) :
              /\ Noidles(q, 1, m - 1)
              /\ q[m].kind = IF c.sendingListOk THEN "begin_ok" ELSE "begin"
              /\ Remainder(m, c, aw, q, s)
  <2>1. PICK m \in 1 .. Len(q) :
              /\ Noidles(q, 1, m - 1)
              /\ q[m].kind = IF c.sendingListOk THEN "begin_ok" ELSE "begin"
              /\ Remainder(m, c, aw, q, s)
    BY <1>4
  <2>2. m \in 1 .. Len(p) /\ m - 1 \in 0 .. Len(q) /\ m \in 0 .. Len(q) /\ 1 \in Nat \ {0}
    BY <1>1
  <2>3. Noidles(p, 1, m - 1) /\ p[m] = q[m] /\ Remainder(m, d, b, p, s)
    BY <1>1, <1>2, <2>1, <2>2
  <2> QED BY <1>4, <2>1, <2>2, <2>3 DEF ListUnderWay, p
<1> QED BY <1>3, <1>4 DEF ListUnderWay

\* The next request gets the next number.
LEMMA NumberedOn ==
    ASSUME NEW aw \in Seq(Request), Numbered(aw), NEW r \in Request, r.id > 0,
           aw # <<>> => Last(aw) = r.id - 1
    PROVE  LET b == Append(aw, r)
           IN  /\ b \in Seq(Request) /\ Numbered(b) /\ Len(b) = Len(aw) + 1
               /\ Len(aw) \in Nat /\ b[Len(b)] = r /\ Last(b) = r.id
               /\ \A i \in 1 .. Len(aw) : b[i] = aw[i]
               /\ Last(b) = b[1].id + Len(aw) /\ b # <<>>
<1> DEFINE b == Append(aw, r)
<1>1. /\ b \in Seq(Request) /\ Len(b) = Len(aw) + 1 /\ Len(aw) \in Nat
      /\ \A i \in 1 .. Len(aw) : b[i] = aw[i]
      /\ b[Len(aw) + 1] = r /\ b # <<>>
  BY AppendProperties, LenProperties
<1> HIDE DEF b
<1>2. r.id \in Nat /\ Last(b) = r.id /\ b[Len(b)] = r
  BY <1>1 DEF Request, Last
<1>3. CASE aw = <<>>
  <2>1. Len(b) = 1 /\ b[1] = r /\ Len(aw) = 0
    BY <1>1, <1>3
  <2>2. Numbered(b)
    BY <1>2, <2>1 DEF Numbered
  <2> QED BY <1>1, <1>2, <2>1, <2>2 DEF b
<1>4. CASE aw # <<>>
  <2>1. /\ Len(aw) \in Nat \ {0} /\ aw[1].id \in Nat \ {0}
        /\ \A i \in 1 .. Len(aw) : aw[i].id = aw[1].id + i - 1
        /\ Last(aw) = aw[1].id + Len(aw) - 1
    <3>1. Len(aw) \in Nat \ {0} /\ aw[1] \in Request
      BY <1>4, TailFacts
    <3>2. aw[1].id \in Nat \ {0} /\ \A i \in 1 .. Len(aw) : aw[i].id = aw[1].id + i - 1
      BY <1>4, <3>1 DEF Numbered, Request
    <3> QED BY <3>1, <3>2 DEF Last
  <2>2. b[1] = aw[1] /\ r.id = aw[1].id + Len(aw)
    BY <1>1, <1>2, <1>4, <2>1
  <2>3. ASSUME NEW i \in 1 .. Len(b) PROVE b[i].id = b[1].id + i - 1
    <3>1. CASE i = Len(aw) + 1
      BY <1>1, <2>1, <2>2, <3>1
    <3>2. CASE i # Len(aw) + 1
      <4>1. i \in 1 .. Len(aw)
        BY <1>1, <3>2
      <4> QED BY <1>1, <2>1, <2>2, <4>1
    <3> QED BY <3>1, <3>2
  <2>4. Numbered(b)
    BY <2>1, <2>2, <2>3 DEF Numbered
  <2> QED BY <1>1, <1>2, <2>2, <2>4 DEF b
<1> QED BY <1>3, <1>4

LEMMA CommandListed ==
    ASSUME NEW c \in Connection, NEW d, NEW aw \in Seq(Request), NEW q \in Seq(Request),
           NEW s \in Server, NEW w, Fit(c, aw, q, s, w), ~c.receiving, c.sendingList,
           ~d.receiving, d.sendingList, d.sendingListOk = c.sendingListOk,
           d.discreteFinished = c.discreteFinished,
           d.remaining = IF c.sendingListOk THEN c.remaining + 1 ELSE c.remaining,
           NEW r \in Request, r.kind = "cmd", r.id > 0,
           aw # <<>> => Last(aw) = r.id - 1
    PROVE  Fit(d, IF c.sendingListOk THEN Append(aw, r) ELSE aw, Append(q, r), s, w)
<1> DEFINE b == IF c.sendingListOk THEN Append(aw, r) ELSE aw
<1>1. Numbered(aw) /\ Gathering(c, aw) /\ ListUnderWay(c, aw, q, s, w)
  BY DEF Fit
<1>2. ~d.discreteFinished /\ (~c.sendingListOk => aw = <<>> /\ c.remaining = 0)
  BY <1>1 DEF Gathering
<1>3. ListUnderWay(d, b, Append(q, r), s, w)
  BY <1>1, <1>2, GrownList
<1>4. Numbered(b) /\ Gathering(d, b)
  <2>1. CASE c.sendingListOk
    <3>1. /\ Numbered(b) /\ Len(b) = Len(aw) + 1 /\ Len(aw) \in Nat /\ b[Len(b)] = r
          /\ \A i \in 1 .. Len(aw) : b[i] = aw[i]
      BY <1>1, <2>1, NumberedOn
    <3> HIDE DEF b
    <3>2. d.remaining = Len(b) /\ \A i \in 1 .. Len(aw) : aw[i].kind = "cmd"
      BY <1>1, <2>1, <3>1 DEF Gathering
    <3>3. ASSUME NEW i \in 1 .. Len(b) PROVE b[i].kind = "cmd"
      <4>1. i = Len(b) \/ i \in 1 .. Len(aw)
        BY <3>1
      <4> QED BY <3>1, <3>2, <4>1
    <3> QED BY <1>2, <2>1, <3>1, <3>2, <3>3 DEF Gathering
  <2>2. CASE ~c.sendingListOk
    BY <1>1, <1>2, <2>2 DEF Gathering
  <2> QED BY <2>1, <2>2
<1> QED BY <1>3, <1>4 DEF Fit

LEMMA ListClosed ==
    ASSUME NEW c \in Connection, NEW d, NEW aw \in Seq(Request), NEW q \in Seq(Request),
           NEW s \in Server, NEW w, Fit(c, aw, q, s, w), ~c.receiving, c.sendingList,
           d.receiving, d.sendingList, d.sendingListOk = c.sendingListOk,
           d.discreteFinished = c.discreteFinished, d.remaining = c.remaining,
           NEW r \in Request, r.kind = "end", r.id > 0,
           aw # <<>> => Last(aw) = r.id - 1
    PROVE  Fit(d, Append(aw, r), Append(q, r), s, w)
<1> DEFINE b == Append(aw, r)
<1>1. Numbered(aw) /\ Gathering(c, aw) /\ ListUnderWay(c, aw, q, s, w)
  BY DEF Fit
<1>2. ~d.discreteFinished /\ (~c.sendingListOk => aw = <<>> /\ c.remaining = 0)
  BY <1>1 DEF Gathering
<1>3. ListUnderWay(d, b, Append(q, r), s, w)
  BY <1>1, <1>2, GrownList
<1>4. /\ Numbered(b) /\ Len(b) = Len(aw) + 1 /\ Len(aw) \in Nat /\ b[Len(b)] = r
      /\ \A i \in 1 .. Len(aw) : b[i] = aw[i]
      /\ Last(b) = b[1].id + Len(aw) /\ b # <<>> /\ b \in Seq(Request)
  BY <1>1, NumberedOn
<1> HIDE DEF b
<1>5. First(d, b) = b[1].id /\ b[1].id \in Nat
  BY <1>2, <1>4, NumbersOf DEF First
<1>6. First(d, b) <= Last(b)
  BY <1>4, <1>5
<1>7. SentList(d, b)
  <2>1. CASE c.sendingListOk
    <3>1. c.remaining = Len(aw) /\ \A i \in 1 .. Len(aw) : aw[i].kind = "cmd"
      BY <1>1, <2>1 DEF Gathering
    <3>2. d.remaining = Last(b) - First(d, b)
      BY <1>4, <1>5, <3>1
    <3>3. ASSUME NEW i \in 1 .. Len(b)
          PROVE  b[i].kind = IF i = Len(b) THEN "end" ELSE "cmd"
      <4>1. CASE i = Len(b)
        BY <1>4, <4>1
      <4>2. CASE i # Len(b)
        <5>1. i \in 1 .. Len(aw)
          BY <1>4, <4>2
        <5> QED BY <1>4, <3>1, <4>2, <5>1
      <4> QED BY <4>1, <4>2
    <3> QED BY <1>4, <1>6, <2>1, <3>2, <3>3 DEF SentList
  <2>2. CASE ~c.sendingListOk
    <3>1. Len(b) = 1 /\ b[1] = r /\ d.remaining = 0
      BY <1>2, <1>4, <2>2
    <3> QED BY <1>2, <1>4, <1>6, <2>2, <3>1 DEF SentList
  <2> QED BY <2>1, <2>2
<1> QED BY <1>3, <1>4, <1>7 DEF Fit, b

LEMMA Regrouped ==
    \A s, t, u \in Seq(Request) : (s \o t) \o u = s \o (t \o u)
BY ConcatAssociative

\* Output that is written, all of it or a part, is neither lost nor reordered.
LEMMA WrittenPart ==
    ASSUME NEW p \in Seq(Request), NEW in \in Seq(Request), NEW k \in 0 .. Len(p)
    PROVE  /\ SubSeq(p, 1, k) \in Seq(Request) /\ SubSeq(p, k + 1, Len(p)) \in Seq(Request)
           /\ (in \o SubSeq(p, 1, k)) \o SubSeq(p, k + 1, Len(p)) = in \o p
           /\ SubSeq(p, Len(p) + 1, Len(p)) = <<>>
<1>1. Len(p) \in Nat
  BY LenProperties
<1>2. SubSeq(p, 1, k) \in Seq(Request) /\ SubSeq(p, k + 1, Len(p)) \in Seq(Request)
  BY <1>1, PartType
<1>3. SubSeq(p, 1, k) \o SubSeq(p, k + 1, Len(p)) = p
  <2>1. 1 \in 1 .. Len(p) + 1 /\ k \in 1 - 1 .. Len(p) /\ Len(p) \in k .. Len(p)
    BY <1>1
  <2>2. SubSeq(p, 1, k) \o SubSeq(p, k + 1, Len(p)) = SubSeq(p, 1, Len(p))
    BY <2>1, ConcatAdjacentSubSeq
  <2> QED BY <2>2, SubSeqFull
<1>4. SubSeq(p, Len(p) + 1, Len(p)) = <<>>
  BY <1>1, SubSeqEmpty
<1>5. (in \o SubSeq(p, 1, k)) \o SubSeq(p, k + 1, Len(p))
        = in \o (SubSeq(p, 1, k) \o SubSeq(p, k + 1, Len(p)))
  BY <1>2, Regrouped
<1> QED BY <1>2, <1>3, <1>4, <1>5

LEMMA FlushesKeep ==
    ASSUME TypeOK, AsyncErrorKinds, NEW p \in Seq(Request), NEW in \in Seq(Request),
           NEW o \in Flushes(p, in)
    PROVE  /\ ~Defined(o.err) => o.out = <<>> /\ o.in \o o.out = in \o p
           /\ Defined(o.err) =>
                \/ Lost(o.err)
                \/ o.out = p /\ o.in = in /\ o.err = "ARGUMENT" /\ asyncError = "ARGUMENT"
<1>1. CASE Defined(asyncError)
  <2>1. o.out = p /\ o.in = in /\ o.err = asyncError
    BY <1>1 DEF Flushes
  <2>2. asyncError \in {"ARGUMENT", "SYSTEM", "MALFORMED", "CLOSED"}
    BY <1>1 DEF AsyncErrorKinds, Defined
  <2> QED BY <1>1, <2>1, <2>2 DEF Lost, Fatal
<1>2. CASE ~Defined(asyncError) /\ o = Drained(p, in, Len(p), "SUCCESS")
  <2>1. /\ o.out = SubSeq(p, Len(p) + 1, Len(p)) /\ o.in = in \o SubSeq(p, 1, Len(p))
        /\ ~Defined(o.err)
    BY <1>2 DEF Drained, Defined
  <2>2. Len(p) \in 0 .. Len(p)
    BY LenProperties
  <2> QED BY <2>1, <2>2, WrittenPart
<1>3. CASE o \in IOFailures(p, in)
  <2>1. o.err \in {"TIMEOUT", "CLOSED", "SYSTEM"}
    BY <1>3 DEF IOFailures, Drained, IOErrors
  <2> QED BY <2>1 DEF Lost, Fatal, Defined
<1> QED BY <1>1, <1>2, <1>3 DEF Flushes

\* What is sent is behind all that was sent before; what is refused leaves no trace,
\* unless the connection is lost.
LEMMA EnqueuesKeep ==
    ASSUME TypeOK, AsyncErrorKinds, NEW r \in Request, NEW long \in BOOLEAN,
           NEW o \in Enqueues(r, long)
    PROVE  /\ ~Defined(o.err) => o.in \o o.out = Append(queue, r) /\ ~Defined(asyncError)
           /\ Defined(o.err) =>
                \/ Lost(o.err)
                \/ /\ o.err = "ARGUMENT" /\ o.in \o o.out = queue
                   /\ outbuf = <<>> => o.out = <<>>
                   /\ long \/ asyncError = "ARGUMENT"
<1>0. outbuf \in Seq(Request) /\ inbox \in Seq(Request) /\ Len(outbuf) \in 0 .. Len(outbuf)
  BY LenProperties DEF TypeOK
<1>1. CASE Defined(asyncError)
  <2>1. o.out = outbuf /\ o.in = inbox /\ o.err = asyncError
    BY <1>1 DEF Enqueues
  <2>2. asyncError \in {"ARGUMENT", "SYSTEM", "MALFORMED", "CLOSED"}
    BY <1>1 DEF AsyncErrorKinds, Defined
  <2> QED BY <1>1, <2>1, <2>2 DEF Lost, Fatal, queue
<1>2. CASE ~Defined(asyncError) /\ o \in IOFailures(outbuf, inbox)
  <2>1. o.err \in {"TIMEOUT", "CLOSED", "SYSTEM"}
    BY <1>2 DEF IOFailures, Drained, IOErrors
  <2> QED BY <2>1 DEF Lost, Fatal, Defined
<1>3. CASE ~Defined(asyncError) /\ long /\ o = Drained(outbuf, inbox, Len(outbuf), "ARGUMENT")
  <2>1. /\ o.out = SubSeq(outbuf, Len(outbuf) + 1, Len(outbuf))
        /\ o.in = inbox \o SubSeq(outbuf, 1, Len(outbuf)) /\ o.err = "ARGUMENT"
    BY <1>3 DEF Drained
  <2>2. o.out = <<>> /\ o.in \o o.out = inbox \o outbuf
    <3>1. SubSeq(outbuf, Len(outbuf) + 1, Len(outbuf)) = <<>>
      BY <1>0, WrittenPart
    <3>2. (inbox \o SubSeq(outbuf, 1, Len(outbuf))) \o SubSeq(outbuf, Len(outbuf) + 1, Len(outbuf))
            = inbox \o outbuf
      BY <1>0, WrittenPart
    <3> QED BY <2>1, <3>1, <3>2, Zenon
  <2>3. o.in \o o.out = queue
    BY <2>2 DEF queue
  <2>4. Defined(o.err) /\ long
    BY <1>3, <2>1 DEF Defined
  <2> QED BY <2>1, <2>2, <2>3, <2>4, Zenon
<1>4. CASE /\ ~Defined(asyncError)
           /\ \E k \in 0 .. Len(outbuf) :
                o = [out |-> Append(SubSeq(outbuf, k + 1, Len(outbuf)), r),
                     in |-> inbox \o SubSeq(outbuf, 1, k), err |-> "SUCCESS"]
  <2>1. PICK k \in 0 .. Len(outbuf) :
                o = [out |-> Append(SubSeq(outbuf, k + 1, Len(outbuf)), r),
                     in |-> inbox \o SubSeq(outbuf, 1, k), err |-> "SUCCESS"]
    BY <1>4
  <2> DEFINE a == inbox \o SubSeq(outbuf, 1, k)
             b == SubSeq(outbuf, k + 1, Len(outbuf))
  <2>2. o.out = Append(b, r) /\ o.in = a /\ o.err = "SUCCESS"
    BY <2>1
  <2>3. a \in Seq(Request) /\ b \in Seq(Request) /\ a \o b = queue
    BY <1>0, WrittenPart, ConcatProperties DEF queue
  <2> HIDE DEF a, b
  <2>4. <<r>> \in Seq(Request) /\ queue \in Seq(Request)
    BY <1>0, ConcatProperties DEF queue
  <2>5. Append(b, r) = b \o <<r>> /\ Append(queue, r) = queue \o <<r>>
    BY <2>3, <2>4, AppendIsConcat
  <2>6. a \o Append(b, r) = Append(queue, r)
    <3>1. (a \o b) \o <<r>> = a \o (b \o <<r>>)
      <4>1. a \in Seq(Request) /\ b \in Seq(Request) /\ <<r>> \in Seq(Request)
        BY <2>3, <2>4, Zenon
      <4> QED BY <4>1, Regrouped, Zenon
    <3>2. a \o Append(b, r) = (a \o b) \o <<r>>
      BY <2>5, <3>1, Zenon
    <3>3. (a \o b) \o <<r>> = Append(queue, r)
      BY <2>3, <2>5, Zenon
    <3> QED BY <3>2, <3>3, Zenon
  <2> QED BY <1>4, <2>2, <2>6 DEF Defined
<1> QED BY <1>1, <1>2, <1>3, <1>4 DEF Enqueues

LEMMA SendsKeep ==
    ASSUME TypeOK, AsyncErrorKinds, NEW r \in Request, NEW long \in BOOLEAN,
           NEW flush \in BOOLEAN, NEW o \in Sends(r, long, flush)
    PROVE  /\ ~Defined(o.err) => /\ o.in \o o.out = Append(queue, r) /\ ~Defined(asyncError)
                                 /\ flush => o.out = <<>>
           /\ Defined(o.err) =>
                \/ Lost(o.err)
                \/ /\ o.err = "ARGUMENT" /\ o.in \o o.out = queue
                   /\ outbuf = <<>> => o.out = <<>>
                   /\ long \/ asyncError = "ARGUMENT"
<1>1. CASE o \in Enqueues(r, long) /\ (Defined(o.err) \/ ~flush)
  BY <1>1, EnqueuesKeep
<1>2. CASE flush /\ \E x \in Enqueues(r, long) : ~Defined(x.err) /\ o \in Flushes(x.out, x.in)
  <2>1. PICK x \in Enqueues(r, long) : ~Defined(x.err) /\ o \in Flushes(x.out, x.in)
    BY <1>2
  <2>2. x.in \o x.out = Append(queue, r) /\ ~Defined(asyncError)
    BY <2>1, EnqueuesKeep
  <2>3. x.out \in Seq(Request) /\ x.in \in Seq(Request)
    BY EnqueuesType
  <2>4. asyncError # "ARGUMENT"
    BY <2>2 DEF Defined
  <2> QED BY <2>1, <2>2, <2>3, <2>4, FlushesKeep
<1> QED BY <1>1, <1>2 DEF Sends

(***************************************************************************)
(* The steps of the client.                                                *)
(***************************************************************************)
\* what is known before a step
Steady ==
    /\ TypeOK /\ AsyncErrorKinds /\ FlushedBeforeReceiving
    /\ StaysInStep /\ NoAssertFails

\* A call that changes no more than an error or what is to be read again.
LEMMA QuietCalls ==
    ASSUME Steady, TypeOK', Alike(conn, conn'), conn'.asserts = conn.asserts,
           UNCHANGED <<asyncError, outbuf, inbox, server, wire, awaiting, sent>>,
           call # "freed", call' # "freed",
           Lost(conn.error) => Lost(conn'.error),
           ~Lost(conn'.error) => PairFits(conn', awaiting) /\ NullFits(conn', result'),
           LoopsRight'
    PROVE  StaysInStep' /\ NoAssertFails'
<1>1. NoAssertFails'
  BY DEF Steady, NoAssertFails
<1>2. queue' = queue
  BY DEF queue
<1>3. ASSUME ~Lost(conn'.error)
      PROVE  /\ Fit(conn', awaiting', queue', server', wire')
             /\ HeldBack' /\ PairFits(conn', awaiting') /\ NullFits(conn', result')
  <2>1. Fit(conn, awaiting, queue, server, wire) /\ HeldBack
    BY <1>3 DEF Steady, StaysInStep
  <2>2. Fit(conn', awaiting, queue, server, wire)
    BY <2>1, AlikeFits
  <2>3. HeldBack'
    BY <2>1 DEF HeldBack, Alike, Last
  <2> QED BY <1>2, <1>3, <2>2, <2>3
<1> QED BY <1>1, <1>3 DEF StaysInStep

\* A call that is refused before it does anything.
LEMMA Refusals ==
    ASSUME Steady, TypeOK', Idle, NEW c, Refused(c), Alike(conn, c),
           c.asserts = conn.asserts, c.pairState = conn.pairState, c.pair = conn.pair,
           Lost(conn.error) => Lost(c.error)
    PROVE  StaysInStep' /\ NoAssertFails'
<1>1. /\ conn' = c /\ result' = "false" /\ call' = call
      /\ UNCHANGED <<asyncError, outbuf, inbox, server, wire, awaiting, sent>>
  BY DEF Refused, environment, history
<1>2. call # "freed" /\ call' # "freed"
  BY <1>1 DEF Idle
<1>3. LoopsRight'
  BY <1>1 DEF LoopsRight, Idle
<1>4. ASSUME ~Lost(c.error) PROVE PairFits(c, awaiting) /\ NullFits(c, "false")
  <2>1. PairFits(conn, awaiting) /\ NullFits(conn, result)
    BY <1>4 DEF Steady, StaysInStep
  <2> QED BY <2>1 DEF PairFits, NullFits, Alike, Discrete
<1> QED BY <1>1, <1>2, <1>3, <1>4, QuietCalls

\* ... with an error, where there was none.
LEMMA RefusedWith ==
    ASSUME Steady, TypeOK', Idle, ~Defined(conn.error), NEW e, Refused(SetError(conn, e))
    PROVE  StaysInStep' /\ NoAssertFails'
<1> DEFINE c == [conn EXCEPT !.error = e, !.asserts = @ \/ Defined(conn.error)]
<1>1. Refused(c)
  BY DEF SetError
<1>2. conn \in Connection /\ ~Lost(conn.error)
  BY DEF Steady, TypeOK, Lost, Fatal, Defined
<1>3. /\ Alike(conn, c) /\ c.pairState = conn.pairState /\ c.pair = conn.pair
      /\ c.asserts = conn.asserts
  BY <1>2 DEF Alike, Connection
<1> HIDE DEF c
<1> QED BY <1>1, <1>2, <1>3, Refusals

LEMMA RefusedAsIs ==
    ASSUME Steady, TypeOK', Idle, Refused(conn)
    PROVE  StaysInStep' /\ NoAssertFails'
<1>1. Alike(conn, conn)
  BY DEF Alike
<1> QED BY <1>1, Refusals

\* The functions that are refused whatever the connection is up to.
LEMMA RefusalSteps ==
    ASSUME Careless = {}, Steady, TypeOK',
           BadArgument \/ OutOfTurn \/ OutOfMemory \/ Declined
    PROVE  StaysInStep' /\ NoAssertFails'
BY RefusedWith, RefusedAsIs
   DEF BadArgument, OutOfTurn, OutOfMemory, Declined, ChecksErrors

\* mpd_return_pair() and mpd_enqueue_pair().
LEMMA PairSteps ==
    ASSUME Steady, TypeOK', ReturnPair \/ EnqueuePair \/ EnqueueNull
    PROVE  StaysInStep' /\ NoAssertFails'
<1>1. conn \in Connection
  BY DEF Steady, TypeOK
<1>2. /\ call = "none" /\ call' = call /\ result' = "none"
      /\ UNCHANGED <<asyncError, outbuf, inbox, server, wire, awaiting, sent>>
  BY DEF ReturnPair, EnqueuePair, EnqueueNull, environment, history, Idle
<1>3. PICK p \in PairStates :
         /\ conn' = [conn EXCEPT !.pairState = p]
         /\ p = "QUEUED" => conn.pairState = "FLOATING"
         /\ p = "NULL" => result = "end"
         /\ p # "FLOATING"
  BY DEF ReturnPair, EnqueuePair, EnqueueNull, PairStates
<1>4. /\ Alike(conn, conn') /\ conn'.pairState = p /\ conn'.pair = conn.pair
      /\ conn'.asserts = conn.asserts /\ conn'.error = conn.error
  BY <1>1, <1>3 DEF Alike, Connection
<1>5. LoopsRight'
  BY <1>2 DEF LoopsRight
<1>6. ASSUME ~Lost(conn'.error) PROVE PairFits(conn', awaiting) /\ NullFits(conn', result')
  <2>1. PairFits(conn, awaiting) /\ NullFits(conn, result)
    BY <1>4, <1>6 DEF Steady, StaysInStep
  <2> QED BY <1>2, <1>3, <1>4, <2>1 DEF PairFits, NullFits, Alike, Discrete
<1> QED BY <1>2, <1>4, <1>5, <1>6, QuietCalls

\* mpd_connection_clear_error().
LEMMA ClearErrorStep ==
    ASSUME Steady, TypeOK', ClearError
    PROVE  StaysInStep' /\ NoAssertFails'
<1>1. conn \in Connection
  BY DEF Steady, TypeOK
<1>2. /\ call = "none" /\ call' = call /\ result' \in {"true", "false"}
      /\ UNCHANGED <<asyncError, outbuf, inbox, server, wire, awaiting, sent>>
      /\ conn' = Cleared(conn)
  BY DEF ClearError, environment, history, Idle, Succeeded
<1>3. /\ Alike(conn, conn') /\ conn'.pairState = conn.pairState /\ conn'.pair = conn.pair
      /\ conn'.asserts = conn.asserts /\ (Lost(conn.error) <=> Lost(conn'.error))
  BY <1>1, <1>2 DEF Alike, Connection, Cleared, Lost, Fatal
<1>4. LoopsRight'
  BY <1>2 DEF LoopsRight
<1>5. ASSUME ~Lost(conn'.error) PROVE PairFits(conn', awaiting) /\ NullFits(conn', result')
  <2>1. PairFits(conn, awaiting) /\ NullFits(conn, result)
    BY <1>3, <1>5 DEF Steady, StaysInStep
  <2> QED BY <1>2, <1>3, <2>1 DEF PairFits, NullFits, Alike, Discrete
<1> QED BY <1>2, <1>3, <1>4, <1>5, QuietCalls

\* mpd_response_finish() before and after its loop.
LEMMA FinishCalls ==
    ASSUME Steady, TypeOK', ResponseFinish \/ FinishReturns
    PROVE  StaysInStep' /\ NoAssertFails'
<1>1. conn \in Connection
  BY DEF Steady, TypeOK
<1>2. CASE ResponseFinish /\ Defined(conn.error)
  BY <1>2, RefusedAsIs DEF ResponseFinish
<1>3. CASE ResponseFinish /\ ~Defined(conn.error)
  <2>1. /\ call = "none" /\ call' = "finish" /\ result' = "none"
        /\ UNCHANGED <<asyncError, outbuf, inbox, server, wire, awaiting, sent>>
        /\ conn' = Finishing(conn) /\ conn.pairState # "FLOATING"
    BY <1>3 DEF ResponseFinish, environment, history, Idle
  <2>2. /\ Alike(conn, conn') /\ conn'.pairState \in {"NONE", "QUEUED"} /\ conn'.pair = conn.pair
        /\ conn'.pairState = "QUEUED" => conn.pairState = "QUEUED"
        /\ conn'.asserts = conn.asserts /\ conn'.error = conn.error
    BY <1>1, <2>1 DEF Alike, Connection, Finishing, PairStates
  <2>3. LoopsRight'
    BY <1>3, <2>1, <2>2 DEF LoopsRight
  <2>4. ASSUME ~Lost(conn'.error) PROVE PairFits(conn', awaiting) /\ NullFits(conn', result')
    <3>1. PairFits(conn, awaiting)
      BY <2>2, <2>4 DEF Steady, StaysInStep
    <3> QED BY <2>1, <2>2, <3>1 DEF PairFits, NullFits, Alike
  <2> QED BY <2>1, <2>2, <2>3, <2>4, QuietCalls
<1>4. CASE FinishReturns
  <2>1. /\ call = "finish" /\ call' = "none" /\ result' \in {"true", "false"}
        /\ UNCHANGED <<conn, asyncError, outbuf, inbox, server, wire, awaiting, sent>>
    BY <1>4 DEF FinishReturns, environment, history, Succeeded
  <2>2. Alike(conn, conn')
    BY <2>1 DEF Alike
  <2>3. LoopsRight'
    BY <2>1 DEF LoopsRight
  <2>4. ASSUME ~Lost(conn'.error) PROVE PairFits(conn', awaiting) /\ NullFits(conn', result')
    BY <2>1, <2>4 DEF Steady, StaysInStep, PairFits, NullFits
  <2> QED BY <2>1, <2>2, <2>3, <2>4, QuietCalls
<1> QED BY <1>2, <1>3, <1>4

\* mpd_response_next() up to its loop.
LEMMA ResponseNextStep ==
    ASSUME Careless = {}, Steady, TypeOK', ResponseNext
    PROVE  StaysInStep' /\ NoAssertFails'
<1>1. conn \in Connection /\ awaiting \in Seq(Request)
  BY DEF Steady, TypeOK
<1>2. CASE Defined(conn.error)
  BY <1>2, RefusedAsIs DEF ResponseNext
<1>3. CASE ~Defined(conn.error) /\ (~conn.receiving \/ ~conn.sendingListOk)
  BY <1>3, RefusedWith DEF ResponseNext
<1>4. CASE ~Defined(conn.error) /\ conn.receiving /\ conn.sendingListOk
  <2>1. /\ call = "none" /\ call' = "next" /\ result' = "none"
        /\ UNCHANGED <<conn, asyncError, outbuf, inbox, server, wire, awaiting, sent>>
        /\ conn.pairState = "NONE" /\ Len(awaiting) > 1
    BY <1>4 DEF ResponseNext, environment, history, Idle, NothingUnread, HasNext
  <2>2. Alike(conn, conn')
    BY <2>1 DEF Alike
  <2>3. Fit(conn, awaiting, queue, server, wire) /\ PairFits(conn, awaiting)
    BY <1>4, <2>1 DEF Steady, StaysInStep, Lost, Fatal, Defined
  <2>4. conn.sendingList
    <3>1. ASSUME ~conn.sendingList PROVE FALSE
      <4>1. SentOne(awaiting)
        BY <1>4, <2>3, <3>1 DEF Fit
      <4>2. Len(awaiting) = 1
        BY <4>1 DEF SentOne
      <4> QED BY <2>1, <4>2
    <3> QED BY <3>1
  <2>5. LoopsRight'
    BY <1>4, <2>1, <2>4 DEF LoopsRight, Discrete
  <2>6. NullFits(conn', result')
    BY <2>1 DEF NullFits
  <2> QED BY <2>1, <2>2, <2>3, <2>5, <2>6, QuietCalls
<1> QED BY <1>2, <1>3, <1>4

(***************************************************************************)
(* The steps that receive.                                                 *)
(***************************************************************************)
LEMMA ReturnedAlike ==
    ASSUME NEW d \in Connection
    PROVE  /\ Alike(d, Returned(d)) /\ Returned(d).error = d.error
           /\ Returned(d).asserts = d.asserts /\ Returned(d).pair = d.pair
           /\ Returned(d).pairState = IF d.pairState = "FLOATING" THEN "NONE" ELSE d.pairState
BY DEF Alike, Returned, Connection

\* A step that receives keeps client and server in step: the client had the
\* connection c when it called mpd_recv_pair(), and returned the pair or not.
LEMMA ReadKeeps ==
    ASSUME Steady, TypeOK', NEW c, NEW aw, NEW o, ReadWell(c, aw, o),
           c.receiving = conn.receiving, c.sendingList = conn.sendingList,
           c.asserts = conn.asserts, ~conn.receiving => aw = awaiting,
           ~Lost(conn.error), call # "freed", call' # "freed",
           Alike(o.conn, conn'), conn'.error = o.conn.error,
           conn'.asserts = o.conn.asserts, conn'.pair = o.conn.pair,
           conn'.pairState \in {o.conn.pairState, "NONE"},
           Took(o), awaiting' = Left(c, aw, o), UNCHANGED <<outbuf, inbox, server, sent>>,
           result' = "end" => o.conn.pairState = "NONE",
           LoopsRight'
    PROVE  StaysInStep' /\ NoAssertFails'
<1>1. NoAssertFails'
  BY DEF Steady, NoAssertFails, ReadWell
<1>2. queue' = queue /\ wire' = o.wire
  BY DEF queue, Took
<1>3. ASSUME ~Lost(conn'.error)
      PROVE  /\ Fit(conn', awaiting', queue', server', wire')
             /\ HeldBack' /\ PairFits(conn', awaiting') /\ NullFits(conn', result')
  <2>1. Fit(o.conn, awaiting', queue, server, wire') /\ PairFits(o.conn, awaiting')
    BY <1>2, <1>3 DEF ReadWell
  <2>2. Fit(conn', awaiting', queue, server, wire')
    BY <2>1, AlikeFits
  <2>3. PairFits(conn', awaiting')
    BY <2>1 DEF PairFits, Alike
  <2>4. NullFits(conn', result')
    <3>1. ASSUME conn'.pairState = "NULL" \/ result' = "end", conn'.receiving
          PROVE  Discrete(conn') /\ conn'.discreteFinished
      <4>1. o.conn.receiving /\ o.conn.pairState = "NONE"
        BY <3>1 DEF Alike, ReadWell
      <4>2. Discrete(o.conn) /\ o.conn.discreteFinished
        BY <1>3, <4>1 DEF ReadWell
      <4> QED BY <4>2 DEF Discrete, Alike
    <3> QED BY <3>1 DEF NullFits
  <2>5. HeldBack'
    <3>1. CASE conn.receiving
      <4>1. outbuf' = <<>>
        BY <3>1 DEF Steady, FlushedBeforeReceiving
      <4>2. ~conn'.receiving => awaiting' = <<>>
        BY <3>1 DEF Left, Alike
      <4> QED BY <4>1, <4>2 DEF HeldBack
    <3>2. CASE ~conn.receiving
      <4>1. conn'.sendingList = conn.sendingList /\ asyncError' = asyncError
        BY <3>2 DEF ReadWell, Alike, Took
      <4>2. awaiting' = awaiting
        BY <3>2 DEF Left
      <4>3. HeldBack
        BY DEF Steady, StaysInStep
      <4> QED BY <3>2, <4>1, <4>2, <4>3 DEF HeldBack, Last
    <3> QED BY <3>1, <3>2
  <2> QED BY <1>2, <2>2, <2>3, <2>4, <2>5
<1> QED BY <1>1, <1>3 DEF StaysInStep

\* What mpd_recv_pair() finds and leaves when there is no error yet.
LEMMA ReadsWell ==
    ASSUME Steady, ~Defined(conn.error), call # "freed", conn.pairState # "FLOATING",
           NEW o \in RecvPairs(conn)
    PROVE  /\ ReadWell(conn, awaiting, o) /\ o.conn \in Connection
           /\ Fit(conn, awaiting, queue, server, wire)
           /\ ~Lost(conn.error)
<1>1. ~Lost(conn.error)
  BY DEF Lost, Fatal, Defined
<1>2. /\ Fit(conn, awaiting, queue, server, wire) /\ PairFits(conn, awaiting)
      /\ NullFits(conn, result)
  BY <1>1 DEF Steady, StaysInStep
<1>3. conn \in Connection /\ awaiting \in Seq(Request)
  BY DEF Steady, TypeOK
<1>4. conn.pairState = "NULL" /\ conn.receiving => Discrete(conn) /\ conn.discreteFinished
  BY <1>2 DEF NullFits
<1>5. ReadWell(conn, awaiting, o)
  BY <1>2, <1>3, <1>4, ReadFits DEF Steady
<1>6. o.conn \in Connection
  BY <1>3, RecvPairsType DEF Steady
<1> QED BY <1>1, <1>2, <1>5, <1>6

\* A read after an error changes nothing.
LEMMA ReadsNothing ==
    ASSUME Steady, TypeOK', Defined(conn.error), call # "freed", NEW o \in RecvPairs(conn),
           conn' = o.conn, Took(o), result' = Received(o.conn), call' = "none",
           awaiting' = Outstanding(conn, o.conn), UNCHANGED <<outbuf, inbox, server, sent>>
    PROVE  StaysInStep' /\ NoAssertFails'
<1>1. o = Answer(conn)
  BY DEF RecvPairs
<1>2. /\ conn' = conn /\ wire' = wire /\ asyncError' = asyncError /\ awaiting' = awaiting
      /\ result' = "error"
  BY <1>1 DEF Answer, Took, Outstanding, Received
<1>3. Alike(conn, conn')
  BY <1>2 DEF Alike
<1>4. LoopsRight'
  BY <1>2 DEF LoopsRight
<1>5. ASSUME ~Lost(conn'.error) PROVE PairFits(conn', awaiting) /\ NullFits(conn', result')
  <2>1. PairFits(conn, awaiting) /\ NullFits(conn, result)
    BY <1>2, <1>5 DEF Steady, StaysInStep
  <2> QED BY <1>2, <2>1 DEF NullFits
<1> QED BY <1>2, <1>3, <1>4, <1>5, QuietCalls

\* mpd_recv_pair()
LEMMA RecvPairStep ==
    ASSUME Steady, TypeOK', RecvPair
    PROVE  StaysInStep' /\ NoAssertFails'
<1>1. PICK o \in RecvPairs(conn) :
        /\ conn' = o.conn /\ Took(o) /\ result' = Received(o.conn)
        /\ awaiting' = Outstanding(conn, o.conn)
  BY DEF RecvPair
<1>2. /\ call = "none" /\ call' = "none" /\ conn.pairState # "FLOATING"
      /\ UNCHANGED <<outbuf, inbox, server, sent>>
  BY DEF RecvPair, Idle
<1>3. CASE Defined(conn.error)
  BY <1>1, <1>2, <1>3, ReadsNothing
<1>4. CASE ~Defined(conn.error)
  <2>1. ReadWell(conn, awaiting, o) /\ ~Lost(conn.error)
    BY <1>2, <1>4, ReadsWell
  <2>2. Alike(o.conn, conn')
    BY <1>1 DEF Alike
  <2>3. LoopsRight'
    BY <1>1, <1>2 DEF LoopsRight, Received
  <2>4. result' = "end" => o.conn.pairState = "NONE"
    BY <1>1, <2>1 DEF ReadWell, Received
  <2>5. awaiting' = Left(conn, awaiting, o)
    BY <1>1 DEF Outstanding, Left
  <2> QED BY <1>1, <1>2, <2>1, <2>2, <2>3, <2>4, <2>5, ReadKeeps
<1> QED BY <1>3, <1>4

\* mpd_recv_idle() receives an event ...
LEMMA RecvIdleGoesOn ==
    ASSUME Steady, TypeOK', RecvIdleStep
    PROVE  StaysInStep' /\ NoAssertFails'
<1>1. PICK o \in RecvPairs(conn) :
        o.conn.pairState = "FLOATING" /\ conn' = Returned(o.conn) /\ Took(o)
  BY DEF RecvIdleStep
<1>2. /\ call \in {"recv_idle", "run_idle"} /\ call' = call /\ result' = result
      /\ UNCHANGED <<outbuf, inbox, server, awaiting, sent>>
  BY DEF RecvIdleStep, history
<1>3. conn.pairState # "FLOATING" /\ result # "end" /\ (call = "run_idle" => ~conn.sendingList)
  BY <1>2 DEF Steady, StaysInStep, LoopsRight
<1>4. ~Defined(conn.error)
  BY <1>1, <1>3 DEF RecvPairs, Answer
<1>5. ReadWell(conn, awaiting, o) /\ ~Lost(conn.error) /\ o.conn \in Connection
  BY <1>2, <1>3, <1>4, ReadsWell
<1>6. /\ Alike(o.conn, conn') /\ conn'.error = o.conn.error /\ conn'.asserts = o.conn.asserts
      /\ conn'.pair = o.conn.pair /\ conn'.pairState = "NONE"
  BY <1>1, <1>5, ReturnedAlike
<1>7. ~(conn.receiving /\ ~o.conn.receiving)
  BY <1>1, <1>5 DEF ReadWell
<1>8. awaiting' = Left(conn, awaiting, o)
  BY <1>2, <1>7 DEF Left
<1>9. call = "run_idle" => ~conn'.sendingList
  BY <1>3, <1>5, <1>6, <1>7 DEF ReadWell, Alike
<1>10. LoopsRight'
  BY <1>2, <1>3, <1>6, <1>9 DEF LoopsRight
<1> QED BY <1>1, <1>2, <1>3, <1>5, <1>6, <1>8, <1>10, ReadKeeps

\* ... or the end of the response, or an error.
LEMMA RecvIdleEnds ==
    ASSUME Steady, TypeOK', RecvIdleReturns
    PROVE  StaysInStep' /\ NoAssertFails'
<1>1. PICK o \in RecvPairs(conn) :
        /\ o.conn.pairState # "FLOATING" /\ conn' = o.conn /\ Took(o)
        /\ awaiting' = Outstanding(conn, o.conn) /\ result' = Received(o.conn)
        /\ call' = IF call = "run_idle" /\ ~Defined(o.conn.error) THEN "finish" ELSE "none"
  BY DEF RecvIdleReturns
<1>2. call \in {"recv_idle", "run_idle"} /\ UNCHANGED <<outbuf, inbox, server, sent>>
  BY DEF RecvIdleReturns
<1>3. conn.pairState # "FLOATING" /\ (call = "run_idle" => ~conn.sendingList)
  BY <1>2 DEF Steady, StaysInStep, LoopsRight
<1>4. CASE Defined(conn.error)
  <2>1. o.conn = conn
    BY <1>4 DEF RecvPairs, Answer
  <2>2. call' = "none"
    BY <1>1, <1>4, <2>1
  <2> QED BY <1>1, <1>2, <1>4, <2>2, ReadsNothing
<1>5. CASE ~Defined(conn.error)
  <2>1. ReadWell(conn, awaiting, o) /\ ~Lost(conn.error)
    BY <1>2, <1>3, <1>5, ReadsWell
  <2>2. Alike(o.conn, conn') /\ o.conn.pairState = "NONE"
    BY <1>1, <2>1 DEF Alike, ReadWell
  <2>3. ASSUME call = "run_idle", ~Defined(o.conn.error) PROVE ~o.conn.receiving
    <3>1. ASSUME o.conn.receiving PROVE FALSE
      <4>1. ~Lost(o.conn.error)
        BY <2>3 DEF Lost, Fatal, Defined
      <4>2. o.conn.sendingList /\ o.conn.sendingList = conn.sendingList
        BY <2>1, <2>2, <3>1, <4>1 DEF ReadWell, Discrete
      <4> QED BY <1>3, <2>3, <4>2
    <3> QED BY <3>1
  <2>4. LoopsRight'
    BY <1>1, <2>2, <2>3 DEF LoopsRight, Received
  <2>5. awaiting' = Left(conn, awaiting, o)
    BY <1>1 DEF Outstanding, Left
  <2>6. call' # "freed"
    BY <1>1
  <2> QED BY <1>1, <1>2, <2>1, <2>2, <2>4, <2>5, <2>6, ReadKeeps
<1> QED BY <1>4, <1>5

\* One iteration of the loop of mpd_response_next().
LEMMA NextGoesOn ==
    ASSUME Steady, TypeOK', NextStep
    PROVE  StaysInStep' /\ NoAssertFails'
<1>1. PICK o \in RecvPairs(conn) :
        /\ conn' = Returned(o.conn) /\ Took(o) /\ awaiting' = Outstanding(conn, o.conn)
        /\ IF Defined(o.conn.error) THEN call' = "none" /\ result' = "false"
           ELSE call' = call /\ result' = result
  BY DEF NextStep
<1>2. /\ call = "next" /\ UNCHANGED <<outbuf, inbox, server, sent>>
      /\ ~conn.discreteFinished /\ conn.receiving
  BY DEF NextStep, NextLoops
<1>3. /\ conn.pairState = "NONE" /\ ~Defined(conn.error) /\ Discrete(conn)
      /\ Len(awaiting) > 1 /\ result # "end"
  BY <1>2 DEF Steady, StaysInStep, LoopsRight
<1>4. /\ ReadWell(conn, awaiting, o) /\ ~Lost(conn.error) /\ o.conn \in Connection
      /\ Fit(conn, awaiting, queue, server, wire)
  BY <1>2, <1>3, ReadsWell
<1>5. /\ Alike(o.conn, conn') /\ conn'.error = o.conn.error /\ conn'.asserts = o.conn.asserts
      /\ conn'.pair = o.conn.pair /\ conn'.pairState = "NONE"
  BY <1>1, <1>4, ReturnedAlike DEF ReadWell
<1>6. awaiting' = Left(conn, awaiting, o)
  BY <1>1 DEF Outstanding, Left
<1>7. ASSUME ~Defined(o.conn.error) PROVE o.conn.receiving
  <2>1. ASSUME ~o.conn.receiving PROVE FALSE
    <3>1. First(conn, awaiting) = Last(awaiting)
      BY <1>2, <1>4, <1>7, <2>1 DEF ReadWell
    <3>2. First(conn, awaiting) = awaiting[1].id
      BY <1>2 DEF First
    <3>3. awaiting \in Seq(Request) /\ awaiting # <<>> /\ Numbered(awaiting)
      BY <1>2, <1>3, <1>4, EmptySeq DEF Steady, TypeOK, Fit
    <3>4. /\ Len(awaiting) \in Nat /\ awaiting[1].id \in Nat
          /\ awaiting[Len(awaiting)].id = awaiting[1].id + Len(awaiting) - 1
      BY <3>3, NumbersOf DEF Steady, TypeOK, Last
    <3>5. awaiting[Len(awaiting)].id = awaiting[1].id
      BY <3>1, <3>2 DEF Last
    <3> QED BY <1>3, <3>4, <3>5
  <2> QED BY <2>1
<1>8. LoopsRight'
  <2>1. CASE Defined(o.conn.error)
    BY <1>1, <2>1 DEF LoopsRight
  <2>2. CASE ~Defined(o.conn.error)
    <3>1. call' = "next" /\ result' = result /\ o.conn.receiving /\ awaiting' = awaiting
      BY <1>1, <1>2, <1>6, <1>7, <2>2 DEF Left
    <3>2. conn'.receiving /\ Discrete(conn')
      BY <1>3, <1>4, <1>5, <3>1 DEF ReadWell, Alike, Discrete
    <3> QED BY <1>3, <1>5, <2>2, <3>1, <3>2 DEF LoopsRight
  <2> QED BY <2>1, <2>2
<1>9. call' # "freed" /\ result' # "end"
  BY <1>1, <1>2, <1>3
<1> QED BY <1>1, <1>2, <1>4, <1>5, <1>6, <1>8, <1>9, ReadKeeps

\* One iteration of the loop of mpd_response_finish(): it makes progress, as its
\* assertion says.
LEMMA FinishGoesOn ==
    ASSUME Steady, TypeOK', FinishStep
    PROVE  StaysInStep' /\ NoAssertFails'
<1> DEFINE entered == [conn EXCEPT !.discreteFinished = FALSE,
                                   !.asserts = @ \/ Defined(conn.error)]
           leaves == conn.sendingList /\ conn.discreteFinished
           aw == IF leaves THEN Following ELSE awaiting
           Progress(d) == \/ d.pairState = "FLOATING"
                          \/ ~d.receiving
                          \/ d.sendingList /\ d.discreteFinished
                          \/ Defined(d.error)
<1>1. PICK o \in RecvPairs(entered) :
        /\ conn' = [Returned(o.conn) EXCEPT !.asserts = @ \/ ~Progress(o.conn)]
        /\ Took(o)
        /\ awaiting' = IF ~o.conn.receiving THEN <<>> ELSE aw
  BY DEF FinishStep
<1>2. /\ call = "finish" /\ call' = call /\ result' = result /\ conn.receiving
      /\ UNCHANGED <<outbuf, inbox, server, sent>>
  BY DEF FinishStep
<1>3. ~Defined(conn.error) /\ conn.pairState \in {"NONE", "QUEUED"} /\ result # "end"
  BY <1>2 DEF Steady, StaysInStep, LoopsRight
<1>4. ~Lost(conn.error)
  BY <1>3 DEF Lost, Fatal, Defined
<1>5. /\ Fit(conn, awaiting, queue, server, wire) /\ PairFits(conn, awaiting)
  BY <1>2, <1>4 DEF Steady, StaysInStep
<1>6. /\ conn \in Connection /\ awaiting \in Seq(Request) /\ queue \in Seq(Request)
      /\ wire \in Seq(Line)
  BY ConcatProperties DEF Steady, TypeOK, queue
<1>7. /\ entered \in Connection /\ entered.receiving /\ entered.sendingList = conn.sendingList
      /\ entered.sendingListOk = conn.sendingListOk /\ entered.remaining = conn.remaining
      /\ ~entered.discreteFinished /\ entered.asserts = conn.asserts
      /\ entered.error = conn.error /\ entered.pairState = conn.pairState
      /\ entered.pair = conn.pair
  BY <1>2, <1>3, <1>6 DEF Connection, Defined
<1> HIDE DEF entered
<1>8. Fit(entered, aw, queue, server, wire) /\ PairFits(entered, aw) /\ aw \in Seq(Request)
  <2>1. CASE leaves
    <3>1. SentList(conn, awaiting)
      BY <1>2, <1>5, <2>1 DEF Fit
    <3>2. Discrete(conn) /\ Discrete(entered)
      BY <1>7, <2>1, <3>1 DEF SentList, Discrete
    <3>3. Fit(entered, SubSeq(awaiting, 2, Len(awaiting)), queue, server, wire)
      BY <1>2, <1>5, <1>6, <1>7, <2>1, <3>2, LeavingFits
    <3>4. conn.pairState = "NONE"
      BY <1>3, <1>5, <2>1 DEF PairFits
    <3> QED BY <1>7, <2>1, <3>3, <3>4, HistoryType DEF Following, PairFits, Steady
  <2>2. CASE ~leaves
    <3>1. Alike(conn, entered)
      <4>1. /\ conn.discreteFinished \in BOOLEAN /\ entered.discreteFinished = FALSE
            /\ conn.receiving = TRUE /\ entered.receiving = TRUE
        BY <1>2, <1>6, <1>7 DEF Connection
      <4> QED BY <1>7, <2>2, <4>1 DEF Alike
    <3>2. Fit(entered, awaiting, queue, server, wire)
      BY <1>5, <3>1, AlikeFits
    <3>3. PairFits(entered, awaiting)
      BY <1>5, <1>7 DEF PairFits
    <3> QED BY <1>6, <2>2, <3>2, <3>3
  <2> QED BY <2>1, <2>2
<1> HIDE DEF aw, leaves
<1>9. o.conn \in Connection
  BY <1>7, RecvPairsType DEF Steady
<1>10. ReadWell(entered, aw, o)
  <2>1. ~Defined(entered.error) /\ entered.pairState # "FLOATING" /\ entered.pairState # "NULL"
    BY <1>3, <1>7
  <2> QED BY <1>2, <1>7, <1>8, <2>1, ReadFits DEF Steady
<1>11. Progress(o.conn)
  <2>1. ASSUME o.conn.receiving, o.conn.pairState # "FLOATING", ~Defined(o.conn.error)
        PROVE  o.conn.sendingList /\ o.conn.discreteFinished
    <3>1. ~Lost(o.conn.error)
      BY <2>1 DEF Lost, Fatal, Defined
    <3> QED BY <1>10, <2>1, <3>1 DEF ReadWell, Discrete
  <2> QED BY <2>1
<1>12. /\ Alike(o.conn, Returned(o.conn)) /\ Returned(o.conn).error = o.conn.error
       /\ Returned(o.conn).asserts = o.conn.asserts /\ Returned(o.conn).pair = o.conn.pair
       /\ Returned(o.conn).pairState = "NONE" /\ Returned(o.conn) \in Connection
  BY <1>9, <1>10, ReturnedAlike, ConnectionType DEF ReadWell
<1> DEFINE r == Returned(o.conn)
<1> HIDE DEF r
<1>13. conn' = [r EXCEPT !.asserts = @ \/ FALSE]
  BY <1>1, <1>11 DEF r
<1>14. /\ Alike(o.conn, conn') /\ conn'.error = o.conn.error /\ conn'.asserts = o.conn.asserts
       /\ conn'.pair = o.conn.pair /\ conn'.pairState = "NONE"
  <2>1. /\ Alike(o.conn, r) /\ r.error = o.conn.error /\ r.asserts = o.conn.asserts
        /\ r.pair = o.conn.pair /\ r.pairState = "NONE" /\ r \in Connection
    BY <1>12 DEF r
  <2> QED BY <1>13, <2>1 DEF Alike, Connection
<1>15. LoopsRight'
  <2>1. ASSUME o.conn.receiving PROVE ~Defined(o.conn.error)
    <3>1. ~AlreadyDone(entered)
      BY <1>7 DEF AlreadyDone
    <3> QED BY <1>10, <2>1, <3>1 DEF ReadWell
  <2>2. conn'.receiving => ~Defined(conn'.error)
    BY <1>14, <2>1 DEF Alike
  <2> QED BY <1>2, <1>3, <1>14, <2>2 DEF LoopsRight
<1>16. awaiting' = Left(entered, aw, o)
  BY <1>1, <1>7 DEF Left
<1>17. /\ entered.receiving = conn.receiving /\ call # "freed" /\ call' # "freed"
       /\ result' # "end" /\ (~conn.receiving => aw = awaiting)
  BY <1>2, <1>3, <1>6, <1>7 DEF Connection
<1> QED BY <1>1, <1>2, <1>4, <1>7, <1>10, <1>14, <1>15, <1>16, <1>17, ReadKeeps

\* mpd_response_next() returns: it never gives up.
LEMMA NextEnds ==
    ASSUME Steady, TypeOK', NextGivesUp \/ NextReturns
    PROVE  StaysInStep' /\ NoAssertFails'
<1>1. /\ call = "next" /\ call' = "none"
      /\ UNCHANGED <<asyncError, outbuf, inbox, server, wire, sent>>
  BY DEF NextGivesUp, NextReturns, environment, history
<1>2. /\ conn.pairState = "NONE" /\ ~Defined(conn.error) /\ Discrete(conn)
      /\ Len(awaiting) > 1 /\ conn.receiving
  BY <1>1 DEF Steady, StaysInStep, LoopsRight
<1>3. ~Lost(conn.error)
  BY <1>2 DEF Lost, Fatal, Defined
<1>4. Fit(conn, awaiting, queue, server, wire)
  BY <1>1, <1>3 DEF Steady, StaysInStep
<1>5. /\ conn \in Connection /\ awaiting \in Seq(Request) /\ queue \in Seq(Request)
      /\ wire \in Seq(Line)
  BY ConcatProperties DEF Steady, TypeOK, queue
<1>6. SentList(conn, awaiting) /\ Numbered(awaiting)
  BY <1>2, <1>4 DEF Fit, Discrete
<1>7. ~NextGivesUp
  <2>1. ASSUME NextGivesUp PROVE FALSE
    <3>1. ~conn.discreteFinished /\ conn.remaining = 0
      BY <1>2, <2>1 DEF NextGivesUp, NextLoops
    <3>2. /\ Last(awaiting) = awaiting[1].id + Len(awaiting) - 1
          /\ Len(awaiting) \in Nat /\ awaiting[1].id \in Nat
          /\ First(conn, awaiting) = awaiting[1].id
      BY <1>5, <1>6, <3>1, NumbersOf DEF SentList
    <3>3. conn.remaining = Last(awaiting) - First(conn, awaiting)
      BY <1>2, <1>6 DEF SentList, Discrete
    <3> DEFINE j == Len(awaiting)
               k == awaiting[1].id
    <3>4. j \in Nat /\ k \in Nat /\ j > 1 /\ (k + j - 1) - k = 0
      BY <1>2, <3>1, <3>2, <3>3
    <3> HIDE DEF j, k
    <3> QED BY <3>4
  <2> QED BY <2>1
<1>8. /\ conn.discreteFinished /\ conn' = [conn EXCEPT !.discreteFinished = FALSE]
      /\ result' = "true" /\ awaiting' = SubSeq(awaiting, 2, Len(awaiting))
  BY <1>7 DEF NextReturns, NextLoops, Following
<1>9. /\ conn'.receiving /\ Discrete(conn') /\ ~conn'.discreteFinished
      /\ conn'.remaining = conn.remaining /\ conn'.asserts = conn.asserts
      /\ conn'.pairState = "NONE" /\ conn'.error = conn.error /\ conn'.sendingList
  BY <1>2, <1>5, <1>8 DEF Connection, Discrete
<1>10. Fit(conn', awaiting', queue, server, wire)
  BY <1>2, <1>4, <1>5, <1>8, <1>9, LeavingFits
<1>11. queue' = queue
  BY <1>1 DEF queue
<1>12. LoopsRight'
  BY <1>1, <1>8 DEF LoopsRight
<1>13. PairFits(conn', awaiting') /\ NullFits(conn', result')
  BY <1>8, <1>9 DEF PairFits, NullFits
<1>14. HeldBack'
  BY <1>9 DEF HeldBack
<1>15. NoAssertFails'
  BY <1>9 DEF Steady, NoAssertFails
<1>16. Fit(conn', awaiting', queue', server', wire')
  BY <1>1, <1>10, <1>11
<1> QED BY <1>1, <1>12, <1>13, <1>14, <1>15, <1>16 DEF StaysInStep

(***************************************************************************)
(* The steps that send.                                                    *)
(***************************************************************************)
\* What a client that may send knows.
LEMMA MayRequestFacts ==
    ASSUME Careless = {}, Steady, Idle, MayRequest
    PROVE  /\ ~Defined(conn.error) /\ ~Lost(conn.error) /\ conn.pairState = "NONE"
           /\ Fit(conn, awaiting, queue, server, wire) /\ HeldBack
           /\ conn \in Connection /\ awaiting \in Seq(Request) /\ queue \in Seq(Request)
           /\ server \in Server /\ sent \in Nat
<1>1. ~Defined(conn.error) /\ conn.pairState = "NONE"
  BY DEF MayRequest, ChecksErrors, NothingUnread
<1>2. ~Lost(conn.error)
  BY <1>1 DEF Lost, Fatal, Defined
<1>3. Fit(conn, awaiting, queue, server, wire) /\ HeldBack
  BY <1>2 DEF Idle, Steady, StaysInStep
<1> QED BY <1>1, <1>2, <1>3, ConcatProperties DEF Steady, TypeOK, queue

LEMMA NextRequestFacts ==
    ASSUME TypeOK, NEW kind \in Kinds
    PROVE  LET r == NextRequest(kind)
           IN  r \in Request /\ r.kind = kind /\ r.id = sent + 1 /\ r.id > 0 /\ sent = r.id - 1
BY DEF NextRequest, Request, TypeOK

\* What a request that fails leaves behind: as long as the connection is not lost,
\* nothing of it.
LEMMA SendFails ==
    ASSUME Careless = {}, Steady, TypeOK', Idle, MayRequest, NEW r \in Request,
           NEW long \in BOOLEAN, NEW flush \in BOOLEAN, NEW o \in Sends(r, long, flush),
           Defined(o.err), Transmitted(o), conn'.error = o.err,
           Alike(conn, conn') \/ Lost(o.err), conn'.pairState = conn.pairState,
           conn'.asserts = conn.asserts, awaiting' = awaiting, UNCHANGED <<server, wire>>,
           result' = "false", call' = "none"
    PROVE  StaysInStep' /\ NoAssertFails'
<1>1. NoAssertFails'
  BY DEF Steady, NoAssertFails
<1>2. LoopsRight'
  BY DEF LoopsRight
<1>3. ASSUME ~Lost(o.err)
      PROVE  /\ Fit(conn', awaiting', queue', server', wire')
             /\ HeldBack' /\ PairFits(conn', awaiting') /\ NullFits(conn', result')
  <2>1. o.err = "ARGUMENT" /\ o.in \o o.out = queue /\ (outbuf = <<>> => o.out = <<>>)
    BY <1>3, SendsKeep DEF Steady
  <2>2. Fit(conn, awaiting, queue, server, wire) /\ HeldBack /\ conn.pairState = "NONE"
    BY MayRequestFacts
  <2>3. queue' = queue /\ asyncError' = "ARGUMENT" /\ outbuf' = o.out
    BY <2>1 DEF Transmitted, queue, AsyncAfter
  <2>4. Alike(conn, conn')
    BY <1>3
  <2>5. Fit(conn', awaiting, queue, server, wire)
    BY <2>2, <2>4, AlikeFits
  <2>6. HeldBack'
    BY <2>1, <2>2, <2>3, <2>4 DEF HeldBack, Alike, Defined
  <2>7. PairFits(conn', awaiting') /\ NullFits(conn', result')
    BY <2>2 DEF PairFits, NullFits
  <2> QED BY <2>3, <2>5, <2>6, <2>7
<1> QED BY <1>1, <1>2, <1>3 DEF StaysInStep

\* What a request that succeeds leaves behind.
LEMMA SendSucceeds ==
    ASSUME Careless = {}, Steady, TypeOK', Idle, MayRequest, NEW r \in Request,
           NEW long \in BOOLEAN, NEW flush \in BOOLEAN, NEW o \in Sends(r, long, flush),
           ~Defined(o.err), Transmitted(o), conn'.error = conn.error,
           conn'.pairState = "NONE", conn'.asserts = conn.asserts,
           Fit(conn', awaiting', Append(queue, r), server, wire), UNCHANGED <<server, wire>>,
           flush \/ conn'.sendingList,
           ~conn'.receiving /\ awaiting' # <<>> => Last(awaiting') = sent + 1,
           result' \in {"true", "none"}, call' \in {"none", "finish", "run_idle"},
           call' = "run_idle" => ~conn'.sendingList
    PROVE  StaysInStep' /\ NoAssertFails'
<1>1. NoAssertFails'
  BY DEF Steady, NoAssertFails
<1>2. ~Defined(conn'.error)
  BY MayRequestFacts
<1>3. LoopsRight'
  BY <1>2 DEF LoopsRight
<1>4. /\ queue' = Append(queue, r) /\ (flush => outbuf' = <<>>) /\ sent' = sent + 1
  BY SendsKeep DEF Steady, Transmitted, queue
<1>5. Fit(conn', awaiting', queue', server', wire')
  BY <1>4
<1>6. HeldBack'
  BY <1>4 DEF HeldBack
<1>7. PairFits(conn', awaiting') /\ NullFits(conn', result')
  BY DEF PairFits, NullFits
<1>8. call' # "freed"
  OBVIOUS
<1> QED BY <1>1, <1>3, <1>5, <1>6, <1>7, <1>8 DEF StaysInStep

\* One request outside of lists.
LEMMA OneSent ==
    ASSUME Careless = {}, Steady, TypeOK', Idle, MayRequest, ~conn.receiving,
           ~conn.sendingList, NEW kind \in {"cmd", "idle"}, NEW long \in BOOLEAN,
           NEW o \in Sends(NextRequest(kind), long, TRUE), ~Defined(o.err), Transmitted(o),
           conn' = [conn EXCEPT !.receiving = TRUE], awaiting' = <<NextRequest(kind)>>,
           UNCHANGED <<server, wire>>,
           result' \in {"true", "none"}, call' \in {"none", "finish", "run_idle"}
    PROVE  StaysInStep' /\ NoAssertFails'
<1> DEFINE r == NextRequest(kind)
<1>1. /\ conn.pairState = "NONE" /\ Fit(conn, awaiting, queue, server, wire)
      /\ conn \in Connection /\ queue \in Seq(Request)
  BY MayRequestFacts
<1>2. r \in Request /\ r.kind \in {"cmd", "idle"} /\ r.id > 0
  BY NextRequestFacts DEF Steady, Kinds
<1>3. /\ conn'.receiving /\ ~conn'.sendingList /\ conn'.error = conn.error
      /\ conn'.pairState = "NONE" /\ conn'.asserts = conn.asserts
  BY <1>1 DEF Connection
<1> HIDE DEF r
<1>4. Fit(conn', <<r>>, Append(queue, r), server, wire)
  BY <1>1, <1>2, <1>3, CommandSent
<1>5. awaiting' = <<r>> /\ o \in Sends(r, long, TRUE)
  BY DEF r
<1>6. Fit(conn', awaiting', Append(queue, r), server, wire)
  BY <1>4, <1>5
<1> QED BY <1>2, <1>3, <1>5, <1>6, SendSucceeds

\* mpd_send_command() and mpd_send_idle()
LEMMA SendCommandStep ==
    ASSUME Careless = {}, Steady, TypeOK', NEW kind \in {"cmd", "idle"},
           NEW long \in BOOLEAN, SendCommand(kind, long)
    PROVE  StaysInStep' /\ NoAssertFails'
<1>0. Idle /\ MayRequest /\ (kind = "idle" => ~conn.sendingList)
  BY DEF SendCommand
<1>1. /\ ~Defined(conn.error) /\ conn.pairState = "NONE"
      /\ Fit(conn, awaiting, queue, server, wire) /\ HeldBack
      /\ conn \in Connection /\ awaiting \in Seq(Request) /\ queue \in Seq(Request)
      /\ server \in Server
  BY <1>0, MayRequestFacts
<1>2. CASE ~MaySend(conn)
  BY <1>0, <1>1, <1>2, RefusedWith, RefusedAsIs DEF SendCommand, SendCheck
<1>3. CASE MaySend(conn)
  <2> DEFINE r == NextRequest(kind)
  <2>1. PICK o \in Sends(r, long, ~conn.sendingList) :
          /\ Transmitted(o)
          /\ conn' = AfterSend(conn, o)
          /\ result' = IF Defined(o.err) THEN "false" ELSE "true"
          /\ awaiting' = IF Defined(o.err) THEN awaiting ELSE Appended(conn, r)
          /\ call' = call /\ UNCHANGED <<server, wire>>
    BY <1>3 DEF SendCommand, environment
  <2>2. /\ r \in Request /\ r.kind = kind /\ r.id > 0 /\ sent = r.id - 1 /\ r.id = sent + 1
    BY NextRequestFacts DEF Steady, Kinds
  <2>3. ~conn.receiving /\ call' = "none" /\ (~conn.sendingList) \in BOOLEAN
    BY <1>0, <1>3, <2>1 DEF MaySend, Idle
  <2>4. CASE Defined(o.err)
    <3>1. conn' = [conn EXCEPT !.error = o.err] /\ awaiting' = awaiting /\ result' = "false"
      BY <2>1, <2>4 DEF AfterSend, SyncError
    <3>2. /\ Alike(conn, conn') /\ conn'.error = o.err /\ conn'.pairState = conn.pairState
          /\ conn'.asserts = conn.asserts
      BY <1>1, <3>1 DEF Alike, Connection
    <3> HIDE DEF r
    <3> QED BY <1>0, <2>1, <2>2, <2>3, <2>4, <3>1, <3>2, SendFails
  <2>5. CASE ~Defined(o.err) /\ ~conn.sendingList
    <3>1. /\ conn' = [conn EXCEPT !.receiving = TRUE] /\ awaiting' = <<r>> /\ result' = "true"
      BY <2>1, <2>5 DEF AfterSend, Commanded, Appended
    <3>2. o \in Sends(NextRequest(kind), long, TRUE)
      BY <2>1, <2>5
    <3> QED BY <1>0, <2>1, <2>3, <2>5, <3>1, <3>2, OneSent
  <2>6. CASE ~Defined(o.err) /\ conn.sendingList
    <3>1. /\ kind = "cmd" /\ result' = "true"
          /\ conn' = IF conn.sendingListOk THEN [conn EXCEPT !.remaining = @ + 1] ELSE conn
          /\ awaiting' = IF conn.sendingListOk THEN Append(awaiting, r) ELSE awaiting
      BY <1>0, <2>1, <2>6 DEF AfterSend, Commanded, Appended
    <3> HIDE DEF r
    <3>2. /\ ~conn'.receiving /\ conn'.sendingList /\ conn'.sendingListOk = conn.sendingListOk
          /\ conn'.discreteFinished = conn.discreteFinished
          /\ conn'.error = conn.error /\ conn'.pairState = "NONE"
          /\ conn'.asserts = conn.asserts
      BY <1>1, <2>3, <2>6, <3>1 DEF Connection
    <3>3. conn'.remaining = IF conn.sendingListOk THEN conn.remaining + 1 ELSE conn.remaining
      BY <1>1, <3>1 DEF Connection
    <3>4. ~Defined(asyncError)
      BY <2>1, <2>2, <2>3, <2>6, SendsKeep DEF Steady
    <3>5. awaiting # <<>> => Last(awaiting) = r.id - 1
      BY <1>1, <2>2, <2>3, <3>4 DEF HeldBack
    <3>6. Fit(conn', awaiting', Append(queue, r), server, wire)
      BY <1>1, <2>2, <2>3, <2>6, <3>1, <3>2, <3>3, <3>5, CommandListed
    <3>7. awaiting' # <<>> => Last(awaiting') = sent + 1
      <4>1. Numbered(awaiting) /\ Gathering(conn, awaiting)
        BY <1>1, <2>3, <2>6 DEF Fit
      <4>2. CASE conn.sendingListOk
        BY <1>1, <2>2, <3>1, <3>5, <4>1, <4>2, NumberedOn
      <4>3. CASE ~conn.sendingListOk
        BY <3>1, <4>1, <4>3 DEF Gathering
      <4> QED BY <4>2, <4>3
    <3>8. call' \in {"none", "finish", "run_idle"} /\ call' # "run_idle"
      BY <2>3
    <3> QED BY <1>0, <2>1, <2>2, <2>3, <2>6, <3>1, <3>2, <3>6, <3>7, <3>8, SendSucceeds
  <2> QED BY <2>4, <2>5, <2>6
<1> QED BY <1>2, <1>3

\* the mpd_run_* functions
LEMMA RunStep ==
    ASSUME Careless = {}, Steady, TypeOK', NEW kind \in {"cmd", "idle"}, Run(kind)
    PROVE  StaysInStep' /\ NoAssertFails'
<1>0. Idle /\ MayRequest
  BY DEF Run
<1>1. ~Defined(conn.error) /\ conn.pairState = "NONE" /\ conn \in Connection
  BY <1>0, MayRequestFacts
<1>2. CASE conn.sendingList
  BY <1>0, <1>1, <1>2, RefusedWith DEF Run, RunCheck
<1>3. CASE ~conn.sendingList /\ ~MaySend(conn)
  BY <1>0, <1>1, <1>3, RefusedWith, RefusedAsIs DEF Run, SendCheck
<1>4. CASE ~conn.sendingList /\ MaySend(conn)
  <2> DEFINE r == NextRequest(kind)
  <2>1. PICK o \in Sends(r, FALSE, TRUE) :
          /\ Transmitted(o)
          /\ IF Defined(o.err)
             THEN /\ conn' = SyncError(conn, o.err) /\ result' = "false"
                  /\ UNCHANGED <<call, awaiting>>
             ELSE /\ conn' = IF kind = "cmd" THEN Finishing(Commanded(conn))
                                             ELSE Commanded(conn)
                  /\ call' = IF kind = "cmd" THEN "finish" ELSE "run_idle"
                  /\ result' = "none" /\ awaiting' = <<r>>
          /\ UNCHANGED <<server, wire>>
    BY <1>4 DEF Run, environment
  <2>2. r \in Request
    BY NextRequestFacts DEF Steady, Kinds
  <2>3. ~conn.receiving /\ call = "none"
    BY <1>0, <1>4 DEF MaySend, Idle
  <2>4. CASE Defined(o.err)
    <3>1. /\ conn' = [conn EXCEPT !.error = o.err] /\ awaiting' = awaiting /\ result' = "false"
          /\ call' = "none"
      BY <2>1, <2>3, <2>4 DEF SyncError
    <3>2. /\ Alike(conn, conn') /\ conn'.error = o.err /\ conn'.pairState = conn.pairState
          /\ conn'.asserts = conn.asserts
      BY <1>1, <3>1 DEF Alike, Connection
    <3> HIDE DEF r
    <3> QED BY <1>0, <2>1, <2>2, <2>4, <3>1, <3>2, SendFails
  <2>5. CASE ~Defined(o.err)
    <3>1. Commanded(conn) = [conn EXCEPT !.receiving = TRUE]
      BY <1>4 DEF Commanded
    <3>2. Commanded(conn).pairState = "NONE"
      BY <1>1, <3>1 DEF Connection
    <3>3. conn' = [conn EXCEPT !.receiving = TRUE]
      BY <2>1, <2>5, <3>1, <3>2 DEF Finishing
    <3>4. awaiting' = <<r>> /\ result' = "none" /\ call' \in {"finish", "run_idle"}
      BY <2>1, <2>5
    <3> QED BY <1>0, <1>4, <2>1, <2>3, <2>5, <3>3, <3>4, OneSent
  <2> QED BY <2>4, <2>5
<1> QED BY <1>2, <1>3, <1>4

\* mpd_command_list_begin()
LEMMA ListBeginStep ==
    ASSUME Careless = {}, Steady, TypeOK', NEW discrete \in BOOLEAN, ListBegin(discrete)
    PROVE  StaysInStep' /\ NoAssertFails'
<1>0. Idle /\ MayRequest
  BY DEF ListBegin
<1>1. /\ ~Defined(conn.error) /\ conn.pairState = "NONE"
      /\ Fit(conn, awaiting, queue, server, wire)
      /\ conn \in Connection /\ queue \in Seq(Request)
  BY <1>0, MayRequestFacts
<1>2. CASE conn.sendingList
  BY <1>0, <1>1, <1>2, RefusedWith DEF ListBegin
<1>3. CASE ~conn.sendingList /\ ~MaySend(conn)
  BY <1>0, <1>1, <1>3, RefusedWith, RefusedAsIs DEF ListBegin, SendCheck
<1>4. CASE ~conn.sendingList /\ MaySend(conn)
  <2> DEFINE kind == IF discrete THEN "begin_ok" ELSE "begin"
             r == NextRequest(kind)
  <2>1. PICK o \in Sends(r, FALSE, FALSE) :
          /\ Transmitted(o)
          /\ conn' = IF Defined(o.err) THEN SyncError(conn, o.err)
                     ELSE Listing(conn, discrete)
          /\ result' = IF Defined(o.err) THEN "false" ELSE "true"
          /\ awaiting' = <<>> /\ call' = call
          /\ UNCHANGED <<server, wire>>
    BY <1>4 DEF ListBegin, environment
  <2>2. r \in Request /\ r.kind = kind
    <3>1. kind \in Kinds
      BY DEF Kinds
    <3> QED BY <3>1, NextRequestFacts DEF Steady
  <2>3. ~conn.receiving /\ call' = "none" /\ awaiting = <<>>
    BY <1>0, <1>1, <1>4, <2>1 DEF MaySend, Idle, Fit, Quiet
  <2>4. CASE Defined(o.err)
    <3>1. /\ conn' = [conn EXCEPT !.error = o.err] /\ awaiting' = awaiting /\ result' = "false"
      BY <2>1, <2>3, <2>4 DEF SyncError
    <3>2. /\ Alike(conn, conn') /\ conn'.error = o.err /\ conn'.pairState = conn.pairState
          /\ conn'.asserts = conn.asserts
      BY <1>1, <3>1 DEF Alike, Connection
    <3> HIDE DEF r
    <3> QED BY <1>0, <2>1, <2>2, <2>3, <2>4, <3>1, <3>2, SendFails
  <2>5. CASE ~Defined(o.err)
    <3>1. conn' = [conn EXCEPT !.sendingList = TRUE, !.sendingListOk = discrete,
                               !.remaining = 0, !.discreteFinished = FALSE]
      BY <2>1, <2>5 DEF Listing
    <3>2. /\ ~conn'.receiving /\ conn'.sendingList /\ conn'.sendingListOk = discrete
          /\ conn'.remaining = 0 /\ ~conn'.discreteFinished
          /\ conn'.error = conn.error /\ conn'.pairState = "NONE"
          /\ conn'.asserts = conn.asserts
      BY <1>1, <2>3, <3>1 DEF Connection
    <3>3. r.kind = IF conn'.sendingListOk THEN "begin_ok" ELSE "begin"
      BY <2>2, <3>2
    <3> HIDE DEF r, kind
    <3>4. Fit(conn', <<>>, Append(queue, r), server, wire)
      BY <1>1, <1>4, <2>2, <2>3, <3>2, <3>3, ListBegun
    <3>5. Fit(conn', awaiting', Append(queue, r), server, wire)
      BY <2>1, <3>4
    <3>6. /\ result' = "true" /\ call' \in {"none", "finish", "run_idle"} /\ call' # "run_idle"
      BY <2>1, <2>3, <2>5
    <3> QED BY <1>0, <2>1, <2>2, <2>5, <3>2, <3>5, <3>6, SendSucceeds
  <2> QED BY <2>4, <2>5
<1> QED BY <1>2, <1>3, <1>4

\* mpd_command_list_end(): its assertion holds.
LEMMA ListEndStep ==
    ASSUME Careless = {}, Steady, TypeOK', ListEnd
    PROVE  StaysInStep' /\ NoAssertFails'
<1>0. Idle /\ MayRequest
  BY DEF ListEnd
<1>1. /\ ~Defined(conn.error) /\ conn.pairState = "NONE"
      /\ Fit(conn, awaiting, queue, server, wire) /\ HeldBack
      /\ conn \in Connection /\ awaiting \in Seq(Request) /\ queue \in Seq(Request)
      /\ server \in Server
  BY <1>0, MayRequestFacts
<1>2. CASE ~conn.sendingList
  BY <1>0, <1>1, <1>2, RefusedWith DEF ListEnd
<1>3. CASE conn.sendingList /\ ~MaySend(conn)
  BY <1>0, <1>1, <1>3, RefusedWith, RefusedAsIs DEF ListEnd, SendCheck
<1>4. CASE conn.sendingList /\ MaySend(conn)
  <2> DEFINE r == NextRequest("end")
             lowered == [conn EXCEPT !.sendingList = FALSE]
             after(o) == AfterSend(lowered, o)
  <2>1. PICK o \in Sends(r, FALSE, TRUE) :
          /\ Transmitted(o)
          /\ conn' = [after(o) EXCEPT !.sendingList = TRUE,
                                      !.asserts = @ \/ ~(after(o).receiving \/ Defined(o.err))]
          /\ result' = IF Defined(o.err) THEN "false" ELSE "true"
          /\ awaiting' = IF Defined(o.err) THEN awaiting ELSE Append(awaiting, r)
          /\ call' = call /\ UNCHANGED <<server, wire>>
    BY <1>4 DEF ListEnd, environment
  <2>2. /\ r \in Request /\ r.kind = "end" /\ r.id > 0 /\ sent = r.id - 1
    BY NextRequestFacts DEF Steady, Kinds
  <2>3. ~conn.receiving /\ call' = "none"
    BY <1>0, <1>4, <2>1 DEF MaySend, Idle
  <2>4. CASE Defined(o.err)
    <3>1. after(o) = [[conn EXCEPT !.sendingList = FALSE] EXCEPT !.error = o.err]
      BY <2>4 DEF AfterSend, SyncError
    <3>2. conn' = [after(o) EXCEPT !.sendingList = TRUE, !.asserts = @ \/ FALSE]
      BY <2>1, <2>4
    <3>3. awaiting' = awaiting /\ result' = "false"
      BY <2>1, <2>4
    <3>4. /\ Alike(conn, conn') /\ conn'.error = o.err /\ conn'.pairState = conn.pairState
          /\ conn'.asserts = conn.asserts
      BY <1>1, <1>4, <3>1, <3>2 DEF Alike, Connection
    <3> HIDE DEF r
    <3> QED BY <1>0, <2>1, <2>2, <2>3, <2>4, <3>3, <3>4, SendFails
  <2>5. CASE ~Defined(o.err)
    <3>1. lowered.sendingList = FALSE
      BY <1>1 DEF Connection
    <3>2. after(o) = [lowered EXCEPT !.receiving = TRUE]
      BY <2>5, <3>1 DEF AfterSend, Commanded
    <3>3. after(o).receiving
      BY <1>1, <3>2 DEF Connection
    <3>4. conn' = [after(o) EXCEPT !.sendingList = TRUE, !.asserts = @ \/ FALSE]
      BY <2>1, <3>3
    <3>5. /\ conn'.receiving /\ conn'.sendingList /\ conn'.sendingListOk = conn.sendingListOk
          /\ conn'.remaining = conn.remaining
          /\ conn'.discreteFinished = conn.discreteFinished
          /\ conn'.error = conn.error /\ conn'.pairState = "NONE"
          /\ conn'.asserts = conn.asserts
      BY <1>1, <3>2, <3>4 DEF Connection
    <3> HIDE DEF r
    <3>6. ~Defined(asyncError)
      BY <2>1, <2>2, <2>5, SendsKeep DEF Steady
    <3>7. awaiting # <<>> => Last(awaiting) = r.id - 1
      BY <1>1, <2>2, <2>3, <3>6 DEF HeldBack
    <3>8. Fit(conn', Append(awaiting, r), Append(queue, r), server, wire)
      BY <1>1, <1>4, <2>2, <2>3, <3>5, <3>7, ListClosed
    <3>9. Fit(conn', awaiting', Append(queue, r), server, wire)
      BY <2>1, <2>5, <3>8
    <3>10. /\ result' = "true" /\ call' \in {"none", "finish", "run_idle"} /\ call' # "run_idle"
      BY <2>1, <2>3, <2>5
    <3> QED BY <1>0, <2>1, <2>2, <2>5, <3>5, <3>9, <3>10, SendSucceeds
  <2> QED BY <2>4, <2>5
<1> QED BY <1>2, <1>3, <1>4

\* mpd_send_noidle() and mpd_run_noidle(): the connection that stops receiving to
\* send is receiving again, or lost.
LEMMA NoidleStep ==
    ASSUME Careless = {}, Steady, TypeOK', NEW run \in BOOLEAN, Noidle(run)
    PROVE  StaysInStep' /\ NoAssertFails'
<1>0. Idle /\ MayRequest /\ IdleOutstanding
  BY DEF Noidle
<1>1. /\ ~Defined(conn.error) /\ conn.pairState = "NONE"
      /\ Fit(conn, awaiting, queue, server, wire)
      /\ conn \in Connection /\ awaiting \in Seq(Request) /\ queue \in Seq(Request)
  BY <1>0, MayRequestFacts
<1>2. conn.receiving /\ awaiting # <<>> /\ awaiting[1].kind = "idle"
  BY <1>0, <1>1, TailFacts DEF IdleOutstanding
<1>3. ~conn.sendingList
  <2>1. ASSUME conn.sendingList PROVE FALSE
    <3>1. SentList(conn, awaiting)
      BY <1>1, <1>2, <2>1 DEF Fit
    <3>2. 1 \in 1 .. Len(awaiting)
      BY <1>1, <1>2, TailFacts
    <3> QED BY <1>2, <3>1, <3>2 DEF SentList
  <2> QED BY <2>1
<1> DEFINE r == NextRequest("noidle")
           ready == [conn EXCEPT !.receiving = FALSE]
<1>4. PICK o \in Sends(r, FALSE, TRUE) :
        /\ Transmitted(o)
        /\ conn' = AfterSend(ready, o)
        /\ call' = IF run /\ ~Defined(o.err) THEN "run_idle" ELSE "none"
        /\ result' = IF Defined(o.err) THEN "false" ELSE "true"
        /\ UNCHANGED <<server, wire, awaiting>>
  BY <1>1 DEF Noidle, environment
<1>5. r \in Request /\ r.kind = "noidle"
  BY NextRequestFacts DEF Steady, Kinds
<1>6. CASE Defined(o.err)
  <2>1. conn' = [ready EXCEPT !.error = o.err]
    BY <1>4, <1>6 DEF AfterSend, SyncError
  <2>2. conn'.error = o.err /\ conn'.pairState = conn.pairState /\ conn'.asserts = conn.asserts
    BY <1>1, <2>1 DEF Connection
  <2> HIDE DEF r
  <2>3. Lost(o.err)
    <3>1. asyncError # "ARGUMENT"
      BY <1>2 DEF Steady, AsyncErrorKinds
    <3> QED BY <1>4, <1>5, <1>6, <3>1, SendsKeep DEF Steady
  <2>4. call' = "none" /\ result' = "false"
    BY <1>4, <1>6
  <2> QED BY <1>0, <1>4, <1>5, <1>6, <2>2, <2>3, <2>4, SendFails
<1>7. CASE ~Defined(o.err)
  <2>1. ready.sendingList = conn.sendingList
    BY <1>1 DEF Connection
  <2>2. conn' = [ready EXCEPT !.receiving = TRUE]
    BY <1>3, <1>4, <1>7, <2>1 DEF AfterSend, Commanded
  <2>3. /\ conn'.receiving /\ ~conn'.sendingList /\ conn'.error = conn.error
        /\ conn'.pairState = "NONE" /\ conn'.asserts = conn.asserts
    BY <1>1, <1>3, <2>2 DEF Connection
  <2> HIDE DEF r
  <2>4. Fit(conn', awaiting, Append(queue, r), server, wire)
    BY <1>1, <1>2, <1>3, <1>5, <2>3, NoidleSent
  <2>5. Fit(conn', awaiting', Append(queue, r), server, wire)
    BY <1>4, <2>4
  <2>6. /\ result' = "true" /\ call' \in {"none", "finish", "run_idle"}
    BY <1>4, <1>7
  <2> QED BY <1>0, <1>4, <1>5, <1>7, <2>3, <2>5, <2>6, SendSucceeds
<1> QED BY <1>6, <1>7

\* A flush, or none, before something else.
LEMMA FlushKeeps ==
    ASSUME Steady, TypeOK', call = "none", call' # "freed",
           NEW o, \/ o \in Flushes(outbuf, inbox)
                  \/ o = [out |-> outbuf, in |-> inbox, err |-> "SUCCESS"],
           outbuf' = o.out, inbox' = o.in, asyncError' = AsyncAfter(o.err),
           conn' = IF Defined(o.err) THEN SyncError(conn, o.err) ELSE conn,
           UNCHANGED <<server, wire, sent, awaiting>>,
           result' # "end", LoopsRight'
    PROVE  StaysInStep' /\ NoAssertFails'
<1>1. conn \in Connection /\ outbuf \in Seq(Request) /\ inbox \in Seq(Request)
  BY DEF Steady, TypeOK
<1>2. /\ Alike(conn, conn') /\ conn'.pairState = conn.pairState /\ conn'.pair = conn.pair
      /\ conn'.asserts = conn.asserts /\ conn'.error = IF Defined(o.err) THEN o.err ELSE conn.error
  BY <1>1 DEF Alike, Connection, SyncError
<1>3. NoAssertFails'
  BY <1>2 DEF Steady, NoAssertFails
<1>4. ASSUME ~Lost(conn'.error)
      PROVE  /\ Fit(conn', awaiting', queue', server', wire')
             /\ HeldBack' /\ PairFits(conn', awaiting') /\ NullFits(conn', result')
  <2>1. /\ queue' = queue /\ (outbuf = <<>> => outbuf' = <<>>) /\ asyncError' = asyncError
        /\ ~Lost(conn.error)
    <3>1. CASE ~Defined(o.err)
      <4>1. CASE o \in Flushes(outbuf, inbox)
        <5>1. o.out = <<>> /\ o.in \o o.out = inbox \o outbuf
          BY <1>1, <3>1, <4>1, FlushesKeep DEF Steady
        <5> QED BY <1>2, <1>4, <3>1, <5>1 DEF AsyncAfter, Defined, queue
      <4>2. CASE o = [out |-> outbuf, in |-> inbox, err |-> "SUCCESS"]
        <5>1. o.out = outbuf /\ o.in = inbox
          BY <4>2
        <5> QED BY <1>2, <1>4, <3>1, <5>1 DEF AsyncAfter, Defined, queue
      <4> QED BY <4>1, <4>2
    <3>2. CASE Defined(o.err)
      <4>1. o \in Flushes(outbuf, inbox)
        BY <3>2 DEF Defined
      <4>2. o.out = outbuf /\ o.in = inbox /\ o.err = "ARGUMENT" /\ asyncError = "ARGUMENT"
        BY <1>1, <1>2, <1>4, <3>2, <4>1, FlushesKeep DEF Steady
      <4>3. ~Lost(conn.error)
        BY <4>2 DEF Steady, AsyncErrorKinds, Lost
      <4> QED BY <4>2, <4>3 DEF queue, AsyncAfter
    <3> QED BY <3>1, <3>2
  <2>2. /\ Fit(conn, awaiting, queue, server, wire) /\ HeldBack
        /\ PairFits(conn, awaiting) /\ NullFits(conn, result)
    BY <2>1 DEF Steady, StaysInStep
  <2>3. Fit(conn', awaiting, queue, server, wire)
    BY <1>2, <2>2, AlikeFits
  <2>4. HeldBack'
    BY <1>2, <2>1, <2>2 DEF HeldBack, Alike, Last
  <2>5. PairFits(conn', awaiting') /\ NullFits(conn', result')
    BY <1>2, <2>2 DEF PairFits, NullFits, Alike, Discrete
  <2> QED BY <2>1, <2>3, <2>4, <2>5
<1> QED BY <1>3, <1>4 DEF StaysInStep

\* mpd_flush() and mpd_recv_idle()
LEMMA FlushSteps ==
    ASSUME Steady, TypeOK', Flush \/ \E disable \in BOOLEAN : RecvIdle(disable)
    PROVE  StaysInStep' /\ NoAssertFails'
<1>1. call = "none" /\ UNCHANGED <<server, wire, sent, awaiting>>
  BY DEF Flush, RecvIdle, Idle, environment, history
<1>2. CASE Flush
  <2>1. PICK o \in Flushes(outbuf, inbox) :
          /\ outbuf' = o.out /\ inbox' = o.in /\ asyncError' = AsyncAfter(o.err)
          /\ conn' = IF Defined(o.err) THEN SyncError(conn, o.err) ELSE conn
          /\ result' = IF Defined(o.err) THEN "false" ELSE "true"
    BY <1>2 DEF Flush
  <2>2. call' = "none" /\ result' # "end"
    BY <1>1, <1>2, <2>1 DEF Flush
  <2>3. LoopsRight'
    BY <2>2 DEF LoopsRight
  <2> QED BY <1>1, <2>1, <2>2, <2>3, FlushKeeps
<1>3. ASSUME NEW disable \in BOOLEAN, RecvIdle(disable)
      PROVE  StaysInStep' /\ NoAssertFails'
  <2>1. PICK o \in IF disable THEN Flushes(outbuf, inbox)
                   ELSE {[out |-> outbuf, in |-> inbox, err |-> "SUCCESS"]} :
          /\ outbuf' = o.out /\ inbox' = o.in /\ asyncError' = AsyncAfter(o.err)
          /\ conn' = IF Defined(o.err) THEN SyncError(conn, o.err) ELSE conn
          /\ call' = IF Defined(o.err) THEN "none" ELSE "recv_idle"
          /\ result' = IF Defined(o.err) THEN "false" ELSE "none"
    BY <1>3 DEF RecvIdle
  <2>2. \/ o \in Flushes(outbuf, inbox)
        \/ o = [out |-> outbuf, in |-> inbox, err |-> "SUCCESS"]
    BY <2>1
  <2>3. call' \in {"none", "recv_idle"} /\ result' # "end" /\ conn.pairState # "FLOATING"
    BY <1>3, <2>1 DEF RecvIdle
  <2>4. LoopsRight'
    BY <2>1, <2>3 DEF LoopsRight
  <2>5. call' # "freed"
    BY <2>3
  <2> QED BY <1>1, <2>1, <2>2, <2>3, <2>4, <2>5, FlushKeeps
<1> QED BY <1>2, <1>3

(***************************************************************************)
(* The steps of the environment.                                           *)
(***************************************************************************)
\* The server answers what it was asked.
LEMMA ServerKeeps ==
    ASSUME Steady, TypeOK', ServerStep
    PROVE  StaysInStep' /\ NoAssertFails'
<1>1. link = "up" /\ UNCHANGED <<conn, asyncError, outbuf, call, result, sent, awaiting>>
  BY DEF ServerStep, ServeCommand, ServeListBegin, ServeListed, ServeListEnd, RunListed,
         RunListEnds, ServeIdle, ServeNoidle, Notify, Accept, Environment, library
<1>2. call # "freed"
  BY <1>1 DEF Steady, StaysInStep
<1>3. NoAssertFails' /\ LoopsRight'
  BY <1>1 DEF Steady, StaysInStep, NoAssertFails, LoopsRight, Discrete
<1>4. ASSUME ~Lost(conn'.error)
      PROVE  /\ Fit(conn', awaiting', queue', server', wire')
             /\ HeldBack' /\ PairFits(conn', awaiting') /\ NullFits(conn', result')
  <2>1. /\ Fit(conn, awaiting, queue, server, wire) /\ HeldBack
        /\ PairFits(conn, awaiting) /\ NullFits(conn, result)
    BY <1>1, <1>2, <1>4 DEF Steady, StaysInStep
  <2>2. Fit(conn', awaiting', queue', server', wire')
    BY <2>1, ServerFits DEF Steady
  <2>3. HeldBack'
    BY <1>1, <2>1 DEF HeldBack, Last
  <2>4. PairFits(conn', awaiting') /\ NullFits(conn', result')
    BY <1>1, <2>1
  <2> QED BY <2>2, <2>3, <2>4
<1> QED BY <1>1, <1>2, <1>3, <1>4 DEF StaysInStep

\* The link goes down, the connection is freed, or nothing happens.
LEMMA OtherSteps ==
    ASSUME Steady, TypeOK', HangUp \/ Free \/ Freed \/ UNCHANGED vars
    PROVE  StaysInStep' /\ NoAssertFails'
<1>1. UNCHANGED <<conn, asyncError, result, inbox, server, sent, awaiting>>
  BY DEF HangUp, Free, Freed, Environment, library, vars, history
<1>2. NoAssertFails'
  BY <1>1 DEF Steady, NoAssertFails
<1>3. CASE Free
  <2>1. call' = "freed" /\ wire' = <<>> /\ link' = "down" /\ call = "none"
    BY <1>3 DEF Free, Idle
  <2>2. LoopsRight'
    BY <1>1, <2>1 DEF Steady, StaysInStep, LoopsRight
  <2>3. ~Lost(conn'.error) => PairFits(conn', awaiting') /\ NullFits(conn', result')
    BY <1>1 DEF Steady, StaysInStep
  <2> QED BY <1>2, <2>1, <2>2, <2>3 DEF StaysInStep
<1>4. CASE HangUp \/ Freed \/ UNCHANGED vars
  <2>1. UNCHANGED <<call, wire, outbuf>> /\ (call = "freed" => UNCHANGED link)
    BY <1>4 DEF HangUp, Freed, Environment, library, vars, Steady, StaysInStep
  <2>2. LoopsRight'
    BY <1>1, <2>1 DEF Steady, StaysInStep, LoopsRight, Discrete
  <2>3. queue' = queue
    BY <1>1, <2>1 DEF queue
  <2>4. HeldBack => HeldBack'
    BY <1>1, <2>1 DEF HeldBack, Last
  <2> QED BY <1>1, <1>2, <2>1, <2>2, <2>3, <2>4 DEF Steady, StaysInStep
<1> QED BY <1>3, <1>4

\* Every step keeps client and server in step.
LEMMA StepStays ==
    ASSUME Careless = {}, StrayLines = {}, Steady, TypeOK', [Next]_vars
    PROVE  StaysInStep' /\ NoAssertFails'
<1>1. ASSUME ClientCall PROVE StaysInStep' /\ NoAssertFails'
  <2>1. CASE \E kind \in {"cmd", "idle"} : Run(kind)
    BY <2>1, RunStep
  <2>2. CASE SendCommand("cmd", FALSE) \/ SendCommand("idle", FALSE) \/ SendCommand("cmd", TRUE)
    BY <2>2, SendCommandStep
  <2>3. CASE \E discrete \in BOOLEAN : ListBegin(discrete)
    BY <2>3, ListBeginStep
  <2>4. CASE \E run \in BOOLEAN : Noidle(run)
    BY <2>4, NoidleStep
  <2> QED BY <1>1, <2>1, <2>2, <2>3, <2>4, RecvPairStep, PairSteps, FinishCalls,
             ResponseNextStep, ListEndStep, FlushSteps, RefusalSteps, ClearErrorStep,
             OtherSteps DEF ClientCall
<1>2. ASSUME LibraryStep PROVE StaysInStep' /\ NoAssertFails'
  BY <1>2, FinishGoesOn, FinishCalls, NextGoesOn, NextEnds, RecvIdleGoesOn, RecvIdleEnds
     DEF LibraryStep
<1>3. ~Misbehave
  BY DEF Misbehave
<1> QED BY <1>1, <1>2, <1>3, ServerKeeps, OtherSteps DEF Next

\* At first nothing is expected.
LEMMA InitStays ==
    ASSUME Init
    PROVE  StaysInStep /\ NoAssertFails
<1>1. /\ conn.error = "SUCCESS" /\ ~conn.receiving /\ ~conn.sendingList
      /\ conn.pairState = "NONE" /\ ~conn.asserts
  <2>1. conn \in [error : {"SUCCESS"}, receiving : {FALSE}, sendingList : {FALSE},
                  sendingListOk : BOOLEAN, discreteFinished : BOOLEAN,
                  remaining : Garbage, pairState : {"NONE"}, pair : {0},
                  asserts : {FALSE}]
    BY DEF Init
  <2> QED BY <2>1
<1>2. AtRest(server) /\ awaiting = <<>> /\ wire = <<>> /\ outbuf = <<>> /\ inbox = <<>>
      /\ call = "none" /\ result = "none"
  BY DEF Init, AtRest
<1>3. queue = <<>> /\ Len(queue) = 0
  <2>1. inbox \in Seq(Request) /\ outbuf \in Seq(Request) /\ Len(<<>>) = 0
    BY <1>2, EmptySeq
  <2>2. Len(queue) = 0 /\ queue \in Seq(Request)
    BY <1>2, <2>1, ConcatProperties DEF queue
  <2> QED BY <2>2, EmptySeq
<1>4. Noidles(queue, 1, Len(queue))
  BY <1>3 DEF Noidles
<1>5. Fit(conn, awaiting, queue, server, wire)
  BY <1>1, <1>2, <1>4 DEF Fit, Quiet
<1>6. HeldBack /\ LoopsRight
  BY <1>1, <1>2 DEF HeldBack, LoopsRight
<1>7. PairFits(conn, awaiting) /\ NullFits(conn, result) /\ NoAssertFails
  BY <1>1 DEF PairFits, NullFits, NoAssertFails
<1> QED BY <1>2, <1>5, <1>6, <1>7 DEF StaysInStep

\* What a careful client expects is what a server that keeps the protocol will
\* send, whatever the client calls and however the two interleave; and no
\* assertion of the library fails (connection.c, response.c, list.c, recv.c).
THEOREM ClientAndServerStayInStep ==
    ASSUME Careless = {}, StrayLines = {}
    PROVE  Spec => []StaysInStep /\ []NoAssertFails
<1>1. Init => StaysInStep /\ NoAssertFails
  BY InitStays
<1>2. /\ TypeOK /\ AsyncErrorKinds /\ FlushedBeforeReceiving /\ StaysInStep /\ NoAssertFails
      /\ TypeOK' /\ [Next]_vars
      => StaysInStep' /\ NoAssertFails'
  BY StepStays DEF Steady
<1>3. Spec => []AsyncErrorKinds
  <2>1. "ignores errors" \notin Careless
    OBVIOUS
  <2> QED BY <2>1, FatalErrorsStay
<1> QED BY <1>1, <1>2, <1>3, TypeCorrect, FlushesBeforeReceiving, PTL DEF Spec

(***************************************************************************)
(* What follows for the client.                                            *)
(***************************************************************************)
\* A connection that is not freed, and has no error, fits.
LEMMA StillFits ==
    ASSUME TypeOK, StaysInStep, ~Defined(conn.error), call # "freed"
    PROVE  /\ Fit(conn, awaiting, queue, server, wire) /\ HeldBack
           /\ PairFits(conn, awaiting) /\ NullFits(conn, result)
BY DEF StaysInStep, Lost, Fatal, Defined

LEMMA QuietIsInSync ==
    ASSUME TypeOK, StaysInStep
    PROVE  InSync
<1> SUFFICES ASSUME Idle, ~conn.receiving, ~conn.sendingList, ~Defined(conn.error)
             PROVE  /\ wire = <<>> /\ outbuf = <<>> /\ server.mode = "ready"
                    /\ \A i \in DOMAIN inbox : inbox[i].kind = "noidle"
  BY DEF InSync
<1>1. /\ AtRest(server) /\ wire = <<>> /\ Noidles(queue, 1, Len(queue)) /\ outbuf = <<>>
  BY StillFits DEF Idle, Fit, Quiet, HeldBack
<1>2. inbox \in Seq(Request) /\ DOMAIN inbox = 1 .. Len(inbox)
  BY LenProperties DEF TypeOK
<1>3. queue = inbox
  BY <1>1, <1>2, ConcatEmptySeq DEF queue
<1> QED BY <1>1, <1>2, <1>3 DEF AtRest, Noidles

LEMMA PairsAreAligned ==
    ASSUME TypeOK, StaysInStep
    PROVE  ResponsesAligned
<1> SUFFICES ASSUME conn.pairState \in {"FLOATING", "QUEUED"}, ~Defined(conn.error)
             PROVE  awaiting # <<>> /\ conn.pair = Head(awaiting).id
  BY DEF ResponsesAligned
<1>1. awaiting # <<>> /\ conn.pair = awaiting[1].id
  BY DEF StaysInStep, PairFits, Lost, Fatal, Defined
<1> QED BY <1>1, TailFacts DEF TypeOK

LEMMA ListIsCounted ==
    ASSUME TypeOK, StaysInStep
    PROVE  RemainingCounts
<1> SUFFICES ASSUME Idle, conn.sendingList, conn.sendingListOk, ~Defined(conn.error)
             PROVE  conn.remaining =
                      Len(awaiting) - (IF conn.receiving
                                       THEN IF conn.discreteFinished THEN 2 ELSE 1
                                       ELSE 0)
  BY DEF RemainingCounts
<1>1. Fit(conn, awaiting, queue, server, wire)
  BY StillFits DEF Idle
<1>2. conn \in Connection /\ awaiting \in Seq(Request) /\ Len(awaiting) \in Nat
  BY LenProperties DEF TypeOK
<1>3. CASE conn.receiving
  <2>1. Numbered(awaiting) /\ SentList(conn, awaiting)
    BY <1>1, <1>3 DEF Fit
  <2>2. awaiting # <<>> /\ conn.remaining = Last(awaiting) - First(conn, awaiting)
    BY <2>1 DEF SentList
  <2> DEFINE j == Len(awaiting)
             k == awaiting[1].id
  <2>3. j \in Nat /\ k \in Nat /\ Last(awaiting) = k + j - 1
    BY <1>2, <2>1, <2>2, NumbersOf
  <2>4. First(conn, awaiting) = IF conn.discreteFinished THEN k + 1 ELSE k
    BY DEF First
  <2> HIDE DEF j, k
  <2>5. conn.remaining = j - (IF conn.discreteFinished THEN 2 ELSE 1)
    BY <2>2, <2>3, <2>4
  <2> QED BY <1>3, <2>5 DEF j
<1>4. CASE ~conn.receiving
  <2>1. conn.remaining = Len(awaiting)
    BY <1>1, <1>4 DEF Fit, Gathering
  <2> QED BY <1>2, <1>4, <2>1
<1> QED BY <1>3, <1>4

\* The lines that answer belong to the first (sub-)response expected or to later ones.
LEMMA NoneIsEarlier ==
    ASSUME NEW c, NEW aw, NEW w \in Seq(Line), Answers(c, aw, w), First(c, aw) \in Nat
    PROVE  /\ \A i \in 1 .. Len(w) : w[i].id >= First(c, aw)
           /\ Upcoming(c, aw, w) \in Nat /\ Upcoming(c, aw, w) >= First(c, aw)
<1>1. \A i \in 1 .. Len(w) : /\ w[i].id \in Nat /\ Behind(w[i]) \in Nat
                             /\ Behind(w[i]) >= w[i].id
  <2>1. \A i \in 1 .. Len(w) : w[i] \in Line
    BY ElementOfSeq
  <2> QED BY <2>1 DEF Behind, Line
<1>2. Len(w) \in Nat
  BY LenProperties
<1>3. ASSUME NEW i \in 1 .. Len(w) PROVE w[i].id >= First(c, aw)
  <2>1. w # <<>> /\ 1 \in 1 .. Len(w)
    BY <1>2, <1>3
  <2>2. w[1].id = First(c, aw)
    BY <2>1 DEF Answers
  <2>3. CASE i = 1
    BY <1>1, <2>1, <2>2, <2>3
  <2>4. CASE i # 1
    <3>1. w[i].id >= Behind(w[1])
      BY <1>2, <2>1, <2>4 DEF Answers
    <3> QED BY <1>1, <2>1, <2>2, <3>1
  <2> QED BY <2>3, <2>4
<1>4. Upcoming(c, aw, w) \in Nat /\ Upcoming(c, aw, w) >= First(c, aw)
  <2>1. CASE w = <<>>
    BY <2>1 DEF Upcoming
  <2>2. CASE w # <<>>
    <3>1. Len(w) \in 1 .. Len(w)
      BY <1>2, <2>2, EmptySeq
    <3> QED BY <1>1, <1>3, <2>2, <3>1 DEF Upcoming
  <2> QED BY <2>1, <2>2
<1> QED BY <1>3, <1>4

LEMMA NothingIsLeft ==
    ASSUME TypeOK, StaysInStep, call # "freed"
    PROVE  EndIsGenuine
<1> SUFFICES ASSUME result = "end", conn.receiving
             PROVE  ~Unanswered(Head(awaiting).id)
  BY DEF EndIsGenuine
<1>1. ~Defined(conn.error)
  BY DEF StaysInStep, LoopsRight
<1>2. /\ Fit(conn, awaiting, queue, server, wire) /\ Discrete(conn) /\ conn.discreteFinished
  BY <1>1, StillFits DEF NullFits
<1>3. /\ SentList(conn, awaiting) /\ Numbered(awaiting) /\ queue = <<>>
      /\ \/ Running(conn, awaiting, queue, server, wire)
         \/ Answered(conn, awaiting, server, wire)
  BY <1>2 DEF Fit, Discrete, ListUnderWay, Running
<1>4. /\ conn \in Connection /\ awaiting \in Seq(Request) /\ wire \in Seq(Line)
      /\ inbox \in Seq(Request) /\ outbuf \in Seq(Request) /\ server \in Server
  BY DEF TypeOK
<1> DEFINE first == awaiting[1].id
<1>5. /\ Head(awaiting).id = first /\ first \in Nat \ {0}
      /\ First(conn, awaiting) = first + 1 /\ first + 1 <= Last(awaiting)
  <2>1. awaiting # <<>> /\ First(conn, awaiting) <= Last(awaiting)
    BY <1>3 DEF SentList
  <2>2. First(conn, awaiting) = first + 1
    BY <1>2 DEF First, Discrete
  <2>3. first \in Nat \ {0}
    BY <1>3, <1>4, <2>1, NumbersOf
  <2> QED BY <1>4, <2>1, <2>2, <2>3, TailFacts
<1> HIDE DEF first
<1>6. Answers(conn, awaiting, wire)
  BY <1>3 DEF Running, Answered
<1>7. /\ \A i \in 1 .. Len(wire) : wire[i].id >= first + 1 /\ wire[i].id \in Nat
      /\ Upcoming(conn, awaiting, wire) \in Nat
      /\ Upcoming(conn, awaiting, wire) >= first + 1
  <2>1. \A i \in 1 .. Len(wire) : wire[i] \in Line
    BY <1>4, ElementOfSeq
  <2>2. \A i \in 1 .. Len(wire) : wire[i].id \in Nat
    BY <2>1 DEF Line
  <2>3. /\ \A i \in 1 .. Len(wire) : wire[i].id >= First(conn, awaiting)
        /\ Upcoming(conn, awaiting, wire) \in Nat
        /\ Upcoming(conn, awaiting, wire) >= First(conn, awaiting)
    BY <1>4, <1>5, <1>6, NoneIsEarlier
  <2> QED BY <1>5, <2>2, <2>3
<1>8. \A i \in DOMAIN wire : wire[i].id # first
  <2>1. DOMAIN wire = 1 .. Len(wire)
    BY <1>4, LenProperties
  <2>2. \A k \in Nat : k >= first + 1 => k # first
    BY <1>5
  <2> QED BY <1>7, <2>1, <2>2
<1>9. \A i \in DOMAIN inbox : inbox[i].id # first
  <2>1. Len(inbox) + Len(outbuf) = 0 /\ Len(inbox) \in Nat /\ Len(outbuf) \in Nat
    BY <1>3, <1>4, ConcatProperties, EmptySeq, LenProperties DEF queue
  <2>2. DOMAIN inbox = 1 .. Len(inbox) /\ Len(inbox) = 0
    BY <1>4, <2>1
  <2> QED BY <2>2
<1>10. /\ \A i \in DOMAIN server.list : server.list[i] # first
       /\ server.id # first
  <2>1. CASE Running(conn, awaiting, queue, server, wire)
    <3>1. /\ server.id = Last(awaiting)
          /\ \A j \in 1 .. Len(server.list) :
               server.list[j] = Upcoming(conn, awaiting, wire) + j - 1
      BY <1>2, <2>1 DEF Running, Discrete
    <3>2. DOMAIN server.list = 1 .. Len(server.list)
      BY <1>4 DEF Server
    <3>3. Last(awaiting) \in Nat
      BY <1>3, <1>4, NumbersOf DEF SentList
    <3> QED BY <1>5, <1>7, <3>1, <3>2, <3>3
  <2>2. CASE Answered(conn, awaiting, server, wire)
    <3>1. server.list = <<>> /\ server.id = 0
      BY <2>2 DEF Answered, AtRest
    <3> QED BY <1>5, <3>1
  <2> QED BY <1>3, <2>1, <2>2
<1> QED BY <1>5, <1>8, <1>9, <1>10 DEF Unanswered

\* Nothing but mpd_connection_free() frees the connection.
LEMMA OnlyFreeFrees ==
    ASSUME StaysInStep, [Next]_vars, call' = "freed"
    PROVE  Free \/ UNCHANGED vars
<1>1. ASSUME ClientCall PROVE Free
  <2>1. call = "none"
    BY <1>1 DEF ClientCall, RecvPair, ReturnPair, EnqueuePair, EnqueueNull, ResponseFinish,
                ResponseNext, Run, SendCommand, ListBegin, ListEnd, Noidle, RecvIdle,
                BadArgument, OutOfTurn, OutOfMemory, Declined, Flush, ClearError, Free, Idle
  <2>2. \A c : Refused(c) => call' = call
    BY DEF Refused
  <2>3. \A kind \in {"cmd", "idle"} : ~Run(kind)
    BY <2>1, <2>2 DEF Run
  <2>4. \A kind \in {"cmd", "idle"}, long \in BOOLEAN : ~SendCommand(kind, long)
    BY <2>1, <2>2 DEF SendCommand
  <2>5. ~ListEnd /\ \A discrete \in BOOLEAN : ~ListBegin(discrete)
    BY <2>1, <2>2 DEF ListEnd, ListBegin
  <2>6. \A run \in BOOLEAN : ~Noidle(run)
    BY <2>1, <2>2 DEF Noidle
  <2>7. ~Flush /\ \A disable \in BOOLEAN : ~RecvIdle(disable)
    BY <2>1 DEF Flush, RecvIdle
  <2>8. ~BadArgument /\ ~OutOfTurn /\ ~OutOfMemory /\ ~Declined
    BY <2>1, <2>2 DEF BadArgument, OutOfTurn, OutOfMemory, Declined
  <2>9. ~RecvPair /\ ~ReturnPair /\ ~EnqueuePair /\ ~EnqueueNull /\ ~ClearError
    BY <2>1 DEF RecvPair, ReturnPair, EnqueuePair, EnqueueNull, ClearError
  <2>10. ~ResponseFinish /\ ~ResponseNext
    BY <2>1, <2>2 DEF ResponseFinish, ResponseNext
  <2> QED BY <1>1, <2>3, <2>4, <2>5, <2>6, <2>7, <2>8, <2>9, <2>10 DEF ClientCall
<1>2. ASSUME LibraryStep PROVE FALSE
  BY <1>2 DEF LibraryStep, FinishStep, FinishReturns, NextStep, NextGivesUp, NextReturns,
              RecvIdleStep, RecvIdleReturns
<1>3. ASSUME ServerStep \/ HangUp \/ Misbehave PROVE FALSE
  <2>1. link = "up" /\ call' = call
    BY <1>3 DEF ServerStep, ServeCommand, ServeListBegin, ServeListed, ServeListEnd, RunListed,
                RunListEnds, ServeIdle, ServeNoidle, Notify, Accept, Environment, library,
                HangUp, Misbehave
  <2> QED BY <2>1 DEF StaysInStep
<1> QED BY <1>1, <1>2, <1>3 DEF Next, Freed

LEMMA EndStaysGenuine ==
    ASSUME StaysInStep, (call # "freed" => EndIsGenuine)', EndIsGenuine, [Next]_vars
    PROVE  EndIsGenuine'
<1>1. CASE call' # "freed"
  BY <1>1
<1>2. CASE call' = "freed"
  <2>1. Free \/ UNCHANGED vars
    BY <1>2, OnlyFreeFrees
  <2>2. CASE Free
    <3>1. UNCHANGED <<conn, result, inbox, server, awaiting>> /\ wire' = <<>>
      BY <2>2 DEF Free, history
    <3> QED BY <3>1 DEF EndIsGenuine, Unanswered
  <2>3. CASE UNCHANGED vars
    BY <2>3 DEF vars, EndIsGenuine, Unanswered
  <2> QED BY <2>1, <2>2, <2>3
<1> QED BY <1>1, <1>2

\* An idle connection without an error is in step with the server: nothing is left
\* of an earlier request or response (connection.c, send.c, recv.c).
THEOREM IdleIsInSync ==
    ASSUME Careless = {}, StrayLines = {}
    PROVE  Spec => []InSync
<1>1. TypeOK /\ StaysInStep => InSync
  BY QuietIsInSync
<1> QED BY <1>1, TypeCorrect, ClientAndServerStayInStep, PTL

\* A pair always belongs to the response that is being read (recv.c).
THEOREM ResponsesAreAligned ==
    ASSUME Careless = {}, StrayLines = {}
    PROVE  Spec => []ResponsesAligned
<1>1. TypeOK /\ StaysInStep => ResponsesAligned
  BY PairsAreAligned
<1> QED BY <1>1, TypeCorrect, ClientAndServerStayInStep, PTL

\* command_list_remaining counts the responses to come of a discrete list (list.c,
\* recv.c).
THEOREM RemainingIsCounted ==
    ASSUME Careless = {}, StrayLines = {}
    PROVE  Spec => []RemainingCounts
<1>1. TypeOK /\ StaysInStep => RemainingCounts
  BY ListIsCounted
<1> QED BY <1>1, TypeCorrect, ClientAndServerStayInStep, PTL

\* When mpd_recv_pair() says that a (sub-)response has ended, nothing of it is
\* still to come (recv.c).
THEOREM EndsAreGenuine ==
    ASSUME Careless = {}, StrayLines = {}
    PROVE  Spec => []EndIsGenuine
<1>1. TypeOK /\ StaysInStep => (call # "freed" => EndIsGenuine)
  BY NothingIsLeft
<1>2. Init => EndIsGenuine
  BY DEF Init, EndIsGenuine
<1>3. /\ StaysInStep /\ EndIsGenuine /\ [Next]_vars /\ (call # "freed" => EndIsGenuine)'
      => EndIsGenuine'
  BY EndStaysGenuine
<1> QED BY <1>1, <1>2, <1>3, TypeCorrect, ClientAndServerStayInStep, PTL DEF Spec

\* No assertion of the library fails (recv.c, response.c, list.c).
THEOREM NoAssertionFails ==
    ASSUME Careless = {}, StrayLines = {}
    PROVE  Spec => []NoAssertFails
BY ClientAndServerStayInStep
=============================================================================
