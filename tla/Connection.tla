----------------------------- MODULE Connection -----------------------------
(***************************************************************************)
(* struct mpd_connection: one client talking to one MPD server with        *)
(* requests and line-based responses (connection.c, send.c, recv.c,        *)
(* response.c, list.c, idle.c, run.c, error.c).                            *)
(*                                                                         *)
(* The client calls one library function at a time.  A call that blocks in *)
(* a loop (mpd_response_finish, mpd_response_next, mpd_recv_idle and the   *)
(* mpd_run_* functions) is a sequence of steps, one per response line, and *)
(* `call' names the loop the client is in.  The server and the socket are  *)
(* the environment: requests reach the server in order, `wire' holds the   *)
(* response lines the client has not read, and the link may go down.       *)
(*                                                                         *)
(* An operator X_Bug is X with a mistake that is easy to make.  It is not  *)
(* part of the specification; put in place of X it breaks a property.      *)
(***************************************************************************)
EXTENDS Integers, Sequences

CONSTANTS
    MaxRequests,   \* bound: how many requests the client tries to send
    MaxPairs,      \* bound: name-value lines per response
    Garbage,       \* what malloc() may leave in command_list_remaining
    LongArguments, \* BOOLEAN: may a request exceed the output buffer?
    StrayLines,    \* line kinds a misbehaving server may send, once
    Careless       \* the careful client's habits that this one lacks

(* A careful client looks at every result and clears an error before its   *)
(* next request, as connection.h asks.  It also does two things that no    *)
(* document asks for: it reads a NULL pair back before it leaves a         *)
(* response, and it calls mpd_response_next() in a discrete list only,     *)
(* while there is a sub-response to go to.                                 *)
Habits == {"ignores errors", "sends over NULL", "next over NULL", "next anytime"}

ASSUME ConstantsAssumption ==
    /\ MaxRequests \in Nat
    /\ MaxPairs \in Nat
    /\ Garbage \subseteq Int /\ Garbage # {}
    /\ LongArguments \in BOOLEAN
    /\ StrayLines \subseteq {"OK", "list_OK", "pair", "garbage", "huge"}
    /\ Careless \subseteq Habits

VARIABLES
    conn,       \* the attributes of struct mpd_connection
    asyncError, \* async->error.code
    outbuf,     \* requests in the output buffer, not yet written
    timeout,    \* is connection->timeout set (not zeroed by mpd_recv_idle)?
    call,       \* the library loop the client is blocked in
    result,     \* what the last call returned to the client
    inbox,      \* requests on their way to the server
    server,     \* the server's protocol state
    wire,       \* response lines on their way to the client
    link,       \* is the socket connection intact?
    sent,       \* history: requests the client has tried to send
    awaiting    \* history: requests whose (sub-)response is outstanding

library == <<conn, asyncError, outbuf, timeout, call, result>>
environment == <<server, wire, link>>
history == <<sent, awaiting>>
vars == <<conn, asyncError, outbuf, timeout, call, result,
          inbox, server, wire, link, sent, awaiting>>

Errors == {"SUCCESS", "ARGUMENT", "STATE", "TIMEOUT", "SYSTEM",
           "MALFORMED", "CLOSED", "SERVER", "OOM"}
PairStates == {"NONE", "NULL", "QUEUED", "FLOATING"}
Kinds == {"cmd", "begin", "begin_ok", "end", "idle", "noidle"}
LineKinds == {"OK", "list_OK", "ACK", "pair", "garbage", "huge"}
Calls == {"none", "finish", "next", "recv_idle", "run_idle", "freed"}
Results == {"none", "pair", "end", "error", "true", "false"}

Request == [id : Nat, kind : Kinds]
Line == [kind : LineKinds, id : Nat]

(* asserts records whether an assert() of the debug build would have      *)
(* failed; the release build carries on, and so does the model.  The pair *)
(* is abstracted to the request whose response it came from.              *)
Connection ==
    [error : Errors, receiving : BOOLEAN, sendingList : BOOLEAN,
     sendingListOk : BOOLEAN, discreteFinished : BOOLEAN, remaining : Int,
     pairState : PairStates, pair : Nat, asserts : BOOLEAN]

Server == [mode : {"ready", "list", "run", "idle"}, discrete : BOOLEAN,
           list : Seq(Nat), id : Nat, strays : Nat]

(***************************************************************************)
(* Errors (ierror.h, error.c)                                              *)
(***************************************************************************)
Defined(e) == e # "SUCCESS"

Fatal(e) == e \notin {"SUCCESS", "ARGUMENT", "STATE", "SERVER"}

\* mpd_error_code(): asserts that no error is defined yet
SetError(c, e) == [c EXCEPT !.error = e, !.asserts = @ \/ Defined(c.error)]

\* mpd_connection_sync_error(): copies the async error, or else TIMEOUT
SyncError(c, e) == [c EXCEPT !.error = e]

\* a timeout is noticed by sync.c only: the async object does not learn of it
AsyncAfter(e) == IF e \in {"SUCCESS", "TIMEOUT"} THEN asyncError ELSE e

\* how blocking I/O can fail now: select() times out, or the socket breaks
IOErrors == {e \in {"TIMEOUT", "CLOSED", "SYSTEM"} :
                IF e = "TIMEOUT" THEN timeout ELSE link = "down"}

(***************************************************************************)
(* Sending.  An outcome is what a call of sync.c leaves behind: the output *)
(* buffer, what the server was sent, and the error the caller will see.    *)
(***************************************************************************)
Drained(p, in, k, e) ==
    [out |-> SubSeq(p, k + 1, Len(p)), in |-> in \o SubSeq(p, 1, k),
     err |-> e]

IOFailures(p, in) ==
    {Drained(p, in, k, e) : k \in 0 .. Len(p) - 1, e \in IOErrors}

\* mpd_sync_flush() with p in the output buffer
Flushes(p, in) ==
    IF Defined(asyncError)
    THEN {[out |-> p, in |-> in, err |-> asyncError]}
    ELSE {Drained(p, in, Len(p), "SUCCESS")} \cup IOFailures(p, in)

\* mpd_sync_send_command_v(): part of the buffer may have to be written to
\* make room; a request that does not even fit an empty buffer is refused
Enqueues(req, long) ==
    IF Defined(asyncError)
    THEN {[out |-> outbuf, in |-> inbox, err |-> asyncError]}
    ELSE IOFailures(outbuf, inbox) \cup
         IF long
         THEN {Drained(outbuf, inbox, Len(outbuf), "ARGUMENT")}
         ELSE {[out |-> Append(SubSeq(outbuf, k + 1, Len(outbuf)), req),
                in |-> inbox \o SubSeq(outbuf, 1, k),
                err |-> "SUCCESS"] : k \in 0 .. Len(outbuf)}

Sends_BugNoFlush(req, long, flush) == Enqueues(req, long)

\* the I/O of mpd_send_command(): enqueue and, outside lists, flush
Sends(req, long, flush) ==
    IF flush
    THEN {o \in Enqueues(req, long) : Defined(o.err)} \cup
         UNION {Flushes(o.out, o.in) :
                  o \in {q \in Enqueues(req, long) : ~Defined(q.err)}}
    ELSE Enqueues(req, long)

\* send_check()
MaySend(c) == ~Defined(c.error) /\ ~c.receiving
SendCheck(c) ==
    IF ~Defined(c.error) /\ c.receiving THEN SetError(c, "STATE") ELSE c

\* the connection once mpd_send_command() has enqueued and flushed
Commanded(c) ==
    IF ~c.sendingList THEN [c EXCEPT !.receiving = TRUE]
    ELSE IF c.sendingListOk THEN [c EXCEPT !.remaining = @ + 1]
    ELSE c

Transmitted(o) ==
    /\ outbuf' = o.out
    /\ inbox' = o.in
    /\ asyncError' = AsyncAfter(o.err)
    /\ sent' = sent + 1

NextRequest(kind) == [id |-> sent + 1, kind |-> kind]

(***************************************************************************)
(* Receiving.  mpd_recv_pair() either answers from the attributes of the   *)
(* connection, or takes one line; an outcome is the connection, the lines  *)
(* left and the async error after the call.                                *)
(***************************************************************************)
Answer(c) == [conn |-> c, wire |-> wire, async |-> asyncError]

AlreadyDone_BugReadsOn(c) == ~c.receiving

\* "already done processing current command"
AlreadyDone(c) ==
    \/ ~c.receiving
    \/ c.sendingList /\ c.remaining > 0 /\ c.discreteFinished

\* MPD_PARSER_SUCCESS with "OK"
FeedOK(c) ==
    LET missing == c.sendingList /\ c.remaining > 0
        checked == IF missing THEN [SetError(c, "MALFORMED") EXCEPT !.remaining = 0]
                              ELSE c
    IN  [checked EXCEPT !.receiving = FALSE, !.sendingList = FALSE,
                        !.discreteFinished = FALSE]

FeedListOK_BugEndsAll(c) == [c EXCEPT !.receiving = FALSE, !.sendingList = FALSE]

FeedListOK_BugUnchecked(c) ==
    [c EXCEPT !.discreteFinished = TRUE, !.remaining = @ - 1]

\* MPD_PARSER_SUCCESS with "list_OK"
FeedListOK(c) ==
    IF ~c.sendingList \/ c.remaining = 0
    THEN SetError(c, "MALFORMED")
    ELSE [c EXCEPT !.discreteFinished = TRUE, !.remaining = @ - 1]

\* MPD_PARSER_ERROR
FeedACK(c) ==
    [SetError(c, "SERVER") EXCEPT !.receiving = FALSE, !.sendingList = FALSE]

\* one line given to mpd_parser_feed()
Feed(c, line) ==
    CASE line.kind = "OK"      -> FeedOK(c)
      [] line.kind = "list_OK" -> FeedListOK(c)
      [] line.kind = "ACK"     -> FeedACK(c)
      [] line.kind = "pair"    -> [c EXCEPT !.pairState = "FLOATING",
                                            !.pair = line.id]
      [] OTHER -> [SetError(c, "MALFORMED") EXCEPT !.receiving = FALSE]

\* mpd_sync_recv_line() returns a line ...
LineReads(c) ==
    IF wire = <<>> \/ Head(wire).kind = "huge" THEN {}
    ELSE {[conn |-> Feed(c, Head(wire)), wire |-> Tail(wire), async |-> asyncError]}

\* ... or NULL: broken or timed out, or a line larger than the input buffer
ReadErrors ==
    IF Defined(asyncError) THEN {asyncError}
    ELSE IOErrors \cup
         {e \in {"MALFORMED"} : wire # <<>> /\ Head(wire).kind = "huge"}

FailedReads(c) ==
    {[conn |-> SyncError([c EXCEPT !.receiving = FALSE, !.sendingList = FALSE], e),
      wire |-> wire, async |-> AsyncAfter(e)] : e \in ReadErrors}

RecvPairs(c) ==
    IF Defined(c.error) THEN {Answer(c)}
    ELSE IF c.pairState = "NULL" THEN {Answer([c EXCEPT !.pairState = "NONE"])}
    ELSE IF c.pairState = "QUEUED"
         THEN {Answer([c EXCEPT !.pairState = "FLOATING"])}
    ELSE IF AlreadyDone(c) THEN {Answer(SetError(c, "STATE"))}
    ELSE LineReads(c) \cup FailedReads(c)

\* what the client learns from mpd_recv_pair() and the connection's error
Received(c) == IF Defined(c.error) THEN "error"
               ELSE IF c.pairState = "FLOATING" THEN "pair" ELSE "end"

Succeeded(c) == IF Defined(c.error) THEN "false" ELSE "true"

Returned(c) == IF c.pairState = "FLOATING" THEN [c EXCEPT !.pairState = "NONE"]
                                           ELSE c

\* the requests that still await an answer once c has become d
Outstanding(c, d) ==
    IF c.receiving /\ ~d.receiving THEN <<>> ELSE awaiting

\* ... and once the client has left the sub-response that is finished
Following == SubSeq(awaiting, 2, Len(awaiting))

Took(o) == wire' = o.wire /\ asyncError' = o.async

(***************************************************************************)
(* The client's calls.  Every client returns or takes back each pair (the  *)
(* assertions ask for it); the other habits are dropped by Careless.       *)
(***************************************************************************)
Idle == call = "none"

ChecksErrors == "ignores errors" \in Careless \/ ~Defined(conn.error)

\* no pair and no NULL is waiting to be read again
NothingUnread(habit) == habit \in Careless \/ conn.pairState = "NONE"

\* in a discrete list's response, with a sub-response to be finished
HasNext == "next anytime" \in Careless \/ (conn.sendingListOk /\ Len(awaiting) > 1)

MayRequest == ChecksErrors /\ NothingUnread("sends over NULL")

IdleOutstanding == conn.receiving /\ awaiting # <<>> /\ Head(awaiting).kind = "idle"

MayTry == sent < MaxRequests

\* a call refused before any I/O
Refused(c) ==
    /\ conn' = c
    /\ result' = "false"
    /\ UNCHANGED <<asyncError, outbuf, timeout, call, inbox, environment, history>>

(* A function that refuses its argument, such as a tag without a name, or  *)
(* that finds itself called out of turn, before it does anything else.     *)
BadArgument == Idle /\ ChecksErrors /\ Refused(SetError(conn, "ARGUMENT"))
OutOfTurn == Idle /\ ~Defined(conn.error) /\ Refused(SetError(conn, "STATE"))

\* One that has no memory for a request or for an object.
OutOfMemory == Idle /\ ~Defined(conn.error) /\ Refused(SetError(conn, "OOM"))

\* One that returns false without an error: a play mode that has no name.
Declined == Idle /\ ChecksErrors /\ Refused(conn)

\* mpd_recv_pair()
RecvPair ==
    /\ Idle /\ conn.pairState # "FLOATING"
    /\ \E o \in RecvPairs(conn) :
          /\ conn' = o.conn
          /\ Took(o)
          /\ result' = Received(o.conn)
          /\ awaiting' = Outstanding(conn, o.conn)
    /\ UNCHANGED <<outbuf, timeout, call, inbox, server, link, sent>>

\* mpd_return_pair()
ReturnPair ==
    /\ Idle /\ conn.pairState = "FLOATING"
    /\ conn' = [conn EXCEPT !.pairState = "NONE"]
    /\ result' = "none"
    /\ UNCHANGED <<asyncError, outbuf, timeout, call, inbox, environment, history>>

\* mpd_enqueue_pair() with the pair just received
EnqueuePair ==
    /\ Idle /\ conn.pairState = "FLOATING"
    /\ conn' = [conn EXCEPT !.pairState = "QUEUED"]
    /\ result' = "none"
    /\ UNCHANGED <<asyncError, outbuf, timeout, call, inbox, environment, history>>

\* mpd_enqueue_pair() with the NULL just received
EnqueueNull ==
    /\ Idle /\ result = "end" /\ conn.pairState = "NONE"
    /\ conn' = [conn EXCEPT !.pairState = "NULL"]
    /\ result' = "none"
    /\ UNCHANGED <<asyncError, outbuf, timeout, call, inbox, environment, history>>

Finishing_BugKeepsNull(c) == c

\* mpd_response_finish(), up to its loop
Finishing(c) == IF c.pairState = "NULL" THEN [c EXCEPT !.pairState = "NONE"] ELSE c

ResponseFinish ==
    /\ Idle /\ conn.pairState # "FLOATING"
    /\ IF Defined(conn.error) THEN Refused(conn)
       ELSE /\ conn' = Finishing(conn)
            /\ call' = "finish"
            /\ result' = "none"
            /\ UNCHANGED <<asyncError, outbuf, timeout, inbox, environment, history>>

\* one iteration of mpd_response_finish()'s loop
FinishStep ==
    /\ call = "finish" /\ conn.receiving
    /\ LET entered == [conn EXCEPT !.discreteFinished = FALSE,
                                   !.asserts = @ \/ Defined(conn.error)]
       IN  \E o \in RecvPairs(entered) :
             LET progress == \/ o.conn.pairState = "FLOATING"
                             \/ ~o.conn.receiving
                             \/ o.conn.sendingList /\ o.conn.discreteFinished
                             \/ Defined(o.conn.error)
             IN  /\ conn' = [Returned(o.conn) EXCEPT !.asserts = @ \/ ~progress]
                 /\ Took(o)
                 /\ awaiting' = IF ~o.conn.receiving THEN <<>>
                                ELSE IF conn.sendingList /\ conn.discreteFinished
                                THEN Following
                                ELSE awaiting
    /\ UNCHANGED <<outbuf, timeout, call, result, inbox, server, link, sent>>

FinishReturns ==
    /\ call = "finish" /\ ~conn.receiving
    /\ call' = "none"
    /\ result' = Succeeded(conn)
    /\ UNCHANGED <<conn, asyncError, outbuf, timeout, inbox, environment, history>>

\* mpd_response_next(), up to its loop
ResponseNext ==
    /\ Idle /\ conn.pairState # "FLOATING" /\ HasNext
    /\ NothingUnread("next over NULL")
    /\ IF Defined(conn.error) THEN Refused(conn)
       ELSE IF ~conn.receiving \/ ~conn.sendingListOk
       THEN Refused(SetError(conn, "STATE"))
       ELSE /\ call' = "next"
            /\ result' = "none"
            /\ UNCHANGED <<conn, asyncError, outbuf, timeout, inbox, environment, history>>

NextLoops_BugNoDrain(c) == FALSE

\* mpd_response_next()'s loop condition
NextLoops(c) == ~c.discreteFinished

\* one iteration of the loop
NextStep ==
    /\ call = "next" /\ NextLoops(conn)
    /\ conn.remaining # 0 /\ conn.receiving
    /\ \E o \in RecvPairs(conn) :
          /\ conn' = Returned(o.conn)
          /\ Took(o)
          /\ awaiting' = Outstanding(conn, o.conn)
          /\ IF Defined(o.conn.error)
             THEN call' = "none" /\ result' = "false"
             ELSE UNCHANGED <<call, result>>
    /\ UNCHANGED <<outbuf, timeout, inbox, server, link, sent>>

\* "No list_OK found"
NextGivesUp ==
    /\ call = "next" /\ NextLoops(conn)
    /\ conn.remaining = 0 \/ ~conn.receiving
    /\ conn' = SetError(conn, "MALFORMED")
    /\ call' = "none"
    /\ result' = "false"
    /\ UNCHANGED <<asyncError, outbuf, timeout, inbox, environment, history>>

NextReturns ==
    /\ call = "next" /\ ~NextLoops(conn)
    /\ conn' = [conn EXCEPT !.discreteFinished = FALSE]
    /\ call' = "none"
    /\ result' = "true"
    /\ awaiting' = Following
    /\ UNCHANGED <<asyncError, outbuf, timeout, inbox, environment, sent>>

\* mpd_send_command() with the I/O outcome o, from a connection that may send
AfterSend(c, o) ==
    IF Defined(o.err) THEN SyncError(c, o.err) ELSE Commanded(c)

\* the requests awaiting answers once request req has been sent
Appended(c, req) ==
    IF ~c.sendingList THEN <<req>>
    ELSE IF c.sendingListOk THEN Append(awaiting, req)
    ELSE awaiting

(* mpd_send_command(); mpd_send_idle() is the kind "idle", which no list   *)
(* may hold.  A long request exceeds the output buffer.                    *)
SendCommand(kind, long) ==
    /\ Idle /\ MayTry /\ MayRequest
    /\ kind = "idle" => ~conn.sendingList
    /\ IF ~MaySend(conn) THEN Refused(SendCheck(conn))
       ELSE \E o \in Sends(NextRequest(kind), long, ~conn.sendingList) :
              /\ Transmitted(o)
              /\ conn' = AfterSend(conn, o)
              /\ result' = IF Defined(o.err) THEN "false" ELSE "true"
              /\ awaiting' = IF Defined(o.err) THEN awaiting
                             ELSE Appended(conn, NextRequest(kind))
              /\ UNCHANGED <<timeout, call, environment>>

\* mpd_run_check()
RunCheck(c) ==
    IF ~Defined(c.error) /\ c.sendingList THEN SetError(c, "STATE") ELSE c

(* The mpd_run_* functions check, send one request and finish its response *)
(* (kind "cmd"); mpd_run_idle() receives the events before, and            *)
(* mpd_recv_idle() has turned off the timeout.                             *)
Run(kind) ==
    /\ Idle /\ MayTry /\ MayRequest
    /\ IF conn.sendingList THEN Refused(RunCheck(conn))
       ELSE IF ~MaySend(conn) THEN Refused(SendCheck(conn))
       ELSE \E o \in Sends(NextRequest(kind), FALSE, TRUE) :
              /\ Transmitted(o)
              /\ IF Defined(o.err)
                 THEN /\ conn' = SyncError(conn, o.err)
                      /\ result' = "false"
                      /\ UNCHANGED <<timeout, call, awaiting>>
                 ELSE /\ conn' = IF kind = "cmd" THEN Finishing(Commanded(conn))
                                                 ELSE Commanded(conn)
                      /\ call' = IF kind = "cmd" THEN "finish" ELSE "run_idle"
                      /\ timeout' = (kind = "cmd")
                      /\ result' = "none"
                      /\ awaiting' = <<NextRequest(kind)>>
              /\ UNCHANGED environment

Listing_BugStaleCount(c, discrete) ==
    [c EXCEPT !.sendingList = TRUE, !.sendingListOk = discrete,
              !.discreteFinished = FALSE]

\* the connection once mpd_command_list_begin() has enqueued its request
Listing(c, discrete) ==
    [c EXCEPT !.sendingList = TRUE, !.sendingListOk = discrete,
              !.remaining = 0, !.discreteFinished = FALSE]

\* mpd_command_list_begin(): not flushed, and no error is looked for before
\* the complaint about a list in progress
ListBegin(discrete) ==
    /\ Idle /\ MayTry /\ MayRequest
    /\ IF conn.sendingList THEN Refused(SetError(conn, "STATE"))
       ELSE IF ~MaySend(conn) THEN Refused(SendCheck(conn))
       ELSE \E o \in Sends(NextRequest(IF discrete THEN "begin_ok" ELSE "begin"),
                           FALSE, FALSE) :
              /\ Transmitted(o)
              /\ conn' = IF Defined(o.err) THEN SyncError(conn, o.err)
                         ELSE Listing(conn, discrete)
              /\ result' = IF Defined(o.err) THEN "false" ELSE "true"
              /\ awaiting' = <<>>
              /\ UNCHANGED <<timeout, call, environment>>

\* mpd_command_list_end(): the list flag is lowered while "command_list_end"
\* is sent, so that mpd_send_command() flushes and starts receiving
ListEnd ==
    /\ Idle /\ MayTry /\ MayRequest
    /\ IF ~conn.sendingList THEN Refused(SetError(conn, "STATE"))
       ELSE IF ~MaySend(conn) THEN Refused(SendCheck(conn))
       ELSE \E o \in Sends(NextRequest("end"), FALSE, TRUE) :
              LET after == AfterSend([conn EXCEPT !.sendingList = FALSE], o)
              IN  /\ Transmitted(o)
                  /\ conn' = [after EXCEPT
                                !.sendingList = TRUE,
                                !.asserts = @ \/ ~(after.receiving \/ Defined(o.err))]
                  /\ result' = IF Defined(o.err) THEN "false" ELSE "true"
                  /\ awaiting' = IF Defined(o.err) THEN awaiting
                                 ELSE Append(awaiting, NextRequest("end"))
                  /\ UNCHANGED <<timeout, call, environment>>

(* mpd_send_noidle() goes out while the response of "idle" is outstanding; *)
(* mpd_run_noidle() checks before, and receives that response after.       *)
Noidle(run) ==
    /\ Idle /\ MayTry /\ MayRequest /\ IdleOutstanding
    /\ LET ready == [conn EXCEPT !.receiving = FALSE]
       IN  IF Defined(conn.error)
           THEN Refused(IF run THEN conn ELSE ready)
           ELSE \E o \in Sends(NextRequest("noidle"), FALSE, TRUE) :
                  /\ Transmitted(o)
                  /\ conn' = AfterSend(ready, o)
                  /\ call' = IF run /\ ~Defined(o.err) THEN "run_idle" ELSE "none"
                  /\ result' = IF Defined(o.err) THEN "false" ELSE "true"
                  /\ UNCHANGED <<timeout, environment, awaiting>>

\* mpd_flush(): it does not look for an earlier error
Flush ==
    /\ Idle
    /\ \E o \in Flushes(outbuf, inbox) :
          /\ outbuf' = o.out
          /\ inbox' = o.in
          /\ asyncError' = AsyncAfter(o.err)
          /\ conn' = IF Defined(o.err) THEN SyncError(conn, o.err) ELSE conn
          /\ result' = IF Defined(o.err) THEN "false" ELSE "true"
    /\ UNCHANGED <<timeout, call, environment, history>>

\* mpd_recv_idle(), up to its loop: flush, then turn off the timeout
RecvIdle(disable) ==
    /\ Idle /\ conn.pairState # "FLOATING" /\ IdleOutstanding
    /\ \E o \in IF disable THEN Flushes(outbuf, inbox)
                ELSE {[out |-> outbuf, in |-> inbox, err |-> "SUCCESS"]} :
          /\ outbuf' = o.out
          /\ inbox' = o.in
          /\ asyncError' = AsyncAfter(o.err)
          /\ conn' = IF Defined(o.err) THEN SyncError(conn, o.err) ELSE conn
          /\ timeout' = (Defined(o.err) \/ ~disable)
          /\ call' = IF Defined(o.err) THEN "none" ELSE "recv_idle"
          /\ result' = IF Defined(o.err) THEN "false" ELSE "none"
    /\ UNCHANGED <<environment, history>>

\* mpd_recv_idle() collects one event ...
RecvIdleStep ==
    /\ call \in {"recv_idle", "run_idle"}
    /\ \E o \in RecvPairs(conn) :
          /\ o.conn.pairState = "FLOATING"
          /\ conn' = Returned(o.conn)
          /\ Took(o)
    /\ UNCHANGED <<outbuf, timeout, call, result, inbox, server, link, history>>

RestoredTimeout_BugForgotten == timeout

\* old_timeout of mpd_recv_idle()
RestoredTimeout == TRUE

\* ... or ends, and the timeout is back; mpd_run_idle() goes on to finish
RecvIdleReturns ==
    /\ call \in {"recv_idle", "run_idle"}
    /\ \E o \in RecvPairs(conn) :
          /\ o.conn.pairState # "FLOATING"
          /\ conn' = o.conn
          /\ Took(o)
          /\ awaiting' = Outstanding(conn, o.conn)
          /\ result' = Received(o.conn)
          /\ call' = IF call = "run_idle" /\ ~Defined(o.conn.error)
                     THEN "finish" ELSE "none"
    /\ timeout' = RestoredTimeout
    /\ UNCHANGED <<outbuf, inbox, server, link, sent>>

Cleared_BugAlways(c) == [c EXCEPT !.error = "SUCCESS"]

Cleared(c) == IF Fatal(c.error) THEN c ELSE [c EXCEPT !.error = "SUCCESS"]

\* mpd_connection_clear_error()
ClearError ==
    /\ Idle /\ Defined(conn.error)
    /\ conn' = Cleared(conn)
    /\ result' = Succeeded(Cleared(conn))
    /\ UNCHANGED <<asyncError, outbuf, timeout, call, inbox, environment, history>>

\* mpd_connection_free(): the socket is closed
Free ==
    /\ Idle /\ conn.pairState # "FLOATING"
    /\ call' = "freed"
    /\ link' = "down"
    /\ outbuf' = <<>> /\ wire' = <<>>
    /\ UNCHANGED <<conn, asyncError, timeout, result, inbox, server, history>>

Freed == call = "freed" /\ UNCHANGED vars

(***************************************************************************)
(* The server and the network.  Lines carry the id of the request they     *)
(* answer: in a plain list, that of "command_list_end".                    *)
(***************************************************************************)
Lines(n, id) == [i \in 1 .. n |-> [kind |-> "pair", id |-> id]]

Respond(n, kind, id) == wire' = wire \o Append(Lines(n, id), [kind |-> kind, id |-> id])

Environment == UNCHANGED <<library, sent, awaiting>>

\* the server, up and in one of these modes, takes a request of these kinds
Accept(modes, kinds) ==
    /\ link = "up" /\ server.mode \in modes
    /\ inbox # <<>> /\ Head(inbox).kind \in kinds
    /\ inbox' = Tail(inbox)

Ready == [server EXCEPT !.mode = "ready", !.list = <<>>, !.id = 0, !.discrete = FALSE]

ServeCommand ==
    /\ Accept({"ready"}, {"cmd"})
    /\ \E n \in 0 .. MaxPairs, kind \in {"OK", "ACK"} :
          Respond(n, kind, Head(inbox).id)
    /\ Environment /\ UNCHANGED <<server, link>>

ServeListBegin ==
    /\ Accept({"ready"}, {"begin", "begin_ok"})
    /\ server' = [server EXCEPT !.mode = "list", !.list = <<>>,
                                !.discrete = (Head(inbox).kind = "begin_ok")]
    /\ Environment /\ UNCHANGED <<wire, link>>

ServeListed ==
    /\ Accept({"list"}, {"cmd"})
    /\ server' = [server EXCEPT !.list = Append(@, Head(inbox).id)]
    /\ Environment /\ UNCHANGED <<wire, link>>

ServeListEnd ==
    /\ Accept({"list"}, {"end"})
    /\ server' = [server EXCEPT !.mode = "run", !.id = Head(inbox).id]
    /\ Environment /\ UNCHANGED <<wire, link>>

\* the commands of a list run one after the other; the first to fail ends it
RunListed ==
    /\ link = "up" /\ server.mode = "run" /\ server.list # <<>>
    /\ LET id == IF server.discrete THEN Head(server.list) ELSE server.id
       IN  \E n \in 0 .. MaxPairs :
             \/ /\ Respond(n, "ACK", id)
                /\ server' = Ready
             \/ /\ IF server.discrete THEN Respond(n, "list_OK", id)
                                      ELSE wire' = wire \o Lines(n, id)
                /\ server' = [server EXCEPT !.list = Tail(@)]
    /\ Environment /\ UNCHANGED <<inbox, link>>

RunListEnds ==
    /\ link = "up" /\ server.mode = "run" /\ server.list = <<>>
    /\ Respond(0, "OK", server.id)
    /\ server' = Ready
    /\ Environment /\ UNCHANGED <<inbox, link>>

ServeIdle ==
    /\ Accept({"ready"}, {"idle"})
    /\ server' = [server EXCEPT !.mode = "idle", !.id = Head(inbox).id]
    /\ Environment /\ UNCHANGED <<wire, link>>

\* "noidle" ends idling; it is ignored when the events have already gone out
ServeNoidle ==
    /\ Accept({"ready", "idle"}, {"noidle"})
    /\ IF server.mode = "idle" THEN Respond(0, "OK", server.id) ELSE UNCHANGED wire
    /\ server' = Ready
    /\ Environment /\ UNCHANGED link

\* events end idling on their own
Notify ==
    /\ link = "up" /\ server.mode = "idle"
    /\ \E n \in 0 .. MaxPairs : Respond(n, "OK", server.id)
    /\ server' = Ready
    /\ Environment /\ UNCHANGED <<inbox, link>>

HangUp ==
    /\ link = "up" /\ link' = "down"
    /\ Environment /\ UNCHANGED <<inbox, server, wire>>

\* once, a line nobody asked for
Misbehave ==
    /\ link = "up" /\ server.strays = 0
    /\ \E kind \in StrayLines : wire' = Append(wire, [kind |-> kind, id |-> 0])
    /\ server' = [server EXCEPT !.strays = 1]
    /\ Environment /\ UNCHANGED <<inbox, link>>

(***************************************************************************)
Init ==
    /\ conn \in [error : {"SUCCESS"}, receiving : {FALSE}, sendingList : {FALSE},
                 sendingListOk : BOOLEAN, discreteFinished : BOOLEAN,
                 remaining : Garbage, pairState : {"NONE"}, pair : {0},
                 asserts : {FALSE}]
    /\ asyncError = "SUCCESS" /\ outbuf = <<>> /\ timeout = TRUE
    /\ call = "none" /\ result = "none"
    /\ inbox = <<>> /\ wire = <<>> /\ link = "up"
    /\ server = [mode |-> "ready", discrete |-> FALSE, list |-> <<>>,
                 id |-> 0, strays |-> 0]
    /\ sent = 0 /\ awaiting = <<>>

ClientCall ==
    \/ RecvPair \/ ReturnPair \/ EnqueuePair \/ EnqueueNull
    \/ ResponseFinish \/ ResponseNext
    \/ \E kind \in {"cmd", "idle"} : Run(kind)
    \/ SendCommand("cmd", FALSE) \/ SendCommand("idle", FALSE)
    \/ LongArguments /\ SendCommand("cmd", TRUE)
    \/ \E discrete \in BOOLEAN : ListBegin(discrete)
    \/ ListEnd
    \/ \E run \in BOOLEAN : Noidle(run)
    \/ \E disable \in BOOLEAN : RecvIdle(disable)
    \/ BadArgument \/ OutOfTurn \/ OutOfMemory \/ Declined
    \/ Flush \/ ClearError \/ Free

LibraryStep ==
    \/ FinishStep \/ FinishReturns
    \/ NextStep \/ NextGivesUp \/ NextReturns
    \/ RecvIdleStep \/ RecvIdleReturns

ServerStep ==
    \/ ServeCommand \/ ServeListBegin \/ ServeListed \/ ServeListEnd
    \/ RunListed \/ RunListEnds \/ ServeIdle \/ ServeNoidle \/ Notify

Next ==
    \/ ClientCall \/ LibraryStep \/ Freed
    \/ ServerStep \/ HangUp \/ Misbehave

Spec == Init /\ [][Next]_vars

(* A call runs on without the client, and select() returns at the latest   *)
(* when the timeout expires, so some step of a call is always due.         *)
FairSpec == Spec /\ WF_vars(LibraryStep)

(***************************************************************************)
(* Properties                                                              *)
(***************************************************************************)
\* Every variable has its type.
TypeOK ==
    /\ conn \in Connection
    /\ asyncError \in Errors
    /\ outbuf \in Seq(Request)
    /\ timeout \in BOOLEAN
    /\ call \in Calls
    /\ result \in Results
    /\ inbox \in Seq(Request)
    /\ server \in Server
    /\ wire \in Seq(Line)
    /\ link \in {"up", "down"}
    /\ sent \in Nat
    /\ awaiting \in Seq(Request)

\* No assert() of the library fails (debug builds abort there).
NoAssertFails == ~conn.asserts

\* A connection that is idle and without an error is in step with the server:
\* nothing is left of an earlier response, nor of an earlier request except
\* a "noidle" that came too late, which the server answers with silence.
InSync ==
    (Idle /\ ~conn.receiving /\ ~conn.sendingList /\ ~Defined(conn.error)) =>
        /\ wire = <<>> /\ outbuf = <<>>
        /\ server.mode = "ready"
        /\ \A i \in DOMAIN inbox : inbox[i].kind = "noidle"

\* A pair handed to the client, now or taken back for later, belongs to the
\* (sub-)response the client is reading, never to an earlier or a later one.
ResponsesAligned ==
    (conn.pairState \in {"FLOATING", "QUEUED"} /\ ~Defined(conn.error)) =>
        awaiting # <<>> /\ conn.pair = Head(awaiting).id

\* what has not yet been received of the answer to request id
Unanswered(id) ==
    \/ \E i \in DOMAIN wire : wire[i].id = id
    \/ \E i \in DOMAIN inbox : inbox[i].id = id
    \/ \E i \in DOMAIN server.list : server.list[i] = id
    \/ server.id = id

\* When mpd_recv_pair() or mpd_recv_idle() says that a (sub-)response has
\* ended, nothing of that (sub-)response is still to come.  (Behind the last
\* sub-response there is only the list's own "OK", which carries no data.)
EndIsGenuine ==
    (result = "end" /\ conn.receiving /\ Head(awaiting).kind # "end") =>
        ~Unanswered(Head(awaiting).id)

\* While a response is awaited, no request is held back in the output buffer:
\* the client never waits for the answer to what it has not sent.
FlushedBeforeReceiving == conn.receiving => outbuf = <<>>

\* In a discrete command list, command_list_remaining is the number of
\* list_OK still to be received: one per command that has been accepted.
RemainingCounts ==
    (Idle /\ conn.sendingList /\ conn.sendingListOk /\ ~Defined(conn.error)) =>
        conn.remaining =
            Len(awaiting) - (IF conn.receiving
                             THEN IF conn.discreteFinished THEN 2 ELSE 1
                             ELSE 0)

\* No server, whatever it sends, takes command_list_remaining below zero, or
\* above the number of the list's commands.
RemainingInRange ==
    (conn.sendingList /\ conn.sendingListOk) => conn.remaining \in 0 .. sent

\* The async object keeps the first error of the socket or of a request that
\* is too long, never one of the protocol; and a request that is too long is
\* refused when nothing is being received, so that no fatal error of the
\* connection but OOM can hide behind the async object's recoverable one.
AsyncErrorKinds ==
    /\ asyncError \in {"SUCCESS", "ARGUMENT", "SYSTEM", "MALFORMED", "CLOSED"}
    /\ asyncError = "ARGUMENT" =>
          /\ ~conn.receiving /\ call # "next"
          /\ ~Fatal(conn.error) \/ conn.error = "OOM"

\* A fatal error stays fatal: nothing makes the connection look usable again.
\* (But mpd_flush() looks at no error, so that after a request that was too long
\* its error takes the place of a lack of memory.)
FatalIsSticky ==
    [][Fatal(conn.error) /\ ~(conn.error = "OOM" /\ asyncError = "ARGUMENT")
           => Fatal(conn'.error)]_vars

\* mpd_response_finish() and mpd_response_next() return, whatever the server
\* and the network do, unless a stray list_OK has left an error in the middle of
\* a response (recv.c:131).
CallReturns ==
    call \in {"finish", "next"} ~>
        call = "none" \/ (conn.error = "MALFORMED" /\ conn.receiving)
=============================================================================
