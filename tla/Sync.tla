-------------------------------- MODULE Sync --------------------------------
(***************************************************************************)
(* The blocking functions of sync.c: each is a loop that tries what it     *)
(* wants with the async object, waits with select() for the socket, and    *)
(* lets the object do its I/O.  `call' is the function the user is in;     *)
(* `step' is where its loop is.  The user is the connection.              *)
(***************************************************************************)
EXTENDS Async

CONSTANT NoidleWithPair    \* BOOLEAN: may a request be sent while a pair is held?

ASSUME SyncAssumption == NoidleWithPair \in BOOLEAN

VARIABLES
    call,      \* "none", "send", "flush", "line" or "raw"
    step,      \* "first", "try", "check" or "wait"
    argument,  \* the request to send, or how many bytes to receive
    result,    \* what the last call returned: "none", "true" or "false"
    line       \* the line the user holds: where it is and what it was

vars == <<async, accepted, delivered, arrived, taken,
          call, step, argument, result, line>>

NoRequest == [command |-> 0, total |-> 0]
NoLine == [at |-> 0, length |-> -1, first |-> 0]

Idle == call = "none"

Goto(s) == step' = s /\ UNCHANGED <<call, argument, result>>

Return(r) ==
    /\ call' = "none" /\ step' = "try" /\ result' = r
    /\ argument' = NoRequest

\* a call begins
Call(c, a, s) ==
    /\ Idle
    /\ call' = c /\ step' = s /\ argument' = a /\ result' = "none"
    /\ UNCHANGED asyncVars

(* The user keeps a line that it has read for as long as it needs the      *)
(* pair that points into it: until it receives again.  Until then it sends *)
(* nothing, but it may flush.  It receives with the output buffer empty,   *)
(* which is Connection!FlushedBeforeReceiving, and never once the async    *)
(* object has failed: the error is its own by then, and                    *)
(* Connection!AsyncErrorKinds says so of the one error it may clear.       *)
(* The exception is mpd_send_noidle(), which sends in the middle of a      *)
(* response, whose first pair the user may have unread: NoidleWithPair.    *)
Holding == line.length >= 0

CallSend ==
    /\ Holding => NoidleWithPair /\ Used(async.output) = 0
    /\ \E r \in Requests : MayEnqueue(r) /\ Call("send", r, "try")
    /\ UNCHANGED line

CallFlush ==
    /\ Holding => Used(async.output) = 0 \/ NoidleWithPair
    /\ Call("flush", NoRequest, "first")
    /\ UNCHANGED line

MayReceive == ~Failed(async) /\ Used(async.output) = 0

CallLine ==
    /\ MayReceive
    /\ Call("line", NoRequest, "try")
    /\ line' = NoLine

CallRaw ==
    /\ MayReceive
    /\ \E n \in RawSizes : Call("raw", [NoRequest EXCEPT !.total = n], "try")
    /\ line' = NoLine

\* mpd_sync_send_command_v(): enqueue ...
TrySend ==
    /\ call = "send" /\ step = "try"
    /\ Send(argument)
    /\ IF Accepts(async, argument) THEN Return("true") ELSE Goto("check")
    /\ UNCHANGED line

CannotGrow_BugImpatient == TRUE

\* ... or, if nothing is waiting to be written that would make room, refuse
CannotGrow == "WRITE" \notin Events(async)

CheckRoom ==
    /\ call = "send" /\ step = "check"
    /\ IF CannotGrow THEN Refuse /\ Return("false")
       ELSE UNCHANGED asyncVars /\ Goto("wait")
    /\ UNCHANGED line

FirstFlush_BugReads == {"READ", "WRITE"}

\* mpd_sync_flush(): write before the first wait ...
FirstFlush == {"WRITE"}

FlushFirst ==
    /\ call = "flush" /\ step = "first"
    /\ Io(FirstFlush)
    /\ IF Failed(async') THEN Return("false") ELSE Goto("try")
    /\ UNCHANGED line

\* ... until nothing is left
Flushed == "WRITE" \notin Events(async)

TryFlush ==
    /\ call = "flush" /\ step = "try"
    /\ IF Flushed THEN Return("true") ELSE Goto("wait")
    /\ UNCHANGED <<async, accepted, delivered, arrived, taken, line>>

\* mpd_sync_recv_line()
TryLine ==
    /\ call = "line" /\ step = "try"
    /\ RecvLine
    /\ IF LineEnds(async.input) # {}
       THEN /\ Return("true")
            /\ line' = [at |-> async.input.read, length |-> Least(LineEnds(async.input)),
                        first |-> taken]
       ELSE Goto("wait") /\ UNCHANGED line

\* mpd_sync_recv_raw()
TryRaw ==
    /\ call = "raw" /\ step = "try"
    /\ RecvRaw(argument.total)
    /\ IF Used(async.input) > 0 THEN Return("true") ELSE Goto("wait")
    /\ UNCHANGED line

\* mpd_sync_io(): select() reports some of the events that it waits for
Ready ==
    /\ step = "wait"
    /\ \E events \in SUBSET Events(async) :
          /\ events # {}
          /\ Io(events)
    /\ IF Failed(async') THEN Return("false") ELSE Goto("try")
    /\ UNCHANGED line

\* ... or it times out or fails, or there is nothing to wait for
GiveUp ==
    /\ step = "wait"
    /\ Return("false")
    /\ UNCHANGED <<async, accepted, delivered, arrived, taken, line>>

Init ==
    /\ AsyncInit
    /\ call = "none" /\ step = "try" /\ argument = NoRequest
    /\ result = "none" /\ line = NoLine

Run == TrySend \/ CheckRoom \/ FlushFirst \/ TryFlush \/ TryLine \/ TryRaw

Next == CallSend \/ CallFlush \/ CallLine \/ CallRaw \/ Run \/ Ready \/ GiveUp

Spec == Init /\ [][Next]_vars

(* select() waits for READ or WRITE and the socket does transfer something *)
(* or comes to its end.                                                    *)
Progress ==
    /\ step = "wait"
    /\ \E events \in SUBSET (Events(async) \ {"HUP"}) :
          events # {} /\ Io(events)
    /\ Failed(async') \/ <<arrived, delivered>>' # <<arrived, delivered>>
    /\ IF Failed(async') THEN Return("false") ELSE Goto("try")
    /\ UNCHANGED line

(* A loop runs on by itself, and a socket that is waited for again and     *)
(* again does not spend its life in EAGAIN.  No timeout is relied upon:    *)
(* mpd_connection_new() may have been told to have none.                   *)
FairSpec ==
    /\ Spec
    /\ WF_vars(Run \/ (Events(async) = {} /\ GiveUp))
    /\ SF_vars(Progress)

(***************************************************************************)
(* Properties                                                              *)
(***************************************************************************)
\* Every variable has its type.
TypeOK ==
    /\ AsyncTypeOK
    /\ call \in {"none", "send", "flush", "line", "raw"}
    /\ step \in {"first", "try", "check", "wait"}
    /\ argument \in Request
    /\ result \in {"none", "true", "false"}
    /\ line \in [at : 0 .. Size, length : -1 .. Size, first : Nat]

\* The line that the user holds is what the server sent: no newline in it, its
\* terminator in place, and nothing has been moved or received over it.
LineIntact ==
    Holding =>
        /\ async.input.data[line.at + line.length] = 0
        /\ line.first + line.length + 1 \in Newlines
        /\ \A i \in 0 .. line.length - 1 :
              /\ async.input.data[line.at + i] = line.first + i + 1
              /\ line.first + i + 1 \notin Newlines

\* A request is refused for good only if not even the empty buffer can hold it.
RefusedOnlyIfTooLong ==
    [][async.error # "ARGUMENT" /\ async'.error = "ARGUMENT" =>
          argument.total > Size]_vars

\* mpd_sync_flush() reports success only when all accepted requests are gone.
FlushDelivers ==
    [][call = "flush" /\ result' = "true" => delivered = accepted]_vars

\* No loop waits for what it already has, or for an event that cannot help.
WaitsToSomePurpose ==
    (step = "wait" /\ ~Failed(async)) =>
        /\ call \in {"line", "raw"} => "READ" \in Events(async)
        /\ call \in {"send", "flush"} => "WRITE" \in Events(async)
        /\ call = "line" => LineEnds(async.input) = {}
        /\ call = "raw" => Used(async.input) = 0
        /\ call = "send" => ~Accepts(async, argument)

\* Every call returns, even without a timeout, as long as the socket transfers
\* something or comes to its end.
CallsReturn == call # "none" ~> call = "none"
=============================================================================
