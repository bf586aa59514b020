------------------------------- MODULE Async -------------------------------
(***************************************************************************)
(* struct mpd_async (async.c): a socket with an input and an output buffer *)
(* and the first error that occurred.  Its user calls the functions in any *)
(* order; the socket transfers as many bytes as it likes, closes, breaks,  *)
(* or transfers nothing (EAGAIN, EINTR).                                   *)
(*                                                                         *)
(* The bytes that the server sends are numbered 1, 2, 3, ...; Newlines are *)
(* the numbers of those that end a line.  The bytes of the requests that   *)
(* mpd_async_send_command() has accepted are numbered likewise.  Byte 0    *)
(* belongs to neither stream.                                              *)
(***************************************************************************)
EXTENDS Buffer

CONSTANTS
    Newlines,     \* the bytes from the server that end a line
    Requests,     \* the encoded requests the user may send
    RawSizes,     \* how many raw bytes the user may ask for at once
    MaxArrived,   \* bound: bytes that the server sends
    MaxAccepted   \* bound: bytes of all requests that are accepted

(* A request is known by the length of its command and by its length as a  *)
(* whole, newline included.  An argument that cannot be encoded counts as  *)
(* one that no buffer can hold.                                            *)
Request == [command : Nat, total : Nat]

ASSUME AsyncAssumption ==
    /\ Newlines \subseteq Nat \ {0}
    /\ Requests \subseteq Request
    /\ \A r \in Requests : r.command < r.total
    /\ RawSizes \subseteq Nat \ {0}
    /\ MaxArrived \in Nat /\ MaxAccepted \in Nat

VARIABLES
    async,      \* struct mpd_async
    accepted,   \* history: how many bytes of requests were accepted,
    delivered,  \* ... of those the server has got,
    arrived,    \* how many bytes the server's have arrived,
    taken       \* ... of those the user has taken

counters == <<accepted, delivered, arrived, taken>>
asyncVars == <<async, accepted, delivered, arrived, taken>>

AsyncErrors == {"SUCCESS", "ARGUMENT", "SYSTEM", "MALFORMED", "CLOSED"}
EventNames == {"READ", "WRITE", "HUP"}   \* HUP: and ERROR, always together

\* asserts: an assert() of the debug build would have failed
AsyncObject == [input : Buffer, output : Buffer, error : AsyncErrors, asserts : BOOLEAN]

Failed(a) == a.error # "SUCCESS"

\* mpd_error_code(), which asserts that there is no error yet
Fails(a, e) == [a EXCEPT !.error = e, !.asserts = @ \/ Failed(a)]

Bytes(first, n) == [i \in 1 .. n |-> first + i]

Least(S) == CHOOSE n \in S : \A m \in S : n <= m

\* mpd_async_events()
Events(a) ==
    IF Failed(a) THEN {}
    ELSE {e \in EventNames : /\ e = "READ"  => Room(a.input) > 0
                             /\ e = "WRITE" => Used(a.output) > 0}

(***************************************************************************)
(* I/O.  An outcome is the object and how many bytes came and went.        *)
(***************************************************************************)
Outcome(a, in, out) == [async |-> a, in |-> in, out |-> out]

\* mpd_async_read(): recv() is given all the room, behind what is there
Reads(a) ==
    IF Room(a.input) = 0 THEN {Outcome(a, 0, 0)}
    ELSE LET m == [a EXCEPT !.input = Moved(@)]
             room == Room(m.input)
         IN  {Outcome([m EXCEPT !.input = Expanded(Put(@, Bytes(arrived, n)), n)], n, 0) :
                n \in 0 .. Least({room, MaxArrived - arrived})}
             \cup {Outcome(Fails(m, e), 0, 0) : e \in {"SYSTEM", "CLOSED"}}

\* mpd_async_write()
Writes(a, in) ==
    IF Used(a.output) = 0 THEN {Outcome(a, in, 0)}
    ELSE {Outcome([a EXCEPT !.output = Consumed(@, n)], in, n) : n \in 0 .. Used(a.output)}
         \cup {Outcome(Fails(a, "SYSTEM"), in, 0)}

\* mpd_async_io()
IOs(a, events) ==
    IF Failed(a) THEN {Outcome(a, 0, 0)}
    ELSE IF "HUP" \in events THEN {Outcome(Fails(a, "CLOSED"), 0, 0)}
    ELSE LET read == IF "READ" \in events THEN Reads(a) ELSE {Outcome(a, 0, 0)}
         IN  IF "WRITE" \in events
             THEN {o \in read : Failed(o.async)} \cup
                  UNION {Writes(o.async, o.in) : o \in {p \in read : ~Failed(p.async)}}
             ELSE read

Io(events) ==
    \E o \in IOs(async, events) :
        /\ async' = o.async
        /\ arrived' = arrived + o.in
        /\ delivered' = delivered + o.out
        /\ UNCHANGED <<accepted, taken>>

(***************************************************************************)
(* Requests and lines                                                      *)
(***************************************************************************)
Fits(a, r) == r.total <= Room(a.output)

Accepts(a, r) == ~Failed(a) /\ Room(a.output) > r.command /\ Fits(a, r)

(* What mpd_async_send_command_v() leaves of the output buffer: with the   *)
(* command longer than the room it is not touched, and a request that runs *)
(* out of room has been copied in part, behind the end of what is valid.   *)
Enqueued(a, r) ==
    IF Accepts(a, r)
    THEN [a EXCEPT !.output = Expanded(Put(Moved(@), Bytes(accepted, r.total)), r.total)]
    ELSE IF Failed(a) \/ Room(a.output) <= r.command THEN a
    ELSE [a EXCEPT !.output = Put(Moved(@), [i \in 1 .. Room(@) |-> 0])]

MayEnqueue(r) == accepted + r.total <= MaxAccepted

Send(r) ==
    /\ async' = Enqueued(async, r)
    /\ accepted' = IF Accepts(async, r) THEN accepted + r.total ELSE accepted
    /\ UNCHANGED <<delivered, arrived, taken>>

\* where the buffer's lines end, counted from its first byte
LineEnds(b) == {i \in 0 .. Used(b) - 1 : b.data[b.read + i] \in Newlines}

TooLarge_BugNever(b) == FALSE
TooLarge_BugAlmostFull(b) == LineEnds(b) = {} /\ Room(b) <= 1

TooLarge(b) == LineEnds(b) = {} /\ Room(b) = 0

\* how long the first line is, its newline included
LineSize(b) == Least(LineEnds(b)) + 1

(* mpd_async_recv_line(): the newline becomes the line's terminator; a     *)
(* full buffer that holds no newline is an error.                          *)
Lined(a) ==
    LET b == a.input
        newline == b.read + Least(LineEnds(b))
    IN  IF LineEnds(b) # {}
        THEN [a EXCEPT !.input =
                Consumed([b EXCEPT !.data[newline] = 0], LineSize(b))]
        ELSE IF TooLarge(b) THEN Fails(a, "MALFORMED") ELSE a

RecvLine ==
    /\ async' = Lined(async)
    /\ taken' = IF LineEnds(async.input) # {}
                THEN taken + Least(LineEnds(async.input)) + 1 ELSE taken
    /\ UNCHANGED <<accepted, delivered, arrived>>

\* mpd_async_recv_raw()
RawLength(n) == Least({n, Used(async.input)})

RecvRaw(n) ==
    /\ async' = [async EXCEPT !.input = Consumed(@, RawLength(n))]
    /\ taken' = taken + RawLength(n)
    /\ UNCHANGED <<accepted, delivered, arrived>>

\* mpd_async_set_error(), with which sync.c refuses a request
Refuse ==
    /\ async' = IF Failed(async) THEN async ELSE Fails(async, "ARGUMENT")
    /\ UNCHANGED counters

AsyncInit ==
    /\ async = [input |-> EmptyBuffer, output |-> EmptyBuffer,
                error |-> "SUCCESS", asserts |-> FALSE]
    /\ accepted = 0 /\ delivered = 0 /\ arrived = 0 /\ taken = 0

AsyncNext ==
    \/ \E events \in SUBSET EventNames : Io(events)
    \/ \E r \in Requests : MayEnqueue(r) /\ Send(r)
    \/ RecvLine
    \/ \E n \in RawSizes : RecvRaw(n)
    \/ Refuse

AsyncSpec == AsyncInit /\ [][AsyncNext]_asyncVars

(***************************************************************************)
(* Properties                                                              *)
(***************************************************************************)
\* Every variable has its type, and buffers their shape (buffer.h asserts it).
AsyncTypeOK ==
    /\ async \in AsyncObject
    /\ async.input.read <= async.input.write
    /\ async.output.read <= async.output.write
    /\ accepted \in Nat /\ delivered \in Nat /\ arrived \in Nat /\ taken \in Nat

Holds(b, from, to) ==
    /\ Used(b) = to - from
    /\ \A i \in 0 .. Used(b) - 1 : b.data[b.read + i] = from + i + 1

\* The output buffer holds, in order, the bytes of accepted requests that the
\* server has not got: each request reaches it once, whole and unbroken.
RequestsIntact == Holds(async.output, delivered, accepted)

\* The input buffer holds, in order, the server's bytes that the user has not
\* taken, whatever mixture of lines and raw data is taken.
ResponsesIntact == Holds(async.input, taken, arrived)

\* A line is called too large only if Size bytes without a newline have come.
TooLargeIsTooLarge ==
    [][async.error # "MALFORMED" /\ async'.error = "MALFORMED" =>
          /\ arrived - taken = Size
          /\ \A i \in 1 .. Size : taken + i \notin Newlines]_asyncVars

\* The object behaves as a pair of queues.
Queues == INSTANCE Channel WITH outgoing <- Contents(async.output),
                                incoming <- Contents(async.input),
                                failed   <- Failed(async)
BehavesAsQueues == Queues!Spec
=============================================================================
