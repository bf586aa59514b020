------------------------------- MODULE Binary -------------------------------
(***************************************************************************)
(* Binary chunks: mpd_recv_binary() (recv.c) over the loops of Sync, and   *)
(* its callers mpd_recv_albumart() and mpd_recv_readpicture().             *)
(*                                                                         *)
(* The user makes any calls of Sync and then receives a chunk, of which a  *)
(* line has told it the size.  The server keeps its word: the chunk is as  *)
(* long as announced and a newline follows.  The bytes of the chunk may    *)
(* well be newlines too.                                                   *)
(***************************************************************************)
EXTENDS Sync

CONSTANTS
    Announced,   \* sizes of chunks that the server announces
    BufferSizes  \* sizes of the caller's buffer

\* mpd_recv_binary() asks for what is missing, and for the newline
ASSUME BinaryAssumption ==
    /\ Announced \subseteq Nat /\ BufferSizes \subseteq Nat
    /\ 1 \in RawSizes /\ \A n \in BufferSizes : 1 .. n \subseteq RawSizes

VARIABLES
    phase,      \* where mpd_recv_binary() is; "free" outside, "failed" for good
    chunk,      \* the chunk: what was taken before it, its size, how much is wanted
    dest,       \* the bytes received: the caller's buffer, then the newline
    connError   \* connection->error.code

binaryVars == <<phase, chunk, dest, connError>>
allVars == <<vars, binaryVars>>

NoChunk == [first |-> 0, size |-> 0, wanted |-> 0]

\* the chunk as far as the buffer has room for it
Retrieved(size, buffer) == IF size > buffer THEN buffer ELSE size

\* mpd_sync_recv_raw() is called
Receives(where, n) ==
    /\ phase' = where
    /\ Call("raw", [NoRequest EXCEPT !.total = n], "try")
    /\ line' = NoLine
    /\ UNCHANGED connError

\* the loop of mpd_recv_binary(): more of the chunk, or the newline
Proceeds(missing) == IF missing > 0 THEN Receives("data", missing) ELSE Receives("newline", 1)

\* the pair "binary" has been received and returned
RecvChunk(size, buffer) ==
    /\ phase = "free" /\ Idle /\ MayReceive
    /\ taken + size + 1 \in Newlines
    /\ chunk' = [first |-> taken, size |-> size, wanted |-> Retrieved(size, buffer)]
    /\ dest' = <<>>
    /\ Proceeds(Retrieved(size, buffer))

Missing_BugOffByOne == chunk.wanted - Len(dest) - 1

\* what is still to be received
Missing == chunk.wanted - Len(dest)

\* mpd_sync_recv_raw() has returned more than nothing
Received == result = "true"

MoreData ==
    /\ phase = "data" /\ Idle /\ Received
    /\ Proceeds(Missing)
    /\ UNCHANGED <<chunk, dest>>

SyncError_BugNoTimeout == async.error

\* mpd_connection_sync_error()
SyncError == IF Failed(async) THEN async.error ELSE "TIMEOUT"

\* mpd_recv_binary() returns false; connection->receiving stays set
FailsWith(code) ==
    /\ phase' = "failed" /\ connError' = code
    /\ chunk' = NoChunk /\ dest' = <<>>
    /\ UNCHANGED vars

NoData == phase \in {"data", "newline"} /\ Idle /\ ~Received /\ FailsWith(SyncError)

\* the byte after the chunk is a newline
Terminated == dest[Len(dest)] \in Newlines

Newline ==
    /\ phase = "newline" /\ Idle /\ Received
    /\ \/ /\ Terminated
          /\ phase' = "free" /\ chunk' = NoChunk /\ dest' = <<>>
          /\ UNCHANGED <<vars, connError>>
       \/ ~Terminated /\ FailsWith("MALFORMED")

\* bytes are copied to where the caller's pointer has got to
Copied ==
    IF phase \in {"data", "newline"} /\ call = "raw" /\ step = "try"
    THEN dest \o SubSeq(Contents(async.input), 1, RawLength(argument.total))
    ELSE dest

LoopStep ==
    /\ Run \/ Ready \/ GiveUp
    /\ dest' = Copied
    /\ UNCHANGED <<phase, chunk, connError>>

\* any other use of the connection
OtherCall ==
    /\ phase = "free"
    /\ CallSend \/ CallFlush \/ CallLine \/ CallRaw
    /\ UNCHANGED binaryVars

\* after a fatal error no function does anything
Dead == phase = "failed" /\ UNCHANGED allVars

Recv ==
    \/ \E size \in Announced, buffer \in BufferSizes : RecvChunk(size, buffer)
    \/ MoreData \/ NoData \/ Newline

BinaryInit ==
    /\ Init
    /\ phase = "free" /\ chunk = NoChunk /\ dest = <<>> /\ connError = "SUCCESS"

BinaryNext == Recv \/ LoopStep \/ OtherCall \/ Dead

BinarySpec == BinaryInit /\ [][BinaryNext]_allVars

(* As Sync!FairSpec; and mpd_recv_binary() goes on when a call returns.    *)
BinaryFairSpec ==
    /\ BinarySpec
    /\ WF_vars(Run \/ (Events(async) = {} /\ GiveUp))
    /\ SF_vars(Progress)
    /\ WF_allVars(MoreData \/ NoData \/ Newline)

(***************************************************************************)
(* Properties                                                              *)
(***************************************************************************)
\* A buffer that is large enough gets exactly the chunk, byte for byte, and the
\* stream is left at the first byte of the line that follows.
ChunkIsWhole ==
    [][phase = "newline" /\ phase' = "free" /\ chunk.wanted = chunk.size =>
          /\ SubSeq(dest, 1, chunk.size) = Bytes(chunk.first, chunk.size)
          /\ taken = chunk.first + chunk.size + 1]_allVars

\* mpd_recv_binary() leaves the connection in the middle of a response only with
\* an error that cannot be cleared, so that nobody goes on reading there: a byte
\* of the chunk or of the next line is never taken for something else, and the
\* async object never fails a second time (an assert() of ierror.h).
FailureIsFatal ==
    /\ phase = "failed" <=> connError \in {"TIMEOUT", "SYSTEM", "MALFORMED", "CLOSED"}
    /\ ~async.asserts

\* The callers of sync.c are its users: nothing is received after a failure or
\* while a request is still to be written.
UsesSyncRight == Spec
=============================================================================
