------------------------------- MODULE Errors --------------------------------
(***************************************************************************)
(* What the server says becomes a verdict (parser.c), and a failure an     *)
(* error with its fields and its message (ierror.c, ierror.h, error.c): of *)
(* the server, of the library, or of the system.  There are two            *)
(* mpd_error_info, the connection's and that of its mpd_async; the latter  *)
(* is copied to the former when a call of sync.c fails.  The messages are  *)
(* on the heap, which may be exhausted at any time.                        *)
(*                                                                         *)
(* A line is a sequence of tokens: a mark that the parser looks for, a     *)
(* number, or a word of other characters.  Which lines are expected, and   *)
(* what follows from them for the connection, is Connection's subject.     *)
(*                                                                         *)
(* An operator X_Bug is X with a mistake that is easy to make.             *)
(***************************************************************************)
EXTENDS Integers, FiniteSetsExt, SequencesExt, Functions

CONSTANTS
    Numbers,        \* tokens that are numbers, "0" among them
    Words,          \* tokens that are neither numbers nor marks
    Names, Values,  \* of the pairs that the server sends
    CommandNames,   \* that its ACKs mention
    Messages,       \* of its ACKs; the empty one is none
    SystemErrors,   \* values of errno
    MaxMessages,    \* bound: blocks on the heap
    FlushesAnyway   \* the client calls mpd_flush() in spite of an error

ASSUME ErrorsAssumption ==
    /\ "0" \in Numbers
    /\ MaxMessages \in Nat
    /\ FlushesAnyway \in BOOLEAN

Marks == {"ACK", "space", "[", "@", "]", "lbrace", "rbrace", ":"}
Tokens == Marks \cup Numbers \cup Words

(* What the protocol promises of lines that are complete: a name has no    *)
(* colon and is no "ACK", a command no brace, a message no leading space.  *)
(* Values and messages may contain any of the marks.                       *)
ASSUME ProtocolAssumption ==
    /\ Numbers \cap Marks = {}
    /\ Names \cup Values \cup CommandNames \cup Messages \subseteq Seq(Tokens)
    /\ \A n \in Names : ":" \notin Range(n) /\ (n # <<>> => n[1] # "ACK")
    /\ \A c \in CommandNames : "rbrace" \notin Range(c)
    /\ \A m \in Messages : m # <<>> => m[1] # "space"

VARIABLES
    parser,  \* struct mpd_parser
    sent,    \* what the server meant by the line that was parsed last
    conn,    \* connection->error
    async,   \* connection->async->error
    heap     \* the messages that are allocated, by address

vars == <<parser, sent, conn, async, heap>>

(***************************************************************************)
(* The parser                                                              *)
(***************************************************************************)
Malformed == [result |-> "MALFORMED"]
Success(discrete) == [result |-> "SUCCESS", discrete |-> discrete]
PairOf(name, value) == [result |-> "PAIR", name |-> name, value |-> value]
Error(server, at, message) ==
    [result |-> "ERROR", server |-> server, at |-> at, message |-> message]

\* the token at a position, the terminator behind the last
At(line, i) == IF i \in DOMAIN line THEN line[i] ELSE "NUL"

\* strchr() from a position on; 0 is a null pointer
Strchr(line, i, mark) ==
    LET found == {j \in i .. Len(line) : line[j] = mark}
    IN  IF found = {} THEN 0 ELSE Min(found)

\* the first token from a position on that is not a space
NoSpace(line, i) == Min({j \in i .. Len(line) : line[j] # "space"} \cup {Len(line) + 1})

\* strtol(): the number, and where its text ends; nowhere if there is none
Strtol(line, i) ==
    LET j == NoSpace(line, i)
    IN  IF At(line, j) \in Numbers THEN [value |-> At(line, j), end |-> j + 1]
        ELSE [value |-> "0", end |-> i]

Behind_BugLastBrace(line, i) ==
    LET ends == {j \in i .. Len(line) : line[j] = "rbrace"}
    IN  IF ends = {} THEN i ELSE Max(ends) + 1

\* skip the {COMMAND}
Behind(line, i) ==
    LET q == Strchr(line, i, "rbrace")
    IN  IF Strchr(line, i, "lbrace") = 0 \/ q = 0 THEN i ELSE q + 1

\* mpd_parser_feed(), "ACK"; a message that is empty is a null pointer
FeedAck(line) ==
    LET p == Strchr(line, 2, "[")
        server == Strtol(line, p + 1)
        at == IF At(line, server.end) = "@" THEN Strtol(line, server.end + 1)
              ELSE [value |-> "0", end |-> server.end]
        q == Strchr(line, at.end, "]")
        message == NoSpace(line, Behind(line, q + 1))
    IN  IF p = 0 THEN Error("UNK", "0", <<>>)
        ELSE IF q = 0 THEN Malformed
        ELSE Error(server.value, at.value, SubSeq(line, message, Len(line)))

FeedPair(line) ==
    LET p == Strchr(line, 1, ":")
    IN  IF p = 0 \/ At(line, p + 1) # "space" THEN Malformed
        ELSE PairOf(SubSeq(line, 1, p - 1), SubSeq(line, p + 2, Len(line)))

Feed(line) ==
    IF line = <<"OK">> THEN Success(FALSE)
    ELSE IF line = <<"list_OK">> THEN Success(TRUE)
    ELSE IF At(line, 1) = "ACK" THEN FeedAck(line)
    ELSE FeedPair(line)

(***************************************************************************)
(* The server: the lines of the protocol, and lines that break off         *)
(***************************************************************************)
AckLine(server, at, command, message) ==
    <<"ACK", "space", "[", server, "@", at, "]", "space", "lbrace">>
        \o command \o <<"rbrace", "space">> \o message

Line(tokens, meaning) == [tokens |-> tokens, meaning |-> meaning]

EndLines == {Line(<<"OK">>, Success(FALSE)), Line(<<"list_OK">>, Success(TRUE))}

PairLines ==
    {Line(n \o <<":", "space">> \o v, PairOf(n, v)) : n \in Names, v \in Values}

AckLines ==
    {Line(AckLine(s, a, c, m), Error(s, a, m)) :
        s \in Numbers, a \in Numbers, c \in CommandNames, m \in Messages}

ProperLines == EndLines \cup PairLines \cup AckLines

Broken == [result |-> "broken"]

BrokenLines ==
    UNION {{Line(SubSeq(l.tokens, 1, n), Broken) : n \in 0 .. Len(l.tokens) - 1} :
              l \in ProperLines}

ServerLines == ProperLines \cup BrokenLines

(***************************************************************************)
(* An error: what the functions of ierror.h and ierror.c may leave behind. *)
(* The fields that mpd_error_init() does not set are garbage.              *)
(***************************************************************************)
NULL == 0
Garbage == -1

NoError ==
    [code |-> "SUCCESS", server |-> "garbage", at |-> "garbage",
     system |-> "garbage", message |-> Garbage]

Defined(e) == e.code # "SUCCESS"
Fatal(e) == e.code \notin {"SUCCESS", "ARGUMENT", "STATE", "SERVER"}

Outcome(error, memory) == [error |-> error, heap |-> memory]

\* mpd_error_code()
ErrorCode(e, code) == [e EXCEPT !.code = code, !.message = NULL]

ErrorServer_BugNoAt(e, server, at) ==
    [ErrorCode(e, "SERVER") EXCEPT !.server = server]

\* mpd_error_server()
ErrorServer(e, server, at) ==
    [ErrorCode(e, "SERVER") EXCEPT !.server = server, !.at = at]

\* mpd_error_system()
ErrorSystem(e, system) == [ErrorCode(e, "SYSTEM") EXCEPT !.system = system]

\* strdup() has failed
Exhausted(e) == ErrorCode(e, "OOM")

Stored(memory, a, text) ==
    [b \in DOMAIN memory \cup {a} |-> IF b = a THEN text ELSE memory[b]]

\* mpd_error_message(), mpd_error_message_n(), mpd_error_printf()
WithMessage(e, text, memory) ==
    {Outcome(Exhausted(e), memory)}
    \cup {Outcome([e EXCEPT !.message = a], Stored(memory, a, text)) :
             a \in (1 .. MaxMessages) \ DOMAIN memory}

Raise(e, code, text, memory) == WithMessage(ErrorCode(e, code), text, memory)

\* mpd_error_deinit()
Deinit(e, memory) ==
    IF Defined(e) THEN Restrict(memory, DOMAIN memory \ {e.message}) ELSE memory

CopiedFields(dest, src) ==
    CASE src.code = "SERVER" ->
             [dest EXCEPT !.code = src.code, !.server = src.server, !.at = src.at]
      [] src.code = "SYSTEM" -> [dest EXCEPT !.code = src.code, !.system = src.system]
      [] OTHER -> [dest EXCEPT !.code = src.code]

Copy_BugShares(dest, src, memory) ==
    {Outcome([CopiedFields(dest, src) EXCEPT !.message = src.message], memory)}

\* mpd_error_copy()
Copy(dest, src, memory) ==
    LET copied == CopiedFields(dest, src)
    IN  IF ~Defined(src) THEN {Outcome(copied, memory)}
        ELSE IF src.message = NULL
        THEN {Outcome([copied EXCEPT !.message = NULL], memory)}
        ELSE WithMessage(copied, memory[src.message], memory)

\* mpd_connection_sync_error()
SyncError(dest, src, memory) ==
    IF Defined(src) THEN Copy(dest, src, memory)
    ELSE UNION {Raise(o.error, "TIMEOUT", <<"Timeout">>, o.heap) : o \in Copy(dest, src, memory)}

\* how reading, writing, a line that is too long and a request that is too
\* long make the mpd_async fail
AsyncFailures(e, memory) ==
    (UNION {WithMessage(ErrorSystem(e, s), <<s>>, memory) : s \in SystemErrors})
    \cup (UNION {Raise(e, code, <<code>>, memory) : code \in {"CLOSED", "MALFORMED", "ARGUMENT"}})

(***************************************************************************)
(* The steps of the connection that make or end an error                   *)
(***************************************************************************)
ConnGets(outcomes) ==
    /\ \E o \in outcomes : conn' = o.error /\ heap' = o.heap
    /\ UNCHANGED async

\* mpd_recv_pair() has a line; it may be one that is not expected
Reads(verdict) ==
    CASE verdict.result = "MALFORMED" -> Raise(conn, "MALFORMED", <<"parse">>, heap)
      [] verdict.result = "ERROR" ->
             WithMessage(ErrorServer(conn, verdict.server, verdict.at),
                         IF verdict.message = <<>> THEN <<"Unspecified">> ELSE verdict.message,
                         heap)
      [] verdict.result = "SUCCESS" ->
             {Outcome(conn, heap)} \cup Raise(conn, "MALFORMED", <<"list_OK">>, heap)
      [] verdict.result = "PAIR" -> {Outcome(conn, heap)}

RecvPair ==
    /\ ~Defined(conn)
    /\ \E line \in ServerLines :
          /\ parser' = Feed(line.tokens)
          /\ sent' = line.meaning
    /\ ConnGets(Reads(parser'))

\* a call of sync.c fails, by a timeout or with the mpd_async
SyncFails ==
    \/ ConnGets(SyncError(conn, async, heap))
    \/ /\ ~Defined(async)
       /\ \E a \in AsyncFailures(async, heap) :
             \E o \in SyncError(conn, a.error, a.heap) :
                /\ async' = a.error
                /\ conn' = o.error
                /\ heap' = o.heap

\* All callers but mpd_flush() have looked at the connection's error; a client
\* that does so before it flushes makes no difference between them.
SyncCall ==
    /\ FlushesAnyway \/ ~Defined(conn)
    /\ SyncFails
    /\ UNCHANGED <<parser, sent>>

\* the client uses the mpd_async itself, as an event loop does
AsyncIO ==
    /\ ~Defined(async)
    /\ \E a \in AsyncFailures(async, heap) : async' = a.error /\ heap' = a.heap
    /\ UNCHANGED <<parser, sent, conn>>

\* the library refuses a call or a pair, or has no memory for an object
\* (mpd_error_entity())
Declines ==
    /\ ~Defined(conn)
    /\ ConnGets((UNION {Raise(conn, code, <<code>>, heap) : code \in {"ARGUMENT", "STATE", "MALFORMED"}})
                \cup {Outcome(ErrorCode(conn, "OOM"), heap)})
    /\ UNCHANGED <<parser, sent>>

\* mpd_connection_clear_error()
ClearError ==
    /\ Defined(conn) /\ ~Fatal(conn)
    /\ ConnGets({Outcome([conn EXCEPT !.code = "SUCCESS"], Deinit(conn, heap))})
    /\ UNCHANGED <<parser, sent>>

\* mpd_connection_free(), and the next connection
Reconnect ==
    /\ heap' = Deinit(conn, Deinit(async, heap))
    /\ conn' = NoError /\ async' = NoError
    /\ parser' = Malformed /\ sent' = Broken

Init ==
    /\ parser = Malformed /\ sent = Broken
    /\ conn = NoError /\ async = NoError
    /\ heap = <<>>

Next == RecvPair \/ SyncCall \/ AsyncIO \/ Declines \/ ClearError \/ Reconnect

Spec == Init /\ [][Next]_vars

(***************************************************************************)
(* Properties                                                              *)
(***************************************************************************)
Codes == {"SUCCESS", "OOM", "ARGUMENT", "STATE", "TIMEOUT", "SYSTEM", "MALFORMED", "CLOSED", "SERVER"}

ErrorInfo ==
    [code : Codes, server : Numbers \cup {"UNK", "garbage"}, at : Numbers \cup {"garbage"},
     system : SystemErrors \cup {"garbage"}, message : (0 .. MaxMessages) \cup {Garbage}]

\* Every variable has its type.
TypeOK ==
    /\ conn \in ErrorInfo /\ async \in ErrorInfo
    /\ DOMAIN heap \subseteq 1 .. MaxMessages
    /\ parser.result \in {"MALFORMED", "SUCCESS", "PAIR", "ERROR"}
    /\ parser.result = "ERROR" => parser.server \in Numbers \cup {"UNK"} /\ parser.at \in Numbers

\* Every line that the server completes is read as it was meant, whatever marks
\* of the protocol its values and messages contain.
LinesAreReadAsSent == sent # Broken => parser = sent

\* What a client is told of a SERVER error is what the last ACK said: the code,
\* the place in the command list and the message, all three.
ErrorIsTheServers ==
    conn.code = "SERVER" /\ sent # Broken =>
        /\ sent.result = "ERROR"
        /\ conn.server = sent.server /\ conn.at = sent.at
        /\ heap[conn.message] = IF sent.message = <<>> THEN <<"Unspecified">> ELSE sent.message

\* what mpd_error_deinit() would free
Owned(e) == IF Defined(e) THEN {e.message} \ {NULL} ELSE {}

\* The messages on the heap are those of the two errors, one of each: none
\* leaks, is freed while it is needed, or belongs to both.
MessagesAreOwned ==
    /\ DOMAIN heap = Owned(conn) \cup Owned(async)
    /\ Owned(conn) \cap Owned(async) = {}

\* An error without a message is OOM: mpd_error_get_message() asserts it.
MessageIsThere ==
    \A e \in {conn, async} : Defined(e) /\ e.message = NULL => e.code = "OOM"

\* A failure of the socket is told to the client as the mpd_async has it, with
\* the system's error and the message.
AsyncErrorIsCopied ==
    conn.code \in {"SYSTEM", "CLOSED"} =>
        /\ async.code = conn.code
        /\ conn.code = "SYSTEM" => conn.system = async.system
        /\ heap[conn.message] = heap[async.message]
=============================================================================
