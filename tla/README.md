# libmpdclient in TLA+

libmpdclient is the C client library of the Music Player Daemon (MPD).  A
client program calls its functions one at a time, from one thread; the library
keeps, per connection, a small protocol state, two fixed buffers and a socket.
Nothing in the library runs in the background.  What is hard about it is not
threads but *protocol sequences*: a response may be left half-read, put back
("unread"), skipped, split into sub-responses, interrupted by an error, or cross
a `noidle` on the wire, and the next call must still find the connection in step
with the server.

## 1. Inventory

| Part | Source | State | Operations | What makes it correct |
|---|---|---|---|---|
| connection | `connection.c`, `send.c`, `recv.c`, `response.c`, `run.c`, `error.c`, `ierror.h`, `internal.h` | `error`, `receiving`, `sending_command_list(_ok)`, `discrete_finished`, `command_list_remaining`, `pair_state`, `timeout` | send a command, receive, return and unread a pair, finish a response, go to the next sub-response, flush, clear an error, free | in step with the server when idle; pairs belong to the response being read; fatal errors stay |
| command lists | `list.c` | the list fields above | begin, end | sub-responses are counted exactly |
| idle | `idle.c` | `timeout`, `receiving` | idle, receive events, noidle | the timeout is restored; a late `noidle` does no harm |
| async | `async.c`, `buffer.h` | error, input and output buffer (4096 bytes each) | events, io, send a command, receive a line or raw bytes | the two byte streams arrive complete and in order |
| sync | `sync.c` | none | the blocking loops around async and `select()` | they end; a timeout is told from an error |
| quoting | `quote.c` | none | quote an argument into the output buffer | never past the end |
| response parser, errors | `parser.c`, `ierror.c`, `ierror.h` | the last line's verdict; an error with its message | feed, getters; set, copy, clear an error | the verdict is the line's; a message is freed once |
| connecting | `connection.c`, `resolver.c`, `socket.c`, `settings.c`, `fd_util.c` | the list of settings and addresses, the timeout left | make settings; resolve, connect, read the welcome, send the password | the error reported is that of the last attempt; the timeout covers all addresses; nothing leaks |
| request builder | `request.c`, `search.c`, `sticker.c`, `isend.h` | `connection->request` | begin, add constraints, commit, cancel | one request at a time; freed on every path |
| binary responses | `albumart.c`, `readpicture.c`, `binary.c` | none | receive a chunk | the stream stays aligned after a chunk |
| entity receivers | `song.c`, `entity.c`, `directory.c`, `playlist.c`, `output.c`, ... and their `c*.c` | the entity being read | begin, feed, receive | no pair is lost between entities |
| status, statistics | `status.c`, `stats.c`, `audio_format.c`, `replay_gain.c` | the record being read | begin, feed | numeric parsing |
| dates, lists, tables | `iso8601.c`, `kvlist.c`, `tag.c`, ... | none, or a list | parse, format, look up | round trips |
| thin wrappers | `player.c`, `mixer.c`, `queue.c`, `capabilities.c`, ... | none | one request, or request and finish | as the connection |

How they interact: a wrapper calls `mpd_send_command()` of the connection; that
calls a loop of sync, which calls async, which owns the buffers and the socket.
The way back is `mpd_recv_pair()`: one line from sync, a verdict from the parser,
an update of the connection's fields, a pair for the entity receivers.  Errors
travel upwards by copying (`mpd_connection_sync_error()`); the connection's error
can be cleared, the async object's cannot.

## 2. Plan

The modules, the most important behaviour first, and what they are:

1. `Connection`: one client, one server, line-based responses, all protocol
   state of `struct mpd_connection`; `InStep`: why it is right.  Checked and proved,
   but for liveness.
2. `Buffer`, `Async`, `Sync`: the two buffers byte by byte, the async object
   over any socket, the blocking loops; `Channel`: the abstract specification
   that `Async` implements; `Binary`: `mpd_recv_binary()` on top of them.  Checked
   together and proved, but for liveness.
3. `Search`: requests built up in memory (`request.c`, `search.c`, `sticker.c`),
   composed with `Connection`, which it refines.  Checked and proved.
4. `Receivers`: the begin, feed, enqueue discipline of the receivers, and the run
   functions built on them, over the names of a response's pairs.  What they promise
   is stated as properties of the response: how it is cut into objects.  Checked and
   proved.
5. `Connect`: settings, addresses, sockets, the welcome line, the password; what
   is freed on each way out.  Checked and proved.
6. `Errors`: lines into verdicts, failures into errors with their fields and
   messages.  Checked and proved.
7. `Quoting`: arguments into memory that has an end, against MPD's reader.
   `Texts` and `Values`: what values become, and the memory of the objects.
   `Commands`: every function that sends one command, on `Connection`.  Checked and
   proved.

Composition: `Search` and `Commands` extend `Connection`; `Binary` extends `Sync`,
which extends `Async`, which extends `Buffer`; `Values` extends `Texts`.  `Receivers`
has the part of the connection that `recv.c` and `response.c` keep, over a response
that may be longer than `Connection` could check.  `Connection` takes the outcomes of
blocking I/O as sets of outcomes (`Sends`, `Flushes`, `ReadErrors`) instead of
composing with `Sync`, whose states would multiply with the protocol's, and the
verdict on a line from the server instead of from `Errors`; section 3 says how they
fit.

What remains: liveness is for TLC only.  `NoAssertFails` of `Receivers` could be
stated and proved for a server that keeps the protocol, and the other fields of
`Values` (ranges, audio formats, positions) as texts that are formatted and read back.

## 3. The modules

### Connection

Maps `struct mpd_connection` (`internal.h`) to the record `conn`: its fields have
the source's names, shortened (`sending_command_list_ok` is `sendingListOk`).
`asyncError` is the error inside the async object, `outbuf` the requests in its
output buffer, `timeout` whether the connection has its timeout (`mpd_recv_idle()`
zeroes it), `result` what the last call returned.  A client calls one function at
a time.  A function that blocks in a loop of its own (`mpd_response_finish()`,
`mpd_response_next()`, `mpd_recv_idle()`, the `run` functions) is several steps,
one per line; `call` names the loop.  Between two steps the server may answer,
events may arrive, and the link may break.

The environment is a model of an MPD server (`external` in the map): it takes
requests in order from `inbox`, collects a command list, runs it and stops at the
first failure, idles, answers or ignores `noidle`, and puts lines on `wire`.
`Misbehave` puts one line there that nobody asked for.  `HangUp` breaks the link.

| Actions | Code |
|---|---|
| `SendCommand`, `OutOfTurn`, `BadArgument`, `OutOfMemory`, `Declined` | `mpd_send_command*()`; `send_check()`; the request functions that set `STATE`; `mpd_check_tag_name()`, an idle mask with an unknown event; an allocation that fails; a function that returns false without an error |
| `ListBegin`, `ListEnd` | `mpd_command_list_begin()`, `mpd_command_list_end()` |
| `RecvPair`, `ReturnPair`, `EnqueuePair`, `EnqueueNull` | `mpd_recv_pair()`, `mpd_return_pair()`, `mpd_enqueue_pair()` |
| `ResponseFinish`, `FinishStep`, `FinishReturns` | `mpd_response_finish()` |
| `ResponseNext`, `NextStep`, `NextGivesUp`, `NextReturns` | `mpd_response_next()` |
| `RecvIdle`, `RecvIdleStep`, `RecvIdleReturns`, `Noidle` | `idle.c` |
| `Run` | `mpd_run_check()`, then send, then finish (or receive events) |
| `Flush`, `ClearError`, `Free` | `mpd_flush()`, `mpd_connection_clear_error()`, `mpd_connection_free()` |

Which calls a client makes is its own choice, within the habits in `Careless`.
The careful client (`Careless = {}`) looks at every result, clears an error before
its next request, reads a NULL pair back before it leaves a response, and calls
`mpd_response_next()` only in a discrete list with a sub-response to go to.  The
last two are in no document; leaving them off is what `unread_null` is about.

`sent` and `awaiting` are history: which request is which, and which requests'
(sub-)responses are still to be read.  Only properties and identities use them.

An assertion of a debug build is modelled by `conn.asserts`: it records that the
assertion would have failed, and the step goes on as a release build does.
`mpd_connection_new()` leaves three fields as `malloc()` returned them; `Init`
takes any BOOLEAN, or any number in `Garbage`, for them.

`InStep` says where everything is that the client still expects: in a request on
its way (`queue`: the output buffer behind the server's inbox), with the server, or in
a line on its way.  `Fit` distinguishes what the connection is doing (nothing, one
request, a list being gathered, a list that has been sent) and, for each, how far the
server has come with it.  `PairFits` and `NullFits` are about the pair or the NULL
that waits in the connection, `HeldBack` about the output buffer, `LoopsRight` about a
loop in progress.  Together they are `StaysInStep`, which holds until the connection
is lost.

How an outcome of I/O in `Connection` relates to `Sync`: `Flushes` is what
`mpd_sync_flush()` may return, and `FlushDelivers` is its success; `Enqueues` is
`mpd_sync_send_command_v()`, refused for good only as `RefusedOnlyIfTooLong`
says; `ReadErrors` and `LineReads` are `mpd_sync_recv_line()`.  The other way
round, `Sync`'s caller calls only as `Connection` does: `MayReceive` is the guard
that `FlushedBeforeReceiving` and `AsyncErrorKinds` establish.  Requests are
indivisible in `Connection`: a link that breaks within one breaks before it, since
the server ignores a request without its newline.

### Buffer, Async, Channel

`Buffer` is `struct mpd_buffer`: an array of `Size` bytes and two indices, with
`mpd_buffer_move()` and the rest as operators.  `Async` is `struct mpd_async`:
two buffers and an error.  Each byte is identified by its position in its stream,
so that a lost, repeated or moved byte is a wrong number; `accepted`, `delivered`,
`arrived` and `taken` count the streams and are the only way into the numbering.
The socket may transfer any part of what it is asked for, nothing (EAGAIN), an
error, or the end of the stream.  Actions: `Io` (`mpd_async_io()`, with the reads
and the writes of one call in their order), `Send` (`mpd_async_send_command_v()`,
including the part of a request that is copied before it turns out not to fit),
`RecvLine`, `RecvRaw`, `Refuse` (`mpd_async_set_error()`).  Functions may be called
in any order, also once the object has failed.

`Channel` says what this is for: two bounded queues and a flag.  `BehavesAsQueues`
is the refinement, with `Contents` of the buffers as queues.

### Sync

The loops of `sync.c` over `Async`.  `call` is the function, `step` the place in
its loop: try, check (is there room that could still be made?), wait (in
`select()`).  `Ready` is `mpd_sync_io()` when `select()` reports something,
`GiveUp` is a timeout, a failing `select()` or nothing to wait for.  `line` is the
line that the user still holds a pointer into; the model remembers where it lies
and what was there.

### Binary

`mpd_recv_binary()` over the loops of `Sync`: `RecvChunk` begins it (the pair
`binary` has told the caller the size), `MoreData` asks again for what is missing,
`Newline` looks at the byte behind the chunk, `NoData` is a call of
`mpd_sync_recv_raw()` that returned nothing, `LoopStep` a step within that call.
`dest` is the caller's buffer with the newline behind it.  `OtherCall` is any other
use of the connection between two chunks; `Dead` is the connection after a fatal
error.  The server announces a size of `Announced` and keeps its word; a chunk may
contain newlines.  If the caller's buffer is too small, the byte behind the part
that fits is taken for the newline, and the call most likely ends in MALFORMED, as
in the code.  `RawSizes` is how many bytes a user of `mpd_async_recv_raw()` may ask
for at once.

### Search

`connection->request` and every function that begins, adds to, commits or cancels
a request, on a connection that does everything else meanwhile.  A request is a
sequence of parts; `asked` is the sequence of parts whose functions returned true,
`live` counts allocated strings.  `AddSort` prints into 64 bytes: a name that does not
fit is written "cut" and asked for as "sort", and the function returns true all the same
(`AddSortName`; the names of tags fit).  A part can be refused because it cannot be
quoted (its characters have already been written behind the text: `Undone`
restores the end), because there is no memory for it (`NoMemory`), or because of a bad
tag or date.  `lost`
remembers that a part was refused with an error and the error not cleared since.

### Receivers

The functions that turn pairs into objects.  A response is a sequence of names, of
pairs and `list_OK`, with the places where a value is no good, and `OK` or `ACK` at
the end; it is known from the start and does not change.  `read` is how much of it
the connection has read.  The connection is what `recv.c` and `response.c` see of
it; any read may break it (`CLOSED`).

`call` is the function the client is in, and where: `first` (looking for the pair
that begins an object: `mpd_recv_pair_named()` and the `begin` function), `rest` (the
loop that feeds pairs, up to the one that begins the next object, which is put
back), `id` (the second value of `mpd_recv_queue_change_brief()`), `all` (status and
statistics), `finish` and `next` (`response.c`).  `Own` names the pair that begins
each kind of object; `Starts` and `Stops` say what the two loops make of a name, and
they differ for an entity only, which any pair begins.  `Core` names the receiver of
a run function, `Finishes` says whether the function finishes the response after
that answer.  An object is the places of its first and last pair; `live` counts
those allocated.

| Actions | Code |
|---|---|
| `RecvSong`, ..., `First`, `Rest` | `mpd_recv_song()` and its like, `mpd_recv_entity()`, `mpd_recv_message()` |
| `RecvQueueChange`, `RecvSongId`, `RecvUpdateId`, `SecondValue` | the receivers of one or two values |
| `RecvStatus`, `All` | `mpd_recv_status()`, `mpd_recv_stats()` |
| `RunQueueSong`, ..., `FinishStep`, `FinishReturns` | `mpd_run_get_queue_song_pos()` and its like, `mpd_run_current_song()`, `mpd_run_add_id()`, `mpd_run_update()`, `mpd_run_status()` |
| `Leave`, `NextStep`, `NextReturns` | `mpd_response_finish()`, `mpd_response_next()` |
| `RecvPair`, `ReturnPair`, `PutBack` | the client reads pairs of its own between two objects |

The history `upto` is how much of the response the client has been told about, and
`told` the last answer, with what `upto` was before it: without the two one could not
say that a pair was lost *between* two answers.  The client may mix all receivers
on one response.  It has the habits of the careful client of `Connection`: it does
nothing more after an error it has not cleared, reads a NULL back before it goes to
the next sub-response, and does not go to one that is not there.

### Connect

`call` is the function the user has called, `at` where it is.  Each allocation is
a step that succeeds or returns NULL; `held` is what is allocated or open, while
`list`, `conn`, `addresses` and `fd` are the pointers to it: `NothingLeaks` compares
the two.  `slack` is the timeval that `select()` counts down, as it does on Linux.
`last` is history, what the last attempt came to.

| Actions | Code |
|---|---|
| `MakeStruct`, `MakeHost`, `SplitPassword`, `SplitHost`, `MakePassword`, `DefaultOrFinish`, `MakeSocket` | `mpd_settings_new()`, `mpd_parse_host_password()`, `mpd_check_host()`, `mpd_check_port()`, `mpd_default_timeout_ms()` |
| `Resolve`, `NoMoreAddresses`, `TryAddress`, `Wait` | `resolver.c`, `mpd_socket_connect()`, `mpd_socket_wait_connected()` |
| `MakeConnection`, `TryAlternative`, `MakeAsync`, `MakeParser` | `mpd_connection_new()`, `mpd_connection_new_async()`, `mpd_connect()` |
| `Greeting`, `Password` | `mpd_parse_welcome()`, the password of the settings |
| `Call`, `Leave` | the user calls; then frees what it got |

A host is a password or none, and a name, a path, an `@name` or a default.
`Documented` is what `settings.h:30-45` says of the settings, from the caller's values
and the environment alone; where the code does otherwise (two passwords, a timeout that
wraps) `TwoPasswords` and `TimeoutWraps` name the case.  The
resolver may find any number of addresses up to `MaxAddresses`; `connect()` may
succeed, fail or be in progress; `select()` may be interrupted.

### Errors

`parser.c` on lines of tokens (marks, numbers, words): `FeedAck` and `FeedPair` follow
its pointers.  `conn` and `async` are the two `struct mpd_error_info`, `heap` the
allocated messages by address; a field that no function has set yet is "garbage".
Each function of `ierror.c` and `ierror.h` is an operator that gives its outcomes
(`ErrorCode`, `ErrorServer`, `ErrorSystem`, `WithMessage`, `Deinit`, `Copy`,
`SyncError`), of which one is OOM when `strdup()` fails.

| Actions | Code |
|---|---|
| `RecvPair` | `mpd_recv_pair()` with any line, proper or broken off |
| `SyncCall`, `AsyncIO` | a call of `sync.c` fails, alone or with the async object; an event loop's `mpd_async_io()` fails |
| `Declines` | the library sets an error itself |
| `ClearError`, `Reconnect` | `mpd_connection_clear_error()`; `mpd_connection_free()` and the next connection |

`sent` is history: what the server meant by the line.  `FlushesAnyway` lets the
client call `mpd_flush()` over an error (section 6).  `ProtocolAssumption` is what the
protocol promises of complete lines: a pair's name has no colon and is not `ACK`, the
name of a command has no brace, a message does not begin with a space.  Values and
messages may contain anything.

### Quoting

`quote.c` one character per step into `room` bytes; `written` is what lies between
the start of the memory and the pointer.  `CallSend` is `mpd_async_send_command_v()`
with what the output buffer has left; `CallBuilder` is a function of `Forms`, which
allocates for the worst case and writes the rest unchecked (`Between`).  `Separate`,
`Open`, `Escape` and `Close` are the places where the code may find no room.
`ServerReads` is MPD's reader.

### Texts and Values

`Texts` is `strtol()`, `strtoul()`, `strtod()` and what the library makes of them:
durations, ranges, dates, audio formats, modes.  A text is a sequence of tokens, and
a decimal is kept to the ten thousandth.  `Values` has one object of any kind at a
time and a duplicate of it: begun (`BeginKind`, `Begin`), fed pairs in any order
(`Feed`), `SetPos`, `Duplicate`, `FreeObject`, `FreeCopy`.  Each takes `room`, the
number of its allocations that succeed, and `heap` counts blocks; `Blocks` is what
the free function of an object would release.  `fed` is history: the pairs of the
object so far, of which `LastFed` is the last of a name.

`ValuesAssumption` says that no tag has the name of one of a song's other pairs
(`SongPairs`; `tag.c` has none), and that an unsigned holds the longest duration that
is accepted in milliseconds, as 32 bits do.  `Zone` is any function from dates to the
distance of the client's standard time from UTC; `Mktime` applies the one of the date,
`TimezoneOffset` finds that of a day in 2009 (`AfterTheEpoch`).  `DatesAreUtc` leaves
out the dates at which the two differ (`SameZone`), and the second of which `mktime()`
returns -1, which `iso8601.c` takes for an error.  `SentMs` is what the digits of
"elapsed" say, by no function of the library's; the library agrees with it to the
hundredth (`ElapsedToTheHundredth`).

### Commands

Every function that sends one command, as a row: the command, how each argument is
printed, and whether its `mpd_run_X()` calls `mpd_run_check()`.  `Arguments` prints the
values, `Understood` is how MPD reads them (it is external: it refuses a signed number of
a song, and takes a signed position for one relative to the current song), `Meant` what
the headers say they mean.  `ServerReadsWhatWasMeant` is about every argument of every
call; `TooLargeForInt` is where MPD refuses, `ReadOtherwise` where it reads something
else (section 6).  `Send`, `RunFunction`, `Finish` and `Meanwhile` use `SendCommand`, `Run`,
`BadArgument`, `Declined` and the rest of `Connection`, whose specification is every
step that is not theirs.  `Chosen` gives each function the values it is called with;
they are of its parameters' types (`ValuesOf`, `ChosenAssumption`).

## 4. Runs

A passing run is exhaustive within its bounds.

| Run | Specification and bounds | States | Shows |
|---|---|---|---|
| `careful` | `Connection`, careful client, 5 requests, one pair per response, `Garbage` {0, 5} | 315,249 | the connection stays in step with its server and every pair belongs to the response being read, through lists, discrete lists, idle and noidle, unread pairs, server errors and broken links; `StaysInStep`, from which this is proved, holds |
| `misbehaving` | `Connection!FairSpec`, 4 requests, long ones too, one stray line of any kind, a client that keeps only the habit of looking at errors, `Garbage` {5} | 1,630,823 | whatever the server sends, counters stay in range, fatal errors stay fatal, requests are flushed before anything is received, and `mpd_response_finish()` and `mpd_response_next()` end |
| `loops` | `Binary` with fairness; buffers of 3 bytes, requests of 2, 3 and 4 bytes, 7 bytes each way, chunks of 0, 2 and 4 bytes into a buffer of 1 or 4 | 535,652 | the loops wait only to some purpose, end, and do what they say; both streams stay intact, chunks are whole, and the async object is a pair of queues |
| `searches` | `Search`, 2 requests sent, 3 parts, long requests, names that are cut | 401,240 | a request is sent as it was accepted, exactly once, or not at all |
| `receivers` | `Receivers`; listings of up to 3 pairs out of four names, messages and changes of the queue of up to 3, others of up to 2, discrete lists of two commands of up to 5 items; one bad value or none; `OK` or `ACK` | 1,543,598 | every response is cut into objects at the right places, in whatever order receivers are called, and no object leaks |
| `connect` | `Connect`; five hosts by three of `MPD_HOST`, ports, timeouts and the password given or not; 2 addresses per host; a second of 2 ms, 8 values of an unsigned, `MPD_TIMEOUT` 3, 4 (wraps to zero) and 5 | 67,545 | nothing leaks on any way out, the error is that of the last attempt, the timeout covers all addresses, the settings are the documented ones but for two named exceptions |
| `values` | `Values`; 3 pairs per object, 8 allocations, local time two hours ahead until November 1971 and one since | 56,216 | no block leaks or is freed twice, duplicates included; times sent twice agree; dates are UTC where the zone is that of 2009 |
| `commands` | `Commands`; 2 requests, one of each set of functions that print and run alike, with values on both sides of each limit, and those of each exception; 8 values of an unsigned | 1,145,496 | MPD reads what the caller meant or refuses a number that is too large, and a run function that returns true has been answered |
| `quoting` | `Quoting`; all texts of up to 2 of the 5 characters and one of 3, up to two arguments, room 0 to 14 | 91,986 | nothing is written behind the end, MPD reads the arguments, and only what cannot be sent is refused |
| `errors` | `Errors`; every proper line over 3 numbers, 2 names, 4 values, 5 messages, and every prefix of one; 2 messages on the heap | 58,768 | lines are read as meant, the client is told what the last ACK said, each message is owned and freed once |
| `unread_null`, `stray_list_ok` | `Connection`, 4 and 2 requests | | section 6 |

Why the bounds are enough.  A discrete list takes `begin`, two commands and `end`:
four requests, and the fifth is the request after it, which is where an earlier
mistake shows.  One pair per response tells first from next and response from
response; the code does the same for each further pair.  A buffer of three bytes
has a line that fits exactly (bytes 4 to 6 of the response end in none of the
newlines {2, 3, 7}, so a full buffer without a newline occurs), a line in the
middle, an empty line; seven bytes move the buffer more than twice.  A request of
three bytes fills the output buffer, one of four never fits; requests (1, 2) and
(1, 3) find room only after a flush; (3, 4) fills the buffer with its first word
and (2, 4) does not.  A chunk of four bytes is longer than the library's buffer and
one of two is not; a caller's buffer of one byte is too small for both.  Three parts
are the command, one part before and one behind a refused one.  Three pairs are an
object's first, one more of it and the next object's first, or one that nobody wants
before them, in every order; five items of a discrete list are two sub-responses,
one of them with an object of two pairs, or three pairs and nothing.  Two addresses
are one that fails and one after it.  Three pairs fed set a field twice, or two
fields in both orders and one between.  In `quoting` the longest request of two
arguments needs more than the 14 bytes and the shortest far less, so that each
place of the code meets the end.  Two messages are the connection's and the async
object's; a third would need a leak.

Deadlock is checked in every run.  A freed connection stutters by an action of its
own (`Freed`), and so does a connection after a failed chunk (`Dead`).

## 5. Fairness

`Connection!FairSpec`: weak fairness of the library's own steps, so that a loop
goes on while it can.  It always can: `mpd_response_finish()` runs with the timeout
set, and `select()` returns when it expires.  `mpd_recv_idle()` with the timeout
disabled may wait for events for ever and is not part of `CallReturns`; the server
owes nothing.

`Binary!BinaryFairSpec`: weak fairness of the loops' own steps (`Run`, and giving up
where there is nothing to wait for) and of `mpd_recv_binary()` going on when a call
has returned; strong fairness of `Progress`, a wait that ends with bytes transferred
or with an error.  It is strong because a socket may answer EAGAIN after `select()`
in between.  No timeout is relied upon.

The other specifications state safety only.

## 6. Disagreements between code and documentation

| Run | What it shows |
|---|---|
| `unread_null` | `recv.h:69` allows "unreading the NULL pair".  `mpd_response_next()` (`response.c:63`) does not drop it, so that the next sub-response appears to be empty |
| `stray_list_ok` | an unexpected `list_OK` sets MALFORMED with `receiving` still set (`recv.c:131`): `mpd_response_finish()` fails its assertion, or never ends |

Noted while modelling, without a run.

Protocol state:

- `mpd_command_list_begin()` and `mpd_command_list_end()` replace a fatal error by
  STATE (`list.c:18`, `list.c:47`), after which it can be cleared.  A client that
  looks at errors never gets there.  `mpd_check_tag_name()` (`check_tag.c:16`) and
  the dates of `search.c` likewise set an error without looking for an earlier one.
- An ARGUMENT error that comes from the async object (`sync.c:102`) can be cleared
  in the connection, but every later request fails with it.
- `mpd_send_noidle()` with an unread pair may receive while it flushes (`sync.c:142`)
  and move the line under the pair: with `NoidleWithPair` TRUE, `LineIntact` fails.
- `mpd_response_next()` outside a discrete list reports MALFORMED, the server's
  fault, where the documentation has STATE for the client's.  `Careful` forbids it.
- `mpd_async_recv_line()` called again on a full buffer sets a second error
  (`async.c:358`) and would fail its assertion.  The connection never does: it
  reads no further after an error (`MayReceive`).
- The functions of `capabilities.c` (`capabilities.c:108` and on) and
  `stringnormalization.c` that run, and `mpd_run_stats()` (`cstats.c:58`), have no
  `mpd_run_check()` (`run.h:13`).  Called in a command list, the former add their command
  to it and return true, as `mpd_response_finish()` has nothing to finish.
  `RunsAreAnswered` leaves this case out by name.
- `mpd_run_update()` and `mpd_run_rescan()` do not finish the response if the job
  number is zero (`database.c:80`, `database.c:93`).  MPD's job numbers begin at one.
- A chunk larger than the caller's buffer ends in MALFORMED most of the time
  (`recv.c`); `mpd_recv_albumart()` returns the `size_t` of its size as an int.

Errors:

- `mpd_flush()` and `mpd_recv_idle()` copy an error over an earlier one without
  freeing its message (`send.c:434`, `idle.c:81`, `ierror.h:45`): with
  `FlushesAnyway` TRUE, `MessagesAreOwned` fails.
- `mpd_flush()` also lets a recoverable error take the place of a fatal one: a request
  that is too long leaves ARGUMENT in the async object, the client clears it, an
  allocation fails (OOM), and flushing brings ARGUMENT back.  `FatalIsSticky` names this
  one exception, which the run would find.
- An unknown sticker operator or order (`sticker.c:296`, `sticker.c:347`), and an
  unknown mode of single, consume or save, make the function return false but set no
  error: a client that looks only at the commit sends the search without it.
- `mpd_recv_message()` reports MALFORMED, the server's fault, also when the text of a
  message could not be copied (`message.c:51`).
- An ACK without a bracket becomes the server error UNK, "Unspecified MPD error".
- `mpd_song_dup()` neither copies the audio format (`song.c:252`) nor fails when the
  real URI could not be copied.

Numbers and texts:

- `parse_ms()` reads the second digit again for the third (`status.c:155`; the pointer
  is not moved in line 150): "1.234" becomes 1233 ms, where its comment
  (`status.c:135`) speaks of three digits.  `ElapsedToTheHundredth` claims two.
- Unsigned numbers printed with "%i" (`send.c:243`, 254, 382) are negative from
  2^31 on: MPD refuses the number of a song or an output, but takes the position of
  `mpd_send_move_range()` for one relative to the current song.  An absolute seek to a
  negative time is read as relative, too.
- `send.c:45` says that an end of 0.0 means an open range, `queue.h:860` that a negative
  one does, and the code prints every end >= 0.  The documents do not agree on 0, so
  `ServerReadsWhatWasMeant` claims nothing of it.
- An end of a song's range below half a millisecond gives `end` 1 and `end_ms` 0; a
  range is not held to `MAX_DURATION`, unlike a duration.
- Dates are UTC by `iso8601.h:11-16`, but `timegm_emulation()` applies to all of them
  the offset of standard time on a day in February 2009 (`iso8601.c:28`, `:60`): a date
  at which the client's standard time was another is wrong by the difference.
- `mpd_status_feed()` keeps an empty value where `mpd_song_feed()` ignores it.
- `mpd_send_replay_gain_mode()` with an unknown mode sends the command without one.
- A sort name that does not fit the 64 bytes of `request.c:85` is cut, and
  `mpd_search_add_sort_name()` returns true: `TextIsWhatWasAsked` names this exception.
- On a mixed listing, `mpd_recv_directory()`, `mpd_recv_song()` and
  `mpd_recv_playlist()` end an object only where one of their own kind begins
  (`directory.c`, `song.c`, `playlist.c`): pairs of what lies between are fed into it,
  and a directory may take the `Last-Modified` of a playlist.  Only
  `mpd_recv_entity()` tells them apart.

Connecting:

- `MPD_TIMEOUT` times 1000 may wrap (`settings.c:153`), to a shorter time or to zero,
  where `settings.c:32` says "Never zero"; zero then fails the assertion of
  `mpd_connection_set_timeout()`.  `SettingsAsDocumented` names the case.
- A password in the host, the argument's or `MPD_HOST`'s, beats the password argument
  (`settings.c:190`), where `settings.h:44` makes `MPD_HOST`'s the default for a missing
  one.  `SettingsAsDocumented` names the case.
- A path with an at sign in it is split into password and path.
- `mpd_connection_new_async()` leaves the version uninitialised on a malformed welcome.
- The bound on the wait is that of a `select()` that counts its timeval down, as on
  Linux.  A descriptor of `FD_SETSIZE` or more is reported as TIMEOUT.

## 7. Proofs

Each theorem holds for every value of the constants that satisfies the named
assumptions: `ConstantsAssumption` (`Connection`: the bounds are numbers, the sets
are of the right elements), `SizeAssumption` (a buffer has at least one byte),
`AsyncAssumption` (a request has a length and a first word no longer than it; the
bounds are numbers), `SyncAssumption`, `BinaryAssumption` (what `mpd_recv_binary()` asks
for is in `RawSizes`), `SearchAssumption`, `ResponsesAssumption` (a response is a
sequence of names, with places and an end), `ConnectAssumption`, `ErrorsAssumption`,
`QuotingAssumption` (arguments are texts, the command is plain), `CommandsAssumption`,
`ChosenAssumption`, `TextsAssumption` (a numeral has digits), `ZoneAssumption` (the
offset of that day in 2009 is a number), `ValuesAssumption` and
`ProtocolAssumption` (section 3).  The last is about the server; the others do not
restrict the code.  Premises of single theorems are named below.

**ConnectionProofs, for every client and server.**  `TypeCorrect`: one lemma per
helper that builds an outcome (`SendsType`, `RecvPairsType`, ...), then one step per
action.  `FlushesBeforeReceiving` needs, besides the invariant, that a successful
`Sends` with flush leaves nothing (`FlushesAll`) and that receiving never starts
elsewhere.  `FatalErrorsStay` is about a client that does not ignore errors.  It is not
inductive: a fatal error could be overwritten by a *recoverable* one copied from
the async object.  `AsyncErrorKinds`, the strengthening, says that the async
object's only recoverable error, ARGUMENT, arises when nothing is being received
and the connection has no fatal error, that the only fatal error to come after it is
OOM, and that no call in progress can meet it.
`RemainingAlwaysInRange` is for any client and any server: `command_list_remaining`
is only counted down where the code has found it positive, and it is set before a
discrete list begins; elsewhere it may still be what `malloc()` left, which nobody
reads.  `InRange` says so, and every outcome of reading a line keeps it.

**ConnectionProofs, for a careful client.**  The premises are `Careless = {}` and
`StrayLines = {}`: section 6 shows what a client or a server does otherwise, so the
theorems would be false without them.  Nothing bounds the number of requests, pairs or
commands of a list.  `InSync` (nothing is on its way when nothing is expected) and
`ResponsesAligned` (a pair belongs to the response being read) are far from inductive:
whether the next line belongs to the response depends on the requests that
were sent, on how many of them the server has taken, run and answered, and on what the
lines before it end.  `StaysInStep` says all of this at once, for each stage of a
response, and its theorem (`ClientAndServerStayInStep`) has one lemma per action and
stage.  A late `noidle` is why `Noidles` occurs in most stages: the server has still to
ignore it, before or behind the request that matters.  An ACK in a discrete list is why
`Answers` lets a line end the whole response before its last sub-response.  From
`StaysInStep` follow, without a further induction, `IdleIsInSync`,
`ResponsesAreAligned`, `RemainingIsCounted` (in a discrete list
`command_list_remaining` is the number of sub-responses to come), `EndsAreGenuine` (the
end of a response is told only when the server has ended it) and, with `TypeCorrect`,
`NoAssertionFails`.

**StreamProofs.**  *Async*: the inductive invariant `AsyncInv` says of each buffer that
it is `Good`: its indices are in order and its bytes are the stream's, numbered.
Lemmas say what moving, appending and consuming do to such a buffer.
`AsyncImplementsQueues` maps each step to `Accept`, `Transfer`, `Take` or `Fail` of
`Channel`, or a stutter, for users that call in any order.  `OnlyTooLargeIsTooLarge`: a
step that sets MALFORMED begins with a full buffer without a newline.  That requests
and responses stay intact (`RequestsIntact`, `ResponsesIntact`) is proved on the way.

*Sync*: `SyncImplementsAsync` makes `AsyncInv` available; `Arguments` says
that the call's argument fits its function.  `Loops` is the strengthening of
`WaitsToSomePurpose`: what each place in a loop knows about the buffers, which
holds because nothing but the loop itself runs between two of its steps.  `Once`
says that no error is set over another in the async object, because every loop looks
first.  `HeldLine` is `LineIntact` with its reason: while a line is held, the input
buffer is not moved, because nothing remains to be flushed.  That is why the theorem
has the premise `~NoidleWithPair`.

*Binary*: the theorems about the run `loops`, for buffers, chunks and requests of
every size.  `BinaryUsesSyncRight`: whatever `mpd_recv_binary()` and its user do is
what `Sync` allows its user, so that the theorems about `Async` and `Sync` hold with
chunks between the lines (`Chunks...`).  What is new needs `BinaryInv`: `MayGoOn`
(while a chunk is being received nothing is left to write and no error is set before a
call returns), `Collected` (what lies in the caller's buffer are the bytes of the
stream from the chunk's first one) and `Counted` (what is still asked for is what is
missing).  From it `ChunksAreWhole` and `FailuresAreFatal`.  Lemmas on sequences say
that consecutive pieces of the stream join.

**RequestProofs.**  *Search*: every builder call is a `BuilderStep`: it leaves the
connection alone, or does what `SendCommand`, `BadArgument`, `OutOfTurn` or
`OutOfMemory` do.  Hence `SearchImplementsConnection`, and every theorem about
`Connection` carries over.  `Text` (the request is what was asked, but for names to
sort by that were cut, and one string is
alive exactly if there is a request) is inductive; `SortIsWritten` says what
`mpd_request_add_sort()` leaves.  `NothingIsLostSilently` rests on
`RefusalIsKnown`: a refused part that is not acknowledged is visible in the
connection's error, which commit looks at.

*Commands*: `CommandsImplementConnection` likewise.  `WhatIsReadIsWhatWasMeant` is
`FunctionInv` (what was sent are the arguments of a function of the table with values
of its parameters' types) and, for each way of printing, that MPD reads the value that
was meant; for values of any size, an unsigned of any width and lists of names of any
length.  `AsIntIs` says that an unsigned taken for an int is itself or negative, so that
MPD never reads another number where it wants one without a sign.  The arguments end with the first one that is left out (NULL), so that those
before it must be where MPD looks for them.  `RunsHaveBeenAnswered` uses
`StaysInStep`, with its premises: when `mpd_response_finish()` has
succeeded nothing is on its way, the function's own request included.  `RunInv` adds
what `Connection` does not know: that the last request sent is the function's, and that
any `noidle` still on its way is an earlier one (`Earlier`).

**QuotingProofs.**  For any number of arguments of any length, and memory of any size.
The lengths and the reader are recursive; the library's induction theorems cannot be
used, so `HasLeast` (a set of numbers has a least element) gives a least
counterexample instead, and `Stages` builds a recursive function from its steps.
`Position` says where the function is and what is left of the argument (it contains
the type invariant).  `ArgumentsAreRead` rests on `Understood`: what MPD's reader has
made of the text so far is the arguments before this one and what has been taken of
it.  `NothingBehindTheEnd` rests on `Measured` (what `mpd_send_command()` has written,
to the byte) and `Bounded` (the most that a function with an allocation of its own may
have written; the worst case is doubled characters, and `EnoughAllocated` says of each
function that it counts its unchecked characters right).  `RefusedForThatOnly` rests on
`Scans`: no newline has been passed over, and what has been written of a refused
request leaves no room for the rest of it.

**ConnectProofs.**  `ConnectInv` is `Types`, `Phase` (which objects exist at each place
of the code), `Built` (the settings so far are those the code computes, `Computed`; `ComputedAsDocumented` compares them with the header), `Errors` (where an
error may be set, and that it is the last attempt's), `Bounded` (`slack + waited`
never exceeds the timeout) and `NothingLeaks` itself.  One lemma per action, and the
four properties of the run `connect` follow for any number of addresses, any welcome
line and any arguments.

**ErrorsProofs.**  For any number of messages and lines.  `LinesAreAlwaysRead`: the
server's line is a concatenation, and `Joined`, `Part` and `StrchrFinds` say where
`parser.c` finds its marks in it: a mark inside a value or a message comes behind the
one that is looked for.  `ServerErrorsAreTold` is `Told`: an error of the
server is never the async object's, and was made from the last ACK.
`ErrorsInv` says that every message on the heap belongs to one of the two errors and to
one only, that an error without a message is OOM, and that an error of the socket, once
seen by the connection, is a copy.  One lemma per function of `ierror.c` says which
message it `Adds` and that it disturbs no other (`Agrees`).  The premise of all but the
first is `~FlushesAnyway` (section 6).

**ValuesProofs.**  For any texts, tags, numbers of pairs and failing allocations.
`NothingIsLeaked`: `Formed` says what an object of each kind consists of, `Keeps` that
a function that feeds changes the count of blocks as it changes the object, `Makes`
that one that begins or duplicates counts what it returns; `OwnedInv` is that both
objects are `Formed` and `NothingLeaks`.  The other three theorems need what the last
state alone does not say: which pairs have been fed.  `ToldInv` says, of each
time field, that it is what the last pair of its name makes of it; of the status, which
of "time" and "elapsed" came last, because each keeps what the other has set if it is
not zero.  The rest is arithmetic: `DigitsOfFraction` bounds the error of `parse_ms()`
(section 6) by ten milliseconds and `SameHundredth` says that it does not reach the
hundredth, `DurationMsIs` and `Fits` that nothing wraps, and
`DateIsTimegm` that the offset of the date and that of 2009 cancel out where they are
the same.

## 8. Model-checked only

Liveness (`CallReturns`, `CallsReturn`) is out of the prover's reach.  Every safety
property of a passing run is a theorem.  `NoAssertFails` of `Receivers` is not a property of
a run: it is false for a server that sends a stray `list_OK` (section 6).  What a
numeral's digits amount to (`Value` in `Texts`, a fold) is not looked into by any
theorem: they hold whatever it is, if a date's numbers are in their bounds.

## 9. Not modelled

- Text but for tokens: names of pairs in `Receivers`, tokens in `Texts`, `Errors` and
  `Quoting`, kinds and lengths elsewhere.  Characters outside the protocol's own are
  alike to this code.
- Walking a list of attributes (`kvlist.c`): it belongs to the caller, and changes
  nothing but the caller's position.
- The name tables of tags, idle events, features and error codes: constant data.  The
  mask of events that `mpd_recv_idle()` returns, and what `mpd_send_idle_mask()` prints: no step
  of the connection depends on them.
- System calls: the socket is any socket, the resolver any resolver.
- The example program, and the tests, which are clients.

An operator named `X_BugY` is `X` with a mistake that is easy to make.  No
specification uses it; put in place of `X` it breaks the property that guards
against it.
