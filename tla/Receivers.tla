------------------------------ MODULE Receivers ------------------------------
(***************************************************************************)
(* The functions that turn the pairs of a response into objects.  Songs,   *)
(* directories, playlists, outputs, mounts, neighbors, messages and, in a  *)
(* mixed listing, entities all follow one discipline: begin an object at   *)
(* its first pair, feed it pairs up to the first pair of the next object,  *)
(* and put that one back with mpd_enqueue_pair(), or the NULL at the end.  *)
(* Status and statistics take all pairs, other functions a single one; the *)
(* mpd_run_* functions finish the response as well.                        *)
(*                                                                         *)
(* A client reads one response, of one command or of a discrete list.  Its *)
(* pairs are known by their place in response.items.  The connection is    *)
(* what recv.c and response.c see of it; Connection has the rest.          *)
(***************************************************************************)
EXTENDS Integers, Sequences

\* the first pair of each kind of object
Own == [song |-> "file", directory |-> "directory", playlist |-> "playlist",
        output |-> "outputid", mount |-> "mount", neighbor |-> "neighbor",
        message |-> "channel", queue_change |-> "cpos",
        song_id |-> "Id", update_id |-> "updating_db"]

\* the first pairs of a mixed listing, whose values must be good URIs
Uris == {"file", "directory", "playlist"}

\* functions that want the value of a pair or two, not an object
Values == {"song_id", "update_id", "queue_change"}

\* what the mpd_run_* functions receive with
Core == [run_queue_song |-> "song", run_current_song |-> "song",
         run_status |-> "status", run_add_id |-> "song_id",
         run_update |-> "update_id"]
Runs == DOMAIN Core
Functions == DOMAIN Own \cup {"entity", "status"} \cup Runs

Response == [items : Seq(STRING),      \* names of pairs, and "list_OK"
             bad   : SUBSET Nat,       \* places where the value is no good
             lists : Nat,              \* commands of a discrete list, or 0
             end   : {"OK", "ACK"}]

CONSTANT Responses   \* what the server may answer

ASSUME ResponsesAssumption == Responses \subseteq Response

VARIABLES
    response,  \* the response to be read
    read,      \* how many of its items have been read
    conn,      \* the attributes of struct mpd_connection
    call,      \* the function the client is in, and where in it
    object,    \* the object under construction: its pairs, and a message's text
    live,      \* objects that are allocated and not the client's
    upto,      \* history: the items the client has been told about
    told       \* history: the last answer: an object or the end of the objects

vars == <<response, read, conn, call, object, live, upto, told>>

NoCall == [fun |-> "none", phase |-> "none"]
NoObject == [alive |-> FALSE, first |-> 0, last |-> 0, text |-> FALSE]
Untold == [kind |-> "none", fun |-> "none", from |-> 0, first |-> 0, last |-> 0]

Item(i) == response.items[i]
Idle == call = NoCall

\* what the function in progress receives with
Receiver == IF call.fun \in Runs THEN Core[call.fun] ELSE call.fun

\* does an object begin with a pair of that name ...
Starts(f, name) == f = "entity" \/ (f \in DOMAIN Own /\ name = Own[f])

Stops_BugPlaylist(f, name) ==
    IF f = "entity" THEN name \in Uris \ {"playlist"}
    ELSE f \in DOMAIN Own /\ name = Own[f]

\* ... and does one end before it?
Stops(f, name) ==
    IF f = "entity" THEN name \in Uris ELSE f \in DOMAIN Own /\ name = Own[f]

(***************************************************************************)
(* recv.c and response.c                                                   *)
(***************************************************************************)
Defined(c) == c.error # "SUCCESS"
SetError(c, e) == [c EXCEPT !.error = e, !.asserts = @ \/ Defined(c)]

Outcome(c, n, pair) == [conn |-> c, read |-> n, pair |-> pair]

AlreadyDone(c) == ~c.receiving \/ (c.list /\ c.remaining > 0 /\ c.finished)

FeedListOK(c) ==
    IF ~c.list \/ c.remaining = 0 THEN SetError(c, "MALFORMED")
    ELSE [c EXCEPT !.finished = TRUE, !.remaining = @ - 1]

FeedOK(c) ==
    [IF c.list /\ c.remaining > 0
     THEN [SetError(c, "MALFORMED") EXCEPT !.remaining = 0] ELSE c
     EXCEPT !.receiving = FALSE, !.list = FALSE, !.finished = FALSE]

\* the response breaks off: an error from the server, or of the connection
Broken(c, e) == [SetError(c, e) EXCEPT !.receiving = FALSE, !.list = FALSE]

Reads(c) ==
    {Outcome(Broken(c, "CLOSED"), read, FALSE)} \cup
    IF read = Len(response.items)
    THEN {Outcome(IF response.end = "OK" THEN FeedOK(c) ELSE Broken(c, "SERVER"),
                  read, FALSE)}
    ELSE IF Item(read + 1) = "list_OK"
    THEN {Outcome(FeedListOK(c), read + 1, FALSE)}
    ELSE {Outcome([c EXCEPT !.pairState = "FLOATING"], read + 1, TRUE)}

\* mpd_recv_pair()
RecvPairs(c) ==
    IF Defined(c) THEN {Outcome(c, read, FALSE)}
    ELSE IF c.pairState = "NULL"
         THEN {Outcome([c EXCEPT !.pairState = "NONE"], read, FALSE)}
    ELSE IF c.pairState = "QUEUED"
         THEN {Outcome([c EXCEPT !.pairState = "FLOATING"], read, TRUE)}
    ELSE IF AlreadyDone(c) THEN {Outcome(SetError(c, "STATE"), read, FALSE)}
    ELSE Reads([c EXCEPT !.asserts = @ \/ c.pairState = "FLOATING"])

\* mpd_return_pair()
Returned(c) == [c EXCEPT !.pairState = "NONE",
                         !.asserts = @ \/ c.pairState # "FLOATING"]

\* mpd_enqueue_pair()
Enqueued(c, pair) ==
    [c EXCEPT !.pairState = IF pair THEN "QUEUED" ELSE "NULL",
              !.asserts = @ \/ c.pairState # (IF pair THEN "FLOATING" ELSE "NONE")]

\* mpd_response_finish(), up to its loop
Finishing(c) == IF c.pairState = "NULL" THEN [c EXCEPT !.pairState = "NONE"] ELSE c

(***************************************************************************)
(* How a function ends                                                     *)
(***************************************************************************)
Finishes_BugForgotten(answer) == call.fun = "run_add_id"

\* does it call mpd_response_finish() after that answer of its receiver?
Finishes(answer) ==
    \/ call.fun \in {"run_queue_song", "run_add_id"}
    \/ call.fun \in {"run_current_song", "run_update"} /\ answer \notin {"end", "zero"}

Ends(answer, c) ==
    IF Finishes(answer) /\ ~Defined(c)
    THEN call' = [call EXCEPT !.phase = "finish"] /\ conn' = Finishing(c)
    ELSE call' = NoCall /\ conn' = c

\* what is behind the client, who may have a pair before it that it has seen
Behind(c, n) == IF c.pairState = "QUEUED" THEN n - 1 ELSE n

\* the receiver takes no object: NULL, with or without an error, or a value
Nothing(answer, c) ==
    /\ Ends(answer, c)
    /\ upto' = Behind(c, read')
    /\ told' = IF answer # "end" \/ Defined(c) THEN told
               ELSE [Untold EXCEPT !.kind = "end", !.fun = Receiver, !.from = upto]

Dropped_BugLeaks == object' = NoObject /\ UNCHANGED live

\* the object is freed, or the client's
Dropped == object' = NoObject /\ live' = live - 1

\* the receiver has the object whole
Whole(c) ==
    /\ upto' = object.last
    /\ told' = [kind |-> "object", fun |-> Receiver, from |-> upto,
                first |-> object.first, last |-> object.last]
    /\ Ends("object", c)
    /\ IF Finishes("object") THEN UNCHANGED <<object, live>> ELSE Dropped

(***************************************************************************)
(* The receivers, pair by pair                                             *)
(***************************************************************************)
Fresh == read = 0 /\ conn.receiving /\ ~conn.list /\ conn.pairState = "NONE"

\* a receiver is called
Receive(f) ==
    /\ Idle /\ conn.pairState # "FLOATING" /\ ~Defined(conn)
    /\ call' = [fun |-> f, phase |-> "first"]
    /\ UNCHANGED <<response, read, conn, object, live, upto, told>>

\* an mpd_run_* function, which has sent its request, calls its receiver
RunReceive(f) == Fresh /\ Receive(f)

RecvEntity == Receive("entity")
RecvSong == Receive("song")
RecvDirectory == Receive("directory")
RecvPlaylist == Receive("playlist")
RecvOutput == Receive("output")
RecvMount == Receive("mount")
RecvNeighbor == Receive("neighbor")
RecvMessage == Receive("message")
RecvQueueChange == Receive("queue_change")
RecvSongId == Receive("song_id")
RecvUpdateId == Receive("update_id")

RunQueueSong == RunReceive("run_queue_song")
RunCurrentSong == RunReceive("run_current_song")
RunAddId == RunReceive("run_add_id")
RunUpdate == RunReceive("run_update")

\* mpd_recv_status(), mpd_recv_stats(): the object comes before its pairs
RecvStatus(f) ==
    /\ Idle /\ conn.pairState # "FLOATING" /\ ~Defined(conn)
    /\ \/ /\ call' = [fun |-> f, phase |-> "all"]
          /\ object' = [NoObject EXCEPT !.alive = TRUE] /\ live' = live + 1
          /\ UNCHANGED conn
       \/ /\ conn' = SetError(conn, "OOM")
          /\ UNCHANGED <<call, object, live>>
    /\ UNCHANGED <<response, read, upto, told>>

RunStatus == Fresh /\ RecvStatus("run_status")

Good(place) == Item(place) \in Uris => place \notin response.bad

\* mpd_song_begin() and its like, with the pair given back: c
Begins(c) ==
    \/ /\ Good(read')
       /\ object' = [alive |-> TRUE, first |-> read', last |-> read', text |-> FALSE]
       /\ live' = live + 1
       /\ call' = [call EXCEPT !.phase = "rest"] /\ conn' = c
       /\ UNCHANGED <<upto, told>>
    \/ /\ Nothing("error", SetError(c, "OOM"))
       /\ UNCHANGED <<object, live>>
    \/ /\ ~Good(read')
       /\ Nothing("error", SetError(c, "MALFORMED"))
       /\ UNCHANGED <<object, live>>

\* a value is taken from its pair; a change in the queue has a second one
TakesValue(c) ==
    /\ IF Receiver = "queue_change"
       THEN /\ call' = [call EXCEPT !.phase = "id"] /\ conn' = c
            /\ UNCHANGED <<upto, told>>
       ELSE Nothing(IF read' \in response.bad THEN "zero" ELSE "value", c)
    /\ UNCHANGED <<object, live>>

\* mpd_recv_pair_named(), or mpd_recv_pair() for an entity, and the beginning
First ==
    /\ call.phase = "first"
    /\ \E o \in RecvPairs(conn) :
          /\ read' = o.read
          /\ \/ /\ ~o.pair
                /\ Nothing("end", o.conn)
                /\ UNCHANGED <<object, live>>
             \/ /\ o.pair /\ ~Starts(Receiver, Item(o.read))
                /\ conn' = Returned(o.conn)
                /\ UNCHANGED <<call, object, live, upto, told>>
             \/ /\ o.pair /\ Starts(Receiver, Item(o.read))
                /\ IF Receiver \in Values THEN TakesValue(Returned(o.conn))
                                          ELSE Begins(Returned(o.conn))
    /\ UNCHANGED response

\* mpd_recv_queue_change_brief(): the second value, which must not be missing
SecondValue ==
    /\ call.phase = "id"
    /\ \E o \in RecvPairs(conn) :
          /\ read' = o.read
          /\ \/ /\ ~o.pair
                /\ Nothing("error", IF Defined(o.conn) THEN o.conn
                                    ELSE SetError(o.conn, "MALFORMED"))
             \/ /\ o.pair /\ Item(o.read) = "Id"
                /\ Nothing("value", Returned(o.conn))
             \/ /\ o.pair /\ Item(o.read) # "Id"
                /\ conn' = Returned(o.conn)
                /\ UNCHANGED <<call, upto, told>>
    /\ UNCHANGED <<response, object, live>>

\* a message whose text has not come, or could not be copied
Incomplete == Receiver = "message" /\ ~object.text

\* mpd_song_feed() and its like; strdup() may fail
Feeds(place) ==
    \E copied \in BOOLEAN :
        object' = [object EXCEPT !.last = place,
                                 !.text = IF Item(place) = "message" THEN copied ELSE @]

Unread_BugLost(c, pair) == IF pair THEN Returned(c) ELSE c

\* "unread this pair for the next call"
Unread(c, pair) == Enqueued(c, pair)

\* the loop that feeds the object
Rest ==
    /\ call.phase = "rest"
    /\ \E o \in RecvPairs(conn) :
          /\ read' = o.read
          /\ \/ /\ o.pair /\ ~Stops(Receiver, Item(o.read))
                /\ Feeds(o.read) /\ conn' = Returned(o.conn)
                /\ UNCHANGED <<call, live, upto, told>>
             \/ /\ o.pair => Stops(Receiver, Item(o.read))
                /\ ~Defined(o.conn)
                /\ IF Incomplete
                   THEN /\ Nothing("error", SetError(Unread(o.conn, o.pair), "MALFORMED"))
                        /\ Dropped
                   ELSE Whole(Unread(o.conn, o.pair))
             \/ /\ Defined(o.conn)
                /\ Nothing("error", o.conn)
                /\ Dropped
    /\ UNCHANGED response

\* mpd_recv_status(), mpd_recv_stats(): nothing is put back
All ==
    /\ call.phase = "all"
    /\ \E o \in RecvPairs(conn) :
          /\ read' = o.read
          /\ \/ /\ o.pair
                /\ conn' = Returned(o.conn)
                /\ UNCHANGED <<call, object, live, upto, told>>
             \/ /\ ~o.pair
                /\ Nothing("end", o.conn)
                /\ Dropped
    /\ UNCHANGED response

(***************************************************************************)
(* The rest of the response                                                *)
(***************************************************************************)
FinishStep ==
    /\ call.phase = "finish" /\ conn.receiving
    /\ \E o \in RecvPairs([conn EXCEPT !.finished = FALSE,
                                        !.asserts = @ \/ Defined(conn)]) :
          LET progress == \/ o.pair \/ ~o.conn.receiving \/ Defined(o.conn)
                          \/ o.conn.list /\ o.conn.finished
          IN  /\ read' = o.read
              /\ conn' = IF o.pair THEN Returned(o.conn)
                         ELSE [o.conn EXCEPT !.asserts = @ \/ ~progress]
    /\ UNCHANGED <<response, call, object, live, upto, told>>

\* an mpd_run_* function hands its object over, or frees it if there is an error
FinishReturns ==
    /\ call.phase = "finish" /\ ~conn.receiving
    /\ call' = NoCall
    /\ upto' = Behind(conn, read)
    /\ IF object.alive THEN Dropped ELSE UNCHANGED <<object, live>>
    /\ UNCHANGED <<response, read, conn, told>>

\* mpd_response_finish(), mpd_response_next(); the client reads back a NULL
\* before it leaves a sub-response, and does not go to one that is not there
Leave(f) ==
    /\ Idle /\ conn.pairState # "FLOATING" /\ ~Defined(conn)
    /\ \/ /\ f = "finish"
          /\ call' = [fun |-> f, phase |-> f] /\ conn' = Finishing(conn)
       \/ /\ f = "next" /\ conn.pairState # "NULL" /\ response.lists > 0
          /\ conn.finished \/ conn.remaining > 0
          /\ IF conn.receiving
             THEN call' = [fun |-> f, phase |-> f] /\ UNCHANGED conn
             ELSE conn' = SetError(conn, "STATE") /\ UNCHANGED call
    /\ UNCHANGED <<response, read, object, live, upto, told>>

\* mpd_response_next(): one iteration
NextStep ==
    /\ call.phase = "next" /\ ~conn.finished
    /\ conn.remaining # 0 /\ conn.receiving
    /\ \E o \in RecvPairs(conn) :
          /\ read' = o.read
          /\ conn' = IF o.pair THEN Returned(o.conn) ELSE o.conn
          /\ call' = IF Defined(o.conn) THEN NoCall ELSE call
          /\ upto' = IF Defined(o.conn) THEN Behind(conn', read') ELSE upto
    /\ UNCHANGED <<response, object, live, told>>

NextReturns ==
    /\ call.phase = "next"
    /\ \/ /\ conn.finished
          /\ conn' = [conn EXCEPT !.finished = FALSE]
       \/ /\ ~conn.finished /\ (conn.remaining = 0 \/ ~conn.receiving)
          /\ conn' = SetError(conn, "MALFORMED")
    /\ call' = NoCall
    /\ upto' = Behind(conn, read)
    /\ UNCHANGED <<response, read, object, live, told>>

\* mpd_recv_pair() by the client, which returns the pair or puts it back
RecvPair ==
    /\ Idle /\ conn.pairState # "FLOATING" /\ ~Defined(conn)
    /\ \E o \in RecvPairs(conn) : conn' = o.conn /\ read' = o.read
    /\ upto' = read'
    /\ UNCHANGED <<response, call, object, live, told>>

ReturnPair ==
    /\ Idle /\ conn.pairState = "FLOATING"
    /\ conn' = Returned(conn)
    /\ UNCHANGED <<response, read, call, object, live, upto, told>>

PutBack ==
    /\ Idle /\ conn.pairState = "FLOATING"
    /\ conn' = Enqueued(conn, TRUE)
    /\ upto' = read - 1
    /\ UNCHANGED <<response, read, call, object, live, told>>

\* mpd_connection_clear_error(), where it can
ClearError ==
    /\ Idle /\ conn.error \in {"STATE", "SERVER"}
    /\ conn' = [conn EXCEPT !.error = "SUCCESS"]
    /\ UNCHANGED <<response, read, call, object, live, upto, told>>

\* mpd_connection_free()
Free ==
    /\ Idle
    /\ call' = [NoCall EXCEPT !.phase = "freed"]
    /\ upto' = 0 /\ told' = Untold
    /\ UNCHANGED <<response, read, conn, object, live>>

Freed == call.phase = "freed" /\ UNCHANGED vars

(***************************************************************************)
Init ==
    /\ response \in Responses
    /\ conn = [error |-> "SUCCESS", receiving |-> TRUE, list |-> response.lists > 0,
               finished |-> FALSE, remaining |-> response.lists,
               pairState |-> "NONE", asserts |-> FALSE]
    /\ read = 0 /\ call = NoCall /\ object = NoObject /\ live = 0
    /\ upto = 0 /\ told = Untold

Next ==
    \/ RecvEntity \/ RecvSong \/ RecvDirectory \/ RecvPlaylist \/ RecvOutput
    \/ RecvMount \/ RecvNeighbor \/ RecvMessage
    \/ RecvQueueChange \/ RecvSongId \/ RecvUpdateId \/ RecvStatus("status")
    \/ RunQueueSong \/ RunCurrentSong \/ RunAddId \/ RunUpdate \/ RunStatus
    \/ First \/ SecondValue \/ Rest \/ All
    \/ \E f \in {"finish", "next"} : Leave(f)
    \/ FinishStep \/ FinishReturns \/ NextStep \/ NextReturns
    \/ RecvPair \/ ReturnPair \/ PutBack \/ ClearError \/ Free \/ Freed

Spec == Init /\ [][Next]_vars

(***************************************************************************)
(* Properties                                                              *)
(***************************************************************************)
Connection ==
    [error : {"SUCCESS", "STATE", "MALFORMED", "CLOSED", "SERVER", "OOM"},
     receiving : BOOLEAN, list : BOOLEAN, finished : BOOLEAN, remaining : Nat,
     pairState : {"NONE", "NULL", "QUEUED", "FLOATING"}, asserts : BOOLEAN]

\* Every variable has its type.
TypeOK ==
    /\ response \in Response
    /\ read \in 0 .. Len(response.items)
    /\ conn \in Connection
    /\ call \in [fun : Functions \cup {"none", "finish", "next"},
                phase : {"none", "first", "id", "rest", "all", "finish", "next", "freed"}]
    /\ object \in [alive : BOOLEAN, first : Nat, last : Nat, text : BOOLEAN]
    /\ live \in Nat /\ upto \in Nat
    /\ told \in [kind : {"none", "object", "end"}, fun : Functions \cup {"none"}, from : Nat,
                first : Nat, last : Nat]

\* where, for the caller, objects of that kind begin in a response
Boundaries(f) == IF f = "entity" THEN Uris ELSE {Own[f]}

\* An object that is returned is the next of its kind in the response: the
\* receiver passes over pairs that begin none (an entity begins anyhow), and
\* takes the pairs up to where the next one begins or the sub-response ends.
\* No pair is lost between two objects, or given to both.
ObjectsAreCutRight ==
    told.kind = "object" =>
        /\ told.from < told.first /\ told.first <= told.last
        /\ told.last <= Len(response.items)
        /\ \/ Item(told.first) \in Boundaries(told.fun)
           \/ told.fun = "entity" /\ told.first = told.from + 1
        /\ \A k \in told.from + 1 .. told.first - 1 :
              Item(k) \notin Boundaries(told.fun) \cup {"list_OK"}
        /\ \A k \in told.first + 1 .. told.last :
              Item(k) \notin Boundaries(told.fun) \cup {"list_OK"}
        /\ IF told.last = Len(response.items) THEN response.end = "OK"
           ELSE Item(told.last + 1) \in Boundaries(told.fun) \cup {"list_OK"}

\* NULL without an error means that the (sub-)response holds no more of it.
NullMeansNoMore ==
    told.kind = "end" =>
        \A k \in DOMAIN response.items :
            (told.from < k /\ told.fun # "status" /\ Item(k) \in Boundaries(told.fun)) =>
                \E j \in told.from + 1 .. k - 1 : Item(j) = "list_OK"

\* An object is freed, or handed over, exactly once, whatever goes wrong, also
\* while an mpd_run_* function finishes the response behind it.
NoObjectLeaks == live = IF object.alive THEN 1 ELSE 0

\* No assert() of recv.c or response.c fails: a pair is never forgotten, given
\* back twice or put back over another one.
NoAssertFails == ~conn.asserts

\* An mpd_run_* function that returns without an error leaves nothing of the
\* response.  (The exception is mpd_run_update(), should the server call a job
\* number zero, which MPD does not.)
RunsLeaveNothing ==
    [][(call.fun \in Runs /\ call' = NoCall /\ ~Defined(conn')
           /\ ~(call.fun = "run_update" /\ read' \in response.bad)) =>
          ~conn'.receiving /\ conn'.pairState = "NONE"]_vars
=============================================================================
