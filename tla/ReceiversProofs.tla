--------------------------- MODULE ReceiversProofs ---------------------------
(***************************************************************************)
(* Theorems about Receivers, for any set of responses, also of a server    *)
(* that does not keep to the protocol, and any order of calls.             *)
(***************************************************************************)
EXTENDS Receivers, TLAPS

Length == Len(response.items)

(***************************************************************************)
(* The inductive invariant.  What lies between the items the client has    *)
(* been told about and those that were read depends on where in a function *)
(* it is, and on the pair that waits to be read again.                     *)
(***************************************************************************)
Heads(f) == IF f = "entity" THEN Uris ELSE IF f \in DOMAIN Own THEN {Own[f]} ELSE {}

\* no object of that kind begins behind i, up to j, nor does a sub-response end
Passed(f, i, j) ==
    \A k \in DOMAIN response.items :
        i < k /\ k <= j => Item(k) \notin Heads(f) /\ Item(k) # "list_OK"

\* a NULL waits to be read again: the client knows all up to the end
AtEnd ==
    \/ upto = read /\ read = Length
    \/ read = upto + 1 /\ read <= Length /\ Item(read) = "list_OK"

Waiting ==
    /\ conn.pairState = "QUEUED" => upto = read - 1
    /\ conn.pairState = "NULL" => AtEnd \/ conn.error = "MALFORMED"

Places ==
    /\ upto <= read
    /\ conn.pairState \in {"QUEUED", "FLOATING"} => read >= 1 /\ Item(read) # "list_OK"
    /\ conn.pairState = "FLOATING" => call.phase \in {"none", "freed"}
    /\ conn.pairState = "NULL" => call.phase \in {"none", "first", "all", "freed"}
    /\ call.phase = "none" =>
          Waiting /\ (conn.pairState \in {"NONE", "FLOATING"} => upto = read)
    /\ call.phase = "first" =>
          /\ Waiting /\ ~Defined(conn)
          /\ conn.pairState = "NONE" => Passed(Receiver, upto, read)
          /\ conn.pairState = "NONE" /\ Receiver = "entity" => upto = read
    /\ call.phase = "all" => ~Defined(conn)
    /\ call.phase = "id" => conn.pairState = "NONE" /\ ~Defined(conn)
    /\ call.phase = "rest" =>
          /\ conn.pairState = "NONE" /\ ~Defined(conn)
          /\ Receiver \in (DOMAIN Own \cup {"entity"}) \ Values
          /\ object.last = read /\ upto < object.first /\ object.first <= read
          /\ \/ Item(object.first) \in Heads(Receiver)
             \/ Receiver = "entity" /\ object.first = upto + 1
          /\ Passed(Receiver, upto, object.first - 1)
          /\ Passed(Receiver, object.first, read)

\* what the functions are in which phase
Phases ==
    /\ call.phase \in {"none", "freed"} => call.fun = "none"
    /\ call.phase = "first" => Receiver \in DOMAIN Own \cup {"entity"}
    /\ call.phase \in {"id", "next"} => call.fun \notin Runs
    /\ call.phase \in {"all"} => Receiver = "status"
    /\ call.phase \in {"first", "id", "rest"} => call.fun \in Functions

\* the history of answers, in a form that is easier to prove with
Told ==
    /\ told.kind = "object" =>
          /\ told.fun \in (DOMAIN Own \cup {"entity"}) \ Values
          /\ told.from < told.first /\ told.first <= told.last /\ told.last <= Length
          /\ \/ Item(told.first) \in Heads(told.fun)
             \/ told.fun = "entity" /\ told.first = told.from + 1
          /\ Passed(told.fun, told.from, told.first - 1)
          /\ Passed(told.fun, told.first, told.last)
          /\ IF told.last = Length THEN response.end = "OK"
             ELSE Item(told.last + 1) \in Heads(told.fun) \cup {"list_OK"}
    /\ told.kind = "end" =>
          /\ told.fun \in DOMAIN Own \cup {"entity", "status"}
          /\ told.fun # "status" =>
                \E e \in 1 .. Length + 1 :
                    /\ told.from < e /\ Passed(told.fun, told.from, e - 1)
                    /\ e <= Length => Item(e) = "list_OK"

\* the objects
Objects ==
    /\ NoObjectLeaks
    /\ object.alive => call.phase \in {"rest", "all", "finish"}
    /\ call.phase \in {"rest", "all"} => object.alive

\* an mpd_run_* function has the connection for itself
RunsAlone ==
    call.fun \in Runs =>
        /\ call.phase \in {"first", "rest", "all", "finish"}
        /\ ~conn.list
        /\ call.phase # "finish" => conn.pairState = "NONE"
        /\ call.phase = "finish" => \/ conn.pairState = "NONE"
                                    \/ conn.pairState = "QUEUED" /\ conn.receiving

Inv == TypeOK /\ Places /\ Phases /\ Told /\ Objects /\ RunsAlone

(***************************************************************************)
(* Lemmas about the operators                                              *)
(***************************************************************************)
\* The items are a sequence of names.
LEMMA ItemsAreASequence ==
    ASSUME TypeOK
    PROVE  /\ Length \in Nat
           /\ DOMAIN response.items = 1 .. Length
           /\ \A k \in 1 .. Length : Item(k) \in STRING
BY DEF TypeOK, Response, Length, Item

\* Where an object ends is where one begins, and a sub-response ends before
\* neither.
LEMMA HeadsBeginAndEnd ==
    ASSUME NEW f \in DOMAIN Own \cup {"entity"}
    PROVE  /\ \A name : Stops(f, name) <=> name \in Heads(f)
           /\ f # "entity" => \A name : Starts(f, name) <=> name \in Heads(f)
           /\ "list_OK" \notin Heads(f)
BY DEF Heads, Stops, Starts, Own, Uris

Errors == {"STATE", "MALFORMED", "CLOSED", "SERVER", "OOM"}

\* What setting an error and reading a line change in the connection.
LEMMA SetErrorKeeps ==
    ASSUME NEW c \in Connection, NEW e \in Errors
    PROVE  /\ SetError(c, e) \in Connection
           /\ SetError(c, e).error = e /\ Defined(SetError(c, e))
           /\ SetError(c, e).pairState = c.pairState
           /\ SetError(c, e).list = c.list /\ SetError(c, e).receiving = c.receiving
BY DEF SetError, Connection, Errors, Defined

LEMMA BrokenKeeps ==
    ASSUME NEW c \in Connection, NEW e \in Errors
    PROVE  /\ Broken(c, e) \in Connection /\ Defined(Broken(c, e))
           /\ Broken(c, e).error = e
           /\ Broken(c, e).pairState = c.pairState /\ ~Broken(c, e).list
<1> DEFINE d == SetError(c, e)
<1>1. d \in Connection /\ d.error = e /\ d.pairState = c.pairState /\ e # "SUCCESS"
  BY SetErrorKeeps DEF Errors
<1>2. Broken(c, e) = [d EXCEPT !.receiving = FALSE, !.list = FALSE]
  BY DEF Broken
<1> HIDE DEF d
<1> QED  BY <1>1, <1>2 DEF Connection, Defined

LEMMA FeedListOKKeeps ==
    ASSUME NEW c \in Connection
    PROVE  /\ FeedListOK(c) \in Connection
           /\ FeedListOK(c).pairState = c.pairState
           /\ FeedListOK(c).list = c.list /\ (~c.list => Defined(FeedListOK(c)))
<1>1. CASE ~c.list \/ c.remaining = 0
  <2>1. FeedListOK(c) = SetError(c, "MALFORMED") /\ "MALFORMED" \in Errors
    BY <1>1 DEF FeedListOK, Errors
  <2> QED  BY <2>1, SetErrorKeeps
<1>2. CASE c.list /\ c.remaining # 0
  <2>1. FeedListOK(c) = [c EXCEPT !.finished = TRUE, !.remaining = @ - 1]
    BY <1>2 DEF FeedListOK
  <2>2. c.remaining - 1 \in Nat
    BY <1>2 DEF Connection
  <2> QED  BY <1>2, <2>1, <2>2 DEF Connection
<1> QED  BY <1>1, <1>2

LEMMA FeedOKKeeps ==
    ASSUME NEW c \in Connection
    PROVE  /\ FeedOK(c) \in Connection /\ FeedOK(c).pairState = c.pairState
           /\ ~FeedOK(c).list /\ ~FeedOK(c).receiving
<1>1. CASE c.list /\ c.remaining > 0
  <2>1. /\ SetError(c, "MALFORMED") \in Connection
        /\ SetError(c, "MALFORMED").pairState = c.pairState
    BY SetErrorKeeps DEF Errors
  <2> QED  BY <1>1, <2>1 DEF FeedOK, Connection
<1>2. CASE ~(c.list /\ c.remaining > 0)
  BY <1>2 DEF FeedOK, Connection
<1> QED  BY <1>1, <1>2

\* What mpd_recv_pair() returns, what it leaves behind and what it has read.
LEMMA WhatIsReceived ==
    ASSUME TypeOK, NEW c \in Connection, NEW o \in RecvPairs(c),
           c.pairState \in {"QUEUED", "FLOATING"} => read >= 1
    PROVE  /\ o.conn \in Connection /\ o.pair \in BOOLEAN /\ o.read \in 0 .. Length
           /\ o.read = read \/ o.read = read + 1
           /\ ~c.list => ~o.conn.list
           /\ Defined(c) => o.conn = c /\ o.read = read /\ ~o.pair
           /\ o.pair =>
                /\ ~Defined(c) /\ ~Defined(o.conn)
                /\ o.conn.pairState = "FLOATING" /\ o.conn.receiving = c.receiving
                /\ \/ c.pairState = "QUEUED" /\ o.read = read
                   \/ /\ c.pairState \in {"NONE", "FLOATING"} /\ c.receiving
                      /\ o.read = read + 1 /\ Item(o.read) # "list_OK"
           /\ ~o.pair /\ ~Defined(o.conn) =>
                \/ c.pairState = "NULL" /\ o.conn.pairState = "NONE" /\ o.read = read
                \/ /\ c.pairState \in {"NONE", "FLOATING"} /\ o.conn.pairState = c.pairState
                   /\ \/ /\ o.read = read /\ read = Length /\ response.end = "OK"
                         /\ ~o.conn.receiving
                      \/ o.read = read + 1 /\ Item(o.read) = "list_OK" /\ c.list
           /\ Defined(o.conn) /\ ~Defined(c) =>
                c.pairState \in {"NONE", "FLOATING"} /\ o.conn.pairState = c.pairState
<1>1. Length \in Nat /\ read \in 0 .. Length /\ Len(response.items) = Length
  BY ItemsAreASequence DEF TypeOK, Length
<1>2. CASE Defined(c)
  <2>1. o.conn = c /\ o.read = read /\ o.pair = FALSE
    BY <1>2 DEF RecvPairs, Outcome
  <2> QED  BY <1>1, <1>2, <2>1
<1>3. CASE ~Defined(c) /\ c.pairState = "NULL"
  <2> DEFINE d == [c EXCEPT !.pairState = "NONE"]
  <2>1. o.conn = d /\ o.read = read /\ o.pair = FALSE
    BY <1>3 DEF RecvPairs, Outcome
  <2>2. /\ d \in Connection /\ d.pairState = "NONE" /\ d.list = c.list
        /\ d.error = c.error
    BY DEF Connection
  <2> HIDE DEF d
  <2> QED  BY <1>1, <1>3, <2>1, <2>2 DEF Defined
<1>4. CASE ~Defined(c) /\ c.pairState = "QUEUED"
  <2> DEFINE d == [c EXCEPT !.pairState = "FLOATING"]
  <2>1. o.conn = d /\ o.read = read /\ o.pair = TRUE
    BY <1>4 DEF RecvPairs, Outcome
  <2>2. /\ d \in Connection /\ d.pairState = "FLOATING" /\ d.list = c.list
        /\ d.error = c.error /\ d.receiving = c.receiving
    BY DEF Connection
  <2> HIDE DEF d
  <2> QED  BY <1>1, <1>4, <2>1, <2>2 DEF Defined
<1>5. CASE ~Defined(c) /\ c.pairState \notin {"NULL", "QUEUED"} /\ AlreadyDone(c)
  <2>1. o.conn = SetError(c, "STATE") /\ o.read = read /\ o.pair = FALSE
    BY <1>5 DEF RecvPairs, Outcome
  <2>2. /\ o.conn \in Connection /\ Defined(o.conn) /\ o.conn.list = c.list
        /\ o.conn.pairState = c.pairState
    BY <2>1, SetErrorKeeps DEF Errors
  <2>3. c.pairState \in {"NONE", "FLOATING"}
    BY <1>5 DEF Connection
  <2> QED  BY <1>1, <1>5, <2>1, <2>2, <2>3
<1>6. CASE ~Defined(c) /\ c.pairState \notin {"NULL", "QUEUED"} /\ ~AlreadyDone(c)
  <2> DEFINE d == [c EXCEPT !.asserts = @ \/ c.pairState = "FLOATING"]
  <2>1. /\ d \in Connection /\ d.pairState = c.pairState /\ d.list = c.list
        /\ d.receiving = c.receiving /\ d.error = c.error /\ c.receiving
        /\ c.pairState \in {"NONE", "FLOATING"}
        /\ ~Defined(d)
    BY <1>6 DEF Connection, AlreadyDone, Defined
  <2>2. o \in Reads(d)
    BY <1>6 DEF RecvPairs
  <2> HIDE DEF d
  <2>3. CASE o.conn = Broken(d, "CLOSED") /\ o.read = read /\ o.pair = FALSE
    <3>1. /\ o.conn \in Connection /\ Defined(o.conn) /\ ~o.conn.list
          /\ o.conn.pairState = d.pairState
      BY <2>1, <2>3, BrokenKeeps DEF Errors
    <3> QED  BY <1>1, <1>6, <2>1, <2>3, <3>1
  <2>4. CASE /\ read = Length /\ response.end # "OK"
             /\ o.conn = Broken(d, "SERVER") /\ o.read = read /\ o.pair = FALSE
    <3>1. /\ o.conn \in Connection /\ Defined(o.conn) /\ ~o.conn.list
          /\ o.conn.pairState = d.pairState
      BY <2>1, <2>4, BrokenKeeps DEF Errors
    <3> QED  BY <1>1, <1>6, <2>1, <2>4, <3>1
  <2>5. CASE /\ read = Length /\ response.end = "OK"
             /\ o.conn = FeedOK(d) /\ o.read = read /\ o.pair = FALSE
    BY <1>1, <1>6, <2>1, <2>5, FeedOKKeeps
  <2>6. CASE /\ read # Length /\ Item(read + 1) = "list_OK"
             /\ o.conn = FeedListOK(d) /\ o.read = read + 1 /\ o.pair = FALSE
    <3>1. /\ o.conn \in Connection /\ o.conn.pairState = d.pairState
          /\ o.conn.list = d.list /\ (~d.list => Defined(o.conn))
      BY <2>1, <2>6, FeedListOKKeeps
    <3>2. ~c.list => ~o.conn.list /\ Defined(o.conn)
      BY <2>1, <3>1
    <3>3. o.read \in 0 .. Length /\ Item(o.read) = "list_OK"
      BY <1>1, <2>6
    <3> QED  BY <1>6, <2>1, <2>6, <3>1, <3>2, <3>3
  <2>7. CASE /\ read # Length /\ Item(read + 1) # "list_OK"
             /\ o.conn = [d EXCEPT !.pairState = "FLOATING"]
             /\ o.read = read + 1 /\ o.pair = TRUE
    <3> DEFINE e == [d EXCEPT !.pairState = "FLOATING"]
    <3>2. o.conn = e
      BY <2>7
    <3>1. /\ e \in Connection /\ e.pairState = "FLOATING" /\ e.list = d.list
          /\ e.error = d.error /\ e.receiving = d.receiving
      BY <2>1 DEF Connection
    <3> HIDE DEF e
    <3>3. o.read \in 0 .. Length /\ Item(o.read) # "list_OK"
      BY <1>1, <2>7
    <3>4. ~Defined(o.conn) /\ (~c.list => ~o.conn.list) /\ o.conn.receiving = c.receiving
      BY <2>1, <3>1, <3>2 DEF Defined
    <3> QED  BY <1>6, <2>1, <2>7, <3>1, <3>2, <3>3, <3>4
  <2>8. \/ o = Outcome(Broken(d, "CLOSED"), read, FALSE)
        \/ /\ read = Length /\ response.end = "OK"
           /\ o = Outcome(FeedOK(d), read, FALSE)
        \/ /\ read = Length /\ response.end # "OK"
           /\ o = Outcome(Broken(d, "SERVER"), read, FALSE)
        \/ /\ read # Length /\ Item(read + 1) = "list_OK"
           /\ o = Outcome(FeedListOK(d), read + 1, FALSE)
        \/ /\ read # Length /\ Item(read + 1) # "list_OK"
           /\ o = Outcome([d EXCEPT !.pairState = "FLOATING"], read + 1, TRUE)
    BY <1>1, <2>2 DEF Reads
  <2>9. CASE o = Outcome(Broken(d, "CLOSED"), read, FALSE)
    BY <2>3, <2>9 DEF Outcome
  <2>10. CASE /\ read # Length /\ Item(read + 1) = "list_OK"
              /\ o = Outcome(FeedListOK(d), read + 1, FALSE)
    BY <2>6, <2>10 DEF Outcome
  <2>11. CASE /\ read # Length /\ Item(read + 1) # "list_OK"
              /\ o = Outcome([d EXCEPT !.pairState = "FLOATING"], read + 1, TRUE)
    BY <2>7, <2>11 DEF Outcome
  <2>12. CASE read = Length /\ response.end = "OK" /\ o = Outcome(FeedOK(d), read, FALSE)
    BY <2>5, <2>12 DEF Outcome
  <2>13. CASE /\ read = Length /\ response.end # "OK"
              /\ o = Outcome(Broken(d, "SERVER"), read, FALSE)
    BY <2>4, <2>13 DEF Outcome
  <2> QED  BY <2>8, <2>9, <2>10, <2>11, <2>12, <2>13
<1> QED  BY <1>2, <1>3, <1>4, <1>5, <1>6 DEF Connection

\* Giving a pair back, putting one back, and the beginning of a finish.
LEMMA PairsGivenBack ==
    ASSUME NEW c \in Connection, NEW pair \in BOOLEAN
    PROVE  /\ Returned(c) \in Connection /\ Returned(c).pairState = "NONE"
           /\ Returned(c).error = c.error /\ Returned(c).list = c.list
           /\ Returned(c).receiving = c.receiving
           /\ Enqueued(c, pair) \in Connection
           /\ Enqueued(c, pair).pairState = (IF pair THEN "QUEUED" ELSE "NULL")
           /\ Enqueued(c, pair).error = c.error /\ Enqueued(c, pair).list = c.list
           /\ Enqueued(c, pair).receiving = c.receiving
           /\ Finishing(c) \in Connection
           /\ Finishing(c).pairState = (IF c.pairState = "NULL" THEN "NONE" ELSE c.pairState)
           /\ Finishing(c).error = c.error /\ Finishing(c).list = c.list
           /\ Finishing(c).receiving = c.receiving
BY DEF Returned, Enqueued, Finishing, Connection

\* The client knows what it was told before.
LEMMA ToldIsKept ==
    ASSUME Told, told' = told, response' = response
    PROVE  Told'
BY DEF Told, Passed, Item, Length

\* The callers of a receiver are functions of their own.
LEMMA NamesDiffer ==
    /\ Runs \subseteq Functions /\ "none" \notin Runs /\ "finish" \notin Runs
    /\ "next" \notin Runs /\ Runs \cap (DOMAIN Own \cup {"entity", "status"}) = {}
    /\ DOMAIN Own \cup {"entity", "status"} \subseteq Functions
    /\ \A f \in Runs : Core[f] \in DOMAIN Own \cup {"status"}
    /\ \A f \in Runs \ {"run_status"} : Core[f] \in DOMAIN Own
    /\ Core["run_status"] = "status" /\ "run_status" \in Runs
    /\ "status" \notin DOMAIN Own
    /\ "entity" \notin DOMAIN Own
    /\ {"run_queue_song", "run_add_id", "run_current_song", "run_update"} \subseteq Runs
<1>1. DOMAIN Own = {"song", "directory", "playlist", "output", "mount", "neighbor",
                    "message", "queue_change", "song_id", "update_id"}
  BY DEF Own
<1>2. Runs = {"run_queue_song", "run_current_song", "run_status", "run_add_id",
              "run_update"}
  BY DEF Runs, Core
<1>3. /\ Core["run_queue_song"] = "song" /\ Core["run_current_song"] = "song"
      /\ Core["run_status"] = "status" /\ Core["run_add_id"] = "song_id"
      /\ Core["run_update"] = "update_id"
  BY DEF Core
<1>4. Functions = DOMAIN Own \cup {"entity", "status"} \cup Runs
  BY DEF Functions
<1>5. /\ Runs \subseteq Functions /\ "none" \notin Runs /\ "finish" \notin Runs
      /\ "next" \notin Runs /\ Runs \cap (DOMAIN Own \cup {"entity", "status"}) = {}
      /\ DOMAIN Own \cup {"entity", "status"} \subseteq Functions
  <2>1. Runs \cap (DOMAIN Own \cup {"entity", "status"}) = {}
    BY <1>1, <1>2
  <2> QED  BY <1>2, <1>4, <2>1
<1>6. /\ \A f \in Runs : Core[f] \in DOMAIN Own \cup {"status"}
      /\ \A f \in Runs \ {"run_status"} : Core[f] \in DOMAIN Own
  BY <1>1, <1>2, <1>3
<1>7. /\ "status" \notin DOMAIN Own
      /\ "entity" \notin DOMAIN Own
      /\ {"run_queue_song", "run_add_id", "run_current_song", "run_update"} \subseteq Runs
      /\ "run_status" \in Runs
  BY <1>1, <1>2
<1> QED  BY <1>3, <1>5, <1>6, <1>7

\* No mpd_run_* function receives a change in the queue, or a message.
LEMMA QueueChangeHasNoRun ==
    \A f \in Runs : Core[f] \notin {"queue_change", "message", "entity"}
<1>1. Runs = {"run_queue_song", "run_current_song", "run_status", "run_add_id",
              "run_update"}
  BY DEF Runs, Core
<1> QED  BY <1>1 DEF Core

\* The type of a call.
Calls == [fun : Functions \cup {"none", "finish", "next"},
          phase : {"none", "first", "id", "rest", "all", "finish", "next", "freed"}]

\* Where the end of a function leaves the client.
LEMMA WhereItEnds ==
    ASSUME NEW answer, NEW c \in Connection, Ends(answer, c), TypeOK
    PROVE  /\ conn' \in Connection
           /\ conn'.error = c.error /\ conn'.list = c.list /\ conn'.receiving = c.receiving
           /\ \/ call' = NoCall /\ conn' = c
              \/ /\ call.fun \in Runs /\ ~Defined(c) /\ Finishes(answer)
                 /\ call'.fun = call.fun /\ call'.phase = "finish"
                 /\ conn'.pairState =
                       (IF c.pairState = "NULL" THEN "NONE" ELSE c.pairState)
           /\ call' \in Calls
<1>1. CASE Finishes(answer) /\ ~Defined(c)
  <2>1. call' = [call EXCEPT !.phase = "finish"] /\ conn' = Finishing(c)
    BY <1>1 DEF Ends
  <2>2. call.fun \in Runs
    BY <1>1, NamesDiffer DEF Finishes
  <2> QED  BY <1>1, <2>1, <2>2, PairsGivenBack DEF TypeOK, Calls
<1>2. CASE ~(Finishes(answer) /\ ~Defined(c))
  <2>1. call' = NoCall /\ conn' = c
    BY <1>2 DEF Ends
  <2> QED  BY <1>2, <2>1 DEF NoCall, Calls
<1> QED  BY <1>1, <1>2

\* No object of that kind is left before the end of the (sub-)response.
NoneLeft(f) ==
    \E e \in 1 .. Length + 1 :
        /\ upto < e /\ Passed(f, upto, e - 1)
        /\ e <= Length => Item(e) = "list_OK"

\* A receiver that takes nothing keeps everything but the objects in order.
LEMMA NothingIsTaken ==
    ASSUME Inv, NEW answer, NEW c \in Connection, Nothing(answer, c),
           response' = response, NEW r \in 0 .. Length, read' = r,
           call.phase \in {"first", "id", "rest", "all"},
           \/ c.pairState = "NONE"
           \/ /\ c.error = "MALFORMED" /\ c.pairState \in {"NULL", "QUEUED"}
              /\ c.pairState = "QUEUED" => r >= 1 /\ Item(r) # "list_OK",
           call.fun \in Runs => ~c.list,
           answer = "end" /\ ~Defined(c) =>
              /\ Receiver \in DOMAIN Own \cup {"entity", "status"}
              /\ Receiver # "status" => NoneLeft(Receiver)
    PROVE  /\ conn' \in Connection /\ call' \in Calls /\ upto' \in Nat
           /\ told' \in [kind : {"none", "object", "end"}, fun : Functions \cup {"none"},
                         from : Nat, first : Nat, last : Nat]
           /\ Places' /\ Phases' /\ Told' /\ RunsAlone'
           /\ call'.phase \in {"none", "finish"}
<1> USE DEF Inv
<1>1. /\ conn' \in Connection /\ call' \in Calls
      /\ conn'.error = c.error /\ conn'.list = c.list /\ conn'.receiving = c.receiving
      /\ \/ call'.fun = "none" /\ call'.phase = "none" /\ conn' = c
         \/ /\ call.fun \in Runs /\ ~Defined(c) /\ Finishes(answer)
            /\ call'.fun = call.fun /\ call'.phase = "finish" /\ conn'.pairState = "NONE"
  BY WhereItEnds DEF Nothing, Calls, NoCall, Defined
<1>2. /\ upto' = (IF c.pairState = "QUEUED" THEN r - 1 ELSE r)
      /\ upto' \in Nat /\ Length \in Nat
  BY ItemsAreASequence DEF Nothing, Behind
<1>3. Places'
  <2>1. upto' <= read' /\ (conn'.pairState = "QUEUED" => upto' = read' - 1)
    BY <1>1, <1>2 DEF Defined
  <2>2. /\ conn'.pairState \notin {"NONE", "QUEUED"} => conn'.error = "MALFORMED"
        /\ conn'.pairState # "FLOATING"
        /\ conn'.pairState = "QUEUED" => read' >= 1 /\ Item(read)' # "list_OK"
    <3>1. CASE c.pairState = "NONE"
      BY <1>1, <3>1
    <3>2. CASE c.error = "MALFORMED"
      <4>1. conn' = c
        BY <1>1, <3>2 DEF Defined
      <4> QED  BY <3>2, <4>1 DEF Item
    <3> QED  BY <3>1, <3>2
  <2>3. conn'.pairState = "NONE" /\ call'.phase = "none" => upto' = read'
    BY <1>1, <1>2
  <2>4. conn'.pairState = "NULL" => call'.phase = "none"
    BY <1>1
  <2> QED  BY <1>1, <2>1, <2>2, <2>3, <2>4 DEF Places, Waiting
<1>4. Phases'
  BY <1>1, NamesDiffer DEF Phases
<1>5. RunsAlone'
  BY <1>1, NamesDiffer DEF RunsAlone
<1>6. CASE answer # "end" \/ Defined(c)
  <2>1. told' = told
    BY <1>6 DEF Nothing
  <2> QED  BY <1>1, <1>2, <1>3, <1>4, <1>5, <2>1, ToldIsKept DEF TypeOK
<1>7. CASE answer = "end" /\ ~Defined(c)
  <2>1. told' = [kind |-> "end", fun |-> Receiver, from |-> upto, first |-> 0, last |-> 0]
    BY <1>7 DEF Nothing, Untold
  <2>2. told' \in [kind : {"none", "object", "end"}, fun : Functions \cup {"none"},
                   from : Nat, first : Nat, last : Nat]
    BY <1>7, <2>1, NamesDiffer DEF TypeOK
  <2>3. Told'
    BY <1>7, <2>1 DEF Told, NoneLeft, Passed, Item, Length
  <2> QED  BY <1>1, <1>2, <1>3, <1>4, <1>5, <2>2, <2>3
<1> QED  BY <1>6, <1>7

\* A receiver that takes nothing and leaves the objects alone, or frees its own.
LEMMA NothingKeeps ==
    ASSUME Inv, NEW answer, NEW c \in Connection, Nothing(answer, c),
           response' = response, NEW r \in 0 .. Length, read' = r,
           call.phase \in {"first", "id", "rest", "all"},
           \/ c.pairState = "NONE"
           \/ /\ c.error = "MALFORMED" /\ c.pairState \in {"NULL", "QUEUED"}
              /\ c.pairState = "QUEUED" => r >= 1 /\ Item(r) # "list_OK",
           call.fun \in Runs => ~c.list,
           answer = "end" /\ ~Defined(c) =>
              /\ Receiver \in DOMAIN Own \cup {"entity", "status"}
              /\ Receiver # "status" => NoneLeft(Receiver),
           IF object.alive THEN Dropped ELSE UNCHANGED <<object, live>>
    PROVE  Inv'
<1> USE DEF Inv
<1>1. /\ conn' \in Connection /\ call' \in Calls /\ upto' \in Nat
      /\ told' \in [kind : {"none", "object", "end"}, fun : Functions \cup {"none"},
                    from : Nat, first : Nat, last : Nat]
      /\ Places' /\ Phases' /\ Told' /\ RunsAlone'
      /\ call'.phase \in {"none", "finish"}
  BY NothingIsTaken
<1>2. /\ object' \in [alive : BOOLEAN, first : Nat, last : Nat, text : BOOLEAN]
      /\ ~object'.alive /\ live' = 0
  <2>1. CASE object.alive
    <3>1. live = 1
      BY <2>1 DEF Objects, NoObjectLeaks
    <3>2. object' = [alive |-> FALSE, first |-> 0, last |-> 0, text |-> FALSE]
          /\ live' = live - 1
      BY <2>1 DEF Dropped, NoObject
    <3> QED  BY <3>1, <3>2
  <2>2. CASE ~object.alive
    BY <2>2 DEF TypeOK, Objects, NoObjectLeaks
  <2> QED  BY <2>1, <2>2
<1>3. TypeOK'
  BY <1>1, <1>2 DEF TypeOK, Calls, Length
<1>4. Objects'
  BY <1>1, <1>2 DEF Objects, NoObjectLeaks
<1> QED  BY <1>1, <1>3, <1>4

(***************************************************************************)
(* The invariant is inductive: the calls                                   *)
(***************************************************************************)
LEMMA InitKeeps == Init => Inv
<1> SUFFICES ASSUME Init  PROVE Inv
  OBVIOUS
<1>1. response \in Response
  BY ResponsesAssumption DEF Init
<1>2. TypeOK
  <2>1. Len(response.items) \in Nat /\ response.lists \in Nat
    BY <1>1 DEF Response
  <2> QED  BY <1>1, <2>1 DEF Init, TypeOK, Connection, NoCall, NoObject, Untold
<1>3. Places /\ Phases /\ Told /\ Objects
  BY <1>2 DEF Init, Places, Waiting, Phases, Told, Objects, NoObjectLeaks, NoCall,
     NoObject, Untold
<1>4. RunsAlone
  BY NamesDiffer DEF Init, RunsAlone, NoCall
<1> QED  BY <1>2, <1>3, <1>4 DEF Inv

\* A receiver is called where the client has seen all there was.
LEMMA ReceiveKeeps ==
    ASSUME Inv, NEW f \in (DOMAIN Own \cup {"entity"} \cup Runs) \ {"run_status"},
           Receive(f), f \in Runs => Fresh
    PROVE  Inv'
<1> USE DEF Inv
<1>1. /\ UNCHANGED <<response, read, conn, object, live, upto, told>>
      /\ call'.fun = f /\ call'.phase = "first" /\ call' \in Calls
      /\ call.fun = "none" /\ call.phase = "none"
      /\ conn.pairState # "FLOATING" /\ ~Defined(conn)
  BY NamesDiffer DEF Receive, Idle, NoCall, Calls
<1>2. TypeOK'
  BY <1>1 DEF TypeOK, Calls
<1>3. Receiver' \in DOMAIN Own \cup {"entity"}
  BY <1>1, NamesDiffer DEF Receiver
<1>4. Places'
  <2>1. conn.pairState = "NONE" => upto = read
    BY <1>1 DEF Places
  <2>2. upto \in Nat /\ read \in Nat
    BY DEF TypeOK
  <2>3. conn'.pairState = "NONE" => Passed(Receiver, upto, read)'
    <3> SUFFICES ASSUME conn.pairState = "NONE"  PROVE Passed(Receiver, upto, read)'
      BY <1>1
    <3>1. \A k \in DOMAIN response.items : ~(read < k /\ k <= read)
      BY <2>2, ItemsAreASequence
    <3> QED  BY <1>1, <2>1, <3>1 DEF Passed
  <2> QED  BY <1>1, <2>1, <2>3 DEF Places, Waiting, AtEnd, Item, Length, Defined
<1>5. Phases'
  BY <1>1, <1>3, NamesDiffer DEF Phases, Calls
<1>6. Told'
  BY <1>1, ToldIsKept
<1>7. Objects'
  BY <1>1 DEF Objects, NoObjectLeaks
<1>8. RunsAlone'
  BY <1>1 DEF RunsAlone, Fresh
<1> QED  BY <1>2, <1>4, <1>5, <1>6, <1>7, <1>8

\* A status is allocated, or it is not.
LEMMA RecvStatusKeeps ==
    ASSUME Inv, NEW f \in {"status", "run_status"}, RecvStatus(f), f \in Runs => Fresh
    PROVE  Inv'
<1> USE DEF Inv
<1>1. /\ UNCHANGED <<response, read, upto, told>>
      /\ call.fun = "none" /\ call.phase = "none" /\ conn.pairState # "FLOATING"
      /\ ~Defined(conn) /\ conn \in Connection
  BY DEF RecvStatus, Idle, NoCall, TypeOK
<1>2. CASE /\ call' = [fun |-> f, phase |-> "all"]
           /\ object' = [NoObject EXCEPT !.alive = TRUE] /\ live' = live + 1
           /\ UNCHANGED conn
  <2>1. call'.fun = f /\ call'.phase = "all" /\ call' \in Calls
    BY <1>2, NamesDiffer DEF Calls
  <2>2. TypeOK'
    <3>1. object' \in [alive : BOOLEAN, first : Nat, last : Nat, text : BOOLEAN]
      BY <1>2 DEF NoObject
    <3>2. live' \in Nat
      BY <1>2 DEF TypeOK
    <3> QED  BY <1>1, <1>2, <2>1, <3>1, <3>2 DEF TypeOK, Calls
  <2>3. Receiver' = "status"
    BY <2>1, NamesDiffer DEF Receiver
  <2>4. Places' /\ Phases'
    <3>1. conn.pairState \in {"QUEUED", "FLOATING"} =>
             read >= 1 /\ response.items[read] # "list_OK"
      BY DEF Places, Item
    <3>2. upto <= read
      BY DEF Places
    <3>3. Places'
      BY <1>1, <1>2, <2>1, <3>1, <3>2 DEF Places, Item, Defined
    <3>4. Phases'
      BY <1>1, <1>2, <2>1, <2>3, NamesDiffer DEF Phases
    <3> QED  BY <3>3, <3>4
  <2>5. Told'
    BY <1>1, ToldIsKept
  <2>6. Objects'
    BY <1>1, <1>2, <2>1 DEF Objects, NoObjectLeaks, NoObject
  <2>7. RunsAlone'
    BY <1>2, <2>1 DEF RunsAlone, Fresh
  <2> QED  BY <2>2, <2>4, <2>5, <2>6, <2>7
<1>3. CASE conn' = SetError(conn, "OOM") /\ UNCHANGED <<call, object, live>>
  <2>1. /\ conn' \in Connection /\ conn'.error = "OOM"
        /\ conn'.pairState = conn.pairState
    BY <1>1, <1>3, SetErrorKeeps DEF Errors
  <2>2. TypeOK'
    BY <1>1, <1>3, <2>1 DEF TypeOK
  <2>3. Places'
    BY <1>1, <1>3, <2>1 DEF Places, Waiting, AtEnd, Item, Length, Defined
  <2>4. Phases'
    BY <1>1, <1>3 DEF Phases, Receiver
  <2>5. Told'
    BY <1>1, ToldIsKept
  <2>6. Objects'
    BY <1>1, <1>3 DEF Objects, NoObjectLeaks
  <2>7. RunsAlone'
    BY <1>1, <1>3, NamesDiffer DEF RunsAlone
  <2> QED  BY <2>2, <2>3, <2>4, <2>5, <2>6, <2>7
<1> QED  BY <1>2, <1>3 DEF RecvStatus

(***************************************************************************)
(* The invariant is inductive: the receivers, pair by pair                 *)
(***************************************************************************)
\* Passing over one item more.
LEMMA PassedOneMore ==
    ASSUME NEW f, NEW i \in Nat, NEW j \in Nat, Passed(f, i, j), TypeOK,
           Item(j + 1) \notin Heads(f), Item(j + 1) # "list_OK"
    PROVE  Passed(f, i, j + 1)
<1> SUFFICES ASSUME NEW k \in DOMAIN response.items, i < k, k <= j + 1
             PROVE  Item(k) \notin Heads(f) /\ Item(k) # "list_OK"
  BY DEF Passed
<1>1. k \in Nat
  BY ItemsAreASequence
<1>2. k <= j \/ k = j + 1
  BY <1>1
<1> QED  BY <1>2 DEF Passed

\* Nothing lies between two neighbours.
LEMMA NothingBetween ==
    ASSUME NEW f, NEW i \in Nat, NEW j \in Nat, j <= i, TypeOK
    PROVE  Passed(f, i, j)
<1>1. \A k \in DOMAIN response.items : ~(i < k /\ k <= j)
  BY ItemsAreASequence
<1> QED  BY <1>1 DEF Passed

\* What a receiver knows when it has received at its first step.
LEMMA WhatComesFirst ==
    ASSUME Inv, call.phase = "first", NEW o \in RecvPairs(conn)
    PROVE  /\ o.conn \in Connection /\ o.pair \in BOOLEAN /\ o.read \in 0 .. Length
           /\ ~conn.list => ~o.conn.list
           /\ upto <= o.read
           /\ o.pair => /\ o.conn.pairState = "FLOATING" /\ ~Defined(o.conn)
                        /\ o.read >= 1 /\ Item(o.read) # "list_OK"
                        /\ upto < o.read /\ Passed(Receiver, upto, o.read - 1)
                        /\ Receiver = "entity" => o.read = upto + 1
                        /\ (call.fun \in Runs => o.conn.receiving)
           /\ ~o.pair => o.conn.pairState = "NONE"
           /\ ~o.pair /\ ~Defined(o.conn) => NoneLeft(Receiver)
           /\ ~o.pair /\ ~Defined(o.conn) /\ call.fun \in Runs => ~o.conn.receiving
<1> USE DEF Inv
<1>1. /\ conn.pairState \in {"NONE", "NULL", "QUEUED"} /\ ~Defined(conn)
      /\ conn \in Connection /\ upto \in Nat /\ read \in 0 .. Length /\ Length \in Nat
      /\ upto <= read
      /\ conn.pairState \in {"QUEUED", "FLOATING"} => read >= 1 /\ Item(read) # "list_OK"
      /\ conn.pairState = "NONE" => Passed(Receiver, upto, read)
      /\ conn.pairState = "NONE" /\ Receiver = "entity" => upto = read
      /\ conn.pairState = "QUEUED" => upto = read - 1
      /\ conn.pairState = "NULL" => AtEnd
      /\ call.fun \in Runs => conn.pairState = "NONE" /\ ~conn.list
  <2>1. Waiting /\ conn.pairState # "FLOATING"
    BY DEF Places
  <2> QED  BY <2>1, ItemsAreASequence DEF TypeOK, Length, Places, Waiting, Connection,
     Defined, RunsAlone
<1>2. /\ o.conn \in Connection /\ o.pair \in BOOLEAN /\ o.read \in 0 .. Length
      /\ o.read = read \/ o.read = read + 1
      /\ ~conn.list => ~o.conn.list
      /\ o.pair =>
           /\ ~Defined(o.conn)
           /\ o.conn.pairState = "FLOATING" /\ o.conn.receiving = conn.receiving
           /\ \/ conn.pairState = "QUEUED" /\ o.read = read
              \/ /\ conn.pairState \in {"NONE", "FLOATING"} /\ conn.receiving
                 /\ o.read = read + 1 /\ Item(o.read) # "list_OK"
      /\ ~o.pair /\ ~Defined(o.conn) =>
           \/ conn.pairState = "NULL" /\ o.conn.pairState = "NONE" /\ o.read = read
           \/ /\ conn.pairState \in {"NONE", "FLOATING"} /\ o.conn.pairState = conn.pairState
              /\ \/ /\ o.read = read /\ read = Length /\ response.end = "OK"
                    /\ ~o.conn.receiving
                 \/ o.read = read + 1 /\ Item(o.read) = "list_OK" /\ conn.list
      /\ Defined(o.conn) /\ ~Defined(conn) =>
           conn.pairState \in {"NONE", "FLOATING"} /\ o.conn.pairState = conn.pairState
  BY <1>1, WhatIsReceived
<1>3. upto <= o.read
  BY <1>1, <1>2
<1>4. ASSUME o.pair
      PROVE  /\ o.read >= 1 /\ Item(o.read) # "list_OK"
             /\ upto < o.read /\ Passed(Receiver, upto, o.read - 1)
             /\ Receiver = "entity" => o.read = upto + 1
             /\ (call.fun \in Runs => o.conn.receiving)
  <2>1. CASE conn.pairState = "QUEUED" /\ o.read = read
    BY <1>1, <2>1, NothingBetween
  <2>2. CASE /\ conn.pairState = "NONE" /\ conn.receiving
             /\ o.read = read + 1 /\ Item(o.read) # "list_OK"
    <3>1. o.read - 1 = read /\ upto < o.read /\ o.read >= 1
      BY <1>1, <2>2
    <3>2. Passed(Receiver, upto, o.read - 1)
      BY <1>1, <2>2, <3>1
    <3>3. o.conn.receiving
      BY <1>2, <1>4, <2>2
    <3> QED  BY <1>1, <2>2, <3>1, <3>2, <3>3
  <2> QED  BY <1>1, <1>2, <1>4, <2>1, <2>2
<1>5. ~o.pair => o.conn.pairState = "NONE"
  BY <1>1, <1>2
<1>6. ASSUME ~o.pair, ~Defined(o.conn)
      PROVE  NoneLeft(Receiver) /\ (call.fun \in Runs => ~o.conn.receiving)
  <2>1. CASE conn.pairState = "NULL"
    <3>1. AtEnd /\ call.fun \notin Runs
      BY <1>1, <2>1
    <3>2. CASE upto = read /\ read = Length
      <4>1. Passed(Receiver, upto, (Length + 1) - 1)
        BY <1>1, <3>2, NothingBetween
      <4> QED  BY <1>1, <3>1, <3>2, <4>1 DEF NoneLeft
    <3>3. CASE read = upto + 1 /\ read <= Length /\ Item(read) = "list_OK"
      <4>1. Passed(Receiver, upto, read - 1)
        BY <1>1, <3>3, NothingBetween
      <4> QED  BY <1>1, <3>1, <3>3, <4>1 DEF NoneLeft
    <3> QED  BY <3>1, <3>2, <3>3 DEF AtEnd
  <2>2. CASE conn.pairState = "NONE" /\ o.read = read /\ read = Length /\ ~o.conn.receiving
    <3>1. Passed(Receiver, upto, (Length + 1) - 1)
      BY <1>1, <2>2
    <3> QED  BY <1>1, <2>2, <3>1 DEF NoneLeft
  <2>3. CASE conn.pairState = "NONE" /\ o.read = read + 1 /\ Item(o.read) = "list_OK" /\ conn.list
    <3>1. Passed(Receiver, upto, o.read - 1)
      BY <1>1, <2>3
    <3> QED  BY <1>1, <1>2, <2>3, <3>1 DEF NoneLeft
  <2> QED  BY <1>1, <1>2, <1>6, <2>1, <2>2, <2>3
<1> QED  BY <1>1, <1>2, <1>3, <1>4, <1>5, <1>6

\* A receiver's first step.
LEMMA FirstKeeps ==
    ASSUME Inv, First
    PROVE  Inv'
<1> USE DEF Inv
<1>1. PICK o \in RecvPairs(conn) :
          /\ read' = o.read
          /\ \/ /\ ~o.pair
                /\ Nothing("end", o.conn)
                /\ UNCHANGED <<object, live>>
             \/ /\ o.pair /\ ~Starts(Receiver, Item(o.read))
                /\ conn' = Returned(o.conn)
                /\ UNCHANGED <<call, object, live, upto, told>>
             \/ /\ o.pair /\ Starts(Receiver, Item(o.read))
                /\ IF Receiver \in Values THEN TakesValue(Returned(o.conn))
                                          ELSE Begins(Returned(o.conn))
  BY Zenon DEF First
<1>2. response' = response /\ call.phase = "first"
  BY DEF First
<1>3. /\ o.conn \in Connection /\ o.pair \in BOOLEAN /\ o.read \in 0 .. Length
      /\ ~conn.list => ~o.conn.list
      /\ upto <= o.read
      /\ o.pair => /\ o.conn.pairState = "FLOATING" /\ ~Defined(o.conn)
                   /\ o.read >= 1 /\ Item(o.read) # "list_OK"
                   /\ upto < o.read /\ Passed(Receiver, upto, o.read - 1)
                   /\ Receiver = "entity" => o.read = upto + 1
                   /\ (call.fun \in Runs => o.conn.receiving)
      /\ ~o.pair => o.conn.pairState = "NONE"
      /\ ~o.pair /\ ~Defined(o.conn) => NoneLeft(Receiver)
  BY <1>2, WhatComesFirst
<1>4. /\ call.fun \in Functions /\ Receiver \in DOMAIN Own \cup {"entity"}
      /\ call.fun \in Runs => ~conn.list
      /\ ~object.alive /\ live = 0 /\ upto \in Nat
  BY <1>2 DEF Phases, RunsAlone, Objects, NoObjectLeaks, TypeOK
<1> DEFINE c == Returned(o.conn)
<1>5. /\ c \in Connection /\ c.pairState = "NONE" /\ c.error = o.conn.error
      /\ c.list = o.conn.list /\ c.receiving = o.conn.receiving
  BY <1>3, PairsGivenBack
<1> HIDE DEF c
<1>6. ASSUME NEW answer, NEW d \in Connection, Nothing(answer, d), d.pairState = "NONE",
             call.fun \in Runs => ~d.list, UNCHANGED <<object, live>>,
             answer = "end" /\ ~Defined(d) => NoneLeft(Receiver)
      PROVE  Inv'
  BY <1>1, <1>2, <1>3, <1>4, <1>6, NothingKeeps
<1>7. CASE ~o.pair /\ Nothing("end", o.conn) /\ UNCHANGED <<object, live>>
  BY <1>3, <1>4, <1>6, <1>7
<1>8. CASE /\ o.pair /\ ~Starts(Receiver, Item(o.read))
           /\ conn' = c /\ UNCHANGED <<call, object, live, upto, told>>
  <2>1. TypeOK'
    BY <1>1, <1>2, <1>3, <1>5, <1>8 DEF TypeOK, Length
  <2>2. Passed(Receiver, upto, o.read)
    <3>1. Item(o.read) \notin Heads(Receiver) /\ o.read \in Nat /\ o.read >= 1
      BY <1>3, <1>4, <1>8, HeadsBeginAndEnd, ItemsAreASequence DEF Starts
    <3>2. o.read - 1 \in Nat /\ (o.read - 1) + 1 = o.read
      BY <3>1
    <3> QED  BY <1>3, <1>4, <1>8, <3>1, <3>2, PassedOneMore
  <2>3. Passed(Receiver, upto, read)' /\ Receiver' = Receiver
    BY <1>1, <1>2, <1>8, <2>2 DEF Passed, Item, Receiver
  <2>4. Receiver # "entity"
    BY <1>8 DEF Starts
  <2>5. conn'.pairState = "NONE" /\ ~Defined(conn)'
    BY <1>3, <1>5, <1>8 DEF Defined
  <2>6. Places'
    BY <1>1, <1>2, <1>3, <1>8, <2>3, <2>4, <2>5 DEF Places, Waiting
  <2>7. Phases'
    BY <1>8, <2>3 DEF Phases
  <2>8. Told'
    BY <1>2, <1>8, ToldIsKept
  <2>9. Objects'
    BY <1>8 DEF Objects, NoObjectLeaks
  <2>10. RunsAlone'
    BY <1>2, <1>3, <1>4, <1>5, <1>8, <2>5 DEF RunsAlone
  <2> QED  BY <2>1, <2>6, <2>7, <2>8, <2>9, <2>10
<1>9. CASE o.pair /\ Starts(Receiver, Item(o.read)) /\ Receiver \in Values /\ TakesValue(c)
  <2>1. UNCHANGED <<object, live>>
    BY <1>9 DEF TakesValue
  <2>2. CASE Receiver = "queue_change"
    <3>1. /\ call' = [call EXCEPT !.phase = "id"] /\ conn' = c
          /\ UNCHANGED <<upto, told>>
      BY <1>9, <2>2 DEF TakesValue
    <3>2. /\ call'.fun = call.fun /\ call'.phase = "id" /\ call' \in Calls
          /\ call.fun \notin Runs
      <4>1. call.fun \notin Runs
        BY <2>2, QueueChangeHasNoRun DEF Receiver
      <4> QED  BY <3>1, <4>1 DEF TypeOK, Calls
    <3>3. TypeOK'
      BY <1>1, <1>2, <1>3, <1>5, <2>1, <3>1, <3>2 DEF TypeOK, Length, Calls
    <3>4. Places'
      BY <1>1, <1>3, <1>5, <1>9, <3>1, <3>2 DEF Places, Defined
    <3>5. Phases' /\ RunsAlone'
      BY <1>4, <3>2, NamesDiffer DEF Phases, RunsAlone
    <3>6. Told'
      BY <1>2, <3>1, ToldIsKept
    <3>7. Objects'
      BY <1>4, <2>1, <3>2 DEF Objects, NoObjectLeaks
    <3> QED  BY <3>3, <3>4, <3>5, <3>6, <3>7
  <2>3. CASE Receiver # "queue_change"
    <3>1. PICK answer \in {"zero", "value"} : Nothing(answer, c)
      BY <1>9, <2>3 DEF TakesValue
    <3> QED  BY <1>3, <1>4, <1>5, <1>6, <2>1, <3>1
  <2> QED  BY <2>2, <2>3
<1>10. CASE o.pair /\ Starts(Receiver, Item(o.read)) /\ Receiver \notin Values /\ Begins(c)
  <2>1. CASE /\ object' = [alive |-> TRUE, first |-> o.read, last |-> o.read, text |-> FALSE]
             /\ live' = live + 1
             /\ call' = [call EXCEPT !.phase = "rest"] /\ conn' = c
             /\ UNCHANGED <<upto, told>>
    <3>1. call'.fun = call.fun /\ call'.phase = "rest" /\ call' \in Calls
      BY <2>1 DEF TypeOK, Calls
    <3>2. /\ object'.alive /\ object'.first = o.read /\ object'.last = o.read
          /\ object' \in [alive : BOOLEAN, first : Nat, last : Nat, text : BOOLEAN]
      BY <1>3, <2>1, ItemsAreASequence
    <3>3. TypeOK'
      BY <1>1, <1>2, <1>3, <1>4, <1>5, <2>1, <3>1, <3>2 DEF TypeOK, Length, Calls
    <3>4. Receiver' = Receiver /\ Receiver \in (DOMAIN Own \cup {"entity"}) \ Values
      BY <1>4, <1>10, <3>1 DEF Receiver
    <3>5. \/ Item(o.read) \in Heads(Receiver)
          \/ Receiver = "entity" /\ o.read = upto + 1
      BY <1>3, <1>4, <1>10, HeadsBeginAndEnd
    <3>6. Passed(Receiver, upto, o.read - 1) /\ Passed(Receiver, o.read, o.read)
      BY <1>3, <1>10, NothingBetween, ItemsAreASequence
    <3>7. conn'.pairState = "NONE" /\ ~Defined(conn)'
      BY <1>3, <1>5, <1>10, <2>1 DEF Defined
    <3>8. Places'
      <4>1. response' = response /\ read' = o.read /\ upto' = upto /\ upto <= o.read
        BY <1>1, <1>2, <1>3, <2>1
      <4>2. Passed(Receiver, upto, object.first - 1)' /\ Passed(Receiver, object.first, read)'
        BY <3>2, <3>4, <3>6, <4>1 DEF Passed, Item
      <4>3. \/ Item(object.first)' \in Heads(Receiver')
            \/ Receiver' = "entity" /\ object'.first = upto' + 1
        BY <3>2, <3>4, <3>5, <4>1 DEF Item
      <4> QED  BY <1>3, <1>10, <3>1, <3>2, <3>4, <3>7, <4>1, <4>2, <4>3 DEF Places
    <3>9. Phases'
      BY <1>4, <3>1, <3>4 DEF Phases
    <3>10. Told'
      BY <1>2, <2>1, ToldIsKept
    <3>11. Objects'
      BY <1>4, <2>1, <3>1, <3>2 DEF Objects, NoObjectLeaks
    <3>12. RunsAlone'
      BY <1>3, <1>4, <1>5, <2>1, <3>1, <3>7 DEF RunsAlone
    <3> QED  BY <3>3, <3>8, <3>9, <3>10, <3>11, <3>12
  <2>2. ASSUME NEW e \in Errors, Nothing("error", SetError(c, e)), UNCHANGED <<object, live>>
        PROVE  Inv'
    <3>1. /\ SetError(c, e) \in Connection /\ SetError(c, e).pairState = "NONE"
          /\ SetError(c, e).list = c.list
      BY <1>5, SetErrorKeeps
    <3> QED  BY <1>3, <1>4, <1>5, <1>6, <2>2, <3>1
  <2> QED  BY <1>1, <1>10, <2>1, <2>2 DEF Begins, Errors
<1> QED  BY <1>1, <1>7, <1>8, <1>9, <1>10 DEF c

\* What is received where no pair waits to be read again.
LEMMA WhatComesNext ==
    ASSUME TypeOK, conn.pairState = "NONE", ~Defined(conn), NEW o \in RecvPairs(conn)
    PROVE  /\ o.conn \in Connection /\ o.pair \in BOOLEAN /\ o.read \in 0 .. Length
           /\ ~conn.list => ~o.conn.list
           /\ o.pair => /\ o.conn.pairState = "FLOATING" /\ ~Defined(o.conn)
                        /\ o.conn.receiving /\ o.read = read + 1 /\ Item(o.read) # "list_OK"
           /\ ~o.pair => o.conn.pairState = "NONE"
           /\ ~o.pair /\ ~Defined(o.conn) =>
                \/ o.read = read /\ read = Length /\ response.end = "OK" /\ ~o.conn.receiving
                \/ o.read = read + 1 /\ Item(o.read) = "list_OK" /\ conn.list
BY WhatIsReceived DEF TypeOK

\* The second value of a change in the queue.
LEMMA SecondValueKeeps ==
    ASSUME Inv, SecondValue
    PROVE  Inv'
<1> USE DEF Inv
<1>1. PICK o \in RecvPairs(conn) :
          /\ read' = o.read
          /\ \/ /\ ~o.pair
                /\ Nothing("error", IF Defined(o.conn) THEN o.conn
                                    ELSE SetError(o.conn, "MALFORMED"))
             \/ /\ o.pair /\ Item(o.read) = "Id"
                /\ Nothing("value", Returned(o.conn))
             \/ /\ o.pair /\ Item(o.read) # "Id"
                /\ conn' = Returned(o.conn)
                /\ UNCHANGED <<call, upto, told>>
  BY Zenon DEF SecondValue
<1>2. /\ UNCHANGED <<response, object, live>> /\ call.phase = "id"
      /\ conn.pairState = "NONE" /\ ~Defined(conn) /\ call.fun \notin Runs
      /\ ~object.alive
  BY DEF SecondValue, Places, Phases, Objects
<1>3. /\ o.conn \in Connection /\ o.read \in 0 .. Length /\ o.pair \in BOOLEAN
      /\ ~o.pair => o.conn.pairState = "NONE"
      /\ o.pair => o.read = read + 1 /\ Item(o.read) # "list_OK" /\ ~Defined(o.conn)
  BY <1>2, WhatComesNext
<1>4. /\ Returned(o.conn) \in Connection /\ Returned(o.conn).pairState = "NONE"
      /\ Returned(o.conn).error = o.conn.error
  BY <1>3, PairsGivenBack
<1>5. ASSUME NEW answer \in {"error", "value"}, NEW d \in Connection, Nothing(answer, d),
             d.pairState = "NONE"
      PROVE  Inv'
  BY <1>1, <1>2, <1>3, <1>5, NothingKeeps
<1>6. CASE /\ ~o.pair
           /\ Nothing("error", IF Defined(o.conn) THEN o.conn
                               ELSE SetError(o.conn, "MALFORMED"))
  <2>1. SetError(o.conn, "MALFORMED") \in Connection
        /\ SetError(o.conn, "MALFORMED").pairState = o.conn.pairState
    BY <1>3, SetErrorKeeps DEF Errors
  <2> QED  BY <1>3, <1>5, <1>6, <2>1
<1>7. CASE o.pair /\ Nothing("value", Returned(o.conn))
  BY <1>4, <1>5, <1>7
<1>8. CASE o.pair /\ conn' = Returned(o.conn) /\ UNCHANGED <<call, upto, told>>
  <2>1. TypeOK'
    BY <1>1, <1>2, <1>3, <1>4, <1>8 DEF TypeOK, Length
  <2>2. Places'
    <3>1. upto <= read /\ upto \in Nat /\ read \in Nat
      BY DEF Places, TypeOK
    <3> QED  BY <1>1, <1>2, <1>3, <1>4, <1>8, <3>1 DEF Places, Defined
  <2>3. Phases' /\ RunsAlone'
    BY <1>2, <1>8 DEF Phases, RunsAlone, Receiver
  <2>4. Told'
    BY <1>2, <1>8, ToldIsKept
  <2>5. Objects'
    BY <1>2, <1>8 DEF Objects, NoObjectLeaks
  <2> QED  BY <2>1, <2>2, <2>3, <2>4, <2>5
<1> QED  BY <1>1, <1>6, <1>7, <1>8

\* The pairs of a status.
LEMMA AllKeeps ==
    ASSUME Inv, All
    PROVE  Inv'
<1> USE DEF Inv
<1>1. PICK o \in RecvPairs(conn) :
          /\ read' = o.read
          /\ \/ /\ o.pair
                /\ conn' = Returned(o.conn)
                /\ UNCHANGED <<call, object, live, upto, told>>
             \/ /\ ~o.pair
                /\ Nothing("end", o.conn)
                /\ Dropped
  BY Zenon DEF All
<1>2. /\ response' = response /\ call.phase = "all" /\ ~Defined(conn)
      /\ Receiver = "status" /\ object.alive /\ conn.pairState # "FLOATING"
      /\ conn \in Connection /\ read \in 0 .. Length
      /\ call.fun \in Runs => ~conn.list
      /\ conn.pairState = "QUEUED" => read >= 1
      /\ upto <= read /\ upto \in Nat /\ read \in Nat
  BY ItemsAreASequence DEF All, Places, Phases, Objects, TypeOK, RunsAlone, Length
<1>3. /\ o.conn \in Connection /\ o.read \in 0 .. Length /\ o.pair \in BOOLEAN
      /\ o.read = read \/ o.read = read + 1
      /\ ~conn.list => ~o.conn.list
      /\ ~o.pair => o.conn.pairState = "NONE"
      /\ o.pair => ~Defined(o.conn)
  BY <1>2, WhatIsReceived DEF Connection
<1>4. CASE /\ o.pair /\ conn' = Returned(o.conn)
           /\ UNCHANGED <<call, object, live, upto, told>>
  <2>1. /\ conn' \in Connection /\ conn'.pairState = "NONE" /\ ~Defined(conn')
        /\ ~conn.list => ~conn'.list
    BY <1>3, <1>4, PairsGivenBack DEF Defined
  <2>2. TypeOK'
    BY <1>1, <1>2, <1>3, <1>4, <2>1 DEF TypeOK, Length
  <2>3. Places'
    BY <1>1, <1>2, <1>3, <1>4, <2>1 DEF Places, Defined
  <2>4. Phases' /\ RunsAlone'
    BY <1>2, <1>4, <2>1 DEF Phases, RunsAlone, Receiver
  <2>5. Told'
    BY <1>2, <1>4, ToldIsKept
  <2>6. Objects'
    BY <1>2, <1>4 DEF Objects, NoObjectLeaks
  <2> QED  BY <2>2, <2>3, <2>4, <2>5, <2>6
<1>5. CASE ~o.pair /\ Nothing("end", o.conn) /\ Dropped
  BY <1>1, <1>2, <1>3, <1>5, NothingKeeps
<1> QED  BY <1>1, <1>4, <1>5

\* The loop that feeds an object.
LEMMA RestKeeps ==
    ASSUME Inv, Rest
    PROVE  Inv'
<1> USE DEF Inv
<1>1. PICK o \in RecvPairs(conn) :
          /\ read' = o.read
          /\ \/ /\ o.pair /\ ~Stops(Receiver, Item(o.read))
                /\ Feeds(o.read) /\ conn' = Returned(o.conn)
                /\ UNCHANGED <<call, live, upto, told>>
             \/ /\ o.pair => Stops(Receiver, Item(o.read))
                /\ ~Defined(o.conn)
                /\ IF Incomplete
                   THEN /\ Nothing("error", SetError(Unread(o.conn, o.pair), "MALFORMED"))
                        /\ Dropped
                   ELSE Whole(Unread(o.conn, o.pair))
             \/ /\ Defined(o.conn)
                /\ Nothing("error", o.conn)
                /\ Dropped
  BY Zenon DEF Rest
<1>2. response' = response /\ call.phase = "rest"
  BY DEF Rest
<1>3. /\ conn.pairState = "NONE" /\ ~Defined(conn)
      /\ Receiver \in (DOMAIN Own \cup {"entity"}) \ Values
      /\ object.last = read /\ upto < object.first /\ object.first <= read
      /\ \/ Item(object.first) \in Heads(Receiver)
         \/ Receiver = "entity" /\ object.first = upto + 1
      /\ Passed(Receiver, upto, object.first - 1)
      /\ Passed(Receiver, object.first, read)
      /\ object.alive /\ live = 1
      /\ object \in [alive : BOOLEAN, first : Nat, last : Nat, text : BOOLEAN]
      /\ upto \in Nat /\ read \in Nat /\ Length \in Nat /\ read <= Length
      /\ call.fun \in Runs => ~conn.list
  BY <1>2, ItemsAreASequence
     DEF Places, TypeOK, Objects, NoObjectLeaks, RunsAlone, Length
<1>4. /\ o.conn \in Connection /\ o.pair \in BOOLEAN /\ o.read \in 0 .. Length
      /\ ~conn.list => ~o.conn.list
      /\ o.pair => /\ o.conn.pairState = "FLOATING" /\ ~Defined(o.conn)
                   /\ o.conn.receiving /\ o.read = read + 1 /\ Item(o.read) # "list_OK"
      /\ ~o.pair => o.conn.pairState = "NONE"
      /\ ~o.pair /\ ~Defined(o.conn) =>
           \/ o.read = read /\ read = Length /\ response.end = "OK" /\ ~o.conn.receiving
           \/ o.read = read + 1 /\ Item(o.read) = "list_OK" /\ conn.list
  BY <1>3, WhatComesNext
<1> DEFINE u == Unread(o.conn, o.pair)
<1>5. /\ u \in Connection /\ u.error = o.conn.error /\ u.list = o.conn.list
      /\ u.receiving = o.conn.receiving
      /\ u.pairState = (IF o.pair THEN "QUEUED" ELSE "NULL")
  BY <1>4, PairsGivenBack DEF Unread
<1> HIDE DEF u
<1>6. CASE /\ o.pair /\ ~Stops(Receiver, Item(o.read)) /\ Feeds(o.read)
           /\ conn' = Returned(o.conn) /\ UNCHANGED <<call, live, upto, told>>
  <2>1. /\ conn' \in Connection /\ conn'.pairState = "NONE" /\ ~Defined(conn')
        /\ ~conn.list => ~conn'.list
    BY <1>4, <1>6, PairsGivenBack DEF Defined
  <2>2. /\ object'.alive /\ object'.last = o.read /\ object'.first = object.first
        /\ object' \in [alive : BOOLEAN, first : Nat, last : Nat, text : BOOLEAN]
    <3>1. PICK copied \in BOOLEAN :
             object' = [object EXCEPT !.last = o.read,
                !.text = IF Item(o.read) = "message" THEN copied ELSE @]
      BY <1>6 DEF Feeds
    <3>2. o.read \in Nat
      BY <1>3, <1>4
    <3> QED  BY <1>3, <3>1, <3>2
  <2>3. TypeOK'
    BY <1>1, <1>2, <1>4, <1>6, <2>1, <2>2 DEF TypeOK, Length
  <2>4. Passed(Receiver, object.first, o.read)
    <3>1. Item(read + 1) \notin Heads(Receiver) /\ Item(read + 1) # "list_OK"
      BY <1>3, <1>4, <1>6, HeadsBeginAndEnd
    <3>2. object.first \in Nat
      BY <1>3
    <3> QED  BY <1>3, <1>4, <1>6, <3>1, <3>2, PassedOneMore
  <2>5. Receiver' = Receiver
    BY <1>6 DEF Receiver
  <2>6. Places'
    <3>1. /\ Passed(Receiver, upto, object.first - 1)'
          /\ Passed(Receiver, object.first, read)'
      BY <1>1, <1>2, <1>3, <1>6, <2>2, <2>4, <2>5 DEF Passed, Item
    <3>2. \/ Item(object.first)' \in Heads(Receiver')
          \/ Receiver' = "entity" /\ object'.first = upto' + 1
      BY <1>2, <1>3, <1>6, <2>2, <2>5 DEF Item
    <3>3. object.first <= o.read /\ upto <= o.read /\ o.read = read + 1
      BY <1>3, <1>4, <1>6
    <3> QED  BY <1>1, <1>2, <1>3, <1>6, <2>1, <2>2, <2>5, <3>1, <3>2, <3>3 DEF Places
  <2>7. Phases'
    BY <1>6, <2>5 DEF Phases
  <2>8. Told'
    BY <1>2, <1>6, ToldIsKept
  <2>9. Objects'
    BY <1>2, <1>3, <1>6, <2>2 DEF Objects, NoObjectLeaks
  <2>10. RunsAlone'
    BY <1>2, <1>3, <1>6, <2>1 DEF RunsAlone
  <2> QED  BY <2>3, <2>6, <2>7, <2>8, <2>9, <2>10
<1>7. CASE /\ o.pair => Stops(Receiver, Item(o.read))
           /\ ~Defined(o.conn) /\ Incomplete
           /\ Nothing("error", SetError(u, "MALFORMED")) /\ Dropped
  <2>1. /\ SetError(u, "MALFORMED") \in Connection
        /\ SetError(u, "MALFORMED").error = "MALFORMED"
        /\ SetError(u, "MALFORMED").pairState = u.pairState
        /\ SetError(u, "MALFORMED").list = u.list
    BY <1>5, SetErrorKeeps DEF Errors
  <2>2. u.pairState = "QUEUED" => o.read >= 1 /\ Item(o.read) # "list_OK"
    BY <1>3, <1>4, <1>5
  <2> QED  BY <1>1, <1>2, <1>3, <1>4, <1>5, <1>7, <2>1, <2>2, NothingKeeps
<1>8. CASE Defined(o.conn) /\ Nothing("error", o.conn) /\ Dropped
  BY <1>1, <1>2, <1>3, <1>4, <1>8, NothingKeeps
<1>9. CASE /\ o.pair => Stops(Receiver, Item(o.read))
           /\ ~Defined(o.conn) /\ Whole(u)
  <2>1. /\ upto' = read
        /\ told' = [kind |-> "object", fun |-> Receiver, from |-> upto,
                    first |-> object.first, last |-> read]
        /\ Ends("object", u)
        /\ IF Finishes("object") THEN UNCHANGED <<object, live>> ELSE Dropped
    BY <1>3, <1>9 DEF Whole
  <2>2. /\ conn' \in Connection /\ call' \in Calls
        /\ conn'.error = u.error /\ conn'.list = u.list /\ conn'.receiving = u.receiving
        /\ \/ call'.fun = "none" /\ call'.phase = "none" /\ conn' = u /\ ~Finishes("object")
           \/ /\ call.fun \in Runs /\ Finishes("object")
              /\ call'.fun = call.fun /\ call'.phase = "finish"
              /\ conn'.pairState = (IF o.pair THEN "QUEUED" ELSE "NONE")
    <3>1. ~Defined(u)
      BY <1>5, <1>9 DEF Defined
    <3>2. Finishes("object") => call' # NoCall
      BY <2>1, <3>1 DEF Ends, NoCall
    <3> QED  BY <1>5, <2>1, <3>1, <3>2, WhereItEnds DEF NoCall
  <2>3. /\ object' \in [alive : BOOLEAN, first : Nat, last : Nat, text : BOOLEAN]
        /\ Finishes("object") => object'.alive /\ live' = 1
        /\ ~Finishes("object") => ~object'.alive /\ live' = 0
    <3>1. CASE Finishes("object")
      BY <1>3, <2>1, <3>1
    <3>2. CASE ~Finishes("object")
      <4>1. object' = [alive |-> FALSE, first |-> 0, last |-> 0, text |-> FALSE]
            /\ live' = live - 1
        BY <2>1, <3>2 DEF Dropped, NoObject
      <4> QED  BY <1>3, <3>2, <4>1
    <3> QED  BY <3>1, <3>2
  <2>4. TypeOK'
    BY <1>1, <1>2, <1>3, <1>4, <2>1, <2>2, <2>3, NamesDiffer DEF TypeOK, Calls, Length
  <2>5. Places'
    <3>1. o.pair => read = o.read - 1 /\ o.read >= 1 /\ Item(o.read) # "list_OK"
      BY <1>3, <1>4
    <3>2. ~o.pair => \/ o.read = read /\ read = Length
                     \/ o.read = read + 1 /\ o.read <= Length /\ Item(o.read) = "list_OK"
      BY <1>3, <1>4, <1>9
    <3>3. read <= o.read
      <4>1. o.read = read \/ o.read = read + 1
        BY <1>3, <1>4, <1>9
      <4> QED  BY <1>3, <4>1
    <3> QED  BY <1>1, <1>2, <1>3, <1>4, <1>5, <2>1, <2>2, <3>1, <3>2, <3>3
             DEF Places, Waiting, AtEnd, Item, Length
  <2>6. Phases'
    BY <2>2, NamesDiffer DEF Phases
  <2>7. Told'
    <3>1. IF read = Length THEN response.end = "OK"
          ELSE Item(read + 1) \in Heads(Receiver) \cup {"list_OK"}
      <4>1. CASE o.pair
        BY <1>3, <1>4, <1>9, <4>1, HeadsBeginAndEnd
      <4>2. CASE ~o.pair
        BY <1>3, <1>4, <1>9, <4>2
      <4> QED  BY <4>1, <4>2
    <3>2. told'.kind = "object" /\ told'.fun = Receiver /\ told'.from = upto
          /\ told'.first = object.first /\ told'.last = read
      BY <2>1
    <3> QED  BY <1>2, <1>3, <3>1, <3>2 DEF Told, Passed, Item, Length
  <2>8. Objects'
    BY <2>2, <2>3 DEF Objects, NoObjectLeaks
  <2>9. RunsAlone'
    BY <1>3, <1>4, <1>5, <2>2, NamesDiffer DEF RunsAlone
  <2> QED  BY <2>4, <2>5, <2>6, <2>7, <2>8, <2>9
<1> QED  BY <1>1, <1>6, <1>7, <1>8, <1>9 DEF u

(***************************************************************************)
(* The invariant is inductive: the rest of the response, and the client    *)
(***************************************************************************)
LEMMA LeaveKeeps ==
    ASSUME Inv, NEW f \in {"finish", "next"}, Leave(f)
    PROVE  Inv'
<1> USE DEF Inv
<1>1. /\ UNCHANGED <<response, read, object, live, upto, told>>
      /\ call.fun = "none" /\ call.phase = "none" /\ conn.pairState # "FLOATING"
      /\ ~Defined(conn) /\ conn \in Connection
  BY DEF Leave, Idle, NoCall, TypeOK
<1>2. Told'
  BY <1>1, ToldIsKept
<1>3. CASE f = "finish" /\ call' = [fun |-> f, phase |-> f] /\ conn' = Finishing(conn)
  <2>1. /\ conn' \in Connection /\ conn'.pairState \in {"NONE", "QUEUED"}
        /\ conn'.pairState = "QUEUED" => conn.pairState = "QUEUED"
    BY <1>1, <1>3, PairsGivenBack DEF Connection
  <2>2. call'.fun = "finish" /\ call'.phase = "finish" /\ call' \in Calls
    BY <1>3 DEF Calls
  <2>3. TypeOK'
    BY <1>1, <2>1, <2>2 DEF TypeOK, Calls
  <2>4. Places' /\ Phases' /\ Objects' /\ RunsAlone'
    BY <1>1, <2>1, <2>2, NamesDiffer
       DEF Places, Phases, Objects, NoObjectLeaks, RunsAlone, Item
  <2> QED  BY <1>2, <2>3, <2>4
<1>4. CASE /\ f = "next" /\ conn.pairState # "NULL"
           /\ call' = [fun |-> f, phase |-> f] /\ UNCHANGED conn
  <2>1. call'.fun = "next" /\ call'.phase = "next" /\ call' \in Calls
    BY <1>4 DEF Calls
  <2>2. TypeOK'
    BY <1>1, <1>4, <2>1 DEF TypeOK, Calls
  <2>3. Places' /\ Phases' /\ Objects' /\ RunsAlone'
    BY <1>1, <1>4, <2>1, NamesDiffer
       DEF Places, Phases, Objects, NoObjectLeaks, RunsAlone, Item
  <2> QED  BY <1>2, <2>2, <2>3
<1>5. CASE /\ conn.pairState # "NULL"
           /\ conn' = SetError(conn, "STATE") /\ UNCHANGED call
  <2>1. conn' \in Connection /\ conn'.pairState = conn.pairState
    BY <1>1, <1>5, SetErrorKeeps DEF Errors
  <2>2. TypeOK'
    BY <1>1, <1>5, <2>1 DEF TypeOK
  <2>3. Places'
    BY <1>1, <1>5, <2>1 DEF Places, Waiting, Item
  <2>4. Phases' /\ Objects' /\ RunsAlone'
    BY <1>1, <1>5, NamesDiffer DEF Phases, Objects, NoObjectLeaks, RunsAlone, Receiver
  <2> QED  BY <1>2, <2>2, <2>3, <2>4
<1> QED  BY <1>3, <1>4, <1>5 DEF Leave

LEMMA FinishStepKeeps ==
    ASSUME Inv, FinishStep
    PROVE  Inv'
<1> USE DEF Inv
<1> DEFINE c == [conn EXCEPT !.finished = FALSE, !.asserts = @ \/ Defined(conn)]
           progress(o) == \/ o.pair \/ ~o.conn.receiving \/ Defined(o.conn)
                          \/ o.conn.list /\ o.conn.finished
<1>1. PICK o \in RecvPairs(c) :
         /\ read' = o.read
         /\ conn' = IF o.pair THEN Returned(o.conn)
                    ELSE [o.conn EXCEPT !.asserts = @ \/ ~progress(o)]
  BY DEF FinishStep
<1>2. /\ UNCHANGED <<response, call, object, live, upto, told>> /\ call.phase = "finish"
      /\ conn.pairState \in {"NONE", "QUEUED"} /\ conn.receiving
      /\ upto <= read /\ upto \in Nat /\ read \in Nat
      /\ conn.pairState = "QUEUED" => read >= 1 /\ Item(read) # "list_OK"
      /\ call.fun \in Runs => ~conn.list
  BY ItemsAreASequence DEF FinishStep, Places, TypeOK, Connection, RunsAlone
<1>3. /\ c \in Connection /\ c.pairState = conn.pairState /\ c.list = conn.list
      /\ c.receiving = conn.receiving /\ c.error = conn.error
  BY DEF TypeOK, Connection
<1> HIDE DEF c
<1>4. /\ o.conn \in Connection /\ o.pair \in BOOLEAN /\ o.read \in 0 .. Length
      /\ o.read = read \/ o.read = read + 1
      /\ ~c.list => ~o.conn.list
      /\ Defined(c) => o.conn = c /\ o.read = read /\ ~o.pair
      /\ ~o.pair /\ ~Defined(o.conn) => o.conn.pairState = "NONE"
      /\ ~o.pair /\ Defined(o.conn) /\ ~Defined(c) => o.conn.pairState = "NONE"
  BY <1>2, <1>3, WhatIsReceived
<1>5. /\ conn' \in Connection
      /\ ~conn.list => ~conn'.list
      /\ \/ conn'.pairState = "NONE"
         \/ conn'.pairState = "QUEUED" /\ conn.pairState = "QUEUED" /\ o.read = read
            /\ conn'.receiving
  <2>1. CASE o.pair
    BY <1>1, <1>3, <1>4, <2>1, PairsGivenBack
  <2>2. CASE ~o.pair
    <3> DEFINE d == [o.conn EXCEPT !.asserts = @ \/ ~progress(o)]
    <3>1. conn' = d
      BY <1>1, <2>2
    <3>2. /\ d \in Connection /\ d.pairState = o.conn.pairState
          /\ d.list = o.conn.list /\ d.receiving = o.conn.receiving
      BY <1>4 DEF Connection
    <3> HIDE DEF d
    <3>3. ~conn.list => ~conn'.list
      BY <1>3, <1>4, <3>1, <3>2
    <3>4. CASE ~Defined(c)
      BY <1>4, <2>2, <3>1, <3>2, <3>3, <3>4
    <3>5. CASE Defined(c)
      BY <1>2, <1>3, <1>4, <3>1, <3>2, <3>3, <3>5
    <3> QED  BY <3>4, <3>5
  <2> QED  BY <1>4, <2>1, <2>2
<1>6. TypeOK'
  BY <1>1, <1>2, <1>4, <1>5 DEF TypeOK, Length
<1>7. Places'
  BY <1>1, <1>2, <1>4, <1>5 DEF Places, Item
<1>8. Phases' /\ Objects'
  BY <1>2 DEF Phases, Objects, NoObjectLeaks, Receiver
<1>9. Told'
  BY <1>2, ToldIsKept
<1>10. RunsAlone'
  BY <1>2, <1>5 DEF RunsAlone
<1> QED  BY <1>6, <1>7, <1>8, <1>9, <1>10

LEMMA FinishReturnsKeeps ==
    ASSUME Inv, FinishReturns
    PROVE  Inv'
<1> USE DEF Inv
<1>1. /\ UNCHANGED <<response, read, conn, told>> /\ call.phase = "finish"
      /\ call'.fun = "none" /\ call'.phase = "none" /\ call' \in Calls
      /\ conn.pairState \in {"NONE", "QUEUED"}
      /\ conn.pairState = "QUEUED" => read >= 1
      /\ read \in Nat
      /\ upto' = (IF conn.pairState = "QUEUED" THEN read - 1 ELSE read)
  BY ItemsAreASequence DEF FinishReturns, Behind, NoCall, Calls, Places, TypeOK, Connection
<1>2. /\ object' \in [alive : BOOLEAN, first : Nat, last : Nat, text : BOOLEAN]
      /\ ~object'.alive /\ live' = 0
  <2>1. CASE object.alive
    <3>1. live = 1
      BY <2>1 DEF Objects, NoObjectLeaks
    <3>2. object' = [alive |-> FALSE, first |-> 0, last |-> 0, text |-> FALSE]
          /\ live' = live - 1
      BY <2>1 DEF FinishReturns, Dropped, NoObject
    <3> QED  BY <3>1, <3>2
  <2>2. CASE ~object.alive
    BY <2>2 DEF FinishReturns, TypeOK, Objects, NoObjectLeaks
  <2> QED  BY <2>1, <2>2
<1>3. TypeOK'
  BY <1>1, <1>2 DEF TypeOK, Calls
<1>4. Places'
  BY <1>1 DEF Places, Waiting, Item
<1>5. Phases' /\ Objects' /\ RunsAlone'
  BY <1>1, <1>2, NamesDiffer DEF Phases, Objects, NoObjectLeaks, RunsAlone
<1>6. Told'
  BY <1>1, ToldIsKept
<1> QED  BY <1>3, <1>4, <1>5, <1>6

LEMMA NextStepKeeps ==
    ASSUME Inv, NextStep
    PROVE  Inv'
<1> USE DEF Inv
<1>1. PICK o \in RecvPairs(conn) :
         /\ read' = o.read
         /\ conn' = IF o.pair THEN Returned(o.conn) ELSE o.conn
         /\ call' = IF Defined(o.conn) THEN NoCall ELSE call
         /\ upto' = IF Defined(o.conn) THEN Behind(conn', read') ELSE upto
  BY DEF NextStep
<1>2. /\ UNCHANGED <<response, object, live, told>> /\ call.phase = "next"
      /\ conn.pairState \in {"NONE", "QUEUED"} /\ call.fun \notin Runs
      /\ upto <= read /\ upto \in Nat /\ read \in Nat /\ conn \in Connection
      /\ conn.pairState = "QUEUED" => read >= 1 /\ Item(read) # "list_OK"
  BY ItemsAreASequence DEF NextStep, Places, TypeOK, Connection, Phases
<1>3. /\ o.conn \in Connection /\ o.pair \in BOOLEAN /\ o.read \in 0 .. Length
      /\ o.read = read \/ o.read = read + 1
      /\ Defined(conn) => o.conn = conn /\ o.read = read /\ ~o.pair
      /\ o.pair => ~Defined(o.conn)
      /\ ~o.pair /\ ~Defined(o.conn) => o.conn.pairState = "NONE"
      /\ ~o.pair /\ Defined(o.conn) /\ ~Defined(conn) => o.conn.pairState = "NONE"
  BY <1>2, WhatIsReceived
<1>4. /\ conn' \in Connection
      /\ \/ conn'.pairState = "NONE"
         \/ conn'.pairState = "QUEUED" /\ conn.pairState = "QUEUED" /\ o.read = read
  <2>1. CASE o.pair
    BY <1>1, <1>3, <2>1, PairsGivenBack
  <2>2. CASE ~o.pair
    BY <1>1, <1>2, <1>3, <2>2
  <2> QED  BY <1>3, <2>1, <2>2
<1>5. o.read \in Nat /\ upto <= o.read
  BY <1>2, <1>3
<1>6. Told'
  BY <1>2, ToldIsKept
<1>7. CASE Defined(o.conn)
  <2>1. /\ call'.fun = "none" /\ call'.phase = "none" /\ call' \in Calls
        /\ upto' = (IF conn'.pairState = "QUEUED" THEN o.read - 1 ELSE o.read)
    BY <1>1, <1>7 DEF NoCall, Calls, Behind
  <2>2. TypeOK'
    BY <1>1, <1>2, <1>3, <1>4, <1>5, <2>1 DEF TypeOK, Calls, Length
  <2>3. Places'
    BY <1>1, <1>2, <1>4, <1>5, <2>1 DEF Places, Waiting, Item
  <2>4. Phases' /\ Objects' /\ RunsAlone'
    BY <1>2, <2>1, NamesDiffer DEF Phases, Objects, NoObjectLeaks, RunsAlone
  <2> QED  BY <1>6, <2>2, <2>3, <2>4
<1>8. CASE ~Defined(o.conn)
  <2>1. UNCHANGED <<call, upto>>
    BY <1>1, <1>8
  <2>2. TypeOK'
    BY <1>1, <1>2, <1>3, <1>4, <2>1 DEF TypeOK, Length
  <2>3. Places'
    BY <1>1, <1>2, <1>4, <1>5, <2>1 DEF Places, Item
  <2>4. Phases' /\ Objects' /\ RunsAlone'
    BY <1>2, <2>1 DEF Phases, Objects, NoObjectLeaks, RunsAlone, Receiver
  <2> QED  BY <1>6, <2>2, <2>3, <2>4
<1> QED  BY <1>7, <1>8

LEMMA NextReturnsKeeps ==
    ASSUME Inv, NextReturns
    PROVE  Inv'
<1> USE DEF Inv
<1>1. /\ UNCHANGED <<response, read, object, live, told>> /\ call.phase = "next"
      /\ call'.fun = "none" /\ call'.phase = "none" /\ call' \in Calls
      /\ conn \in Connection /\ conn.pairState \in {"NONE", "QUEUED"} /\ read \in Nat
      /\ conn.pairState = "QUEUED" => read >= 1
      /\ upto' = (IF conn.pairState = "QUEUED" THEN read - 1 ELSE read)
      /\ conn' = [conn EXCEPT !.finished = FALSE] \/ conn' = SetError(conn, "MALFORMED")
  BY ItemsAreASequence DEF NextReturns, Behind, NoCall, Calls, Places, TypeOK, Connection
<1>2. conn' \in Connection /\ conn'.pairState = conn.pairState
  <2>1. CASE conn' = [conn EXCEPT !.finished = FALSE]
    BY <1>1, <2>1 DEF Connection
  <2>2. CASE conn' = SetError(conn, "MALFORMED")
    BY <1>1, <2>2, SetErrorKeeps DEF Errors
  <2> QED  BY <1>1, <2>1, <2>2
<1>3. TypeOK'
  BY <1>1, <1>2 DEF TypeOK, Calls
<1>4. Places'
  BY <1>1, <1>2 DEF Places, Waiting, Item
<1>5. Phases' /\ Objects' /\ RunsAlone'
  BY <1>1, NamesDiffer DEF Phases, Objects, NoObjectLeaks, RunsAlone
<1>6. Told'
  BY <1>1, ToldIsKept
<1> QED  BY <1>3, <1>4, <1>5, <1>6

LEMMA ClientsPairsKeep ==
    ASSUME Inv, RecvPair \/ ReturnPair \/ PutBack \/ ClearError
    PROVE  Inv'
<1> USE DEF Inv
<1>1. /\ UNCHANGED <<response, call, object, live, told>>
      /\ call.phase = "none" /\ call.fun = "none"
      /\ conn \in Connection /\ read \in Nat /\ upto \in Nat /\ upto <= read
  <2>1. UNCHANGED <<response, call, object, live, told>> /\ Idle
    BY DEF RecvPair, ReturnPair, PutBack, ClearError
  <2>2. read \in Nat
    BY ItemsAreASequence DEF TypeOK, Length
  <2> QED  BY <2>1, <2>2 DEF Idle, NoCall, TypeOK, Places
<1>2. Phases' /\ Objects' /\ Told' /\ RunsAlone'
  <2>1. Told'
    BY <1>1, ToldIsKept
  <2> QED  BY <1>1, <2>1, NamesDiffer DEF Phases, Objects, NoObjectLeaks, RunsAlone, Receiver
<1>3. CASE RecvPair
  <2>1. PICK o \in RecvPairs(conn) : conn' = o.conn /\ read' = o.read /\ upto' = o.read
    BY <1>3 DEF RecvPair
  <2>2. conn.pairState # "FLOATING" /\ ~Defined(conn)
        /\ (conn.pairState = "QUEUED" => read >= 1 /\ Item(read) # "list_OK")
    BY <1>3 DEF RecvPair, Places
  <2>3. /\ o.conn \in Connection /\ o.read \in 0 .. Length /\ o.pair \in BOOLEAN
        /\ o.conn.pairState \in {"NONE", "FLOATING"}
        /\ o.conn.pairState = "FLOATING" => o.read >= 1 /\ Item(o.read) # "list_OK"
    <3>1. /\ o.conn \in Connection /\ o.pair \in BOOLEAN /\ o.read \in 0 .. Length
          /\ o.pair =>
               /\ o.conn.pairState = "FLOATING"
               /\ \/ conn.pairState = "QUEUED" /\ o.read = read
                  \/ o.read = read + 1 /\ Item(o.read) # "list_OK"
          /\ ~o.pair => o.conn.pairState = "NONE"
      BY <1>1, <2>2, WhatIsReceived DEF Connection
    <3> QED  BY <1>1, <2>2, <3>1
  <2>4. o.read \in Nat
    BY <2>3, ItemsAreASequence
  <2>5. TypeOK'
    BY <1>1, <2>1, <2>3, <2>4 DEF TypeOK, Length
  <2>6. Places'
    BY <1>1, <2>1, <2>3, <2>4 DEF Places, Waiting, Item
  <2> QED  BY <1>2, <2>5, <2>6
<1>4. CASE ReturnPair
  <2>1. /\ conn' \in Connection /\ conn'.pairState = "NONE"
        /\ UNCHANGED <<read, upto>> /\ upto = read
    BY <1>1, <1>4, PairsGivenBack DEF ReturnPair, Places
  <2>2. TypeOK' /\ Places'
    BY <1>1, <2>1 DEF TypeOK, Places, Waiting
  <2> QED  BY <1>2, <2>2
<1>5. CASE PutBack
  <2>1. /\ conn' \in Connection /\ conn'.pairState = "QUEUED" /\ read' = read
        /\ read >= 1 /\ upto' = read - 1 /\ Item(read) # "list_OK"
    BY <1>1, <1>5, PairsGivenBack DEF PutBack, Places
  <2>2. TypeOK' /\ Places'
    BY <1>1, <2>1 DEF TypeOK, Places, Waiting, Item
  <2> QED  BY <1>2, <2>2
<1>6. CASE ClearError
  <2>1. /\ conn' \in Connection /\ conn'.pairState = conn.pairState
        /\ UNCHANGED <<read, upto>> /\ conn.error # "MALFORMED"
    BY <1>1, <1>6 DEF ClearError, Connection
  <2>2. TypeOK'
    BY <1>1, <2>1 DEF TypeOK
  <2>3. Places'
    BY <1>1, <2>1 DEF Places, Waiting, AtEnd, Item, Length
  <2> QED  BY <1>2, <2>2, <2>3
<1> QED  BY <1>3, <1>4, <1>5, <1>6

LEMMA FreeKeeps ==
    ASSUME Inv, Free
    PROVE  Inv'
<1> USE DEF Inv
<1>1. /\ UNCHANGED <<response, read, conn, object, live>> /\ upto' = 0
      /\ told' = [kind |-> "none", fun |-> "none", from |-> 0, first |-> 0, last |-> 0]
      /\ call'.fun = "none" /\ call'.phase = "freed" /\ call' \in Calls
      /\ call.fun = "none" /\ call.phase = "none" /\ read \in Nat
  BY ItemsAreASequence DEF Free, NoCall, Untold, Idle, Calls, TypeOK
<1>2. TypeOK'
  BY <1>1 DEF TypeOK, Calls
<1>3. Places' /\ Phases' /\ Objects' /\ Told' /\ RunsAlone'
  BY <1>1, NamesDiffer
     DEF Places, Phases, Objects, NoObjectLeaks, Told, RunsAlone, Item
<1> QED  BY <1>2, <1>3

LEMMA StutteringKeeps ==
    ASSUME Inv, UNCHANGED vars
    PROVE  Inv'
BY DEF vars, Inv, TypeOK, Places, Waiting, AtEnd, Phases, Told, Objects, NoObjectLeaks,
       RunsAlone, Passed, Item, Length, Receiver

LEMMA Inductive == Inv /\ [Next]_vars => Inv'
<1> SUFFICES ASSUME Inv, [Next]_vars  PROVE Inv'
  OBVIOUS
<1> DEFINE Callers == (DOMAIN Own \cup {"entity"} \cup Runs) \ {"run_status"}
<1>1. {"entity", "song", "directory", "playlist", "output", "mount", "neighbor",
       "message", "queue_change", "song_id", "update_id", "run_queue_song",
       "run_current_song", "run_add_id", "run_update"} \subseteq Callers
  <2>1. DOMAIN Own = {"song", "directory", "playlist", "output", "mount", "neighbor",
                      "message", "queue_change", "song_id", "update_id"}
    BY DEF Own
  <2> QED  BY <2>1, NamesDiffer
<1>2. /\ "status" \notin Runs /\ "song" \notin Runs /\ "entity" \notin Runs
      /\ "directory" \notin Runs /\ "playlist" \notin Runs /\ "output" \notin Runs
      /\ "mount" \notin Runs /\ "neighbor" \notin Runs /\ "message" \notin Runs
      /\ "queue_change" \notin Runs /\ "song_id" \notin Runs /\ "update_id" \notin Runs
  BY DEF Runs, Core
<1>3. CASE \/ RecvEntity \/ RecvSong \/ RecvDirectory \/ RecvPlaylist \/ RecvOutput
           \/ RecvMount \/ RecvNeighbor \/ RecvMessage
           \/ RecvQueueChange \/ RecvSongId \/ RecvUpdateId
           \/ RunQueueSong \/ RunCurrentSong \/ RunAddId \/ RunUpdate
  <2>1. PICK f \in Callers : Receive(f) /\ (f \in Runs => Fresh)
    BY <1>1, <1>2, <1>3
       DEF RecvEntity, RecvSong, RecvDirectory, RecvPlaylist, RecvOutput, RecvMount,
           RecvNeighbor, RecvMessage, RecvQueueChange, RecvSongId, RecvUpdateId,
           RunQueueSong, RunCurrentSong, RunAddId, RunUpdate, RunReceive
  <2> QED  BY <2>1, ReceiveKeeps
<1>4. CASE RecvStatus("status") \/ RunStatus
  BY <1>2, <1>4, RecvStatusKeeps DEF RunStatus
<1>5. CASE \E f \in {"finish", "next"} : Leave(f)
  BY <1>5, LeaveKeeps
<1>6. CASE First \/ SecondValue \/ Rest \/ All
  BY <1>6, FirstKeeps, SecondValueKeeps, RestKeeps, AllKeeps
<1>7. CASE FinishStep \/ FinishReturns \/ NextStep \/ NextReturns
  BY <1>7, FinishStepKeeps, FinishReturnsKeeps, NextStepKeeps, NextReturnsKeeps
<1>8. CASE RecvPair \/ ReturnPair \/ PutBack \/ ClearError \/ Free
  BY <1>8, ClientsPairsKeep, FreeKeeps
<1>9. CASE Freed \/ UNCHANGED vars
  BY <1>9, StutteringKeeps DEF Freed
<1> QED  BY <1>3, <1>4, <1>5, <1>6, <1>7, <1>8, <1>9 DEF Next

LEMMA Invariance == Spec => []Inv
<1> QED  BY InitKeeps, Inductive, PTL DEF Spec

(***************************************************************************)
(* The theorems                                                            *)
(***************************************************************************)
\* Every variable keeps its type.
THEOREM TypeCorrect == Spec => []TypeOK
<1>1. Inv => TypeOK
  BY DEF Inv
<1> QED  BY <1>1, Invariance, PTL

\* Every object that is returned holds the pairs that belong to it, all of
\* them up to where the next of its kind begins, however it was received and whatever
\* was put back.
THEOREM ObjectsCutRight == Spec => []ObjectsAreCutRight
<1>1. Inv => ObjectsAreCutRight
  <2> SUFFICES ASSUME Inv, told.kind = "object"
               PROVE  /\ told.from < told.first /\ told.first <= told.last
                      /\ told.last <= Len(response.items)
                      /\ \/ Item(told.first) \in Boundaries(told.fun)
                         \/ told.fun = "entity" /\ told.first = told.from + 1
                      /\ \A k \in told.from + 1 .. told.first - 1 :
                            Item(k) \notin Boundaries(told.fun) \cup {"list_OK"}
                      /\ \A k \in told.first + 1 .. told.last :
                            Item(k) \notin Boundaries(told.fun) \cup {"list_OK"}
                      /\ IF told.last = Len(response.items) THEN response.end = "OK"
                         ELSE Item(told.last + 1) \in Boundaries(told.fun) \cup {"list_OK"}
    BY DEF ObjectsAreCutRight
  <2>1. /\ told.fun \in DOMAIN Own \cup {"entity"}
        /\ told.from < told.first /\ told.first <= told.last /\ told.last <= Length
        /\ \/ Item(told.first) \in Heads(told.fun)
           \/ told.fun = "entity" /\ told.first = told.from + 1
        /\ Passed(told.fun, told.from, told.first - 1)
        /\ Passed(told.fun, told.first, told.last)
        /\ IF told.last = Length THEN response.end = "OK"
           ELSE Item(told.last + 1) \in Heads(told.fun) \cup {"list_OK"}
    BY DEF Inv, Told
  <2>2. Heads(told.fun) = Boundaries(told.fun)
    BY <2>1 DEF Heads, Boundaries
  <2>3. /\ told.from \in Nat /\ told.first \in Nat /\ told.last \in Nat
        /\ Length \in Nat /\ DOMAIN response.items = 1 .. Length
    BY ItemsAreASequence DEF Inv, TypeOK
  <2>4. \A k \in told.from + 1 .. told.first - 1 :
           Item(k) \notin Boundaries(told.fun) \cup {"list_OK"}
    <3> SUFFICES ASSUME NEW k \in told.from + 1 .. told.first - 1
                 PROVE  Item(k) \notin Boundaries(told.fun) \cup {"list_OK"}
      OBVIOUS
    <3>1. k \in DOMAIN response.items /\ told.from < k /\ k <= told.first - 1
      BY <2>1, <2>3
    <3> QED  BY <2>1, <2>2, <3>1 DEF Passed
  <2>5. \A k \in told.first + 1 .. told.last :
           Item(k) \notin Boundaries(told.fun) \cup {"list_OK"}
    <3> SUFFICES ASSUME NEW k \in told.first + 1 .. told.last
                 PROVE  Item(k) \notin Boundaries(told.fun) \cup {"list_OK"}
      OBVIOUS
    <3>1. k \in DOMAIN response.items /\ told.first < k /\ k <= told.last
      BY <2>1, <2>3
    <3> QED  BY <2>1, <2>2, <3>1 DEF Passed
  <2> QED  BY <2>1, <2>2, <2>4, <2>5 DEF Length
<1> QED  BY <1>1, Invariance, PTL

\* NULL without an error is the end of the objects in the (sub-)response.
THEOREM NullIsTheEnd == Spec => []NullMeansNoMore
<1>1. Inv => NullMeansNoMore
  <2> SUFFICES ASSUME Inv, told.kind = "end", NEW k \in DOMAIN response.items,
                      told.from < k, told.fun # "status",
                      Item(k) \in Boundaries(told.fun)
               PROVE  \E j \in told.from + 1 .. k - 1 : Item(j) = "list_OK"
    BY DEF NullMeansNoMore
  <2>1. PICK e \in 1 .. Length + 1 :
           /\ told.from < e /\ Passed(told.fun, told.from, e - 1)
           /\ e <= Length => Item(e) = "list_OK"
    BY DEF Inv, Told
  <2>2. told.fun \in DOMAIN Own \cup {"entity"}
    BY DEF Inv, Told
  <2>3. Heads(told.fun) = Boundaries(told.fun) /\ "list_OK" \notin Heads(told.fun)
    BY <2>2, HeadsBeginAndEnd DEF Heads, Boundaries
  <2>4. /\ Length \in Nat /\ DOMAIN response.items = 1 .. Length
        /\ told.from \in Nat /\ k \in Nat /\ k <= Length /\ e \in Nat
    BY <2>1, ItemsAreASequence DEF Inv, TypeOK
  <2>5. ~(k <= e - 1)
    BY <2>1, <2>3 DEF Passed
  <2>6. k # e
    BY <2>1, <2>3, <2>4
  <2>7. e \in told.from + 1 .. k - 1 /\ e <= Length
    BY <2>1, <2>4, <2>5, <2>6
  <2> QED  BY <2>1, <2>7
<1> QED  BY <1>1, Invariance, PTL

\* Objects are freed or handed over exactly once on every path.
THEOREM ObjectsAreNotLost == Spec => []NoObjectLeaks
<1>1. Inv => NoObjectLeaks
  BY DEF Inv, Objects
<1> QED  BY <1>1, Invariance, PTL

\* What the mpd_run_* functions receive with.
LEMMA RunsAndReceivers ==
    ASSUME call.fun \in Runs
    PROVE  /\ Receiver \in Values => call.fun \in {"run_add_id", "run_update"}
           /\ Receiver \in DOMAIN Own \ Values =>
                 call.fun \in {"run_queue_song", "run_current_song"}
           /\ Receiver # "queue_change" /\ Receiver # "entity"
<1>1. Runs = {"run_queue_song", "run_current_song", "run_status", "run_add_id",
              "run_update"}
  BY DEF Runs, Core
<1>2. Receiver = Core[call.fun]
  BY DEF Receiver
<1> QED  BY <1>1, <1>2 DEF Core, Values, Own

\* A step in which an mpd_run_* function returns.
LEMMA RunsFinish ==
    ASSUME Inv, Next, call.fun \in Runs, call' = NoCall, ~Defined(conn'),
           ~(call.fun = "run_update" /\ read' \in response.bad)
    PROVE  ~conn'.receiving /\ conn'.pairState = "NONE"
<1> USE DEF Inv
<1>1. /\ call.phase \in {"first", "rest", "all", "finish"} /\ call # NoCall
      /\ call'.phase = "none" /\ ~conn.list
      /\ call.phase # "finish" => conn.pairState = "NONE"
      /\ call.phase = "finish" => \/ conn.pairState = "NONE"
                                  \/ conn.pairState = "QUEUED" /\ conn.receiving
  BY NamesDiffer DEF RunsAlone, NoCall
<1>2. First \/ Rest \/ All \/ FinishReturns
  <2>1. ~Idle
    BY <1>1 DEF Idle
  <2> QED
    BY <1>1, <2>1 DEF Next, RecvEntity, RecvSong, RecvDirectory, RecvPlaylist, RecvOutput,
       RecvMount, RecvNeighbor, RecvMessage, RecvQueueChange, RecvSongId, RecvUpdateId,
       RunQueueSong, RunCurrentSong, RunAddId, RunUpdate, RunStatus, RunReceive, Receive,
       RecvStatus, Leave, RecvPair, ReturnPair, PutBack, ClearError, Free, Freed,
       SecondValue, FinishStep, NextStep, NextReturns
<1>3. ASSUME NEW answer, NEW c, Ends(answer, c)
      PROVE  conn' = c /\ ~Finishes(answer)
  <2>1. [call EXCEPT !.phase = "finish"].phase = "finish"
    BY DEF TypeOK
  <2>2. ~(Finishes(answer) /\ ~Defined(c)) /\ conn' = c
    BY <1>1, <1>3, <2>1 DEF Ends
  <2> QED  BY <2>2
<1>4. CASE First
  <2>1. PICK o \in RecvPairs(conn) :
            /\ read' = o.read
            /\ \/ /\ ~o.pair
                  /\ Nothing("end", o.conn)
                  /\ UNCHANGED <<object, live>>
               \/ /\ o.pair /\ ~Starts(Receiver, Item(o.read))
                  /\ conn' = Returned(o.conn)
                  /\ UNCHANGED <<call, object, live, upto, told>>
               \/ /\ o.pair /\ Starts(Receiver, Item(o.read))
                  /\ IF Receiver \in Values THEN TakesValue(Returned(o.conn))
                                            ELSE Begins(Returned(o.conn))
    BY <1>4, Zenon DEF First
  <2>2. /\ o.conn \in Connection /\ o.pair \in BOOLEAN
        /\ ~o.pair => o.conn.pairState = "NONE"
        /\ ~o.pair /\ ~Defined(o.conn) => ~o.conn.receiving
    BY <1>4, WhatComesFirst DEF First
  <2>3. CASE ~o.pair /\ Nothing("end", o.conn)
    <3>1. conn' = o.conn
      BY <1>3, <2>3 DEF Nothing
    <3> QED  BY <2>2, <2>3, <3>1
  <2>4. CASE UNCHANGED call
    BY <1>1, <2>4
  <2>5. CASE Receiver \in Values /\ TakesValue(Returned(o.conn))
    <3>1. Nothing(IF read' \in response.bad THEN "zero" ELSE "value", Returned(o.conn))
      BY <2>5, RunsAndReceivers DEF TakesValue
    <3>2. ~Finishes(IF read' \in response.bad THEN "zero" ELSE "value")
      BY <1>3, <3>1 DEF Nothing
    <3>3. call.fun \in {"run_add_id", "run_update"}
      BY <2>5, RunsAndReceivers
    <3> QED  BY <3>2, <3>3 DEF Finishes
  <2>6. CASE o.pair /\ Begins(Returned(o.conn))
    <3>1. call'.phase = "rest" \/ (\E e \in Errors : Nothing("error", SetError(Returned(o.conn), e)))
      BY <2>6 DEF Begins, Errors, TypeOK
    <3>2. ASSUME NEW e \in Errors, Nothing("error", SetError(Returned(o.conn), e))
          PROVE  FALSE
      <4>1. conn' = SetError(Returned(o.conn), e)
        BY <1>3, <3>2 DEF Nothing
      <4>2. Returned(o.conn) \in Connection
        BY <2>2, PairsGivenBack
      <4> QED  BY <4>1, <4>2, SetErrorKeeps
    <3> QED  BY <1>1, <3>1, <3>2
  <2> QED  BY <2>1, <2>3, <2>4, <2>5, <2>6
<1>5. CASE Rest
  <2>1. PICK o \in RecvPairs(conn) :
          \/ UNCHANGED call
          \/ Whole(Unread(o.conn, o.pair))
          \/ Nothing("error", SetError(Unread(o.conn, o.pair), "MALFORMED"))
          \/ Defined(o.conn) /\ Nothing("error", o.conn)
    BY <1>5, Zenon DEF Rest
  <2>2. call.fun \in {"run_queue_song", "run_current_song"}
    BY <1>5, RunsAndReceivers DEF Rest, Places
  <2>3. ~Whole(Unread(o.conn, o.pair))
    <3>1. Finishes("object")
      BY <2>2 DEF Finishes
    <3> QED  BY <1>3, <3>1 DEF Whole
  <2>4. ~Nothing("error", SetError(Unread(o.conn, o.pair), "MALFORMED"))
    <3> SUFFICES ASSUME Nothing("error", SetError(Unread(o.conn, o.pair), "MALFORMED"))
                 PROVE  FALSE
      OBVIOUS
    <3>1. conn' = SetError(Unread(o.conn, o.pair), "MALFORMED")
      BY <1>3 DEF Nothing
    <3>2. o.conn \in Connection /\ o.pair \in BOOLEAN
      BY <1>5, WhatComesNext DEF Rest, Places
    <3>3. Unread(o.conn, o.pair) \in Connection
      BY <3>2, PairsGivenBack DEF Unread
    <3> QED  BY <3>1, <3>3, SetErrorKeeps DEF Errors
  <2>5. ~(Defined(o.conn) /\ Nothing("error", o.conn))
    BY <1>3 DEF Nothing
  <2>6. call' # call
    BY <1>1
  <2> QED  BY <2>1, <2>3, <2>4, <2>5, <2>6
<1>6. CASE All
  <2>1. PICK o \in RecvPairs(conn) : UNCHANGED call \/ (~o.pair /\ Nothing("end", o.conn))
    BY <1>6, Zenon DEF All
  <2>2. ~o.pair /\ conn' = o.conn
    BY <1>1, <1>3, <2>1 DEF Nothing
  <2>3. conn.pairState = "NONE" /\ ~Defined(conn)
    BY <1>1, <1>6 DEF All, Places
  <2> QED  BY <1>1, <2>2, <2>3, WhatComesNext
<1>7. CASE FinishReturns
  BY <1>1, <1>7 DEF FinishReturns
<1> QED  BY <1>2, <1>4, <1>5, <1>6, <1>7

\* An mpd_run_* function that returns without an error has read its response
\* to the end and put nothing back.
THEOREM RunsAreComplete == Spec => RunsLeaveNothing
<1> DEFINE Returns == call.fun \in Runs /\ call' = NoCall /\ ~Defined(conn')
                      /\ ~(call.fun = "run_update" /\ read' \in response.bad)
           Left == ~conn'.receiving /\ conn'.pairState = "NONE"
<1>1. Inv /\ Next => (Returns => Left)
  BY RunsFinish
<1>2. Inv /\ [Next]_vars => [Returns => Left]_vars
  BY <1>1
<1> QED  BY <1>2, Invariance, PTL DEF Spec, RunsLeaveNothing
=============================================================================
