------------------------------- MODULE Values -------------------------------
(***************************************************************************)
(* The objects that responses are made into: songs, directories,           *)
(* playlists, entities, outputs, mounts, neighbors, partitions, messages,  *)
(* the status and the statistics.  Each is begun, most of them with a      *)
(* pair, fed more pairs in any order, read with its getters, some are      *)
(* duplicated, all are freed; and any allocation may fail.                 *)
(*                                                                         *)
(* An object is its fields by their types: strings (a sequence that is     *)
(* empty for a null pointer), lists, numbers.  An operation takes `room',  *)
(* the number of its allocations that succeed, and its outcome says by how *)
(* much the number of allocated blocks has changed.                        *)
(***************************************************************************)
EXTENDS Texts

CONSTANTS
    TagNames,  \* the tags that occur
    Pairs,     \* Pairs[kind]: the pairs that objects of that kind are given
    MaxFed,    \* bound: pairs fed to an object
    MaxRoom    \* bound: allocations of one call

\* what an object begins with, if with a pair
First == [song |-> "file", directory |-> "directory", playlist |-> "playlist",
          output |-> "outputid", mount |-> "mount", neighbor |-> "neighbor",
          partition |-> "partition", message |-> "channel"]
Kinds == DOMAIN First \cup {"status", "stats"}

Pair == [name : STRING, value : Seq(STRING)]

\* the names of a song's pairs that are not tags
SongPairs == {"Time", "duration", "Range", "Last-Modified", "Added", "Pos", "Id", "Prio",
              "Format", "RealUri"}

(* No tag has one of those names; and an unsigned holds, in milliseconds,  *)
(* the longest duration that is accepted.                                  *)
ASSUME ValuesAssumption ==
    /\ DOMAIN Pairs = Kinds /\ \A kind \in Kinds : Pairs[kind] \subseteq Pair
    /\ MaxFed \in Nat /\ MaxRoom \in Nat
    /\ TagNames \cap SongPairs = {}
    /\ UnsignedRange > 1000 * (MaxDuration + 1)

VARIABLES
    object,    \* the object, begun and fed
    copy,      \* a duplicate of it
    complete,  \* has an object been fed the first pair of the next one?
    heap,      \* how many blocks of memory are allocated
    fed        \* history: the pairs that the object has been fed

vars == <<object, copy, complete, heap, fed>>

None == [kind |-> "none"]
Exists(o) == o.kind # "none"

Outcome(o, blocks) == [object |-> o, blocks |-> blocks]
Nothing == Outcome(None, 0)

(***************************************************************************)
(* Fields                                                                  *)
(***************************************************************************)
Zeroes(fields) == [f \in fields |-> 0]
One(field, value) == [f \in {field} |-> value]

\* the fields of f, and those of g that f has not
f ++ g == [x \in DOMAIN f \cup DOMAIN g |-> IF x \in DOMAIN f THEN f[x] ELSE g[x]]
NoList == <<>>

\* struct mpd_status, as it begins
StatusNumbers ==
    Zeroes({"repeat", "random", "single", "consume", "queue_version",
            "queue_length", "state", "crossfade", "elapsed_time", "elapsed_ms",
            "total_time", "kbit_rate", "update_id", "rate", "bits", "channels"})
    ++ [f \in {"volume", "song_pos", "song_id", "next_song_pos", "next_song_id"} |-> -1]
    ++ [mixrampdb |-> 1000000, mixrampdelay |-> -10000]

SongNumbers ==
    Zeroes({"duration", "duration_ms", "start", "start_ms", "end", "end_ms",
            "last_modified", "added", "pos", "id", "prio", "rate", "bits", "channels"})

StatsNumbers ==
    Zeroes({"number_of_artists", "number_of_albums", "number_of_songs", "uptime",
            "db_update_time", "play_time", "db_play_time"})

Same(o) == Outcome(o, 0)

Sets(o, numbers) == Same([o EXCEPT !.numbers = numbers ++ @])

\* the old value is freed, and what strdup() returns takes its place
SetString(o, field, text, room) ==
    LET new == IF room > 0 THEN <<text>> ELSE <<>>
    IN  Outcome([o EXCEPT !.strings[field] = new], Len(new) - Len(o.strings[field]))

\* mpd_song_add_tag(): the first value is part of the song
AddTag(o, tag, text, room) ==
    LET needs == IF o.lists[tag] = NoList THEN 1 ELSE 2
    IN  IF room < needs THEN Same(o)
        ELSE Outcome([o EXCEPT !.lists[tag] = Append(@, text)], needs)

\* mpd_kvlist_add(): an item, its key and its value, or nothing
AddAttribute(o, key, value, room) ==
    IF room < 3 THEN Same(o)
    ELSE Outcome([o EXCEPT !.lists["attributes"] =
                     Append(@, [key |-> key, value |-> value])], 3)

(***************************************************************************)
(* What an object owns                                                     *)
(***************************************************************************)
\* the pointers that are not null, the values in its lists, the lists that are not empty
Strings(o) == {field \in DOMAIN o.strings : o.strings[field] # <<>>}
Entries(o) == UNION {{list} \X DOMAIN o.lists[list] : list \in DOMAIN o.lists}
Begun(o) == {list \in DOMAIN o.lists : o.lists[list] # NoList}

(* An attribute is an item, its key and its value; a tag is an item and its *)
(* value, but the item of the first of its type is part of the song.       *)
ListBlocks(o) ==
    IF o.kind = "output" THEN 3 * Cardinality(Entries(o))
    ELSE 2 * Cardinality(Entries(o)) - Cardinality(Begun(o))

\* what the free functions free
Blocks(o) ==
    IF ~Exists(o) THEN 0
    ELSE (IF o.kind = "unknown" THEN 0 ELSE 1) + (IF o.entity THEN 1 ELSE 0)
           + ListBlocks(o) + Cardinality(Strings(o))

(***************************************************************************)
(* Beginning an object                                                     *)
(***************************************************************************)
New(kind, strings, lists, numbers) ==
    [kind |-> kind, entity |-> FALSE, strings |-> strings, lists |-> lists,
     numbers |-> numbers]

\* an object and its first string, or neither
NewNamed(o, room) == IF room < 2 THEN Nothing ELSE Outcome(o, 2)

VerifyUri(text) == text # <<>>
VerifyLocalUri(text) == VerifyUri(text) /\ text[1] # "/" /\ Last(text) # "/"

BeginSong(p, room) ==
    IF p.name = "file" /\ VerifyUri(p.value)
    THEN NewNamed(New("song", [uri |-> <<p.value>>, real_uri |-> <<>>],
                      [tag \in TagNames |-> NoList], SongNumbers), room)
    ELSE Nothing

BeginDirectory(p, room) ==
    IF p.name = "directory" /\ VerifyLocalUri(p.value)
    THEN NewNamed(New("directory", [path |-> <<p.value>>], <<>>,
                      Zeroes({"last_modified"})), room)
    ELSE Nothing

BeginPlaylist(p, room) ==
    IF p.name = "playlist" /\ VerifyLocalUri(p.value)
    THEN NewNamed(New("playlist", [path |-> <<p.value>>], <<>>,
                      Zeroes({"last_modified"})), room)
    ELSE Nothing

BeginOutput(p, room) ==
    IF p.name = "outputid" /\ room > 0
    THEN Outcome(New("output", [name |-> <<>>, plugin |-> <<>>],
                     [attributes |-> NoList],
                     [id |-> StrToUl(p.value), enabled |-> 0]), 1)
    ELSE Nothing

BeginMount(p, room) ==
    IF p.name = "mount"
    THEN NewNamed(New("mount", [uri |-> <<p.value>>, storage |-> <<>>], <<>>, <<>>), room)
    ELSE Nothing

BeginNeighbor(p, room) ==
    IF p.name = "neighbor"
    THEN NewNamed(New("neighbor", [uri |-> <<p.value>>, display_name |-> <<>>],
                      <<>>, <<>>), room)
    ELSE Nothing

BeginMessage(p, room) ==
    IF p.name = "channel"
    THEN NewNamed(New("message", [channel |-> <<p.value>>, text |-> <<>>], <<>>, <<>>), room)
    ELSE Nothing

\* mpd_partition_new()
NewPartition(p, room) ==
    IF p.name = "partition"
    THEN NewNamed(New("partition", [name |-> <<p.value>>], <<>>, <<>>), room)
    ELSE Nothing

BeginStatus(room) ==
    IF room = 0 THEN Nothing
    ELSE Outcome(New("status", [partition |-> <<>>, error |-> <<>>], <<>>, StatusNumbers), 1)

BeginStats(room) ==
    IF room = 0 THEN Nothing ELSE Outcome(New("stats", <<>>, <<>>, StatsNumbers), 1)

\* mpd_entity_feed_first()
FeedFirst(p, room) ==
    CASE p.name = "file"      -> BeginSong(p, room)
      [] p.name = "directory" -> BeginDirectory(p, room)
      [] p.name = "playlist"  -> BeginPlaylist(p, room)
      [] OTHER                -> Outcome(New("unknown", <<>>, <<>>, <<>>), 0)

\* mpd_entity_begin(): an entity and the object in it, or neither
BeginEntity(p, room) ==
    LET inner == FeedFirst(p, room - 1)
    IN  IF room = 0 \/ ~Exists(inner.object) THEN Nothing
        ELSE Outcome([inner.object EXCEPT !.entity = TRUE], inner.blocks + 1)

(***************************************************************************)
(* Feeding it                                                              *)
(***************************************************************************)
\* the pair that an object of that kind does not take: the next one's first
Ends(o, name) ==
    IF o.entity THEN name \in {"file", "directory", "playlist"}
    ELSE o.kind \in DOMAIN First /\ name = First[o.kind]

StartFields(start) ==
    IF Positive(start) THEN [start |-> start.seconds, start_ms |-> Milliseconds(start)]
    ELSE Zeroes({"start", "start_ms"})

(* An end within the first second is rounded up, because 0 would mean that *)
(* there is none.                                                          *)
EndFields(end) ==
    IF Positive(end)
    THEN [end |-> IF end.seconds = 0 THEN 1 ELSE end.seconds, end_ms |-> Milliseconds(end)]
    ELSE Zeroes({"end", "end_ms"})

\* mpd_song_parse_range()
SetRange(o, text) ==
    IF IsRange(text)
    THEN Sets(o, StartFields(RangeStart(text)) ++ EndFields(RangeEnd(text)))
    ELSE Same(o)

SetFormat(o, text) == Sets(o, AudioFormat(text))

\* mpd_song_feed(), of a pair that is not the next song's
FeedSong(o, p, room) ==
    IF p.value = <<>> THEN Same(o)
    ELSE CASE p.name \in TagNames      -> AddTag(o, p.name, p.value, room)
           [] p.name = "Time"          -> Sets(o, [duration |-> StrToUl(p.value)])
           [] p.name = "duration"      -> Sets(o, [duration_ms |-> DurationMs(p.value)])
           [] p.name = "Range"         -> SetRange(o, p.value)
           [] p.name = "Last-Modified" -> Sets(o, [last_modified |-> Date(p.value)])
           [] p.name = "Added"         -> Sets(o, [added |-> Date(p.value)])
           [] p.name = "Pos"           -> Sets(o, [pos |-> StrToUl(p.value)])
           [] p.name = "Id"            -> Sets(o, [id |-> StrToUl(p.value)])
           [] p.name = "Prio"          -> Sets(o, [prio |-> StrToUl(p.value)])
           [] p.name = "Format"        -> SetFormat(o, p.value)
           [] p.name = "RealUri"       -> SetString(o, "real_uri", p.value, room)
           [] OTHER                    -> Same(o)

\* mpd_directory_feed() and mpd_playlist_feed()
FeedDated(o, p) ==
    IF p.name = "Last-Modified" THEN Sets(o, [last_modified |-> Date(p.value)])
    ELSE Same(o)

FeedOutput(o, p, room) ==
    LET equals == SelectInSeq(p.value, LAMBDA token : token = "=")
    IN  CASE p.name = "outputname"    -> SetString(o, "name", p.value, room)
          [] p.name = "outputenabled" -> Sets(o, [enabled |-> IF StrToL(p.value) = 0 THEN 0 ELSE 1])
          [] p.name = "plugin"        -> SetString(o, "plugin", p.value, room)
          [] p.name = "attribute" /\ equals > 1 ->
                 AddAttribute(o, SubSeq(p.value, 1, equals - 1),
                              SubSeq(p.value, equals + 1, Len(p.value)), room)
          [] OTHER                    -> Same(o)

FeedMount(o, p, room) ==
    IF p.name = "storage" THEN SetString(o, "storage", p.value, room) ELSE Same(o)

FeedNeighbor(o, p, room) ==
    IF p.name = "name" THEN SetString(o, "display_name", p.value, room) ELSE Same(o)

FeedMessage(o, p, room) ==
    IF p.name = "message" THEN SetString(o, "text", p.value, room) ELSE Same(o)

\* mpd_entity_feed(): the object in it takes the pair
FeedEntity(o, p, room) ==
    CASE o.kind = "song"                     -> FeedSong(o, p, room)
      [] o.kind \in {"directory", "playlist"} -> FeedDated(o, p)
      [] OTHER                               -> Same(o)

StatsFields ==
    [artists |-> "number_of_artists", albums |-> "number_of_albums",
     songs |-> "number_of_songs", uptime |-> "uptime", db_update |-> "db_update_time",
     playtime |-> "play_time", db_playtime |-> "db_play_time"]

FeedStats(o, p) ==
    IF p.name \in DOMAIN StatsFields
    THEN Sets(o, One(StatsFields[p.name], StrToUl(p.value))) ELSE Same(o)

StatusUnsigned ==
    [playlist |-> "queue_version", playlistlength |-> "queue_length",
     bitrate |-> "kbit_rate", xfade |-> "crossfade", updating_db |-> "update_id"]
StatusSigned ==
    [volume |-> "volume", song |-> "song_pos", songid |-> "song_id",
     nextsong |-> "next_song_pos", nextsongid |-> "next_song_id"]

MillisecondsKnown_BugIgnored(o) == FALSE

\* have the milliseconds been set by an "elapsed" that came first?
MillisecondsKnown(o) == o.numbers.elapsed_ms # 0

FeedTime(o, text) ==
    LET elapsed == Scan(text)
        seconds == elapsed.value % UnsignedRange
    IN  Sets(o, [elapsed_time |-> seconds,
                 total_time |-> IF Begins(elapsed.rest, ":")
                                THEN StrToUl(Tail(elapsed.rest)) ELSE o.numbers.total_time,
                 elapsed_ms |-> IF MillisecondsKnown(o) THEN o.numbers.elapsed_ms
                                ELSE (seconds * 1000) % UnsignedRange])

FeedElapsed(o, text) ==
    Sets(o, [elapsed_ms |-> ElapsedMs(text),
             elapsed_time |-> IF o.numbers.elapsed_time # 0 THEN o.numbers.elapsed_time
                              ELSE ElapsedMs(text) \div 1000])

\* ten thousandths of a decibel or a second
StrToF(text) ==
    LET d == ScanDecimal(text)
        n == 10000 * d.seconds + d.fraction
    IN  IF d.negative THEN - n ELSE n

FeedStatus(o, p, room) ==
    CASE p.name \in DOMAIN StatusUnsigned ->
             Sets(o, One(StatusUnsigned[p.name], StrToUl(p.value)))
      [] p.name \in DOMAIN StatusSigned ->
             Sets(o, One(StatusSigned[p.name], StrToL(p.value)))
      [] p.name \in {"repeat", "random"} ->
             Sets(o, One(p.name, IF StrToL(p.value) = 0 THEN 0 ELSE 1))
      [] p.name \in {"single", "consume"} -> Sets(o, One(p.name, Mode(p.value)))
      [] p.name = "state"                 -> Sets(o, [state |-> State(p.value)])
      [] p.name = "time"                  -> FeedTime(o, p.value)
      [] p.name = "elapsed"               -> FeedElapsed(o, p.value)
      [] p.name \in {"partition", "error"} -> SetString(o, p.name, p.value, room)
      [] p.name \in {"mixrampdb", "mixrampdelay"} -> Sets(o, One(p.name, StrToF(p.value)))
      [] p.name = "audio"                 -> SetFormat(o, p.value)
      [] OTHER                            -> Same(o)

Takes(o, p, room) ==
    IF o.entity THEN FeedEntity(o, p, room)
    ELSE CASE o.kind = "song"                         -> FeedSong(o, p, room)
           [] o.kind \in {"directory", "playlist"}    -> FeedDated(o, p)
           [] o.kind = "output"                       -> FeedOutput(o, p, room)
           [] o.kind = "mount"                        -> FeedMount(o, p, room)
           [] o.kind = "neighbor"                     -> FeedNeighbor(o, p, room)
           [] o.kind = "message"                      -> FeedMessage(o, p, room)
           [] o.kind = "stats"                        -> FeedStats(o, p)
           [] o.kind = "status"                       -> FeedStatus(o, p, room)

(***************************************************************************)
(* Duplicating it                                                          *)
(***************************************************************************)
DupSong_BugLeaks(o, room) ==
    LET needs == 2 + ListBlocks(o)
    IN  Outcome(None, IF room < needs THEN room ELSE needs)

(* mpd_song_dup(): nothing is left behind if memory runs out among the     *)
(* tags; if it does afterwards, the copy has no real URI.  The audio       *)
(* format is not copied.                                                   *)
DupSong(o, room) ==
    LET needs == 2 + ListBlocks(o)
        real  == IF room > needs THEN o.strings.real_uri ELSE <<>>
    IN  IF room < needs THEN Nothing
        ELSE Outcome([o EXCEPT !.entity = FALSE, !.strings.real_uri = real,
                               !.numbers = Zeroes({"rate", "bits", "channels"}) ++ @],
                     needs + Len(real))

\* mpd_directory_dup() and mpd_playlist_dup()
DupDated(o, room) == NewNamed([o EXCEPT !.entity = FALSE], room)

(***************************************************************************)
(* Getters that do more than to return a field                             *)
(***************************************************************************)
GetDuration_BugTruncates(o) ==
    IF o.numbers.duration > 0 THEN o.numbers.duration ELSE o.numbers.duration_ms \div 1000

GetDuration(o) ==
    IF o.numbers.duration > 0 THEN o.numbers.duration
    ELSE ((o.numbers.duration_ms + 500) % UnsignedRange) \div 1000

GetDurationMs(o) ==
    IF o.numbers.duration_ms > 0 THEN o.numbers.duration_ms
    ELSE (o.numbers.duration * 1000) % UnsignedRange

(***************************************************************************)
(* What a client does                                                      *)
(***************************************************************************)
Begin(outcome) ==
    /\ ~Exists(object) /\ ~Exists(copy)
    /\ object' = outcome.object /\ heap' = heap + outcome.blocks
    /\ complete' = FALSE /\ fed' = <<>>
    /\ UNCHANGED copy

BeginKind(kind, p, room) ==
    CASE kind = "song"      -> Begin(BeginSong(p, room))
      [] kind = "directory" -> Begin(BeginDirectory(p, room))
      [] kind = "playlist"  -> Begin(BeginPlaylist(p, room))
      [] kind = "output"    -> Begin(BeginOutput(p, room))
      [] kind = "mount"     -> Begin(BeginMount(p, room))
      [] kind = "neighbor"  -> Begin(BeginNeighbor(p, room))
      [] kind = "partition" -> Begin(NewPartition(p, room))
      [] kind = "message"   -> Begin(BeginMessage(p, room))
      [] kind = "status"    -> Begin(BeginStatus(room))
      [] kind = "stats"     -> Begin(BeginStats(room))

\* the functions that feed; a partition has none
Feed(p, room) ==
    /\ Exists(object) /\ object.kind # "partition" /\ ~complete /\ Len(fed) < MaxFed
    /\ UNCHANGED copy
    /\ \/ /\ Ends(object, p.name)
          /\ complete' = TRUE /\ UNCHANGED <<object, heap, fed>>
       \/ /\ ~Ends(object, p.name)
          /\ LET taken == Takes(object, p, room)
             IN  object' = taken.object /\ heap' = heap + taken.blocks
          /\ fed' = Append(fed, p)
          /\ UNCHANGED complete

\* mpd_song_set_pos(), as if the server had sent the position
SetPos(p) ==
    /\ object.kind = "song" /\ p.name = "Pos" /\ Len(fed) < MaxFed
    /\ object' = [object EXCEPT !.numbers.pos = StrToUl(p.value)]
    /\ fed' = Append(fed, p)
    /\ UNCHANGED <<copy, complete, heap>>

Dup(outcome) ==
    /\ ~Exists(copy)
    /\ copy' = outcome.object /\ heap' = heap + outcome.blocks
    /\ UNCHANGED <<object, complete, fed>>

Duplicate(room) ==
    \/ object.kind = "song" /\ Dup(DupSong(object, room))
    \/ object.kind \in {"directory", "playlist"} /\ Dup(DupDated(object, room))

FreeObject ==
    /\ Exists(object)
    /\ object' = None /\ heap' = heap - Blocks(object)
    /\ fed' = <<>> /\ complete' = FALSE
    /\ UNCHANGED copy

FreeCopy ==
    /\ Exists(copy)
    /\ copy' = None /\ heap' = heap - Blocks(copy)
    /\ UNCHANGED <<object, complete, fed>>

Init ==
    /\ object = None /\ copy = None /\ complete = FALSE
    /\ heap = 0 /\ fed = <<>>

Next ==
    \/ \E kind \in Kinds, room \in 0 .. 2 : \E p \in Pairs[kind] : BeginKind(kind, p, room)
    \/ \E kind \in {"song", "directory", "playlist", "message"}, room \in 0 .. 3 :
           \E p \in Pairs[kind] : Begin(BeginEntity(p, room))
    \/ \E kind \in Kinds, room \in 0 .. 3 :
           /\ object.kind = kind
           /\ \E p \in Pairs[kind] : Feed(p, room)
    \/ \E p \in Pairs["song"] : object.kind = "unknown" /\ Feed(p, 0)
    \/ \E p \in Pairs["song"] : SetPos(p)
    \/ \E room \in 0 .. MaxRoom : Duplicate(room)
    \/ FreeObject
    \/ FreeCopy

Spec == Init /\ [][Next]_vars

(***************************************************************************)
(* Properties                                                              *)
(***************************************************************************)
\* Whatever is sent twice, cut short by a lack of memory, duplicated half-way or
\* refused, every block that is allocated belongs to an object that the client
\* has, and freeing that frees it.
NothingLeaks == heap = Blocks(object) + Blocks(copy)

\* the pairs of that name that have been fed, and the value of the last
Fed(name) == {i \in DOMAIN fed : fed[i].name = name}
FedOnce(name) == \A i, j \in Fed(name) : i = j
LastFed(name) == fed[CHOOSE i \in Fed(name) : \A j \in Fed(name) : j <= i].value

Abs(n) == IF n < 0 THEN - n ELSE n

(* The server sends one time twice, for old clients and for new: "Time" and *)
(* "duration" of a song, "time" and "elapsed" of the status.  Both are fed  *)
(* at most once, and one is the other rounded.                             *)
TimesSent(seconds, decimals) ==
    /\ FedOnce(seconds) /\ FedOnce(decimals)
    /\ (Fed(seconds) # {} /\ Fed(decimals) # {}) =>
           Abs(10000 * (Scan(LastFed(seconds)).value - ScanDecimal(LastFed(decimals)).seconds)
               - ScanDecimal(LastFed(decimals)).fraction) <= 5000
    /\ \A name \in {seconds, decimals} :
           Fed(name) # {} => Scan(LastFed(name)).value \in 0 .. MaxDuration

\* Of a song whose duration has been sent in seconds, in milliseconds or both,
\* the two getters agree, to the half second by which the server rounds.
DurationsAgree ==
    (object.kind = "song" /\ TimesSent("Time", "duration")) =>
        Abs(1000 * GetDuration(object) - GetDurationMs(object)) <= 500

\* the milliseconds that "elapsed" was sent with: up to three digits
SentMs(text) ==
    LET d == ScanDecimal(text) IN 1000 * d.seconds + d.fraction \div 10

\* The order of "time" and "elapsed" does not matter: the elapsed time is what was
\* sent, and "time" does not take its fraction away.  It is so to the hundredth of
\* a second only: the third digit is said to be parsed (status.c:136), but the
\* second is read in its place (status.c:155), so that 1.234 becomes 1233.
ElapsedToTheHundredth ==
    (object.kind = "status" /\ TimesSent("time", "elapsed")) =>
        /\ Fed("elapsed") # {} =>
               object.numbers.elapsed_ms \div 10 = SentMs(LastFed("elapsed")) \div 10
        /\ Abs(1000 * object.numbers.elapsed_time - object.numbers.elapsed_ms) < 1000

\* is the client's standard time as far from UTC at that time as it was on the
\* day in 2009 whose offset timezone_offset() takes?
SameZone(t) == Zone(t) = Zone(AfterTheEpoch)

\* A date is the same time of day in UTC, east and west of Greenwich and in summer
\* and winter.  iso8601.h:11-16 promises that of every date.  There are two
\* exceptions: a date at which the client's standard time was another than in 2009
\* is off by the difference (iso8601.c:58), and the last second of 1969 in its
\* zone is what mktime() returns for an error.
DatesAreUtc ==
    (/\ object.kind \in {"song", "directory", "playlist"}
     /\ Fed("Last-Modified") # {} /\ IsDate(LastFed("Last-Modified"))
     /\ SameZone(BrokenDown(LastFed("Last-Modified")))
     /\ Mktime(BrokenDown(LastFed("Last-Modified"))) # -1) =>
        object.numbers.last_modified = Timegm(BrokenDown(LastFed("Last-Modified")))
=============================================================================
