---------------------------- MODULE ValuesProofs ----------------------------
(***************************************************************************)
(* Theorems about Values, for any texts, any tags, any number of pairs and *)
(* any allocation that fails: no block of memory is lost or freed twice,   *)
(* times that are sent twice agree, and dates are UTC.                     *)
(*                                                                         *)
(* OwnedInv says what an object consists of, ToldInv which of the pairs it *)
(* has been fed each of its times comes from.                              *)
(***************************************************************************)
EXTENDS Values, SequenceTheorems, FiniteSetTheorems, TLAPS

(***************************************************************************)
(* The objects.                                                            *)
(***************************************************************************)
\* the pointers to strings of an object of that kind
StringFields(kind) ==
    CASE kind = "song"                    -> {"uri", "real_uri"}
      [] kind \in {"directory", "playlist"} -> {"path"}
      [] kind = "output"                  -> {"name", "plugin"}
      [] kind = "mount"                   -> {"uri", "storage"}
      [] kind = "neighbor"                -> {"uri", "display_name"}
      [] kind = "message"                 -> {"channel", "text"}
      [] kind = "partition"               -> {"name"}
      [] kind = "status"                  -> {"partition", "error"}
      [] OTHER                            -> {}

ListFields(kind) ==
    CASE kind = "song"   -> TagNames
      [] kind = "output" -> {"attributes"}
      [] OTHER           -> {}

\* the string without which there is no object of that kind
Named(o) ==
    /\ o.kind = "song" => o.strings["uri"] # <<>>
    /\ o.kind \in {"directory", "playlist"} => o.strings["path"] # <<>>

\* a pointer to a string is null or not
Pointer(s) == s = <<>> \/ \E x : s = <<x>>

AList(s) == \E S : s \in Seq(S)

Shaped(o) ==
    /\ o = [kind |-> o.kind, entity |-> o.entity, strings |-> o.strings,
            lists |-> o.lists, numbers |-> o.numbers]
    /\ o.kind # "none" /\ o.entity \in BOOLEAN
    /\ o.kind = "unknown" => o.entity
    /\ DOMAIN o.strings = StringFields(o.kind)
    /\ DOMAIN o.lists = ListFields(o.kind)

\* an object that its functions can go on with, and free
Formed(o) ==
    /\ Shaped(o) /\ Named(o)
    /\ \A field \in DOMAIN o.strings : Pointer(o.strings[field])
    /\ \A list \in DOMAIN o.lists : AList(o.lists[list])
    /\ IsFiniteSet(Strings(o)) /\ IsFiniteSet(Entries(o)) /\ IsFiniteSet(Begun(o))

\* An outcome of feeding o: the blocks that are counted are those it owns.
Keeps(o, r) ==
    /\ Formed(r.object)
    /\ r.object.kind = o.kind /\ r.object.entity = o.entity
    /\ r.blocks \in Int /\ Blocks(r.object) = Blocks(o) + r.blocks

\* An outcome of beginning or duplicating an object: there is none, or the blocks
\* that are counted are those it owns.
Makes(r) ==
    \/ r.object = None /\ r.blocks = 0
    \/ Formed(r.object) /\ Blocks(r.object) = r.blocks

\* What an object is after each change of it, field by field.
LEMMA EntitySet ==
    ASSUME NEW o, Shaped(o), NEW whole, NEW c, c = [o EXCEPT !.entity = whole]
    PROVE  c = [kind |-> o.kind, entity |-> whole, strings |-> o.strings, lists |-> o.lists,
                numbers |-> o.numbers]
BY DEF Shaped

LEMMA DuplicateSet ==
    ASSUME NEW o, Shaped(o), NEW real, NEW zeroes, NEW c,
           c = [o EXCEPT !.entity = FALSE, !.strings.real_uri = real, !.numbers = zeroes ++ @]
    PROVE  c = [kind |-> o.kind, entity |-> FALSE,
                strings |-> [o.strings EXCEPT !["real_uri"] = real], lists |-> o.lists,
                numbers |-> zeroes ++ o.numbers]
BY DEF Shaped

LEMMA UnknownSet ==
    ASSUME NEW u, u = [New("unknown", <<>>, <<>>, <<>>) EXCEPT !.entity = TRUE]
    PROVE  u = [kind |-> "unknown", entity |-> TRUE, strings |-> <<>>, lists |-> <<>>,
                numbers |-> <<>>]
BY DEF New

LEMMA BlocksAreNumbers ==
    ASSUME NEW o, Formed(o)
    PROVE  /\ Exists(o)
           /\ Cardinality(Strings(o)) \in Nat /\ Cardinality(Entries(o)) \in Nat
           /\ Cardinality(Begun(o)) \in Nat
           /\ ListBlocks(o) \in Int /\ Blocks(o) \in Int
<1>1. /\ Cardinality(Strings(o)) \in Nat /\ Cardinality(Entries(o)) \in Nat
      /\ Cardinality(Begun(o)) \in Nat
  BY FS_CardinalityType DEF Formed
<1>2. ListBlocks(o) \in Int
  BY <1>1 DEF ListBlocks
<1> QED BY <1>1, <1>2 DEF Blocks, Exists, Formed, Shaped

\* Numbers own nothing.
LEMMA NumbersOwnNothing ==
    ASSUME NEW o, Formed(o), NEW numbers, NEW p, p = [o EXCEPT !.numbers = numbers]
    PROVE  /\ Formed(p) /\ p.kind = o.kind /\ p.entity = o.entity
           /\ Blocks(p) = Blocks(o)
<1>1. /\ p.kind = o.kind /\ p.entity = o.entity /\ p.strings = o.strings /\ p.lists = o.lists
      /\ Shaped(p)
  BY DEF Formed, Shaped
<1>2. Strings(p) = Strings(o) /\ Entries(p) = Entries(o) /\ Begun(p) = Begun(o)
  BY <1>1 DEF Strings, Entries, Begun
<1>3. Formed(p)
  BY <1>1, <1>2 DEF Formed, Named
<1>4. Blocks(p) = Blocks(o)
  BY <1>1, <1>2 DEF Blocks, Exists, ListBlocks
<1> QED BY <1>1, <1>3, <1>4

LEMMA SetsKeeps ==
    ASSUME NEW o, Formed(o), NEW numbers
    PROVE  Keeps(o, Sets(o, numbers)) /\ Keeps(o, Same(o))
<1> DEFINE n == numbers ++ o.numbers
           p == [o EXCEPT !.numbers = n]
<1>1. Sets(o, numbers) = Outcome(p, 0) /\ Same(o) = Outcome(o, 0)
  BY DEF Sets, Same
<1>2. p = [o EXCEPT !.numbers = n]
  OBVIOUS
<1> HIDE DEF n, p
<1>3. Formed(p) /\ p.kind = o.kind /\ p.entity = o.entity /\ Blocks(p) = Blocks(o)
  BY <1>2, NumbersOwnNothing
<1>4. Blocks(o) + 0 = Blocks(o)
  BY BlocksAreNumbers
<1> QED BY <1>1, <1>3, <1>4 DEF Keeps, Outcome

LEMMA PointerLength ==
    ASSUME NEW s, Pointer(s)
    PROVE  Len(s) = IF s = <<>> THEN 0 ELSE 1
<1>1. Len(<<>>) = 0
  OBVIOUS
<1>2. \A x : Len(<<x>>) = 1 /\ <<x>> # <<>>
  OBVIOUS
<1> QED BY <1>1, <1>2 DEF Pointer

\* A string that takes the place of another is counted once.
LEMMA SetStringKeeps ==
    ASSUME NEW o, Formed(o), NEW field \in DOMAIN o.strings,
           o.kind = "song" => field # "uri", o.kind \notin {"directory", "playlist"},
           NEW text, NEW room
    PROVE  Keeps(o, SetString(o, field, text, room))
<1> DEFINE new == IF room > 0 THEN <<text>> ELSE <<>>
           old == o.strings[field]
           p   == [o EXCEPT !.strings[field] = new]
<1>1. SetString(o, field, text, room) = Outcome(p, Len(new) - Len(old))
  BY DEF SetString
<1>2. Pointer(new) /\ Pointer(old)
  BY DEF Pointer, Formed
<1> HIDE DEF new
<1>3. /\ p.kind = o.kind /\ p.entity = o.entity /\ p.lists = o.lists
      /\ p.strings = [o.strings EXCEPT ![field] = new]
      /\ Shaped(p)
  BY DEF Formed, Shaped
<1> HIDE DEF p
<1>4. DOMAIN p.strings = DOMAIN o.strings /\ p.strings[field] = new
      /\ \A f \in DOMAIN o.strings : f # field => p.strings[f] = o.strings[f]
  BY <1>3
<1>5. Strings(p) = IF new = <<>> THEN Strings(o) \ {field} ELSE Strings(o) \cup {field}
  BY <1>4 DEF Strings
<1>6. field \in Strings(o) <=> old # <<>>
  BY DEF Strings
<1> HIDE DEF old
<1>7. /\ Len(new) = IF new = <<>> THEN 0 ELSE 1
      /\ Len(old) = IF old = <<>> THEN 0 ELSE 1
  BY <1>2, PointerLength
<1>8. /\ IsFiniteSet(Strings(p))
      /\ Cardinality(Strings(p)) = Cardinality(Strings(o)) + (Len(new) - Len(old))
  <2>1. IsFiniteSet(Strings(o)) /\ Cardinality(Strings(o)) \in Nat
    BY BlocksAreNumbers DEF Formed
  <2>2. CASE new = <<>>
    <3>1. /\ IsFiniteSet(Strings(o) \ {field})
          /\ Cardinality(Strings(o) \ {field}) =
                IF field \in Strings(o) THEN Cardinality(Strings(o)) - 1
                ELSE Cardinality(Strings(o))
      BY <2>1, FS_RemoveElement
    <3> QED BY <1>5, <1>6, <1>7, <2>1, <2>2, <3>1
  <2>3. CASE new # <<>>
    <3>1. /\ IsFiniteSet(Strings(o) \cup {field})
          /\ Cardinality(Strings(o) \cup {field}) =
                IF field \in Strings(o) THEN Cardinality(Strings(o))
                ELSE Cardinality(Strings(o)) + 1
      BY <2>1, FS_AddElement
    <3> QED BY <1>5, <1>6, <1>7, <2>1, <2>3, <3>1
  <2> QED BY <2>2, <2>3
<1>9. Entries(p) = Entries(o) /\ Begun(p) = Begun(o) /\ ListBlocks(p) = ListBlocks(o)
  BY <1>3 DEF Entries, Begun, ListBlocks
<1>10. Formed(p)
  BY <1>2, <1>3, <1>4, <1>8, <1>9 DEF Formed, Named
<1>a. Len(new) - Len(old) \in Int
  BY <1>7
<1>11. Blocks(p) = Blocks(o) + (Len(new) - Len(old))
  <2>1. Exists(p) /\ Exists(o) /\ ListBlocks(o) \in Int /\ Cardinality(Strings(o)) \in Nat
    BY <1>10, BlocksAreNumbers
  <2> QED BY <1>3, <1>8, <1>9, <1>a, <2>1 DEF Blocks
<1> QED BY <1>1, <1>3, <1>10, <1>11, <1>a DEF Keeps, Outcome

(***************************************************************************)
(* Lists.                                                                  *)
(***************************************************************************)
LEMMA AppendedList ==
    ASSUME NEW S, NEW s \in Seq(S), NEW value, NEW t, t = Append(s, value)
    PROVE  /\ t \in Seq(S \cup {value}) /\ Len(t) = Len(s) + 1 /\ Len(s) \in Nat
           /\ DOMAIN s = 1 .. Len(s) /\ DOMAIN t = 1 .. Len(t) /\ t # <<>>
<1>1. s \in Seq(S \cup {value})
  BY SeqDef
<1>2. t \in Seq(S \cup {value}) /\ Len(t) = Len(s) + 1 /\ t # <<>>
  BY <1>1, AppendProperties
<1> QED BY <1>1, <1>2, LenProperties

Grown(o, list, value) == [o EXCEPT !.lists[list] = Append(@, value)]

\* A list that grows has one entry more.
LEMMA GrownBy ==
    ASSUME NEW o, Formed(o), NEW list, list \in DOMAIN o.lists, NEW value, NEW p,
           p = Grown(o, list, value)
    PROVE  /\ p.kind = o.kind /\ p.entity = o.entity /\ p.strings = o.strings
           /\ Formed(p)
           /\ Cardinality(Entries(p)) = Cardinality(Entries(o)) + 1
           /\ Cardinality(Begun(p)) =
                 Cardinality(Begun(o)) + (IF o.lists[list] = NoList THEN 1 ELSE 0)
<1> DEFINE s == o.lists[list]
           t == Append(s, value)
<1>1. PICK S : s \in Seq(S)
  BY DEF Formed, AList
<1>2. /\ t \in Seq(S \cup {value}) /\ Len(t) = Len(s) + 1 /\ Len(s) \in Nat
      /\ DOMAIN s = 1 .. Len(s) /\ DOMAIN t = 1 .. Len(t) /\ t # <<>>
  <2> HIDE DEF s
  <2> QED BY <1>1, AppendedList
<1>3. /\ p.kind = o.kind /\ p.entity = o.entity /\ p.strings = o.strings
      /\ p.lists = [o.lists EXCEPT ![list] = t]
      /\ Shaped(p)
  BY DEF Formed, Shaped, Grown
<1>4. /\ DOMAIN p.lists = DOMAIN o.lists /\ p.lists[list] = t
      /\ \A l \in DOMAIN o.lists : l # list => p.lists[l] = o.lists[l]
  BY <1>3
<1> HIDE DEF t
<1>5. Strings(p) = Strings(o)
  BY <1>3 DEF Strings
<1>6. Begun(p) = Begun(o) \cup {list} /\ (list \in Begun(o) <=> s # NoList)
  BY <1>2, <1>4 DEF Begun, NoList
<1>7. Entries(p) = Entries(o) \cup {<<list, Len(t)>>} /\ <<list, Len(t)>> \notin Entries(o)
  <2> DEFINE In(q, x) == \E l \in DOMAIN q.lists : \E i \in DOMAIN q.lists[l] : x = <<l, i>>
  <2>1. \A x : x \in Entries(o) <=> In(o, x)
    BY DEF Entries
  <2>2. \A x : x \in Entries(p) <=> In(p, x)
    BY DEF Entries
  <2>3. DOMAIN t = DOMAIN s \cup {Len(t)} /\ Len(t) \notin DOMAIN s
    BY <1>2
  <2>4. \A x : In(p, x) <=> In(o, x) \/ x = <<list, Len(t)>>
    BY <1>4, <2>3
  <2>5. ~In(o, <<list, Len(t)>>)
    BY <2>3
  <2> HIDE DEF In
  <2> QED BY <2>1, <2>2, <2>4, <2>5
<1>8. /\ IsFiniteSet(Entries(p)) /\ IsFiniteSet(Begun(p)) /\ IsFiniteSet(Strings(p))
      /\ Cardinality(Entries(p)) = Cardinality(Entries(o)) + 1
      /\ Cardinality(Begun(p)) = Cardinality(Begun(o)) + (IF s = NoList THEN 1 ELSE 0)
  <2>1. /\ IsFiniteSet(Entries(o)) /\ IsFiniteSet(Begun(o)) /\ IsFiniteSet(Strings(o))
        /\ Cardinality(Begun(o)) \in Nat
    BY BlocksAreNumbers DEF Formed
  <2> DEFINE E == Entries(o) \cup {<<list, Len(t)>>}
             B == Begun(o) \cup {list}
  <2>2. IsFiniteSet(E) /\ Cardinality(E) = Cardinality(Entries(o)) + 1
    BY <1>7, <2>1, FS_AddElement
  <2>3. /\ IsFiniteSet(B)
        /\ Cardinality(B) = IF list \in Begun(o) THEN Cardinality(Begun(o))
                            ELSE Cardinality(Begun(o)) + 1
    BY <2>1, FS_AddElement
  <2> HIDE DEF s
  <2>4. Cardinality(B) = Cardinality(Begun(o)) + (IF s = NoList THEN 1 ELSE 0)
    BY <1>6, <2>1, <2>3
  <2> QED BY <1>5, <1>6, <1>7, <2>1, <2>2, <2>3, <2>4
<1>9. Formed(p)
  BY <1>1, <1>2, <1>3, <1>4, <1>8 DEF Formed, Named, AList
<1> QED BY <1>3, <1>8, <1>9

LEMMA AddTagKeeps ==
    ASSUME NEW o, Formed(o), o.kind = "song", NEW tag \in TagNames, NEW text, NEW room
    PROVE  Keeps(o, AddTag(o, tag, text, room))
<1> DEFINE needs == IF o.lists[tag] = NoList THEN 1 ELSE 2
           p == Grown(o, tag, text)
<1>0. p = Grown(o, tag, text)
  OBVIOUS
<1> HIDE DEF p
<1>1. CASE room < needs
  BY <1>1, SetsKeeps DEF AddTag
<1>2. CASE ~(room < needs)
  <2>1. AddTag(o, tag, text, room) = Outcome(p, needs)
    BY <1>0, <1>2 DEF AddTag, Grown
  <2>2. tag \in DOMAIN o.lists
    BY DEF Formed, Shaped, ListFields
  <2>3. /\ p.kind = o.kind /\ p.entity = o.entity /\ p.strings = o.strings
        /\ Formed(p)
        /\ Cardinality(Entries(p)) = Cardinality(Entries(o)) + 1
        /\ Cardinality(Begun(p)) = Cardinality(Begun(o)) + (IF o.lists[tag] = NoList THEN 1 ELSE 0)
    BY <1>0, <2>2, GrownBy
  <2>4. /\ Exists(p) /\ Exists(o) /\ Cardinality(Strings(o)) \in Nat
        /\ Cardinality(Entries(o)) \in Nat /\ Cardinality(Begun(o)) \in Nat
    BY <2>3, BlocksAreNumbers
  <2>5. ListBlocks(p) = ListBlocks(o) + needs /\ ListBlocks(o) \in Int
    BY <2>3, <2>4 DEF ListBlocks
  <2>6. Strings(p) = Strings(o) /\ needs \in Int
    BY <2>3 DEF Strings
  <2> HIDE DEF needs
  <2>7. Blocks(p) = Blocks(o) + needs
    BY <2>3, <2>4, <2>5, <2>6 DEF Blocks
  <2> QED BY <2>1, <2>3, <2>6, <2>7 DEF Keeps, Outcome
<1> QED BY <1>1, <1>2

LEMMA AddAttributeKeeps ==
    ASSUME NEW o, Formed(o), o.kind = "output", NEW key, NEW value, NEW room
    PROVE  Keeps(o, AddAttribute(o, key, value, room))
<1> DEFINE item == [key |-> key, value |-> value]
           p == Grown(o, "attributes", item)
<1>0. p = Grown(o, "attributes", item)
  OBVIOUS
<1> HIDE DEF p
<1>1. CASE room < 3
  BY <1>1, SetsKeeps DEF AddAttribute
<1>2. CASE ~(room < 3)
  <2>1. AddAttribute(o, key, value, room) = Outcome(p, 3)
    BY <1>0, <1>2 DEF AddAttribute, Grown
  <2>2. "attributes" \in DOMAIN o.lists
    BY DEF Formed, Shaped, ListFields
  <2>3. /\ p.kind = o.kind /\ p.entity = o.entity /\ p.strings = o.strings
        /\ Formed(p)
        /\ Cardinality(Entries(p)) = Cardinality(Entries(o)) + 1
    BY <1>0, <2>2, GrownBy
  <2>4. /\ Exists(p) /\ Exists(o) /\ Cardinality(Strings(o)) \in Nat
        /\ Cardinality(Entries(o)) \in Nat
    BY <2>3, BlocksAreNumbers
  <2>5. ListBlocks(p) = ListBlocks(o) + 3 /\ ListBlocks(o) \in Int
    BY <2>3, <2>4 DEF ListBlocks
  <2>6. Strings(p) = Strings(o)
    BY <2>3 DEF Strings
  <2>7. Blocks(p) = Blocks(o) + 3
    BY <2>3, <2>4, <2>5, <2>6 DEF Blocks
  <2> QED BY <2>1, <2>3, <2>7 DEF Keeps, Outcome
<1> QED BY <1>1, <1>2

(***************************************************************************)
(* Feeding.                                                                *)
(***************************************************************************)
LEMMA FeedSongKeeps ==
    ASSUME NEW o, Formed(o), o.kind = "song", NEW p, NEW room
    PROVE  Keeps(o, FeedSong(o, p, room))
<1>1. \A n : Keeps(o, Sets(o, n)) /\ Keeps(o, Same(o))
  BY SetsKeeps
<1>2. p.name \in TagNames => Keeps(o, AddTag(o, p.name, p.value, room))
  BY AddTagKeeps
<1>3. Keeps(o, SetString(o, "real_uri", p.value, room))
  <2>1. "real_uri" \in DOMAIN o.strings
    BY DEF Formed, Shaped, StringFields
  <2> QED BY <2>1, SetStringKeeps
<1>4. Keeps(o, SetRange(o, p.value)) /\ Keeps(o, SetFormat(o, p.value))
  BY <1>1 DEF SetRange, SetFormat
<1> QED BY <1>1, <1>2, <1>3, <1>4 DEF FeedSong

LEMMA FeedDatedKeeps ==
    ASSUME NEW o, Formed(o), NEW p
    PROVE  Keeps(o, FeedDated(o, p))
<1>1. \A n : Keeps(o, Sets(o, n)) /\ Keeps(o, Same(o))
  BY SetsKeeps
<1> QED BY <1>1 DEF FeedDated

LEMMA FeedOutputKeeps ==
    ASSUME NEW o, Formed(o), o.kind = "output", NEW p, NEW room
    PROVE  Keeps(o, FeedOutput(o, p, room))
<1>1. \A n : Keeps(o, Sets(o, n)) /\ Keeps(o, Same(o))
  BY SetsKeeps
<1>2. /\ Keeps(o, SetString(o, "name", p.value, room))
      /\ Keeps(o, SetString(o, "plugin", p.value, room))
  <2>1. {"name", "plugin"} \subseteq DOMAIN o.strings
    BY DEF Formed, Shaped, StringFields
  <2> QED BY <2>1, SetStringKeeps
<1>3. \A key, value : Keeps(o, AddAttribute(o, key, value, room))
  BY AddAttributeKeeps
<1> QED BY <1>1, <1>2, <1>3 DEF FeedOutput

\* The objects with one string to be fed.
LEMMA FeedSmallKeeps ==
    ASSUME NEW o, Formed(o), NEW p, NEW room
    PROVE  /\ o.kind = "mount" => Keeps(o, FeedMount(o, p, room))
           /\ o.kind = "neighbor" => Keeps(o, FeedNeighbor(o, p, room))
           /\ o.kind = "message" => Keeps(o, FeedMessage(o, p, room))
<1>1. Keeps(o, Same(o))
  BY SetsKeeps
<1>2. DOMAIN o.strings = StringFields(o.kind)
  BY DEF Formed, Shaped
<1>3. o.kind = "mount" => Keeps(o, SetString(o, "storage", p.value, room))
  BY <1>2, SetStringKeeps DEF StringFields
<1>4. o.kind = "neighbor" => Keeps(o, SetString(o, "display_name", p.value, room))
  BY <1>2, SetStringKeeps DEF StringFields
<1>5. o.kind = "message" => Keeps(o, SetString(o, "text", p.value, room))
  BY <1>2, SetStringKeeps DEF StringFields
<1> QED BY <1>1, <1>3, <1>4, <1>5 DEF FeedMount, FeedNeighbor, FeedMessage

LEMMA FeedStatusKeeps ==
    ASSUME NEW o, Formed(o), o.kind = "status", NEW p, NEW room
    PROVE  Keeps(o, FeedStatus(o, p, room))
<1>1. \A n : Keeps(o, Sets(o, n)) /\ Keeps(o, Same(o))
  BY SetsKeeps
<1>2. p.name \in {"partition", "error"} => Keeps(o, SetString(o, p.name, p.value, room))
  <2>1. {"partition", "error"} \subseteq DOMAIN o.strings
    BY DEF Formed, Shaped, StringFields
  <2> QED BY <2>1, SetStringKeeps
<1>3. /\ Keeps(o, FeedTime(o, p.value)) /\ Keeps(o, FeedElapsed(o, p.value))
      /\ Keeps(o, SetFormat(o, p.value))
  BY <1>1 DEF FeedTime, FeedElapsed, SetFormat
<1> QED BY <1>1, <1>2, <1>3 DEF FeedStatus

LEMMA TakesKeeps ==
    ASSUME NEW o, Formed(o), NEW p, NEW room,
           o.kind \in Kinds \cup {"unknown"}, o.kind # "partition"
    PROVE  Keeps(o, Takes(o, p, room))
<1>1. Keeps(o, Same(o)) /\ Keeps(o, FeedDated(o, p))
  BY SetsKeeps, FeedDatedKeeps
<1>2. /\ o.kind = "song" => Keeps(o, FeedSong(o, p, room))
      /\ o.kind = "output" => Keeps(o, FeedOutput(o, p, room))
      /\ o.kind = "status" => Keeps(o, FeedStatus(o, p, room))
      /\ o.kind = "mount" => Keeps(o, FeedMount(o, p, room))
      /\ o.kind = "neighbor" => Keeps(o, FeedNeighbor(o, p, room))
      /\ o.kind = "message" => Keeps(o, FeedMessage(o, p, room))
  BY FeedSongKeeps, FeedOutputKeeps, FeedStatusKeeps, FeedSmallKeeps
<1>3. Keeps(o, FeedStats(o, p))
  BY SetsKeeps DEF FeedStats
<1>4. CASE o.entity
  BY <1>1, <1>2, <1>4 DEF Takes, FeedEntity
<1>5. CASE ~o.entity
  <2>1. /\ o.kind # "unknown"
        /\ o.kind \in {"song", "directory", "playlist", "output", "mount", "neighbor",
                       "message", "status", "stats"}
    BY <1>5 DEF Formed, Shaped, Kinds, First
  <2> QED BY <1>1, <1>2, <1>3, <1>5, <2>1 DEF Takes
<1> QED BY <1>4, <1>5

(***************************************************************************)
(* Beginning.                                                              *)
(***************************************************************************)
\* An object with nothing in its lists owns its strings.
LEMMA NewIsFormed ==
    ASSUME NEW kind, kind \notin {"none", "unknown"}, NEW strings, NEW lists, NEW numbers,
           DOMAIN strings = StringFields(kind), DOMAIN lists = ListFields(kind),
           \A field \in DOMAIN strings : Pointer(strings[field]),
           \A list \in DOMAIN lists : lists[list] = <<>>,
           NEW o, o = New(kind, strings, lists, numbers), Named(o),
           IsFiniteSet(Strings(o))
    PROVE  Formed(o) /\ Blocks(o) = 1 + Cardinality(Strings(o))
<1>1. /\ o.kind = kind /\ o.entity = FALSE /\ o.strings = strings /\ o.lists = lists
      /\ Shaped(o)
  BY DEF New, Shaped
<1>2. Entries(o) = {} /\ Begun(o) = {}
  BY <1>1 DEF Entries, Begun, NoList
<1>3. IsFiniteSet({}) /\ Cardinality({}) = 0 /\ Cardinality(Strings(o)) \in Nat
  BY FS_EmptySet, FS_CardinalityType
<1>4. \A list \in DOMAIN lists : AList(lists[list])
  <2>1. <<>> \in Seq({})
    OBVIOUS
  <2> QED BY <2>1 DEF AList
<1>5. Formed(o)
  BY <1>1, <1>2, <1>3, <1>4 DEF Formed
<1>6. ListBlocks(o) = 0
  BY <1>2, <1>3 DEF ListBlocks
<1> QED BY <1>1, <1>3, <1>5, <1>6 DEF Blocks, Exists

\* An object with its first string.
LEMMA NewNamedMakes ==
    ASSUME NEW kind, kind \notin {"none", "unknown", "output"}, NEW strings, NEW lists,
           NEW numbers, NEW field, NEW text, NEW room,
           DOMAIN strings = StringFields(kind), DOMAIN lists = ListFields(kind),
           field \in DOMAIN strings, strings[field] = <<text>>,
           \A f \in DOMAIN strings : f # field => strings[f] = <<>>,
           \A list \in DOMAIN lists : lists[list] = <<>>,
           kind = "song" => field = "uri",
           kind \in {"directory", "playlist"} => field = "path"
    PROVE  Makes(NewNamed(New(kind, strings, lists, numbers), room))
<1> DEFINE o == New(kind, strings, lists, numbers)
<1>1. o.kind = kind /\ o.strings = strings
  BY DEF New
<1>2. <<text>> # <<>> /\ Pointer(<<text>>) /\ Pointer(<<>>)
  BY DEF Pointer
<1>3. Named(o)
  BY <1>1, <1>2 DEF Named
<1>4. Strings(o) = {field}
  BY <1>1, <1>2 DEF Strings
<1>5. IsFiniteSet({field}) /\ Cardinality({field}) = 1
  BY FS_Singleton
<1>6. \A f \in DOMAIN strings : Pointer(strings[f])
  BY <1>2
<1> HIDE DEF o
<1>7. o = New(kind, strings, lists, numbers)
  BY DEF o
<1>8. Formed(o) /\ Blocks(o) = 2
  <2>1. IsFiniteSet(Strings(o)) /\ kind \notin {"none", "unknown"}
    BY <1>4, <1>5
  <2>2. Formed(o) /\ Blocks(o) = 1 + Cardinality(Strings(o))
    BY ONLY <2>1, <1>3, <1>6, <1>7, NewIsFormed, DOMAIN strings = StringFields(kind),
            DOMAIN lists = ListFields(kind), \A list \in DOMAIN lists : lists[list] = <<>>
  <2> QED BY <1>4, <1>5, <2>2
<1> QED BY <1>7, <1>8 DEF Makes, NewNamed, Nothing, Outcome

\* An object with neither strings nor lists but what it was made with.
LEMMA NewBareMakes ==
    ASSUME NEW kind, kind \in {"output", "status", "stats"}, NEW strings, NEW lists, NEW numbers,
           DOMAIN strings = StringFields(kind), DOMAIN lists = ListFields(kind),
           \A f \in DOMAIN strings : strings[f] = <<>>,
           \A list \in DOMAIN lists : lists[list] = <<>>
    PROVE  Makes(Outcome(New(kind, strings, lists, numbers), 1))
<1> DEFINE o == New(kind, strings, lists, numbers)
<1>1. o.kind = kind /\ o.strings = strings
  BY DEF New
<1>2. Named(o)
  BY <1>1 DEF Named
<1>3. Strings(o) = {} /\ IsFiniteSet({}) /\ Cardinality({}) = 0
  BY <1>1, FS_EmptySet DEF Strings
<1>4. \A f \in DOMAIN strings : Pointer(strings[f])
  BY DEF Pointer
<1> HIDE DEF o
<1>5. o = New(kind, strings, lists, numbers)
  BY DEF o
<1>6. Formed(o) /\ Blocks(o) = 1
  <2>1. IsFiniteSet(Strings(o)) /\ kind \notin {"none", "unknown"}
    BY <1>3
  <2>2. Formed(o) /\ Blocks(o) = 1 + Cardinality(Strings(o))
    BY ONLY <2>1, <1>2, <1>4, <1>5, NewIsFormed, DOMAIN strings = StringFields(kind),
            DOMAIN lists = ListFields(kind), \A list \in DOMAIN lists : lists[list] = <<>>
  <2> QED BY <1>3, <2>2
<1> QED BY <1>5, <1>6 DEF Makes, Outcome

LEMMA NothingMakes == Makes(Nothing)
BY DEF Makes, Nothing, Outcome

LEMMA BeginSongMakes ==
    ASSUME NEW p, NEW room
    PROVE  Makes(BeginSong(p, room))
<1> DEFINE strings == [uri |-> <<p.value>>, real_uri |-> <<>>]
           lists == [tag \in TagNames |-> NoList]
<1>1. /\ DOMAIN strings = StringFields("song") /\ DOMAIN lists = ListFields("song")
      /\ "uri" \in DOMAIN strings /\ strings["uri"] = <<p.value>>
      /\ \A f \in DOMAIN strings : f # "uri" => strings[f] = <<>>
      /\ \A list \in DOMAIN lists : lists[list] = <<>>
  BY DEF StringFields, ListFields, NoList
<1> HIDE DEF strings, lists
<1>2. Makes(NewNamed(New("song", strings, lists, SongNumbers), room))
  BY <1>1, NewNamedMakes
<1> QED BY <1>2, NothingMakes DEF BeginSong, strings, lists

\* The kinds whose only string is the first.
LEMMA BeginPathMakes ==
    ASSUME NEW p, NEW room
    PROVE  /\ Makes(BeginDirectory(p, room)) /\ Makes(BeginPlaylist(p, room))
           /\ Makes(NewPartition(p, room))
<1> DEFINE path == [path |-> <<p.value>>]
           name == [name |-> <<p.value>>]
           dated == Zeroes({"last_modified"})
<1>1. /\ DOMAIN path = StringFields("directory") /\ DOMAIN path = StringFields("playlist")
      /\ DOMAIN name = StringFields("partition")
      /\ "path" \in DOMAIN path /\ path["path"] = <<p.value>>
      /\ "name" \in DOMAIN name /\ name["name"] = <<p.value>>
      /\ \A f \in DOMAIN path : f # "path" => path[f] = <<>>
      /\ \A f \in DOMAIN name : f # "name" => name[f] = <<>>
  BY DEF StringFields
<1>2. /\ \A kind \in {"directory", "playlist", "partition"} : DOMAIN <<>> = ListFields(kind)
      /\ \A list \in DOMAIN <<>> : <<>>[list] = <<>>
  BY DEF ListFields
<1> HIDE DEF path, name, dated
<1>3. /\ Makes(NewNamed(New("directory", path, <<>>, dated), room))
      /\ Makes(NewNamed(New("playlist", path, <<>>, dated), room))
  BY <1>1, <1>2, NewNamedMakes
<1>4. Makes(NewNamed(New("partition", name, <<>>, <<>>), room))
  BY <1>1, <1>2, NewNamedMakes
<1> QED BY <1>3, <1>4, NothingMakes
        DEF BeginDirectory, BeginPlaylist, NewPartition, path, name, dated

\* The kinds with a second string that is fed.
LEMMA BeginPairMakes ==
    ASSUME NEW p, NEW room
    PROVE  /\ Makes(BeginMount(p, room)) /\ Makes(BeginNeighbor(p, room))
           /\ Makes(BeginMessage(p, room))
<1> DEFINE mount == [uri |-> <<p.value>>, storage |-> <<>>]
           neighbor == [uri |-> <<p.value>>, display_name |-> <<>>]
           message == [channel |-> <<p.value>>, text |-> <<>>]
<1>1. /\ DOMAIN mount = StringFields("mount") /\ DOMAIN neighbor = StringFields("neighbor")
      /\ DOMAIN message = StringFields("message")
      /\ "uri" \in DOMAIN mount /\ mount["uri"] = <<p.value>>
      /\ "uri" \in DOMAIN neighbor /\ neighbor["uri"] = <<p.value>>
      /\ "channel" \in DOMAIN message /\ message["channel"] = <<p.value>>
      /\ \A f \in DOMAIN mount : f # "uri" => mount[f] = <<>>
      /\ \A f \in DOMAIN neighbor : f # "uri" => neighbor[f] = <<>>
      /\ \A f \in DOMAIN message : f # "channel" => message[f] = <<>>
  BY DEF StringFields
<1>2. /\ \A kind \in {"mount", "neighbor", "message"} : DOMAIN <<>> = ListFields(kind)
      /\ \A list \in DOMAIN <<>> : <<>>[list] = <<>>
  BY DEF ListFields
<1> HIDE DEF mount, neighbor, message
<1>3. Makes(NewNamed(New("mount", mount, <<>>, <<>>), room))
  BY <1>1, <1>2, NewNamedMakes
<1>4. Makes(NewNamed(New("neighbor", neighbor, <<>>, <<>>), room))
  BY <1>1, <1>2, NewNamedMakes
<1>5. Makes(NewNamed(New("message", message, <<>>, <<>>), room))
  BY <1>1, <1>2, NewNamedMakes
<1> QED BY <1>3, <1>4, <1>5, NothingMakes
        DEF BeginMount, BeginNeighbor, BeginMessage, mount, neighbor, message

\* The kinds that begin without a string.
LEMMA BeginBareMakes ==
    ASSUME NEW p, NEW room
    PROVE  /\ Makes(BeginOutput(p, room)) /\ Makes(BeginStatus(room))
           /\ Makes(BeginStats(room))
<1> DEFINE output == [name |-> <<>>, plugin |-> <<>>]
           status == [partition |-> <<>>, error |-> <<>>]
           lists == [attributes |-> NoList]
           numbers == [id |-> StrToUl(p.value), enabled |-> 0]
<1>1. /\ DOMAIN output = StringFields("output") /\ DOMAIN lists = ListFields("output")
      /\ DOMAIN status = StringFields("status") /\ DOMAIN <<>> = StringFields("stats")
      /\ \A f \in DOMAIN output : output[f] = <<>>
      /\ \A f \in DOMAIN status : status[f] = <<>>
      /\ \A list \in DOMAIN lists : lists[list] = <<>>
  BY DEF StringFields, ListFields, NoList
<1>2. /\ \A kind \in {"status", "stats"} : DOMAIN <<>> = ListFields(kind)
      /\ \A list \in DOMAIN <<>> : <<>>[list] = <<>>
  BY DEF ListFields
<1> HIDE DEF output, status, lists, numbers
<1>3. Makes(Outcome(New("output", output, lists, numbers), 1))
  BY <1>1, NewBareMakes
<1>4. Makes(Outcome(New("status", status, <<>>, StatusNumbers), 1))
  BY <1>1, <1>2, NewBareMakes
<1>5. Makes(Outcome(New("stats", <<>>, <<>>, StatsNumbers), 1))
  BY <1>1, <1>2, NewBareMakes
<1> QED BY <1>3, <1>4, <1>5, NothingMakes
        DEF BeginOutput, BeginStatus, BeginStats, output, status, lists, numbers

LEMMA BeginKindMakes ==
    ASSUME NEW p, NEW room
    PROVE  /\ Makes(BeginSong(p, room)) /\ Makes(BeginDirectory(p, room))
           /\ Makes(BeginPlaylist(p, room)) /\ Makes(BeginOutput(p, room))
           /\ Makes(BeginMount(p, room)) /\ Makes(BeginNeighbor(p, room))
           /\ Makes(NewPartition(p, room)) /\ Makes(BeginMessage(p, room))
           /\ Makes(BeginStatus(room)) /\ Makes(BeginStats(room))
BY BeginSongMakes, BeginPathMakes, BeginPairMakes, BeginBareMakes

\* What begins is not yet part of an entity.
LEMMA FirstStandsAlone ==
    ASSUME NEW p, NEW room, FeedFirst(p, room).object.kind # "unknown"
    PROVE  \/ FeedFirst(p, room).object = None
           \/ FeedFirst(p, room).object.entity = FALSE
<1>1. \A kind, strings, lists, numbers : New(kind, strings, lists, numbers).entity = FALSE
  BY DEF New
<1>2. \A o : NewNamed(o, room).object \in {None, o}
  BY DEF NewNamed, Nothing, Outcome
<1>3. Nothing.object = None
  BY DEF Nothing, Outcome
<1>4. \A o, n : Outcome(o, n).object = o
  BY DEF Outcome
<1> QED BY <1>1, <1>2, <1>3, <1>4 DEF FeedFirst, BeginSong, BeginDirectory, BeginPlaylist

\* An entity is one block more than the object in it.
LEMMA EntityOwns ==
    ASSUME NEW o, Formed(o), o.entity = FALSE, NEW e, e = [o EXCEPT !.entity = TRUE]
    PROVE  Formed(e) /\ Blocks(e) = Blocks(o) + 1
<1>1. /\ e.kind = o.kind /\ e.entity = TRUE /\ e.strings = o.strings /\ e.lists = o.lists
      /\ Shaped(e)
  BY DEF Formed, Shaped
<1>2. Strings(e) = Strings(o) /\ Entries(e) = Entries(o) /\ Begun(e) = Begun(o)
      /\ ListBlocks(e) = ListBlocks(o)
  BY <1>1 DEF Strings, Entries, Begun, ListBlocks
<1>3. Formed(e)
  BY <1>1, <1>2 DEF Formed, Named
<1>4. /\ Exists(o) /\ Exists(e) /\ ListBlocks(o) \in Int
      /\ Cardinality(Strings(o)) \in Nat
  BY <1>3, BlocksAreNumbers
<1> QED BY <1>1, <1>2, <1>3, <1>4 DEF Blocks

LEMMA BeginEntityMakes ==
    ASSUME NEW p, NEW room
    PROVE  Makes(BeginEntity(p, room))
<1> DEFINE inner == FeedFirst(p, room - 1)
           e == [inner.object EXCEPT !.entity = TRUE]
           unknown == New("unknown", <<>>, <<>>, <<>>)
<1>1. inner = Outcome(unknown, 0) \/ Makes(inner)
  BY BeginKindMakes DEF FeedFirst
<1>2. CASE room = 0 \/ ~Exists(inner.object)
  BY <1>2, NothingMakes DEF BeginEntity
<1>3. CASE ~(room = 0 \/ ~Exists(inner.object)) /\ inner = Outcome(unknown, 0)
  <2>1. BeginEntity(p, room) = Outcome([unknown EXCEPT !.entity = TRUE], 1)
    <3>1. inner.object = unknown /\ inner.blocks + 1 = 1
      BY <1>3 DEF Outcome
    <3> QED BY <1>3, <3>1 DEF BeginEntity
  <2> DEFINE u == [unknown EXCEPT !.entity = TRUE]
  <2>a. u = [kind |-> "unknown", entity |-> TRUE, strings |-> <<>>, lists |-> <<>>,
             numbers |-> <<>>]
    BY UnknownSet
  <2>3. u = [unknown EXCEPT !.entity = TRUE]
    OBVIOUS
  <2> HIDE DEF u
  <2>2. /\ u.kind = "unknown" /\ u.entity = TRUE /\ u.strings = <<>> /\ u.lists = <<>>
        /\ u = [kind |-> u.kind, entity |-> u.entity, strings |-> u.strings,
                lists |-> u.lists, numbers |-> u.numbers]
    BY <2>a
  <2>4. /\ DOMAIN u.strings = {} /\ DOMAIN u.lists = {}
        /\ StringFields(u.kind) = {} /\ ListFields(u.kind) = {}
    BY <2>2 DEF StringFields, ListFields
  <2>5. Shaped(u) /\ Named(u)
    BY <2>2, <2>4 DEF Shaped, Named
  <2>6. Strings(u) = {} /\ Entries(u) = {} /\ Begun(u) = {}
    BY <2>4 DEF Strings, Entries, Begun
  <2>7. IsFiniteSet({}) /\ Cardinality({}) = 0
    BY FS_EmptySet
  <2>8. Formed(u)
    BY <2>4, <2>5, <2>6, <2>7 DEF Formed
  <2>9. Blocks(u) = 1
    BY <2>2, <2>6, <2>7 DEF Blocks, Exists, ListBlocks
  <2> QED BY <2>1, <2>3, <2>8, <2>9 DEF Makes, Outcome
<1>4. CASE ~(room = 0 \/ ~Exists(inner.object)) /\ inner # Outcome(unknown, 0)
  <2>1. BeginEntity(p, room) = Outcome(e, inner.blocks + 1)
    BY <1>4 DEF BeginEntity
  <2>2. Formed(inner.object) /\ Blocks(inner.object) = inner.blocks
    BY <1>1, <1>4 DEF Makes, Exists, None
  <2>3. inner.object.kind # "unknown"
    <3>1. FeedFirst(p, room - 1).object.kind # "unknown"
          \/ FeedFirst(p, room - 1) = Outcome(unknown, 0)
      <4>1. \A q \in {BeginSong(p, room - 1), BeginDirectory(p, room - 1), BeginPlaylist(p, room - 1)} :
                q.object.kind \in {"none", "song", "directory", "playlist"}
        BY DEF BeginSong, BeginDirectory, BeginPlaylist, NewNamed, New, Nothing, None, Outcome
      <4> QED BY <4>1 DEF FeedFirst
    <3> QED BY <3>1, <1>4
  <2>4. inner.object.entity = FALSE
    <3>1. inner.object # None
      BY <1>4 DEF Exists, None
    <3> QED BY <2>3, <3>1, FirstStandsAlone
  <2> HIDE DEF inner
  <2>5. Formed(e) /\ Blocks(e) = Blocks(inner.object) + 1
    BY <2>2, <2>4, EntityOwns
  <2> HIDE DEF e
  <2> QED BY <2>1, <2>2, <2>5 DEF Makes, Outcome
<1> QED BY <1>2, <1>3, <1>4

(***************************************************************************)
(* Duplicating.                                                            *)
(***************************************************************************)
\* A duplicate has the tags of the song, and the strings that there was room for.
LEMMA DupSongMakes ==
    ASSUME NEW o, Formed(o), o.kind = "song", NEW room
    PROVE  Makes(DupSong(o, room))
<1> DEFINE needs == 2 + ListBlocks(o)
           real == IF room > needs THEN o.strings.real_uri ELSE <<>>
           zeroes == Zeroes({"rate", "bits", "channels"})
           c == [o EXCEPT !.entity = FALSE, !.strings.real_uri = real,
                          !.numbers = zeroes ++ @]
<1> HIDE DEF zeroes
<1>1. CASE room < needs
  BY <1>1, NothingMakes DEF DupSong
<1>2. CASE ~(room < needs)
  <2>1. DupSong(o, room) = Outcome(c, needs + Len(real))
    BY <1>2 DEF DupSong, zeroes
  <2>2. /\ DOMAIN o.strings = {"uri", "real_uri"} /\ o.strings["uri"] # <<>>
        /\ Pointer(o.strings["uri"]) /\ Pointer(o.strings["real_uri"])
    BY DEF Formed, Shaped, StringFields, Named
  <2>3. Pointer(real)
    BY <2>2 DEF Pointer
  <2> HIDE DEF needs, real
  <2>a. c = [kind |-> o.kind, entity |-> FALSE,
             strings |-> [o.strings EXCEPT !["real_uri"] = real], lists |-> o.lists,
             numbers |-> zeroes ++ o.numbers]
    BY DuplicateSet DEF Formed
  <2> HIDE DEF c
  <2>4. /\ c.kind = "song" /\ c.entity = FALSE /\ c.lists = o.lists
        /\ c.strings = [o.strings EXCEPT !["real_uri"] = real]
        /\ c = [kind |-> c.kind, entity |-> c.entity, strings |-> c.strings,
                lists |-> c.lists, numbers |-> c.numbers]
    BY <2>a
  <2>5. /\ DOMAIN c.strings = DOMAIN o.strings /\ c.strings["real_uri"] = real
        /\ c.strings["uri"] = o.strings["uri"]
    BY <2>2, <2>4
  <2>6. Strings(c) = IF real = <<>> THEN {"uri"} ELSE {"uri", "real_uri"}
    BY <2>2, <2>5 DEF Strings
  <2>7. Entries(c) = Entries(o) /\ Begun(c) = Begun(o) /\ ListBlocks(c) = ListBlocks(o)
    BY <2>4 DEF Entries, Begun, ListBlocks
  <2>8. Len(real) = IF real = <<>> THEN 0 ELSE 1
    BY <2>3, PointerLength
  <2>9. IsFiniteSet(Strings(c)) /\ Cardinality(Strings(c)) = 1 + Len(real)
    <3>1. IsFiniteSet({"uri"}) /\ Cardinality({"uri"}) = 1
      BY FS_Singleton
    <3>2. IsFiniteSet({"uri"} \cup {"real_uri"}) /\ Cardinality({"uri"} \cup {"real_uri"}) = 2
      BY <3>1, FS_AddElement
    <3> QED BY <2>6, <2>8, <3>1, <3>2
  <2>10. Formed(c)
    <3>1. Shaped(c) /\ Named(c)
      BY <2>2, <2>4, <2>5 DEF Formed, Shaped, Named
    <3>2. \A field \in DOMAIN c.strings : Pointer(c.strings[field])
      BY <2>2, <2>3, <2>5
    <3> QED BY <2>4, <2>7, <2>9, <3>1, <3>2 DEF Formed
  <2>11. Blocks(c) = needs + Len(real)
    <3>1. Exists(c) /\ ListBlocks(o) \in Int /\ Len(real) \in Int
      BY <2>8, <2>10, BlocksAreNumbers
    <3> QED BY <2>4, <2>7, <2>9, <3>1 DEF Blocks, needs
  <2> QED BY <2>1, <2>10, <2>11 DEF Makes, Outcome
<1> QED BY <1>1, <1>2

LEMMA DupDatedMakes ==
    ASSUME NEW o, Formed(o), o.kind \in {"directory", "playlist"}, NEW room
    PROVE  Makes(DupDated(o, room))
<1> DEFINE c == [o EXCEPT !.entity = FALSE]
<1>0. c = [kind |-> o.kind, entity |-> FALSE, strings |-> o.strings, lists |-> o.lists,
           numbers |-> o.numbers]
  BY EntitySet DEF Formed
<1>2. DupDated(o, room) = NewNamed(c, room)
  BY DEF DupDated
<1> HIDE DEF c
<1>1. /\ c.kind = o.kind /\ c.entity = FALSE /\ c.strings = o.strings /\ c.lists = o.lists
      /\ c = [kind |-> c.kind, entity |-> c.entity, strings |-> c.strings,
              lists |-> c.lists, numbers |-> c.numbers]
  BY <1>0
<1>3. /\ DOMAIN o.strings = {"path"} /\ o.strings["path"] # <<>> /\ DOMAIN o.lists = {}
  BY DEF Formed, Shaped, StringFields, ListFields, Named
<1>4. Strings(c) = {"path"} /\ Entries(c) = {} /\ Begun(c) = {}
  BY <1>1, <1>3 DEF Strings, Entries, Begun
<1>5. /\ IsFiniteSet({"path"}) /\ Cardinality({"path"}) = 1
      /\ IsFiniteSet({}) /\ Cardinality({}) = 0
  BY FS_Singleton, FS_EmptySet
<1>6. Formed(c)
  <2>1. Shaped(c) /\ Named(c)
    BY <1>1 DEF Formed, Shaped, Named
  <2> QED BY <1>1, <1>4, <1>5, <2>1 DEF Formed
<1>7. Blocks(c) = 2
  BY <1>1, <1>4, <1>5 DEF Blocks, Exists, ListBlocks
<1> QED BY <1>2, <1>6, <1>7, NothingMakes DEF NewNamed, Makes, Nothing, Outcome

(***************************************************************************)
(* The program.                                                            *)
(***************************************************************************)
\* there is no object, or one that owns what is counted
Owned(o) == o = None \/ Formed(o)

OwnedInv == Owned(object) /\ Owned(copy) /\ NothingLeaks

LEMMA OwnedBlocks ==
    ASSUME NEW o, Owned(o)
    PROVE  Blocks(o) \in Int /\ (o = None => Blocks(o) = 0) /\ (Exists(o) => Formed(o))
<1>1. ~Exists(None)
  BY DEF Exists, None
<1> QED BY <1>1, BlocksAreNumbers DEF Owned, Blocks

LEMMA OwnedInit == Init => OwnedInv
<1>1. Owned(None)
  BY DEF Owned
<1>2. Blocks(None) = 0
  BY <1>1, OwnedBlocks
<1> QED BY <1>1, <1>2 DEF Init, OwnedInv, NothingLeaks

LEMMA BeginOwns ==
    ASSUME OwnedInv, NEW outcome, Makes(outcome), Begin(outcome)
    PROVE  OwnedInv'
<1>1. Owned(outcome.object) /\ Blocks(outcome.object) = outcome.blocks
  BY OwnedBlocks DEF Makes, Owned
<1>2. object = None /\ Owned(copy) /\ heap = Blocks(object) + Blocks(copy)
  <2>1. ~Exists(object)
    BY DEF Begin
  <2> QED BY <2>1, BlocksAreNumbers DEF OwnedInv, Owned, NothingLeaks
<1>3. Blocks(object) = 0 /\ Blocks(copy) \in Int /\ Blocks(outcome.object) \in Int
  BY <1>1, <1>2, OwnedBlocks DEF Owned
<1>4. object' = outcome.object /\ copy' = copy /\ heap' = heap + outcome.blocks
  BY DEF Begin
<1>5. heap' = Blocks(object') + Blocks(copy')
  BY <1>1, <1>2, <1>3, <1>4
<1>6. Owned(object') /\ Owned(copy')
  BY <1>1, <1>2, <1>4
<1> QED BY <1>5, <1>6 DEF OwnedInv, NothingLeaks

LEMMA FeedOwns ==
    ASSUME OwnedInv, NEW p, NEW room, object.kind \in Kinds \cup {"unknown"}, Feed(p, room)
    PROVE  OwnedInv'
<1> DEFINE taken == Takes(object, p, room)
<1>1. Formed(object) /\ Owned(copy) /\ heap = Blocks(object) + Blocks(copy)
  BY DEF Feed, OwnedInv, Owned, NothingLeaks, Exists, None
<1>2. Keeps(object, taken)
  BY <1>1, TakesKeeps DEF Feed
<1>3. Blocks(object) \in Int /\ Blocks(copy) \in Int
  BY <1>1, OwnedBlocks DEF Owned
<1>4. CASE UNCHANGED <<object, heap, copy>>
  BY <1>4 DEF OwnedInv, NothingLeaks
<1>5. CASE object' = taken.object /\ heap' = heap + taken.blocks /\ copy' = copy
  <2> HIDE DEF taken
  <2>1. /\ Formed(taken.object) /\ taken.blocks \in Int
        /\ Blocks(taken.object) = Blocks(object) + taken.blocks
    BY <1>2 DEF Keeps
  <2>2. heap' = Blocks(object') + Blocks(copy')
    BY <1>1, <1>3, <1>5, <2>1
  <2>3. Owned(object') /\ Owned(copy')
    BY <1>1, <1>5, <2>1 DEF Owned
  <2> QED BY <2>2, <2>3 DEF OwnedInv, NothingLeaks
<1> QED BY <1>4, <1>5 DEF Feed

LEMMA SetPosOwns ==
    ASSUME OwnedInv, NEW p, SetPos(p)
    PROVE  OwnedInv'
<1> DEFINE numbers == [object.numbers EXCEPT !["pos"] = StrToUl(p.value)]
<1>1. Formed(object) /\ Owned(copy) /\ heap = Blocks(object) + Blocks(copy)
  BY DEF SetPos, OwnedInv, Owned, NothingLeaks, None
<1>2. object' = [object EXCEPT !.numbers = numbers] /\ copy' = copy /\ heap' = heap
  BY DEF SetPos
<1> HIDE DEF numbers
<1>3. Formed(object') /\ Blocks(object') = Blocks(object)
  BY <1>1, <1>2, NumbersOwnNothing
<1> QED BY <1>1, <1>2, <1>3 DEF OwnedInv, NothingLeaks, Owned

LEMMA DuplicateOwns ==
    ASSUME OwnedInv, NEW room, Duplicate(room)
    PROVE  OwnedInv'
<1>1. PICK outcome : Makes(outcome) /\ Dup(outcome)
  <2>1. CASE object.kind = "song" /\ Dup(DupSong(object, room))
    <3>1. Formed(object)
      BY <2>1 DEF OwnedInv, Owned, None
    <3> QED BY <2>1, <3>1, DupSongMakes
  <2>2. CASE object.kind \in {"directory", "playlist"} /\ Dup(DupDated(object, room))
    <3>1. Formed(object)
      BY <2>2 DEF OwnedInv, Owned, None
    <3> QED BY <2>2, <3>1, DupDatedMakes
  <2> QED BY <2>1, <2>2 DEF Duplicate
<1>2. Owned(outcome.object) /\ Blocks(outcome.object) = outcome.blocks
  BY <1>1, OwnedBlocks DEF Makes, Owned
<1>3. copy = None /\ Owned(object) /\ heap = Blocks(object) + Blocks(copy)
  <2>1. ~Exists(copy)
    BY <1>1 DEF Dup
  <2> QED BY <2>1, BlocksAreNumbers DEF OwnedInv, Owned, NothingLeaks
<1>4. Blocks(copy) = 0 /\ Blocks(object) \in Int /\ Blocks(outcome.object) \in Int
  BY <1>2, <1>3, OwnedBlocks DEF Owned
<1>5. copy' = outcome.object /\ object' = object /\ heap' = heap + outcome.blocks
  BY <1>1 DEF Dup
<1>6. heap' = Blocks(object') + Blocks(copy')
  BY <1>2, <1>3, <1>4, <1>5
<1>7. Owned(object') /\ Owned(copy')
  BY <1>2, <1>3, <1>5
<1> QED BY <1>6, <1>7 DEF OwnedInv, NothingLeaks

LEMMA FreeingOwns ==
    ASSUME OwnedInv, FreeObject \/ FreeCopy
    PROVE  OwnedInv'
<1>1. /\ Owned(object) /\ Owned(copy) /\ Owned(None)
      /\ heap = Blocks(object) + Blocks(copy)
  BY DEF OwnedInv, NothingLeaks, Owned
<1>2. Blocks(object) \in Int /\ Blocks(copy) \in Int /\ Blocks(None) = 0
  BY <1>1, OwnedBlocks
<1>3. CASE FreeObject
  <2>1. object' = None /\ copy' = copy /\ heap' = heap - Blocks(object)
    BY <1>3 DEF FreeObject
  <2>2. heap' = Blocks(object') + Blocks(copy')
    BY <1>1, <1>2, <2>1
  <2> QED BY <1>1, <2>1, <2>2 DEF OwnedInv, NothingLeaks
<1>4. CASE FreeCopy
  <2>1. copy' = None /\ object' = object /\ heap' = heap - Blocks(copy)
    BY <1>4 DEF FreeCopy
  <2>2. heap' = Blocks(object') + Blocks(copy')
    BY <1>1, <1>2, <2>1
  <2> QED BY <1>1, <2>1, <2>2 DEF OwnedInv, NothingLeaks
<1> QED BY <1>3, <1>4

LEMMA OwnedStep == OwnedInv /\ [Next]_vars => OwnedInv'
<1> SUFFICES ASSUME OwnedInv, [Next]_vars PROVE OwnedInv'
  OBVIOUS
<1>1. ASSUME NEW kind \in Kinds, NEW p, NEW room, BeginKind(kind, p, room)
      PROVE  OwnedInv'
  <2>1. PICK outcome : Makes(outcome) /\ Begin(outcome)
    <3>1. kind \in {"song", "directory", "playlist", "output", "mount", "neighbor",
                    "partition", "message", "status", "stats"}
      BY DEF Kinds, First
    <3> QED BY <1>1, <3>1, BeginKindMakes DEF BeginKind
  <2> QED BY <2>1, BeginOwns
<1>2. ASSUME NEW p, NEW room, Begin(BeginEntity(p, room))
      PROVE  OwnedInv'
  BY <1>2, BeginEntityMakes, BeginOwns
<1>3. ASSUME NEW kind \in Kinds \cup {"unknown"}, NEW p, NEW room,
             object.kind = kind, Feed(p, room)
      PROVE  OwnedInv'
  BY <1>3, FeedOwns
<1>4. ASSUME NEW p, SetPos(p)
      PROVE  OwnedInv'
  BY <1>4, SetPosOwns
<1>5. ASSUME NEW room, Duplicate(room)
      PROVE  OwnedInv'
  BY <1>5, DuplicateOwns
<1>6. CASE FreeObject \/ FreeCopy
  BY <1>6, FreeingOwns
<1>7. CASE UNCHANGED vars
  BY <1>7 DEF vars, OwnedInv, NothingLeaks
<1> QED BY <1>1, <1>2, <1>3, <1>4, <1>5, <1>6, <1>7 DEF Next

\* Whatever an object is begun with and fed, and wherever memory runs out, every
\* block that is allocated belongs to an object that the client has, and freeing
\* that frees it: the free, feed and dup functions of song.c, entity.c, output.c
\* and the others.
THEOREM NothingIsLeaked == Spec => []NothingLeaks
<1>1. Init => OwnedInv
  BY OwnedInit
<1>2. OwnedInv /\ [Next]_vars => OwnedInv'
  BY OwnedStep
<1>3. OwnedInv => NothingLeaks
  BY DEF OwnedInv
<1> QED BY <1>1, <1>2, <1>3, PTL DEF Spec

(***************************************************************************)
(* Texts.                                                                  *)
(***************************************************************************)
LEMMA ScanRest ==
    ASSUME NEW text \in Seq(STRING)
    PROVE  Scan(text).rest \in Seq(STRING)
<1>1. ASSUME NEW s \in Seq(STRING), s # <<>> PROVE Tail(s) \in Seq(STRING)
  BY <1>1, HeadTailProperties
<1>2. CASE IsNumeral(text)
  BY <1>1, <1>2 DEF Scan, IsNumeral
<1>3. CASE ~IsNumeral(text) /\ Begins(text, "-") /\ IsNumeral(Tail(text))
  <2>1. Tail(text) \in Seq(STRING)
    BY <1>1, <1>3 DEF Begins
  <2>2. Tail(Tail(text)) \in Seq(STRING)
    BY <1>1, <1>3, <2>1 DEF IsNumeral
  <2> QED BY <1>3, <2>2 DEF Scan
<1>4. CASE ~IsNumeral(text) /\ ~(Begins(text, "-") /\ IsNumeral(Tail(text)))
  BY <1>4 DEF Scan
<1> QED BY <1>2, <1>3, <1>4

\* k is so many thousandths, f so many ten thousandths, of the same hundredth
SameHundredth(k, f) ==
    \E h \in Nat : k \in 10 * h .. 10 * h + 9 /\ f \in 100 * h .. 100 * h + 99

\* The four digits of a fraction, and the three that "elapsed" makes of them.
LEMMA DigitsOfFraction ==
    ASSUME NEW digits \in Seq(0 .. 9)
    PROVE  /\ Fraction(digits) \in Nat /\ Fraction(digits) < 10000
           /\ ParseMs(digits) \in Nat /\ ParseMs(digits) < 1000
           /\ SameHundredth(ParseMs(digits), Fraction(digits))
<1> DEFINE d == digits \o <<0, 0, 0, 0>>
           n == Len(digits)
<1>1. n \in Nat /\ \A i \in 1 .. n : digits[i] \in 0 .. 9
  OBVIOUS
<1>2. \A i \in 1 .. 4 : d[i] = IF i <= n THEN digits[i] ELSE 0
  OBVIOUS
<1>3. Fraction(digits) = 1000 * d[1] + 100 * d[2] + 10 * d[3] + d[4]
  BY DEF Fraction
<1>4. digits = <<>> <=> n = 0
  OBVIOUS
<1> HIDE DEF d
<1>5. ParseMs(digits) = 100 * d[1] + 10 * d[2] + d[2]
  <2>1. CASE n = 0
    BY <1>2, <1>4, <2>1 DEF ParseMs
  <2>2. CASE n = 1
    <3>1. ParseMs(digits) = 100 * digits[1]
      BY <1>4, <2>2 DEF ParseMs
    <3>2. d[1] = digits[1] /\ d[1] \in 0 .. 9 /\ d[2] = 0
      BY <1>1, <1>2, <2>2
    <3> QED BY <3>1, <3>2
  <2>3. CASE n > 1
    <3>1. ParseMs(digits) = 100 * digits[1] + 10 * digits[2] + digits[2]
      BY <1>4, <2>3 DEF ParseMs
    <3>2. d[1] = digits[1] /\ d[2] = digits[2]
      BY <1>1, <1>2, <2>3
    <3> QED BY <3>1, <3>2
  <2> HIDE DEF n
  <2> QED BY <1>1, <2>1, <2>2, <2>3
<1>6. d[1] \in 0 .. 9 /\ d[2] \in 0 .. 9 /\ d[3] \in 0 .. 9 /\ d[4] \in 0 .. 9
  <2> HIDE DEF n
  <2> QED BY <1>1, <1>2
<1>7. PICK a \in 0 .. 9, b \in 0 .. 9, c \in 0 .. 9, e \in 0 .. 9 :
         d[1] = a /\ d[2] = b /\ d[3] = c /\ d[4] = e
  BY <1>6, Zenon
<1>8. Fraction(digits) = 1000 * a + 100 * b + 10 * c + e
  BY ONLY <1>3, <1>7
<1>9. ParseMs(digits) = 100 * a + 10 * b + b
  BY ONLY <1>5, <1>7
<1>10. /\ Fraction(digits) \in Nat /\ Fraction(digits) < 10000
       /\ ParseMs(digits) \in Nat /\ ParseMs(digits) < 1000
  BY ONLY <1>8, <1>9, a \in 0 .. 9, b \in 0 .. 9, c \in 0 .. 9, e \in 0 .. 9
<1>11. SameHundredth(ParseMs(digits), Fraction(digits))
  <2> DEFINE h == 10 * a + b
  <2>1. h \in Nat
    BY ONLY a \in 0 .. 9, b \in 0 .. 9
  <2>2. /\ ParseMs(digits) \in 10 * h .. 10 * h + 9
        /\ Fraction(digits) \in 100 * h .. 100 * h + 99
    BY ONLY <1>8, <1>9, a \in 0 .. 9, b \in 0 .. 9, c \in 0 .. 9, e \in 0 .. 9
  <2> QED BY <2>1, <2>2 DEF SameHundredth
<1> QED BY <1>10, <1>11

\* "elapsed" is so many seconds, and k milliseconds, which are the fraction but for
\* the third digit and the fourth
ElapsedHas(text, k) ==
    /\ k < 1000
    /\ ElapsedMs(text) = (1000 * Scan(text).value + k) % UnsignedRange
    /\ SameHundredth(k, ScanDecimal(text).fraction)

\* A decimal that is not negative: its fraction, and what "elapsed" makes of it.
LEMMA DecimalParts ==
    ASSUME NEW text \in Seq(STRING), Scan(text).value \in Nat
    PROVE  /\ ScanDecimal(text).seconds = Scan(text).value
           /\ ScanDecimal(text).fraction \in Nat /\ ScanDecimal(text).fraction < 10000
           /\ \E k \in Nat : ElapsedHas(text, k)
<1> DEFINE whole == Scan(text)
           split == Begins(whole.rest, ".") /\ IsNumeral(Tail(whole.rest))
           digits == Digits[whole.rest[2]]
           m == IF split THEN ParseMs(digits) ELSE 0
<1>1. split => digits \in Seq(0 .. 9)
  <2>1. whole.rest \in Seq(STRING)
    BY ScanRest
  <2>2. Begins(whole.rest, ".") /\ Tail(whole.rest) # <<>> =>
            Tail(whole.rest)[1] = whole.rest[2]
    <3> HIDE DEF whole
    <3> QED BY <2>1 DEF Begins
  <2> HIDE DEF whole
  <2> QED BY <2>2, TextsAssumption DEF IsNumeral
<1>2. ScanDecimal(text).fraction = IF split THEN Fraction(digits) ELSE 0
  BY DEF ScanDecimal
<1>3. ScanDecimal(text).seconds = whole.value
  BY DEF ScanDecimal
<1>4. ElapsedMs(text) = (whole.value * 1000 + m) % UnsignedRange
  BY DEF ElapsedMs
<1> HIDE DEF whole, split, digits
<1>5. /\ ScanDecimal(text).fraction \in Nat /\ ScanDecimal(text).fraction < 10000 /\ m \in Nat /\ m < 1000
      /\ SameHundredth(m, ScanDecimal(text).fraction)
  <2>1. SameHundredth(0, 0)
    <3>1. 0 \in 10 * 0 .. 10 * 0 + 9 /\ 0 \in 100 * 0 .. 100 * 0 + 99
      OBVIOUS
    <3> QED BY <3>1 DEF SameHundredth
  <2> QED BY <1>1, <1>2, <2>1, DigitsOfFraction
<1>6. whole.value * 1000 = 1000 * whole.value
  BY DEF whole
<1> HIDE DEF m
<1>7. /\ ElapsedMs(text) = (1000 * Scan(text).value + m) % UnsignedRange
      /\ ScanDecimal(text).seconds = Scan(text).value
  BY <1>3, <1>4, <1>6 DEF whole
<1>8. m \in Nat /\ ElapsedHas(text, m)
  BY <1>5, <1>7 DEF ElapsedHas
<1> QED BY <1>5, <1>7, <1>8

\* An empty text is no number and no date.
LEMMA EmptyText ==
    StrToUl(<<>>) = 0 /\ DurationMs(<<>>) = 0 /\ ~IsDate(<<>>)
<1>1. ~IsNumeral(<<>>) /\ ~Begins(<<>>, "-")
  BY DEF IsNumeral, Begins
<1>2. Scan(<<>>).value = 0
  BY <1>1 DEF Scan
<1>3. 0 % UnsignedRange = 0
  BY TextsAssumption
<1>4. Len(<<>>) = 0
  OBVIOUS
<1> QED BY <1>1, <1>2, <1>3, <1>4 DEF StrToUl, DurationMs, IsDate

(***************************************************************************)
(* Dates.                                                                  *)
(***************************************************************************)
LEMMA EpochIs == Timegm(AfterTheEpoch) = 1234567890
<1>1. /\ AfterTheEpoch[1] = 2009 /\ AfterTheEpoch[2] = 2 /\ AfterTheEpoch[3] = 13
      /\ AfterTheEpoch[4] = 23 /\ AfterTheEpoch[5] = 31 /\ AfterTheEpoch[6] = 30
      /\ DaysBefore[2] = 31
  BY DEF AfterTheEpoch, DaysBefore
<1>2. LeapDays(2009) = 487 /\ LeapDays(1970) = 477
  BY DEF LeapDays
<1> QED BY <1>1, <1>2, SMT DEF Timegm

\* What is added and taken away is the same, whatever the zone, if its standard
\* time is.
LEMMA DateIsTimegm ==
    ASSUME NEW text, IsDate(text), SameZone(BrokenDown(text)), Mktime(BrokenDown(text)) # -1
    PROVE  Date(text) = Timegm(BrokenDown(text))
<1> DEFINE t == BrokenDown(text)
<1>1. /\ t[1] \in Nat /\ t[2] \in 1 .. 12 /\ t[3] \in Nat /\ t[4] \in Nat /\ t[5] \in Nat
      /\ t[6] \in Nat
  BY DEF IsDate, BrokenDown, Bounds
<1> HIDE DEF t
<1>2. DaysBefore[t[2]] \in Int
  BY <1>1 DEF DaysBefore
<1>3. LeapDays(t[1]) \in Int /\ LeapDays(1970) \in Int
  BY <1>1 DEF LeapDays
<1>4. Timegm(t) \in Int
  BY <1>1, <1>2, <1>3 DEF Timegm
<1>5. /\ Date(text) = Timegm(t) - Zone(t) + (1234567890 - (1234567890 - Zone(AfterTheEpoch)))
      /\ Zone(t) = Zone(AfterTheEpoch)
  BY EpochIs DEF Date, TimegmEmulation, TimezoneOffset, Mktime, SameZone, t
<1>6. Timegm(t) - Zone(t) + (1234567890 - (1234567890 - Zone(t))) = Timegm(t)
  <2>1. Zone(t) \in Int
    BY <1>5, ZoneAssumption
  <2> QED BY <1>4, <2>1
<1> QED BY <1>5, <1>6 DEF t

(***************************************************************************)
(* What has been fed.                                                      *)
(***************************************************************************)
\* of the pairs of a name, one is the last
FedInv ==
    /\ fed \in Seq(Pair)
    /\ \A name : Fed(name) # {} => \E i \in Fed(name) : \A j \in Fed(name) : j <= i

LEMMA LastIsFed ==
    ASSUME FedInv, NEW name, Fed(name) # {}
    PROVE  \E i \in DOMAIN fed : fed[i].name = name /\ LastFed(name) = fed[i].value
<1> DEFINE i == CHOOSE i \in Fed(name) : \A j \in Fed(name) : j <= i
<1>1. i \in Fed(name)
  BY DEF FedInv
<1>2. LastFed(name) = fed[i].value
  BY DEF LastFed
<1> HIDE DEF i
<1> QED BY <1>1, <1>2 DEF Fed

\* A pair is the last of its name, and changes nothing of the others.
LEMMA FedGrows ==
    ASSUME FedInv, NEW p \in Pair, fed' = Append(fed, p)
    PROVE  /\ FedInv'
           /\ Fed(p.name)' # {} /\ LastFed(p.name)' = p.value
           /\ FedOnce(p.name)' => Fed(p.name) = {}
           /\ \A name : name # p.name =>
                 /\ Fed(name)' = Fed(name)
                 /\ FedOnce(name)' <=> FedOnce(name)
                 /\ Fed(name) # {} => LastFed(name)' = LastFed(name)
<1> DEFINE n == Len(fed)
<1>1. /\ fed \in Seq(Pair) /\ fed' \in Seq(Pair) /\ n \in Nat
      /\ DOMAIN fed = 1 .. n /\ DOMAIN fed' = 1 .. n + 1 /\ fed'[n + 1] = p
      /\ \A i \in 1 .. n : fed'[i] = fed[i]
  BY AppendProperties, LenProperties DEF FedInv
<1> HIDE DEF n
<1>2. \A name : Fed(name) \subseteq 1 .. n
  BY <1>1 DEF Fed
<1>3. Fed(p.name)' = Fed(p.name) \cup {n + 1}
  BY <1>1 DEF Fed
<1>4. \A name : name # p.name => Fed(name)' = Fed(name)
  BY <1>1 DEF Fed
<1>5. n + 1 \in Fed(p.name)' /\ \A j \in Fed(p.name)' : j <= n + 1
  BY <1>1, <1>2, <1>3
<1>6. \A i \in Fed(p.name)' : (\A j \in Fed(p.name)' : j <= i) => i = n + 1
  <2> TAKE i \in Fed(p.name)'
  <2>1. i \in Nat /\ i <= n + 1
    BY <1>1, <1>2, <1>3
  <2> QED BY <1>1, <1>5, <2>1
<1>7. LastFed(p.name)' = p.value
  <2> DEFINE i == CHOOSE i \in Fed(p.name)' : \A j \in Fed(p.name)' : j <= i
  <2>1. i = n + 1
    BY <1>5, <1>6
  <2>2. LastFed(p.name)' = fed'[i].value
    BY DEF LastFed
  <2> HIDE DEF i
  <2> QED BY <1>1, <2>1, <2>2
<1>8. FedOnce(p.name)' => Fed(p.name) = {}
  <2> SUFFICES ASSUME FedOnce(p.name)', NEW i \in Fed(p.name) PROVE FALSE
    OBVIOUS
  <2>1. i \in Fed(p.name)' /\ i \in 1 .. n
    BY <1>2, <1>3
  <2>2. i = n + 1
    BY <1>5, <2>1 DEF FedOnce
  <2> QED BY <1>1, <2>1, <2>2
<1>9. ASSUME NEW name, name # p.name
      PROVE  /\ FedOnce(name)' <=> FedOnce(name)
             /\ Fed(name) # {} => LastFed(name)' = LastFed(name)
  <2>1. Fed(name)' = Fed(name)
    BY <1>4, <1>9
  <2>2. FedOnce(name)' <=> FedOnce(name)
    BY <2>1 DEF FedOnce
  <2>3. ASSUME Fed(name) # {} PROVE LastFed(name)' = LastFed(name)
    <3> DEFINE i == CHOOSE i \in Fed(name) : \A j \in Fed(name) : j <= i
    <3>1. i \in Fed(name)
      BY <2>3 DEF FedInv
    <3>2. LastFed(name) = fed[i].value /\ LastFed(name)' = fed'[i].value
      BY <2>1 DEF LastFed
    <3> HIDE DEF i
    <3> QED BY <1>1, <1>2, <3>1, <3>2
  <2> QED BY <2>2, <2>3
<1>10. FedInv'
  <2>1. ASSUME NEW name, Fed(name)' # {}
        PROVE  \E i \in Fed(name)' : \A j \in Fed(name)' : j <= i
    <3>1. CASE name = p.name
      BY <1>5, <3>1
    <3>2. CASE name # p.name
      BY <1>4, <2>1, <3>2 DEF FedInv
    <3> QED BY <3>1, <3>2
  <2> QED BY <1>1, <2>1 DEF FedInv
<1> QED BY <1>4, <1>5, <1>7, <1>8, <1>9, <1>10

(***************************************************************************)
(* What feeding does to the numbers.                                       *)
(***************************************************************************)
\* A field is what has been set, or else what it was.
LEMMA SetsField ==
    ASSUME NEW o, Formed(o), NEW n, NEW field, field \in DOMAIN o.numbers,
           NEW q, q = Sets(o, n).object
    PROVE  /\ field \in DOMAIN q.numbers
           /\ q.numbers[field] = IF field \in DOMAIN n THEN n[field] ELSE o.numbers[field]
<1> DEFINE m == n ++ o.numbers
<1>1. q = [o EXCEPT !.numbers = m]
  BY DEF Sets, Same, Outcome
<1>2. /\ field \in DOMAIN m
      /\ m[field] = IF field \in DOMAIN n THEN n[field] ELSE o.numbers[field]
  BY DEF ++
<1> HIDE DEF m
<1>3. q.numbers = m
  BY <1>1 DEF Formed, Shaped
<1> QED BY <1>2, <1>3

\* Strings and lists are no numbers.
LEMMA NumbersStay ==
    ASSUME NEW o, Formed(o)
    PROVE  /\ Same(o).object.numbers = o.numbers
           /\ \A field, text, room : SetString(o, field, text, room).object.numbers = o.numbers
           /\ \A tag, text, room : AddTag(o, tag, text, room).object.numbers = o.numbers
<1>1. Same(o).object.numbers = o.numbers
  BY DEF Same, Outcome
<1>2. ASSUME NEW field, NEW text, NEW room
      PROVE  SetString(o, field, text, room).object.numbers = o.numbers
  <2> DEFINE new == IF room > 0 THEN <<text>> ELSE <<>>
             p   == [o EXCEPT !.strings[field] = new]
  <2>1. SetString(o, field, text, room).object = p
    BY DEF SetString, Outcome
  <2> HIDE DEF new
  <2>2. p.numbers = o.numbers
    BY DEF Formed, Shaped
  <2> QED BY <2>1, <2>2
<1>3. ASSUME NEW tag, NEW text, NEW room
      PROVE  AddTag(o, tag, text, room).object.numbers = o.numbers
  <2> DEFINE p == [o EXCEPT !.lists[tag] = Append(@, text)]
  <2>1. AddTag(o, tag, text, room).object \in {o, p}
    BY DEF AddTag, Same, Outcome
  <2>2. p.numbers = o.numbers
    BY DEF Formed, Shaped
  <2> HIDE DEF p
  <2> QED BY <2>1, <2>2
<1> QED BY <1>1, <1>2, <1>3

\* what is set by a range and by an audio format
LEMMA RangeFields ==
    ASSUME NEW range
    PROVE  /\ DOMAIN EndFields(range) = {"end", "end_ms"}
           /\ DOMAIN StartFields(range) = {"start", "start_ms"}
BY DEF EndFields, StartFields, Zeroes

LEMMA FormatFields ==
    ASSUME NEW text
    PROVE  DOMAIN AudioFormat(text) = {"rate", "bits", "channels"}
<1>1. \A rate, bits, channels :
        DOMAIN Format(rate, bits, channels) = {"rate", "bits", "channels"}
  BY DEF Format
<1> QED BY <1>1 DEF AudioFormat

Dates == {"song", "directory", "playlist"}

\* the fields that the times of a song are in
SongFields == {"duration", "duration_ms", "last_modified"}

\* What a pair tells a song about its durations and its date.
LEMMA SongIsTold ==
    ASSUME NEW o, Formed(o), o.kind = "song", SongFields \subseteq DOMAIN o.numbers,
           NEW p, NEW room, NEW q, q = FeedSong(o, p, room).object
    PROVE  /\ SongFields \subseteq DOMAIN q.numbers
           /\ q.numbers["duration"] =
                 IF p.name = "Time" /\ p.value # <<>> THEN StrToUl(p.value)
                 ELSE o.numbers["duration"]
           /\ q.numbers["duration_ms"] =
                 IF p.name = "duration" /\ p.value # <<>> THEN DurationMs(p.value)
                 ELSE o.numbers["duration_ms"]
           /\ q.numbers["last_modified"] =
                 IF p.name = "Last-Modified" /\ p.value # <<>> THEN Date(p.value)
                 ELSE o.numbers["last_modified"]
<1> DEFINE Told(r, field, v) == field \in DOMAIN r.object.numbers /\ r.object.numbers[field] = v
           Unchanged(r) == \A field \in SongFields : Told(r, field, o.numbers[field])
<1>1. \A r : r.object.numbers = o.numbers => Unchanged(r)
  OBVIOUS
<1>2. ASSUME NEW n, SongFields \cap DOMAIN n = {} PROVE Unchanged(Sets(o, n))
  BY <1>2, SetsField
<1>3. ASSUME NEW n, NEW f, DOMAIN n = {f}, NEW field \in SongFields
      PROVE  Told(Sets(o, n), field, IF field = f THEN n[f] ELSE o.numbers[field])
  <2> DEFINE r == Sets(o, n)
             v == r.object
  <2>1. field \in DOMAIN o.numbers /\ (field \in DOMAIN n <=> field = f)
    BY <1>3
  <2>2. v = Sets(o, n).object
    OBVIOUS
  <2> HIDE DEF v
  <2>3. /\ field \in DOMAIN v.numbers
        /\ v.numbers[field] = IF field \in DOMAIN n THEN n[field] ELSE o.numbers[field]
    BY <2>1, <2>2, SetsField
  <2> QED BY <2>1, <2>2, <2>3
<1>4. Unchanged(SetRange(o, p.value)) /\ Unchanged(SetFormat(o, p.value))
  <2>2. \A a, b : Unchanged(Sets(o, StartFields(a) ++ EndFields(b)))
    <3> TAKE a, b
    <3> DEFINE n == StartFields(a) ++ EndFields(b)
    <3>1. DOMAIN n = {"start", "start_ms", "end", "end_ms"}
      <4>1. DOMAIN StartFields(a) = {"start", "start_ms"} /\ DOMAIN EndFields(b) = {"end", "end_ms"}
        BY RangeFields
      <4>2. DOMAIN n = DOMAIN StartFields(a) \cup DOMAIN EndFields(b)
        BY DEF ++
      <4> HIDE DEF n
      <4> QED BY <4>1, <4>2
    <3>2. SongFields \cap DOMAIN n = {}
      <4> HIDE DEF n
      <4> QED BY <3>1 DEF SongFields
    <3> HIDE DEF Unchanged, n
    <3>3. Unchanged(Sets(o, n))
      BY <1>2, <3>2
    <3> QED BY <3>3 DEF n
  <2>3. Unchanged(Sets(o, AudioFormat(p.value)))
    <3> HIDE DEF Unchanged
    <3> QED BY <1>2, FormatFields DEF SongFields
  <2> HIDE DEF Unchanged
  <2> QED BY <1>1, <2>2, <2>3, NumbersStay DEF SetRange, SetFormat
<1>5. p.name \in SongPairs => p.name \notin TagNames
  BY ValuesAssumption
<1>6. CASE p.value = <<>>
  <2>1. FeedSong(o, p, room) = Same(o)
    BY <1>6 DEF FeedSong
  <2> QED BY <1>1, <1>6, <2>1, NumbersStay DEF SongFields
<1>7. CASE p.value # <<>> /\ p.name \in TagNames
  <2>1. FeedSong(o, p, room) = AddTag(o, p.name, p.value, room)
    BY <1>5, <1>7 DEF FeedSong, SongPairs
  <2>2. Unchanged(FeedSong(o, p, room))
    <3> HIDE DEF Unchanged
    <3> QED BY <1>1, <2>1, NumbersStay
  <2> QED BY <1>5, <1>7, <2>2 DEF SongFields, SongPairs
<1>8. CASE p.value # <<>> /\ p.name \notin TagNames /\ p.name \in {"Time", "duration", "Last-Modified"}
  <2> DEFINE time == [duration |-> StrToUl(p.value)]
             ms   == [duration_ms |-> DurationMs(p.value)]
             date == [last_modified |-> Date(p.value)]
  <2>1. /\ p.name = "Time" => FeedSong(o, p, room) = Sets(o, time)
        /\ p.name = "duration" => FeedSong(o, p, room) = Sets(o, ms)
        /\ p.name = "Last-Modified" => FeedSong(o, p, room) = Sets(o, date)
    BY <1>8 DEF FeedSong
  <2>2. /\ DOMAIN time = {"duration"} /\ time["duration"] = StrToUl(p.value)
        /\ DOMAIN ms = {"duration_ms"} /\ ms["duration_ms"] = DurationMs(p.value)
        /\ DOMAIN date = {"last_modified"} /\ date["last_modified"] = Date(p.value)
    OBVIOUS
  <2> HIDE DEF time, ms, date
  <2>3. CASE p.name = "Time"
    <3>1. \A field \in SongFields :
            Told(FeedSong(o, p, room), field,
                 IF field = "duration" THEN StrToUl(p.value) ELSE o.numbers[field])
      <4> HIDE DEF Told
      <4> QED BY <1>3, <2>1, <2>2, <2>3
    <3> QED BY <1>8, <2>3, <3>1 DEF SongFields
  <2>4. CASE p.name = "duration"
    <3>1. \A field \in SongFields :
            Told(FeedSong(o, p, room), field,
                 IF field = "duration_ms" THEN DurationMs(p.value) ELSE o.numbers[field])
      <4> HIDE DEF Told
      <4> QED BY <1>3, <2>1, <2>2, <2>4
    <3> QED BY <1>8, <2>4, <3>1 DEF SongFields
  <2>5. CASE p.name = "Last-Modified"
    <3>1. \A field \in SongFields :
            Told(FeedSong(o, p, room), field,
                 IF field = "last_modified" THEN Date(p.value) ELSE o.numbers[field])
      <4> HIDE DEF Told
      <4> QED BY <1>3, <2>1, <2>2, <2>5
    <3> QED BY <1>8, <2>5, <3>1 DEF SongFields
  <2> QED BY <1>8, <2>3, <2>4, <2>5
<1>9. CASE /\ p.value # <<>> /\ p.name \notin TagNames
           /\ p.name \notin {"Time", "duration", "Last-Modified"}
  <2> DEFINE n == StrToUl(p.value)
             date == Date(p.value)
  <2>1. /\ Unchanged(Sets(o, [added |-> date])) /\ Unchanged(Sets(o, [pos |-> n]))
        /\ Unchanged(Sets(o, [id |-> n])) /\ Unchanged(Sets(o, [prio |-> n]))
    <3> HIDE DEF Unchanged, n, date
    <3> QED BY <1>2 DEF SongFields
  <2>2. Unchanged(SetString(o, "real_uri", p.value, room)) /\ Unchanged(Same(o))
    <3> HIDE DEF Unchanged
    <3> QED BY <1>1, NumbersStay
  <2>3. Unchanged(FeedSong(o, p, room))
    <3> HIDE DEF Unchanged
    <3> QED BY <1>4, <1>9, <2>1, <2>2 DEF FeedSong
  <2> QED BY <1>9, <2>3 DEF SongFields
<1> QED BY <1>6, <1>7, <1>8, <1>9

LEMMA DatedIsTold ==
    ASSUME NEW o, Formed(o), "last_modified" \in DOMAIN o.numbers,
           NEW p, NEW q, q = FeedDated(o, p).object
    PROVE  /\ "last_modified" \in DOMAIN q.numbers
           /\ q.numbers["last_modified"] =
                 IF p.name = "Last-Modified" THEN Date(p.value) ELSE o.numbers["last_modified"]
<1> DEFINE date == [last_modified |-> Date(p.value)]
<1>1. CASE p.name = "Last-Modified"
  <2>1. q = Sets(o, date).object
    BY <1>1 DEF FeedDated
  <2>2. DOMAIN date = {"last_modified"} /\ date["last_modified"] = Date(p.value)
    OBVIOUS
  <2> HIDE DEF date
  <2> QED BY <1>1, <2>1, <2>2, SetsField
<1>2. CASE p.name # "Last-Modified"
  BY <1>2, NumbersStay DEF FeedDated
<1> QED BY <1>1, <1>2

\* the fields that the elapsed time is in
StatusFields == {"elapsed_time", "elapsed_ms"}

\* the milliseconds that "time" tells
SecondsToMs(seconds) == (seconds * 1000) % UnsignedRange

\* What a pair tells the status about the elapsed time.
LEMMA StatusIsTold ==
    ASSUME NEW o, Formed(o), o.kind = "status", StatusFields \subseteq DOMAIN o.numbers,
           NEW p, NEW room, NEW q, q = FeedStatus(o, p, room).object
    PROVE  /\ StatusFields \subseteq DOMAIN q.numbers
           /\ p.name = "time" =>
                 /\ q.numbers["elapsed_time"] = StrToUl(p.value)
                 /\ q.numbers["elapsed_ms"] =
                       IF o.numbers["elapsed_ms"] # 0 THEN o.numbers["elapsed_ms"]
                       ELSE SecondsToMs(StrToUl(p.value))
           /\ p.name = "elapsed" =>
                 /\ q.numbers["elapsed_ms"] = ElapsedMs(p.value)
                 /\ q.numbers["elapsed_time"] =
                       IF o.numbers["elapsed_time"] # 0 THEN o.numbers["elapsed_time"]
                       ELSE ElapsedMs(p.value) \div 1000
           /\ p.name \notin {"time", "elapsed"} =>
                 \A field \in StatusFields : q.numbers[field] = o.numbers[field]
<1> DEFINE Unchanged(r) == \A field \in StatusFields :
                             /\ field \in DOMAIN r.object.numbers
                             /\ r.object.numbers[field] = o.numbers[field]
<1>1. ASSUME NEW n, StatusFields \cap DOMAIN n = {} PROVE Unchanged(Sets(o, n))
  <2> TAKE field \in StatusFields
  <2> DEFINE v == Sets(o, n).object
  <2>1. field \in DOMAIN o.numbers /\ field \notin DOMAIN n
    BY <1>1
  <2>2. v = Sets(o, n).object
    OBVIOUS
  <2> HIDE DEF v
  <2>3. /\ field \in DOMAIN v.numbers
        /\ v.numbers[field] = IF field \in DOMAIN n THEN n[field] ELSE o.numbers[field]
    BY <2>1, <2>2, SetsField
  <2> QED BY <2>1, <2>2, <2>3
<1>2. ASSUME NEW name, name \notin StatusFields, NEW v PROVE Unchanged(Sets(o, One(name, v)))
  <2>1. StatusFields \cap DOMAIN One(name, v) = {}
    BY <1>2 DEF One
  <2> HIDE DEF Unchanged
  <2> QED BY <1>1, <2>1
<1>3. CASE p.name = "time"
  <2> DEFINE elapsed == Scan(p.value)
             seconds == elapsed.value % UnsignedRange
             n == [elapsed_time |-> seconds,
                   total_time |-> IF Begins(elapsed.rest, ":")
                                  THEN StrToUl(Tail(elapsed.rest)) ELSE o.numbers.total_time,
                   elapsed_ms |-> IF MillisecondsKnown(o) THEN o.numbers.elapsed_ms
                                  ELSE (seconds * 1000) % UnsignedRange]
  <2>1. q = Sets(o, n).object
    <3>1. FeedStatus(o, p, room) = FeedTime(o, p.value)
      BY <1>3 DEF FeedStatus, StatusUnsigned, StatusSigned
    <3> QED BY <3>1 DEF FeedTime
  <2>2. /\ "elapsed_time" \in DOMAIN n /\ n["elapsed_time"] = StrToUl(p.value)
        /\ "elapsed_ms" \in DOMAIN n
        /\ n["elapsed_ms"] = IF o.numbers["elapsed_ms"] # 0 THEN o.numbers["elapsed_ms"]
                             ELSE SecondsToMs(StrToUl(p.value))
    BY DEF StrToUl, SecondsToMs, MillisecondsKnown
  <2> HIDE DEF n
  <2>3. \A field \in StatusFields :
          /\ field \in DOMAIN q.numbers
          /\ field \in DOMAIN n => q.numbers[field] = n[field]
    BY <2>1, SetsField
  <2> QED BY <1>3, <2>2, <2>3 DEF StatusFields
<1>4. CASE p.name = "elapsed"
  <2> DEFINE n == [elapsed_ms |-> ElapsedMs(p.value),
                   elapsed_time |-> IF o.numbers.elapsed_time # 0 THEN o.numbers.elapsed_time
                                    ELSE ElapsedMs(p.value) \div 1000]
  <2>1. q = Sets(o, n).object
    <3>1. FeedStatus(o, p, room) = FeedElapsed(o, p.value)
      BY <1>4 DEF FeedStatus, StatusUnsigned, StatusSigned
    <3> QED BY <3>1 DEF FeedElapsed
  <2>2. /\ "elapsed_time" \in DOMAIN n /\ n["elapsed_ms"] = ElapsedMs(p.value)
        /\ "elapsed_ms" \in DOMAIN n
        /\ n["elapsed_time"] = IF o.numbers["elapsed_time"] # 0 THEN o.numbers["elapsed_time"]
                               ELSE ElapsedMs(p.value) \div 1000
    OBVIOUS
  <2> HIDE DEF n
  <2>3. \A field \in StatusFields :
          /\ field \in DOMAIN q.numbers
          /\ field \in DOMAIN n => q.numbers[field] = n[field]
    BY <2>1, SetsField
  <2> QED BY <1>4, <2>2, <2>3 DEF StatusFields
<1>5. CASE p.name \notin {"time", "elapsed"}
  <2>1. Unchanged(FeedStatus(o, p, room))
    <3>1. /\ p.name \in DOMAIN StatusUnsigned => StatusUnsigned[p.name] \notin StatusFields
          /\ p.name \in DOMAIN StatusSigned => StatusSigned[p.name] \notin StatusFields
      BY DEF StatusUnsigned, StatusSigned, StatusFields
    <3>2. /\ p.name \in DOMAIN StatusUnsigned =>
                Unchanged(Sets(o, One(StatusUnsigned[p.name], StrToUl(p.value))))
          /\ p.name \in DOMAIN StatusSigned =>
                Unchanged(Sets(o, One(StatusSigned[p.name], StrToL(p.value))))
      <4> HIDE DEF Unchanged
      <4> QED BY <1>2, <3>1
    <3>3. p.name \in {"repeat", "random", "single", "consume", "mixrampdb", "mixrampdelay"} =>
            \A v : Unchanged(Sets(o, One(p.name, v)))
      <4>1. p.name \in {"repeat", "random", "single", "consume", "mixrampdb", "mixrampdelay"} =>
              p.name \notin StatusFields
        BY DEF StatusFields
      <4> HIDE DEF Unchanged
      <4> QED BY <1>2, <4>1
    <3>4. \A v : Unchanged(Sets(o, [state |-> v]))
      <4> TAKE v
      <4>1. StatusFields \cap DOMAIN [state |-> v] = {}
        BY DEF StatusFields
      <4> HIDE DEF Unchanged
      <4> QED BY <1>1, <4>1
    <3>5. Unchanged(SetFormat(o, p.value))
      <4>1. StatusFields \cap DOMAIN AudioFormat(p.value) = {}
        BY FormatFields DEF StatusFields
      <4> HIDE DEF Unchanged
      <4> QED BY <1>1, <4>1 DEF SetFormat
    <3>6. Unchanged(Same(o)) /\ Unchanged(SetString(o, p.name, p.value, room))
      BY NumbersStay
    <3> HIDE DEF Unchanged
    <3> QED BY <1>5, <3>2, <3>3, <3>4, <3>5, <3>6 DEF FeedStatus
  <2> QED BY <1>5, <2>1
<1> QED BY <1>3, <1>4, <1>5

(***************************************************************************)
(* What an object begins with.                                             *)
(***************************************************************************)
\* there are the fields that its times are in, and no time is known
Fresh(o) ==
    /\ o.kind = "song" => /\ SongFields \subseteq DOMAIN o.numbers
                          /\ o.numbers["duration"] = 0 /\ o.numbers["duration_ms"] = 0
    /\ o.kind \in {"directory", "playlist"} => "last_modified" \in DOMAIN o.numbers
    /\ o.kind = "status" => /\ o.entity = FALSE /\ StatusFields \subseteq DOMAIN o.numbers
                            /\ \A field \in StatusFields : o.numbers[field] = 0

LEMMA NumbersAreFresh ==
    ASSUME NEW strings, NEW lists
    PROVE  /\ Fresh(New("song", strings, lists, SongNumbers))
           /\ \A kind \in {"directory", "playlist"} :
                  Fresh(New(kind, strings, lists, Zeroes({"last_modified"})))
           /\ Fresh(New("status", strings, lists, StatusNumbers))
           /\ \A kind, numbers : kind \notin Dates \cup {"status"} =>
                  Fresh(New(kind, strings, lists, numbers))
<1>1. \A kind, numbers : /\ New(kind, strings, lists, numbers).kind = kind
                         /\ New(kind, strings, lists, numbers).entity = FALSE
                         /\ New(kind, strings, lists, numbers).numbers = numbers
  BY DEF New
<1>2. /\ SongFields \subseteq DOMAIN SongNumbers
      /\ SongNumbers["duration"] = 0 /\ SongNumbers["duration_ms"] = 0
  BY DEF SongNumbers, Zeroes, SongFields
<1>3. "last_modified" \in DOMAIN Zeroes({"last_modified"})
  BY DEF Zeroes
<1>4. ASSUME NEW f, NEW g, NEW field, field \in DOMAIN f
      PROVE  field \in DOMAIN (f ++ g) /\ (f ++ g)[field] = f[field]
  BY <1>4 DEF ++
<1>5. \A field \in StatusFields : field \in DOMAIN StatusNumbers /\ StatusNumbers[field] = 0
  <2> TAKE field \in StatusFields
  <2> DEFINE zeroes == Zeroes({"repeat", "random", "single", "consume", "queue_version",
                               "queue_length", "state", "crossfade", "elapsed_time",
                               "elapsed_ms", "total_time", "kbit_rate", "update_id", "rate",
                               "bits", "channels"})
  <2>1. field \in DOMAIN zeroes /\ zeroes[field] = 0
    BY DEF Zeroes, StatusFields
  <2> HIDE DEF zeroes
  <2> QED BY <1>4, <2>1 DEF StatusNumbers, zeroes
<1> QED BY <1>1, <1>2, <1>3, <1>5 DEF Fresh, Dates

LEMMA BeginsFresh ==
    ASSUME NEW p, NEW room
    PROVE  /\ Fresh(BeginSong(p, room).object) /\ Fresh(BeginDirectory(p, room).object)
           /\ Fresh(BeginPlaylist(p, room).object) /\ Fresh(BeginOutput(p, room).object)
           /\ Fresh(BeginMount(p, room).object) /\ Fresh(BeginNeighbor(p, room).object)
           /\ Fresh(NewPartition(p, room).object) /\ Fresh(BeginMessage(p, room).object)
           /\ Fresh(BeginStatus(room).object) /\ Fresh(BeginStats(room).object)
<1>1. Fresh(None) /\ Nothing.object = None
  BY DEF Fresh, None, Nothing, Outcome
<1>2. \A o, n : Outcome(o, n).object = o
  BY DEF Outcome
<1>3. \A o : Fresh(o) => Fresh(NewNamed(o, room).object)
  BY <1>1, <1>2 DEF NewNamed
<1>4. \A kind \in {"output", "mount", "neighbor", "partition", "message", "stats"} :
          kind \notin Dates \cup {"status"}
  BY DEF Dates
<1>5. /\ Fresh(BeginSong(p, room).object) /\ Fresh(BeginDirectory(p, room).object)
      /\ Fresh(BeginPlaylist(p, room).object)
  BY <1>1, <1>3, NumbersAreFresh DEF BeginSong, BeginDirectory, BeginPlaylist
<1>6. /\ Fresh(BeginMount(p, room).object) /\ Fresh(BeginNeighbor(p, room).object)
      /\ Fresh(NewPartition(p, room).object) /\ Fresh(BeginMessage(p, room).object)
  BY <1>1, <1>3, <1>4, NumbersAreFresh DEF BeginMount, BeginNeighbor, NewPartition, BeginMessage
<1>7. /\ Fresh(BeginOutput(p, room).object) /\ Fresh(BeginStatus(room).object)
      /\ Fresh(BeginStats(room).object)
  <2> DEFINE output == New("output", [name |-> <<>>, plugin |-> <<>>],
                           [attributes |-> NoList],
                           [id |-> StrToUl(p.value), enabled |-> 0])
             stats == New("stats", <<>>, <<>>, StatsNumbers)
  <2>1. Fresh(output) /\ Fresh(stats)
    BY <1>4, NumbersAreFresh
  <2>2. /\ BeginOutput(p, room) \in {Nothing, Outcome(output, 1)}
        /\ BeginStats(room) \in {Nothing, Outcome(stats, 1)}
    BY DEF BeginOutput, BeginStats
  <2> HIDE DEF output, stats
  <2>3. Fresh(BeginOutput(p, room).object) /\ Fresh(BeginStats(room).object)
    BY <1>1, <1>2, <2>1, <2>2
  <2>4. Fresh(BeginStatus(room).object)
    BY <1>1, <1>2, NumbersAreFresh DEF BeginStatus
  <2> QED BY <2>3, <2>4
<1> QED BY <1>5, <1>6, <1>7

LEMMA EntityBeginsFresh ==
    ASSUME NEW p, NEW room
    PROVE  Fresh(BeginEntity(p, room).object)
<1> DEFINE inner == FeedFirst(p, room - 1).object
           e == [inner EXCEPT !.entity = TRUE]
           unknown == New("unknown", <<>>, <<>>, <<>>)
<1>1. Fresh(None) /\ BeginEntity(p, room).object \in {None, e}
  BY DEF BeginEntity, Fresh, None, Nothing, Outcome
<1>2. Fresh(inner)
  <2>1. unknown.kind \notin Dates \cup {"status"} /\ Outcome(unknown, 0).object = unknown
    BY DEF New, Dates, Outcome
  <2>2. Fresh(unknown)
    BY <2>1, NumbersAreFresh DEF Fresh, Dates
  <2> QED BY <2>1, <2>2, BeginsFresh DEF FeedFirst
<1>6. inner.kind # "status"
  <2>1. \A q \in {BeginSong(p, room - 1), BeginDirectory(p, room - 1), BeginPlaylist(p, room - 1)} :
            q.object.kind \in {"none", "song", "directory", "playlist"}
    BY DEF BeginSong, BeginDirectory, BeginPlaylist, NewNamed, New, Nothing, None, Outcome
  <2>2. Outcome(unknown, 0).object.kind = "unknown"
    BY DEF New, Outcome
  <2> QED BY <2>1, <2>2 DEF FeedFirst
<1>3. inner \in {unknown, None} \/ Formed(inner)
  <2>1. FeedFirst(p, room - 1) = Outcome(unknown, 0) \/ Makes(FeedFirst(p, room - 1))
    BY BeginKindMakes DEF FeedFirst
  <2> QED BY <2>1 DEF Makes, Outcome
<1>4. CASE inner # None
  <2>1. e.kind = inner.kind /\ e.numbers = inner.numbers
    BY <1>3, <1>4 DEF New, Formed, Shaped
  <2> HIDE DEF inner, e
  <2>2. Fresh(e)
    BY <1>2, <1>6, <2>1 DEF Fresh, inner
  <2> QED BY <1>1, <2>2
<1>5. CASE inner = None
  <2>1. BeginEntity(p, room) = Nothing
    BY <1>5 DEF BeginEntity, Exists, None
  <2> QED BY <1>1, <2>1 DEF Nothing, Outcome
<1> QED BY <1>4, <1>5

(***************************************************************************)
(* What the times of an object are.                                        *)
(***************************************************************************)
\* a duration that has been sent once, or never
DurationIs(name, field, v) ==
    FedOnce(name) => object.numbers[field] = IF Fed(name) = {} THEN 0 ELSE v

SongTold ==
    object.kind = "song" =>
        /\ SongFields \subseteq DOMAIN object.numbers
        /\ DurationIs("Time", "duration", StrToUl(LastFed("Time")))
        /\ DurationIs("duration", "duration_ms", DurationMs(LastFed("duration")))

DateTold ==
    object.kind \in Dates =>
        /\ "last_modified" \in DOMAIN object.numbers
        /\ (Fed("Last-Modified") # {} /\ IsDate(LastFed("Last-Modified"))) =>
               object.numbers["last_modified"] = Date(LastFed("Last-Modified"))

\* what "time" leaves, and what "elapsed", after the other
AfterTime(ms, time) ==
    /\ time = StrToUl(LastFed("time"))
    /\ \/ Fed("elapsed") = {} /\ ms = SecondsToMs(time)
       \/ Fed("elapsed") # {} /\ ms = IF ElapsedMs(LastFed("elapsed")) # 0
                                      THEN ElapsedMs(LastFed("elapsed")) ELSE SecondsToMs(time)

AfterElapsed(ms, time) ==
    /\ ms = ElapsedMs(LastFed("elapsed"))
    /\ \/ Fed("time") = {} /\ time = ms \div 1000
       \/ Fed("time") # {} /\ time = IF StrToUl(LastFed("time")) # 0
                                     THEN StrToUl(LastFed("time")) ELSE ms \div 1000

StatusTold ==
    object.kind = "status" =>
        /\ object.entity = FALSE /\ StatusFields \subseteq DOMAIN object.numbers
        /\ (FedOnce("time") /\ FedOnce("elapsed")) =>
              \/ /\ Fed("time") = {} /\ Fed("elapsed") = {}
                 /\ \A field \in StatusFields : object.numbers[field] = 0
              \/ /\ Fed("time") # {}
                 /\ AfterTime(object.numbers["elapsed_ms"], object.numbers["elapsed_time"])
              \/ /\ Fed("elapsed") # {}
                 /\ AfterElapsed(object.numbers["elapsed_ms"], object.numbers["elapsed_time"])

ToldInv == FedInv /\ SongTold /\ DateTold /\ StatusTold

\* Of an object that has just begun nothing has been told.
LEMMA FreshIsTold ==
    ASSUME Fresh(object'), fed' = <<>>
    PROVE  ToldInv'
<1>1. fed' \in Seq(Pair) /\ \A name : Fed(name)' = {}
  BY DEF Fed
<1>2. SongTold' /\ DateTold'
  BY <1>1 DEF Fresh, SongTold, DurationIs, DateTold, Dates, SongFields
<1>3. StatusTold'
  BY <1>1 DEF Fresh, StatusTold
<1> QED BY <1>1, <1>2, <1>3 DEF ToldInv, FedInv

\* A song is told by "Time", "duration" and "Last-Modified".
LEMMA SongHears ==
    ASSUME ToldInv, NEW p \in Pair, fed' = Append(fed, p),
           object.kind = "song", object'.kind = "song",
           SongFields \subseteq DOMAIN object'.numbers,
           object'.numbers["duration"] =
              IF p.name = "Time" /\ p.value # <<>> THEN StrToUl(p.value)
              ELSE object.numbers["duration"],
           object'.numbers["duration_ms"] =
              IF p.name = "duration" /\ p.value # <<>> THEN DurationMs(p.value)
              ELSE object.numbers["duration_ms"],
           object'.numbers["last_modified"] =
              IF p.name = "Last-Modified" /\ p.value # <<>> THEN Date(p.value)
              ELSE object.numbers["last_modified"]
    PROVE  ToldInv'
<1>1. FedInv /\ SongTold /\ DateTold
  BY DEF ToldInv
<1>2. /\ FedInv' /\ Fed(p.name)' # {} /\ LastFed(p.name)' = p.value
      /\ FedOnce(p.name)' => Fed(p.name) = {}
      /\ \A name : name # p.name =>
            /\ Fed(name)' = Fed(name)
            /\ FedOnce(name)' <=> FedOnce(name)
            /\ Fed(name) # {} => LastFed(name)' = LastFed(name)
  BY <1>1, FedGrows
<1>3. \A name : Fed(name) = {} => FedOnce(name)
  BY DEF FedOnce
<1>4. DurationIs("Time", "duration", StrToUl(LastFed("Time")))'
  <2>1. DurationIs("Time", "duration", StrToUl(LastFed("Time")))
    BY <1>1 DEF SongTold
  <2>2. CASE p.name = "Time"
    BY <1>2, <1>3, <2>1, <2>2, EmptyText DEF DurationIs
  <2>3. CASE p.name # "Time"
    BY <1>2, <2>1, <2>3 DEF DurationIs
  <2> QED BY <2>2, <2>3
<1>5. DurationIs("duration", "duration_ms", DurationMs(LastFed("duration")))'
  <2>1. DurationIs("duration", "duration_ms", DurationMs(LastFed("duration")))
    BY <1>1 DEF SongTold
  <2>2. CASE p.name = "duration"
    BY <1>2, <1>3, <2>1, <2>2, EmptyText DEF DurationIs
  <2>3. CASE p.name # "duration"
    BY <1>2, <2>1, <2>3 DEF DurationIs
  <2> QED BY <2>2, <2>3
<1>6. DateTold'
  <2>1. CASE p.name = "Last-Modified"
    BY <1>2, <2>1, EmptyText DEF DateTold, SongFields
  <2>2. CASE p.name # "Last-Modified"
    BY <1>1, <1>2, <2>2 DEF DateTold, SongFields, Dates
  <2> QED BY <2>1, <2>2
<1>7. SongTold' /\ StatusTold'
  BY <1>4, <1>5 DEF SongTold, StatusTold
<1> QED BY <1>2, <1>6, <1>7 DEF ToldInv

\* A directory and a playlist are told by "Last-Modified".
LEMMA DatedHears ==
    ASSUME ToldInv, NEW p \in Pair, fed' = Append(fed, p),
           object.kind \in {"directory", "playlist"}, object'.kind = object.kind,
           "last_modified" \in DOMAIN object'.numbers,
           object'.numbers["last_modified"] =
              IF p.name = "Last-Modified" THEN Date(p.value) ELSE object.numbers["last_modified"]
    PROVE  ToldInv'
<1>1. FedInv /\ DateTold
  BY DEF ToldInv
<1>2. /\ FedInv' /\ LastFed(p.name)' = p.value
      /\ \A name : name # p.name =>
            /\ Fed(name)' = Fed(name)
            /\ Fed(name) # {} => LastFed(name)' = LastFed(name)
  BY <1>1, FedGrows
<1>3. DateTold'
  <2>1. CASE p.name = "Last-Modified"
    BY <1>2, <2>1 DEF DateTold
  <2>2. CASE p.name # "Last-Modified"
    BY <1>1, <1>2, <2>2 DEF DateTold, Dates
  <2> QED BY <2>1, <2>2
<1>4. SongTold' /\ StatusTold'
  BY DEF SongTold, StatusTold
<1> QED BY <1>2, <1>3, <1>4 DEF ToldInv

\* The status is told by "time" and by "elapsed".
LEMMA StatusHears ==
    ASSUME ToldInv, NEW p \in Pair, fed' = Append(fed, p),
           object.kind = "status", object'.kind = "status", object'.entity = object.entity,
           StatusFields \subseteq DOMAIN object'.numbers,
           p.name = "time" =>
              /\ object'.numbers["elapsed_time"] = StrToUl(p.value)
              /\ object'.numbers["elapsed_ms"] =
                    IF object.numbers["elapsed_ms"] # 0 THEN object.numbers["elapsed_ms"]
                    ELSE SecondsToMs(StrToUl(p.value)),
           p.name = "elapsed" =>
              /\ object'.numbers["elapsed_ms"] = ElapsedMs(p.value)
              /\ object'.numbers["elapsed_time"] =
                    IF object.numbers["elapsed_time"] # 0 THEN object.numbers["elapsed_time"]
                    ELSE ElapsedMs(p.value) \div 1000,
           p.name \notin {"time", "elapsed"} =>
              \A field \in StatusFields : object'.numbers[field] = object.numbers[field]
    PROVE  ToldInv'
<1> DEFINE ms == object.numbers["elapsed_ms"]
           time == object.numbers["elapsed_time"]
<1>1. FedInv /\ StatusTold
  BY DEF ToldInv
<1>2. /\ FedInv' /\ Fed(p.name)' # {} /\ LastFed(p.name)' = p.value
      /\ FedOnce(p.name)' => Fed(p.name) = {}
      /\ \A name : name # p.name =>
            /\ Fed(name)' = Fed(name)
            /\ FedOnce(name)' <=> FedOnce(name)
            /\ Fed(name) # {} => LastFed(name)' = LastFed(name)
  BY <1>1, FedGrows
<1>3. \A name : Fed(name) = {} => FedOnce(name)
  BY DEF FedOnce
<1>4. ASSUME FedOnce("time")', FedOnce("elapsed")'
      PROVE  \/ /\ Fed("time")' = {} /\ Fed("elapsed")' = {}
                /\ \A field \in StatusFields : object'.numbers[field] = 0
             \/ /\ Fed("time")' # {}
                /\ AfterTime(object.numbers["elapsed_ms"], object.numbers["elapsed_time"])'
             \/ /\ Fed("elapsed")' # {}
                /\ AfterElapsed(object.numbers["elapsed_ms"], object.numbers["elapsed_time"])'
  <2>0. FedOnce("time") /\ FedOnce("elapsed")
    BY <1>2, <1>3, <1>4
  <2>1. \/ /\ Fed("time") = {} /\ Fed("elapsed") = {} /\ ms = 0 /\ time = 0
        \/ Fed("time") # {} /\ AfterTime(ms, time)
        \/ Fed("elapsed") # {} /\ AfterElapsed(ms, time)
    BY <1>1, <2>0 DEF StatusTold, StatusFields
  <2>2. CASE p.name = "time"
    <3>1. Fed("time") = {} /\ Fed("time")' # {} /\ LastFed("time")' = p.value
      BY <1>2, <1>4, <2>2
    <3>2. /\ Fed("elapsed")' = Fed("elapsed")
          /\ Fed("elapsed") # {} => LastFed("elapsed")' = LastFed("elapsed")
      BY <1>2, <2>2
    <3>3. ms = IF Fed("elapsed") = {} THEN 0 ELSE ElapsedMs(LastFed("elapsed"))
      BY <2>1, <3>1 DEF AfterElapsed
    <3>4. AfterTime(object.numbers["elapsed_ms"], object.numbers["elapsed_time"])'
      BY <2>2, <3>1, <3>2, <3>3 DEF AfterTime
    <3> QED BY <3>1, <3>4
  <2>3. CASE p.name = "elapsed"
    <3>1. Fed("elapsed") = {} /\ Fed("elapsed")' # {} /\ LastFed("elapsed")' = p.value
      BY <1>2, <1>4, <2>3
    <3>2. /\ Fed("time")' = Fed("time")
          /\ Fed("time") # {} => LastFed("time")' = LastFed("time")
      BY <1>2, <2>3
    <3>3. time = IF Fed("time") = {} THEN 0 ELSE StrToUl(LastFed("time"))
      BY <2>1, <3>1 DEF AfterTime
    <3>4. AfterElapsed(object.numbers["elapsed_ms"], object.numbers["elapsed_time"])'
      BY <2>3, <3>1, <3>2, <3>3 DEF AfterElapsed
    <3> QED BY <3>1, <3>4
  <2>4. CASE p.name \notin {"time", "elapsed"}
    <3>1. \A field \in StatusFields : object'.numbers[field] = object.numbers[field]
      BY <2>4
    <3>2. object'.numbers["elapsed_ms"] = ms /\ object'.numbers["elapsed_time"] = time
      BY <3>1 DEF StatusFields
    <3>3. /\ Fed("time")' = Fed("time") /\ Fed("elapsed")' = Fed("elapsed")
          /\ Fed("time") # {} => LastFed("time")' = LastFed("time")
          /\ Fed("elapsed") # {} => LastFed("elapsed")' = LastFed("elapsed")
      BY <1>2, <2>4
    <3>4. CASE Fed("time") = {} /\ Fed("elapsed") = {} /\ ms = 0 /\ time = 0
      BY <3>2, <3>3, <3>4 DEF StatusFields
    <3>5. CASE Fed("time") # {} /\ AfterTime(ms, time)
      BY <3>2, <3>3, <3>5 DEF AfterTime
    <3>6. CASE Fed("elapsed") # {} /\ AfterElapsed(ms, time)
      BY <3>2, <3>3, <3>6 DEF AfterElapsed
    <3> QED BY <2>1, <3>4, <3>5, <3>6
  <2> QED BY <2>2, <2>3, <2>4
<1>5. StatusTold'
  BY <1>1, <1>4 DEF StatusTold
<1>6. SongTold' /\ DateTold'
  BY DEF SongTold, DateTold, Dates
<1> QED BY <1>2, <1>5, <1>6 DEF ToldInv

LEMMA ToldStays ==
    ASSUME ToldInv, UNCHANGED <<object, fed>>
    PROVE  ToldInv'
<1>1. /\ object' = object /\ fed' = fed
      /\ \A name : Fed(name)' = Fed(name) /\ (FedOnce(name)' <=> FedOnce(name))
                   /\ LastFed(name)' = LastFed(name)
  BY DEF Fed, FedOnce, LastFed
<1>2. FedInv'
  BY <1>1 DEF ToldInv, FedInv
<1>3. SongTold' /\ DateTold'
  BY <1>1 DEF ToldInv, SongTold, DurationIs, DateTold
<1>4. StatusTold'
  BY <1>1 DEF ToldInv, StatusTold, AfterTime, AfterElapsed
<1> QED BY <1>2, <1>3, <1>4 DEF ToldInv

LEMMA FeedTells ==
    ASSUME OwnedInv, ToldInv, NEW p \in Pair, NEW room,
           object.kind \in Kinds \cup {"unknown"}, Feed(p, room)
    PROVE  ToldInv'
<1> DEFINE taken == Takes(object, p, room)
<1>1. Formed(object) /\ object.kind # "partition"
  BY DEF Feed, OwnedInv, Owned, Exists, None
<1>2. CASE UNCHANGED <<object, fed>>
  BY <1>2, ToldStays
<1>3. CASE object' = taken.object /\ fed' = Append(fed, p)
  <2>1. object'.kind = object.kind
    BY <1>1, <1>3, TakesKeeps DEF Keeps
  <2>2. CASE object.kind = "song"
    <3>1. taken = FeedSong(object, p, room)
      BY <2>2 DEF Takes, FeedEntity
    <3> HIDE DEF taken
    <3>2. SongFields \subseteq DOMAIN object.numbers
      BY <2>2 DEF ToldInv, SongTold
    <3> QED BY <1>1, <1>3, <2>1, <2>2, <3>1, <3>2, SongIsTold, SongHears
  <2>3. CASE object.kind \in {"directory", "playlist"}
    <3>1. taken = FeedDated(object, p)
      BY <2>3 DEF Takes, FeedEntity
    <3> HIDE DEF taken
    <3>2. "last_modified" \in DOMAIN object.numbers
      BY <2>3 DEF ToldInv, DateTold, Dates
    <3> QED BY <1>1, <1>3, <2>1, <2>3, <3>1, <3>2, DatedIsTold, DatedHears
  <2>4. CASE object.kind = "status"
    <3>1. taken = IF object.entity THEN Same(object) ELSE FeedStatus(object, p, room)
      BY <2>4 DEF Takes, FeedEntity
    <3> HIDE DEF taken
    <3>2. object.entity = FALSE /\ StatusFields \subseteq DOMAIN object.numbers
      BY <2>4 DEF ToldInv, StatusTold
    <3>3. object'.entity = object.entity
      BY <1>1, <1>3, TakesKeeps DEF Keeps, taken
    <3> QED BY <1>1, <1>3, <2>1, <2>4, <3>1, <3>2, <3>3, StatusIsTold, StatusHears
  <2>5. CASE object.kind \notin Dates \cup {"status"}
    <3> HIDE DEF taken
    <3>1. FedInv'
      BY <1>3, FedGrows DEF ToldInv
    <3>2. SongTold' /\ DateTold' /\ StatusTold'
      BY <2>1, <2>5 DEF SongTold, DateTold, StatusTold, Dates
    <3> QED BY <3>1, <3>2 DEF ToldInv
  <2> QED BY <2>2, <2>3, <2>4, <2>5 DEF Dates
<1> QED BY <1>2, <1>3 DEF Feed

LEMMA SetPosTells ==
    ASSUME OwnedInv, ToldInv, NEW p \in Pair, SetPos(p)
    PROVE  ToldInv'
<1> DEFINE numbers == [object.numbers EXCEPT !["pos"] = StrToUl(p.value)]
<1>1. /\ Formed(object) /\ object.kind = "song" /\ p.name = "Pos" /\ fed' = Append(fed, p)
      /\ object' = [object EXCEPT !.numbers = numbers]
  BY DEF SetPos, OwnedInv, Owned, None
<1>2. SongFields \subseteq DOMAIN object.numbers
  BY <1>1 DEF ToldInv, SongTold
<1>3. \A field \in SongFields : /\ field \in DOMAIN numbers
                                /\ numbers[field] = object.numbers[field]
  BY <1>2 DEF SongFields
<1> HIDE DEF numbers
<1>4. object'.kind = "song" /\ object'.numbers = numbers
  BY <1>1 DEF Formed, Shaped
<1>5. /\ SongFields \subseteq DOMAIN object'.numbers
      /\ object'.numbers["duration"] = object.numbers["duration"]
      /\ object'.numbers["duration_ms"] = object.numbers["duration_ms"]
      /\ object'.numbers["last_modified"] = object.numbers["last_modified"]
  BY <1>3, <1>4 DEF SongFields
<1> QED BY <1>1, <1>4, <1>5, SongHears

LEMMA ToldStep == OwnedInv /\ ToldInv /\ [Next]_vars => ToldInv'
<1> SUFFICES ASSUME OwnedInv, ToldInv, [Next]_vars PROVE ToldInv'
  OBVIOUS
<1>1. ASSUME NEW kind \in Kinds, NEW p, NEW room, BeginKind(kind, p, room)
      PROVE  ToldInv'
  <2>1. PICK outcome : Fresh(outcome.object) /\ Begin(outcome)
    <3>1. kind \in {"song", "directory", "playlist", "output", "mount", "neighbor",
                    "partition", "message", "status", "stats"}
      BY DEF Kinds, First
    <3> QED BY <1>1, <3>1, BeginsFresh DEF BeginKind
  <2> QED BY <2>1, FreshIsTold DEF Begin
<1>2. ASSUME NEW p, NEW room, Begin(BeginEntity(p, room))
      PROVE  ToldInv'
  BY <1>2, EntityBeginsFresh, FreshIsTold DEF Begin
<1>3. ASSUME NEW kind \in Kinds \cup {"unknown"}, NEW p \in Pair, NEW room,
             object.kind = kind, Feed(p, room)
      PROVE  ToldInv'
  BY <1>3, FeedTells
<1>4. ASSUME NEW p \in Pair, SetPos(p)
      PROVE  ToldInv'
  BY <1>4, SetPosTells
<1>5. CASE \/ \E room \in 0 .. MaxRoom : Duplicate(room)
           \/ FreeCopy
           \/ UNCHANGED vars
  BY <1>5, ToldStays DEF Duplicate, Dup, FreeCopy, vars
<1>6. CASE FreeObject
  <2>1. object' = None /\ fed' = <<>>
    BY <1>6 DEF FreeObject
  <2>2. Fresh(None)
    BY DEF Fresh, None
  <2> QED BY <2>1, <2>2, FreshIsTold
<1>7. \A kind \in Kinds : \A p \in Pairs[kind] : p \in Pair
  BY ValuesAssumption
<1>8. "song" \in Kinds
  BY DEF Kinds, First
<1> QED BY <1>1, <1>2, <1>3, <1>4, <1>5, <1>6, <1>7, <1>8 DEF Next

(***************************************************************************)
(* What the getters return.                                                *)
(***************************************************************************)
\* A number that is less than the width of an unsigned is stored as it is.
LEMMA Fits ==
    /\ MaxDuration \in Nat
    /\ \A n \in Nat : n < 1000 * (MaxDuration + 1) => n % UnsignedRange = n
<1>1. MaxDuration \in Nat
  BY SMT DEF MaxDuration
<1>2. UnsignedRange \in Nat /\ UnsignedRange > 1000 * (MaxDuration + 1)
  BY TextsAssumption, ValuesAssumption
<1>3. ASSUME NEW n \in Nat, n < 1000 * (MaxDuration + 1) PROVE n % UnsignedRange = n
  BY <1>1, <1>2, <1>3
<1> QED BY <1>1, <1>3

\* A text that has been fed, and its parts.
LEMMA LastIsText ==
    ASSUME FedInv, NEW name, Fed(name) # {}, Scan(LastFed(name)).value \in 0 .. MaxDuration
    PROVE  LET text == LastFed(name)
           IN  /\ Scan(text).value \in Nat /\ Scan(text).value <= MaxDuration
               /\ StrToUl(text) = Scan(text).value
               /\ ScanDecimal(text).seconds = Scan(text).value
               /\ ScanDecimal(text).fraction \in Nat /\ ScanDecimal(text).fraction < 10000
               /\ \E k \in Nat : ElapsedHas(text, k)
<1> DEFINE text == LastFed(name)
<1>1. text \in Seq(STRING)
  <2>1. PICK i \in DOMAIN fed : text = fed[i].value
    BY LastIsFed
  <2>2. fed[i] \in Pair
    BY <2>1 DEF FedInv
  <2> QED BY <2>1, <2>2 DEF Pair
<1> HIDE DEF text
<1>2. Scan(text).value \in Nat /\ Scan(text).value <= MaxDuration
  BY Fits DEF text
<1>3. Scan(text).value < 1000 * (MaxDuration + 1)
  BY <1>2, Fits
<1>4. StrToUl(text) = Scan(text).value
  BY <1>2, <1>3, Fits DEF StrToUl
<1> QED BY <1>1, <1>2, <1>4, DecimalParts DEF text

LEMMA DurationMsIs ==
    ASSUME FedInv, NEW name, Fed(name) # {}, Scan(LastFed(name)).value \in 0 .. MaxDuration,
           DurationMs(LastFed(name)) # 0
    PROVE  LET d == ScanDecimal(LastFed(name))
           IN  /\ DurationMs(LastFed(name)) = 1000 * d.seconds + (d.fraction + 5) \div 10
               /\ DurationMs(LastFed(name)) <= 1000 * MaxDuration
<1> DEFINE d == ScanDecimal(LastFed(name))
<1>1. /\ DurationMs(LastFed(name)) = Milliseconds(d)
      /\ d.seconds < MaxDuration \/ (d.seconds = MaxDuration /\ d.fraction = 0)
  BY DEF DurationMs
<1>2. /\ d.seconds \in Nat /\ d.fraction \in Nat /\ d.fraction < 10000
  BY LastIsText
<1> HIDE DEF d
<1>3. DurationMs(LastFed(name)) = 1000 * d.seconds + (d.fraction + 5) \div 10
  BY <1>1 DEF Milliseconds
<1>4. (d.fraction + 5) \div 10 <= 1000 /\ (d.fraction = 0 => (d.fraction + 5) \div 10 = 0)
      /\ (d.fraction + 5) \div 10 \in Nat
  BY <1>2
<1>5. DurationMs(LastFed(name)) <= 1000 * MaxDuration
  BY <1>1, <1>2, <1>3, <1>4, Fits
<1> QED BY <1>3, <1>5 DEF d

LEMMA ToldDurations == ToldInv => DurationsAgree
<1> SUFFICES ASSUME ToldInv, object.kind = "song", TimesSent("Time", "duration")
             PROVE  Abs(1000 * GetDuration(object) - GetDurationMs(object)) <= 500
  BY DEF DurationsAgree
<1> DEFINE t == object.numbers["duration"]
           m == object.numbers["duration_ms"]
<1>1. /\ FedInv /\ FedOnce("Time") /\ FedOnce("duration")
      /\ DurationIs("Time", "duration", StrToUl(LastFed("Time")))
      /\ DurationIs("duration", "duration_ms", DurationMs(LastFed("duration")))
  BY DEF ToldInv, SongTold, TimesSent
<1>2. /\ Fed("Time") # {} => Scan(LastFed("Time")).value \in 0 .. MaxDuration
      /\ Fed("duration") # {} => Scan(LastFed("duration")).value \in 0 .. MaxDuration
  BY DEF TimesSent
<1>3. /\ t \in Nat /\ t <= MaxDuration
      /\ t # 0 => Fed("Time") # {} /\ Scan(LastFed("Time")).value = t
  BY <1>1, <1>2, LastIsText, Fits DEF DurationIs
<1>4. m # 0 =>
        LET d == ScanDecimal(LastFed("duration"))
        IN  /\ Fed("duration") # {} /\ d.seconds \in Nat /\ d.fraction \in Nat
            /\ d.fraction < 10000 /\ m <= 1000 * MaxDuration
            /\ m = 1000 * d.seconds + (d.fraction + 5) \div 10
  BY <1>1, <1>2, LastIsText, DurationMsIs DEF DurationIs
<1>5. m \in Nat /\ m <= 1000 * MaxDuration
  BY <1>4, Fits
<1>6. /\ GetDuration(object) = IF t > 0 THEN t ELSE ((m + 500) % UnsignedRange) \div 1000
      /\ GetDurationMs(object) = IF m > 0 THEN m ELSE (t * 1000) % UnsignedRange
  BY DEF GetDuration, GetDurationMs
<1>7. (t # 0 /\ m # 0) =>
        LET d == ScanDecimal(LastFed("duration"))
        IN  Abs(10000 * (t - d.seconds) - d.fraction) <= 5000
  BY <1>3, <1>4 DEF TimesSent
<1> HIDE DEF t, m
<1>8. (m + 500) % UnsignedRange = m + 500 /\ (t * 1000) % UnsignedRange = t * 1000
  BY <1>3, <1>5, Fits
<1>9. CASE t = 0 /\ m = 0
  BY <1>6, <1>8, <1>9 DEF Abs
<1>10. CASE t = 0 /\ m # 0
  <2>1. GetDuration(object) = (m + 500) \div 1000 /\ GetDurationMs(object) = m
    BY <1>5, <1>6, <1>8, <1>10
  <2> QED BY <1>5, <2>1 DEF Abs
<1>11. CASE t # 0 /\ m = 0
  <2>1. GetDuration(object) = t /\ GetDurationMs(object) = t * 1000
    BY <1>3, <1>6, <1>8, <1>11
  <2> QED BY <1>3, <2>1 DEF Abs
<1>12. CASE t # 0 /\ m # 0
  <2>1. GetDuration(object) = t /\ GetDurationMs(object) = m
    BY <1>3, <1>5, <1>6, <1>12
  <2>2. PICK s \in Nat, f \in Nat :
           m = 1000 * s + (f + 5) \div 10 /\ Abs(10000 * (t - s) - f) <= 5000
    BY <1>4, <1>7, <1>12
  <2>3. 10 * ((f + 5) \div 10) <= f + 5 /\ f + 5 < 10 * ((f + 5) \div 10) + 10
        /\ (f + 5) \div 10 \in Nat
    BY <2>2
  <2> QED BY <1>3, <2>1, <2>2, <2>3 DEF Abs
<1> QED BY <1>9, <1>10, <1>11, <1>12

\* "elapsed" is e milliseconds: s seconds and k more, where f ten thousandths have been
\* sent; and t, if "time" has been sent, is that rounded
ElapsedIs(t, e, s, k, f) ==
    /\ e = 1000 * s + k /\ SameHundredth(k, f)
    /\ Fed("time") # {} => Abs(10000 * (t - s) - f) <= 5000

\* Then e is, to the hundredth, what has been sent.
LEMMA HundredthIsTold ==
    ASSUME NEW s \in Nat, NEW k \in Nat, NEW f \in Nat, NEW e, NEW t,
           ElapsedIs(t, e, s, k, f)
    PROVE  /\ e \div 10 = (1000 * s + f \div 10) \div 10
           /\ 10 * k - f < 100 /\ f - 10 * k < 100
<1>1. PICK h \in Nat : k \in 10 * h .. 10 * h + 9 /\ f \in 100 * h .. 100 * h + 99
  BY DEF ElapsedIs, SameHundredth
<1>2. e = 1000 * s + k
  BY DEF ElapsedIs
<1>3. f \div 10 \in 10 * h .. 10 * h + 9
  BY <1>1
<1>4. \A n \in 10 * h .. 10 * h + 9 : (1000 * s + n) \div 10 = 100 * s + h
  OBVIOUS
<1> QED BY <1>1, <1>2, <1>3, <1>4

LEMMA ToldElapsed == ToldInv => ElapsedToTheHundredth
<1> SUFFICES ASSUME ToldInv, object.kind = "status", TimesSent("time", "elapsed")
             PROVE  /\ Fed("elapsed") # {} =>
                          object.numbers["elapsed_ms"] \div 10 = SentMs(LastFed("elapsed")) \div 10
                    /\ Abs(1000 * object.numbers["elapsed_time"]
                           - object.numbers["elapsed_ms"]) < 1000
  BY DEF ElapsedToTheHundredth
<1> DEFINE time == object.numbers["elapsed_time"]
           ms == object.numbers["elapsed_ms"]
           t == StrToUl(LastFed("time"))
           e == ElapsedMs(LastFed("elapsed"))
<1>1. /\ FedInv
      /\ \/ Fed("time") = {} /\ Fed("elapsed") = {} /\ time = 0 /\ ms = 0
         \/ Fed("time") # {} /\ AfterTime(ms, time)
         \/ Fed("elapsed") # {} /\ AfterElapsed(ms, time)
  BY DEF ToldInv, StatusTold, StatusFields, TimesSent
<1>2. /\ Fed("time") # {} => Scan(LastFed("time")).value \in 0 .. MaxDuration
      /\ Fed("elapsed") # {} => Scan(LastFed("elapsed")).value \in 0 .. MaxDuration
  BY DEF TimesSent
<1>3. Fed("time") # {} =>
        /\ t \in Nat /\ SecondsToMs(t) = 1000 * t /\ Scan(LastFed("time")).value = t
  <2> HAVE Fed("time") # {}
  <2>1. t \in Nat /\ t <= MaxDuration /\ Scan(LastFed("time")).value = t
    BY <1>1, <1>2, LastIsText
  <2> HIDE DEF t
  <2> QED BY <2>1, Fits DEF SecondsToMs
<1>4. ASSUME Fed("elapsed") # {}
      PROVE  \E s \in Nat, k \in Nat, f \in Nat :
                ElapsedIs(t, e, s, k, f) /\ SentMs(LastFed("elapsed")) = 1000 * s + f \div 10
  <2> DEFINE s == Scan(LastFed("elapsed")).value
             f == ScanDecimal(LastFed("elapsed")).fraction
  <2>1. /\ s \in Nat /\ s <= MaxDuration /\ f \in Nat
        /\ ScanDecimal(LastFed("elapsed")).seconds = s
    BY <1>1, <1>2, <1>4, LastIsText
  <2>2. PICK k \in Nat : ElapsedHas(LastFed("elapsed"), k)
    BY <1>1, <1>2, <1>4, LastIsText
  <2>3. Fed("time") # {} => Abs(10000 * (t - s) - f) <= 5000
    BY <1>3, <1>4, <2>1 DEF TimesSent
  <2>4. k < 1000 /\ e = (1000 * s + k) % UnsignedRange /\ SameHundredth(k, f)
    BY <2>2 DEF ElapsedHas
  <2>7. SentMs(LastFed("elapsed")) = 1000 * s + f \div 10
    BY <2>1 DEF SentMs
  <2> HIDE DEF s, f, t, e
  <2>5. e = 1000 * s + k
    BY <2>1, <2>4, Fits
  <2>6. ElapsedIs(t, e, s, k, f)
    BY <2>3, <2>4, <2>5 DEF ElapsedIs
  <2> QED BY <2>1, <2>6, <2>7
<1>9. Fed("elapsed") # {} => e \div 10 = SentMs(LastFed("elapsed")) \div 10
  <2> HIDE DEF t, e
  <2> QED BY <1>4, HundredthIsTold
<1>5. Fed("elapsed") # {} /\ Fed("time") # {} /\ e = 0 => t = 0
  <2> SUFFICES ASSUME Fed("elapsed") # {}, Fed("time") # {}, e = 0 PROVE t = 0
    OBVIOUS
  <2> HIDE DEF t, e
  <2>0. PICK s \in Nat, k \in Nat, f \in Nat : ElapsedIs(t, e, s, k, f)
    BY <1>4
  <2>1. /\ e = 1000 * s + k /\ 10 * k - f < 100 /\ f - 10 * k < 100
        /\ Abs(10000 * (t - s) - f) <= 5000
    BY <2>0, HundredthIsTold DEF ElapsedIs
  <2>2. s = 0 /\ k = 0 /\ t \in Nat
    BY <1>3, <2>1
  <2> QED BY <2>1, <2>2 DEF Abs
<1>6. CASE Fed("time") = {} /\ Fed("elapsed") = {} /\ time = 0 /\ ms = 0
  <2> HIDE DEF time, ms
  <2>1. Abs(1000 * time - ms) < 1000
    BY <1>6 DEF Abs
  <2> QED BY <1>6, <2>1 DEF time, ms
<1>7. CASE Fed("time") # {} /\ AfterTime(ms, time)
  <2>1. time = t /\ ms = IF Fed("elapsed") = {} \/ e = 0 THEN SecondsToMs(t) ELSE e
    BY <1>7 DEF AfterTime
  <2> HIDE DEF time, ms, t, e
  <2>2. Fed("elapsed") # {} => ms = e
    BY <1>3, <1>5, <1>7, <2>1
  <2>3. CASE Fed("elapsed") = {}
    BY <1>3, <1>7, <2>1, <2>3 DEF Abs, time, ms
  <2>4. CASE Fed("elapsed") # {}
    <3>0. PICK s \in Nat, k \in Nat, f \in Nat : ElapsedIs(t, e, s, k, f)
      BY <1>4, <2>4
    <3>1. /\ e = 1000 * s + k /\ 10 * k - f < 100 /\ f - 10 * k < 100
          /\ Abs(10000 * (t - s) - f) <= 5000
      BY <1>7, <3>0, HundredthIsTold DEF ElapsedIs
    <3>2. Abs(1000 * time - ms) < 1000
      BY <1>3, <1>7, <2>1, <2>2, <2>4, <3>1 DEF Abs
    <3> QED BY <1>9, <2>2, <2>4, <3>2 DEF time, ms
  <2> QED BY <2>3, <2>4
<1>8. CASE Fed("elapsed") # {} /\ AfterElapsed(ms, time)
  <2>1. ms = e /\ time = IF Fed("time") = {} \/ t = 0 THEN e \div 1000 ELSE t
    BY <1>8 DEF AfterElapsed
  <2> HIDE DEF time, ms, t, e
  <2>0. PICK s \in Nat, k \in Nat, f \in Nat : ElapsedIs(t, e, s, k, f)
    BY <1>4, <1>8
  <2>2. /\ e = 1000 * s + k /\ 10 * k - f < 100 /\ f - 10 * k < 100
        /\ Fed("time") # {} => Abs(10000 * (t - s) - f) <= 5000
    BY <2>0, HundredthIsTold DEF ElapsedIs
  <2>3. CASE Fed("time") = {} \/ t = 0
    <3>1. e \in Nat
      BY <2>2
    <3>2. Abs(1000 * time - ms) < 1000
      BY <2>1, <2>3, <3>1 DEF Abs
    <3> QED BY <1>8, <1>9, <2>1, <3>2 DEF time, ms
  <2>4. CASE Fed("time") # {} /\ t # 0
    <3>1. Abs(1000 * time - ms) < 1000
      BY <1>3, <2>1, <2>2, <2>4 DEF Abs
    <3> QED BY <1>8, <1>9, <2>1, <3>1 DEF time, ms
  <2> QED BY <2>3, <2>4
<1> QED BY <1>1, <1>6, <1>7, <1>8

LEMMA ToldDates == ToldInv => DatesAreUtc
BY DateIsTimegm DEF ToldInv, DateTold, DatesAreUtc, Dates

LEMMA ToldAlways == Spec => []ToldInv
<1>1. Init => OwnedInv
  BY OwnedInit
<1>2. OwnedInv /\ [Next]_vars => OwnedInv'
  BY OwnedStep
<1>3. Init => ToldInv
  <2> SUFFICES ASSUME Init PROVE ToldInv
    OBVIOUS
  <2>1. object.kind = "none" /\ fed = <<>>
    BY DEF Init, None
  <2> QED BY <2>1 DEF ToldInv, FedInv, Fed, SongTold, DateTold, StatusTold, Dates
<1>4. OwnedInv /\ ToldInv /\ [Next]_vars => ToldInv'
  BY ToldStep
<1> QED BY <1>1, <1>2, <1>3, <1>4, PTL DEF Spec

\* Whichever of "Time" and "duration" has been sent, and in whichever order, the two
\* getters of a song's duration agree to the half second by which the server rounds:
\* mpd_song_get_duration() and mpd_song_get_duration_ms() in song.c.
THEOREM DurationsAlwaysAgree == Spec => []DurationsAgree
BY ToldAlways, ToldDurations, PTL

\* Whichever of "time" and "elapsed" comes first, the status has the time that was
\* sent, to the hundredth of a second, and seconds that agree with it:
\* mpd_status_feed() in status.c.
THEOREM ElapsedIsAlwaysWhatWasSent == Spec => []ElapsedToTheHundredth
BY ToldAlways, ToldElapsed, PTL

\* A date is the same time of day in UTC in whatever zone the client is, if its
\* standard time then was what it was on the day in 2009 that the code looks at,
\* and if mktime() can tell it from an error: iso8601_datetime_parse() in iso8601.c.
THEOREM DatesAreAlwaysUtc == Spec => []DatesAreUtc
BY ToldAlways, ToldDates, PTL
=============================================================================
