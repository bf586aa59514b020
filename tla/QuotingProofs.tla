---------------------------- MODULE QuotingProofs ----------------------------
(***************************************************************************)
(* Proofs about Quoting, for any arguments, any number of them and memory  *)
(* of any size: nothing is written behind the end, MPD reads the arguments *)
(* that were passed, and nothing is refused that could have been sent.     *)
(***************************************************************************)
EXTENDS Quoting, SequenceTheorems, FiniteSetTheorems, WellFoundedInduction, TLAPS

(***************************************************************************)
(* Recursive functions.  A function on 0 .. n that takes one step after    *)
(* another exists, whatever the steps are.                                 *)
(***************************************************************************)
\* A set of numbers that is not empty has a least element.
LEMMA HasLeast ==
    ASSUME NEW S \in SUBSET Nat, S # {}
    PROVE  \E n \in S : \A m \in S : n <= m
<1>1. PICK n \in S : \A m \in S : ~(<<m, n>> \in OpToRel(<, Nat))
  BY NatLessThanWellFounded, WFMin
<1>2. \A m \in S : n <= m
  <2> TAKE m \in S
  <2>1. m \in Nat /\ n \in Nat
    OBVIOUS
  <2>2. ~(m < n)
    <3> SUFFICES ASSUME m < n PROVE FALSE
      OBVIOUS
    <3>1. <<m, n>> \in {ss \in Nat \X Nat : ss[1] < ss[2]}
      BY <2>1
    <3> QED BY <1>1, <3>1, Zenon DEF OpToRel
  <2> QED BY <2>1, <2>2
<1> QED BY <1>2

Stages(g, n, first, step) ==
    g[0] = first /\ \A i \in 1 .. n : g[i] = step[i][g[i - 1]]

LEMMA StagesExist ==
    ASSUME NEW S, NEW first \in S, NEW n \in Nat, NEW step \in [1 .. n -> [S -> S]]
    PROVE  \E g \in [0 .. n -> S] : Stages(g, n, first, step)
<1> DEFINE Reached(k) == \E g \in [0 .. k -> S] : Stages(g, k, first, step)
           missing == {k \in 0 .. n : ~Reached(k)}
<1>1. SUFFICES missing = {}
  <2>1. n \in 0 .. n
    OBVIOUS
  <2> QED BY <1>1, <2>1
<1> SUFFICES ASSUME missing # {} PROVE FALSE
  OBVIOUS
<1>2. PICK k \in missing : \A m \in missing : k <= m
  <2>1. missing \in SUBSET Nat
    OBVIOUS
  <2> HIDE DEF missing
  <2> QED BY <2>1, HasLeast
<1>3. k \in 0 .. n /\ ~Reached(k)
  BY <1>2
<1>4. k # 0
  <2> DEFINE g == [i \in 0 .. 0 |-> first]
  <2>1. g \in [0 .. 0 -> S] /\ Stages(g, 0, first, step)
    BY DEF Stages
  <2> QED BY <1>3, <2>1
<1>5. k - 1 \in 0 .. n /\ k \in 1 .. n /\ ~(k <= k - 1)
  BY <1>3, <1>4
<1>6. Reached(k - 1)
  <2> HIDE DEF Reached
  <2> QED BY <1>2, <1>5
<1>7. PICK g \in [0 .. k - 1 -> S] : Stages(g, k - 1, first, step)
  BY <1>6
<1> DEFINE h == [i \in 0 .. k |-> IF i = k THEN step[k][g[k - 1]] ELSE g[i]]
<1>8. step[k][g[k - 1]] \in S
  BY <1>5
<1>9. h \in [0 .. k -> S]
  BY <1>5, <1>8
<1>10. Stages(h, k, first, step)
  <2>1. h[0] = first
    BY <1>5, <1>7 DEF Stages
  <2>2. ASSUME NEW i \in 1 .. k PROVE h[i] = step[i][h[i - 1]]
    <3>1. CASE i = k
      BY <1>5, <3>1
    <3>2. CASE i # k
      <4>1. i \in 1 .. k - 1 /\ i \in 0 .. k /\ i - 1 \in 0 .. k /\ i - 1 # k
        BY <1>5, <3>2
      <4>2. h[i] = g[i] /\ h[i - 1] = g[i - 1]
        BY <3>2, <4>1
      <4> HIDE DEF h
      <4> QED BY <1>7, <4>1, <4>2 DEF Stages
    <3> QED BY <3>1, <3>2
  <2> HIDE DEF h
  <2> QED BY <2>1, <2>2 DEF Stages
<1> QED BY <1>3, <1>9, <1>10

\* The stages are determined by the steps.
LEMMA StagesAgree ==
    ASSUME NEW n \in Nat, NEW first, NEW step, NEW g, NEW h, NEW other,
           Stages(g, n, first, step), Stages(h, n, first, other),
           \A i \in 1 .. n : step[i] = other[i]
    PROVE  \A i \in 0 .. n : g[i] = h[i]
<1> DEFINE apart == {k \in 0 .. n : g[k] # h[k]}
<1> SUFFICES ASSUME apart # {} PROVE FALSE
  OBVIOUS
<1>1. PICK k \in apart : \A m \in apart : k <= m
  <2>1. apart \in SUBSET Nat
    OBVIOUS
  <2> HIDE DEF apart
  <2> QED BY <2>1, HasLeast
<1>2. k # 0
  BY DEF Stages
<1>3. k - 1 \in 0 .. n /\ k \in 1 .. n /\ ~(k <= k - 1)
  BY <1>2
<1>4. g[k - 1] = h[k - 1]
  BY <1>1, <1>3
<1> QED BY <1>3, <1>4 DEF Stages

(***************************************************************************)
(* MPD's reader                                                            *)
(***************************************************************************)
Written == Characters \cup {"NUL"}

Reader ==
    [mode : {"outside", "quoted", "escaped"}, text : Seq(Written), texts : Seq(Seq(Written))]

LEMMA StartIsReader == Outside(<<>>) \in Reader
BY EmptySeq DEF Outside, Reader

LEMMA ReadType ==
    ASSUME NEW r \in Reader, NEW char \in Written
    PROVE  Read(r, char) \in Reader
<1>1. /\ Append(r.text, char) \in Seq(Written)
      /\ Append(r.texts, r.text) \in Seq(Seq(Written))
      /\ <<>> \in Seq(Written)
  BY AppendProperties, EmptySeq DEF Reader
<1> QED BY <1>1 DEF Read, Reader

Reading(request) ==
    [i \in 1 .. Len(request) |-> [r \in Reader |-> Read(r, request[i])]]

\* The reader begins outside of quotes and takes one character after the other.
LEMMA ReadingsAre ==
    ASSUME NEW request \in Seq(Written)
    PROVE  /\ Readings(request) \in [0 .. Len(request) -> Reader]
           /\ Stages(Readings(request), Len(request), Outside(<<>>), Reading(request))
           /\ \A i \in 1 .. Len(request) :
                Readings(request)[i] = Read(Readings(request)[i - 1], request[i])
<1> DEFINE n == Len(request)
           Is(g) == g = [i \in 0 .. n |-> IF i = 0 THEN Outside(<<>>)
                                          ELSE Read(g[i - 1], request[i])]
<1>1. n \in Nat /\ \A i \in 1 .. n : request[i] \in Written
  BY LenProperties, ElementOfSeq
<1>2. Reading(request) \in [1 .. n -> [Reader -> Reader]]
  BY <1>1, ReadType DEF Reading
<1>3. PICK g \in [0 .. n -> Reader] : Stages(g, n, Outside(<<>>), Reading(request))
  <2> HIDE DEF n
  <2> QED BY <1>1, <1>2, StartIsReader, StagesExist
<1>4. \A i \in 1 .. n : i - 1 \in 0 .. n /\ g[i - 1] \in Reader
  BY <1>1
<1>5. \A i \in 1 .. n : g[i] = Read(g[i - 1], request[i])
  <2>1. \A i \in 1 .. n : g[i] = Reading(request)[i][g[i - 1]]
    BY <1>3 DEF Stages
  <2>2. \A i \in 1 .. n : \A r \in Reader : Reading(request)[i][r] = Read(r, request[i])
    BY DEF Reading
  <2> QED BY <1>4, <2>1, <2>2
<1>6. Is(g)
  <2>1. g = [i \in 0 .. n |-> g[i]]
    BY <1>3
  <2>2. \A i \in 0 .. n : g[i] = IF i = 0 THEN Outside(<<>>) ELSE Read(g[i - 1], request[i])
    BY <1>1, <1>3, <1>5 DEF Stages
  <2> QED BY <2>1, <2>2
<1>7. \A h : Is(h) => h = g
  <2> SUFFICES ASSUME NEW h, Is(h) PROVE h = g
    OBVIOUS
  <2>1. h[0] = Outside(<<>>)
    BY <1>1
  <2>2. \A i \in 1 .. n : h[i] = Read(h[i - 1], request[i])
    BY <1>1
  <2> DEFINE apart == {i \in 0 .. n : h[i] # g[i]}
  <2>3. apart = {}
    <3> SUFFICES ASSUME apart # {} PROVE FALSE
      OBVIOUS
    <3>1. PICK k \in apart : \A m \in apart : k <= m
      <4>1. apart \in SUBSET Nat
        BY <1>1
      <4> HIDE DEF apart
      <4> QED BY <4>1, HasLeast
    <3>2. k # 0
      BY <1>3, <2>1 DEF Stages
    <3>3. k - 1 \in 0 .. n /\ k \in 1 .. n /\ ~(k <= k - 1)
      BY <1>1, <3>2
    <3>4. g[k - 1] = h[k - 1]
      BY <3>1, <3>3
    <3> QED BY <1>5, <2>2, <3>3, <3>4
  <2>4. h = [i \in 0 .. n |-> h[i]] /\ g = [i \in 0 .. n |-> g[i]]
    BY <1>3
  <2> QED BY <2>3, <2>4
<1>8. Readings(request) = CHOOSE h : Is(h)
  BY DEF Readings
<1>9. Readings(request) = g
  <2> HIDE DEF Is
  <2> QED BY <1>6, <1>7, <1>8
<1> QED BY <1>3, <1>5, <1>9

\* Behind the characters that were read, the reader goes on.
LEMMA ReadingGoesOn ==
    ASSUME NEW s \in Seq(Written), NEW t \in Seq(Written)
    PROVE  /\ s \o t \in Seq(Written) /\ Len(s \o t) = Len(s) + Len(t)
           /\ Readings(s \o t)[Len(s)] = ServerReads(s)
           /\ \A i \in 1 .. Len(t) :
                Readings(s \o t)[Len(s) + i] = Read(Readings(s \o t)[Len(s) + i - 1], t[i])
<1> DEFINE both == s \o t
           n == Len(s)
<1>1. /\ both \in Seq(Written) /\ Len(both) = n + Len(t) /\ n \in Nat /\ Len(t) \in Nat
      /\ \A i \in 1 .. n + Len(t) : both[i] = IF i <= n THEN s[i] ELSE t[i - n]
  BY ConcatProperties, LenProperties
<1> HIDE DEF both
<1>2. Stages(Readings(s), n, Outside(<<>>), Reading(s))
  BY ReadingsAre
<1>3. Stages(Readings(both), n, Outside(<<>>), Reading(both))
  <2>1. Stages(Readings(both), n + Len(t), Outside(<<>>), Reading(both))
    BY <1>1, ReadingsAre
  <2> QED BY <1>1, <2>1 DEF Stages
<1>4. \A i \in 1 .. n : Reading(s)[i] = Reading(both)[i]
  BY <1>1 DEF Reading
<1>5. \A i \in 0 .. n : Readings(s)[i] = Readings(both)[i]
  <2> HIDE DEF n
  <2> QED BY <1>1, <1>2, <1>3, <1>4, StagesAgree
<1>6. \A i \in 1 .. Len(t) : Readings(both)[n + i] = Read(Readings(both)[n + i - 1], t[i])
  <2> TAKE i \in 1 .. Len(t)
  <2>1. n + i \in 1 .. n + Len(t) /\ ~(n + i <= n) /\ (n + i) - n = i
    BY <1>1
  <2>2. Readings(both)[n + i] = Read(Readings(both)[n + i - 1], both[n + i])
    <3>1. \A j \in 1 .. Len(both) : Readings(both)[j] = Read(Readings(both)[j - 1], both[j])
      BY <1>1, ReadingsAre
    <3> QED BY <1>1, <2>1, <3>1
  <2> QED BY <1>1, <2>1, <2>2
<1> QED BY <1>1, <1>5, <1>6 DEF both, ServerReads

LEMMA ReadsOne ==
    ASSUME NEW s \in Seq(Written), NEW char \in Written
    PROVE  ServerReads(s \o <<char>>) = Read(ServerReads(s), char)
<1> DEFINE t == <<char>>
<1>1. t \in Seq(Written) /\ Len(t) = 1 /\ t[1] = char
  OBVIOUS
<1> HIDE DEF t
<1>2. Len(s) \in Nat
  BY LenProperties
<1>3. /\ Len(s \o t) = Len(s) + 1 /\ Readings(s \o t)[Len(s)] = ServerReads(s)
      /\ Readings(s \o t)[Len(s) + 1] = Read(Readings(s \o t)[Len(s) + 1 - 1], t[1])
  <2>1. /\ Len(s \o t) = Len(s) + Len(t) /\ Readings(s \o t)[Len(s)] = ServerReads(s)
        /\ \A i \in 1 .. Len(t) :
             Readings(s \o t)[Len(s) + i] = Read(Readings(s \o t)[Len(s) + i - 1], t[i])
    BY <1>1, ReadingGoesOn
  <2> QED BY <1>1, <2>1
<1>4. Readings(s \o t)[Len(s) + 1] = Read(ServerReads(s), t[1])
  BY <1>2, <1>3
<1> QED BY <1>1, <1>3, <1>4 DEF ServerReads, t

\* Outside of quotes, all but a quote is passed over.
LEMMA ReadsPast ==
    ASSUME NEW s \in Seq(Written), NEW t \in Seq(Written),
           \A i \in 1 .. Len(t) : t[i] # "quote", ServerReads(s).mode = "outside"
    PROVE  ServerReads(s \o t) = ServerReads(s)
<1> DEFINE g == Readings(s \o t)
           n == Len(s)
           changed == {i \in 0 .. Len(t) : g[n + i] # ServerReads(s)}
<1>1. /\ n \in Nat /\ Len(t) \in Nat /\ Len(s \o t) = n + Len(t) /\ g[n] = ServerReads(s)
      /\ \A i \in 1 .. Len(t) : g[n + i] = Read(g[n + i - 1], t[i])
  BY ReadingGoesOn, LenProperties
<1> HIDE DEF g
<1>2. changed = {}
  <2> SUFFICES ASSUME changed # {} PROVE FALSE
    OBVIOUS
  <2>1. PICK k \in changed : \A m \in changed : k <= m
    <3>1. changed \in SUBSET Nat
      BY <1>1
    <3> HIDE DEF changed
    <3> QED BY <3>1, HasLeast
  <2>2. k # 0
    BY <1>1
  <2>3. k - 1 \in 0 .. Len(t) /\ k \in 1 .. Len(t) /\ ~(k <= k - 1) /\ n + (k - 1) = n + k - 1
    BY <1>1, <2>2
  <2>4. g[n + k - 1] = ServerReads(s)
    BY <2>1, <2>3
  <2>5. g[n + k] = Read(ServerReads(s), t[k])
    BY <1>1, <2>3, <2>4
  <2>6. Read(ServerReads(s), t[k]) = ServerReads(s)
    BY <2>3 DEF Read
  <2> QED BY <2>1, <2>5, <2>6
<1>3. Len(t) \in 0 .. Len(t)
  BY <1>1
<1>4. g[n + Len(t)] = ServerReads(s)
  BY <1>2, <1>3
<1> QED BY <1>1, <1>4 DEF ServerReads, g

(***************************************************************************)
(* The functions that allocate memory                                      *)
(***************************************************************************)
Plain == {"plain", "space"}

LEMMA Texts ==
    /\ Word \in Seq(Plain) /\ Len(Word) = 1
    /\ Space \in Seq(Plain) /\ Len(Space) = 1
    /\ Space \o Word \o Space \in Seq(Plain) /\ Len(Space \o Word \o Space) = 3
    /\ Word \o Word \o Space \in Seq(Plain) /\ Len(Word \o Word \o Space) = 3
<1>1. Word \in Seq(Plain) /\ Len(Word) = 1 /\ Space \in Seq(Plain) /\ Len(Space) = 1
  BY DEF Word, Space, Plain
<1>2. /\ Space \o Word \in Seq(Plain) /\ Len(Space \o Word) = 2
      /\ Word \o Word \in Seq(Plain) /\ Len(Word \o Word) = 2
  BY <1>1, ConcatProperties
<1> QED BY <1>1, <1>2, ConcatProperties

FormType == [before : Seq(Seq(Plain)), after : Seq(Plain), size : Nat]

\* What is written besides the arguments, with quotes and terminator.
Fixed(f) ==
    Len(f.before[1]) + (IF Len(f.before) = 2 THEN Len(f.before[2]) ELSE 0)
    + 2 * Len(f.before) + Len(f.after) + 1

\* No function allocates too little for what it writes unchecked.
LEMMA EnoughAllocated ==
    ASSUME NEW f \in Forms
    PROVE  /\ f \in FormType /\ Len(f.before) \in {1, 2} /\ f # NoForm
           /\ Fixed(f) <= f.size
<1>1. CASE f = AddConstraint
  BY <1>1, Texts, EmptySeq DEF AddConstraint, Form, NoForm, Fixed, FormType
<1>2. CASE f = AddExpression
  BY <1>2, Texts, EmptySeq DEF AddExpression, Form, NoForm, Fixed, FormType
<1>3. CASE f = SearchAddPlaylist
  BY <1>3, Texts, EmptySeq DEF SearchAddPlaylist, Form, NoForm, Fixed, FormType
<1>4. CASE f = PlaylistSearch
  BY <1>4, Texts, EmptySeq DEF PlaylistSearch, Form, NoForm, Fixed, FormType
<1>5. CASE f = StickerSearch
  BY <1>5, Texts, EmptySeq DEF StickerSearch, Form, NoForm, Fixed, FormType
<1> QED BY <1>1, <1>2, <1>3, <1>4, <1>5 DEF Forms

(***************************************************************************)
(* How long a request becomes                                              *)
(***************************************************************************)
\* how many of the first k characters are escaped
Specials(text, k) == Cardinality({i \in 1 .. k : text[i] \in Special})

LEMMA SpecialsAre ==
    ASSUME NEW text \in Text, NEW k \in 0 .. Len(text)
    PROVE  /\ Specials(text, k) \in Nat
           /\ Specials(text, k) <= Specials(text, Len(text))
           /\ k = 0 => Specials(text, k) = 0
           /\ k # 0 => Specials(text, k) =
                Specials(text, k - 1) + IF text[k] \in Special THEN 1 ELSE 0
<1> DEFINE Set(n) == {i \in 1 .. n : text[i] \in Special}
<1>1. Len(text) \in Nat
  BY LenProperties DEF Text
<1>2. ASSUME NEW n \in 0 .. Len(text)
      PROVE  IsFiniteSet(Set(n)) /\ Cardinality(Set(n)) \in Nat
  <2>1. IsFiniteSet(1 .. n)
    BY <1>1, FS_Interval
  <2>2. Set(n) \in SUBSET (1 .. n)
    OBVIOUS
  <2> HIDE DEF Set
  <2>3. IsFiniteSet(Set(n))
    BY <2>1, <2>2, FS_Subset
  <2> QED BY <2>3, FS_CardinalityType
<1>3. Set(k) \in SUBSET Set(Len(text))
  BY <1>1
<1>4. Cardinality(Set(k)) <= Cardinality(Set(Len(text)))
  <2>1. IsFiniteSet(Set(Len(text)))
    BY <1>1, <1>2
  <2> HIDE DEF Set
  <2> QED BY <1>3, <2>1, FS_Subset
<1>5. k = 0 => Cardinality(Set(k)) = 0
  <2>1. k = 0 => Set(k) = {}
    OBVIOUS
  <2> HIDE DEF Set
  <2> QED BY <2>1, FS_EmptySet
<1>6. ASSUME k # 0
      PROVE  Cardinality(Set(k)) =
                Cardinality(Set(k - 1)) + IF text[k] \in Special THEN 1 ELSE 0
  <2>1. k - 1 \in 0 .. Len(text) /\ k \notin Set(k - 1)
    BY <1>1, <1>6
  <2>2. IsFiniteSet(Set(k - 1)) /\ Cardinality(Set(k - 1)) \in Nat
    BY <1>2, <2>1
  <2>3. Set(k) = IF text[k] \in Special THEN Set(k - 1) \cup {k} ELSE Set(k - 1)
    BY <1>1, <1>6
  <2>4. Cardinality(Set(k - 1) \cup {k}) = Cardinality(Set(k - 1)) + 1
    <3> HIDE DEF Set
    <3> QED BY <2>1, <2>2, FS_AddElement
  <2> HIDE DEF Set
  <2> QED BY <2>2, <2>3, <2>4
<1>7. Specials(text, k) = Cardinality(Set(k))
  BY DEF Specials
<1>8. Specials(text, k - 1) = Cardinality(Set(k - 1))
  BY DEF Specials
<1>9. Specials(text, Len(text)) = Cardinality(Set(Len(text)))
  BY DEF Specials
<1> HIDE DEF Set
<1> QED BY <1>2, <1>4, <1>5, <1>6, <1>7, <1>8, <1>9

LEMMA QuotedIs ==
    ASSUME NEW text \in Text
    PROVE  /\ Quoted(text) = 2 + Len(text) + Specials(text, Len(text))
           /\ Quoted(text) \in Nat
<1>1. Len(text) \in Nat /\ Len(text) \in 0 .. Len(text)
  BY LenProperties DEF Text
<1>2. Specials(text, Len(text)) \in Nat
  BY <1>1, SpecialsAre
<1> QED BY <1>1, <1>2 DEF Quoted, Specials

\* The length of a request grows with each argument, by what it becomes.
LEMMA LengthsAre ==
    ASSUME NEW texts \in Seq(Arguments)
    PROVE  /\ Lengths(texts) \in [0 .. Len(texts) -> Nat]
           /\ Lengths(texts)[0] = Len(Command)
           /\ \A i \in 1 .. Len(texts) :
                Lengths(texts)[i] = Lengths(texts)[i - 1] + 1 + Quoted(texts[i])
<1> DEFINE n == Len(texts)
           Is(g) == g = [i \in 0 .. n |-> IF i = 0 THEN Len(Command)
                                          ELSE g[i - 1] + 1 + Quoted(texts[i])]
           step == [i \in 1 .. n |-> [k \in Nat |-> k + 1 + Quoted(texts[i])]]
<1>1. n \in Nat /\ \A i \in 1 .. n : texts[i] \in Text
  BY QuotingAssumption, LenProperties, ElementOfSeq
<1>2. Len(Command) \in Nat
  BY QuotingAssumption, LenProperties
<1>3. \A i \in 1 .. n : Quoted(texts[i]) \in Nat
  BY <1>1, QuotedIs
<1>4. step \in [1 .. n -> [Nat -> Nat]]
  BY <1>3
<1>5. PICK g \in [0 .. n -> Nat] : Stages(g, n, Len(Command), step)
  <2> HIDE DEF n, step
  <2> QED BY <1>1, <1>2, <1>4, StagesExist
<1>6. \A i \in 1 .. n : g[i] = g[i - 1] + 1 + Quoted(texts[i])
  <2>1. \A i \in 1 .. n : i - 1 \in 0 .. n /\ g[i - 1] \in Nat
    BY <1>1
  <2>2. \A i \in 1 .. n : \A k \in Nat : step[i][k] = k + 1 + Quoted(texts[i])
    OBVIOUS
  <2> HIDE DEF step
  <2> QED BY <1>5, <2>1, <2>2 DEF Stages
<1>7. Is(g)
  <2>1. g = [i \in 0 .. n |-> g[i]]
    BY <1>5
  <2>2. \A i \in 0 .. n :
          g[i] = IF i = 0 THEN Len(Command) ELSE g[i - 1] + 1 + Quoted(texts[i])
    BY <1>1, <1>5, <1>6 DEF Stages
  <2> QED BY <2>1, <2>2
<1>8. \A h : Is(h) => h = g
  <2> SUFFICES ASSUME NEW h, Is(h) PROVE h = g
    OBVIOUS
  <2>1. h[0] = Len(Command) /\ \A i \in 1 .. n : h[i] = h[i - 1] + 1 + Quoted(texts[i])
    BY <1>1
  <2> DEFINE apart == {i \in 0 .. n : h[i] # g[i]}
  <2>2. apart = {}
    <3> SUFFICES ASSUME apart # {} PROVE FALSE
      OBVIOUS
    <3>1. PICK k \in apart : \A m \in apart : k <= m
      <4>1. apart \in SUBSET Nat
        BY <1>1
      <4> HIDE DEF apart
      <4> QED BY <4>1, HasLeast
    <3>2. k # 0
      BY <1>5, <2>1 DEF Stages
    <3>3. k - 1 \in 0 .. n /\ k \in 1 .. n /\ ~(k <= k - 1)
      BY <1>1, <3>2
    <3>4. g[k - 1] = h[k - 1]
      BY <3>1, <3>3
    <3> QED BY <1>6, <2>1, <3>3, <3>4
  <2>3. h = [i \in 0 .. n |-> h[i]] /\ g = [i \in 0 .. n |-> g[i]]
    BY <1>5
  <2> QED BY <2>2, <2>3
<1>9. Lengths(texts) = CHOOSE h : Is(h)
  BY DEF Lengths
<1>10. Lengths(texts) = g
  <2> HIDE DEF Is
  <2> QED BY <1>7, <1>8, <1>9
<1> QED BY <1>5, <1>6, <1>10 DEF Stages

LEMMA LengthsGrow ==
    ASSUME NEW texts \in Seq(Arguments), NEW m \in 0 .. Len(texts), NEW n \in m .. Len(texts)
    PROVE  Lengths(texts)[m] <= Lengths(texts)[n]
<1> DEFINE g == Lengths(texts)
           less == {i \in m .. Len(texts) : ~(g[m] <= g[i])}
<1>1. /\ g \in [0 .. Len(texts) -> Nat]
      /\ \A i \in 1 .. Len(texts) : g[i] = g[i - 1] + 1 + Quoted(texts[i])
      /\ Len(texts) \in Nat
      /\ \A i \in 1 .. Len(texts) : Quoted(texts[i]) \in Nat
  <2>1. \A i \in 1 .. Len(texts) : texts[i] \in Text
    BY QuotingAssumption, ElementOfSeq
  <2> QED BY <2>1, LengthsAre, LenProperties, QuotedIs
<1> HIDE DEF g
<1>2. less = {}
  <2> SUFFICES ASSUME less # {} PROVE FALSE
    OBVIOUS
  <2>1. PICK k \in less : \A i \in less : k <= i
    <3>1. less \in SUBSET Nat
      BY <1>1
    <3> HIDE DEF less
    <3> QED BY <3>1, HasLeast
  <2>2. k # m
    <3>1. g[m] \in Nat
      BY <1>1
    <3> QED BY <2>1, <3>1
  <2>3. /\ k - 1 \in m .. Len(texts) /\ k \in 1 .. Len(texts) /\ ~(k <= k - 1)
        /\ m \in 0 .. Len(texts) /\ k \in 0 .. Len(texts) /\ k - 1 \in 0 .. Len(texts)
    BY <1>1, <2>2
  <2>4. g[m] <= g[k - 1]
    BY <2>1, <2>3
  <2>5. g[m] \in Nat /\ g[k - 1] \in Nat /\ g[k] \in Nat /\ Quoted(texts[k]) \in Nat
    <3> HIDE DEF less
    <3> QED BY <1>1, <2>3
  <2>6. g[k] = g[k - 1] + 1 + Quoted(texts[k])
    BY <1>1, <2>3
  <2> QED BY <2>1, <2>4, <2>5, <2>6
<1> QED BY <1>2 DEF g

(***************************************************************************)
(* The invariant.  Where the function is, what has been written of which   *)
(* argument, how much that is, and what the reader makes of it.            *)
(***************************************************************************)
\* how many characters of the argument have been taken
Taken == Len(args[arg]) - Len(rest)

InArgument ==
    /\ arg \in 1 .. Len(args)
    /\ Len(rest) <= Len(args[arg])
    /\ rest = SubSeq(args[arg], Taken + 1, Len(args[arg]))

Position ==
    /\ TypeOK
    /\ at # "none" /\ ~Sends =>
          form \in Forms /\ Len(args) = Len(form.before) /\ room = Allocated(form, args)
    /\ at = "separator" => Sends /\ arg \in 1 .. Len(args) + 1
    /\ at = "between" => ~Sends /\ arg \in 2 .. Len(args) + 1
    /\ at = "open" => InArgument /\ Taken = 0
    /\ at = "escape" => InArgument

NoNewline(text) == \A i \in 1 .. Len(text) : text[i] # "newline"
Scanned(n) == \A i \in 1 .. n : NoNewline(args[i])

\* Only a newline or a buffer that is too small is refused.
Fits == Scanned(Len(args)) /\ (Sends => Needed <= room)

Scans ==
    /\ at \in {"separator", "open", "between"} => Scanned(arg - 1)
    /\ at = "escape" =>
          Scanned(arg - 1) /\ \A i \in 1 .. Taken : args[arg][i] # "newline"
    /\ at = "done" => Fits
    /\ at = "refused" => ~Fits

\* What mpd_send_command() has written, to the byte.
Measured ==
    /\ at = "separator" =>
          Len(written) = Lengths(args)[arg - 1] /\ Len(written) <= End
    /\ Sends /\ at = "open" =>
          Len(written) = Lengths(args)[arg - 1] + 1 /\ Len(written) <= End
    /\ Sends /\ at = "escape" =>
          /\ Len(written) = Lengths(args)[arg - 1] + 2 + Taken + Specials(args[arg], Taken)
          /\ Len(written) <= End
    /\ Sends /\ at = "done" => Len(written) = Needed /\ Len(written) <= room
    /\ Sends /\ at = "refused" => Len(written) <= room

\* The most that the others may have written before argument n.
AtMost(n) ==
    IF n = 1 THEN Len(form.before[1])
    ELSE Len(form.before[1]) + 2 + 2 * Len(args[1]) + Len(form.before[2])

\* What the others have written, at most.
Bounded ==
    ~Sends =>
        /\ at = "open" => Len(written) <= AtMost(arg)
        /\ at = "escape" => Len(written) <= AtMost(arg) + 1 + 2 * Taken
        /\ at = "between" => Len(written) <= AtMost(arg - 1) + 2 + 2 * Len(args[arg - 1])
        /\ at \in {"done", "refused"} => Len(written) <= room

Upto(s, k) == SubSeq(s, 1, k)
Inside(text, texts) == [mode |-> "quoted", text |-> text, texts |-> texts]

\* What MPD would have read so far.
Understood ==
    /\ at \in {"separator", "open", "between"} =>
          ServerReads(written) = Outside(Upto(args, arg - 1))
    /\ at = "escape" =>
          ServerReads(written) = Inside(Upto(args[arg], Taken), Upto(args, arg - 1))
    /\ at = "done" => ServerReads(written) = Outside(args)

(***************************************************************************)
(* Where the function is                                                   *)
(***************************************************************************)
LEMMA ArgumentIsText ==
    ASSUME TypeOK
    PROVE  /\ Len(args) \in Nat
           /\ \A i \in 1 .. Len(args) : args[i] \in Text /\ Len(args[i]) \in Nat
           /\ written \in Seq(Written) /\ Len(written) \in Nat
           /\ rest \in Text /\ Len(rest) \in Nat
<1>1. args \in Seq(Arguments) /\ Len(args) \in Nat
  BY LenProperties DEF TypeOK
<1>2. \A i \in 1 .. Len(args) : args[i] \in Text
  BY <1>1, QuotingAssumption, ElementOfSeq
<1>3. \A i \in 1 .. Len(args) : Len(args[i]) \in Nat
  BY <1>2, LenProperties DEF Text
<1> QED BY <1>1, <1>2, <1>3, LenProperties DEF TypeOK, Text, Written

LEMMA InsideArgument ==
    ASSUME TypeOK, InArgument
    PROVE  /\ Taken \in 0 .. Len(args[arg])
           /\ rest = <<>> <=> Taken = Len(args[arg])
           /\ rest # <<>> =>
                /\ Taken + 1 \in 1 .. Len(args[arg])
                /\ Head(rest) = args[arg][Taken + 1] /\ Head(rest) \in Characters
                /\ Tail(rest) \in Text /\ Len(Tail(rest)) = Len(rest) - 1
                /\ Tail(rest) = SubSeq(args[arg], Taken + 2, Len(args[arg]))
<1> DEFINE text == args[arg]
<1>1. /\ text \in Seq(Characters) /\ Len(text) \in Nat
      /\ rest \in Seq(Characters) /\ Len(rest) \in Nat
  BY ArgumentIsText DEF InArgument, Text
<1>2. Len(rest) <= Len(text) /\ rest = SubSeq(text, Taken + 1, Len(text))
  BY DEF InArgument
<1>3. Taken \in 0 .. Len(text) /\ Taken = Len(text) - Len(rest)
  BY <1>1, <1>2 DEF Taken
<1>4. rest = <<>> <=> Len(rest) = 0
  BY <1>1, EmptySeq
<1>5. ASSUME rest # <<>>
      PROVE  /\ Taken + 1 \in 1 .. Len(text)
             /\ Head(rest) = text[Taken + 1] /\ Head(rest) \in Characters
             /\ Tail(rest) \in Text /\ Len(Tail(rest)) = Len(rest) - 1
             /\ Tail(rest) = SubSeq(text, Taken + 2, Len(text))
  <2> DEFINE m == Taken + 1
             n == Len(text)
  <2>1. m \in 1 .. Len(text) /\ n \in m .. Len(text) /\ m + 1 = Taken + 2
    BY <1>1, <1>3, <1>4, <1>5
  <2> HIDE DEF m, n, text
  <2>2. Head(SubSeq(text, m, n)) = text[m] /\ Tail(SubSeq(text, m, n)) = SubSeq(text, m + 1, n)
    BY <1>1, <2>1, HeadTailOfSubSeq
  <2>3. /\ Head(rest) \in Characters /\ Tail(rest) \in Seq(Characters)
        /\ Len(Tail(rest)) = Len(rest) - 1
    BY <1>1, <1>5, HeadTailProperties
  <2> QED BY <1>2, <2>1, <2>2, <2>3 DEF m, n, Text
<1> HIDE DEF text
<1>6. rest = <<>> <=> Taken = Len(text)
  BY <1>1, <1>3, <1>4
<1> QED BY <1>3, <1>5, <1>6 DEF text

\* An argument that is begun has not been taken at all.
LEMMA ArgumentBegins ==
    ASSUME NEW text \in Text
    PROVE  text = SubSeq(text, 1, Len(text)) /\ Len(text) - Len(text) = 0
BY SubSeqFull, LenProperties DEF Text

LEMMA WrittenIsText ==
    ASSUME NEW s \in Seq(Written), NEW t \in Seq(Written)
    PROVE  s \o t \in Seq(Written) /\ Len(s \o t) = Len(s) + Len(t)
BY ConcatProperties

LEMMA PositionStarts == Init => Position
BY EmptySeq DEF Init, Position, TypeOK, Sends, Text

LEMMA CallSendPosition ==
    ASSUME CallSend
    PROVE  Position'
<1>1. PICK n \in 0 .. MaxArguments : args' \in [1 .. n -> Arguments]
  BY DEF CallSend
<1>2. args' \in Seq(Arguments) /\ Len(args') = n
  BY <1>1, QuotingAssumption
<1>3. Command \in Seq(Written) /\ <<>> \in Seq(Written) /\ <<>> \in Text
  BY QuotingAssumption, SeqMonotonic, EmptySeq DEF Written, Characters, Special, Text
<1>4. /\ form' = NoForm /\ room' \in Nat /\ arg' = 1 /\ rest' = <<>>
      /\ at' \in {"refused", "separator"} /\ written' \in {<<>>, Command}
  BY QuotingAssumption DEF CallSend
<1>5. Len(args') \in Nat
  BY <1>2
<1>6. TypeOK'
  BY <1>2, <1>3, <1>4 DEF TypeOK, Written
<1> QED BY <1>4, <1>5, <1>6 DEF Position, Sends

LEMMA PlainIsWritten ==
    ASSUME NEW t \in Seq(Plain)
    PROVE  t \in Seq(Written) /\ \A i \in 1 .. Len(t) : t[i] # "quote"
BY SeqMonotonic, ElementOfSeq DEF Plain, Written, Characters, Special

LEMMA AllocatedIs ==
    ASSUME NEW f \in Forms, NEW texts \in Seq(Text), Len(texts) = Len(f.before)
    PROVE  Allocated(f, texts) \in Nat
<1>1. Len(f.before) \in {1, 2} /\ f.size \in Nat
  BY EnoughAllocated DEF FormType
<1>2. \A i \in 1 .. Len(texts) : Len(texts[i]) \in Nat
  BY ElementOfSeq, LenProperties DEF Text
<1>3. Len(texts[1]) \in Nat /\ (Len(texts) = 2 => Len(texts[2]) \in Nat)
  BY <1>1, <1>2
<1>4. Total(texts) \in Nat
  <2>1. CASE Len(texts) = 2
    <3>1. Total(texts) = Len(texts[1]) + Len(texts[2])
      BY <2>1, Zenon DEF Total
    <3> QED BY <1>3, <2>1, <3>1
  <2>2. CASE Len(texts) # 2
    <3>1. Total(texts) = Len(texts[1]) + 0
      BY <2>2, Zenon DEF Total
    <3> QED BY <1>3, <3>1
  <2> QED BY <2>1, <2>2
<1> QED BY <1>1, <1>4 DEF Allocated

LEMMA CallBuilderPosition ==
    ASSUME CallBuilder
    PROVE  Position'
<1>1. PICK f \in Forms : /\ form' = f
                        /\ args' \in [1 .. Len(f.before) -> Arguments]
                        /\ room' = Allocated(f, args')
                        /\ written' = f.before[1]
  BY DEF CallBuilder
<1>2. f \in FormType /\ Len(f.before) \in {1, 2} /\ f # NoForm
  BY EnoughAllocated
<1>3. args' \in Seq(Arguments) /\ Len(args') = Len(f.before)
  BY <1>1, <1>2
<1>4. args'[1] \in Text /\ 1 \in 1 .. Len(args')
  BY <1>2, <1>3, QuotingAssumption, ElementOfSeq
<1>5. room' \in Nat
  BY <1>1, <1>3, QuotingAssumption, SeqMonotonic, AllocatedIs
<1>6. written' \in Seq(Written)
  <2>1. f.before[1] \in Seq(Plain)
    BY <1>2, ElementOfSeq DEF FormType
  <2> QED BY <1>1, <2>1, PlainIsWritten
<1>7. arg' = 1 /\ rest' = args'[1] /\ at' = "open"
  BY DEF CallBuilder
<1>8. InArgument' /\ Taken' = 0
  BY <1>4, <1>7, ArgumentBegins, LenProperties DEF InArgument, Taken, Text
<1> QED BY <1>1, <1>2, <1>3, <1>4, <1>5, <1>6, <1>7, <1>8
        DEF Position, TypeOK, Sends, Written

\* What is written next stays text.
LEMMA WriteType ==
    ASSUME TypeOK, NEW t \in Seq(Written), NEW next, Write(t, next),
           next \in {"separator", "open", "escape", "between", "done"}, arg' \in Nat, rest' \in Text
    PROVE  TypeOK' /\ written' \in Seq(Written) /\ Len(written') = Len(written) + Len(t)
<1>1. written' \in Seq(Written) /\ Len(written') = Len(written) + Len(t)
  BY ArgumentIsText, WrittenIsText DEF Write
<1> QED BY <1>1 DEF Write, TypeOK, Written

LEMMA OneCharacter ==
    ASSUME NEW char \in Written
    PROVE  <<char>> \in Seq(Written) /\ Len(<<char>>) = 1
OBVIOUS

LEMMA RefusePosition ==
    ASSUME Position, at # "none", Refuse
    PROVE  Position'
BY DEF Position, TypeOK, Refuse, Sends, Allocated, Total

\* An argument begins.
LEMMA BeginPosition ==
    ASSUME TypeOK, TypeOK', arg \in 1 .. Len(args), rest' = args[arg], UNCHANGED <<args, arg>>
    PROVE  InArgument' /\ Taken' = 0
BY ArgumentIsText, ArgumentBegins DEF InArgument, Taken

LEMMA SeparatePosition ==
    ASSUME Position, Separate
    PROVE  Position'
<1> USE DEF Position
<1>1. at = "separator" /\ Sends /\ arg \in 1 .. Len(args) + 1 /\ TypeOK /\ Len(args) \in Nat
  BY ArgumentIsText DEF Separate
<1>2. <<"newline">> \in Seq(Written) /\ Space \in Seq(Written)
  BY Texts, PlainIsWritten, OneCharacter DEF Written, Characters
<1>3. CASE Write(<<"newline">>, "done") /\ UNCHANGED <<arg, rest>>
  <2>1. TypeOK'
    BY <1>1, <1>2, <1>3, WriteType DEF TypeOK
  <2> QED BY <1>1, <1>3, <2>1 DEF Write, Sends
<1>4. CASE Refuse
  BY <1>1, <1>4, RefusePosition
<1>5. CASE arg <= Len(args) /\ Write(Space, "open") /\ rest' = args[arg] /\ UNCHANGED arg
  <2>1. arg \in 1 .. Len(args) /\ args[arg] \in Text
    BY <1>1, <1>5, ArgumentIsText
  <2>2. TypeOK'
    BY <1>1, <1>2, <1>5, <2>1, WriteType
  <2>3. InArgument' /\ Taken' = 0
    BY <1>1, <1>5, <2>1, <2>2, BeginPosition DEF Write
  <2> QED BY <1>1, <1>5, <2>2, <2>3 DEF Write, Sends
<1> QED BY <1>3, <1>4, <1>5 DEF Separate

LEMMA OpenPosition ==
    ASSUME Position, Open
    PROVE  Position'
<1> USE DEF Position
<1>1. at = "open" /\ TypeOK /\ InArgument /\ Taken = 0
  BY DEF Open
<1>2. CASE Refuse
  BY <1>1, <1>2, RefusePosition
<1>3. CASE Write(<<"quote">>, "escape") /\ UNCHANGED <<arg, rest>>
  <2>1. <<"quote">> \in Seq(Written)
    BY OneCharacter DEF Written, Characters, Special
  <2>2. TypeOK'
    BY <1>1, <1>3, <2>1, WriteType DEF TypeOK
  <2>3. InArgument'
    BY <1>1, <1>3 DEF Write, InArgument, Taken
  <2> QED BY <1>1, <1>3, <2>2, <2>3 DEF Write, Sends, Allocated, Total
<1> QED BY <1>2, <1>3 DEF Open

LEMMA OneAndOne ==
    ASSUME NEW a, NEW b
    PROVE  <<a>> \o <<b>> = <<a, b>>
<1> DEFINE S == {a, b}
           s == <<a>>
           t == <<b>>
           u == <<a, b>>
<1>1. /\ s \in Seq(S) /\ Len(s) = 1 /\ s[1] = a
      /\ t \in Seq(S) /\ Len(t) = 1 /\ t[1] = b
      /\ u \in Seq(S) /\ Len(u) = 2 /\ u[1] = a /\ u[2] = b
  OBVIOUS
<1> HIDE DEF S, s, t, u
<1>2. /\ s \o t \in Seq(S) /\ Len(s \o t) = Len(s) + Len(t)
      /\ \A i \in 1 .. Len(s) + Len(t) : (s \o t)[i] = IF i <= Len(s) THEN s[i] ELSE t[i - Len(s)]
  BY <1>1, ConcatProperties
<1>3. Len(s \o t) = 2 /\ (s \o t)[1] = a /\ (s \o t)[2] = b
  BY <1>1, <1>2
<1>4. s \o t = u
  <2>1. \A i \in 1 .. Len(s \o t) : i = 1 \/ i = 2
    BY <1>3
  <2> QED BY <1>1, <1>2, <1>3, <2>1, SeqEqual
<1> QED BY <1>4 DEF s, t, u

\* The characters that an argument's character becomes.
LEMMA EscapedIs ==
    ASSUME NEW char \in Characters
    PROVE  /\ Escaped(char) \in Seq(Written)
           /\ Len(Escaped(char)) = IF char \in Special THEN 2 ELSE 1
           /\ Escaped(char) =
                IF char \in Special THEN <<"backslash">> \o <<char>> ELSE <<char>>
<1>1. <<"backslash">> \o <<char>> = <<"backslash", char>>
  BY OneAndOne DEF Special
<1>2. CASE char \in Special
  <2>1. Escaped(char) = <<"backslash", char>>
    BY <1>2 DEF Escaped
  <2>2. char \in Written /\ "backslash" \in Written
    BY DEF Written, Characters, Special
  <2> QED BY <1>1, <1>2, <2>1, <2>2
<1>3. CASE char \notin Special
  <2>1. Escaped(char) = <<char>> /\ char \in Written
    BY <1>3 DEF Escaped, Written
  <2> QED BY <1>3, <2>1
<1> QED BY <1>2, <1>3

LEMMA EscapePosition ==
    ASSUME Position, Escape
    PROVE  Position'
<1> USE DEF Position
<1>1. at = "escape" /\ TypeOK /\ InArgument /\ rest # <<>>
  BY DEF Escape
<1>2. CASE Refuse
  BY <1>1, <1>2, RefusePosition
<1>3. CASE Write(Escaped(Head(rest)), "escape") /\ rest' = Tail(rest) /\ UNCHANGED arg
  <2>1. /\ Head(rest) \in Characters /\ Tail(rest) \in Text /\ Len(Tail(rest)) = Len(rest) - 1
        /\ Tail(rest) = SubSeq(args[arg], Taken + 2, Len(args[arg]))
        /\ Taken \in 0 .. Len(args[arg]) /\ Len(rest) \in Nat /\ Len(args[arg]) \in Nat
    BY <1>1, InsideArgument, ArgumentIsText DEF InArgument
  <2>2. TypeOK'
    BY <1>1, <1>3, <2>1, EscapedIs, WriteType DEF TypeOK
  <2>3. Taken' = Taken + 1 /\ Taken' + 1 = Taken + 2
    <3>1. args' = args /\ arg' = arg /\ Len(rest') = Len(rest) - 1
      BY <1>3, <2>1 DEF Write
    <3>2. Taken' = Len(args[arg]) - (Len(rest) - 1)
      BY <3>1, Zenon DEF Taken
    <3> QED BY <2>1, <3>2 DEF Taken
  <2>4. InArgument'
    <3>1. args' = args /\ arg' = arg /\ Len(rest') = Len(rest) - 1
      BY <1>3, <2>1 DEF Write
    <3>2. Len(rest') <= Len(args[arg])
      BY <1>1, <2>1, <3>1 DEF InArgument
    <3>3. rest' = SubSeq(args[arg], Taken' + 1, Len(args[arg]))
      BY <1>3, <2>1, <2>3
    <3> QED BY <1>1, <3>1, <3>2, <3>3, Zenon DEF InArgument
  <2> QED BY <1>1, <1>3, <2>2, <2>4 DEF Write, Sends, Allocated, Total
<1> QED BY <1>2, <1>3 DEF Escape

LEMMA ClosePosition ==
    ASSUME Position, Close
    PROVE  Position'
<1> USE DEF Position
<1>1. at = "escape" /\ TypeOK /\ InArgument
  BY DEF Close
<1>2. CASE Refuse
  BY <1>1, <1>2, RefusePosition
<1>3. CASE /\ Write(<<"quote">>, IF Sends THEN "separator" ELSE "between")
           /\ arg' = arg + 1 /\ UNCHANGED rest
  <2>1. <<"quote">> \in Seq(Written)
    BY OneCharacter DEF Written, Characters, Special
  <2>2. TypeOK'
    <3>1. (IF Sends THEN "separator" ELSE "between") \in {"separator", "between"}
      OBVIOUS
    <3>2. arg' \in Nat /\ rest' \in Text
      BY <1>1, <1>3 DEF TypeOK
    <3> QED BY <1>1, <1>3, <2>1, <3>1, <3>2, WriteType
  <2>3. arg' \in 2 .. Len(args') + 1
    BY <1>1, <1>3, ArgumentIsText DEF Write, InArgument
  <2>4. form' = form /\ args' = args /\ room' = room /\ Allocated(form, args)' = Allocated(form, args)
    BY <1>3 DEF Write, Allocated, Total
  <2>5. CASE Sends
    BY <1>3, <2>2, <2>3, <2>4, <2>5 DEF Write, Sends
  <2>6. CASE ~Sends
    BY <1>1, <1>3, <2>2, <2>3, <2>4, <2>6 DEF Write, Sends
  <2> QED BY <2>5, <2>6
<1> QED BY <1>2, <1>3 DEF Close

LEMMA BetweenPosition ==
    ASSUME Position, Between
    PROVE  Position'
<1> USE DEF Position
<1>1. /\ at = "between" /\ ~Sends /\ TypeOK /\ arg \in 2 .. Len(args) + 1 /\ form \in Forms
      /\ Len(args) = Len(form.before) /\ Len(args) \in Nat
  BY ArgumentIsText DEF Between
<1>2. CASE /\ arg <= Len(args)
           /\ Write(form.before[arg], "open") /\ rest' = args[arg] /\ UNCHANGED arg
  <2>1. arg \in 1 .. Len(args) /\ args[arg] \in Text
    BY <1>1, <1>2, ArgumentIsText
  <2>2. form.before[arg] \in Seq(Written)
    BY <1>1, <2>1, EnoughAllocated, ElementOfSeq, PlainIsWritten DEF FormType
  <2>3. TypeOK'
    BY <1>1, <1>2, <2>1, <2>2, WriteType
  <2>4. InArgument' /\ Taken' = 0
    BY <1>1, <1>2, <2>1, <2>3, BeginPosition DEF Write
  <2> QED BY <1>1, <1>2, <2>3, <2>4 DEF Write, Sends, Allocated, Total
<1>3. CASE Write(Append(form.after, "NUL"), "done") /\ UNCHANGED <<arg, rest>>
  <2>1. Append(form.after, "NUL") \in Seq(Written)
    BY <1>1, EnoughAllocated, PlainIsWritten, AppendProperties DEF FormType, Written
  <2>2. TypeOK'
    BY <1>1, <1>3, <2>1, WriteType DEF TypeOK
  <2> QED BY <1>1, <1>3, <2>2 DEF Write, Sends, Allocated, Total
<1> QED BY <1>2, <1>3 DEF Between

LEMMA PositionKept ==
    ASSUME Position, [Next]_vars
    PROVE  Position'
<1>1. CASE Return
  BY <1>1, EmptySeq DEF Return, Position, TypeOK, Sends, Text
<1>2. CASE UNCHANGED vars
  BY <1>2 DEF vars, Position, TypeOK, Sends, InArgument, Taken, Allocated, Total
<1> QED BY <1>1, <1>2, CallSendPosition, CallBuilderPosition, SeparatePosition, OpenPosition,
           EscapePosition, ClosePosition, BetweenPosition DEF Next

LEMMA PositionHolds == Spec => []Position
BY PositionStarts, PositionKept, PTL DEF Spec

\* Every variable keeps its type, whatever the arguments.
THEOREM TypeCorrect == Spec => []TypeOK
<1>1. Position => TypeOK
  BY DEF Position
<1> QED BY <1>1, PositionHolds, PTL

(***************************************************************************)
(* What MPD reads                                                          *)
(***************************************************************************)
LEMMA UptoIs ==
    ASSUME NEW S, NEW s \in Seq(S), NEW k \in 0 .. Len(s)
    PROVE  /\ Upto(s, k) \in Seq(S)
           /\ k = 0 => Upto(s, k) = <<>>
           /\ k = Len(s) => Upto(s, k) = s
           /\ k < Len(s) => Append(Upto(s, k), s[k + 1]) = Upto(s, k + 1)
<1>1. Len(s) \in Nat
  BY LenProperties
<1>2. Upto(s, k) \in Seq(S)
  <2>1. k \in Int /\ \A i \in 1 .. k : s[i] \in S
    BY <1>1, ElementOfSeq
  <2> QED BY <2>1, SubSeqProperties DEF Upto
<1>3. k = 0 => Upto(s, k) = <<>>
  BY SubSeqEmpty DEF Upto
<1>4. k = Len(s) => Upto(s, k) = s
  BY SubSeqFull DEF Upto
<1>5. ASSUME k < Len(s) PROVE Append(Upto(s, k), s[k + 1]) = Upto(s, k + 1)
  <2>1. k + 1 \in 1 .. Len(s) /\ 1 \in 1 .. Len(s) /\ (k + 1) - 1 = k
    BY <1>1, <1>5
  <2> DEFINE n == k + 1
  <2> HIDE DEF n
  <2>2. SubSeq(s, 1, n) = SubSeq(s, 1, n - 1) \o <<s[n]>>
    BY <2>1, SubSeqRecursiveSecond DEF n
  <2>3. s[k + 1] \in S
    BY <2>1, ElementOfSeq
  <2>4. Append(Upto(s, k), s[k + 1]) = Upto(s, k) \o <<s[k + 1]>>
    BY <1>2, <2>3, AppendIsConcat
  <2> QED BY <2>1, <2>2, <2>4 DEF Upto, n
<1> QED BY <1>2, <1>3, <1>4, <1>5

LEMMA ReadSteps ==
    ASSUME NEW text, NEW texts, NEW char
    PROVE  /\ Read(Outside(texts), "quote") = Inside(<<>>, texts)
           /\ Read(Inside(text, texts), "quote") = Outside(Append(texts, text))
           /\ char \notin Special => Read(Inside(text, texts), char) = Inside(Append(text, char), texts)
           /\ Read(Read(Inside(text, texts), "backslash"), char) = Inside(Append(text, char), texts)
<1> DEFINE quoted == Inside(text, texts)
           escaped == [mode |-> "escaped", text |-> text, texts |-> texts]
<1>1. Read(Outside(texts), "quote") = Inside(<<>>, texts)
  BY DEF Read, Inside, Outside
<1>2. quoted.mode = "quoted" /\ quoted.text = text /\ quoted.texts = texts
  BY DEF Inside
<1>3. Read(quoted, "quote") = Outside(Append(texts, text))
  <2> HIDE DEF quoted
  <2> QED BY <1>2 DEF Read, Outside, Special
<1>4. Read(quoted, "backslash") = escaped
  <2>1. [quoted EXCEPT !.mode = "escaped"] = escaped
    BY DEF Inside
  <2> HIDE DEF quoted, escaped
  <2>2. Read(quoted, "backslash") = [quoted EXCEPT !.mode = "escaped"]
    BY <1>2 DEF Read, Special
  <2> QED BY <2>1, <2>2
<1>5. Read(escaped, char) = Inside(Append(text, char), texts)
  BY DEF Read, Inside
<1>6. char \notin Special => Read(quoted, char) = Inside(Append(text, char), texts)
  BY DEF Read, Inside, Special
<1> QED BY <1>1, <1>3, <1>4, <1>5, <1>6

LEMMA ReadsFirst ==
    ASSUME NEW t \in Seq(Plain)
    PROVE  ServerReads(t) = Outside(<<>>)
<1> DEFINE s == <<>>
<1>1. s \in Seq(Written) /\ Len(s) = 0 /\ t \in Seq(Written) /\ s \o t = t
  BY EmptySeq, PlainIsWritten, ConcatEmptySeq
<1>2. ServerReads(s) = Outside(<<>>)
  BY <1>1, ReadingsAre DEF ServerReads, Stages
<1>3. ServerReads(s).mode = "outside"
  BY <1>2 DEF Outside
<1> HIDE DEF s
<1>4. ServerReads(s \o t) = ServerReads(s)
  BY <1>1, <1>3, PlainIsWritten, ReadsPast
<1> QED BY <1>1, <1>2, <1>4

LEMMA ReadsOn ==
    ASSUME NEW s \in Seq(Written), NEW texts, ServerReads(s) = Outside(texts),
           NEW t \in Seq(Written), \A i \in 1 .. Len(t) : t[i] # "quote"
    PROVE  ServerReads(s \o t) = Outside(texts)
BY ReadsPast DEF Outside

LEMMA CallSendUnderstood ==
    ASSUME CallSend
    PROVE  Understood'
<1>1. Position'
  BY CallSendPosition
<1>2. arg' = 1 /\ at' \in {"refused", "separator"} /\ (at' = "separator" => written' = Command)
  BY DEF CallSend
<1>3. Command \in Seq(Plain)
  BY QuotingAssumption DEF Plain
<1>4. Upto(args', 0) = <<>>
  BY SubSeqEmpty DEF Upto
<1>5. ServerReads(Command) = Outside(<<>>)
  BY <1>3, ReadsFirst
<1> QED BY <1>2, <1>4, <1>5 DEF Understood

LEMMA CallBuilderUnderstood ==
    ASSUME CallBuilder
    PROVE  Understood'
<1>1. PICK f \in Forms : written' = f.before[1]
  BY DEF CallBuilder
<1>2. f.before[1] \in Seq(Plain)
  <2>1. f.before \in Seq(Seq(Plain)) /\ 1 \in 1 .. Len(f.before)
    <3>1. f \in FormType /\ Len(f.before) \in {1, 2}
      BY EnoughAllocated
    <3>2. f.before \in Seq(Seq(Plain))
      BY <3>1 DEF FormType
    <3>3. \A n \in {1, 2} : 1 \in 1 .. n
      OBVIOUS
    <3> QED BY <3>1, <3>2, <3>3, Zenon
  <2> QED BY <2>1, ElementOfSeq
<1>3. arg' = 1 /\ at' = "open"
  BY DEF CallBuilder
<1>4. Upto(args', 0) = <<>>
  BY SubSeqEmpty DEF Upto
<1> QED BY <1>1, <1>2, <1>3, <1>4, ReadsFirst DEF Understood

LEMMA SeparateUnderstood ==
    ASSUME Position, Understood, Separate
    PROVE  Understood'
<1>1. /\ at = "separator" /\ arg \in 1 .. Len(args) + 1 /\ TypeOK /\ Len(args) \in Nat
      /\ written \in Seq(Written) /\ args \in Seq(Arguments)
      /\ ServerReads(written) = Outside(Upto(args, arg - 1))
  BY ArgumentIsText DEF Separate, Position, Understood, TypeOK
<1>2. CASE arg > Len(args) /\ Write(<<"newline">>, "done")
  <2> DEFINE t == <<"newline">>
  <2>1. t \in Seq(Written) /\ \A i \in 1 .. Len(t) : t[i] # "quote"
    BY OneCharacter DEF Written, Characters
  <2>2. Upto(args, arg - 1) = args
    <3>1. arg - 1 = Len(args) /\ Len(args) \in 0 .. Len(args)
      BY <1>1, <1>2
    <3> QED BY <1>1, <3>1, UptoIs
  <2>3. written' = written \o t /\ at' = "done" /\ args' = args
    BY <1>2 DEF Write
  <2> HIDE DEF t
  <2>4. ServerReads(written \o t) = Outside(args)
    BY <1>1, <2>1, <2>2, ReadsOn
  <2> QED BY <2>3, <2>4 DEF Understood
<1>3. CASE Refuse
  BY <1>3 DEF Refuse, Understood
<1>4. CASE Write(Space, "open") /\ UNCHANGED arg
  <2>1. Space \in Seq(Written) /\ \A i \in 1 .. Len(Space) : Space[i] # "quote"
    BY Texts, PlainIsWritten
  <2>2. written' = written \o Space /\ at' = "open" /\ args' = args /\ arg' = arg
    BY <1>4 DEF Write
  <2>3. ServerReads(written \o Space) = Outside(Upto(args, arg - 1))
    BY <1>1, <2>1, ReadsOn
  <2> QED BY <2>2, <2>3 DEF Understood
<1> QED BY <1>1, <1>2, <1>3, <1>4 DEF Separate

LEMMA OpenUnderstood ==
    ASSUME Position, Understood, Open
    PROVE  Understood'
<1>1. /\ at = "open" /\ TypeOK /\ InArgument /\ Taken = 0 /\ written \in Seq(Written)
      /\ ServerReads(written) = Outside(Upto(args, arg - 1))
  BY ArgumentIsText DEF Open, Position, Understood
<1>2. CASE Refuse
  BY <1>2 DEF Refuse, Understood
<1>3. CASE Write(<<"quote">>, "escape") /\ UNCHANGED <<arg, rest>>
  <2>1. /\ written' = written \o <<"quote">> /\ at' = "escape" /\ args' = args /\ arg' = arg
        /\ Taken' = 0
    BY <1>1, <1>3 DEF Write, Taken
  <2>2. "quote" \in Written
    BY DEF Written, Characters, Special
  <2>3. ServerReads(written \o <<"quote">>) = Inside(<<>>, Upto(args, arg - 1))
    BY <1>1, <2>2, ReadsOne, ReadSteps
  <2>4. Upto(args[arg], 0) = <<>>
    BY SubSeqEmpty DEF Upto
  <2> QED BY <2>1, <2>3, <2>4 DEF Understood
<1> QED BY <1>2, <1>3 DEF Open

LEMMA EscapeUnderstood ==
    ASSUME Position, Understood, Escape
    PROVE  Understood'
<1> DEFINE char == Head(rest)
           text == args[arg]
           texts == Upto(args, arg - 1)
<1>1. /\ at = "escape" /\ TypeOK /\ InArgument /\ rest # <<>> /\ written \in Seq(Written)
      /\ ServerReads(written) = Inside(Upto(text, Taken), texts)
      /\ text \in Text /\ Len(text) \in Nat /\ Len(rest) \in Nat
  BY ArgumentIsText DEF Escape, Position, Understood, InArgument
<1>2. CASE Refuse
  BY <1>2 DEF Refuse, Understood
<1>3. CASE Write(Escaped(char), "escape") /\ rest' = Tail(rest) /\ UNCHANGED arg
  <2>1. /\ Taken + 1 \in 1 .. Len(text) /\ char = text[Taken + 1] /\ char \in Characters
        /\ Len(Tail(rest)) = Len(rest) - 1 /\ Taken \in 0 .. Len(text)
    BY <1>1, InsideArgument
  <2>2. Append(Upto(text, Taken), char) = Upto(text, Taken + 1)
    <3>1. Taken < Len(text)
      BY <1>1, <2>1
    <3> HIDE DEF char, text
    <3> QED BY <1>1, <2>1, <3>1, UptoIs DEF Text
  <2>3. written' = written \o Escaped(char) /\ at' = "escape" /\ args' = args /\ arg' = arg
    BY <1>3 DEF Write
  <2>4. Taken' = Taken + 1
    <3>1. Taken' = Len(text) - (Len(rest) - 1)
      BY <1>3, <2>1, <2>3, Zenon DEF Taken
    <3> QED BY <1>1, <3>1 DEF Taken
  <2>5. char \in Written /\ "backslash" \in Written
    BY <2>1 DEF Written, Characters, Special
  <2> HIDE DEF char, text, texts
  <2>6. ServerReads(written \o Escaped(char)) = Inside(Append(Upto(text, Taken), char), texts)
    <3>1. CASE char \in Special
      <4>1. Escaped(char) = <<"backslash">> \o <<char>>
        BY <2>1, <3>1, EscapedIs
      <4>2. <<"backslash">> \in Seq(Written) /\ <<char>> \in Seq(Written)
        BY <2>5, OneCharacter
      <4>3. written \o Escaped(char) = (written \o <<"backslash">>) \o <<char>>
        BY <1>1, <4>1, <4>2, ConcatAssociative
      <4>4. written \o <<"backslash">> \in Seq(Written)
        BY <1>1, <4>2, WrittenIsText
      <4>5. ServerReads(written \o <<"backslash">>) = Read(ServerReads(written), "backslash")
        BY <1>1, <2>5, ReadsOne
      <4>6. ServerReads((written \o <<"backslash">>) \o <<char>>) =
              Read(ServerReads(written \o <<"backslash">>), char)
        BY <2>5, <4>4, ReadsOne
      <4> QED BY <1>1, <4>3, <4>5, <4>6, ReadSteps
    <3>2. CASE char \notin Special
      <4>1. Escaped(char) = <<char>>
        BY <3>2 DEF Escaped
      <4>2. ServerReads(written \o <<char>>) = Read(ServerReads(written), char)
        BY <1>1, <2>5, ReadsOne
      <4> QED BY <1>1, <3>2, <4>1, <4>2, ReadSteps
    <3> QED BY <3>1, <3>2
  <2>7. ServerReads(written') = Inside(Upto(text, Taken'), texts)
    BY <2>2, <2>3, <2>4, <2>6
  <2>8. Upto(args'[arg'], Taken') = Upto(text, Taken') /\ Upto(args', arg' - 1) = texts
    BY <2>3 DEF text, texts
  <2> QED BY <2>3, <2>7, <2>8 DEF Understood
<1> QED BY <1>2, <1>3 DEF Escape

LEMMA CloseUnderstood ==
    ASSUME Position, Understood, Close
    PROVE  Understood'
<1> DEFINE text == args[arg]
           texts == Upto(args, arg - 1)
<1>1. /\ at = "escape" /\ TypeOK /\ InArgument /\ rest = <<>> /\ written \in Seq(Written)
      /\ ServerReads(written) = Inside(Upto(text, Taken), texts)
      /\ text \in Text /\ Len(text) \in Nat /\ args \in Seq(Arguments) /\ Len(args) \in Nat
      /\ arg \in 1 .. Len(args)
  BY ArgumentIsText DEF Close, Position, Understood, InArgument, TypeOK
<1>2. CASE Refuse
  BY <1>2 DEF Refuse, Understood
<1>3. CASE /\ Write(<<"quote">>, IF Sends THEN "separator" ELSE "between")
           /\ arg' = arg + 1 /\ UNCHANGED rest
  <2>1. Upto(text, Taken) = text
    <3>1. Taken = Len(text) /\ Taken \in 0 .. Len(text)
      BY <1>1, InsideArgument
    <3> HIDE DEF text
    <3> QED BY <1>1, <3>1, UptoIs DEF Text
  <2>2. Append(texts, text) = Upto(args, arg)
    <3>1. arg - 1 \in 0 .. Len(args) /\ arg - 1 < Len(args) /\ (arg - 1) + 1 = arg
      BY <1>1
    <3> DEFINE k == arg - 1
    <3> HIDE DEF k
    <3>2. Append(Upto(args, k), args[k + 1]) = Upto(args, k + 1)
      BY <1>1, <3>1, UptoIs DEF k
    <3> QED BY <3>1, <3>2 DEF k
  <2>3. /\ written' = written \o <<"quote">> /\ at' \in {"separator", "between"} /\ args' = args
        /\ arg' - 1 = arg
    BY <1>1, <1>3 DEF Write
  <2>4. "quote" \in Written
    BY DEF Written, Characters, Special
  <2> HIDE DEF text, texts
  <2>5. ServerReads(written \o <<"quote">>) = Outside(Append(texts, text))
    BY <1>1, <2>1, <2>4, ReadsOne, ReadSteps
  <2>6. ServerReads(written') = Outside(Upto(args', arg' - 1))
    BY <2>2, <2>3, <2>5
  <2> QED BY <2>3, <2>6 DEF Understood
<1> QED BY <1>2, <1>3 DEF Close

LEMMA BetweenUnderstood ==
    ASSUME Position, Understood, Between
    PROVE  Understood'
<1>1. /\ at = "between" /\ arg \in 2 .. Len(args) + 1 /\ TypeOK /\ form \in Forms
      /\ Len(args) = Len(form.before) /\ Len(args) \in Nat
      /\ written \in Seq(Written) /\ args \in Seq(Arguments)
      /\ ServerReads(written) = Outside(Upto(args, arg - 1))
  BY ArgumentIsText DEF Between, Position, Understood, TypeOK
<1>2. form.before \in Seq(Seq(Plain)) /\ form.after \in Seq(Plain)
  BY <1>1, EnoughAllocated DEF FormType
<1>3. CASE arg <= Len(args) /\ Write(form.before[arg], "open") /\ UNCHANGED arg
  <2> DEFINE t == form.before[arg]
  <2>1. arg \in 1 .. Len(form.before)
    BY <1>1, <1>3
  <2>2. t \in Seq(Plain)
    BY <1>2, <2>1, ElementOfSeq
  <2>3. written' = written \o t /\ at' = "open" /\ args' = args /\ arg' = arg
    BY <1>3 DEF Write
  <2> HIDE DEF t
  <2>4. t \in Seq(Written) /\ \A i \in 1 .. Len(t) : t[i] # "quote"
    BY <2>2, PlainIsWritten
  <2>5. ServerReads(written \o t) = Outside(Upto(args, arg - 1))
    BY <1>1, <2>4, ReadsOn
  <2> QED BY <2>3, <2>5 DEF Understood
<1>4. CASE arg > Len(args) /\ Write(Append(form.after, "NUL"), "done")
  <2> DEFINE t == Append(form.after, "NUL")
  <2>1. t \in Seq(Written) /\ \A i \in 1 .. Len(t) : t[i] # "quote"
    <3> DEFINE after == form.after
    <3>1. /\ after \in Seq(Written) /\ "NUL" \in Written /\ Len(after) \in Nat
          /\ \A i \in 1 .. Len(after) : after[i] # "quote"
      BY <1>2, PlainIsWritten, LenProperties DEF Written
    <3> HIDE DEF after
    <3>2. /\ Append(after, "NUL") \in Seq(Written)
          /\ Len(Append(after, "NUL")) = Len(after) + 1
          /\ \A i \in 1 .. Len(after) : Append(after, "NUL")[i] = after[i]
          /\ Append(after, "NUL")[Len(after) + 1] = "NUL"
      BY <3>1, AppendProperties
    <3>3. \A i \in 1 .. Len(after) + 1 : i \in 1 .. Len(after) \/ i = Len(after) + 1
      BY <3>1
    <3> QED BY <3>1, <3>2, <3>3 DEF after
  <2>2. Upto(args, arg - 1) = args
    <3>1. arg - 1 = Len(args) /\ Len(args) \in 0 .. Len(args)
      BY <1>1, <1>4
    <3> QED BY <1>1, <3>1, UptoIs
  <2>3. written' = written \o t /\ at' = "done" /\ args' = args
    BY <1>4 DEF Write
  <2> HIDE DEF t
  <2>4. ServerReads(written \o t) = Outside(args)
    BY <1>1, <2>1, <2>2, ReadsOn
  <2> QED BY <2>3, <2>4 DEF Understood
<1> QED BY <1>3, <1>4 DEF Between

LEMMA UnderstoodKept ==
    ASSUME Position, Understood, [Next]_vars
    PROVE  Understood'
<1>1. CASE Return
  BY <1>1 DEF Return, Understood
<1>2. CASE UNCHANGED vars
  BY <1>2 DEF vars, Understood, Taken
<1> QED BY <1>1, <1>2, CallSendUnderstood, CallBuilderUnderstood, SeparateUnderstood,
           OpenUnderstood, EscapeUnderstood, CloseUnderstood, BetweenUnderstood DEF Next

LEMMA UnderstoodHolds == Spec => []Understood
<1>1. Init => Understood
  BY DEF Init, Understood
<1> QED BY <1>1, UnderstoodKept, PositionHolds, PTL DEF Spec

\* MPD reads the arguments that were passed to the function, whatever they are.
THEOREM ArgumentsAreRead == Spec => []ServerReadsArguments
<1>1. Understood => ServerReadsArguments
  BY DEF Understood, ServerReadsArguments
<1> QED BY <1>1, UnderstoodHolds, PTL

(***************************************************************************)
(* How much is written                                                     *)
(***************************************************************************)
Room == Measured /\ Bounded

\* The length of the line up to an argument and behind it.
LEMMA ArgumentLength ==
    ASSUME TypeOK, NEW n \in 1 .. Len(args)
    PROVE  /\ Lengths(args)[n - 1] \in Nat
           /\ Lengths(args)[n] =
                Lengths(args)[n - 1] + 3 + Len(args[n]) + Specials(args[n], Len(args[n]))
           /\ Lengths(args)[n] <= Lengths(args)[Len(args)]
           /\ Lengths(args)[Len(args)] \in Nat
           /\ Specials(args[n], Len(args[n])) \in Nat /\ Len(args[n]) \in Nat
<1>1. args \in Seq(Arguments) /\ Len(args) \in Nat /\ args[n] \in Text /\ Len(args[n]) \in Nat
  BY ArgumentIsText DEF TypeOK
<1>2. n \in 0 .. Len(args) /\ n - 1 \in 0 .. Len(args) /\ Len(args) \in n .. Len(args)
      /\ Len(args) \in 0 .. Len(args) /\ Len(args[n]) \in 0 .. Len(args[n])
  BY <1>1
<1>3. /\ Lengths(args)[n - 1] \in Nat /\ Lengths(args)[Len(args)] \in Nat
      /\ Lengths(args)[n] = Lengths(args)[n - 1] + 1 + Quoted(args[n])
  BY <1>1, <1>2, LengthsAre
<1>4. Lengths(args)[n] <= Lengths(args)[Len(args)]
  BY <1>1, <1>2, LengthsGrow
<1>5. Specials(args[n], Len(args[n])) \in Nat
  BY <1>1, <1>2, SpecialsAre
<1>6. Quoted(args[n]) = 2 + Len(args[n]) + Specials(args[n], Len(args[n]))
  BY <1>1, QuotedIs
<1> QED BY <1>1, <1>3, <1>4, <1>5, <1>6

\* The memory that is allocated is enough for all that is written without a check.
LEMMA AllocatedSuffices ==
    ASSUME Position, at # "none", ~Sends, NEW n \in 1 .. Len(args)
    PROVE  /\ AtMost(n) \in Nat /\ Len(args[n]) \in Nat /\ Len(form.after) \in Nat
           /\ AtMost(n) + 2 + 2 * Len(args[n]) + Len(form.after) + 1 <= room
           /\ room \in Nat
           /\ n # 1 =>
                /\ n = 2 /\ Len(form.before[2]) \in Nat
                /\ AtMost(n) = AtMost(n - 1) + 2 + 2 * Len(args[n - 1]) + Len(form.before[2])
<1>1. /\ TypeOK /\ form \in Forms /\ Len(args) = Len(form.before) /\ room = Allocated(form, args)
      /\ room \in Nat
  BY DEF Position, TypeOK
<1>2. /\ form \in FormType /\ Len(form.before) \in {1, 2} /\ Fixed(form) <= form.size
  BY <1>1, EnoughAllocated
<1>3. Len(form.after) \in Nat /\ form.size \in Nat /\ form.before \in Seq(Seq(Plain))
  BY <1>2, LenProperties DEF FormType
<1>4. \A i \in 1 .. Len(form.before) : Len(form.before[i]) \in Nat
  BY <1>3, ElementOfSeq, LenProperties
<1>5. \A i \in 1 .. Len(args) : Len(args[i]) \in Nat
  BY <1>1, ArgumentIsText
<1>6. CASE Len(args) = 1
  <2> DEFINE b1 == Len(form.before[1])
             t1 == Len(args[1])
             a == Len(form.after)
  <2>1. n = 1 /\ t1 \in Nat /\ b1 \in Nat /\ a \in Nat /\ Len(form.before) = 1
    BY <1>1, <1>3, <1>4, <1>5, <1>6
  <2>2. AtMost(n) = b1 /\ Len(args[n]) = t1
    BY <2>1 DEF AtMost
  <2>3. Fixed(form) = b1 + 0 + 2 * 1 + a + 1
    BY <2>1 DEF Fixed
  <2>4. room = form.size + 2 * t1
    <3>1. Total(args) = t1 + 0
      BY <1>6 DEF Total
    <3> QED BY <1>1, <1>3, <2>1, <3>1 DEF Allocated
  <2>5. a = Len(form.after)
    OBVIOUS
  <2> HIDE DEF b1, t1, a
  <2>6. b1 + 2 + 2 * t1 + a + 1 <= room
    BY <1>2, <1>3, <2>1, <2>3, <2>4
  <2>7. AtMost(n) \in Nat /\ AtMost(n) + 2 + 2 * Len(args[n]) + Len(form.after) + 1 <= room
    BY <2>1, <2>2, <2>5, <2>6
  <2> QED BY <1>1, <1>3, <2>1, <2>2, <2>7
<1>7. CASE Len(args) = 2
  <2> DEFINE b1 == Len(form.before[1])
             b2 == Len(form.before[2])
             t1 == Len(args[1])
             t2 == Len(args[2])
             a == Len(form.after)
  <2>0. Len(form.before) = 2
    BY <1>1, <1>7
  <2>1. n \in {1, 2} /\ t1 \in Nat /\ t2 \in Nat /\ b1 \in Nat /\ b2 \in Nat /\ a \in Nat
    BY <1>3, <1>4, <1>5, <1>7, <2>0
  <2>2. AtMost(1) = b1 /\ AtMost(2) = b1 + 2 + 2 * t1 + b2
    BY DEF AtMost
  <2>3. b1 + b2 + 4 + a + 1 <= form.size
    <3>1. Fixed(form) = b1 + b2 + 2 * 2 + a + 1
      BY <2>0 DEF Fixed
    <3> HIDE DEF b1, b2, a
    <3> QED BY <1>2, <1>3, <2>1, <3>1
  <2>4. room = form.size + 2 * (t1 + t2)
    <3>1. Total(args) = t1 + t2
      BY <1>7 DEF Total
    <3> QED BY <1>1, <3>1 DEF Allocated
  <2>5. n = 1 => Len(args[n]) = t1
    OBVIOUS
  <2>6. n = 2 => Len(args[n]) = t2 /\ Len(args[n - 1]) = t1 /\ n - 1 = 1
    OBVIOUS
  <2> HIDE DEF b1, b2, t1, t2, a
  <2>7. CASE n = 1
    <3>1. AtMost(n) = b1 /\ Len(args[n]) = t1
      BY <2>2, <2>5, <2>7
    <3>2. b1 + 2 + 2 * t1 + a + 1 <= room
      BY <1>3, <2>1, <2>3, <2>4
    <3> QED BY <1>1, <2>1, <2>7, <3>1, <3>2 DEF a
  <2>8. CASE n = 2
    <3>1. AtMost(n) = b1 + 2 + 2 * t1 + b2 /\ Len(args[n]) = t2 /\ AtMost(n - 1) = b1
          /\ Len(args[n - 1]) = t1
      BY <2>2, <2>6, <2>8
    <3>2. (b1 + 2 + 2 * t1 + b2) + 2 + 2 * t2 + a + 1 <= room
      BY <1>3, <2>1, <2>3, <2>4
    <3>3. /\ AtMost(n) \in Nat /\ AtMost(n) + 2 + 2 * Len(args[n]) + a + 1 <= room
          /\ AtMost(n) = AtMost(n - 1) + 2 + 2 * Len(args[n - 1]) + b2
      BY <2>1, <3>1, <3>2
    <3> QED BY <1>1, <2>1, <2>8, <3>1, <3>3 DEF a, b2
  <2> QED BY <2>1, <2>7, <2>8
<1> QED BY <1>1, <1>2, <1>6, <1>7

LEMMA WriteLength ==
    ASSUME TypeOK, NEW t \in Seq(Written), NEW next, Write(t, next)
    PROVE  /\ Len(written') = Len(written) + Len(t) /\ Len(written) \in Nat /\ Len(t) \in Nat
           /\ at' = next /\ form' = form /\ args' = args /\ room' = room /\ room \in Nat
           /\ (Sends' <=> Sends)
BY ArgumentIsText, WrittenIsText, LenProperties DEF Write, TypeOK, Sends

LEMMA CallSendRoom ==
    ASSUME CallSend
    PROVE  Room'
<1>1. TypeOK'
  BY CallSendPosition DEF Position
<1>2. Sends' /\ arg' = 1 /\ room' \in Nat
  BY <1>1 DEF CallSend, Sends, TypeOK
<1>3. args' \in Seq(Arguments) /\ Len(Command) \in Nat
  BY <1>1, QuotingAssumption, LenProperties DEF TypeOK
<1>4. Lengths(args')[0] = Len(Command)
  BY <1>3, LengthsAre
<1>5. CASE at' = "separator" /\ written' = Command /\ ~(room' <= Len(Command))
  <2>1. Len(written') = Lengths(args')[arg' - 1] /\ Len(written') <= room' - 1
    BY <1>2, <1>3, <1>4, <1>5
  <2> QED BY <1>2, <1>5, <2>1 DEF Room, Measured, Bounded, End
<1>6. CASE at' = "refused" /\ written' = <<>>
  <2>1. Len(written') <= room'
    BY <1>2, <1>6
  <2> QED BY <1>2, <1>6, <2>1 DEF Room, Measured, Bounded
<1> QED BY <1>5, <1>6 DEF CallSend

LEMMA CallBuilderRoom ==
    ASSUME CallBuilder
    PROVE  Room'
<1>1. PICK f \in Forms : form' = f /\ written' = f.before[1]
  BY DEF CallBuilder
<1>2. f.before \in Seq(Seq(Plain)) /\ 1 \in 1 .. Len(f.before) /\ f # NoForm
  <2>1. f \in FormType /\ Len(f.before) \in {1, 2} /\ f # NoForm
    BY EnoughAllocated
  <2>2. \A n \in {1, 2} : 1 \in 1 .. n
    OBVIOUS
  <2>3. 1 \in 1 .. Len(f.before)
    BY <2>1, <2>2, Zenon
  <2> QED BY <2>1, <2>3 DEF FormType
<1>3. Len(f.before[1]) \in Nat
  BY <1>2, ElementOfSeq, LenProperties
<1>4. ~Sends' /\ arg' = 1 /\ at' = "open"
  BY <1>1, <1>2 DEF CallBuilder, Sends
<1>5. AtMost(1)' = Len(written')
  BY <1>1 DEF AtMost
<1> QED BY <1>1, <1>3, <1>4, <1>5 DEF Room, Measured, Bounded

LEMMA SeparateRoom ==
    ASSUME Position, Room, Separate
    PROVE  Room'
<1>1. /\ at = "separator" /\ Sends /\ arg \in 1 .. Len(args) + 1 /\ TypeOK
      /\ Len(args) \in Nat /\ Len(written) \in Nat /\ room \in Nat
      /\ Len(written) = Lengths(args)[arg - 1] /\ Len(written) <= room - 1
  BY ArgumentIsText DEF Separate, Position, Room, Measured, TypeOK, End
<1>2. CASE arg > Len(args) /\ Write(<<"newline">>, "done") /\ UNCHANGED arg
  <2>1. <<"newline">> \in Seq(Written) /\ Len(<<"newline">>) = 1
    BY OneCharacter DEF Written, Characters
  <2>2. /\ Len(written') = Len(written) + 1 /\ at' = "done" /\ args' = args /\ room' = room
        /\ Sends'
    BY <1>1, <1>2, <2>1, WriteLength
  <2>3. arg - 1 = Len(args)
    BY <1>1, <1>2
  <2>4. Len(written') = Needed' /\ Len(written') <= room'
    BY <1>1, <2>2, <2>3 DEF Needed
  <2> QED BY <2>2, <2>4 DEF Room, Measured, Bounded
<1>3. CASE Refuse
  <2>1. at' = "refused" /\ Len(written') <= room' /\ Sends'
    BY <1>1, <1>3 DEF Refuse, Sends
  <2> QED BY <2>1 DEF Room, Measured, Bounded
<1>4. CASE ~Full /\ Write(Space, "open") /\ UNCHANGED arg
  <2>1. Space \in Seq(Written) /\ Len(Space) = 1
    BY Texts, PlainIsWritten
  <2>2. /\ Len(written') = Len(written) + 1 /\ at' = "open" /\ args' = args /\ room' = room
        /\ arg' = arg /\ Sends'
    BY <1>1, <1>4, <2>1, WriteLength
  <2>3. ~(Len(written) >= room - 1)
    BY <1>4 DEF Full, End
  <2>4. Len(written') = Lengths(args')[arg' - 1] + 1 /\ Len(written') <= room' - 1
    BY <1>1, <2>2, <2>3
  <2> QED BY <2>2, <2>4 DEF Room, Measured, Bounded, End
<1> QED BY <1>2, <1>3, <1>4 DEF Separate

LEMMA OpenRoom ==
    ASSUME Position, Room, Open
    PROVE  Room'
<1>1. /\ at = "open" /\ TypeOK /\ InArgument /\ Taken = 0 /\ Len(written) \in Nat /\ room \in Nat
      /\ arg \in 1 .. Len(args) /\ args[arg] \in Text /\ Len(args) \in Nat
      /\ Len(args[arg]) \in Nat
      /\ Sends => Len(written) = Lengths(args)[arg - 1] + 1 /\ Len(written) <= room - 1
      /\ ~Sends => Len(written) <= AtMost(arg)
  BY ArgumentIsText DEF Open, Position, InArgument, Room, Measured, Bounded, TypeOK, End
<1>2. ~Sends => Len(written) <= room
  <2> SUFFICES ASSUME ~Sends PROVE Len(written) <= room
    OBVIOUS
  <2>1. /\ AtMost(arg) \in Nat /\ Len(form.after) \in Nat
        /\ AtMost(arg) + 2 + 2 * Len(args[arg]) + Len(form.after) + 1 <= room
    BY <1>1, AllocatedSuffices
  <2> QED BY <1>1, <2>1
<1>3. CASE Refuse
  <2>1. at' = "refused" /\ Len(written') <= room'
    BY <1>1, <1>2, <1>3 DEF Refuse
  <2> QED BY <2>1 DEF Room, Measured, Bounded
<1>4. CASE ~Full /\ Write(<<"quote">>, "escape") /\ UNCHANGED <<arg, rest>>
  <2>1. <<"quote">> \in Seq(Written) /\ Len(<<"quote">>) = 1
    BY OneCharacter DEF Written, Characters, Special
  <2>2. /\ Len(written') = Len(written) + 1 /\ at' = "escape" /\ args' = args /\ room' = room
        /\ form' = form /\ (Sends' <=> Sends)
    BY <1>1, <1>4, <2>1, WriteLength
  <2>3. arg' = arg /\ Taken' = 0 /\ (AtMost(arg))' = AtMost(arg)
    BY <1>1, <1>4, <2>2 DEF Taken, AtMost
  <2>4. Specials(args[arg], 0) = 0
    BY <1>1, SpecialsAre
  <2>5. ~(Len(written) >= room - 1)
    BY <1>4 DEF Full, End
  <2>6. CASE Sends
    <3>1. Lengths(args)[arg - 1] \in Nat
      BY <1>1, ArgumentLength
    <3>2. /\ Len(written') = Lengths(args)[arg - 1] + 2 + 0 + Specials(args[arg], 0)
          /\ Len(written') <= room - 1
      BY <1>1, <2>2, <2>4, <2>5, <2>6, <3>1
    <3> QED BY <2>2, <2>3, <2>6, <3>2 DEF Room, Measured, Bounded, End
  <2>7. CASE ~Sends
    <3>1. AtMost(arg) \in Nat
      BY <1>1, <2>7, AllocatedSuffices
    <3>2. Len(written') <= AtMost(arg) + 1 + 2 * 0
      BY <1>1, <2>2, <2>7, <3>1
    <3> QED BY <2>2, <2>3, <2>7, <3>2 DEF Room, Measured, Bounded
  <2> QED BY <2>6, <2>7
<1> QED BY <1>3, <1>4 DEF Open

LEMMA InsideIsEnough ==
    ASSUME Position, Room, at = "escape", ~Sends
    PROVE  AtMost(arg) \in Nat /\ Len(written) <= room
<1> DEFINE most == AtMost(arg)
           length == Len(args[arg])
           after == Len(form.after)
           size == Len(written)
<1>1. TypeOK /\ InArgument /\ arg \in 1 .. Len(args) /\ size \in Nat /\ room \in Nat
  BY ArgumentIsText DEF Position, InArgument, TypeOK
<1>2. /\ most \in Nat /\ length \in Nat /\ after \in Nat
      /\ most + 2 + 2 * length + after + 1 <= room
  BY <1>1, AllocatedSuffices
<1>3. Taken \in 0 .. length
  BY <1>1, InsideArgument
<1>4. size <= most + 1 + 2 * Taken
  BY DEF Room, Bounded
<1>5. size \in Nat /\ room \in Nat
  BY <1>1
<1> HIDE DEF most, length, after, size, Taken
<1>6. size <= room
  BY <1>2, <1>3, <1>4, <1>5
<1> QED BY <1>2, <1>6 DEF most, size

LEMMA EscapeRoom ==
    ASSUME Position, Room, Escape
    PROVE  Room'
<1> DEFINE text == args[arg]
           char == Head(rest)
<1>1. /\ at = "escape" /\ TypeOK /\ InArgument /\ rest # <<>> /\ Len(written) \in Nat
      /\ room \in Nat /\ arg \in 1 .. Len(args) /\ text \in Text /\ Len(text) \in Nat
      /\ Len(rest) \in Nat
      /\ Sends => /\ Len(written) = Lengths(args)[arg - 1] + 2 + Taken + Specials(text, Taken)
                  /\ Len(written) <= room - 1
      /\ ~Sends => Len(written) <= AtMost(arg) + 1 + 2 * Taken
  BY ArgumentIsText DEF Escape, Position, InArgument, Room, Measured, Bounded, TypeOK, End
<1>2. /\ Taken + 1 \in 1 .. Len(text) /\ char = text[Taken + 1] /\ char \in Characters
      /\ Len(Tail(rest)) = Len(rest) - 1 /\ Taken \in 0 .. Len(text)
  BY <1>1, InsideArgument
<1>3. ~Sends => AtMost(arg) \in Nat /\ Len(written) <= room
  BY <1>1, InsideIsEnough
<1>4. CASE Refuse
  <2>1. at' = "refused" /\ Len(written') <= room'
    BY <1>1, <1>3, <1>4 DEF Refuse
  <2> QED BY <2>1 DEF Room, Measured, Bounded
<1>5. CASE /\ ~(Full \/ char = "newline" \/ (char \in Special /\ Len(written) + 1 >= End))
           /\ Write(Escaped(char), "escape") /\ rest' = Tail(rest) /\ UNCHANGED arg
  <2>1. /\ Escaped(char) \in Seq(Written)
        /\ Len(Escaped(char)) = IF char \in Special THEN 2 ELSE 1
    BY <1>2, EscapedIs
  <2>2. /\ Len(written') = Len(written) + Len(Escaped(char)) /\ at' = "escape" /\ args' = args
        /\ room' = room /\ form' = form /\ (Sends' <=> Sends) /\ arg' = arg
    BY <1>1, <1>5, <2>1, WriteLength
  <2>3. Taken' = Taken + 1
    <3>1. Taken' = Len(text) - (Len(rest) - 1)
      BY <1>2, <1>5, <2>2, Zenon DEF Taken
    <3> QED BY <1>1, <3>1 DEF Taken
  <2>4. /\ Specials(text, Taken) \in Nat
        /\ Specials(text, Taken + 1) = Specials(text, Taken) + IF char \in Special THEN 1 ELSE 0
    <3> DEFINE k == Taken + 1
    <3>1. k \in 0 .. Len(text) /\ k # 0 /\ k - 1 = Taken /\ char = text[k]
      BY <1>1, <1>2
    <3> HIDE DEF k, text, char
    <3>2. Specials(text, k) = Specials(text, k - 1) + IF text[k] \in Special THEN 1 ELSE 0
      BY <1>1, <3>1, SpecialsAre
    <3>3. Specials(text, Taken) \in Nat
      BY <1>1, <1>2, SpecialsAre
    <3> QED BY <3>1, <3>2, <3>3 DEF k
  <2>5. ~(Len(written) >= room - 1) /\ (char \in Special => ~(Len(written) + 1 >= room - 1))
    BY <1>5 DEF Full, End
  <2>6. (AtMost(arg))' = AtMost(arg) /\ args'[arg'] = text
    BY <2>2 DEF AtMost
  <2> DEFINE extra == Len(Escaped(char))
             special == Specials(text, Taken)
             before == Lengths(args)[arg - 1]
  <2>0. /\ Taken \in Nat /\ Len(written) \in Nat /\ room \in Nat /\ special \in Nat
        /\ Len(written') = Len(written) + extra /\ Len(written) < room - 1
        /\ char \in Special => Len(written) + 1 < room - 1
    BY <1>1, <1>2, <2>2, <2>4, <2>5
  <2> HIDE DEF text, char, extra, special, before
  <2>7. CASE Sends
    <3>1. before \in Nat /\ Len(written) = before + 2 + Taken + special
      BY <1>1, <2>7, ArgumentLength DEF before, special
    <3>2. /\ Len(written') = before + 2 + (Taken + 1) + Specials(text, Taken + 1)
          /\ Len(written') <= room - 1
      <4>1. CASE char \in Special
        <5>1. extra = 2 /\ Specials(text, Taken + 1) = special + 1
          BY <2>1, <2>4, <4>1 DEF extra, special
        <5> QED BY <2>0, <3>1, <4>1, <5>1
      <4>2. CASE char \notin Special
        <5>1. extra = 1 /\ Specials(text, Taken + 1) = special + 0
          BY <2>1, <2>4, <4>2 DEF extra, special
        <5> QED BY <2>0, <3>1, <5>1
      <4> QED BY <4>1, <4>2
    <3> QED BY <2>2, <2>3, <2>6, <2>7, <3>2 DEF Room, Measured, Bounded, End, before
  <2>8. CASE ~Sends
    <3>1. Len(written') <= AtMost(arg) + 1 + 2 * (Taken + 1)
      <4>1. extra \in {1, 2}
        BY <2>1 DEF extra
      <4>2. AtMost(arg) \in Nat /\ Len(written) <= AtMost(arg) + 1 + 2 * Taken
        BY <1>1, <1>3, <2>8
      <4> QED BY <2>0, <4>1, <4>2
    <3> QED BY <2>2, <2>3, <2>6, <2>8, <3>1 DEF Room, Measured, Bounded
  <2> QED BY <2>7, <2>8
<1> QED BY <1>4, <1>5 DEF Escape

LEMMA CloseRoom ==
    ASSUME Position, Room, Close
    PROVE  Room'
<1> DEFINE text == args[arg]
<1>1. /\ at = "escape" /\ TypeOK /\ InArgument /\ rest = <<>> /\ Len(written) \in Nat
      /\ room \in Nat /\ arg \in 1 .. Len(args) /\ text \in Text /\ Len(text) \in Nat
      /\ Len(args) \in Nat
      /\ Sends => /\ Len(written) = Lengths(args)[arg - 1] + 2 + Taken + Specials(text, Taken)
                  /\ Len(written) <= room - 1
      /\ ~Sends => Len(written) <= AtMost(arg) + 1 + 2 * Taken
  BY ArgumentIsText DEF Close, Position, InArgument, Room, Measured, Bounded, TypeOK, End
<1>2. Taken = Len(text)
  BY <1>1, InsideArgument
<1>3. ~Sends => AtMost(arg) \in Nat /\ Len(written) <= room
  BY <1>1, InsideIsEnough
<1>4. CASE Refuse
  <2>1. at' = "refused" /\ Len(written') <= room'
    BY <1>1, <1>3, <1>4 DEF Refuse
  <2> QED BY <2>1 DEF Room, Measured, Bounded
<1>5. CASE /\ ~Full /\ arg' = arg + 1
           /\ Write(<<"quote">>, IF Sends THEN "separator" ELSE "between")
  <2>1. <<"quote">> \in Seq(Written) /\ Len(<<"quote">>) = 1
    BY OneCharacter DEF Written, Characters, Special
  <2>2. /\ Len(written') = Len(written) + 1 /\ at' = (IF Sends THEN "separator" ELSE "between")
        /\ args' = args /\ room' = room /\ form' = form /\ (Sends' <=> Sends) /\ arg' - 1 = arg
    <3>1. /\ Len(written') = Len(written) + 1 /\ args' = args /\ room' = room /\ form' = form
          /\ at' = (IF Sends THEN "separator" ELSE "between") /\ (Sends' <=> Sends)
      BY <1>1, <1>5, <2>1, WriteLength, Zenon
    <3>2. arg' - 1 = arg
      BY <1>1, <1>5
    <3> QED BY <3>1, <3>2
  <2>3. ~(Len(written) >= room - 1)
    BY <1>5 DEF Full, End
  <2>4. (AtMost(arg - 1))' = AtMost(arg) /\ args'[arg' - 1] = text
    BY <2>2 DEF AtMost
  <2> HIDE DEF text
  <2>5. CASE Sends
    <3>1. /\ Lengths(args)[arg - 1] \in Nat /\ Specials(text, Len(text)) \in Nat
          /\ Lengths(args)[arg] = Lengths(args)[arg - 1] + 3 + Len(text) + Specials(text, Len(text))
      BY <1>1, ArgumentLength DEF text
    <3>2. Len(written') = Lengths(args)[arg] /\ Len(written') <= room - 1
      <4> DEFINE special == Specials(text, Len(text))
                 before == Lengths(args)[arg - 1]
      <4>1. /\ Len(written') = Len(written) + 1 /\ Len(written) = before + 2 + Len(text) + special
            /\ Lengths(args)[arg] = before + 3 + Len(text) + special
            /\ Len(written) < room - 1
        BY <1>1, <1>2, <2>2, <2>3, <2>5, <3>1
      <4>2. before \in Nat /\ special \in Nat /\ Len(text) \in Nat /\ Len(written) \in Nat
            /\ room \in Nat
        BY <1>1, <3>1
      <4> HIDE DEF special, before
      <4> QED BY <4>1, <4>2
    <3>3. Len(written') = Lengths(args')[arg' - 1] /\ Len(written') <= room' - 1
      BY <2>2, <3>2
    <3> QED BY <2>2, <2>5, <3>3 DEF Room, Measured, Bounded, End
  <2>6. CASE ~Sends
    <3>1. Len(written') <= AtMost(arg) + 2 + 2 * Len(text)
      BY <1>1, <1>2, <1>3, <2>2, <2>6
    <3> QED BY <2>2, <2>4, <2>6, <3>1 DEF Room, Measured, Bounded
  <2> QED BY <2>5, <2>6
<1> QED BY <1>4, <1>5 DEF Close

LEMMA BetweenRoom ==
    ASSUME Position, Room, Between
    PROVE  Room'
<1> DEFINE last == arg - 1
<1>1. /\ at = "between" /\ ~Sends /\ arg \in 2 .. Len(args) + 1 /\ TypeOK /\ form \in Forms
      /\ Len(args) = Len(form.before) /\ Len(args) \in Nat /\ Len(written) \in Nat
      /\ Len(written) <= AtMost(last) + 2 + 2 * Len(args[last])
  BY ArgumentIsText DEF Between, Position, Room, Bounded
<1>2. last \in 1 .. Len(args)
  BY <1>1
<1>3. form.before \in Seq(Seq(Plain)) /\ form.after \in Seq(Plain)
  BY <1>1, EnoughAllocated DEF FormType
<1>4. CASE arg <= Len(args) /\ Write(form.before[arg], "open") /\ UNCHANGED arg
  <2> DEFINE t == form.before[arg]
  <2>1. arg \in 1 .. Len(args) /\ arg \in 1 .. Len(form.before) /\ arg # 1
    BY <1>1, <1>4
  <2>2. t \in Seq(Written)
    BY <1>3, <2>1, ElementOfSeq, PlainIsWritten
  <2>3. /\ Len(written') = Len(written) + Len(t) /\ at' = "open" /\ args' = args
        /\ form' = form /\ ~Sends' /\ arg' = arg /\ Len(t) \in Nat
    BY <1>1, <1>4, <2>2, WriteLength
  <2>4. /\ AtMost(arg) = AtMost(last) + 2 + 2 * Len(args[last]) + Len(form.before[2])
        /\ arg = 2 /\ Len(form.before[2]) \in Nat
    BY <1>1, <2>1, AllocatedSuffices
  <2>5. AtMost(last) \in Nat /\ Len(args[last]) \in Nat
    BY <1>1, <1>2, AllocatedSuffices
  <2>6. (AtMost(arg))' = AtMost(arg) /\ Len(t) = Len(form.before[2])
    BY <2>3, <2>4 DEF AtMost
  <2>7. Len(written) \in Nat /\ Len(written) <= AtMost(last) + 2 + 2 * Len(args[last])
    BY <1>1
  <2> DEFINE most == AtMost(last)
             length == Len(args[last])
             between == Len(form.before[2])
             size == Len(written)
  <2>8. /\ most \in Nat /\ length \in Nat /\ between \in Nat /\ size \in Nat
        /\ size <= most + 2 + 2 * length
    BY <2>4, <2>5, <2>7
  <2>9. Len(written') = size + between /\ AtMost(arg) = most + 2 + 2 * length + between
    BY <2>3, <2>4, <2>6
  <2> HIDE DEF t, last, most, length, between, size
  <2>10. Len(written') <= AtMost(arg)
    BY <2>8, <2>9
  <2> QED BY <2>3, <2>6, <2>10 DEF Room, Measured, Bounded
<1>5. CASE arg > Len(args) /\ Write(Append(form.after, "NUL"), "done")
  <2> DEFINE t == Append(form.after, "NUL")
  <2>1. t \in Seq(Written) /\ Len(t) = Len(form.after) + 1
    <3> DEFINE after == form.after
    <3>1. after \in Seq(Written) /\ "NUL" \in Written
      BY <1>3, PlainIsWritten DEF Written
    <3> HIDE DEF after
    <3>2. Append(after, "NUL") \in Seq(Written) /\ Len(Append(after, "NUL")) = Len(after) + 1
      BY <3>1, AppendProperties
    <3> QED BY <3>2 DEF after
  <2>2. /\ Len(written') = Len(written) + Len(t) /\ at' = "done" /\ room' = room /\ ~Sends'
    BY <1>1, <1>5, <2>1, WriteLength
  <2>3. /\ AtMost(last) \in Nat /\ Len(args[last]) \in Nat /\ Len(form.after) \in Nat
        /\ AtMost(last) + 2 + 2 * Len(args[last]) + Len(form.after) + 1 <= room /\ room \in Nat
    BY <1>1, <1>2, AllocatedSuffices
  <2>4. Len(written) \in Nat /\ Len(written) <= AtMost(last) + 2 + 2 * Len(args[last])
    BY <1>1
  <2> DEFINE most == AtMost(last)
             length == Len(args[last])
             after == Len(form.after)
             size == Len(written)
  <2>5. /\ most \in Nat /\ length \in Nat /\ after \in Nat /\ size \in Nat /\ room \in Nat
        /\ most + 2 + 2 * length + after + 1 <= room /\ size <= most + 2 + 2 * length
    BY <2>3, <2>4
  <2>6. Len(written') = size + after + 1 /\ room' = room
    <3> HIDE DEF t
    <3> QED BY <2>1, <2>2, <2>5
  <2> HIDE DEF t, last, most, length, after, size
  <2>7. Len(written') <= room'
    BY <2>5, <2>6
  <2> QED BY <2>2, <2>7 DEF Room, Measured, Bounded
<1> QED BY <1>4, <1>5 DEF Between

LEMMA RoomKept ==
    ASSUME Position, Room, [Next]_vars
    PROVE  Room'
<1>1. CASE Return
  BY <1>1 DEF Return, Room, Measured, Bounded
<1>2. CASE UNCHANGED vars
  BY <1>2 DEF vars, Room, Measured, Bounded, Sends, End, Taken, Needed, AtMost
<1> QED BY <1>1, <1>2, CallSendRoom, CallBuilderRoom, SeparateRoom, OpenRoom, EscapeRoom,
           CloseRoom, BetweenRoom DEF Next

LEMMA RoomHolds == Spec => []Room
<1>1. Init => Room
  BY DEF Init, Room, Measured, Bounded, Sends
<1> QED BY <1>1, RoomKept, PositionHolds, PTL DEF Spec

NothingYet == at = "none" => written = <<>>

LEMMA NothingYetHolds == Spec => []NothingYet
<1>1. Init => NothingYet
  BY DEF Init, NothingYet
<1>2. ASSUME NothingYet, [Next]_vars PROVE NothingYet'
  <2>1. CASE Return
    BY <2>1 DEF Return, NothingYet
  <2>2. CASE UNCHANGED vars
    BY <1>2, <2>2 DEF vars, NothingYet
  <2>3. ASSUME CallSend \/ CallBuilder \/ Separate \/ Open \/ Escape \/ Close \/ Between
        PROVE  at' # "none"
    BY <2>3 DEF CallSend, CallBuilder, Separate, Open, Escape, Close, Between, Write, Refuse
  <2> QED BY <1>2, <2>1, <2>2, <2>3 DEF Next, NothingYet
<1> QED BY <1>1, <1>2, PTL DEF Spec

\* Nothing is written behind the end of the memory, be it the output buffer,
\* where quote.c checks every byte, or memory allocated for the worst case,
\* where half of the bytes are written unchecked.
THEOREM NothingBehindTheEnd == Spec => []WithinMemory
<1>1. ASSUME Position, Room, NothingYet
      PROVE  WithinMemory
  <2>1. TypeOK /\ Len(written) \in Nat /\ room \in Nat
    BY <1>1, ArgumentIsText DEF Position, TypeOK
  <2>2. CASE at = "none"
    <3>1. Len(written) = 0
      BY <1>1, <2>2, EmptySeq DEF NothingYet
    <3> QED BY <2>1, <3>1 DEF WithinMemory
  <2>3. CASE at \in {"done", "refused"}
    BY <1>1, <2>3 DEF Room, Measured, Bounded, WithinMemory
  <2>4. CASE at \in {"separator", "open", "escape"} /\ (Sends \/ at = "separator")
    <3>1. Len(written) <= room - 1
      BY <1>1, <2>4 DEF Room, Measured, End
    <3> QED BY <2>1, <3>1 DEF WithinMemory
  <2>5. CASE at \in {"open", "escape"} /\ ~Sends
    <3> DEFINE text == args[arg]
               most == AtMost(arg)
               after == Len(form.after)
    <3>1. InArgument /\ arg \in 1 .. Len(args)
      BY <1>1, <2>5 DEF Position, InArgument
    <3>2. /\ most \in Nat /\ Len(text) \in Nat /\ after \in Nat
          /\ most + 2 + 2 * Len(text) + after + 1 <= room
      BY <1>1, <2>5, <3>1, AllocatedSuffices
    <3>3. Taken \in 0 .. Len(text)
      BY <2>1, <3>1, InsideArgument
    <3>4. Len(written) <= most \/ Len(written) <= most + 1 + 2 * Taken
      BY <1>1, <2>5 DEF Room, Bounded
    <3> HIDE DEF text, most, after
    <3>5. Taken \in Nat /\ Taken <= Len(text)
      BY <3>2, <3>3
    <3> QED BY <2>1, <3>2, <3>4, <3>5 DEF WithinMemory
  <2>6. CASE at = "between"
    <3> DEFINE last == arg - 1
               most == AtMost(last)
               text == args[last]
               after == Len(form.after)
    <3>1. ~Sends /\ arg \in 2 .. Len(args) + 1 /\ Len(args) \in Nat
      BY <1>1, <2>1, <2>6, ArgumentIsText DEF Position
    <3>2. last \in 1 .. Len(args)
      BY <3>1
    <3>3. /\ most \in Nat /\ Len(text) \in Nat /\ after \in Nat
          /\ most + 2 + 2 * Len(text) + after + 1 <= room
      BY <1>1, <2>6, <3>1, <3>2, AllocatedSuffices
    <3>4. Len(written) <= most + 2 + 2 * Len(text)
      BY <1>1, <2>6, <3>1 DEF Room, Bounded
    <3> HIDE DEF last, text, most, after
    <3> QED BY <2>1, <3>3, <3>4 DEF WithinMemory
  <2> QED BY <2>1, <2>2, <2>3, <2>4, <2>5, <2>6 DEF TypeOK
<1> QED BY <1>1, PositionHolds, RoomHolds, NothingYetHolds, PTL

(***************************************************************************)
(* What is refused                                                         *)
(***************************************************************************)
\* Up to the end, what is left to write behind an argument is too much if what
\* has been written of it leaves no room.
LEMMA TooLong ==
    ASSUME TypeOK, NEW n \in 1 .. Len(args), NEW size \in Nat,
           size <= Lengths(args)[n] - 1, size >= room - 1
    PROVE  ~(Needed <= room)
<1> DEFINE length == Lengths(args)[n]
           all == Lengths(args)[Len(args)]
<1>1. /\ length = Lengths(args)[n - 1] + 3 + Len(args[n]) + Specials(args[n], Len(args[n]))
      /\ Lengths(args)[n - 1] \in Nat /\ Specials(args[n], Len(args[n])) \in Nat
      /\ Len(args[n]) \in Nat /\ all \in Nat /\ length <= all
  BY ArgumentLength
<1>2. room \in Nat /\ Needed = all + 1
  BY DEF TypeOK, Needed
<1> DEFINE before == Lengths(args)[n - 1]
           special == Specials(args[n], Len(args[n]))
           text == Len(args[n])
<1>3. size <= length - 1
  OBVIOUS
<1> HIDE DEF length, all, before, special, text
<1>4. /\ length = before + 3 + text + special
      /\ before \in Nat /\ text \in Nat /\ special \in Nat
  BY <1>1 DEF before, special, text
<1>5. length \in Nat
  BY <1>4
<1> QED BY <1>1, <1>2, <1>3, <1>5

LEMMA CallSendScans ==
    ASSUME CallSend
    PROVE  Scans'
<1>1. TypeOK' /\ Sends'
  BY CallSendPosition DEF Position, CallSend, Sends
<1>2. args' \in Seq(Arguments) /\ Len(args') \in Nat /\ room' \in Nat
  BY <1>1, LenProperties DEF TypeOK
<1>3. CASE at' = "refused" /\ room' <= Len(Command)
  <2> DEFINE all == Lengths(args')[Len(args')]
  <2>1. 0 \in 0 .. Len(args') /\ Len(args') \in 0 .. Len(args')
    BY <1>2
  <2>2. /\ Lengths(args')[0] <= all /\ Lengths(args')[0] = Len(Command) /\ all \in Nat
        /\ Len(Command) \in Nat
    BY <1>2, <2>1, LengthsAre, LengthsGrow, QuotingAssumption, LenProperties
  <2>3. Needed' = all + 1
    BY DEF Needed
  <2> HIDE DEF all
  <2>4. ~(Needed' <= room')
    BY <1>2, <1>3, <2>2, <2>3
  <2> QED BY <1>1, <1>3, <2>4 DEF Scans, Fits
<1>4. CASE at' = "separator"
  <2>1. \A i \in 1 .. arg' - 1 : FALSE
    BY DEF CallSend
  <2> QED BY <1>4, <2>1 DEF Scans, Scanned
<1> QED BY <1>3, <1>4 DEF CallSend

LEMMA CallBuilderScans ==
    ASSUME CallBuilder
    PROVE  Scans'
<1>1. \A i \in 1 .. arg' - 1 : FALSE
  BY DEF CallBuilder
<1>2. at' = "open"
  BY DEF CallBuilder
<1> QED BY <1>1, <1>2 DEF Scans, Scanned

\* A function that refuses leaves its arguments, and the memory, alone.
LEMMA RefuseScans ==
    ASSUME Refuse, ~Fits
    PROVE  Scans'
BY DEF Refuse, Scans, Fits, Scanned, Sends, Needed

LEMMA SeparateScans ==
    ASSUME Position, Room, Scans, Separate
    PROVE  Scans'
<1>1. /\ at = "separator" /\ Sends /\ arg \in 1 .. Len(args) + 1 /\ TypeOK
      /\ Len(args) \in Nat /\ Len(written) \in Nat /\ Scanned(arg - 1)
      /\ Len(written) = Lengths(args)[arg - 1]
  BY ArgumentIsText DEF Separate, Position, Room, Measured, Scans
<1>2. CASE arg > Len(args) /\ Write(<<"newline">>, "done") /\ UNCHANGED arg
  <2>1. at' = "done" /\ args' = args /\ Sends'
    BY <1>1, <1>2 DEF Write, Sends
  <2>2. Needed' <= room'
    BY <1>2, <2>1, SeparateRoom DEF Room, Measured
  <2>3. arg - 1 = Len(args)
    BY <1>1, <1>2
  <2> QED BY <1>1, <2>1, <2>2, <2>3 DEF Scans, Fits, Scanned
<1>3. CASE arg <= Len(args) /\ Full /\ Refuse
  <2>1. arg \in 1 .. Len(args) /\ Len(written) >= room - 1
    BY <1>1, <1>3 DEF Full, End
  <2>2. /\ Lengths(args)[arg - 1] \in Nat
        /\ Lengths(args)[arg - 1] <= Lengths(args)[arg] - 1
    <3> DEFINE special == Specials(args[arg], Len(args[arg]))
               before == Lengths(args)[arg - 1]
               length == Len(args[arg])
    <3>1. /\ Lengths(args)[arg] = before + 3 + length + special
          /\ before \in Nat /\ length \in Nat /\ special \in Nat
      BY <1>1, <2>1, ArgumentLength
    <3> HIDE DEF special, before, length
    <3>2. before \in Nat /\ before <= Lengths(args)[arg] - 1
      BY <3>1
    <3> QED BY <3>2 DEF before
  <2>3. ~(Needed <= room)
    BY <1>1, <2>1, <2>2, TooLong
  <2> QED BY <1>1, <1>3, <2>3, RefuseScans DEF Fits
<1>4. CASE Write(Space, "open") /\ UNCHANGED arg
  BY <1>1, <1>4 DEF Write, Scans, Scanned
<1> QED BY <1>2, <1>3, <1>4 DEF Separate

LEMMA OpenScans ==
    ASSUME Position, Room, Scans, Open
    PROVE  Scans'
<1>1. /\ at = "open" /\ TypeOK /\ InArgument /\ Taken = 0 /\ Len(written) \in Nat
      /\ room \in Nat /\ arg \in 1 .. Len(args) /\ Scanned(arg - 1)
  BY ArgumentIsText DEF Open, Position, InArgument, Scans, TypeOK
<1>2. CASE Full /\ Refuse
  <2>1. Len(written) >= room - 1
    BY <1>2 DEF Full, End
  <2>2. CASE Sends
    <3> DEFINE special == Specials(args[arg], Len(args[arg]))
               before == Lengths(args)[arg - 1]
               length == Len(args[arg])
    <3>1. /\ Lengths(args)[arg] = before + 3 + length + special
          /\ before \in Nat /\ length \in Nat /\ special \in Nat
      BY <1>1, ArgumentLength
    <3>2. Len(written) = before + 1
      BY <1>1, <2>2 DEF Room, Measured
    <3> HIDE DEF special, before, length
    <3>3. Len(written) <= Lengths(args)[arg] - 1
      BY <3>1, <3>2
    <3>4. ~(Needed <= room)
      BY <1>1, <2>1, <3>3, TooLong
    <3> QED BY <1>2, <2>2, <3>4, RefuseScans DEF Fits
  <2>3. CASE ~Sends
    <3> DEFINE most == AtMost(arg)
               length == Len(args[arg])
               after == Len(form.after)
    <3>1. /\ most \in Nat /\ length \in Nat /\ after \in Nat
          /\ most + 2 + 2 * length + after + 1 <= room
      BY <1>1, <2>3, AllocatedSuffices
    <3>2. Len(written) <= most
      BY <1>1, <2>3 DEF Room, Bounded
    <3> HIDE DEF most, length, after
    <3> QED BY <1>1, <2>1, <3>1, <3>2
  <2> QED BY <2>2, <2>3
<1>3. CASE Write(<<"quote">>, "escape") /\ UNCHANGED <<arg, rest>>
  <2>1. at' = "escape" /\ args' = args /\ arg' = arg /\ Taken' = 0
    BY <1>1, <1>3 DEF Write, Taken
  <2>2. \A i \in 1 .. Taken' : FALSE
    BY <2>1
  <2> QED BY <1>1, <2>1, <2>2 DEF Scans, Scanned
<1> QED BY <1>2, <1>3 DEF Open

LEMMA EscapeScans ==
    ASSUME Position, Room, Scans, Escape
    PROVE  Scans'
<1> DEFINE text == args[arg]
           char == Head(rest)
<1>1. /\ at = "escape" /\ TypeOK /\ InArgument /\ rest # <<>> /\ Len(written) \in Nat
      /\ room \in Nat /\ arg \in 1 .. Len(args) /\ text \in Text /\ Len(text) \in Nat
      /\ Len(rest) \in Nat /\ Len(args) \in Nat
      /\ Scanned(arg - 1) /\ \A i \in 1 .. Taken : text[i] # "newline"
  BY ArgumentIsText DEF Escape, Position, InArgument, Scans, TypeOK
<1>2. /\ Taken + 1 \in 1 .. Len(text) /\ char = text[Taken + 1]
      /\ Len(Tail(rest)) = Len(rest) - 1 /\ Taken \in 0 .. Len(text)
  BY <1>1, InsideArgument
<1>3. Taken \in Nat /\ Taken < Len(text)
  BY <1>1, <1>2
<1>4. CASE char = "newline" /\ Refuse
  <2>1. ~NoNewline(args[arg])
    BY <1>2, <1>4 DEF NoNewline
  <2>2. ~Scanned(Len(args))
    BY <1>1, <2>1 DEF Scanned
  <2> QED BY <1>4, <2>2, RefuseScans DEF Fits
<1>5. CASE (Full \/ (char \in Special /\ Len(written) + 1 >= End)) /\ Refuse
  <2>1. /\ Len(written) + (IF char \in Special THEN 1 ELSE 0) >= room - 1
    BY <1>1, <1>5 DEF Full, End
  <2>2. CASE Sends
    <3> DEFINE special == Specials(text, Len(text))
               sofar == Specials(text, Taken)
               more == Specials(text, Taken + 1)
               before == Lengths(args)[arg - 1]
               length == Len(text)
    <3>1. /\ Lengths(args)[arg] = before + 3 + length + special
          /\ before \in Nat /\ length \in Nat /\ special \in Nat
      BY <1>1, ArgumentLength
    <3>2. Len(written) = before + 2 + Taken + sofar
      BY <1>1, <2>2 DEF Room, Measured
    <3>3. /\ more <= special /\ more \in Nat /\ sofar \in Nat
          /\ more = sofar + IF char \in Special THEN 1 ELSE 0
      <4> DEFINE k == Taken + 1
      <4>1. k \in 0 .. Len(text) /\ k # 0 /\ k - 1 = Taken /\ char = text[k]
        BY <1>1, <1>2
      <4> HIDE DEF k, text, char
      <4>2. /\ Specials(text, k) = Specials(text, k - 1) + IF text[k] \in Special THEN 1 ELSE 0
            /\ Specials(text, k) <= Specials(text, Len(text)) /\ Specials(text, k) \in Nat
        BY <1>1, <4>1, SpecialsAre
      <4>3. Specials(text, Taken) \in Nat
        BY <1>1, <1>2, SpecialsAre
      <4> QED BY <4>1, <4>2, <4>3 DEF k
    <3> DEFINE size == before + 2 + Taken + more
    <3>4. Len(text) = length
      OBVIOUS
    <3> HIDE DEF special, before, length, sofar, more, text, char
    <3>5. size >= room - 1 /\ size \in Nat
      <4>1. size = Len(written) + (IF char \in Special THEN 1 ELSE 0)
        <5>1. CASE char \in Special
          BY <1>3, <3>1, <3>2, <3>3, <5>1
        <5>2. CASE char \notin Special
          BY <1>3, <3>1, <3>2, <3>3, <5>2
        <5> QED BY <5>1, <5>2
      <4> QED BY <1>3, <2>1, <3>1, <3>3, <4>1
    <3>6. size <= Lengths(args)[arg] - 1
      BY <1>3, <3>1, <3>3, <3>4
    <3> HIDE DEF size
    <3>7. ~(Needed <= room)
      BY <1>1, <3>5, <3>6, TooLong
    <3> QED BY <1>5, <2>2, <3>7, RefuseScans DEF Fits
  <2>3. CASE ~Sends
    <3> DEFINE most == AtMost(arg)
               length == Len(text)
               after == Len(form.after)
    <3>1. /\ most \in Nat /\ length \in Nat /\ after \in Nat
          /\ most + 2 + 2 * length + after + 1 <= room
      BY <1>1, <2>3, AllocatedSuffices
    <3>2. Len(written) <= most + 1 + 2 * Taken
      BY <1>1, <2>3 DEF Room, Bounded
    <3>3. Taken + 1 <= length
      BY <1>1, <1>3
    <3>4. Len(written) + 1 >= room - 1
      <4> HIDE DEF char
      <4> QED BY <1>1, <2>1
    <3> HIDE DEF most, length, after, text, char
    <3> QED BY <1>1, <1>3, <3>1, <3>2, <3>3, <3>4
  <2> QED BY <2>2, <2>3
<1>6. CASE /\ char # "newline" /\ Write(Escaped(char), "escape") /\ rest' = Tail(rest)
           /\ UNCHANGED arg
  <2>1. at' = "escape" /\ args' = args /\ arg' = arg
    BY <1>6 DEF Write
  <2>2. Taken' = Taken + 1
    <3>1. Taken' = Len(text) - (Len(rest) - 1)
      BY <1>2, <1>6, <2>1, Zenon DEF Taken
    <3> QED BY <1>1, <3>1 DEF Taken
  <2>3. \A i \in 1 .. Taken + 1 : text[i] # "newline"
    <3>1. \A i \in 1 .. Taken + 1 : i \in 1 .. Taken \/ i = Taken + 1
      BY <1>3
    <3> HIDE DEF text, char
    <3> QED BY <1>1, <1>2, <1>6, <3>1
  <2>4. Scanned(arg - 1)'
    BY <1>1, <2>1 DEF Scanned
  <2>5. \A i \in 1 .. Taken' : args'[arg'][i] # "newline"
    <3>1. args'[arg'] = text
      BY <2>1
    <3> HIDE DEF text
    <3> QED BY <2>2, <2>3, <3>1
  <2>6. ~(at' \in {"separator", "open", "between"}) /\ at' # "done" /\ at' # "refused"
    BY <2>1
  <2> QED BY <2>4, <2>5, <2>6 DEF Scans
<1> QED BY <1>4, <1>5, <1>6 DEF Escape

LEMMA CloseScans ==
    ASSUME Position, Room, Scans, Close
    PROVE  Scans'
<1> DEFINE text == args[arg]
<1>1. /\ at = "escape" /\ TypeOK /\ InArgument /\ rest = <<>> /\ Len(written) \in Nat
      /\ room \in Nat /\ arg \in 1 .. Len(args) /\ text \in Text /\ Len(text) \in Nat
      /\ Scanned(arg - 1) /\ \A i \in 1 .. Taken : text[i] # "newline"
  BY ArgumentIsText DEF Close, Position, InArgument, Scans, TypeOK
<1>2. Taken = Len(text)
  BY <1>1, InsideArgument
<1>3. CASE Full /\ Refuse
  <2>1. Len(written) >= room - 1
    BY <1>3 DEF Full, End
  <2>2. CASE Sends
    <3> DEFINE special == Specials(text, Len(text))
               before == Lengths(args)[arg - 1]
               length == Len(text)
    <3>1. /\ Lengths(args)[arg] = before + 3 + length + special
          /\ before \in Nat /\ length \in Nat /\ special \in Nat
      BY <1>1, ArgumentLength
    <3>2. Len(written) = before + 2 + length + special
      BY <1>1, <1>2, <2>2 DEF Room, Measured
    <3> HIDE DEF special, before, length
    <3>3. Len(written) <= Lengths(args)[arg] - 1
      BY <3>1, <3>2
    <3>4. ~(Needed <= room)
      BY <1>1, <2>1, <3>3, TooLong
    <3> QED BY <1>3, <2>2, <3>4, RefuseScans DEF Fits
  <2>3. CASE ~Sends
    <3> DEFINE most == AtMost(arg)
               length == Len(text)
               after == Len(form.after)
    <3>1. /\ most \in Nat /\ length \in Nat /\ after \in Nat
          /\ most + 2 + 2 * length + after + 1 <= room
      BY <1>1, <2>3, AllocatedSuffices
    <3>2. Len(written) <= most + 1 + 2 * length
      BY <1>1, <1>2, <2>3 DEF Room, Bounded
    <3> HIDE DEF most, length, after, text
    <3> QED BY <1>1, <2>1, <3>1, <3>2
  <2> QED BY <2>2, <2>3
<1>4. CASE /\ arg' = arg + 1
           /\ Write(<<"quote">>, IF Sends THEN "separator" ELSE "between")
  <2>1. args' = args /\ at' \in {"separator", "between"} /\ arg' - 1 = arg
    BY <1>1, <1>4 DEF Write
  <2>2. NoNewline(text)
    BY <1>1, <1>2 DEF NoNewline
  <2>3. \A i \in 1 .. arg : i \in 1 .. arg - 1 \/ i = arg
    BY <1>1
  <2>4. Scanned(arg)
    BY <1>1, <2>2, <2>3 DEF Scanned
  <2>5. Scanned(arg - 1)'
    BY <2>1, <2>4 DEF Scanned
  <2> QED BY <2>1, <2>5 DEF Scans
<1> QED BY <1>3, <1>4 DEF Close

LEMMA BetweenScans ==
    ASSUME Position, Scans, Between
    PROVE  Scans'
<1>1. /\ at = "between" /\ ~Sends /\ arg \in 2 .. Len(args) + 1 /\ Scanned(arg - 1)
      /\ Len(args) \in Nat /\ args' = args /\ form' = form /\ arg' = arg
  BY ArgumentIsText DEF Between, Position, Scans, Write
<1>2. CASE arg <= Len(args) /\ Write(form.before[arg], "open")
  <2>1. at' = "open" /\ Scanned(arg - 1)'
    BY <1>1, <1>2 DEF Write, Scanned
  <2> QED BY <2>1 DEF Scans
<1>3. CASE arg > Len(args) /\ Write(Append(form.after, "NUL"), "done")
  <2>1. at' = "done" /\ ~Sends' /\ arg - 1 = Len(args)
    BY <1>1, <1>3 DEF Write, Sends
  <2>2. Fits'
    BY <1>1, <2>1 DEF Fits, Scanned
  <2> QED BY <2>1, <2>2 DEF Scans
<1> QED BY <1>2, <1>3 DEF Between

LEMMA ScansKept ==
    ASSUME Position, Room, Scans, [Next]_vars
    PROVE  Scans'
<1>1. CASE Return
  BY <1>1 DEF Return, Scans
<1>2. CASE UNCHANGED vars
  BY <1>2 DEF vars, Scans, Scanned, Fits, Sends, Needed, Taken
<1> QED BY <1>1, <1>2, CallSendScans, CallBuilderScans, SeparateScans, OpenScans, EscapeScans,
           CloseScans, BetweenScans DEF Next

LEMMA ScansHolds == Spec => []Scans
<1>1. Init => Scans
  BY DEF Init, Scans
<1> QED BY <1>1, ScansKept, PositionHolds, RoomHolds, PTL DEF Spec

\* A request is refused for a newline in an argument, or because it does not
\* fit, and for nothing else: quote.c leaves no byte unused, and the worst-case
\* allocations are never too small.
THEOREM RefusedForThatOnly == Spec => []RefusedForCause
<1>1. ASSUME Position, Scans
      PROVE  RefusedForCause
  <2>1. args \in Seq(Arguments) /\ DOMAIN args = 1 .. Len(args)
    BY <1>1 DEF Position, TypeOK
  <2>2. ASSUME NEW i \in 1 .. Len(args)
        PROVE  "newline" \notin Range(args[i]) <=> NoNewline(args[i])
    <3>1. args[i] \in Text
      BY <1>1, <2>2, ArgumentIsText DEF Position
    <3>2. DOMAIN args[i] = 1 .. Len(args[i])
      BY <3>1 DEF Text
    <3> QED BY <3>2 DEF Range, NoNewline
  <2>3. Scanned(Len(args)) <=> \A i \in DOMAIN args : "newline" \notin Range(args[i])
    BY <2>1, <2>2 DEF Scanned
  <2> QED BY <1>1, <2>3 DEF RefusedForCause, Scans, Fits
<1> QED BY <1>1, PositionHolds, ScansHolds, PTL
=============================================================================
