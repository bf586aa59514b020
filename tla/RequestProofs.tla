--------------------------- MODULE RequestProofs ---------------------------
(***************************************************************************)
(* Theorems about the two ways in which requests are made: the builder of  *)
(* Search, for any number of requests and parts, and the functions of      *)
(* Commands, for every function with any values that its parameters can    *)
(* have, and any width of an unsigned: what MPD reads is what the caller   *)
(* meant, and what a run function promises.                                *)
(***************************************************************************)
EXTENDS Search, Commands, ConnectionProofs, WellFoundedInduction

(***************************************************************************)
(* The request builder.                                                    *)
(***************************************************************************)
\* The steps of the connection that a function of the builder takes.
BuilderStep ==
    \/ UNCHANGED vars
    \/ BadArgument
    \/ OutOfTurn
    \/ OutOfMemory
    \/ \E long \in BOOLEAN : (long => LongArguments) /\ SendCommand("cmd", long)

LEMMA SortIsWritten ==
    /\ AddSort(TRUE) => Add(Appends("sort"))
    /\ AddSort(FALSE) => Add(Writes("sort", "cut"))
BY DEF AddSort, Prints, Add

\* All but mpd_request_commit() set an error at most.
LEMMA OnlyCommitSends ==
    BuilderCall => \/ BadArgument \/ OutOfTurn \/ OutOfMemory \/ UNCHANGED vars
                   \/ Cancel \/ Commit(FALSE) \/ (LongArguments /\ Commit(TRUE))
<1> DEFINE Unmoved == BadArgument \/ OutOfTurn \/ OutOfMemory \/ UNCHANGED vars
<1>1. ASSUME NEW part, NEW written, Add(Writes(part, written)) PROVE Unmoved
  BY <1>1 DEF Add, NoMemory, Writes, Declines, Refuses
<1>2. ASSUME NEW part, Add(Appends(part)) PROVE Unmoved
  BY <1>1, <1>2 DEF Appends
<1>3. AddSort(TRUE) \/ AddSort(FALSE) \/ AddWindow \/ AddPosition => Unmoved
  BY <1>1, <1>2, SortIsWritten DEF AddWindow, AddPosition
<1>4. ASSUME NEW quotable \in BOOLEAN, Add(Quotes("constraint", quotable)) PROVE Unmoved
  BY <1>4 DEF Add, NoMemory, Quotes, Appends, Writes, Declines, Refuses, BadString
<1>5. ASSUME NEW quotable \in BOOLEAN, Begin(CommandQuotes(quotable)) PROVE Unmoved
  BY <1>5 DEF Begin, CommandQuotes, Command, NoMemory, Declines, Refuses, BadString
<1>6. SearchSongs \/ (\E valid \in BOOLEAN : SearchDbTags(valid)) => Unmoved
  BY DEF SearchSongs, SearchDbTags, Begin, CheckTagName, Command, NoMemory, Declines, Refuses
<1>7. ASSUME NEW valid \in BOOLEAN,
             \/ AddSinceConstraint(valid) \/ AddGroupTag(valid) \/ AddSortTag(valid)
             \/ \E quotable \in BOOLEAN : AddTagConstraint(valid, quotable)
      PROVE  Unmoved
  BY <1>2, <1>3, <1>4, <1>7
     DEF AddSinceConstraint, AddGroupTag, AddSortTag, AddTagConstraint, CheckTagName,
         AddConstraint, Refuses
<1>8. ASSUME NEW known \in BOOLEAN,
             \/ StickerAddSort(known)
             \/ \E quotable \in BOOLEAN : StickerAddValue(known, quotable)
      PROVE  Unmoved
  BY <1>3, <1>4, <1>8 DEF StickerAddSort, StickerAddValue, Ignored, searchVars
<1>9. (\E fits \in BOOLEAN : AddSortName(fits)) => AddSort(TRUE) \/ AddSort(FALSE)
  BY DEF AddSortName
<1> HIDE DEF Unmoved
<1>10. BuilderCall => Unmoved \/ Cancel \/ Commit(FALSE) \/ (LongArguments /\ Commit(TRUE))
  BY <1>3, <1>4, <1>5, <1>6, <1>7, <1>8, <1>9
     DEF BuilderCall, SearchAddToPlaylist, PlaylistSearchBegin,
         StickerSearchBegin, AddConstraint, AddExpression
<1> QED BY <1>10 DEF Unmoved

LEMMA BuildingIsBuilderStep == BuilderCall => BuilderStep
<1>1. ASSUME NEW long \in BOOLEAN, long => LongArguments, Commit(long) PROVE BuilderStep
  BY <1>1 DEF BuilderStep, Commit, Declines, Refuses, Sending
<1>2. Cancel => BuilderStep
  BY DEF Cancel, BuilderStep
<1> QED BY <1>1, <1>2, OnlyCommitSends DEF BuilderStep

LEMMA SearchStepIsConnectionStep == [SearchNext]_searchVars => [Next]_vars
<1>1. BuilderStep => [Next]_vars
  <2>1. ASSUME NEW long \in BOOLEAN, long => LongArguments, SendCommand("cmd", long)
        PROVE  ClientCall
    <3>1. CASE long
      BY <2>1, <3>1 DEF ClientCall
    <3>2. CASE ~long
      BY <2>1, <3>2 DEF ClientCall
    <3> QED BY <3>1, <3>2
  <2> QED BY <2>1 DEF BuilderStep, ClientCall, Next
<1> QED BY <1>1, BuildingIsBuilderStep
        DEF SearchNext, FreeConnection, Elsewhere, searchVars, Next, ClientCall

\* Building a request, whenever it happens, does nothing to the connection
\* that its other functions could not do: what holds of the connection holds
\* of a connection with a search under construction.
THEOREM SearchImplementsConnection == SearchSpec => KeepsTheConnection
<1>1. SearchInit => Init
  BY DEF SearchInit
<1> QED BY <1>1, SearchStepIsConnectionStep, PTL DEF SearchSpec, Spec, KeepsTheConnection

(***************************************************************************)
(* The text.                                                               *)
(***************************************************************************)
Text == /\ TextIsWhatWasAsked
        /\ OneRequestString
        /\ request \in Seq(Parts) /\ asked \in Seq(Parts)

\* What each part of a builder's function does to the text.
TextStep ==
    \/ UNCHANGED <<request, live, asked>>
    \/ /\ request = NoRequest /\ request' = <<"command">>
       /\ asked' = <<"command">> /\ live' = live + 1
    \/ \E part, written \in Parts :
          /\ written = part \/ CutShort(part, written)
          /\ request # NoRequest /\ request' = Append(request, written)
          /\ asked' = Append(asked, part) /\ live' = live
    \/ Released

LEMMA BuildingIsTextStep == [SearchNext]_searchVars => TextStep
<1> USE DEF TextStep
<1>0. ASSUME NEW part \in Parts, NEW written \in Parts, Add(Writes(part, written)),
             written = part \/ CutShort(part, written)
      PROVE  TextStep
  BY <1>0 DEF Add, NoMemory, Writes
<1>1. ASSUME NEW part \in Parts, Add(Appends(part)) PROVE TextStep
  BY <1>0, <1>1 DEF Appends
<1>2. AddSort(TRUE) \/ AddSort(FALSE) \/ AddWindow \/ AddPosition => TextStep
  <2>1. CutShort("sort", "cut") /\ {"sort", "cut", "window", "position"} \subseteq Parts
    BY DEF CutShort, Parts
  <2> QED BY <1>0, <1>1, <2>1, SortIsWritten DEF AddWindow, AddPosition
<1>3. ASSUME NEW quotable \in BOOLEAN, Add(Quotes("constraint", quotable)) PROVE TextStep
  <2>1. Add(Appends("constraint")) => TextStep
    BY <1>1 DEF Parts
  <2> QED BY <1>3, <2>1 DEF Add, NoMemory, Quotes, Undone
<1>4. ASSUME NEW quotable \in BOOLEAN, Begin(CommandQuotes(quotable)) PROVE TextStep
  BY <1>4 DEF Begin, InProgress, CommandQuotes, Command, NoMemory, Abandoned
<1>5. SearchSongs \/ (\E valid \in BOOLEAN : SearchDbTags(valid)) => TextStep
  BY DEF SearchSongs, SearchDbTags, Begin, InProgress, CheckTagName, Command, NoMemory
<1>6. ASSUME NEW valid \in BOOLEAN,
             \/ AddSinceConstraint(valid) \/ AddGroupTag(valid) \/ AddSortTag(valid)
             \/ \E quotable \in BOOLEAN : AddTagConstraint(valid, quotable)
      PROVE  TextStep
  BY <1>1, <1>2, <1>3, <1>6
     DEF AddSinceConstraint, AddGroupTag, AddSortTag, AddTagConstraint, CheckTagName,
         AddConstraint, Parts
<1>7. ASSUME NEW known \in BOOLEAN,
             \/ StickerAddSort(known)
             \/ \E quotable \in BOOLEAN : StickerAddValue(known, quotable)
      PROVE  TextStep
  BY <1>2, <1>3, <1>7 DEF StickerAddSort, StickerAddValue, Ignored, searchVars, builder
<1>8. Cancel \/ FreeConnection \/ (\E long \in BOOLEAN : Commit(long)) => TextStep
  BY DEF Cancel, FreeConnection, Commit
<1>9. Elsewhere \/ UNCHANGED searchVars => TextStep
  BY DEF Elsewhere, searchVars, builder
<1>10. (\E fits \in BOOLEAN : AddSortName(fits)) => AddSort(TRUE) \/ AddSort(FALSE)
  BY DEF AddSortName
<1> QED BY <1>2, <1>3, <1>4, <1>5, <1>6, <1>7, <1>8, <1>9, <1>10
        DEF SearchNext, BuilderCall, SearchAddToPlaylist, PlaylistSearchBegin,
            StickerSearchBegin, AddConstraint, AddExpression

LEMMA TextKept == Text /\ TextStep => Text'
<1> SUFFICES ASSUME Text, TextStep PROVE Text'
  OBVIOUS
<1> USE DEF Text, TextIsWhatWasAsked, OneRequestString
<1>1. CASE UNCHANGED <<request, live, asked>>
  BY <1>1
<1>2. CASE \/ /\ request = NoRequest /\ request' = <<"command">>
              /\ asked' = <<"command">> /\ live' = live + 1
           \/ Released
  <2>1. "command" \in Parts
    BY DEF Parts
  <2>2. CASE request = NoRequest /\ request' = <<"command">> /\ asked' = <<"command">>
             /\ live' = live + 1
    <3>1. <<"command">> \in Seq(Parts) /\ Len(<<"command">>) = 1 /\ <<"command">>[1] = "command"
      BY <2>1
    <3> QED BY <2>2, <3>1 DEF NoRequest
  <2>3. CASE Released
    BY <2>3 DEF Released, NoRequest
  <2> QED BY <1>2, <2>2, <2>3
<1>3. ASSUME NEW part \in Parts, NEW written \in Parts,
             written = part \/ CutShort(part, written), request # NoRequest,
             request' = Append(request, written), asked' = Append(asked, part), live' = live
      PROVE  Text'
  <2>1. request' # NoRequest /\ Len(request') = Len(asked')
    BY <1>3 DEF NoRequest
  <2>2. \A n \in DOMAIN request' :
           request'[n] = asked'[n] \/ CutShort(asked'[n], request'[n])
    BY <1>3
  <2> QED BY <1>3, <2>1, <2>2 DEF CutShort
<1> QED BY <1>1, <1>2, <1>3 DEF TextStep

LEMMA TextHolds == SearchSpec => []Text
<1>1. SearchInit => Text
  BY DEF SearchInit, Text, TextIsWhatWasAsked, OneRequestString, NoRequest, Parts
<1> QED BY <1>1, BuildingIsTextStep, TextKept, PTL DEF SearchSpec

\* What mpd_search_commit() sends is the command and the parts that were
\* accepted, in order, however many were refused in between, and whole but for
\* the names to sort by that are cut at 64 bytes.
THEOREM TextStaysWhatWasAsked == SearchSpec => []TextIsWhatWasAsked
<1>1. Text => TextIsWhatWasAsked
  BY DEF Text
<1> QED BY <1>1, TextHolds, PTL

\* No request string leaks, and none is used after it was freed.
THEOREM RequestStringsAreFreed == SearchSpec => []OneRequestString
<1>1. Text => OneRequestString
  BY DEF Text
<1> QED BY <1>1, TextHolds, PTL

(***************************************************************************)
(* Nothing is lost silently, because an error is defined for as long as a  *)
(* refused part is not acknowledged, and mpd_request_commit() looks.       *)
(***************************************************************************)
RefusalIsKnown == lost => Defined(conn.error)

LEMMA RefusalsSetErrors ==
    ASSUME conn \in Connection
    PROVE  BadArgument \/ OutOfTurn \/ OutOfMemory => Defined(conn'.error)
<1>1. \A e \in {"ARGUMENT", "STATE", "OOM"} : SetError(conn, e).error = e
  BY DEF SetError, Connection
<1> QED BY <1>1 DEF BadArgument, OutOfTurn, OutOfMemory, Refused, Defined

LEMMA RefusalKnown ==
    ASSUME TypeOK, RefusalIsKnown, [SearchNext]_searchVars
    PROVE  RefusalIsKnown'
<1> USE DEF RefusalIsKnown
<1>0. /\ BadArgument => Defined(conn'.error)
      /\ OutOfTurn => Defined(conn'.error)
      /\ OutOfMemory => Defined(conn'.error)
      /\ UNCHANGED vars => conn' = conn
  BY RefusalsSetErrors DEF TypeOK, vars
<1>1. ASSUME NEW part, Add(Appends(part)) PROVE RefusalIsKnown'
  BY <1>0, <1>1 DEF Add, NoMemory, Appends, Writes, Declines, Refuses
<1>2. AddSort(TRUE) \/ AddSort(FALSE) \/ AddWindow \/ AddPosition => RefusalIsKnown'
  BY <1>0, <1>1 DEF AddSort, Prints, AddWindow, AddPosition, Add, Writes, NoMemory, Declines, Refuses
<1>3. ASSUME NEW quotable, Add(Quotes("constraint", quotable)) PROVE RefusalIsKnown'
  BY <1>0, <1>3 DEF Add, NoMemory, Quotes, Appends, Writes, Declines, Refuses, BadString
<1>4. ASSUME NEW quotable, Begin(CommandQuotes(quotable)) PROVE RefusalIsKnown'
  BY <1>0, <1>4 DEF Begin, CommandQuotes, Command, NoMemory, Declines, Refuses, BadString
<1>5. SearchSongs \/ (\E valid \in BOOLEAN : SearchDbTags(valid)) => RefusalIsKnown'
  BY <1>0 DEF SearchSongs, SearchDbTags, Begin, CheckTagName, Command, NoMemory, Declines, Refuses
<1>6. ASSUME NEW valid \in BOOLEAN,
             \/ AddSinceConstraint(valid) \/ AddGroupTag(valid) \/ AddSortTag(valid)
             \/ \E quotable \in BOOLEAN : AddTagConstraint(valid, quotable)
      PROVE  RefusalIsKnown'
  BY <1>0, <1>1, <1>2, <1>3, <1>6
     DEF AddSinceConstraint, AddGroupTag, AddSortTag, AddTagConstraint, CheckTagName,
         AddConstraint, Refuses
<1>7. ASSUME NEW known \in BOOLEAN,
             \/ StickerAddSort(known)
             \/ \E quotable \in BOOLEAN : StickerAddValue(known, quotable)
      PROVE  RefusalIsKnown'
  BY <1>0, <1>2, <1>3, <1>7 DEF StickerAddSort, StickerAddValue, Ignored, searchVars, builder
<1>8. Cancel \/ (\E long \in BOOLEAN : Commit(long)) => RefusalIsKnown'
  BY <1>0 DEF Cancel, Commit, Declines, Refuses
<1>9. FreeConnection \/ Elsewhere \/ UNCHANGED searchVars => RefusalIsKnown'
  BY DEF FreeConnection, Free, Elsewhere, searchVars, builder, vars
<1>10. (\E fits \in BOOLEAN : AddSortName(fits)) => AddSort(TRUE) \/ AddSort(FALSE)
  BY DEF AddSortName
<1> QED BY <1>2, <1>3, <1>4, <1>5, <1>6, <1>7, <1>8, <1>9, <1>10
        DEF SearchNext, BuilderCall, SearchAddToPlaylist, PlaylistSearchBegin,
            StickerSearchBegin, AddConstraint, AddExpression

\* A step that sends the text of a request is mpd_request_commit(), and it
\* has found no error.
LEMMA SendingIsCommit ==
    ASSUME [SearchNext]_searchVars,
           sent' # sent, request # NoRequest, request' = NoRequest
    PROVE  ~Defined(conn.error)
<1>1. BadArgument \/ OutOfTurn \/ OutOfMemory \/ UNCHANGED vars => sent' = sent
  BY DEF BadArgument, OutOfTurn, OutOfMemory, Refused, history, vars
<1>2. CASE \E long \in BOOLEAN : Commit(long)
  BY <1>1, <1>2 DEF Commit, Declines
<1>3. CASE Elsewhere \/ FreeConnection \/ Cancel \/ UNCHANGED searchVars
  BY <1>3 DEF Elsewhere, FreeConnection, Free, Cancel, history, searchVars, builder, vars
<1> QED BY <1>1, <1>2, <1>3, OnlyCommitSends DEF SearchNext

\* mpd_search_commit() sends nothing while a part has been refused and the
\* client has not cleared the error.
THEOREM NothingIsLostSilently == SearchSpec => NothingLostSilently
<1>1. SearchInit => RefusalIsKnown
  BY DEF SearchInit, RefusalIsKnown
<1>2. TypeOK /\ RefusalIsKnown /\ [SearchNext]_searchVars => RefusalIsKnown'
  BY RefusalKnown
<1>3. SearchSpec => []TypeOK
  BY SearchImplementsConnection, TypeCorrect, PTL DEF KeepsTheConnection
<1>4. RefusalIsKnown /\ [SearchNext]_searchVars =>
        [sent' # sent /\ request # NoRequest /\ request' = NoRequest => ~lost]_searchVars
  BY SendingIsCommit DEF RefusalIsKnown
<1> QED BY <1>1, <1>2, <1>3, <1>4, PTL DEF SearchSpec, NothingLostSilently

(***************************************************************************)
(* How many arguments there are.                                           *)
(***************************************************************************)
\* A set of numbers with a bound that is not empty has a greatest element.
LEMMA HasGreatest ==
    ASSUME NEW b \in Nat, NEW S \in SUBSET (0 .. b), S # {}
    PROVE  \E n \in S : \A k \in S : k <= n
<1> DEFINE T == {b - k : k \in S}
<1>1. T \in SUBSET Nat /\ T # {}
  <2>1. \A k \in S : k \in 0 .. b
    OBVIOUS
  <2>2. \A k \in S : b - k \in Nat
    BY <2>1
  <2>3. PICK k \in S : TRUE
    OBVIOUS
  <2> QED BY <2>2, <2>3
<1> HIDE DEF T
<1>2. PICK m \in T : \A l \in T : ~(<<l, m>> \in OpToRel(<, Nat))
  BY <1>1, NatLessThanWellFounded, WFMin
<1>3. PICK n \in S : m = b - n
  BY DEF T
<1>4. ASSUME NEW k \in S PROVE k <= n
  <2>1. b - k \in T /\ b - k \in Nat /\ m \in Nat
    BY <1>1 DEF T
  <2>2. ~(<<b - k, m>> \in OpToRel(<, Nat))
    BY <1>2, <2>1
  <2>3. ~(b - k < m)
    <3> SUFFICES ASSUME b - k < m PROVE FALSE
      OBVIOUS
    <3>1. <<b - k, m>> \in {ss \in Nat \X Nat : ss[1] < ss[2]}
      BY <2>1
    <3> QED BY <2>2, <3>1, Zenon DEF OpToRel
  <2> QED BY <1>3, <2>1, <2>3
<1> QED BY <1>4

\* The arguments are some of the values, from the first one on, each written
\* as its kind has it.
LEMMA ArgumentsAre ==
    ASSUME NEW f, Len(f.kinds) \in Nat
    PROVE  \E n \in 0 .. Len(f.kinds) :
              Arguments(f) = [i \in 1 .. n |-> Format(f.kinds[i], Given(f.kinds[i], f.values[i]))]
<1> DEFINE given == {n \in 0 .. Len(f.kinds) :
                        \A i \in 1 .. n : ~IsNull(f.kinds[i], f.values[i])}
           count == CHOOSE n \in given : \A k \in given : k <= n
<1>1. given \in SUBSET (0 .. Len(f.kinds)) /\ 0 \in given
  OBVIOUS
<1>2. count \in given
  <2> HIDE DEF given
  <2>1. \E n \in given : \A k \in given : k <= n
    BY <1>1, HasGreatest
  <2> QED BY <2>1
<1>3. Arguments(f) = [i \in 1 .. count |-> Format(f.kinds[i], Given(f.kinds[i], f.values[i]))]
  BY DEF Arguments
<1>4. count \in 0 .. Len(f.kinds)
  <2> HIDE DEF count
  <2> QED BY <1>2
<1> HIDE DEF count
<1> QED BY <1>3, <1>4

(***************************************************************************)
(* The rows.                                                               *)
(***************************************************************************)
IsList(kinds) == Len(kinds) \in Nat /\ DOMAIN kinds = 1 .. Len(kinds)

\* Every function has a list of parameters.
LEMMA KindsAreLists ==
    ASSUME NEW f \in Functions
    PROVE  IsList(f.kinds)
<1> DEFINE Listed(g) == IsList(g.kinds)
<1>1. /\ IsList(<<>>)
      /\ \A a : IsList(<<a>>)
      /\ \A a, b : IsList(<<a, b>>)
      /\ \A a, b, c : IsList(<<a, b, c>>)
      /\ \A a, b, c, d : IsList(<<a, b, c, d>>)
  BY DEF IsList
<1>2. \A c, k : IsList(k) =>
        Listed(Sent(c, k)) /\ Listed(Runnable(c, k)) /\ Listed(RunnableUnchecked(c, k))
  BY DEF Sent, Runnable, RunnableUnchecked, Row
<1> HIDE DEF Listed
<1>3. \A g \in QueueReading : Listed(g)
  BY <1>1, <1>2 DEF QueueReading
<1>4. \A g \in QueueAdding : Listed(g)
  BY <1>1, <1>2 DEF QueueAdding
<1>5. \A g \in QueueDeleting : Listed(g)
  BY <1>1, <1>2 DEF QueueDeleting
<1>6. \A g \in QueueMoving : Listed(g)
  <2>1. \A k \in {<<"%u", "%u">>, <<"%i(u)", "whence">>} : IsList(k)
    BY <1>1
  <2>2. \A k \in {"%i(to)", "whence"} : IsList(<<"range", k>>)
    BY <1>1
  <2> QED BY <1>1, <1>2, <2>1, <2>2 DEF QueueMoving
<1>7. \A g \in QueueTags : Listed(g)
  BY <1>1, <1>2 DEF QueueTags
<1>8. \A g \in QueuePriorities : Listed(g)
  BY <1>1, <1>2 DEF QueuePriorities
<1>9. \A g \in Playing : Listed(g)
  BY <1>1, <1>2 DEF Playing
<1>10. \A g \in Seeking : Listed(g)
  BY <1>1, <1>2 DEF Seeking
<1>11. \A g \in PlayModes : Listed(g)
  BY <1>1, <1>2 DEF PlayModes
<1>12. \A g \in Mixing : Listed(g)
  BY <1>1, <1>2 DEF Mixing
<1>13. \A g \in Volume : Listed(g)
  BY <1>1, <1>2 DEF Volume
<1>14. \A g \in PlaylistReading : Listed(g)
  BY <1>1, <1>2 DEF PlaylistReading
<1>15. \A g \in PlaylistEditing : Listed(g)
  BY <1>1, <1>2 DEF PlaylistEditing
<1>16. \A g \in PlaylistLoading : Listed(g)
  BY <1>1, <1>2 DEF PlaylistLoading
<1>17. \A g \in Capabilities : Listed(g)
  BY <1>1, <1>2 DEF Capabilities
<1>18. \A g \in TagTypes : Listed(g)
  BY <1>1, <1>2 DEF TagTypes
<1>19. \A g \in ProtocolFeatures : Listed(g)
  BY <1>1, <1>2 DEF ProtocolFeatures
<1>20. \A g \in StringNormalization : Listed(g)
  BY <1>1, <1>2 DEF StringNormalization
<1>21. \A g \in Stickers : Listed(g)
  BY <1>1, <1>2 DEF Stickers
<1>22. \A g \in Database : Listed(g)
  BY <1>1, <1>2 DEF Database
<1>23. \A g \in Outputs : Listed(g)
  BY <1>1, <1>2 DEF Outputs
<1>24. \A g \in Partitions : Listed(g)
  BY <1>1, <1>2 DEF Partitions
<1>25. \A g \in Messages : Listed(g)
  BY <1>1, <1>2 DEF Messages
<1>26. \A g \in Mounts : Listed(g)
  BY <1>1, <1>2 DEF Mounts
<1>27. \A g \in Pictures : Listed(g)
  BY <1>1, <1>2 DEF Pictures
<1>28. \A g \in ReplayGain : Listed(g)
  BY <1>1, <1>2 DEF ReplayGain
<1>29. \A g \in Others : Listed(g)
  BY <1>1, <1>2 DEF Others
<1>30. Listed(f)
  BY <1>3, <1>4, <1>5, <1>6, <1>7, <1>8, <1>9, <1>10, <1>11, <1>12, <1>13, <1>14,
     <1>15, <1>16, <1>17, <1>18, <1>19, <1>20, <1>21, <1>22, <1>23, <1>24, <1>25,
     <1>26, <1>27, <1>28, <1>29 DEF Functions
<1> QED BY <1>30 DEF Listed

(***************************************************************************)
(* Writing and reading.                                                    *)
(***************************************************************************)
\* Milliseconds have the sign of the time, or are none.
LEMMA ToMsSign ==
    ASSUME NEW t \in Int
    PROVE  /\ ToMs(t) \in Int
           /\ t >= 0 => ToMs(t) >= 0
           /\ t < 0 => ToMs(t) <= 0
BY DEF ToMs

\* A number is read with the sign it was written with.
LEMMA SignedIsRead ==
    ASSUME NEW n \in Int
    PROVE  SignedNumber(PrintSigned(n)) = n
BY DEF SignedNumber, PrintSigned, Printed, Abs

\* A number that is not negative is written without a sign.
LEMMA UnsignedIsPrinted ==
    ASSUME NEW n \in Nat
    PROVE  PrintSigned(n) = Printed("none", <<n>>, FALSE)
<1>1. Abs(n) = n /\ ~(n < 0)
  BY DEF Abs
<1> QED BY <1>1 DEF PrintSigned

\* An unsigned taken for an int is itself, or negative.
LEMMA AsIntIs ==
    ASSUME NEW n \in 0 .. UINT_MAX
    PROVE  /\ n < UnsignedRange \div 2 => n \in Nat /\ AsInt(n) = n
           /\ n >= UnsignedRange \div 2 => PrintSigned(AsInt(n)).sign = "-"
<1>1. UnsignedRange \in Nat /\ UINT_MAX = UnsignedRange - 1
  BY CommandsAssumption DEF UINT_MAX
<1>2. n \in Nat /\ n < UnsignedRange /\ UnsignedRange \div 2 \in Int
  BY <1>1
<1>3. ASSUME n >= UnsignedRange \div 2 PROVE PrintSigned(AsInt(n)).sign = "-"
  <2>1. AsInt(n) = n - UnsignedRange
    BY <1>2, <1>3 DEF AsInt
  <2>2. AsInt(n) < 0
    BY <1>1, <1>2, <2>1
  <2> QED BY <2>2 DEF PrintSigned, Printed
<1> QED BY <1>2, <1>3 DEF AsInt

\* What MPD reads is what was meant, value by value, or nothing if the number of a
\* song is too large for "%i".
LEMMA ValueIsRead ==
    ASSUME NEW kind, NEW value \in ValuesOf(kind), ~ReadOtherwise(kind, Given(kind, value))
    PROVE  LET understood == Understood(kind, Format(kind, Given(kind, value)))
           IN  \/ understood = Meant(kind, Given(kind, value))
               \/ understood = Nonsense /\ TooLargeForInt(kind, Given(kind, value))
<1>0. UINT_MAX \in Int /\ UnsignedRange \in Int
  BY CommandsAssumption DEF UINT_MAX
<1>1. kind \notin {"base", "gain"} => Given(kind, value) = value
  BY DEF Given
<1>2. CASE kind = "%u"
  <2>1. Format(kind, value) = Printed("none", value, FALSE)
    BY <1>2 DEF Format
  <2> QED BY <1>1, <1>2, <2>1 DEF Understood, Meant, Printed
<1>3. CASE kind \in {"%i(u)", "%i(to)"}
  <2>1. value = <<value[1]>> /\ value[1] \in 0 .. UINT_MAX
    BY <1>3 DEF ValuesOf
  <2>2. CASE value[1] < UnsignedRange \div 2
    <3>1. value[1] \in Nat /\ AsInt(value[1]) = value[1]
      BY <2>1, <2>2, AsIntIs
    <3>2. Format(kind, value) = PrintSigned(value[1])
      BY <1>3, <3>1 DEF Format
    <3>3. Format(kind, value) = Printed("none", <<value[1]>>, FALSE)
      BY <3>1, <3>2, UnsignedIsPrinted
    <3> QED BY <1>1, <1>3, <2>1, <3>3 DEF Understood, Meant, Printed
  <2>3. CASE value[1] >= UnsignedRange \div 2
    <3>1. kind = "%i(u)"
      BY <1>1, <1>3, <2>3 DEF ReadOtherwise
    <3>2. Format(kind, value).sign = "-"
      BY <2>1, <2>3, <3>1, AsIntIs DEF Format
    <3>3. Understood(kind, Format(kind, value)) = Nonsense
      BY <3>1, <3>2 DEF Understood
    <3> QED BY <1>1, <2>3, <3>1, <3>3 DEF TooLargeForInt
  <2>4. value[1] \in Int /\ UnsignedRange \div 2 \in Int
    BY <1>0, <2>1
  <2> QED BY <2>2, <2>3, <2>4
<1>4. CASE kind \in {"%i", "%f", "%.3f"}
  <2>1. value = <<value[1]>> /\ value[1] \in Int
    BY <1>4 DEF ValuesOf
  <2>2. CASE kind = "%i"
    <3>1. Understood(kind, Format(kind, value)) = <<SignedNumber(PrintSigned(value[1]))>>
      BY <2>2 DEF Understood, Format
    <3> QED BY <1>1, <2>1, <2>2, <3>1, SignedIsRead DEF Meant
  <2>3. CASE kind \in {"%f", "%.3f"}
    <3>1. Understood(kind, Format(kind, value)) = <<SignedNumber(PrintSigned(ToMs(value[1])))>>
      BY <2>3 DEF Understood, Format
    <3>2. SignedNumber(PrintSigned(ToMs(value[1]))) = ToMs(value[1])
      BY <2>1, ToMsSign, SignedIsRead
    <3> QED BY <1>1, <2>3, <3>1, <3>2 DEF Meant
  <2> QED BY <1>4, <2>2, <2>3
<1>5. CASE kind = "range"
  <2>1. Format(kind, value) = FormatRange(value[1], value[2])
    BY <1>5 DEF Format
  <2>2. CASE value[2] = UINT_MAX
    <3>1. Format(kind, value).numbers = <<value[1]>>
      BY <2>1, <2>2 DEF FormatRange, Printed
    <3>2. Len(<<value[1]>>) = 1 /\ <<value[1]>>[1] = value[1]
      OBVIOUS
    <3> QED BY <1>1, <1>5, <2>2, <3>1, <3>2 DEF Understood, Meant
  <2>3. CASE value[2] # UINT_MAX
    <3>1. Format(kind, value).numbers = <<value[1], value[2]>>
      BY <2>1, <2>3 DEF FormatRange, Printed
    <3>2. /\ Len(<<value[1], value[2]>>) = 2 /\ <<value[1], value[2]>>[1] = value[1]
          /\ <<value[1], value[2]>>[2] = value[2]
      OBVIOUS
    <3> QED BY <1>1, <1>5, <2>3, <3>1, <3>2 DEF Understood, Meant
  <2> QED BY <2>2, <2>3
<1>6. CASE kind = "frange"
  <2>1. value[2] \in Int
    BY <1>6 DEF ValuesOf
  <2>2. Format(kind, value) = FormatFRange(value[1], value[2])
    BY <1>6 DEF Format
  <2>3. CASE value[2] < 0
    <3>1. Format(kind, value).numbers = <<ToMs(value[1])>>
      BY <2>1, <2>2, <2>3 DEF FormatFRange, Printed
    <3>2. Len(<<ToMs(value[1])>>) = 1 /\ <<ToMs(value[1])>>[1] = ToMs(value[1])
      OBVIOUS
    <3> QED BY <1>1, <1>6, <2>3, <3>1, <3>2 DEF Understood, Meant
  <2>4. CASE value[2] >= 0
    <3> DEFINE a == ToMs(value[1])
               b == ToMs(value[2])
    <3>1. Format(kind, value).numbers = <<a, b>>
      BY <2>2, <2>4 DEF FormatFRange, Printed
    <3>2. Meant(kind, value) = <<a, b>>
      BY <1>6, <2>1, <2>4 DEF Meant
    <3> HIDE DEF a, b
    <3>3. Len(<<a, b>>) = 2 /\ <<a, b>>[1] = a /\ <<a, b>>[2] = b
      OBVIOUS
    <3> QED BY <1>1, <1>6, <3>1, <3>2, <3>3 DEF Understood
  <2> QED BY <2>1, <2>3, <2>4
<1>7. CASE kind = "whence"
  <2>1. value = <<value[1], value[2]>> /\ value[1] \in 0 .. 2
    BY <1>7 DEF ValuesOf
  <2>2. Format(kind, value) = Printed(WhenceChar(value[1]), <<value[2]>>, FALSE)
    BY <1>7 DEF Format
  <2>3. Format(kind, value).sign = WhenceChar(value[1]) /\ Format(kind, value).numbers[1] = value[2]
    BY <2>2 DEF Printed
  <2>4. Understood(kind, Format(kind, value)) = <<value[1], value[2]>>
    BY <1>7, <2>1, <2>3 DEF Understood, WhenceChar, Whences
  <2> QED BY <1>1, <1>7, <2>1, <2>4 DEF Meant
<1>8. CASE kind = "seek"
  <2>1. value[1] \in {0, 1} /\ value[2] \in Int
    BY <1>8 DEF ValuesOf
  <2>2. Format(kind, value) = FormatSeek(value[1], value[2])
    BY <1>8 DEF Format
  <2> DEFINE m == ToMs(value[2])
  <2>3. m \in Int /\ (value[2] >= 0 => m >= 0) /\ (value[2] < 0 => m <= 0)
    BY <2>1, ToMsSign
  <2>4. /\ Format(kind, value).numbers[1] = Abs(m)
        /\ Format(kind, value).sign =
              IF value[2] < 0 THEN "-" ELSE IF value[1] = 1 THEN "+" ELSE "none"
    BY <2>2 DEF FormatSeek, Printed
  <2>5. Meant(kind, value) = <<value[1], m>>
    BY <1>8 DEF Meant
  <2> HIDE DEF m
  <2>6. SignedNumber(Format(kind, value)) = m
    BY <2>1, <2>3, <2>4 DEF SignedNumber, Abs
  <2>7. (Format(kind, value).sign = "none") <=> (value[1] = 0)
    <3>1. value[1] = 0 => value[2] >= 0
      BY <1>1, <1>8, <2>1 DEF ReadOtherwise
    <3> QED BY <2>1, <2>4, <3>1
  <2>8. Understood(kind, Format(kind, value)) = <<value[1], m>>
    BY <1>8, <2>1, <2>6, <2>7 DEF Understood
  <2> QED BY <1>1, <1>8, <2>5, <2>8
<1>9. CASE kind \notin {"%u", "%i(u)", "%i(to)", "%i", "%f", "%.3f", "range", "frange", "whence", "seek"}
  <2> DEFINE v == Given(kind, value)
  <2> HIDE DEF v
  <2>1. Format(kind, v) = Printed("none", v, FALSE)
    BY <1>9 DEF Format
  <2>2. Understood(kind, Format(kind, v)) = v
    BY <1>9, <2>1 DEF Understood, Printed
  <2>3. Meant(kind, v) = v
    BY <1>9 DEF Meant
  <2> QED BY <2>2, <2>3 DEF v
<1> QED BY <1>2, <1>3, <1>4, <1>5, <1>6, <1>7, <1>8, <1>9

(***************************************************************************)
(* Nothing but calls of the connection's functions happens.                *)
(***************************************************************************)
LEMMA RejectingIsCall == Rejects => BadArgument \/ Declined
BY DEF Rejects

LEMMA SendingIsCall ==
    /\ SendCommand("cmd", FALSE) => Next
    /\ Run("cmd") => Next
    /\ BadArgument => Next
    /\ Declined => Next
    /\ ResponseFinish => Next
<1>1. Run("cmd") => ClientCall
  BY DEF ClientCall
<1> QED BY <1>1 DEF Next, ClientCall

LEMMA CommandsStepIsConnectionStep == [CommandsNext]_commandsVars => [Next]_vars
<1>1. Send \/ Unchecked => Next
  BY RejectingIsCall, SendingIsCall DEF Send, Unchecked
<1>2. Checked => Next
  BY RejectingIsCall, SendingIsCall DEF Checked
<1>3. RunFunction \/ Finish => Next
  BY <1>1, <1>2, SendingIsCall DEF RunFunction, Finish
<1>4. Meanwhile => Next
  BY DEF Meanwhile, Next
<1> QED BY <1>1, <1>3, <1>4 DEF CommandsNext, commandsVars

\* Calling the functions of Commands does nothing to the connection that its
\* own functions could not do: what holds of the connection holds of it.
THEOREM CommandsImplementConnection == CommandsSpec => Spec
<1>1. CommandsInit => Init
  BY DEF CommandsInit
<1> QED BY <1>1, CommandsStepIsConnectionStep, PTL DEF CommandsSpec, Spec

(***************************************************************************)
(* What MPD reads.                                                         *)
(***************************************************************************)
\* The function is one that can be called, and what was sent are its arguments.
FunctionInv ==
    /\ IsList(function.kinds)
    /\ \A i \in DOMAIN function.kinds : function.values[i] \in ValuesOf(function.kinds[i])
    /\ text \in {<<>>, Arguments(function)}

LEMMA FunctionStep ==
    ASSUME FunctionInv, [CommandsNext]_commandsVars
    PROVE  FunctionInv'
<1>1. function' = function /\ text' \in {text, Arguments(function)}
  BY DEF CommandsNext, commandsVars, Send, RunFunction, Finish, Meanwhile, Written
<1> QED BY <1>1 DEF FunctionInv

\* MPD reads in a command what the caller meant, for every function, all values that
\* its parameters can have but those that ReadOtherwise names, and an unsigned of any
\* width; of these values it refuses the numbers that are too large for "%i".
THEOREM WhatIsReadIsWhatWasMeant == CommandsSpec => []ServerReadsWhatWasMeant
<1>1. CommandsInit => FunctionInv
  <2> SUFFICES ASSUME CommandsInit PROVE FunctionInv
    OBVIOUS
  <2>1. PICK f \in Functions : function \in Chosen(f)
    BY DEF CommandsInit
  <2>2. /\ function.kinds = f.kinds
        /\ \A i \in DOMAIN function.kinds : function.values[i] \in ValuesOf(function.kinds[i])
    BY <2>1, ChosenAssumption
  <2>3. text = <<>>
    BY DEF CommandsInit
  <2> QED BY <2>1, <2>2, <2>3, KindsAreLists DEF FunctionInv
<1>2. FunctionInv /\ [CommandsNext]_commandsVars => FunctionInv'
  BY FunctionStep
<1>3. FunctionInv => ServerReadsWhatWasMeant
  <2> SUFFICES ASSUME FunctionInv, NEW i \in DOMAIN text,
                      ~ReadOtherwise(function.kinds[i],
                                     Given(function.kinds[i], function.values[i]))
               PROVE  LET kind == function.kinds[i]
                          value == Given(kind, function.values[i])
                          understood == Understood(kind, text[i])
                      IN  \/ understood = Meant(kind, value)
                          \/ understood = Nonsense /\ TooLargeForInt(kind, value)
    BY Zenon DEF ServerReadsWhatWasMeant
  <2>1. text = Arguments(function)
    BY DEF FunctionInv
  <2>2. PICK n \in 0 .. Len(function.kinds) :
          text = [k \in 1 .. n |-> Format(function.kinds[k],
                                          Given(function.kinds[k], function.values[k]))]
    BY <2>1, ArgumentsAre DEF FunctionInv, IsList
  <2>3. /\ text[i] = Format(function.kinds[i], Given(function.kinds[i], function.values[i]))
        /\ i \in DOMAIN function.kinds
    BY <2>2 DEF FunctionInv, IsList
  <2> DEFINE kind == function.kinds[i]
             value == function.values[i]
  <2>4. value \in ValuesOf(kind)
    BY <2>3 DEF FunctionInv
  <2>5. ~ReadOtherwise(kind, Given(kind, value))
    OBVIOUS
  <2>6. \/ Understood(kind, Format(kind, Given(kind, value))) = Meant(kind, Given(kind, value))
        \/ /\ Understood(kind, Format(kind, Given(kind, value))) = Nonsense
           /\ TooLargeForInt(kind, Given(kind, value))
    <3> HIDE DEF kind, value
    <3> QED BY <2>4, <2>5, ValueIsRead
  <2> QED BY <2>3, <2>6
<1> QED BY <1>1, <1>2, <1>3, PTL DEF CommandsSpec

(***************************************************************************)
(* What is on its way.                                                     *)
(***************************************************************************)
\* Only requests of S are on their way, but for one that was just sent.
Adds(S, kinds) ==
    \/ sent' = sent /\ inbox' \in Seq(S) /\ outbuf' \in Seq(S)
    \/ /\ sent' = sent + 1
       /\ \E kind \in kinds : /\ inbox' \in Seq(S \cup {NextRequest(kind)})
                              /\ outbuf' \in Seq(S \cup {NextRequest(kind)})

\* A sequence of requests is one of more requests.
LEMMA MoreRequests ==
    ASSUME NEW S, NEW R, S \subseteq R, NEW s \in Seq(S)
    PROVE  s \in Seq(R)
BY SeqDef

LEMMA TransmittedAdds ==
    ASSUME TypeOK, NEW S, inbox \in Seq(S), outbuf \in Seq(S),
           NEW kinds, NEW kind \in kinds, NEW long \in BOOLEAN, NEW flush \in BOOLEAN,
           NEW o \in Sends(NextRequest(kind), long, flush), Transmitted(o)
    PROVE  Adds(S, kinds)
<1> DEFINE R == S \cup {NextRequest(kind)}
<1>1. inbox \in Seq(R) /\ outbuf \in Seq(R)
  BY MoreRequests
<1>2. NextRequest(kind) \in R /\ asyncError \in Errors
  BY DEF TypeOK
<1> HIDE DEF R
<1>3. o \in OutcomesOf(R)
  BY <1>1, <1>2, SendsOf
<1>4. inbox' \in Seq(R) /\ outbuf' \in Seq(R) /\ sent' = sent + 1
  BY <1>3 DEF Transmitted, OutcomesOf
<1> QED BY <1>4 DEF Adds, R

LEMMA RefusedAdds ==
    ASSUME NEW S, inbox \in Seq(S), outbuf \in Seq(S), NEW kinds, NEW c, Refused(c)
    PROVE  Adds(S, kinds)
BY DEF Refused, history, Adds

LEMMA SendCommandAdds ==
    ASSUME TypeOK, NEW S, inbox \in Seq(S), outbuf \in Seq(S),
           NEW kind, NEW long \in BOOLEAN, SendCommand(kind, long)
    PROVE  Adds(S, {kind})
<1>1. CASE ~MaySend(conn)
  BY <1>1, RefusedAdds DEF SendCommand
<1>2. CASE MaySend(conn)
  <2>1. PICK o \in Sends(NextRequest(kind), long, ~conn.sendingList) : Transmitted(o)
    BY <1>2 DEF SendCommand
  <2>2. (~conn.sendingList) \in BOOLEAN
    OBVIOUS
  <2> QED BY <2>1, <2>2, TransmittedAdds
<1> QED BY <1>1, <1>2

LEMMA RunAdds ==
    ASSUME TypeOK, NEW S, inbox \in Seq(S), outbuf \in Seq(S), NEW kind, Run(kind)
    PROVE  Adds(S, {kind})
<1>1. CASE conn.sendingList \/ ~MaySend(conn)
  BY <1>1, RefusedAdds DEF Run
<1>2. CASE ~conn.sendingList /\ MaySend(conn)
  <2>1. PICK o \in Sends(NextRequest(kind), FALSE, TRUE) : Transmitted(o)
    BY <1>2 DEF Run
  <2> QED BY <2>1, TransmittedAdds
<1> QED BY <1>1, <1>2

LEMMA MoreKinds ==
    ASSUME NEW S, NEW k, NEW kinds, k \subseteq kinds, Adds(S, k)
    PROVE  Adds(S, kinds)
BY DEF Adds

\* Every step of Connection adds one request at most.
LEMMA StepAdds ==
    ASSUME TypeOK, [Next]_vars, NEW S, inbox \in Seq(S), outbuf \in Seq(S)
    PROVE  Adds(S, Kinds)
<1>1. ASSUME NEW kind \in {"cmd", "idle"}, NEW long \in BOOLEAN, SendCommand(kind, long)
      PROVE  Adds(S, Kinds)
  <2>1. {kind} \subseteq Kinds
    BY DEF Kinds
  <2>2. Adds(S, {kind})
    BY <1>1, SendCommandAdds
  <2> QED BY <2>1, <2>2, MoreKinds
<1>2. ASSUME NEW kind \in {"cmd", "idle"}, Run(kind) PROVE Adds(S, Kinds)
  <2>1. {kind} \subseteq Kinds
    BY DEF Kinds
  <2>2. Adds(S, {kind})
    BY <1>2, RunAdds
  <2> QED BY <2>1, <2>2, MoreKinds
<1>3. ASSUME NEW discrete \in BOOLEAN, ListBegin(discrete) PROVE Adds(S, Kinds)
  <2> DEFINE kind == IF discrete THEN "begin_ok" ELSE "begin"
  <2>1. CASE conn.sendingList \/ ~MaySend(conn)
    BY <1>3, <2>1, RefusedAdds DEF ListBegin
  <2>2. CASE ~conn.sendingList /\ MaySend(conn)
    <3>1. PICK o \in Sends(NextRequest(kind), FALSE, FALSE) : Transmitted(o)
      BY <1>3, <2>2 DEF ListBegin
    <3>2. kind \in Kinds
      BY DEF Kinds
    <3> HIDE DEF kind
    <3> QED BY <3>1, <3>2, TransmittedAdds
  <2> QED BY <2>1, <2>2
<1>4. ASSUME ListEnd PROVE Adds(S, Kinds)
  <2>1. CASE ~conn.sendingList \/ ~MaySend(conn)
    BY <1>4, <2>1, RefusedAdds DEF ListEnd
  <2>2. CASE conn.sendingList /\ MaySend(conn)
    <3>1. PICK o \in Sends(NextRequest("end"), FALSE, TRUE) : Transmitted(o)
      BY <1>4, <2>2 DEF ListEnd
    <3>2. "end" \in Kinds
      BY DEF Kinds
    <3> QED BY <3>1, <3>2, TransmittedAdds
  <2> QED BY <2>1, <2>2
<1>5. ASSUME NEW run \in BOOLEAN, Noidle(run) PROVE Adds(S, Kinds)
  <2>1. CASE Defined(conn.error)
    BY <1>5, <2>1, RefusedAdds DEF Noidle
  <2>2. CASE ~Defined(conn.error)
    <3>1. PICK o \in Sends(NextRequest("noidle"), FALSE, TRUE) : Transmitted(o)
      BY <1>5, <2>2 DEF Noidle
    <3>2. "noidle" \in Kinds
      BY DEF Kinds
    <3> QED BY <3>1, <3>2, TransmittedAdds
  <2> QED BY <2>1, <2>2
<1>6. ASSUME NEW o \in Flushes(outbuf, inbox) PROVE o.in \in Seq(S) /\ o.out \in Seq(S)
  <2>1. asyncError \in Errors
    BY DEF TypeOK
  <2> QED BY <2>1, FlushesOf DEF OutcomesOf
<1>7. ASSUME Flush \/ \E disable \in BOOLEAN : RecvIdle(disable) PROVE Adds(S, Kinds)
  <2>1. sent' = sent
    BY <1>7 DEF Flush, RecvIdle, history
  <2>2. inbox' \in Seq(S) /\ outbuf' \in Seq(S)
    <3>1. CASE Flush
      BY <1>6, <3>1 DEF Flush
    <3>2. CASE \E disable \in BOOLEAN : RecvIdle(disable)
      <4>1. PICK disable \in BOOLEAN : RecvIdle(disable)
        BY <3>2
      <4>2. PICK o \in IF disable THEN Flushes(outbuf, inbox)
                       ELSE {[out |-> outbuf, in |-> inbox, err |-> "SUCCESS"]} :
              outbuf' = o.out /\ inbox' = o.in
        BY <4>1 DEF RecvIdle
      <4> QED BY <1>6, <4>2
    <3> QED BY <1>7, <3>1, <3>2
  <2> QED BY <2>1, <2>2 DEF Adds
<1>8. ASSUME UNCHANGED <<inbox, outbuf, sent>> PROVE Adds(S, Kinds)
  BY <1>8 DEF Adds
<1>9. ASSUME \/ RecvPair \/ ReturnPair \/ EnqueuePair \/ EnqueueNull
             \/ ResponseFinish \/ ResponseNext \/ ClearError
             \/ BadArgument \/ OutOfTurn \/ OutOfMemory \/ Declined
             \/ LibraryStep \/ Freed \/ UNCHANGED vars
      PROVE  Adds(S, Kinds)
  <2>1. UNCHANGED <<inbox, outbuf, sent>>
    BY <1>9 DEF RecvPair, ReturnPair, EnqueuePair, EnqueueNull, ResponseFinish, ResponseNext,
                ClearError, BadArgument, OutOfTurn, OutOfMemory, Declined, Refused, LibraryStep,
                FinishStep, FinishReturns, NextStep, NextGivesUp, NextReturns, RecvIdleStep,
                RecvIdleReturns, Freed, vars, history, environment
  <2> QED BY <1>8, <2>1
<1>10. ASSUME Free PROVE Adds(S, Kinds)
  BY <1>10, EmptySeq DEF Free, history, Adds
<1>11. ASSUME ServerStep \/ HangUp \/ Misbehave PROVE Adds(S, Kinds)
  <2>1. UNCHANGED <<outbuf, sent>> /\ (inbox' = inbox \/ (inbox # <<>> /\ inbox' = Tail(inbox)))
    BY <1>11 DEF ServerStep, ServeCommand, ServeListBegin, ServeListed, ServeListEnd, RunListed,
                 RunListEnds, ServeIdle, ServeNoidle, Notify, HangUp, Misbehave, Environment,
                 library, Accept
  <2>2. inbox' \in Seq(S)
    BY <2>1, HeadTailProperties
  <2> QED BY <2>1, <2>2 DEF Adds
<1> QED BY <1>1, <1>2, <1>3, <1>4, <1>5, <1>7, <1>9, <1>10, <1>11 DEF Next, ClientCall

(***************************************************************************)
(* What a run function promises.                                           *)
(***************************************************************************)
\* The requests that have been sent; while a function runs, no "noidle" is as late
\* as the last of them, which is that function's.
Earlier ==
    {r \in Request : r.id <= sent /\ (running # "no" /\ r.kind = "noidle" => r.id < sent)}

RunInv ==
    /\ running \in {"no", "sent", "finishing"}
    /\ running # "no" => function.runs \in {"checked", "unchecked"} /\ sent > 0
    /\ running = "sent" => call = "none" /\ function.runs = "unchecked"
    /\ running = "finishing" =>
          call = "finish" /\ (function.runs = "checked" => ~conn.sendingList)
    /\ inbox \in Seq(Earlier) /\ outbuf \in Seq(Earlier)

\* mpd_recv_pair() begins no list.
LEMMA RecvPairsBeginNone ==
    ASSUME TypeOK, NEW c \in Connection, ~c.sendingList, NEW o \in RecvPairs(c)
    PROVE  ~o.conn.sendingList
<1>1. \A e : ~SetError(c, e).sendingList
  BY DEF SetError, Connection
<1>2. ASSUME NEW line \in Line PROVE ~Feed(c, line).sendingList
  <2>1. ~FeedOK(c).sendingList
    BY DEF FeedOK, Connection
  <2>2. ~FeedListOK(c).sendingList
    BY <1>1 DEF FeedListOK
  <2>3. ~FeedACK(c).sendingList
    BY DEF FeedACK, SetError, Connection
  <2>4. ~[c EXCEPT !.pairState = "FLOATING", !.pair = line.id].sendingList
    BY DEF Connection
  <2>5. ~[SetError(c, "MALFORMED") EXCEPT !.receiving = FALSE].sendingList
    BY DEF SetError, Connection
  <2> QED BY <2>1, <2>2, <2>3, <2>4, <2>5 DEF Feed
<1>3. ASSUME NEW x \in LineReads(c) PROVE ~x.conn.sendingList
  <2>1. wire # <<>> /\ x.conn = Feed(c, Head(wire))
    BY <1>3 DEF LineReads
  <2>2. Head(wire) \in Line
    BY <2>1, HeadTailProperties DEF TypeOK
  <2> QED BY <1>2, <2>1, <2>2
<1>4. ASSUME NEW x \in FailedReads(c) PROVE ~x.conn.sendingList
  <2>1. PICK e \in ReadErrors :
          x.conn = SyncError([c EXCEPT !.receiving = FALSE, !.sendingList = FALSE], e)
    BY <1>4 DEF FailedReads
  <2> QED BY <2>1 DEF SyncError, Connection
<1>5. /\ ~Answer(c).conn.sendingList
      /\ ~Answer([c EXCEPT !.pairState = "NONE"]).conn.sendingList
      /\ ~Answer([c EXCEPT !.pairState = "FLOATING"]).conn.sendingList
      /\ ~Answer(SetError(c, "STATE")).conn.sendingList
  BY <1>1 DEF Answer, Connection
<1> QED BY <1>3, <1>4, <1>5 DEF RecvPairs

\* What was on its way, and what was just added, are requests that were sent.
LEMMA AddedIsSent ==
    ASSUME TypeOK, inbox \in Seq(Earlier), outbuf \in Seq(Earlier),
           NEW kinds \in SUBSET Kinds, Adds(Earlier, kinds),
           running' # "no" => running # "no" \/ (sent' = sent + 1 /\ "noidle" \notin kinds),
           running' # "no" /\ running # "no" => sent' = sent
    PROVE  inbox' \in Seq(Earlier') /\ outbuf' \in Seq(Earlier')
<1>0. sent \in Nat
  BY DEF TypeOK
<1>1. CASE sent' = sent /\ inbox' \in Seq(Earlier) /\ outbuf' \in Seq(Earlier)
  <2>1. Earlier \subseteq Earlier'
    BY <1>0, <1>1 DEF Earlier
  <2> QED BY <1>1, <2>1, MoreRequests
<1>2. ASSUME sent' = sent + 1, NEW kind \in kinds,
             inbox' \in Seq(Earlier \cup {NextRequest(kind)}),
             outbuf' \in Seq(Earlier \cup {NextRequest(kind)})
      PROVE  inbox' \in Seq(Earlier') /\ outbuf' \in Seq(Earlier')
  <2>1. Earlier \subseteq Earlier'
    <3>1. \A r \in Request : r.id \in Nat
      BY DEF Request
    <3> QED BY <1>0, <1>2, <3>1 DEF Earlier
  <2>2. NextRequest(kind) \in Earlier'
    <3>1. NextRequest(kind) \in Request
      BY HistoryType
    <3>2. NextRequest(kind).id = sent' /\ NextRequest(kind).kind = kind
      BY <1>2 DEF NextRequest
    <3>3. running' # "no" => kind # "noidle"
      BY <1>0, <1>2
    <3> QED BY <1>0, <1>2, <3>1, <3>2, <3>3 DEF Earlier
  <2>3. Earlier \cup {NextRequest(kind)} \subseteq Earlier'
    BY <2>1, <2>2
  <2> QED BY <1>2, <2>3, MoreRequests
<1> QED BY <1>1, <1>2 DEF Adds

\* Whether a function rejects its argument or sends, it adds its command only.
LEMMA CommandAdds ==
    ASSUME TypeOK, inbox \in Seq(Earlier), outbuf \in Seq(Earlier),
           Rejects \/ SendCommand("cmd", FALSE) \/ Run("cmd")
    PROVE  Adds(Earlier, {"cmd"})
<1>1. CASE Rejects
  BY <1>1, RejectingIsCall, RefusedAdds DEF BadArgument, Declined
<1>2. CASE SendCommand("cmd", FALSE)
  BY <1>2, SendCommandAdds
<1>3. CASE Run("cmd")
  BY <1>3, RunAdds
<1> QED BY <1>1, <1>2, <1>3

LEMMA RejectsRefuse ==
    ASSUME Rejects
    PROVE  call = "none" /\ call' = "none" /\ result' = "false" /\ sent' = sent
BY RejectingIsCall DEF BadArgument, Declined, Refused, Idle, history

LEMMA SendCommandFacts ==
    ASSUME SendCommand("cmd", FALSE)
    PROVE  /\ call = "none" /\ call' = "none"
           /\ result' = "true" => sent' = sent + 1
<1>1. CASE ~MaySend(conn)
  BY <1>1 DEF SendCommand, Refused, Idle
<1>2. CASE MaySend(conn)
  BY <1>2 DEF SendCommand, Transmitted, Idle
<1> QED BY <1>1, <1>2

LEMMA RunFacts ==
    ASSUME TypeOK, Run("cmd")
    PROVE  /\ call = "none" /\ call' \in {"none", "finish"}
           /\ call' = "finish" => sent' = sent + 1 /\ ~conn'.sendingList
<1>1. CASE conn.sendingList \/ ~MaySend(conn)
  BY <1>1 DEF Run, Refused, Idle
<1>2. CASE ~conn.sendingList /\ MaySend(conn)
  <2>1. PICK o \in Sends(NextRequest("cmd"), FALSE, TRUE) :
          /\ Transmitted(o)
          /\ IF Defined(o.err) THEN UNCHANGED call
             ELSE conn' = Finishing(Commanded(conn)) /\ call' = "finish"
    BY <1>2 DEF Run
  <2>2. ~Finishing(Commanded(conn)).sendingList
    BY <1>2 DEF Commanded, Finishing, TypeOK, Connection
  <2> QED BY <1>2, <2>1, <2>2 DEF Run, Idle, Transmitted
<1> QED BY <1>1, <1>2

LEMMA SendKeeps ==
    ASSUME TypeOK, RunInv, Send
    PROVE  RunInv'
<1>1. running = "no" /\ running' = "no"
  BY DEF Send
<1>2. Adds(Earlier, {"cmd"})
  BY CommandAdds DEF Send, RunInv
<1>3. {"cmd"} \in SUBSET Kinds
  BY DEF Kinds
<1> QED BY <1>1, <1>2, <1>3, AddedIsSent DEF RunInv

LEMMA RunFunctionKeeps ==
    ASSUME TypeOK, RunInv, RunFunction
    PROVE  RunInv'
<1>0. running = "no" /\ function' = function /\ sent \in Nat
  BY DEF RunFunction, TypeOK
<1>1. Adds(Earlier, {"cmd"})
  BY CommandAdds DEF RunFunction, Checked, Unchecked, RunInv
<1>2. {"cmd"} \in SUBSET Kinds /\ "noidle" \notin {"cmd"}
  BY DEF Kinds
<1>3. CASE function.runs = "checked" /\ Checked
  <2>1. running' = IF call' = "finish" THEN "finishing" ELSE "no"
    BY <1>3 DEF Checked
  <2>2. call' = "finish" => sent' = sent + 1 /\ ~conn'.sendingList
    BY <1>3, RejectsRefuse, RunFacts DEF Checked
  <2>3. inbox' \in Seq(Earlier') /\ outbuf' \in Seq(Earlier')
    BY <1>0, <1>1, <1>2, <2>1, <2>2, AddedIsSent DEF RunInv
  <2> QED BY <1>0, <1>3, <2>1, <2>2, <2>3 DEF RunInv
<1>4. CASE function.runs = "unchecked" /\ Unchecked
  <2>1. running' = IF result' = "true" THEN "sent" ELSE "no"
    BY <1>4 DEF Unchecked
  <2>2. call' = "none" /\ (result' = "true" => sent' = sent + 1)
    BY <1>4, RejectsRefuse, SendCommandFacts DEF Unchecked
  <2>3. inbox' \in Seq(Earlier') /\ outbuf' \in Seq(Earlier')
    BY <1>0, <1>1, <1>2, <2>1, <2>2, AddedIsSent DEF RunInv
  <2> QED BY <1>0, <1>4, <2>1, <2>2, <2>3 DEF RunInv
<1> QED BY <1>3, <1>4 DEF RunFunction

LEMMA FinishKeeps ==
    ASSUME TypeOK, RunInv, Finish
    PROVE  RunInv'
<1>1. /\ running = "sent" /\ running' = IF call' = "finish" THEN "finishing" ELSE "no"
      /\ ResponseFinish /\ function' = function
  BY DEF Finish
<1>2. UNCHANGED <<inbox, outbuf, sent>> /\ sent \in Nat
  BY <1>1 DEF ResponseFinish, Refused, history, TypeOK
<1>3. Earlier \subseteq Earlier'
  BY <1>1, <1>2 DEF Earlier
<1>4. inbox' \in Seq(Earlier') /\ outbuf' \in Seq(Earlier')
  BY <1>2, <1>3, MoreRequests DEF RunInv
<1> QED BY <1>1, <1>2, <1>4 DEF RunInv

\* While a function finishes its response, nobody but the library and the server
\* does anything.
LEMMA FinishingSteps ==
    ASSUME TypeOK, call = "finish", Next
    PROVE  /\ sent' = sent
           /\ \/ call' = "finish" /\ (~conn.sendingList => ~conn'.sendingList)
              \/ FinishReturns
<1>1. CASE ClientCall
  BY <1>1 DEF ClientCall, RecvPair, ReturnPair, EnqueuePair, EnqueueNull, ResponseFinish,
              ResponseNext, Run, SendCommand, ListBegin, ListEnd, Noidle, RecvIdle, BadArgument,
              OutOfTurn, OutOfMemory, Declined, Flush, ClearError, Free, Idle
<1>2. CASE LibraryStep
  <2>1. FinishStep \/ FinishReturns
    BY <1>2 DEF LibraryStep, NextStep, NextGivesUp, NextReturns, RecvIdleStep, RecvIdleReturns
  <2>2. ASSUME FinishStep PROVE call' = "finish" /\ (~conn.sendingList => ~conn'.sendingList)
    <3> DEFINE entered == [conn EXCEPT !.discreteFinished = FALSE,
                                       !.asserts = @ \/ Defined(conn.error)]
    <3>1. PICK o \in RecvPairs(entered) : \E b :
            call' = call /\ conn' = [Returned(o.conn) EXCEPT !.asserts = b]
      BY <2>2 DEF FinishStep
    <3>2. entered \in Connection /\ entered.sendingList = conn.sendingList
      BY DEF TypeOK, Connection
    <3> HIDE DEF entered
    <3>3. ~conn.sendingList => ~o.conn.sendingList
      BY <3>1, <3>2, RecvPairsBeginNone
    <3>4. o.conn \in Connection
      BY <3>1, <3>2, RecvPairsType
    <3>5. conn'.sendingList = o.conn.sendingList
      BY <3>1, <3>4 DEF Returned, Connection
    <3> QED BY <3>1, <3>3, <3>5
  <2> QED BY <2>1, <2>2 DEF FinishStep, FinishReturns, history
<1>3. CASE Freed \/ ServerStep \/ HangUp \/ Misbehave
  <2>1. UNCHANGED <<call, conn, sent>>
    BY <1>3 DEF ServerStep, ServeCommand, ServeListBegin, ServeListed, ServeListEnd, RunListed,
                RunListEnds, ServeIdle, ServeNoidle, Notify, HangUp, Misbehave, Environment,
                library, Freed, vars
  <2> QED BY <2>1
<1> QED BY <1>1, <1>2, <1>3 DEF Next

LEMMA MeanwhileKeeps ==
    ASSUME TypeOK, RunInv, Meanwhile
    PROVE  RunInv'
<1>0. /\ function' = function /\ sent \in Nat
      /\ running' = IF running = "finishing" /\ call' = "none" THEN "no" ELSE running
  BY DEF Meanwhile, TypeOK
<1>1. [Next]_vars
  BY DEF Meanwhile, Next
<1>2. Adds(Earlier, Kinds)
  BY <1>1, StepAdds DEF RunInv
<1>3. CASE running = "no"
  <2>1. inbox' \in Seq(Earlier') /\ outbuf' \in Seq(Earlier')
    BY <1>0, <1>2, <1>3, AddedIsSent DEF RunInv
  <2> QED BY <1>0, <1>3, <2>1 DEF RunInv
<1>4. CASE running = "sent"
  <2>1. UNCHANGED <<call, sent>>
    BY <1>4 DEF Meanwhile, ServerStep, ServeCommand, ServeListBegin, ServeListed, ServeListEnd,
                RunListed, RunListEnds, ServeIdle, ServeNoidle, Notify, HangUp, Misbehave,
                Environment, library
  <2>2. inbox' \in Seq(Earlier') /\ outbuf' \in Seq(Earlier')
    BY <1>0, <1>2, <1>4, <2>1, AddedIsSent DEF RunInv
  <2> QED BY <1>0, <1>4, <2>1, <2>2 DEF RunInv
<1>5. CASE running = "finishing"
  <2>1. Next /\ call = "finish"
    BY <1>5 DEF Meanwhile, RunInv
  <2>2. /\ sent' = sent
        /\ \/ call' = "finish" /\ (~conn.sendingList => ~conn'.sendingList)
           \/ call' = "none"
    BY <2>1, FinishingSteps DEF FinishReturns
  <2>3. inbox' \in Seq(Earlier') /\ outbuf' \in Seq(Earlier')
    BY <1>0, <1>2, <1>5, <2>2, AddedIsSent DEF RunInv
  <2> QED BY <1>0, <1>5, <2>2, <2>3 DEF RunInv
<1> QED BY <1>3, <1>4, <1>5 DEF RunInv

LEMMA RunInvStep ==
    ASSUME TypeOK, RunInv, [CommandsNext]_commandsVars
    PROVE  RunInv'
<1>1. CASE UNCHANGED commandsVars
  BY <1>1 DEF commandsVars, vars, RunInv, Earlier
<1> QED BY <1>1, SendKeeps, RunFunctionKeeps, FinishKeeps, MeanwhileKeeps DEF CommandsNext

\* what RunsAreAnswered says of a step
Answering ==
    (running = "finishing" /\ running' = "no" /\ result' = "true"
     /\ ~(function.runs = "unchecked" /\ conn.sendingList)) =>
        /\ ~Unanswered(sent)'
        /\ \A i \in DOMAIN outbuf' : outbuf'[i].id # sent

LEMMA RunIsAnswered ==
    ASSUME TypeOK, RunInv, StaysInStep, [CommandsNext]_commandsVars
    PROVE  Answering
<1> SUFFICES ASSUME running = "finishing", running' = "no", result' = "true",
                    ~(function.runs = "unchecked" /\ conn.sendingList)
             PROVE  /\ ~Unanswered(sent)'
                    /\ \A i \in DOMAIN outbuf' : outbuf'[i].id # sent
  BY DEF Answering
<1>1. Meanwhile /\ call' = "none" /\ call = "finish"
  BY DEF CommandsNext, commandsVars, Send, RunFunction, Finish, Meanwhile, RunInv
<1>2. FinishReturns
  BY <1>1, FinishingSteps DEF Meanwhile
<1>3. ~conn.receiving /\ ~Defined(conn.error) /\ ~conn.sendingList
  BY <1>2 DEF FinishReturns, Succeeded, RunInv
<1>4. UNCHANGED <<inbox, outbuf, server, wire, sent>>
  BY <1>2 DEF FinishReturns, environment, history
<1>5. /\ AtRest(server) /\ wire = <<>> /\ Noidles(queue, 1, Len(queue)) /\ outbuf = <<>>
  BY <1>1, <1>3, StillFits DEF Fit, Quiet, HeldBack
<1>6. inbox \in Seq(Earlier) /\ DOMAIN inbox = 1 .. Len(inbox) /\ Len(inbox) \in Nat
  BY LenProperties DEF RunInv
<1>7. queue = inbox
  BY <1>5, <1>6, ConcatEmptySeq DEF queue
<1>8. \A i \in DOMAIN inbox : inbox[i].id # sent
  <2> SUFFICES ASSUME NEW i \in DOMAIN inbox PROVE inbox[i].id # sent
    OBVIOUS
  <2>1. inbox[i] \in Earlier /\ inbox[i].kind = "noidle"
    BY <1>5, <1>6, <1>7, ElementOfSeq DEF Noidles
  <2>2. sent \in Nat /\ inbox[i].id < sent
    BY <2>1 DEF Earlier, TypeOK
  <2> QED BY <2>1, <2>2 DEF Earlier, Request
<1>9. sent # 0 /\ DOMAIN wire = {} /\ DOMAIN server.list = {} /\ DOMAIN outbuf = {}
  BY <1>5 DEF AtRest, RunInv
<1>10. ~Unanswered(sent)
  BY <1>5, <1>8, <1>9 DEF Unanswered, AtRest
<1> QED BY <1>4, <1>9, <1>10 DEF Unanswered

\* A mpd_run_X() that returns true has had its command executed and answered, if the
\* client is careful and the server keeps the protocol.
THEOREM RunsHaveBeenAnswered ==
    ASSUME Careless = {}, StrayLines = {}
    PROVE  CommandsSpec => RunsAreAnswered
<1>1. CommandsInit => RunInv
  BY EmptySeq DEF CommandsInit, Init, RunInv
<1>2. TypeOK /\ RunInv /\ [CommandsNext]_commandsVars => RunInv'
  BY RunInvStep
<1>3. TypeOK /\ RunInv /\ StaysInStep /\ [CommandsNext]_commandsVars => Answering
  BY RunIsAnswered
<1>4. CommandsSpec => []TypeOK /\ []StaysInStep
  BY CommandsImplementConnection, TypeCorrect, ClientAndServerStayInStep, PTL
<1> QED BY <1>1, <1>2, <1>3, <1>4, PTL DEF CommandsSpec, RunsAreAnswered, Answering
=============================================================================
