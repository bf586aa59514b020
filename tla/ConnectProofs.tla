---------------------------- MODULE ConnectProofs ----------------------------
(***************************************************************************)
(* Theorems about Connect, for all arguments, environments, timeouts,      *)
(* welcome lines and numbers of addresses.                                 *)
(*                                                                         *)
(* The invariant says for each place in a call what the settings are       *)
(* (Built), which of the other pointers are set (Phase), what the error    *)
(* can be (Errors) and how much of the timeout is left (Bounded).  That    *)
(* nothing leaks then follows place by place.                              *)
(***************************************************************************)
EXTENDS Connect, SequenceTheorems, TLAPS

(***************************************************************************)
(* The invariant                                                           *)
(***************************************************************************)
Making == {"struct", "host", "split", "rest", "argument", "default", "socket"}
Editing == {"host", "split", "rest", "argument", "default"}
Joining == {"resolve", "alternative", "address", "wait", "async"}
Settled == Joining \cup {"connection", "parser", "greeting", "password", "done"}

\* the host specification that counts, and what becomes of it
Asked == IF given.host # NoHost THEN given.host ELSE given.envHost
TextOf(w) == IF w = 2 THEN DefaultHost ELSE Asked
Word(w) == IF TextOf(w).password # NULL THEN TextOf(w).password ELSE given.password

\* do the settings have no alternative?
Alone == Asked # NoHost \/ CheckPort # 0

\* settings that still lack their port and timeout
Draft(host, password) == [host |-> host, password |-> password, port |-> 0, timeout |-> 0]

Stage(place, w) ==
    CASE place = "host"     -> Draft(NoHost, NULL)
      [] place = "split"    -> Draft(TextOf(w), NULL)
      [] place = "rest"     -> Draft(TextOf(w), TextOf(w).password)
      [] place = "argument" -> Draft(Plain(TextOf(w).rest), TextOf(w).password)
      [] place = "default"  -> Draft(Plain(TextOf(w).rest), Word(w))

\* the settings while their alternative is made
Half == Draft(NoHost, given.password)

\* what the code makes of what it is given
Computed(w) ==
    LET host == IF Asked # NoHost THEN Plain(Asked.rest)
                ELSE IF CheckPort = 0 /\ w = 1 THEN DefaultSocket ELSE DefaultHost
    IN  [host |-> host,
         password |-> IF Asked # NoHost /\ Asked.password # NULL THEN Asked.password
                      ELSE given.password,
         port |-> PortFor(host, CheckPort),
         timeout |-> TimeoutMs]

Complete == IF Alone THEN <<Computed(1)>> ELSE <<Computed(1), Computed(2)>>

Built ==
    /\ at = "struct" => list = <<>> \/ (~Alone /\ list = <<Half>>)
    /\ at \in Editing => \/ list = <<Stage(at, 1)>>
                         \/ ~Alone /\ list = <<Half, Stage(at, 2)>>
    /\ at = "rest" => TextOf(Made).password # NULL
    /\ at = "socket" => ~Alone /\ list = <<Half, Computed(2)>>
    /\ at \in Settled /\ call # "new_async" => list = Complete
    /\ at \in {"none", "null"} \/ call = "new_async" => list = <<>>

Phase ==
    /\ at \in Making \cup Settled \cup {"none", "null"}
    /\ at = "none" <=> call = "none"
    /\ call \in {"none", "settings", "new", "new_async"}
    /\ at \in Making => call \in {"settings", "new"}
    /\ at \in Joining \cup {"password"} => call = "new"
    /\ at \in Settled \ {"done"} => call # "settings"
    /\ at \in Making \cup {"none", "null", "connection"} \/ call = "settings" => conn = NoConnection
    /\ at \in Settled \ {"connection"} /\ call = "new" => conn.current \in 1 .. Len(list)
    /\ at \in Settled \ {"connection"} /\ call = "new_async" => conn.async
    /\ at \in Joining => ~conn.async
    /\ at \in Joining \cup {"parser"} => ~conn.parser
    /\ at \in {"parser", "greeting", "password"} => conn.async
    /\ at \in {"greeting", "password"} => conn.parser
    /\ fd <=> at \in {"wait", "async"}
    /\ addresses >= 0 <=> at \in {"address", "wait"}

Types ==
    /\ given \in Givens
    /\ conn \in [async : BOOLEAN, parser : BOOLEAN, current : 0 .. 2, version : Version]
    /\ addresses \in -1 .. MaxAddresses
    /\ fd \in BOOLEAN
    /\ slack \in Nat /\ waited \in Nat
    /\ error \in Codes /\ last \in Codes

Errors ==
    /\ at \in {"resolve", "async", "parser", "greeting", "password"} => error = "SUCCESS"
    /\ at = "alternative" => error = last /\ Defined(error)
    /\ at = "address" => /\ Defined(error) => error = last
                         /\ addresses = 0 => Defined(error)
    /\ at = "done" /\ call # "settings" =>
          /\ error = last
          /\ ~Defined(error) => conn.async /\ conn.parser

Bounded == slack + waited <= TimeoutMs

ConnectInv == Types /\ Phase /\ Built /\ Errors /\ Bounded /\ NothingLeaks

(***************************************************************************)
(* Settings                                                                *)
(***************************************************************************)
USE DEF NULL

LEMMA GivenTypes ==
    ASSUME given \in Givens
    PROVE  /\ given.host \in Host \cup {NoHost} /\ given.envHost \in Host \cup {NoHost}
           /\ given.port \in Nat /\ given.envPort \in Nat
           /\ given.timeout \in Nat /\ given.envTimeout \in Nat
           /\ given.password \in {NULL, "argument"}
           /\ Asked \in Host \cup {NoHost}
           /\ CheckPort \in Nat
BY ConnectAssumption DEF Given, Asked, CheckPort

\* The timeout is a number; it is too short where it wraps.
LEMMA TimeoutIsNumber ==
    ASSUME given \in Givens
    PROVE  TimeoutMs \in Nat
<1>1. CASE given.timeout # 0
  BY <1>1, GivenTypes DEF TimeoutMs
<1>2. CASE given.timeout = 0 /\ given.envTimeout > 0
  <2> DEFINE ms == given.envTimeout * Second
  <2>1. ms \in Nat
    BY GivenTypes, ConnectAssumption
  <2>2. TimeoutMs = ms % Wrap
    BY <1>2, GivenTypes DEF TimeoutMs
  <2> HIDE DEF ms
  <2>3. ms % Wrap \in Nat
    BY <2>1, ConnectAssumption
  <2> QED BY <2>2, <2>3
<1>3. CASE given.timeout = 0 /\ ~(given.envTimeout > 0)
  BY <1>3, GivenTypes, ConnectAssumption DEF TimeoutMs
<1> QED BY <1>1, <1>2, <1>3

\* What settings own, apart from where they are kept.
OwnedBy(w, s) ==
    {<<w, "struct">>}
    \cup (IF s.host = NoHost THEN {} ELSE {<<w, "host">>})
    \cup (IF s.password = NULL THEN {} ELSE {<<w, "password">>})

Freed(l) == UNION {OwnedBy(w, l[w]) : w \in DOMAIN l}

LEMMA SettingsFreeIs == SettingsFree = Freed(list) /\ SettingsFree' = Freed(list')
BY DEF SettingsFree, Owned, Freed, OwnedBy

LEMMA FreedNone == Freed(<<>>) = {}
BY DEF Freed

LEMMA FreedOne == ASSUME NEW s PROVE Freed(<<s>>) = OwnedBy(1, s)
<1>1. DOMAIN <<s>> = {1} /\ <<s>>[1] = s
  OBVIOUS
<1> QED BY <1>1 DEF Freed

LEMMA FreedTwo == ASSUME NEW s, NEW t PROVE Freed(<<s, t>>) = OwnedBy(1, s) \cup OwnedBy(2, t)
<1>1. DOMAIN <<s, t>> = {1, 2} /\ <<s, t>>[1] = s /\ <<s, t>>[2] = t
  OBVIOUS
<1> QED BY <1>1 DEF Freed

LEMMA PutOne == ASSUME NEW s, NEW t PROVE [<<s>> EXCEPT ![1] = t] = <<t>>
OBVIOUS

LEMMA PutTwo ==
    ASSUME NEW s, NEW t, NEW u
    PROVE  [<<s, t>> EXCEPT ![1] = u] = <<u, t>> /\ [<<s, t>> EXCEPT ![2] = u] = <<s, u>>
OBVIOUS

LEMMA HostTextIs ==
    ASSUME Made \in {1, 2}
    PROVE  HostText = TextOf(Made)
BY DEF HostText, TextOf, Asked

LEMMA TextTypes ==
    ASSUME given \in Givens, NEW w \in {1, 2}
    PROVE  /\ TextOf(w) \in Host \cup {NoHost}
           /\ TextOf(w).password \in {NULL, "host's"}
           /\ TextOf(w) = NoHost => TextOf(w).password = NULL /\ Plain(TextOf(w).rest) = NoHost
           /\ TextOf(w) # NoHost => Plain(TextOf(w).rest) # NoHost /\ TextOf(w) \in Host
           /\ TextOf(w).password = NULL => Plain(TextOf(w).rest) = TextOf(w)
<1>1. TextOf(w) \in Host \cup {NoHost}
  BY GivenTypes DEF TextOf, DefaultHost, Plain, Host
<1> DEFINE h == TextOf(w)
<1> HIDE DEF h
<1>2. h \in Host \cup {NoHost}
  BY <1>1 DEF h
<1>3. CASE h = NoHost
  BY <1>3, <1>1 DEF NoHost, Plain, h
<1>4. CASE h \in Host
  BY <1>4, <1>1 DEF NoHost, Plain, Host, h
<1> QED BY <1>2, <1>3, <1>4

\* In the middle of mpd_settings_new(), everything that is held is the settings'.
LEMMA LeaksOfSettings ==
    ASSUME Phase, at \in Making
    PROVE  NothingLeaks <=> held = Freed(list)
BY SettingsFreeIs DEF Phase, Making, NothingLeaks, Brought

LEMMA LeaksOfSettingsNext ==
    ASSUME Phase', at' \in Making
    PROVE  NothingLeaks' <=> held' = Freed(list')
BY SettingsFreeIs DEF Phase, Making, NothingLeaks, Brought

\* ... and so it is when it has made them
LEMMA LeaksOfMade ==
    ASSUME Phase', (at' = "done" /\ call' = "settings") \/ (at' = "connection" /\ call' = "new")
    PROVE  NothingLeaks' <=> held' = Freed(list')
<1>1. conn' = NoConnection /\ ~fd' /\ ~(addresses' >= 0)
  BY DEF Phase
<1>2. Brought' = {}
  BY DEF Brought
<1> QED BY <1>1, <1>2, SettingsFreeIs DEF NothingLeaks

LEMMA ReturningNull ==
    ASSUME ConnectInv, at \in Making, ReturnsNull(SettingsFree)
    PROVE  ConnectInv'
<1>1. Types'
  BY DEF ConnectInv, Types, ReturnsNull, socketUnchanged, NoConnection, NoVersion, Version
<1>2. Phase'
  BY DEF ConnectInv, Phase, ReturnsNull, socketUnchanged, Goto, Making, Joining, Settled
<1>3. Built'
  BY DEF ReturnsNull, Goto, Built, Making, Editing, Settled, Joining
<1>4. Errors'
  BY DEF ReturnsNull, Goto, Errors
<1>5. Bounded'
  BY DEF ConnectInv, Bounded, ReturnsNull, socketUnchanged, TimeoutMs
<1>6. NothingLeaks'
  <2>1. held' = {}
    BY LeaksOfSettings, SettingsFreeIs DEF ConnectInv, ReturnsNull
  <2>2. call # "new_async" /\ call' = call /\ at' = "null"
    BY DEF ConnectInv, Phase, ReturnsNull, Goto
  <2> QED BY <2>1, <2>2 DEF NothingLeaks, Brought
<1> QED BY <1>1, <1>2, <1>3, <1>4, <1>5, <1>6 DEF ConnectInv

\* What a step within mpd_settings_new() must be shown to do.
LEMMA SettingsStepDone ==
    ASSUME ConnectInv, at \in Making,
           \/ at' \in Making
           \/ at' = "done" /\ call = "settings"
           \/ at' = "connection" /\ call = "new",
           UNCHANGED <<given, call, conn, error, last, addresses, fd, slack, waited>>,
           Built', held' = Freed(list')
    PROVE  ConnectInv'
<1>1. Types'
  BY DEF ConnectInv, Types
<1>2. Phase'
  BY DEF ConnectInv, Phase, Making, Joining, Settled
<1>3. Errors'
  BY DEF ConnectInv, Phase, Making, Errors
<1>4. Bounded'
  BY DEF ConnectInv, Bounded, TimeoutMs
<1>5. NothingLeaks'
  <2>1. CASE at' \in Making
    BY <1>2, <2>1, LeaksOfSettingsNext
  <2>2. CASE (at' = "done" /\ call' = "settings") \/ (at' = "connection" /\ call' = "new")
    BY <1>2, <2>2, LeaksOfMade
  <2>3. at' \in Making \/ (at' = "done" /\ call' = "settings") \/ (at' = "connection" /\ call' = "new")
    OBVIOUS
  <2> QED BY <2>1, <2>2, <2>3
<1> QED BY <1>1, <1>2, <1>3, <1>4, <1>5 DEF ConnectInv

\* The list while settings are made: they are the last in it.
Draw(w, s) == IF w = 1 THEN <<s>> ELSE <<Half, s>>

\* The settings being made, and the same with other settings in their place.
LEMMA WhatIsMade ==
    ASSUME ConnectInv, at \in Editing
    PROVE  /\ Made \in {1, 2}
           /\ list = Draw(Made, Stage(at, Made))
           /\ list[Made] = Stage(at, Made)
           /\ \A s : [list EXCEPT ![Made] = s] = Draw(Made, s)
           /\ Made = 2 => ~Alone
<1>1. CASE list = <<Stage(at, 1)>>
  BY <1>1, PutOne DEF Made, Draw
<1>2. CASE ~Alone /\ list = <<Half, Stage(at, 2)>>
  BY <1>2, PutTwo DEF Made, Draw
<1> QED BY <1>1, <1>2 DEF ConnectInv, Built

LEMMA FreedMade ==
    ASSUME NEW w \in {1, 2}, NEW s
    PROVE  Freed(Draw(w, s)) = (IF w = 1 THEN {} ELSE OwnedBy(1, Half)) \cup OwnedBy(w, s)
BY FreedOne, FreedTwo DEF Draw

\* From one of the editing places to the next.
LEMMA Edited ==
    ASSUME ConnectInv, at \in Editing,
           NEW place \in Editing, at' = place,
           list' = [list EXCEPT ![Made] = Stage(place, Made)],
           place = "rest" => TextOf(Made).password # NULL,
           UNCHANGED <<given, call, conn, error, last, addresses, fd, slack, waited>>,
           held' = held \cup OwnedBy(Made, Stage(place, Made)),
           OwnedBy(Made, Stage(at, Made)) \subseteq OwnedBy(Made, Stage(place, Made))
    PROVE  ConnectInv'
<1>1. /\ list' = Draw(Made, Stage(place, Made))
      /\ list = Draw(Made, Stage(at, Made))
      /\ Made \in {1, 2} /\ (Made = 2 => ~Alone)
  BY WhatIsMade
<1>2. held = Freed(list)
  BY LeaksOfSettings DEF ConnectInv, Making, Editing
<1>3. held' = Freed(list')
  <2>1. Freed(list) = (IF Made = 1 THEN {} ELSE OwnedBy(1, Half)) \cup OwnedBy(Made, Stage(at, Made))
    BY <1>1, FreedMade
  <2>2. Freed(list') = (IF Made = 1 THEN {} ELSE OwnedBy(1, Half)) \cup OwnedBy(Made, Stage(place, Made))
    BY <1>1, FreedMade
  <2> QED BY <1>1, <1>2, <2>1, <2>2
<1>4. Built'
  <2>1. Stage(place, 1)' = Stage(place, 1) /\ Stage(place, 2)' = Stage(place, 2)
        /\ Half' = Half /\ Alone' = Alone /\ TextOf(1)' = TextOf(1) /\ TextOf(2)' = TextOf(2)
    BY DEF Stage, TextOf, Asked, Word, Half, Draft, Alone, CheckPort, Plain
  <2>2. Made' = Made
    BY <1>1 DEF Made, Draw
  <2>3. TextOf(Made)' = TextOf(Made)
    BY <1>1, <2>1, <2>2
  <2>4. call \in {"settings", "new"}
    BY DEF ConnectInv, Phase, Editing, Making
  <2>5. \/ list' = <<Stage(place, 1)>>
        \/ ~Alone /\ list' = <<Half, Stage(place, 2)>>
    BY <1>1 DEF Draw
  <2>6. Stage(at, 1)' = Stage(place, 1)' /\ Stage(at, 2)' = Stage(place, 2)'
    BY <2>1 DEF Stage, TextOf, Asked, Word, Draft, Plain
  <2> QED BY <2>1, <2>3, <2>4, <2>5, <2>6 DEF Built, Editing, Settled, Joining
<1> QED BY <1>3, <1>4, SettingsStepDone DEF Editing, Making

LEMMA AddOne ==
    ASSUME NEW s, NEW t
    PROVE  Append(<<>>, t) = <<t>> /\ Append(<<s>>, t) = <<s, t>>
<1>1. <<s>> \in Seq({s, t}) /\ <<>> \in Seq({s, t}) /\ Len(<<s>>) = 1 /\ Len(<<>>) = 0
  OBVIOUS
<1>2. Append(<<>>, t) = <<t>>
  BY <1>1
<1>3. Append(<<s>>, t) = <<s, t>>
  <2>1. /\ Append(<<s>>, t) \in Seq({s, t}) /\ <<s, t>> \in Seq({s, t})
        /\ Len(Append(<<s>>, t)) = 2 /\ Len(<<s, t>>) = 2
        /\ Append(<<s>>, t)[1] = s /\ Append(<<s>>, t)[2] = t
    BY <1>1, AppendProperties
  <2>2. \A i \in 1 .. 2 : Append(<<s>>, t)[i] = <<s, t>>[i]
    BY <2>1
  <2> QED BY <2>1, <2>2, SeqEqual
<1> QED BY <1>2, <1>3

LEMMA StructMade == ASSUME ConnectInv, MakeStruct PROVE ConnectInv'
<1>1. at = "struct" /\ at \in Making
  BY DEF MakeStruct, Making
<1>2. CASE ReturnsNull(SettingsFree)
  BY <1>1, <1>2, ReturningNull
<1>3. CASE /\ held' = held \cup {<<Made + 1, "struct">>}
           /\ list' = Append(list, NewSettings) /\ at' = "host"
           /\ UNCHANGED <<given, call, conn, error, last, addresses, fd, slack, waited>>
  <2>1. held = Freed(list)
    BY <1>1, LeaksOfSettings DEF ConnectInv
  <2>2. NewSettings = Stage("host", 1) /\ NewSettings = Stage("host", 2)
        /\ \A w : OwnedBy(w, NewSettings) = {<<w, "struct">>}
    BY DEF NewSettings, Stage, Draft, OwnedBy, NoHost
  <2>3. CASE list = <<>>
    <3>1. list' = <<NewSettings>> /\ Made = 0
      BY <1>3, <2>3, AddOne DEF Made
    <3>2. held' = Freed(list')
      BY <1>3, <2>1, <2>2, <2>3, <3>1, FreedNone, FreedOne
    <3>3. Built'
      BY <1>1, <1>3, <2>2, <3>1 DEF ConnectInv, Phase, Built, Making, Editing, Settled, Joining, Stage, Draft
    <3> QED BY <1>1, <1>3, <3>2, <3>3, SettingsStepDone DEF Making
  <2>4. CASE ~Alone /\ list = <<Half>>
    <3>1. list' = <<Half, NewSettings>> /\ Made = 1
      BY <1>3, <2>4, AddOne DEF Made
    <3>2. held' = Freed(list')
      <4>1. Freed(list) = OwnedBy(1, Half)
        BY <2>4, FreedOne
      <4>2. Freed(list') = OwnedBy(1, Half) \cup {<<2, "struct">>}
        BY <2>2, <3>1, FreedTwo
      <4>3. held' = held \cup {<<2, "struct">>}
        BY <1>3, <3>1
      <4> QED BY <2>1, <4>1, <4>2, <4>3
    <3>3. Half' = Half /\ Alone' = Alone
      BY <1>3 DEF Half, Alone, Draft, Asked, CheckPort
    <3>4. Built'
      BY <1>1, <1>3, <2>2, <2>4, <3>1, <3>3
      DEF ConnectInv, Phase, Built, Making, Editing, Settled, Joining, Stage, Draft
    <3> QED BY <1>1, <1>3, <3>2, <3>4, SettingsStepDone DEF Making
  <2> QED BY <1>1, <2>3, <2>4 DEF ConnectInv, Built
<1> QED BY <1>1, <1>2, <1>3 DEF MakeStruct, Needs, Goto, socketUnchanged

LEMMA HostMade == ASSUME ConnectInv, MakeHost PROVE ConnectInv'
<1>1. at = "host" /\ at \in Editing /\ at \in Making
  BY DEF MakeHost, Making, Editing
<1> DEFINE w == Made
           text == TextOf(w)
<1>2. /\ w \in {1, 2} /\ HostText = text /\ list[w] = Draft(NoHost, NULL)
      /\ \A s : [list EXCEPT ![w] = s] = Draw(w, s)
      /\ list = Draw(w, Stage(at, w))
  BY <1>1, WhatIsMade, HostTextIs DEF Stage
<1>3. /\ text = NoHost => text.password = NULL /\ Plain(text.rest) = NoHost
  BY <1>2, TextTypes DEF ConnectInv, Types
<1>4. OwnedBy(w, Stage(at, w)) = {<<w, "struct">>}
  BY <1>1 DEF Stage, Draft, OwnedBy, NoHost
<1> HIDE DEF w, text
<1>5. CASE HostText = NoHost /\ list' = list /\ at' = "argument" /\ held' = held
           /\ UNCHANGED <<given, call, conn, error, last, addresses, fd, slack, waited>>
  <2>1. Stage("argument", w) = Stage(at, w)
    BY <1>1, <1>2, <1>3, <1>5 DEF Stage, text
  <2>2. list' = [list EXCEPT ![w] = Stage("argument", w)]
    BY <1>2, <1>5, <2>1
  <2>3. held = Freed(list)
    BY <1>1, LeaksOfSettings DEF ConnectInv
  <2>4. <<w, "struct">> \in held
    BY <1>2, <1>4, <2>3, FreedMade
  <2>5. held' = held \cup OwnedBy(w, Stage("argument", w))
    BY <1>4, <1>5, <2>1, <2>4
  <2> QED BY <1>1, <1>5, <2>1, <2>2, <2>5, Edited DEF Editing, w
<1>6. CASE /\ HostText # NoHost
           /\ held' = held \cup {<<w, "host">>}
           /\ list' = [list EXCEPT ![w].host = HostText] /\ at' = "split"
           /\ UNCHANGED <<given, call, conn, error, last, addresses, fd, slack, waited>>
  <2>1. [list[w] EXCEPT !.host = HostText] = Stage("split", w)
    BY <1>2 DEF Stage, Draft, text
  <2>2. list' = [list EXCEPT ![w] = Stage("split", w)]
    BY <1>6, <2>1
  <2>3. OwnedBy(w, Stage("split", w)) = {<<w, "struct">>, <<w, "host">>}
    BY <1>2, <1>6 DEF Stage, Draft, OwnedBy, text
  <2>4. held = Freed(list)
    BY <1>1, LeaksOfSettings DEF ConnectInv
  <2>5. <<w, "struct">> \in held
    BY <1>2, <1>4, <2>4, FreedMade
  <2> QED BY <1>1, <1>4, <1>6, <2>2, <2>3, <2>5, Edited DEF Editing, w
<1>7. CASE ReturnsNull(SettingsFree)
  BY <1>1, <1>7, ReturningNull
<1> QED BY <1>1, <1>5, <1>6, <1>7 DEF MakeHost, Needs, Sets, Goto, socketUnchanged, settingsUnchanged, w

\* What the next few lemmas have in common.
LEMMA Editor ==
    ASSUME ConnectInv, at \in Editing
    PROVE  /\ Made \in {1, 2} /\ list[Made] = Stage(at, Made)
           /\ \A s : [list EXCEPT ![Made] = s] = Draw(Made, s)
           /\ list = Draw(Made, Stage(at, Made))
           /\ OwnedBy(Made, Stage(at, Made)) \subseteq held
           /\ held = Freed(list)
           /\ TextOf(Made) \in Host \cup {NoHost}
           /\ at \in Making
<1>1. /\ Made \in {1, 2} /\ list[Made] = Stage(at, Made)
      /\ \A s : [list EXCEPT ![Made] = s] = Draw(Made, s)
      /\ list = Draw(Made, Stage(at, Made))
  BY WhatIsMade
<1>2. held = Freed(list) /\ at \in Making
  BY LeaksOfSettings DEF ConnectInv, Making, Editing
<1>3. OwnedBy(Made, Stage(at, Made)) \subseteq held
  BY <1>1, <1>2, FreedMade
<1>4. TextOf(Made) \in Host \cup {NoHost}
  BY <1>1, TextTypes DEF ConnectInv, Types
<1> QED BY <1>1, <1>2, <1>3, <1>4

LEMMA PasswordSplit == ASSUME ConnectInv, SplitPassword PROVE ConnectInv'
<1>1. at = "split" /\ at \in Editing /\ at \in Making
  BY DEF SplitPassword, Making, Editing
<1> DEFINE w == Made
           text == TextOf(w)
<1>2. /\ w \in {1, 2} /\ list[w] = Draft(text, NULL)
      /\ \A s : [list EXCEPT ![w] = s] = Draw(w, s)
      /\ list = Draw(w, Stage(at, w)) /\ OwnedBy(w, Stage(at, w)) \subseteq held
  BY <1>1, Editor DEF Stage
<1>3. /\ text.password = NULL => Plain(text.rest) = text
  BY <1>2, TextTypes DEF ConnectInv, Types
<1>4. list[w].host.password = text.password
  BY <1>2 DEF Draft
<1> HIDE DEF w
<1>5. CASE /\ text.password = NULL /\ list' = list /\ at' = "argument" /\ held' = held
           /\ UNCHANGED <<given, call, conn, error, last, addresses, fd, slack, waited>>
  <2>1. Stage("argument", w) = Stage(at, w)
    BY <1>1, <1>3, <1>5 DEF Stage
  <2>2. list' = [list EXCEPT ![w] = Stage("argument", w)]
    BY <1>2, <1>5, <2>1
  <2>3. held' = held \cup OwnedBy(w, Stage("argument", w))
    BY <1>2, <1>5, <2>1
  <2> QED BY <1>1, <1>5, <2>1, <2>2, <2>3, Edited DEF Editing, w
<1>6. CASE /\ text.password # NULL
           /\ held' = held \cup {<<w, "password">>}
           /\ list' = [list EXCEPT ![w].password = text.password] /\ at' = "rest"
           /\ UNCHANGED <<given, call, conn, error, last, addresses, fd, slack, waited>>
  <2>1. [list[w] EXCEPT !.password = text.password] = Stage("rest", w)
    BY <1>2 DEF Stage, Draft
  <2>2. list' = [list EXCEPT ![w] = Stage("rest", w)]
    BY <1>6, <2>1
  <2>3. OwnedBy(w, Stage("rest", w)) = OwnedBy(w, Stage(at, w)) \cup {<<w, "password">>}
    BY <1>1, <1>6 DEF Stage, Draft, OwnedBy
  <2>4. held' = held \cup OwnedBy(w, Stage("rest", w))
    BY <1>2, <1>6, <2>3
  <2> QED BY <1>1, <1>6, <2>2, <2>3, <2>4, Edited DEF Editing, w
<1>7. CASE ReturnsNull(SettingsFree)
  BY <1>1, <1>7, ReturningNull
<1> QED BY <1>1, <1>4, <1>5, <1>6, <1>7
        DEF SplitPassword, Needs, Sets, Goto, socketUnchanged, settingsUnchanged, w

LEMMA HostSplit == ASSUME ConnectInv, SplitHost PROVE ConnectInv'
<1>1. at = "rest" /\ at \in Editing /\ at \in Making
  BY DEF SplitHost, Making, Editing
<1> DEFINE w == Made
           text == TextOf(w)
<1>2. /\ w \in {1, 2} /\ list[w] = Draft(text, text.password)
      /\ \A s : [list EXCEPT ![w] = s] = Draw(w, s)
      /\ list = Draw(w, Stage(at, w)) /\ OwnedBy(w, Stage(at, w)) \subseteq held
  BY <1>1, Editor DEF Stage
<1>3. text.password # NULL
  BY <1>1 DEF ConnectInv, Built
<1>4. Plain(text.rest) # NoHost /\ text # NoHost
  BY <1>2, <1>3, TextTypes DEF ConnectInv, Types
<1> HIDE DEF w
<1>5. CASE /\ held' = held \cup {<<w, "host">>}
           /\ list' = [list EXCEPT ![w].host = Plain(list[w].host.rest)] /\ at' = "argument"
           /\ UNCHANGED <<given, call, conn, error, last, addresses, fd, slack, waited>>
  <2>1. [list[w] EXCEPT !.host = Plain(list[w].host.rest)] = Stage("argument", w)
    BY <1>2 DEF Stage, Draft
  <2>2. list' = [list EXCEPT ![w] = Stage("argument", w)]
    BY <1>5, <2>1
  <2>3. OwnedBy(w, Stage("argument", w)) = OwnedBy(w, Stage(at, w))
        /\ <<w, "host">> \in OwnedBy(w, Stage(at, w))
    BY <1>1, <1>4 DEF Stage, Draft, OwnedBy
  <2>4. held' = held \cup OwnedBy(w, Stage("argument", w))
    BY <1>2, <1>5, <2>3
  <2> QED BY <1>1, <1>5, <2>2, <2>3, <2>4, Edited DEF Editing, w
<1>6. CASE ReturnsNull(SettingsFree)
  BY <1>1, <1>6, ReturningNull
<1> QED BY <1>1, <1>5, <1>6 DEF SplitHost, Needs, Goto, socketUnchanged, w

LEMMA PasswordMade == ASSUME ConnectInv, MakePassword PROVE ConnectInv'
<1>1. at = "argument" /\ at \in Editing /\ at \in Making
  BY DEF MakePassword, Making, Editing
<1> DEFINE w == Made
           text == TextOf(w)
<1>2. /\ w \in {1, 2} /\ list[w] = Draft(Plain(text.rest), text.password)
      /\ \A s : [list EXCEPT ![w] = s] = Draw(w, s)
      /\ list = Draw(w, Stage(at, w)) /\ OwnedBy(w, Stage(at, w)) \subseteq held
  BY <1>1, Editor DEF Stage
<1>3. TakesArgument <=> text.password = NULL /\ given.password # NULL
  BY <1>2 DEF TakesArgument, Draft
<1> HIDE DEF w
<1>4. CASE /\ ~TakesArgument /\ list' = list /\ at' = "default" /\ held' = held
           /\ UNCHANGED <<given, call, conn, error, last, addresses, fd, slack, waited>>
  <2>1. Word(w) = text.password
    BY <1>3, <1>4 DEF Word
  <2>2. Stage("default", w) = Stage(at, w)
    BY <1>1, <2>1 DEF Stage
  <2>3. list' = [list EXCEPT ![w] = Stage("default", w)]
    BY <1>2, <1>4, <2>2
  <2>4. held' = held \cup OwnedBy(w, Stage("default", w))
    BY <1>2, <1>4, <2>2
  <2> QED BY <1>1, <1>4, <2>2, <2>3, <2>4, Edited DEF Editing, w
<1>5. CASE /\ TakesArgument
           /\ held' = held \cup {<<w, "password">>}
           /\ list' = [list EXCEPT ![w].password = given.password] /\ at' = "default"
           /\ UNCHANGED <<given, call, conn, error, last, addresses, fd, slack, waited>>
  <2>1. Word(w) = given.password
    BY <1>3, <1>5 DEF Word
  <2>2. [list[w] EXCEPT !.password = given.password] = Stage("default", w)
    BY <1>2, <2>1 DEF Stage, Draft
  <2>3. list' = [list EXCEPT ![w] = Stage("default", w)]
    BY <1>5, <2>2
  <2>4. OwnedBy(w, Stage("default", w)) = OwnedBy(w, Stage(at, w)) \cup {<<w, "password">>}
    BY <1>1, <1>3, <1>5, <2>1 DEF Stage, Draft, OwnedBy
  <2>5. held' = held \cup OwnedBy(w, Stage("default", w))
    BY <1>2, <1>5, <2>4
  <2> QED BY <1>1, <1>5, <2>3, <2>4, <2>5, Edited DEF Editing, w
<1>6. CASE ReturnsNull(SettingsFree)
  BY <1>1, <1>6, ReturningNull
<1> QED BY <1>1, <1>4, <1>5, <1>6
        DEF MakePassword, Needs, Sets, Goto, socketUnchanged, settingsUnchanged, w

(***************************************************************************)
(* The last steps of mpd_settings_new()                                    *)
(***************************************************************************)
Full(host, password, port) ==
    [host |-> host, password |-> password, port |-> PortFor(host, port), timeout |-> TimeoutMs]

LEMMA FullIs ==
    ASSUME NEW host, NEW password, NEW port
    PROVE  [Draft(host, password) EXCEPT !.timeout = TimeoutMs,
                                         !.port = PortFor(Draft(host, password).host, port)]
             = Full(host, password, port)
<1> DEFINE t == TimeoutMs
           p == PortFor(host, port)
<1>1. Draft(host, password).host = host
  BY DEF Draft
<1> HIDE DEF t, p
<1>2. [Draft(host, password) EXCEPT !.timeout = t, !.port = p]
        = [host |-> host, password |-> password, port |-> p, timeout |-> t]
  <2> DEFINE r == [Draft(host, password) EXCEPT !.timeout = t, !.port = p]
  <2>1. DOMAIN r = {"host", "password", "port", "timeout"}
    BY DEF Draft
  <2>2. r.host = host /\ r.password = password
    BY DEF Draft
  <2>3. r.port = p /\ r.timeout = t
    BY DEF Draft
  <2>4. r = [f \in DOMAIN Draft(host, password) |-> r[f]]
    OBVIOUS
  <2> HIDE DEF r
  <2>5. r = [f \in {"host", "password", "port", "timeout"} |-> r[f]]
    BY <2>1, <2>4 DEF Draft
  <2>6. r = [host |-> host, password |-> password, port |-> p, timeout |-> t]
    BY <2>2, <2>3, <2>5
  <2> QED BY <2>6 DEF r
<1> QED BY <1>1, <1>2 DEF Full, t, p

LEMMA FinishedOne ==
    ASSUME NEW host, NEW password, NEW port
    PROVE  Finished(<<Draft(host, password)>>, 1, port) = <<Full(host, password, port)>>
<1> DEFINE d == Draft(host, password)
<1>1. [<<d>> EXCEPT ![1].timeout = TimeoutMs] = <<[d EXCEPT !.timeout = TimeoutMs]>>
  BY PutOne
<1>2. Finished(<<d>>, 1, port)
        = <<[d EXCEPT !.timeout = TimeoutMs, !.port = PortFor(d.host, port)]>>
  BY <1>1, PutOne DEF Finished
<1>3. [d EXCEPT !.timeout = TimeoutMs, !.port = PortFor(d.host, port)] = Full(host, password, port)
  BY FullIs
<1> QED BY <1>2, <1>3

LEMMA FinishedTwo ==
    ASSUME NEW s, NEW host, NEW password, NEW port
    PROVE  Finished(<<s, Draft(host, password)>>, 2, port) = <<s, Full(host, password, port)>>
<1> DEFINE d == Draft(host, password)
           f == [d EXCEPT !.timeout = TimeoutMs, !.port = PortFor(d.host, port)]
<1>1. Finished(<<s, d>>, 2, port) = <<s, f>>
  BY PutTwo DEF Finished
<1>2. f = Full(host, password, port)
  BY FullIs
<1> QED BY <1>1, <1>2

LEMMA FinishedFirst ==
    ASSUME NEW s, NEW host, NEW password, NEW port
    PROVE  Finished(<<Draft(host, password), s>>, 1, port) = <<Full(host, password, port), s>>
<1> DEFINE d == Draft(host, password)
           f == [d EXCEPT !.timeout = TimeoutMs, !.port = PortFor(d.host, port)]
<1>1. Finished(<<d, s>>, 1, port) = <<f, s>>
  BY PutTwo DEF Finished
<1>2. f = Full(host, password, port)
  BY FullIs
<1> QED BY <1>1, <1>2

\* What settings.h promises, case by case.
LEMMA PromisedHost ==
    ASSUME given \in Givens, Asked # NoHost
    PROVE  Computed(1) = Full(Plain(Asked.rest), Word(1), CheckPort)
<1>1. Word(1) = IF Asked # NoHost /\ Asked.password # NULL THEN Asked.password ELSE given.password
  BY DEF Word, TextOf
<1> QED BY <1>1 DEF Computed, Full, PortFor, CheckPort, Asked

LEMMA PromisedDefault ==
    ASSUME given \in Givens, Asked = NoHost
    PROVE  /\ Word(1) = given.password /\ Word(2) = given.password
           /\ CheckPort # 0 => Computed(1) = Full(DefaultHost, given.password, CheckPort)
           /\ CheckPort = 0 => Computed(1) = Full(DefaultSocket, given.password, CheckPort)
           /\ CheckPort = 0 => Computed(2) = Full(DefaultHost, given.password, DefaultPort)
<1>1. Word(1) = given.password /\ Word(2) = given.password
  BY DEF Word, TextOf, NoHost, DefaultHost, Plain
<1>2. CheckPort # 0 => Computed(1) = Full(DefaultHost, given.password, CheckPort)
  BY DEF Computed, Full, PortFor, CheckPort, Asked
<1>3. CheckPort = 0 => Computed(1) = Full(DefaultSocket, given.password, CheckPort)
  BY DEF Computed, Full, PortFor, CheckPort, Asked, IsLocal, DefaultSocket, Plain
<1>4. CheckPort = 0 => Computed(2) = Full(DefaultHost, given.password, DefaultPort)
  BY DEF Computed, Full, PortFor, CheckPort, Asked, DefaultPort
<1> QED BY <1>1, <1>2, <1>3, <1>4

LEMMA StaysPromised ==
    ASSUME given' = given
    PROVE  /\ Computed(1)' = Computed(1) /\ Computed(2)' = Computed(2)
           /\ Half' = Half /\ Alone' = Alone /\ Complete' = Complete
<1>1. TimeoutMs' = TimeoutMs
  BY DEF TimeoutMs
<1>2. Computed(1)' = Computed(1) /\ Computed(2)' = Computed(2)
  BY <1>1 DEF Computed, Asked, CheckPort, PortFor
<1>3. Half' = Half /\ Alone' = Alone
  BY DEF Half, Draft, Alone, Asked, CheckPort
<1> QED BY <1>2, <1>3 DEF Complete

LEMMA HostsDiffer == DefaultHost # NoHost /\ DefaultSocket # NoHost /\ Plain(DefaultHost.rest) = DefaultHost
BY DEF DefaultHost, DefaultSocket, NoHost, Plain

LEMMA SettingsFinished ==
    ASSUME ConnectInv, at \in Making, list' = Complete, at' = AfterSettings,
           UNCHANGED <<given, call, conn, error, last, addresses, fd, slack, waited>>,
           held' = Freed(list')
    PROVE  ConnectInv'
<1>1. call \in {"settings", "new"}
  BY DEF ConnectInv, Phase
<1>2. at' \in {"done", "connection"} /\ (at' = "done" <=> call = "settings")
  BY <1>1 DEF AfterSettings
<1>3. Complete' = Complete
  BY StaysPromised
<1>4. Built'
  BY <1>1, <1>2, <1>3 DEF Built, Editing
<1> QED BY <1>1, <1>2, <1>4, SettingsStepDone

LEMMA DefaultChosen == ASSUME ConnectInv, DefaultOrFinish PROVE ConnectInv'
<1>1. at = "default" /\ at \in Editing /\ at \in Making
  BY DEF DefaultOrFinish, Making, Editing
<1> DEFINE w == Made
           text == TextOf(w)
<1>2. /\ w \in {1, 2} /\ list[w] = Draft(Plain(text.rest), Word(w))
      /\ list = Draw(w, Draft(Plain(text.rest), Word(w)))
      /\ held = Freed(list) /\ (w = 2 => ~Alone)
  BY <1>1, Editor, WhatIsMade DEF Stage
<1>3. given \in Givens
  BY DEF ConnectInv, Types
<1>4. /\ list[w].host = Plain(text.rest)
      /\ text = NoHost <=> Plain(text.rest) = NoHost
  BY <1>2, <1>3, TextTypes DEF Draft
<1>5. /\ w = 1 => text = Asked
      /\ w = 2 => text = DefaultHost /\ text # NoHost
  BY HostsDiffer DEF TextOf
<1> HIDE DEF w, text
<1>6. CASE /\ text # NoHost /\ w = 1 /\ held' = held
           /\ list' = Finished(list, 1, CheckPort) /\ at' = AfterSettings
           /\ UNCHANGED <<given, call, conn, error, last, addresses, fd, slack, waited>>
  <2>1. list = <<Draft(Plain(Asked.rest), Word(1))>> /\ Alone
    BY <1>2, <1>5, <1>6 DEF Draw, Alone
  <2>2. list' = Complete
    BY <1>3, <1>5, <1>6, <2>1, FinishedOne, PromisedHost DEF Complete
  <2>3. Freed(list') = Freed(list)
    <3>1. list' = <<Full(Plain(Asked.rest), Word(1), CheckPort)>>
      BY <1>6, <2>1, FinishedOne
    <3> QED BY <2>1, <3>1, FreedOne DEF OwnedBy, Full, Draft
  <2> QED BY <1>1, <1>2, <1>6, <2>2, <2>3, SettingsFinished
<1>7. CASE /\ text # NoHost /\ w = 2 /\ held' = held
           /\ list' = Finished(list, 2, DefaultPort) /\ at' = "socket"
           /\ UNCHANGED <<given, call, conn, error, last, addresses, fd, slack, waited>>
  <2>1. list = <<Half, Draft(DefaultHost, Word(2))>> /\ ~Alone
    BY <1>2, <1>5, <1>7, HostsDiffer DEF Draw
  <2>2. Asked = NoHost /\ CheckPort = 0
    BY <2>1 DEF Alone
  <2>3. list' = <<Half, Full(DefaultHost, Word(2), DefaultPort)>>
    <3>1. Finished(<<Half, Draft(DefaultHost, Word(2))>>, 2, DefaultPort)
            = <<Half, Full(DefaultHost, Word(2), DefaultPort)>>
      BY FinishedTwo
    <3> QED BY <1>7, <2>1, <3>1
  <2>4. list' = <<Half, Computed(2)>>
    BY <1>3, <2>2, <2>3, PromisedDefault
  <2>5. Freed(list') = Freed(list)
    BY <2>1, <2>3, FreedTwo DEF OwnedBy, Full, Draft
  <2>6. Built'
    <3>1. call # "new_async"
      BY <1>1 DEF ConnectInv, Phase
    <3> QED BY <1>7, <2>1, <2>4, <3>1, StaysPromised DEF Built, Editing, Settled, Joining
  <2> QED BY <1>1, <1>2, <1>7, <2>5, <2>6, SettingsStepDone DEF Making
<1>8. CASE /\ text = NoHost /\ AlternativeWanted /\ held' = held
           /\ list' = list /\ at' = "struct"
           /\ UNCHANGED <<given, call, conn, error, last, addresses, fd, slack, waited>>
  <2>1. w = 1 /\ Asked = NoHost /\ ~Alone
    BY <1>2, <1>5, <1>8 DEF Alone, AlternativeWanted
  <2>2. Plain(text.rest) = NoHost /\ Word(w) = given.password
    BY <1>3, <1>4, <1>8, <2>1, PromisedDefault
  <2>3. list' = <<Half>>
    BY <1>2, <1>8, <2>1, <2>2 DEF Draw, Half
  <2>4. Built'
    <3>1. call # "new_async"
      BY <1>1 DEF ConnectInv, Phase
    <3> QED BY <1>8, <2>1, <2>3, <3>1, StaysPromised DEF Built, Editing, Settled, Joining
  <2> QED BY <1>1, <1>2, <1>8, <2>4, SettingsStepDone DEF Making
<1>9. CASE /\ text = NoHost /\ ~AlternativeWanted /\ held' = held \cup {<<1, "host">>}
           /\ list' = Finished([list EXCEPT ![1].host = DefaultHost], 1, CheckPort)
           /\ at' = AfterSettings
           /\ UNCHANGED <<given, call, conn, error, last, addresses, fd, slack, waited>>
  <2>1. w = 1 /\ Asked = NoHost /\ Alone /\ CheckPort # 0
    BY <1>2, <1>5, <1>9 DEF Alone, AlternativeWanted
  <2>2. Plain(text.rest) = NoHost /\ Word(w) = given.password
    BY <1>3, <1>4, <1>9, <2>1, PromisedDefault
  <2>3. list = <<Draft(NoHost, given.password)>>
    BY <1>2, <2>1, <2>2 DEF Draw
  <2>4. [list EXCEPT ![1].host = DefaultHost] = <<Draft(DefaultHost, given.password)>>
    <3>1. [Draft(NoHost, given.password) EXCEPT !.host = DefaultHost] = Draft(DefaultHost, given.password)
      BY DEF Draft
    <3> QED BY <2>3, <3>1, PutOne
  <2>5. list' = <<Full(DefaultHost, given.password, CheckPort)>>
    <3>1. Finished(<<Draft(DefaultHost, given.password)>>, 1, CheckPort)
            = <<Full(DefaultHost, given.password, CheckPort)>>
      BY FinishedOne
    <3> QED BY <1>9, <2>4, <3>1
  <2>6. list' = Complete
    BY <1>3, <2>1, <2>5, PromisedDefault DEF Complete
  <2>7. Freed(list') = Freed(list) \cup {<<1, "host">>}
    BY <2>3, <2>5, FreedOne, HostsDiffer DEF OwnedBy, Full, Draft
  <2> QED BY <1>1, <1>2, <1>9, <2>6, <2>7, SettingsFinished
<1>10. CASE ReturnsNull(SettingsFree)
  BY <1>1, <1>10, ReturningNull
<1> QED BY <1>4, <1>6, <1>7, <1>8, <1>9, <1>10
        DEF DefaultOrFinish, Needs, Sets, Goto, socketUnchanged, settingsUnchanged, w

LEMMA SocketMade == ASSUME ConnectInv, MakeSocket PROVE ConnectInv'
<1>1. at = "socket" /\ at \in Making
  BY DEF MakeSocket, Making
<1>2. /\ ~Alone /\ list = <<Half, Computed(2)>> /\ given \in Givens
      /\ held = Freed(list) /\ Asked = NoHost /\ CheckPort = 0
  BY <1>1, LeaksOfSettings DEF ConnectInv, Built, Types, Alone
<1>3. CASE /\ held' = held \cup {<<1, "host">>}
           /\ list' = Finished([list EXCEPT ![1].host = DefaultSocket], 1, CheckPort)
           /\ at' = AfterSettings
           /\ UNCHANGED <<given, call, conn, error, last, addresses, fd, slack, waited>>
  <2>1. [list EXCEPT ![1].host = DefaultSocket]
          = <<Draft(DefaultSocket, given.password), Computed(2)>>
    <3>1. [Half EXCEPT !.host = DefaultSocket] = Draft(DefaultSocket, given.password)
      BY DEF Half, Draft
    <3> QED BY <1>2, <3>1, PutTwo
  <2>2. list' = <<Full(DefaultSocket, given.password, CheckPort), Computed(2)>>
    <3>1. Finished(<<Draft(DefaultSocket, given.password), Computed(2)>>, 1, CheckPort)
            = <<Full(DefaultSocket, given.password, CheckPort), Computed(2)>>
      BY FinishedFirst
    <3> QED BY <1>3, <2>1, <3>1
  <2>3. list' = Complete
    BY <1>2, <2>2, PromisedDefault DEF Complete
  <2>4. Freed(list') = Freed(list) \cup {<<1, "host">>}
    BY <1>2, <2>2, FreedTwo, HostsDiffer DEF OwnedBy, Full, Half, Draft
  <2> QED BY <1>1, <1>2, <1>3, <2>3, <2>4, SettingsFinished
<1>4. CASE ReturnsNull(SettingsFree)
  BY <1>1, <1>4, ReturningNull
<1> QED BY <1>3, <1>4 DEF MakeSocket, Needs, Goto, socketUnchanged

(***************************************************************************)
(* Connections                                                             *)
(***************************************************************************)
\* What a connection and the call that makes it hold.
Holds(l, c, f, a) ==
    Freed(l) \cup {TheConnection}
    \cup (IF c.parser THEN {TheParser} ELSE {})
    \cup (IF c.async THEN {TheAsync, TheSocket} ELSE {})
    \cup (IF f THEN {TheSocket} ELSE {})
    \cup (IF a >= 0 THEN {TheResolver} ELSE {})

LEMMA FreedApart ==
    ASSUME NEW l
    PROVE  \A x \in {TheConnection, TheAsync, TheParser, TheSocket, TheResolver} :
               \A w \in DOMAIN l : w # 0 => x \notin OwnedBy(w, l[w])
BY DEF OwnedBy, TheConnection, TheAsync, TheParser, TheSocket, TheResolver

LEMMA ListIsShort == ASSUME ConnectInv, at \in Settled PROVE DOMAIN list \subseteq {1, 2}
<1>1. list = <<>> \/ list = <<Computed(1)>> \/ list = <<Computed(1), Computed(2)>>
  BY DEF ConnectInv, Built, Complete
<1>2. DOMAIN <<Computed(1)>> = {1} /\ DOMAIN <<Computed(1), Computed(2)>> = {1, 2}
  OBVIOUS
<1> QED BY <1>1, <1>2

LEMMA NotTheirs ==
    ASSUME ConnectInv, at \in Settled
    PROVE  Freed(list) \cap {TheConnection, TheAsync, TheParser, TheSocket, TheResolver} = {}
BY ListIsShort, FreedApart DEF Freed

LEMMA LeaksOfOpen ==
    ASSUME Phase, at \in Settled \ {"connection"}, call # "settings"
    PROVE  NothingLeaks <=> held = Holds(list, conn, fd, addresses)
<1>1. call \in {"new", "new_async"}
  BY DEF Phase, Settled, Joining
<1>2. conn # NoConnection /\ (call = "new_async" => conn.async)
  BY <1>1 DEF Phase, NoConnection
<1>3. at # "null" /\ at # "none"
  BY DEF Settled, Joining
<1> QED BY <1>1, <1>2, <1>3, SettingsFreeIs DEF NothingLeaks, Holds, ConnectionFree, Brought

LEMMA LeaksOfOpenNext ==
    ASSUME Phase', at' \in Settled \ {"connection"}, call' # "settings"
    PROVE  NothingLeaks' <=> held' = Holds(list', conn', fd', addresses')
<1>1. call' \in {"new", "new_async"}
  BY DEF Phase, Settled, Joining
<1>2. conn' # NoConnection /\ (call' = "new_async" => conn'.async)
  BY <1>1 DEF Phase, NoConnection
<1>3. at' # "null" /\ at' # "none"
  BY DEF Settled, Joining
<1> QED BY <1>1, <1>2, <1>3, SettingsFreeIs DEF NothingLeaks, Holds, ConnectionFree, Brought

LEMMA StaysBuilt ==
    ASSUME ConnectInv, settingsUnchanged, at \in Settled, at' \in Settled
    PROVE  Built'
BY StaysPromised DEF ConnectInv, Built, settingsUnchanged, Settled, Joining, Editing

\* Once the settings are made, a step is right if it keeps these.
LEMMA StepOfConnection ==
    ASSUME ConnectInv, settingsUnchanged, at \in Settled, at' \in Settled \ {"connection"},
           call # "settings",
           Types', Phase', Errors', Bounded',
           held' = Holds(list', conn', fd', addresses')
    PROVE  ConnectInv'
<1>1. Built'
  BY StaysBuilt
<1>2. call' # "settings"
  BY DEF settingsUnchanged
<1>3. NothingLeaks'
  BY <1>2, LeaksOfOpenNext
<1> QED BY <1>1, <1>3 DEF ConnectInv

Conn == [async : BOOLEAN, parser : BOOLEAN, current : 0 .. 2, version : Version]

LEMMA NoConnectionIs ==
    /\ NoConnection \in Conn
    /\ ~NoConnection.async /\ ~NoConnection.parser /\ NoConnection.current = 0
<1>1. NoVersion \in Version
  BY DEF NoVersion, Version
<1> QED BY <1>1 DEF NoConnection, Conn

LEMMA FirstSettings ==
    LET r == [NoConnection EXCEPT !.current = 1]
    IN  r \in Conn /\ ~r.async /\ ~r.parser /\ r.current = 1
BY NoConnectionIs DEF Conn

LEMMA OtherVersion ==
    ASSUME NEW v \in Version
    PROVE  LET r == [NoConnection EXCEPT !.async = TRUE, !.version = v]
           IN  r \in Conn /\ r.async /\ ~r.parser /\ r.current = 0
<1> DEFINE q == [NoConnection EXCEPT !.async = TRUE]
           r == [NoConnection EXCEPT !.async = TRUE, !.version = v]
<1>1. q \in Conn /\ q.async /\ ~q.parser /\ q.current = 0
  BY NoConnectionIs DEF Conn
<1>2. r = [q EXCEPT !.version = v]
  OBVIOUS
<1> HIDE DEF q, r
<1>3. r \in Conn /\ r.async /\ ~r.parser /\ r.current = 0
  BY <1>1, <1>2 DEF Conn
<1> QED BY <1>3 DEF r

LEMMA ConnectionMade == ASSUME ConnectInv, MakeConnection PROVE ConnectInv'
<1>1. at = "connection" /\ at \in Settled /\ call \in {"new", "new_async"}
  BY DEF MakeConnection, Settled, Joining, ConnectInv, Phase, Making
<1>2. /\ conn = NoConnection /\ ~fd /\ ~(addresses >= 0)
      /\ held = Freed(list) \cup Brought
  BY <1>1, SettingsFreeIs DEF ConnectInv, Phase, NothingLeaks
<1>3. CASE /\ held' = held \cup {TheConnection} /\ error' = "SUCCESS"
           /\ call = "new" /\ conn' = [NoConnection EXCEPT !.current = 1] /\ at' = "resolve"
           /\ settingsUnchanged /\ UNCHANGED <<addresses, fd, slack, waited, last>>
  <2>1. conn' \in Conn /\ ~conn'.async /\ ~conn'.parser /\ conn'.current = 1
    BY <1>3, FirstSettings
  <2>2. given' = given /\ call' = call /\ list' = list
    BY <1>3 DEF settingsUnchanged
  <2>3. Types'
    BY <1>3, <2>1, <2>2 DEF ConnectInv, Types, Codes, Conn
  <2>4. Len(list) \in {1, 2}
    BY <1>1, <1>3 DEF ConnectInv, Built, Complete
  <2>5. Phase'
    BY <1>2, <1>3, <2>1, <2>2, <2>4 DEF Phase, Making, Joining, Settled
  <2>6. Errors' /\ Bounded'
    BY <1>3, <2>2 DEF ConnectInv, Errors, Bounded, TimeoutMs
  <2>7. held' = Holds(list', conn', fd', addresses')
    <3>1. Brought = {}
      BY <1>3 DEF Brought
    <3> QED BY <1>2, <1>3, <2>1, <2>2, <3>1 DEF Holds
  <2> QED BY <1>1, <1>3, <2>3, <2>5, <2>6, <2>7, StepOfConnection DEF Settled, Joining
<1>4. ASSUME NEW v \in Garbage,
             held' = held \cup {TheConnection}, error' = "SUCCESS",
             call = "new_async", conn' = [NoConnection EXCEPT !.async = TRUE, !.version = v],
             at' = "parser", settingsUnchanged, UNCHANGED <<addresses, fd, slack, waited, last>>
      PROVE  ConnectInv'
  <2>1. conn' \in Conn /\ conn'.async /\ ~conn'.parser /\ conn'.current = 0
    <3>1. v \in Version
      BY ConnectAssumption
    <3> QED BY <1>4, <3>1, OtherVersion
  <2>2. given' = given /\ call' = call /\ list' = list
    BY <1>4 DEF settingsUnchanged
  <2>3. Types'
    BY <1>4, <2>1, <2>2 DEF ConnectInv, Types, Codes, Conn
  <2>5. Phase'
    BY <1>2, <1>4, <2>1, <2>2 DEF Phase, Making, Joining, Settled
  <2>6. Errors' /\ Bounded'
    BY <1>4, <2>2 DEF ConnectInv, Errors, Bounded, TimeoutMs
  <2>7. held' = Holds(list', conn', fd', addresses')
    <3>1. Brought = {TheAsync, TheSocket}
      BY <1>4 DEF Brought
    <3> QED BY <1>2, <1>4, <2>1, <2>2, <3>1 DEF Holds
  <2> QED BY <1>1, <1>4, <2>3, <2>5, <2>6, <2>7, StepOfConnection DEF Settled, Joining
<1>5. CASE ReturnsNull(SettingsFree)
  <2>1. Types'
    BY <1>5, NoConnectionIs DEF ConnectInv, Types, ReturnsNull, socketUnchanged, Conn
  <2>2. Phase'
    BY <1>1, <1>2, <1>5 DEF ConnectInv, Phase, ReturnsNull, socketUnchanged, Goto, Making, Joining, Settled
  <2>3. Built' /\ Errors'
    BY <1>5 DEF ReturnsNull, Goto, Built, Making, Editing, Settled, Joining, Errors
  <2>4. Bounded'
    BY <1>5 DEF ConnectInv, Bounded, ReturnsNull, socketUnchanged, TimeoutMs
  <2>5. NothingLeaks'
    <3>1. Brought \subseteq {TheAsync, TheSocket}
      BY DEF Brought
    <3>2. held' = Brought
      BY <1>1, <1>2, <1>5, <3>1, NotTheirs, SettingsFreeIs DEF ReturnsNull
    <3>3. Brought' = Brought
      BY <1>5 DEF ReturnsNull, Brought
    <3> QED BY <1>5, <3>2, <3>3 DEF NothingLeaks, ReturnsNull, Goto
  <2> QED BY <2>1, <2>2, <2>3, <2>4, <2>5 DEF ConnectInv
<1> QED BY <1>1, <1>3, <1>4, <1>5 DEF MakeConnection, Goto, socketUnchanged

\* What is known while mpd_connection_new() connects, and after.
LEMMA WhileJoining ==
    ASSUME ConnectInv, at \in Joining
    PROVE  /\ at \in Settled \ {"connection"} /\ call = "new"
           /\ conn \in Conn /\ ~conn.async /\ ~conn.parser
           /\ conn.current \in 1 .. Len(list)
           /\ list = Complete /\ Len(list) \in {1, 2}
           /\ given \in Givens /\ addresses \in -1 .. MaxAddresses
           /\ held = Holds(list, conn, fd, addresses)
<1>1. at \in Settled \ {"connection"} /\ call = "new"
  BY DEF ConnectInv, Phase, Settled, Joining
<1>2. list = Complete
  BY <1>1 DEF ConnectInv, Built
<1>3. Len(list) \in {1, 2}
  BY <1>2 DEF Complete
<1>4. conn \in Conn /\ given \in Givens /\ addresses \in -1 .. MaxAddresses
  BY DEF ConnectInv, Types, Conn
<1>5. ~conn.async /\ ~conn.parser /\ conn.current \in 1 .. Len(list)
  BY <1>1 DEF ConnectInv, Phase
<1>6. held = Holds(list, conn, fd, addresses)
  BY <1>1, LeaksOfOpen DEF ConnectInv
<1> QED BY <1>1, <1>2, <1>3, <1>4, <1>5, <1>6

\* A step from one of these places to another, of the same connection.
LEMMA StepOfJoining ==
    ASSUME ConnectInv, settingsUnchanged, at \in Joining, at' \in Joining,
           conn' \in Conn, ~conn'.async, ~conn'.parser, conn'.current \in 1 .. Len(list),
           fd' \in BOOLEAN, fd' <=> at' \in {"wait", "async"},
           addresses' \in -1 .. MaxAddresses,
           addresses' >= 0 <=> at' \in {"address", "wait"},
           slack' \in Nat, waited' \in Nat, error' \in Codes, last' \in Codes,
           Errors', Bounded',
           held' = Holds(list, conn', fd', addresses')
    PROVE  ConnectInv'
<1>1. given' = given /\ call' = call /\ list' = list /\ call = "new" /\ at \in Settled
  BY WhileJoining DEF settingsUnchanged
<1>2. Types'
  BY <1>1, WhileJoining DEF Types, Conn
<1>3. Phase'
  BY <1>1 DEF Phase, Joining, Settled, Making
<1> QED BY <1>1, <1>2, <1>3, StepOfConnection DEF Joining, Settled

LEMMA FirstTimeout ==
    ASSUME ConnectInv, at \in Joining
    PROVE  Timeout = TimeoutMs /\ Timeout \in Nat
<1>1. list = <<Computed(1)>> \/ list = <<Computed(1), Computed(2)>>
  BY WhileJoining DEF Complete
<1>2. Timeout = Computed(1).timeout
  BY <1>1 DEF Timeout
<1> QED BY <1>2, WhileJoining, TimeoutIsNumber DEF Computed

LEMMA Resolved == ASSUME ConnectInv, Resolve PROVE ConnectInv'
<1>1. at = "resolve" /\ at \in Joining
  BY DEF Resolve, Joining
<1>2. ~fd /\ fd \in BOOLEAN /\ ~(addresses >= 0) /\ conn' = conn /\ fd' = fd /\ settingsUnchanged
  BY <1>1 DEF Resolve, ConnectInv, Phase, Types
<1>3. slack' \in Nat /\ waited' \in Nat /\ Bounded'
  <2>1. slack' = TimeoutMs /\ waited' = 0 /\ TimeoutMs \in Nat
    BY <1>1, FirstTimeout DEF Resolve
  <2>2. TimeoutMs' = TimeoutMs
    BY <1>2 DEF TimeoutMs, settingsUnchanged
  <2> QED BY <2>1, <2>2 DEF Bounded
<1>4. CASE Fails("RESOLVER") /\ Goto("alternative") /\ UNCHANGED <<addresses, held>>
  <2>1. /\ at' = "alternative" /\ addresses' = addresses /\ held' = held
        /\ error' = "RESOLVER" /\ last' = "RESOLVER"
    BY <1>4 DEF Fails, Goto
  <2>2. Errors'
    BY <2>1 DEF Errors, Defined
  <2>3. held' = Holds(list, conn', fd', addresses')
    BY <1>1, <1>2, <2>1, WhileJoining
  <2> QED BY <1>1, <1>2, <1>3, <2>1, <2>2, <2>3, WhileJoining, StepOfJoining DEF Joining, Codes
<1>5. CASE /\ addresses' \in IF IsLocal(list[conn.current].host) THEN {1} ELSE 1 .. MaxAddresses
           /\ held' = held \cup {TheResolver}
           /\ Goto("address") /\ UNCHANGED <<error, last>>
  <2>1. addresses' \in 1 .. MaxAddresses
    BY <1>5, ConnectAssumption
  <2>2. error = "SUCCESS" /\ last \in Codes
    BY <1>1 DEF ConnectInv, Errors, Types
  <2>3. Errors'
    BY <1>5, <2>1, <2>2 DEF Errors, Defined, Goto
  <2>4. held' = Holds(list, conn', fd', addresses')
    BY <1>1, <1>2, <1>5, <2>1, WhileJoining DEF Holds
  <2>5. at' = "address" /\ error' \in Codes /\ last' \in Codes /\ addresses' \in -1 .. MaxAddresses
    BY <1>5, <2>1, <2>2, ConnectAssumption DEF Goto, Codes
  <2> QED BY <1>1, <1>2, <1>3, <2>1, <2>3, <2>4, <2>5, WhileJoining, StepOfJoining DEF Joining
<1> QED BY <1>4, <1>5 DEF Resolve

LEMMA AddressesEnd == ASSUME ConnectInv, NoMoreAddresses PROVE ConnectInv'
<1>1. at = "address" /\ at \in Joining /\ addresses = 0
  BY DEF NoMoreAddresses, Joining
<1>2. /\ ~fd /\ fd \in BOOLEAN /\ fd' = fd /\ conn' = conn /\ settingsUnchanged
      /\ at' = "alternative" /\ addresses' = -1 /\ held' = held \ {TheResolver}
      /\ slack' = slack /\ waited' = waited /\ error' = error /\ last' = last
  BY <1>1 DEF NoMoreAddresses, ConnectInv, Phase, Types, Goto
<1>3. Errors'
  BY <1>1, <1>2 DEF ConnectInv, Errors
<1>4. Bounded' /\ slack' \in Nat /\ waited' \in Nat /\ error' \in Codes /\ last' \in Codes
  BY <1>2 DEF ConnectInv, Bounded, TimeoutMs, settingsUnchanged, Types
<1>5. held' = Holds(list, conn', fd', addresses')
  <2>1. held = Holds(list, conn, FALSE, 0) /\ ~conn.parser /\ ~conn.async
    BY <1>1, <1>2, WhileJoining
  <2>2. Freed(list) \cap {TheResolver} = {}
    BY <1>1, WhileJoining, NotTheirs
  <2> QED BY <1>2, <2>1, <2>2 DEF Holds, TheConnection, TheResolver
<1>6. addresses' \in -1 .. MaxAddresses
  BY <1>2, ConnectAssumption
<1> QED BY <1>1, <1>2, <1>3, <1>4, <1>5, <1>6, WhileJoining, StepOfJoining DEF Joining

\* Success, from either of the two places.
LEMMA GotConnected ==
    ASSUME ConnectInv, at \in {"address", "wait"}, Connected, settingsUnchanged, conn' = conn,
           slack' \in Nat, waited' \in Nat, Bounded'
    PROVE  ConnectInv'
<1>1. at \in Joining /\ at' \in Joining
  BY DEF Connected, Goto, Joining
<1>2. /\ at' = "async" /\ addresses' = -1 /\ fd' /\ fd' \in BOOLEAN
      /\ held' = (held \cup {TheSocket}) \ {TheResolver}
      /\ error' = "SUCCESS" /\ last' = "SUCCESS"
  BY DEF Connected, Succeeds, Goto
<1>3. Errors'
  BY <1>2 DEF Errors
<1>4. addresses >= 0
  BY DEF ConnectInv, Phase
<1>5. held' = Holds(list, conn', fd', addresses')
  <2>1. held = Holds(list, conn, fd, addresses) /\ ~conn.parser /\ ~conn.async
    BY <1>1, WhileJoining
  <2>2. Freed(list) \cap {TheResolver} = {}
    BY <1>1, WhileJoining, NotTheirs
  <2> QED BY <1>2, <1>4, <2>1, <2>2 DEF Holds, TheConnection, TheResolver, TheSocket
<1>6. addresses' \in -1 .. MaxAddresses /\ error' \in Codes /\ last' \in Codes
  BY <1>2, ConnectAssumption DEF Codes
<1>7. /\ fd' <=> at' \in {"wait", "async"}
      /\ addresses' >= 0 <=> at' \in {"address", "wait"}
  BY <1>2
<1>8. conn' \in Conn /\ ~conn'.async /\ ~conn'.parser /\ conn'.current \in 1 .. Len(list)
  BY <1>1, WhileJoining
<1>9. fd' \in BOOLEAN
  BY <1>2
<1> QED BY <1>1, <1>3, <1>5, <1>6, <1>7, <1>8, <1>9, StepOfJoining

LEMMA AddressTried == ASSUME ConnectInv, TryAddress PROVE ConnectInv'
<1>1. /\ at = "address" /\ at \in Joining /\ addresses \in 1 .. MaxAddresses
      /\ settingsUnchanged /\ conn' = conn /\ slack' = slack /\ waited' = waited
  BY WhileJoining DEF TryAddress, Joining
<1>2. ~fd /\ fd \in BOOLEAN
  BY <1>1 DEF ConnectInv, Phase, Types
<1>3. Bounded' /\ slack' \in Nat /\ waited' \in Nat
  BY <1>1 DEF ConnectInv, Bounded, TimeoutMs, settingsUnchanged, Types
<1>4. CASE Connected
  BY <1>1, <1>3, <1>4, GotConnected
<1>5. addresses - 1 \in -1 .. MaxAddresses /\ addresses - 1 >= 0
  BY <1>1, ConnectAssumption
<1>6. held = Holds(list, conn, FALSE, addresses)
  BY <1>1, <1>2, WhileJoining
<1>7. CASE addresses' = ResolverNext /\ Fails("SYSTEM") /\ UNCHANGED <<at, held, fd>>
  <2>1. /\ addresses' = addresses - 1 /\ error' = "SYSTEM" /\ last' = "SYSTEM"
        /\ at' = "address" /\ held' = held /\ fd' = fd
    BY <1>1, <1>7 DEF ResolverNext, Fails
  <2>2. Errors'
    BY <2>1 DEF Errors, Defined
  <2>3. held' = Holds(list, conn', fd', addresses')
    BY <1>1, <1>2, <1>5, <1>6, <2>1 DEF Holds
  <2>4. error' \in Codes /\ last' \in Codes
    BY <2>1 DEF Codes
  <2> QED BY <1>1, <1>2, <1>3, <1>5, <2>1, <2>2, <2>3, <2>4, WhileJoining, StepOfJoining
<1>8. CASE /\ addresses' = ResolverNext /\ fd' = TRUE /\ held' = held \cup {TheSocket}
           /\ Goto("wait") /\ UNCHANGED <<error, last>>
  <2>1. /\ addresses' = addresses - 1 /\ error' = error /\ last' = last
        /\ at' = "wait" /\ held' = held \cup {TheSocket} /\ fd' /\ fd' \in BOOLEAN
    BY <1>8 DEF ResolverNext, Goto
  <2>2. Errors'
    BY <2>1 DEF Errors
  <2>3. held' = Holds(list, conn', fd', addresses')
    BY <1>1, <1>5, <1>6, <2>1 DEF Holds
  <2>4. error' \in Codes /\ last' \in Codes
    BY <2>1 DEF ConnectInv, Types
  <2>5. at' \in Joining
    BY <2>1 DEF Joining
  <2> QED BY <1>1, <1>3, <1>5, <2>1, <2>2, <2>3, <2>4, <2>5, WhileJoining, StepOfJoining
<1> QED BY <1>4, <1>7, <1>8 DEF TryAddress

LEMMA GivenUp ==
    ASSUME ConnectInv, at = "wait", NEW code \in Codes \ {"SUCCESS"}, GivesUp(code),
           settingsUnchanged, conn' = conn, slack' \in Nat, waited' \in Nat, Bounded'
    PROVE  ConnectInv'
<1>1. at \in Joining /\ at' \in Joining
  BY DEF GivesUp, Goto, Joining
<1>2. /\ at' = "address" /\ addresses' = addresses /\ ~fd' /\ fd' \in BOOLEAN
      /\ held' = held \ {TheSocket} /\ error' = code /\ last' = code
  BY DEF GivesUp, Goto, Fails
<1>3. Errors'
  BY <1>2 DEF Errors, Defined
<1>4. addresses >= 0
  BY DEF ConnectInv, Phase
<1>5. held' = Holds(list, conn', fd', addresses')
  <2>1. held = Holds(list, conn, fd, addresses) /\ ~conn.parser /\ ~conn.async
    BY <1>1, WhileJoining
  <2>2. Freed(list) \cap {TheSocket} = {}
    BY <1>1, WhileJoining, NotTheirs
  <2> QED BY <1>2, <1>4, <2>1, <2>2 DEF Holds, TheConnection, TheResolver, TheSocket
<1>6. error' \in Codes /\ last' \in Codes
  BY <1>2
<1> QED BY <1>1, <1>2, <1>3, <1>4, <1>5, <1>6, WhileJoining, StepOfJoining

LEMMA Waited == ASSUME ConnectInv, Wait PROVE ConnectInv'
<1>1. at = "wait" /\ at \in Joining /\ settingsUnchanged /\ conn' = conn
  BY DEF Wait, Joining
<1> PICK t \in 0 .. slack :
          /\ Slept(t)
          /\ \/ Connected
             \/ GivesUp("SYSTEM")
             \/ t > 0 /\ UNCHANGED <<at, addresses, fd, held, error, last>>
             \/ GivesUp("TIMEOUT")
  BY DEF Wait
<1>2. slack' \in Nat /\ waited' \in Nat /\ Bounded'
  <2>1. slack \in Nat /\ waited \in Nat /\ slack + waited <= TimeoutMs
    BY DEF ConnectInv, Types, Bounded
  <2>2. slack' = slack - t /\ waited' = waited + t
    BY DEF Slept
  <2>3. TimeoutMs' = TimeoutMs /\ TimeoutMs \in Nat
    BY <1>1, WhileJoining, TimeoutIsNumber DEF TimeoutMs, settingsUnchanged
  <2> QED BY <2>1, <2>2, <2>3 DEF Bounded
<1>3. CASE Connected
  BY <1>1, <1>2, <1>3, GotConnected
<1>4. CASE GivesUp("SYSTEM") \/ GivesUp("TIMEOUT")
  BY <1>1, <1>2, <1>4, GivenUp DEF Codes
<1>5. CASE UNCHANGED <<at, addresses, fd, held, error, last>>
  <2>1. Errors'
    BY <1>1, <1>5 DEF ConnectInv, Errors
  <2>2. held' = Holds(list, conn', fd', addresses')
    BY <1>1, <1>5, WhileJoining
  <2>3. /\ fd' \in BOOLEAN /\ (fd' <=> at' \in {"wait", "async"})
        /\ (addresses' >= 0 <=> at' \in {"address", "wait"})
        /\ error' \in Codes /\ last' \in Codes
    BY <1>5 DEF ConnectInv, Phase, Types
  <2> QED BY <1>1, <1>2, <1>5, <2>1, <2>2, <2>3, WhileJoining, StepOfJoining
<1> QED BY <1>3, <1>4, <1>5

LEMMA AlternativeTried == ASSUME ConnectInv, TryAlternative PROVE ConnectInv'
<1>1. /\ at = "alternative" /\ at \in Joining /\ settingsUnchanged /\ held' = held
      /\ addresses' = addresses /\ fd' = fd /\ slack' = slack /\ waited' = waited
  BY DEF TryAlternative, Joining, socketUnchanged
<1>2. ~fd /\ fd \in BOOLEAN /\ ~(addresses >= 0)
  BY <1>1 DEF ConnectInv, Phase, Types
<1>3. Bounded' /\ slack' \in Nat /\ waited' \in Nat
  BY <1>1 DEF ConnectInv, Bounded, TimeoutMs, settingsUnchanged, Types
<1>4. CASE /\ conn.current < Len(list) /\ conn' = [conn EXCEPT !.current = @ + 1]
           /\ Alternative(conn.current) /\ Goto("resolve")
  <2>1. conn' \in Conn /\ ~conn'.async /\ ~conn'.parser /\ conn'.current \in 1 .. Len(list)
    <3>1. conn.current + 1 \in 0 .. 2 /\ conn.current + 1 \in 1 .. Len(list)
      <4> DEFINE n == Len(list)
                 c == conn.current
      <4>1. n \in {1, 2} /\ c \in 1 .. n
        BY <1>1, WhileJoining
      <4>2. c < n
        BY <1>4
      <4> HIDE DEF n, c
      <4>3. c + 1 \in 0 .. 2 /\ c + 1 \in 1 .. n
        BY <4>1, <4>2
      <4> QED BY <4>3 DEF n, c
    <3>2. conn \in Conn /\ ~conn.async /\ ~conn.parser
      BY <1>1, WhileJoining
    <3> QED BY <1>4, <3>1, <3>2 DEF Conn
  <2>2. error' = "SUCCESS" /\ last' \in Codes /\ at' = "resolve" /\ at' \in Joining /\ error' \in Codes
    BY <1>4 DEF Alternative, Goto, ConnectInv, Types, Joining, Codes
  <2>3. Errors'
    BY <2>2 DEF Errors
  <2>4. held' = Holds(list, conn', fd', addresses')
    BY <1>1, <2>1, WhileJoining DEF Holds
  <2> QED BY <1>1, <1>2, <1>3, <2>1, <2>2, <2>3, <2>4, WhileJoining, StepOfJoining
<1>5. CASE conn.current = Len(list) /\ Goto("done") /\ UNCHANGED <<conn, error, last>>
  <2>1. at' = "done" /\ conn' = conn /\ error' = error /\ last' = last
    BY <1>5 DEF Goto
  <2>2. given' = given /\ list' = list /\ call' = call
    BY <1>1 DEF settingsUnchanged
  <2>3. Types'
    BY <1>1, <2>1, <2>2 DEF ConnectInv, Types
  <2>4. Phase'
    BY <1>1, <1>2, <2>1, <2>2, WhileJoining DEF Phase, Joining, Settled, Making
  <2>5. Errors'
    BY <1>1, <2>1 DEF ConnectInv, Errors, Defined
  <2>6. held' = Holds(list', conn', fd', addresses')
    BY <1>1, <2>1, <2>2, WhileJoining
  <2> QED BY <1>1, <1>3, <2>1, <2>3, <2>4, <2>5, <2>6, WhileJoining, StepOfConnection DEF Settled
<1> QED BY <1>4, <1>5 DEF TryAlternative

LEMMA AsyncMade == ASSUME ConnectInv, MakeAsync PROVE ConnectInv'
<1>1. /\ at = "async" /\ at \in Joining /\ settingsUnchanged /\ ~fd' /\ fd' \in BOOLEAN
      /\ addresses' = addresses /\ slack' = slack /\ waited' = waited
  BY DEF MakeAsync, Joining
<1>2. fd /\ ~(addresses >= 0)
  BY <1>1 DEF ConnectInv, Phase
<1>3. Bounded'
  BY <1>1 DEF ConnectInv, Bounded, TimeoutMs, settingsUnchanged
<1>4. given' = given /\ list' = list /\ call' = call
  BY <1>1 DEF settingsUnchanged
<1>5. CASE /\ held' = held \cup {TheAsync} /\ conn' = [conn EXCEPT !.async = TRUE]
           /\ Goto("parser") /\ UNCHANGED <<error, last>>
  <2>1. conn' \in Conn /\ conn'.async /\ ~conn'.parser /\ conn'.current = conn.current
    BY <1>1, <1>5, WhileJoining DEF Conn
  <2>2. at' = "parser" /\ error' = error /\ last' = last
    BY <1>5 DEF Goto
  <2>3. Types'
    BY <1>1, <1>4, <2>1, <2>2 DEF ConnectInv, Types, Conn
  <2>4. Phase'
    BY <1>1, <1>2, <1>4, <2>1, <2>2, WhileJoining DEF Phase, Joining, Settled, Making
  <2>5. Errors'
    BY <1>1, <2>2 DEF ConnectInv, Errors
  <2>6. held' = Holds(list', conn', fd', addresses')
    BY <1>1, <1>2, <1>4, <1>5, <2>1, WhileJoining DEF Holds
  <2> QED BY <1>1, <1>3, <2>2, <2>3, <2>4, <2>5, <2>6, WhileJoining, StepOfConnection DEF Settled
<1>6. CASE NoAsync /\ Fails("OOM") /\ Goto("done") /\ UNCHANGED conn
  <2>1. at' = "done" /\ error' = "OOM" /\ last' = "OOM" /\ conn' = conn /\ held' = held \ {TheSocket}
    BY <1>6 DEF NoAsync, Fails, Goto
  <2>2. Types'
    BY <1>1, <1>4, <2>1 DEF ConnectInv, Types, Codes
  <2>3. Phase'
    BY <1>1, <1>2, <1>4, <2>1, WhileJoining DEF Phase, Joining, Settled, Making
  <2>4. Errors'
    BY <2>1 DEF Errors, Defined
  <2>5. held' = Holds(list', conn', fd', addresses')
    <3>1. held = Holds(list, conn, fd, addresses) /\ ~conn.parser /\ ~conn.async
      BY <1>1, WhileJoining
    <3>2. Freed(list) \cap {TheSocket} = {}
      BY <1>1, WhileJoining, NotTheirs
    <3> QED BY <1>1, <1>2, <1>4, <2>1, <3>1, <3>2 DEF Holds, TheConnection, TheSocket
  <2> QED BY <1>1, <1>3, <2>1, <2>2, <2>3, <2>4, <2>5, WhileJoining, StepOfConnection DEF Settled
<1> QED BY <1>5, <1>6 DEF MakeAsync

\* What is known once there is an async object.
LEMMA WhileGreeting ==
    ASSUME ConnectInv, at \in {"parser", "greeting", "password"}
    PROVE  /\ at \in Settled \ {"connection"} /\ call \in {"new", "new_async"}
           /\ conn \in Conn /\ conn.async /\ (at = "parser" \/ conn.parser)
           /\ at = "parser" => ~conn.parser
           /\ call = "new" => conn.current \in 1 .. Len(list)
           /\ ~fd /\ ~(addresses >= 0)
           /\ held = Holds(list, conn, fd, addresses)
<1>1. at \in Settled \ {"connection"} /\ call \in {"new", "new_async"}
  BY DEF ConnectInv, Phase, Settled, Joining
<1>2. held = Holds(list, conn, fd, addresses)
  BY <1>1, LeaksOfOpen DEF ConnectInv
<1> QED BY <1>1, <1>2 DEF ConnectInv, Types, Phase, Conn

\* A step from there, with the same connection but for its parser and version.
LEMMA StepOfGreeting ==
    ASSUME ConnectInv, settingsUnchanged, socketUnchanged,
           at \in {"parser", "greeting", "password"},
           at' \in {"greeting", "password", "done"},
           at' = "password" => call = "new",
           conn' \in Conn, conn'.async, conn'.current = conn.current,
           conn'.parser \/ (at' = "done" /\ Defined(error')),
           at' = "done" => error' = last', at' # "done" => error' = "SUCCESS",
           error' \in Codes, last' \in Codes,
           held' = Holds(list, conn', fd, addresses)
    PROVE  ConnectInv'
<1>1. /\ given' = given /\ call' = call /\ list' = list
      /\ addresses' = addresses /\ fd' = fd /\ slack' = slack /\ waited' = waited
  BY DEF settingsUnchanged, socketUnchanged
<1>2. Types'
  BY <1>1 DEF ConnectInv, Types, Conn
<1>3. Phase'
  BY <1>1, WhileGreeting DEF Phase, Joining, Settled, Making
<1>4. Errors'
  BY <1>1, <1>3 DEF Errors, Defined
<1>5. Bounded'
  BY <1>1 DEF ConnectInv, Bounded, TimeoutMs
<1>6. at \in Settled /\ at' \in Settled \ {"connection"} /\ call # "settings"
  BY WhileGreeting DEF Settled
<1> QED BY <1>1, <1>2, <1>3, <1>4, <1>5, <1>6, StepOfConnection

LEMMA ParserMade == ASSUME ConnectInv, MakeParser PROVE ConnectInv'
<1>1. at = "parser" /\ settingsUnchanged /\ socketUnchanged
  BY DEF MakeParser
<1>2. error = "SUCCESS" /\ last \in Codes
  BY <1>1 DEF ConnectInv, Errors, Types
<1>3. CASE /\ held' = held \cup {TheParser} /\ conn' = [conn EXCEPT !.parser = TRUE]
           /\ Goto("greeting") /\ UNCHANGED <<error, last>>
  <2>1. conn' \in Conn /\ conn'.async /\ conn'.parser /\ conn'.current = conn.current
    BY <1>1, <1>3, WhileGreeting DEF Conn
  <2>2. held' = Holds(list, conn', fd, addresses)
    BY <1>1, <1>3, <2>1, WhileGreeting DEF Holds
  <2>3. at' = "greeting" /\ error' = "SUCCESS" /\ error' \in Codes /\ last' \in Codes
    BY <1>2, <1>3 DEF Goto, Codes
  <2> QED BY <1>1, <2>1, <2>2, <2>3, StepOfGreeting
<1>4. CASE Fails("OOM") /\ Goto("done") /\ UNCHANGED <<held, conn>>
  <2>1. at' = "done" /\ error' = "OOM" /\ last' = "OOM" /\ held' = held /\ conn' = conn
    BY <1>4 DEF Fails, Goto
  <2>2. error' \in Codes /\ Defined(error')
    BY <2>1 DEF Codes, Defined
  <2>3. conn' \in Conn /\ conn'.async /\ held' = Holds(list, conn', fd, addresses)
    BY <1>1, <2>1, WhileGreeting
  <2> QED BY <1>1, <2>1, <2>2, <2>3, StepOfGreeting
<1> QED BY <1>1, <1>3, <1>4 DEF MakeParser

LEMMA VersionParsed ==
    ASSUME NEW welcome \in Welcomes, NEW old \in Version
    PROVE  ParsedVersion(welcome, old) \in Version
<1>1. \A i \in DOMAIN welcome.numbers : Number(welcome.numbers[i]) \in Nat
  BY ConnectAssumption DEF Welcome, Number
<1> QED BY <1>1 DEF ParsedVersion, Version

LEMMA Welcomed == ASSUME ConnectInv, Greeting PROVE ConnectInv'
<1>1. at = "greeting" /\ settingsUnchanged /\ socketUnchanged /\ held' = held
  BY DEF Greeting
<1>2. conn \in Conn /\ conn.async /\ conn.parser /\ held = Holds(list, conn, fd, addresses)
  BY <1>1, WhileGreeting
<1>3. ASSUME NEW welcome \in Welcomes, Greeted(welcome)
      PROVE  ConnectInv'
  <2>1. ParsedVersion(welcome, conn.version) \in Version
    BY <1>2, VersionParsed DEF Conn
  <2>2. /\ conn' \in Conn /\ conn'.async /\ conn'.parser
        /\ conn'.current = conn.current
    BY <1>2, <1>3, <2>1 DEF Greeted, Conn
  <2>3. held' = Holds(list, conn', fd, addresses)
    BY <1>1, <1>2, <2>2 DEF Holds
  <2>4. \/ at' = "done" /\ error' = "MALFORMED" /\ last' = "MALFORMED"
        \/ /\ error' = "SUCCESS" /\ last' = "SUCCESS"
           /\ at' = "done" \/ (at' = "password" /\ call = "new")
    BY <1>3 DEF Greeted, Fails, Succeeds, Goto
  <2> QED BY <1>1, <2>2, <2>3, <2>4, StepOfGreeting DEF Codes
<1>4. ASSUME NEW code \in {"TIMEOUT", "CLOSED", "SYSTEM", "MALFORMED"}, Fails(code),
             Goto("done"), conn' = conn
      PROVE  ConnectInv'
  <2>1. at' = "done" /\ error' = code /\ last' = code /\ error' \in Codes /\ last' \in Codes
    BY <1>4 DEF Fails, Goto, Codes
  <2> QED BY <1>1, <1>2, <1>4, <2>1, StepOfGreeting
<1> QED BY <1>3, <1>4 DEF Greeting

LEMMA PasswordRun == ASSUME ConnectInv, Password PROVE ConnectInv'
<1>1. /\ at = "password" /\ settingsUnchanged /\ socketUnchanged /\ held' = held
      /\ conn' = conn /\ at' = "done"
  BY DEF Password, Goto
<1>2. conn \in Conn /\ conn.async /\ conn.parser /\ held = Holds(list, conn, fd, addresses)
  BY <1>1, WhileGreeting
<1>3. error' \in Codes /\ last' \in Codes /\ error' = last'
  BY DEF Password, Succeeds, Fails, Codes
<1> QED BY <1>1, <1>2, <1>3, StepOfGreeting

(***************************************************************************)
(* Calls                                                                   *)
(***************************************************************************)
LEMMA Called ==
    ASSUME ConnectInv, NEW c \in {"settings", "new", "new_async"}, Call(c)
    PROVE  ConnectInv'
<1>1. /\ at = "none" /\ call = "none" /\ conn = NoConnection /\ list = <<>>
      /\ ~fd /\ ~(addresses >= 0)
  BY DEF Call, ConnectInv, Phase, Built
<1>2. /\ call' = c /\ at' = (IF c = "new_async" THEN "connection" ELSE "struct")
      /\ held' = (IF c = "new_async" THEN {TheAsync, TheSocket} ELSE {})
      /\ given' = given /\ list' = list /\ conn' = conn /\ error' = error /\ last' = "SUCCESS"
      /\ addresses' = addresses /\ fd' = fd /\ slack' = slack /\ waited' = waited
  BY DEF Call, Goto, socketUnchanged
<1>3. Types'
  BY <1>2 DEF ConnectInv, Types, Codes
<1>4. Phase'
  BY <1>1, <1>2 DEF Phase, Making, Settled, Joining
<1>5. Built'
  BY <1>1, <1>2 DEF Built, Editing, Settled, Joining
<1>6. Errors' /\ Bounded'
  BY <1>2 DEF ConnectInv, Errors, Bounded, TimeoutMs
<1>7. NothingLeaks'
  BY <1>1, <1>2, SettingsFreeIs, FreedNone DEF NothingLeaks, Brought
<1> QED BY <1>3, <1>4, <1>5, <1>6, <1>7 DEF ConnectInv

LEMMA Left == ASSUME ConnectInv, Leave PROVE ConnectInv'
<1>1. /\ at \in {"done", "null"} /\ at' = "none" /\ call' = "none"
      /\ list' = <<>> /\ conn' = NoConnection /\ error' = "SUCCESS" /\ last' = "SUCCESS"
      /\ slack' = 0 /\ waited' = 0
      /\ given' = given /\ addresses' = addresses /\ fd' = fd
  BY DEF Leave, Goto
<1>2. ~fd /\ ~(addresses >= 0) /\ call \in {"settings", "new", "new_async"}
  BY <1>1 DEF ConnectInv, Phase
<1>3. Types'
  BY <1>1, NoConnectionIs DEF ConnectInv, Types, Codes, Conn
<1>4. Phase'
  BY <1>1, <1>2 DEF Phase, Making, Settled, Joining
<1>5. Built' /\ Errors'
  BY <1>1 DEF Built, Errors, Making, Editing, Settled, Joining
<1>6. Bounded'
  <2>1. TimeoutMs \in Nat /\ TimeoutMs' = TimeoutMs
    BY <1>1, TimeoutIsNumber DEF ConnectInv, Types, TimeoutMs
  <2> QED BY <1>1, <2>1 DEF Bounded
<1>7. held' = {}
  <2>1. CASE at = "null"
    BY <2>1 DEF ConnectInv, NothingLeaks, Leave
  <2>2. CASE at = "done" /\ call = "settings"
    <3>1. conn = NoConnection /\ Brought = {}
      BY <2>2 DEF ConnectInv, Phase, Brought
    <3> QED BY <1>2, <2>2, <3>1 DEF ConnectInv, NothingLeaks, Leave
  <2>3. CASE at = "done" /\ call # "settings"
    <3>1. held = Holds(list, conn, fd, addresses)
      BY <2>3, LeaksOfOpen DEF ConnectInv, Settled
    <3>2. held = ConnectionFree
      BY <1>2, <3>1, SettingsFreeIs DEF Holds, ConnectionFree
    <3> QED BY <2>3, <3>2 DEF Leave
  <2> QED BY <1>1, <2>1, <2>2, <2>3
<1>8. NothingLeaks'
  BY <1>1, <1>7 DEF NothingLeaks
<1> QED BY <1>3, <1>4, <1>5, <1>6, <1>8 DEF ConnectInv

LEMMA Begun == ASSUME Init PROVE ConnectInv
<1>1. Types
  <2>1. -1 \in -1 .. MaxAddresses
    BY ConnectAssumption
  <2>2. /\ given \in Givens /\ conn = NoConnection /\ addresses = -1
        /\ ~fd /\ fd \in BOOLEAN /\ slack = 0 /\ waited = 0
        /\ error = "SUCCESS" /\ last = "SUCCESS"
    BY DEF Init
  <2> QED BY <2>1, <2>2, NoConnectionIs DEF Types, Codes, Conn
<1>2. Phase
  BY DEF Init, Phase, Making, Settled, Joining
<1>3. Built /\ Errors /\ NothingLeaks
  BY DEF Init, Built, Errors, NothingLeaks, Making, Editing, Settled, Joining
<1>4. Bounded
  BY TimeoutIsNumber DEF Init, Bounded
<1> QED BY <1>1, <1>2, <1>3, <1>4 DEF ConnectInv

LEMMA Stuttered == ASSUME ConnectInv, UNCHANGED vars PROVE ConnectInv'
<1>1. Types' /\ Phase'
  BY DEF vars, ConnectInv, Types, Phase
<1>2. Built'
  <2>1. given' = given /\ list' = list /\ at' = at /\ call' = call
    BY DEF vars
  <2>2. TextOf(1)' = TextOf(1) /\ TextOf(2)' = TextOf(2) /\ Word(1)' = Word(1) /\ Word(2)' = Word(2)
    BY <2>1 DEF TextOf, Asked, Word
  <2>3. Stage(at, 1)' = Stage(at, 1) /\ Stage(at, 2)' = Stage(at, 2)
    BY <2>1, <2>2 DEF Stage, Draft, Plain
  <2>4. Made' = Made /\ TextOf(Made)' = TextOf(Made)
    BY <2>1 DEF Made, TextOf, Asked
  <2> QED BY <2>1, <2>3, <2>4, StaysPromised DEF ConnectInv, Built
<1>3. Errors' /\ Bounded'
  BY DEF vars, ConnectInv, Errors, Bounded, TimeoutMs
<1>4. NothingLeaks'
  BY SettingsFreeIs DEF vars, ConnectInv, NothingLeaks, ConnectionFree, Brought, Freed
<1> QED BY <1>1, <1>2, <1>3, <1>4 DEF ConnectInv

LEMMA ConnectInvariant == Spec => []ConnectInv
<1>1. Init => ConnectInv
  BY Begun
<1>2. ConnectInv /\ [Next]_vars => ConnectInv'
  <2> SUFFICES ASSUME ConnectInv, [Next]_vars PROVE ConnectInv'
    OBVIOUS
  <2>1. CASE \E c \in {"settings", "new", "new_async"} : Call(c)
    BY <2>1, Called
  <2>2. CASE SettingsStep
    BY <2>2, StructMade, HostMade, PasswordSplit, HostSplit, PasswordMade, DefaultChosen,
       SocketMade DEF SettingsStep
  <2>3. CASE ConnectionStep
    BY <2>3, ConnectionMade, Resolved, AddressesEnd, AddressTried, Waited, AlternativeTried,
       AsyncMade, ParserMade, Welcomed, PasswordRun DEF ConnectionStep
  <2>4. CASE Leave
    BY <2>4, Left
  <2>5. CASE UNCHANGED vars
    BY <2>5, Stuttered
  <2> QED BY <2>1, <2>2, <2>3, <2>4, <2>5 DEF Next
<1> QED BY <1>1, <1>2, PTL DEF Spec

(***************************************************************************)
(* The theorems                                                            *)
(***************************************************************************)
\* Whatever allocation fails and wherever connecting ends, what is allocated
\* or open is exactly what the remaining pointers reach: settings.c,
\* connection.c and socket.c lose nothing and free nothing twice.
THEOREM NothingEverLeaks == Spec => []NothingLeaks
<1>1. ConnectInv => NothingLeaks
  BY DEF ConnectInv
<1> QED BY <1>1, ConnectInvariant, PTL

\* However many settings and addresses are tried, mpd_connection_new() returns
\* with the error of its last attempt, with none if and only if the connection
\* can be used, and begins no attempt with an error still set.
THEOREM ErrorIsAlwaysOfTheLastAttempt == Spec => []ErrorIsOfTheLastAttempt
<1>1. ASSUME ConnectInv PROVE ErrorIsOfTheLastAttempt
  <2>1. error \in Codes /\ Errors /\ Phase /\ conn.async \in BOOLEAN
    BY <1>1 DEF ConnectInv, Types
  <2> QED BY <2>1 DEF Errors, ErrorIsOfTheLastAttempt, Defined
<1> QED BY <1>1, ConnectInvariant, PTL

\* mpd_socket_connect() spends no more than the timeout in select(), however
\* many addresses there are and however often it is interrupted: what it has
\* slept and what its timeval has left never exceed the timeout together.
THEOREM WaitIsAlwaysBounded == Spec => []WaitIsBounded
<1>1. ASSUME ConnectInv PROVE WaitIsBounded
  <2>1. slack \in Nat /\ waited \in Nat /\ slack + waited <= TimeoutMs /\ TimeoutMs \in Nat
    BY <1>1, TimeoutIsNumber DEF ConnectInv, Types, Bounded
  <2> QED BY <2>1 DEF WaitIsBounded
<1> QED BY <1>1, ConnectInvariant, PTL

\* The settings that are computed, beside those that are documented.
LEMMA ComputedAsDocumented ==
    ASSUME given \in Givens, NEW w \in {1, 2}, w = 2 => ~Alone
    PROVE  /\ Computed(w).host = Documented(w).host
           /\ Computed(w).port = Documented(w).port
           /\ \/ Computed(w).password = Documented(w).password
              \/ TwoPasswords /\ Computed(w).password = HostAskedFor.password
           /\ \/ TimeoutMs = Documented(w).timeout
              \/ TimeoutWraps /\ TimeoutMs < Documented(w).timeout
<1>1. HostAskedFor = Asked /\ PortAskedFor = CheckPort
  BY DEF HostAskedFor, Asked, PortAskedFor, CheckPort
<1>2. Computed(w).host = Documented(w).host
  BY <1>1 DEF Computed, Documented
<1>3. Computed(w).port = Documented(w).port
  BY <1>1 DEF Computed, Documented, PortFor
<1>4. \/ Computed(w).password = Documented(w).password
      \/ TwoPasswords /\ Computed(w).password = HostAskedFor.password
  <2>1. Asked = NoHost => Asked.password = NULL
    BY DEF NoHost
  <2> QED BY <1>1, <2>1, GivenTypes DEF Computed, Documented, TwoPasswords
<1>5. \/ TimeoutMs = Documented(w).timeout
      \/ TimeoutWraps /\ TimeoutMs < Documented(w).timeout
  <2> DEFINE ms == given.envTimeout * Second
             wanted == Documented(w).timeout
  <2>1. /\ ms \in Nat /\ Wrap \in Nat \ {0} /\ given.timeout \in Nat
        /\ given.envTimeout \in Nat
    BY GivenTypes, ConnectAssumption
  <2>2. wanted = IF given.timeout # 0 THEN given.timeout
                 ELSE IF given.envTimeout # 0 THEN ms ELSE DefaultTimeout
    BY DEF Documented
  <2>3. TimeoutMs = IF given.timeout # 0 THEN given.timeout
                    ELSE IF given.envTimeout > 0 THEN ms % Wrap ELSE DefaultTimeout
    BY DEF TimeoutMs
  <2>4. TimeoutWraps <=> given.timeout = 0 /\ ms >= Wrap
    BY DEF TimeoutWraps
  <2> HIDE DEF ms, wanted
  <2>5. IF ms >= Wrap THEN ms % Wrap < ms ELSE ms % Wrap = ms
    BY <2>1
  <2>6. TimeoutMs = wanted \/ (TimeoutWraps /\ TimeoutMs < wanted)
    BY <2>1, <2>2, <2>3, <2>4, <2>5
  <2> QED BY <2>6 DEF wanted
<1> QED BY <1>2, <1>3, <1>4, <1>5

\* The settings are those that settings.h documents, by its precedence of
\* arguments, environment and defaults, but for the password where there are
\* two and for a timeout that wraps; and only if neither host nor port is given
\* are there two of them.
THEOREM SettingsAreAsDocumented == Spec => []SettingsAsDocumented
<1>1. ASSUME ConnectInv PROVE SettingsAsDocumented
  <2> SUFFICES ASSUME list # <<>>, at \in {"done", "connection", "resolve"}
               PROVE  SettingsAsDocumented
    BY DEF SettingsAsDocumented
  <2>1. list = Complete /\ given \in Givens
    <3>1. at \in Settled /\ call # "new_async"
      BY <1>1 DEF ConnectInv, Built, Settled, Joining
    <3> QED BY <1>1, <3>1 DEF ConnectInv, Built, Types
  <2>2. /\ \/ DOMAIN list = {1} /\ Alone
           \/ DOMAIN list = {1, 2} /\ ~Alone
        /\ \A w \in DOMAIN list : list[w] = Computed(w)
    <3>1. CASE Alone
      BY <2>1, <3>1 DEF Complete
    <3>2. CASE ~Alone
      <4>1. list = <<Computed(1), Computed(2)>>
        BY <2>1, <3>2 DEF Complete
      <4>2. DOMAIN list = {1, 2} /\ list[1] = Computed(1) /\ list[2] = Computed(2)
        BY <4>1
      <4> QED BY <3>2, <4>2
    <3> QED BY <3>1, <3>2
  <2>3. Len(list) = 2 <=> HostAskedFor = NoHost /\ PortAskedFor = 0
    <3>1. Len(<<Computed(1)>>) = 1 /\ Len(<<Computed(1), Computed(2)>>) = 2
      OBVIOUS
    <3>2. ~Alone <=> HostAskedFor = NoHost /\ PortAskedFor = 0
      BY DEF Alone, Asked, CheckPort, HostAskedFor, PortAskedFor
    <3> QED BY <2>1, <3>1, <3>2 DEF Complete
  <2>4. ASSUME NEW w \in DOMAIN list
        PROVE  /\ list[w].host = Documented(w).host
               /\ list[w].port = Documented(w).port
               /\ \/ list[w].password = Documented(w).password
                  \/ TwoPasswords /\ list[w].password = HostAskedFor.password
               /\ \/ list[w].timeout = Documented(w).timeout
                  \/ TimeoutWraps /\ list[w].timeout < Documented(w).timeout
    <3>1. w \in {1, 2} /\ (w = 2 => ~Alone)
      BY <2>2
    <3>2. list[w] = Computed(w) /\ Computed(w).timeout = TimeoutMs
      BY <2>2 DEF Computed
    <3> HIDE DEF Computed
    <3> QED BY <2>1, <3>1, <3>2, ComputedAsDocumented
  <2>5. ASSUME NEW w \in DOMAIN list
        PROVE  list[w].password = list[1].password /\ list[w].timeout = list[1].timeout
    <3>1. list[w] = Computed(w) /\ list[1] = Computed(1)
      BY <2>2
    <3>2. Computed(w).password = Computed(1).password /\ Computed(w).timeout = Computed(1).timeout
      BY DEF Computed
    <3> QED BY <3>1, <3>2
  <2> QED BY <2>3, <2>4, <2>5 DEF SettingsAsDocumented
<1> QED BY <1>1, ConnectInvariant, PTL
=============================================================================
