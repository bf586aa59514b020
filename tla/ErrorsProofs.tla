---------------------------- MODULE ErrorsProofs -----------------------------
(***************************************************************************)
(* How lines are read, for any lines that keep the protocol.  Then, if the *)
(* client does not flush in spite of an error, whose error it is told, who *)
(* owns the messages, and what the connection's error says of the          *)
(* mpd_async's, for any number of blocks and any failing allocation.       *)
(*                                                                         *)
(* The invariant ErrorsInv says where each error's message is; the lemmas  *)
(* say of each function of ierror.c that whatever outcome it has is one    *)
(* that adds at most the message of the error it makes (Adds).             *)
(***************************************************************************)
EXTENDS Errors, SequenceTheorems, TLAPS

Addresses == 1 .. MaxMessages

\* The outcome of making an error: its message is new, the others are kept.
Adds(o, memory) ==
    /\ o.error \in ErrorInfo /\ Defined(o.error)
    /\ DOMAIN o.heap \subseteq Addresses
    /\ DOMAIN o.heap = DOMAIN memory \cup Owned(o.error)
    /\ Owned(o.error) \cap DOMAIN memory = {}
    /\ \A b \in DOMAIN memory : o.heap[b] = memory[b]
    /\ o.error.message = NULL => o.error.code = "OOM"

\* The parser's verdict has a known result, and an error its numbers.
LEMMA FeedTypes ==
    ASSUME NEW line
    PROVE  /\ Feed(line).result \in {"MALFORMED", "SUCCESS", "PAIR", "ERROR"}
           /\ Feed(line).result = "ERROR" =>
                 Feed(line).server \in Numbers \cup {"UNK"} /\ Feed(line).at \in Numbers
<1>1. \A i : Strtol(line, i).value \in Numbers
  BY ErrorsAssumption DEF Strtol
<1>2. ASSUME NEW p, NEW server, NEW at, NEW text,
             server \in Numbers \cup {"UNK"}, at \in Numbers
      PROVE  /\ Error(server, at, text).result = "ERROR"
             /\ Error(server, at, text).server = server
             /\ Error(server, at, text).at = at
  BY DEF Error
<1>3. /\ FeedAck(line).result \in {"MALFORMED", "ERROR"}
      /\ FeedAck(line).result = "ERROR" =>
            FeedAck(line).server \in Numbers \cup {"UNK"} /\ FeedAck(line).at \in Numbers
  <2> DEFINE p == Strchr(line, 2, "[")
             server == Strtol(line, p + 1)
             at == IF At(line, server.end) = "@" THEN Strtol(line, server.end + 1)
                   ELSE [value |-> "0", end |-> server.end]
             q == Strchr(line, at.end, "]")
             message == NoSpace(line, Behind(line, q + 1))
             text == SubSeq(line, message, Len(line))
  <2>1. server.value \in Numbers
    BY <1>1
  <2>2. at.value \in Numbers
    <3> HIDE DEF server
    <3> QED BY <1>1, ErrorsAssumption
  <2> HIDE DEF p, server, at, q, message, text
  <2>3. FeedAck(line) \in {Error("UNK", "0", <<>>), Malformed, Error(server.value, at.value, text)}
    BY DEF FeedAck, p, server, at, q, message, text
  <2> QED
    BY <2>1, <2>2, <2>3, ErrorsAssumption DEF Error, Malformed
<1>4. FeedPair(line).result \in {"MALFORMED", "PAIR"}
  BY DEF FeedPair, Malformed, PairOf
<1> QED
  BY <1>3, <1>4 DEF Feed, Success

(***************************************************************************)
(* The parser reads what the server means                                  *)
(***************************************************************************)
LEMMA MinIs ==
    ASSUME NEW S, S \subseteq Int, NEW k \in S, \A j \in S : k <= j
    PROVE  Min(S) = k
<1>1. \E x \in S : \A y \in S : x <= y
  OBVIOUS
<1>2. Min(S) \in S /\ \A y \in S : Min(S) <= y
  BY <1>1 DEF Min
<1>3. Min(S) <= k /\ k <= Min(S) /\ Min(S) \in Int /\ k \in Int
  BY <1>2
<1> HIDE DEF Min
<1> QED BY <1>3

LEMMA SomeTokens == Marks \subseteq Tokens /\ Numbers \subseteq Tokens
BY DEF Tokens

\* The tokens of two texts that are joined.
LEMMA Joined ==
    ASSUME NEW s \in Seq(Tokens), NEW t \in Seq(Tokens)
    PROVE  /\ s \o t \in Seq(Tokens)
           /\ Len(s) \in Nat /\ Len(t) \in Nat /\ Len(s \o t) = Len(s) + Len(t)
           /\ \A i \in 1 .. Len(s) : (s \o t)[i] = s[i]
           /\ \A i \in 1 .. Len(t) : (s \o t)[Len(s) + i] = t[i]
<1>1. /\ s \o t \in Seq(Tokens) /\ Len(s \o t) = Len(s) + Len(t)
      /\ Len(s) \in Nat /\ Len(t) \in Nat
      /\ \A i \in 1 .. Len(s) + Len(t) :
            (s \o t)[i] = IF i <= Len(s) THEN s[i] ELSE t[i - Len(s)]
  BY ConcatProperties, LenProperties
<1> DEFINE u == s \o t
<1> HIDE DEF u
<1>2. \A i \in 1 .. Len(s) : u[i] = s[i]
  BY <1>1 DEF u
<1>3. ASSUME NEW i \in 1 .. Len(t) PROVE u[Len(s) + i] = t[i]
  <2>1. Len(s) + i \in 1 .. Len(s) + Len(t) /\ ~(Len(s) + i <= Len(s)) /\ Len(s) + i - Len(s) = i
    BY <1>1
  <2> QED BY <1>1, <2>1 DEF u
<1> QED BY <1>1, <1>2, <1>3 DEF u

\* A part of a text.
LEMMA Part ==
    ASSUME NEW line \in Seq(Tokens), NEW before \in Nat, NEW s \in Seq(Tokens),
           before + Len(s) <= Len(line),
           \A i \in 1 .. Len(s) : line[before + i] = s[i]
    PROVE  SubSeq(line, before + 1, before + Len(s)) = s
<1> DEFINE m == before + 1
           e == before + Len(s)
           part == SubSeq(line, m, e)
<1>1. /\ m \in Int /\ e \in Int /\ e - m + 1 = Len(s) /\ (m <= e <=> Len(s) # 0)
      /\ m \in Nat /\ Len(s) \in Nat
  BY LenProperties
<1>2. \A i \in m .. e : line[i] \in Tokens
  <2> TAKE i \in m .. e
  <2>1. i \in 1 .. Len(line)
    BY LenProperties
  <2> QED BY <2>1, ElementOfSeq
<1>3. \A i \in 1 .. Len(s) : m + i - 1 = before + i
  BY <1>1
<1> HIDE DEF m, e
<1>4. /\ part \in Seq(Tokens) /\ Len(part) = IF m <= e THEN e - m + 1 ELSE 0
      /\ \A i \in 1 .. e - m + 1 : part[i] = line[m + i - 1]
  BY <1>1, <1>2, SubSeqProperties
<1> HIDE DEF part
<1>5. Len(part) = Len(s) /\ \A i \in 1 .. Len(s) : part[i] = s[i]
  BY <1>1, <1>3, <1>4
<1>6. part = s
  BY <1>4, <1>5, SeqEqual
<1> QED BY <1>6 DEF part, m, e

\* strchr() finds the first one.
LEMMA StrchrFinds ==
    ASSUME NEW line \in Seq(Tokens), NEW i \in Nat \ {0}, NEW k \in i .. Len(line),
           NEW mark, line[k] = mark, \A j \in i .. k - 1 : line[j] # mark
    PROVE  Strchr(line, i, mark) = k
<1> DEFINE found == {j \in i .. Len(line) : line[j] = mark}
<1>1. found \subseteq Int /\ k \in found /\ Len(line) \in Nat
  OBVIOUS
<1>2. ASSUME NEW j \in found PROVE k <= j
  <2>1. j \in Int /\ k \in Int /\ j \in i .. Len(line) /\ line[j] = mark
    OBVIOUS
  <2>2. ~(j < k)
    BY <2>1
  <2> QED BY <2>1, <2>2
<1>3. Min(found) = k
  <2> HIDE DEF found
  <2> QED BY <1>1, <1>2, MinIs
<1>4. found # {}
  BY <1>1
<1> QED BY <1>3, <1>4 DEF Strchr

LEMMA NoSpaceFinds ==
    ASSUME NEW line \in Seq(Tokens), NEW i \in Nat \ {0}, NEW k \in i .. Len(line) + 1,
           k <= Len(line) => line[k] # "space", \A j \in i .. k - 1 : line[j] = "space"
    PROVE  NoSpace(line, i) = k
<1> DEFINE found == {j \in i .. Len(line) : line[j] # "space"} \cup {Len(line) + 1}
<1>1. found \subseteq Int /\ k \in found /\ Len(line) \in Nat
  OBVIOUS
<1>2. ASSUME NEW j \in found PROVE k <= j
  <2>1. j \in Int /\ k \in Int /\ (j = Len(line) + 1 \/ (j \in i .. Len(line) /\ line[j] # "space"))
    OBVIOUS
  <2>2. ~(j < k)
    BY <1>1, <2>1
  <2> QED BY <2>1, <2>2
<1>3. Min(found) = k
  <2> HIDE DEF found
  <2> QED BY <1>1, <1>2, MinIs
<1> QED BY <1>3 DEF NoSpace

\* strtol() of a number
LEMMA StrtolReads ==
    ASSUME NEW line \in Seq(Tokens), NEW i \in 1 .. Len(line), line[i] \in Numbers
    PROVE  Strtol(line, i) = [value |-> line[i], end |-> i + 1]
<1>1. line[i] # "space" /\ Len(line) \in Nat
  <2>1. line[i] \notin Marks
    BY ProtocolAssumption
  <2> QED BY <2>1, LenProperties DEF Marks
<1>2. NoSpace(line, i) = i
  BY <1>1, NoSpaceFinds
<1>3. At(line, i) = line[i]
  BY DEF At
<1> QED BY <1>2, <1>3 DEF Strtol

\* The line of a pair is read as the pair.
LEMMA PairIsRead ==
    ASSUME NEW n \in Names, NEW v \in Values
    PROVE  Feed(n \o <<":", "space">> \o v) = PairOf(n, v)
<1> DEFINE mark == <<":", "space">>
           front == n \o mark
           line == front \o v
<1>1. /\ n \in Seq(Tokens) /\ v \in Seq(Tokens) /\ mark \in Seq(Tokens)
      /\ Len(mark) = 2 /\ mark[1] = ":" /\ mark[2] = "space"
  <2>1. n \in Seq(Tokens) /\ v \in Seq(Tokens)
    BY ProtocolAssumption
  <2>2. ":" \in Tokens /\ "space" \in Tokens
    BY SomeTokens DEF Marks
  <2>3. mark \in Seq(Tokens) /\ Len(mark) = 2 /\ mark[1] = ":" /\ mark[2] = "space"
    BY <2>2
  <2> QED BY <2>1, <2>3
<1>2. \A i \in 1 .. Len(n) : n[i] # ":"
  <2>1. ":" \notin Range(n)
    BY ProtocolAssumption
  <2> QED BY <1>1, <2>1 DEF Range
<1> HIDE DEF mark
<1>3. /\ front \in Seq(Tokens) /\ Len(front) = Len(n) + 2 /\ Len(n) \in Nat
      /\ \A i \in 1 .. Len(n) : front[i] = n[i]
      /\ front[Len(n) + 1] = ":" /\ front[Len(n) + 2] = "space"
  <2>1. /\ front \in Seq(Tokens) /\ Len(front) = Len(n) + Len(mark) /\ Len(n) \in Nat
        /\ \A i \in 1 .. Len(n) : front[i] = n[i]
        /\ \A i \in 1 .. Len(mark) : front[Len(n) + i] = mark[i]
    BY <1>1, Joined
  <2>2. 1 \in 1 .. Len(mark) /\ 2 \in 1 .. Len(mark)
    BY <1>1
  <2> HIDE DEF front
  <2> QED BY <1>1, <2>1, <2>2
<1> HIDE DEF front
<1>4. /\ line \in Seq(Tokens) /\ Len(line) = Len(n) + 2 + Len(v) /\ Len(v) \in Nat
      /\ \A i \in 1 .. Len(n) : line[i] = n[i]
      /\ line[Len(n) + 1] = ":" /\ line[Len(n) + 2] = "space"
      /\ \A i \in 1 .. Len(v) : line[Len(n) + 2 + i] = v[i]
  <2>1. /\ line \in Seq(Tokens) /\ Len(line) = Len(front) + Len(v) /\ Len(v) \in Nat
        /\ \A i \in 1 .. Len(front) : line[i] = front[i]
        /\ \A i \in 1 .. Len(v) : line[Len(front) + i] = v[i]
    BY <1>1, <1>3, Joined
  <2> HIDE DEF line
  <2> QED BY <1>3, <2>1
<1> HIDE DEF line
<1>5. Strchr(line, 1, ":") = Len(n) + 1
  <2>1. Len(n) + 1 \in 1 .. Len(line) /\ Len(n) + 1 - 1 = Len(n)
    BY <1>3, <1>4
  <2>2. \A j \in 1 .. Len(n) + 1 - 1 : line[j] # ":"
    BY <1>2, <1>4, <2>1
  <2> DEFINE k == Len(n) + 1
  <2>3. k \in 1 .. Len(line) /\ line[k] = ":" /\ \A j \in 1 .. k - 1 : line[j] # ":"
    BY <1>4, <2>1, <2>2
  <2> HIDE DEF k
  <2>4. Strchr(line, 1, ":") = k
    <3>1. 1 \in Nat \ {0} /\ line \in Seq(Tokens)
      BY <1>4
    <3>2. k \in 1 .. Len(line) /\ line[k] = ":"
      BY <2>3
    <3>3. \A j \in 1 .. k - 1 : line[j] # ":"
      BY <2>3
    <3> HIDE DEF line
    <3> QED BY <3>1, <3>2, <3>3, StrchrFinds
  <2> QED BY <2>4 DEF k
<1>6. At(line, Len(n) + 2) = "space"
  BY <1>3, <1>4 DEF At
<1>7. SubSeq(line, 1, Len(n)) = n
  <2>1. 0 + Len(n) <= Len(line) /\ \A i \in 1 .. Len(n) : line[0 + i] = n[i]
    BY <1>3, <1>4
  <2>2. SubSeq(line, 0 + 1, 0 + Len(n)) = n
    BY <1>1, <1>4, <2>1, Part
  <2> QED BY <1>3, <2>2
<1>8. SubSeq(line, Len(n) + 3, Len(line)) = v
  <2> DEFINE before == Len(n) + 2
  <2>1. before \in Nat /\ before + Len(v) = Len(line) /\ before + 1 = Len(n) + 3
        /\ before + Len(v) <= Len(line)
    BY <1>3, <1>4
  <2>2. \A i \in 1 .. Len(v) : line[before + i] = v[i]
    BY <1>4
  <2> HIDE DEF before
  <2>3. SubSeq(line, before + 1, before + Len(v)) = v
    BY <1>1, <1>4, <2>1, <2>2, Part
  <2> QED BY <2>1, <2>3
<1>9. line # <<"OK">> /\ line # <<"list_OK">>
  <2>1. Len(line) # 1
    BY <1>3, <1>4
  <2>2. Len(<<"OK">>) = 1 /\ Len(<<"list_OK">>) = 1
    OBVIOUS
  <2> QED BY <2>1, <2>2
<1>10. At(line, 1) # "ACK"
  <2>1. CASE Len(n) = 0
    <3>1. line[1] = ":"
      BY <1>4, <2>1
    <3> QED BY <3>1 DEF At
  <2>2. CASE Len(n) # 0
    <3>1. n # <<>>
      BY <2>2
    <3>2. 1 \in 1 .. Len(n) /\ n[1] # "ACK"
      <4>1. n[1] # "ACK"
        BY <3>1, ProtocolAssumption
      <4> QED BY <1>3, <2>2, <4>1
    <3> QED BY <1>4, <3>2 DEF At
  <2> QED BY <2>1, <2>2
<1>11. Feed(line) = FeedPair(line)
  BY <1>9, <1>10 DEF Feed
<1>12. FeedPair(line) = PairOf(n, v)
  <2> DEFINE p == Strchr(line, 1, ":")
  <2>1. p # 0 /\ p + 1 = Len(n) + 2 /\ p - 1 = Len(n) /\ p + 2 = Len(n) + 3
    BY <1>3, <1>5
  <2>2. FeedPair(line) = PairOf(SubSeq(line, 1, p - 1), SubSeq(line, p + 2, Len(line)))
    BY <1>6, <2>1 DEF FeedPair
  <2> HIDE DEF p
  <2> QED BY <1>7, <1>8, <2>1, <2>2
<1> QED BY <1>11, <1>12 DEF line, front, mark

\* An ACK is read as the error it reports.
LEMMA AckIsRead ==
    ASSUME NEW server \in Numbers, NEW place \in Numbers,
           NEW c \in CommandNames, NEW m \in Messages
    PROVE  Feed(AckLine(server, place, c, m)) = Error(server, place, m)
<1> DEFINE start == <<"ACK", "space", "[", server, "@", place, "]", "space", "lbrace">>
           mark == <<"rbrace", "space">>
           upto == start \o c
           front == upto \o mark
           line == front \o m
           k == Len(c)
<1>1. /\ c \in Seq(Tokens) /\ m \in Seq(Tokens)
      /\ start \in Seq(Tokens) /\ Len(start) = 9
      /\ mark \in Seq(Tokens) /\ Len(mark) = 2 /\ mark[1] = "rbrace" /\ mark[2] = "space"
  <2>1. c \in Seq(Tokens) /\ m \in Seq(Tokens)
    BY ProtocolAssumption
  <2>2. {"ACK", "space", "[", "@", "]", "lbrace", "rbrace"} \subseteq Tokens /\ server \in Tokens /\ place \in Tokens
    BY SomeTokens DEF Marks
  <2>3. start \in Seq(Tokens) /\ Len(start) = 9
    BY <2>2
  <2>4. mark \in Seq(Tokens) /\ Len(mark) = 2 /\ mark[1] = "rbrace" /\ mark[2] = "space"
    BY <2>2
  <2> QED BY <2>1, <2>3, <2>4
<1>2. /\ start[1] = "ACK" /\ start[2] = "space" /\ start[3] = "[" /\ start[4] = server
      /\ start[5] = "@" /\ start[6] = place /\ start[7] = "]" /\ start[8] = "space" /\ start[9] = "lbrace"
  OBVIOUS
<1>3. \A i \in 1 .. k : c[i] # "rbrace"
  <2>1. "rbrace" \notin Range(c)
    BY ProtocolAssumption
  <2> QED BY <1>1, <2>1 DEF Range
<1>4. AckLine(server, place, c, m) = line
  BY DEF AckLine
<1> HIDE DEF start, mark
<1>5. /\ upto \in Seq(Tokens) /\ Len(upto) = 9 + k /\ k \in Nat
      /\ \A i \in 1 .. 9 : upto[i] = start[i]
      /\ \A i \in 1 .. k : upto[9 + i] = c[i]
  <2>1. /\ upto \in Seq(Tokens) /\ Len(upto) = Len(start) + Len(c) /\ Len(c) \in Nat
        /\ \A i \in 1 .. Len(start) : upto[i] = start[i]
        /\ \A i \in 1 .. Len(c) : upto[Len(start) + i] = c[i]
    BY <1>1, Joined
  <2> HIDE DEF upto
  <2> QED BY <1>1, <2>1
<1> HIDE DEF upto, k
<1>6. /\ front \in Seq(Tokens) /\ Len(front) = 11 + k
      /\ \A i \in 1 .. 9 + k : front[i] = upto[i]
      /\ front[10 + k] = "rbrace" /\ front[11 + k] = "space"
  <2>1. /\ front \in Seq(Tokens) /\ Len(front) = Len(upto) + Len(mark)
        /\ \A i \in 1 .. Len(upto) : front[i] = upto[i]
        /\ \A i \in 1 .. Len(mark) : front[Len(upto) + i] = mark[i]
    <3>1. upto \in Seq(Tokens) /\ mark \in Seq(Tokens)
      BY <1>1, <1>5
    <3> QED BY <3>1, Joined
  <2>2. 1 \in 1 .. Len(mark) /\ 2 \in 1 .. Len(mark)
    BY <1>1
  <2> HIDE DEF front
  <2>3. Len(front) = 11 + k /\ Len(upto) + 1 = 10 + k /\ Len(upto) + 2 = 11 + k
    BY <1>1, <1>5, <2>1
  <2> QED BY <1>1, <1>5, <2>1, <2>2, <2>3
<1> HIDE DEF front
<1>7. /\ line \in Seq(Tokens) /\ Len(line) = 11 + k + Len(m) /\ Len(m) \in Nat
      /\ \A i \in 1 .. 11 + k : line[i] = front[i]
      /\ \A i \in 1 .. Len(m) : line[11 + k + i] = m[i]
  <2>1. /\ line \in Seq(Tokens) /\ Len(line) = Len(front) + Len(m) /\ Len(m) \in Nat
        /\ \A i \in 1 .. Len(front) : line[i] = front[i]
        /\ \A i \in 1 .. Len(m) : line[Len(front) + i] = m[i]
    <3>1. front \in Seq(Tokens) /\ m \in Seq(Tokens)
      BY <1>1, <1>6
    <3> QED BY <3>1, Joined
  <2> HIDE DEF line
  <2> QED BY <1>6, <2>1
<1> HIDE DEF line
<1>8. /\ \A i \in 1 .. 9 : line[i] = start[i]
      /\ \A i \in 1 .. k : line[9 + i] = c[i]
      /\ line[10 + k] = "rbrace" /\ line[11 + k] = "space"
      /\ Len(line) \in Nat /\ 11 + k <= Len(line)
  BY <1>5, <1>6, <1>7
<1>9. /\ line[1] = "ACK" /\ line[2] = "space" /\ line[3] = "[" /\ line[4] = server
      /\ line[5] = "@" /\ line[6] = place /\ line[7] = "]" /\ line[8] = "space" /\ line[9] = "lbrace"
  <2>1. \A i \in 1 .. 9 : line[i] = start[i]
    BY <1>8
  <2>2. line[1] = "ACK" /\ line[2] = "space" /\ line[3] = "[" /\ line[4] = server /\ line[5] = "@"
    BY <1>2, <2>1
  <2>3. line[6] = place /\ line[7] = "]" /\ line[8] = "space" /\ line[9] = "lbrace"
    BY <1>2, <2>1
  <2> QED BY <2>2, <2>3
<1>10. 9 <= Len(line)
  BY <1>5, <1>8
<1>11. Strchr(line, 2, "[") = 3
  <2>1. 2 \in Nat \ {0} /\ 3 \in 2 .. Len(line) /\ \A j \in 2 .. 3 - 1 : line[j] # "["
    BY <1>8, <1>9, <1>10
  <2> QED BY <1>7, <1>9, <2>1, StrchrFinds, Zenon
<1>12. Strtol(line, 4) = [value |-> server, end |-> 5]
  <2>1. 4 \in 1 .. Len(line) /\ line[4] \in Numbers /\ 4 + 1 = 5
    BY <1>8, <1>9, <1>10
  <2>2. Strtol(line, 4) = [value |-> line[4], end |-> 4 + 1]
    BY <1>7, <2>1, StrtolReads, Zenon
  <2> QED BY <1>9, <2>1, <2>2
<1>13. Strtol(line, 6) = [value |-> place, end |-> 7]
  <2>1. 6 \in 1 .. Len(line) /\ line[6] \in Numbers /\ 6 + 1 = 7
    BY <1>8, <1>9, <1>10
  <2>2. Strtol(line, 6) = [value |-> line[6], end |-> 6 + 1]
    BY <1>7, <2>1, StrtolReads, Zenon
  <2> QED BY <1>9, <2>1, <2>2
<1>14. Strchr(line, 7, "]") = 7
  <2>1. 7 \in Nat \ {0} /\ 7 \in 7 .. Len(line) /\ \A j \in 7 .. 7 - 1 : line[j] # "]"
    BY <1>8, <1>10
  <2> QED BY <1>7, <1>9, <2>1, StrchrFinds, Zenon
<1>15. Strchr(line, 8, "lbrace") = 9
  <2>1. 8 \in Nat \ {0} /\ 9 \in 8 .. Len(line) /\ \A j \in 8 .. 9 - 1 : line[j] # "lbrace"
    BY <1>8, <1>9, <1>10
  <2> QED BY <1>7, <1>9, <2>1, StrchrFinds, Zenon
<1>16. Strchr(line, 8, "rbrace") = 10 + k
  <2> DEFINE e == 10 + k
  <2>1. 8 \in Nat \ {0} /\ e \in 8 .. Len(line)
    BY <1>5, <1>8
  <2>2. ASSUME NEW j \in 8 .. e - 1 PROVE line[j] # "rbrace"
    <3>1. j = 8 \/ j = 9 \/ \E i \in 1 .. k : j = 9 + i
      <4>1. CASE j > 9
        <5>1. j - 9 \in 1 .. k /\ j = 9 + (j - 9)
          BY <1>5, <4>1
        <5> QED BY <5>1
      <4>2. CASE j <= 9
        BY <1>5, <4>2
      <4> QED BY <1>5, <4>1, <4>2
    <3>2. CASE j = 8
      BY <1>9, <3>2
    <3>3. CASE j = 9
      BY <1>9, <3>3
    <3>4. ASSUME NEW i \in 1 .. k, j = 9 + i PROVE line[j] # "rbrace"
      BY <1>3, <1>8, <3>4 DEF k
    <3> QED BY <3>1, <3>2, <3>3, <3>4
  <2>3. line[e] = "rbrace"
    BY <1>8
  <2> HIDE DEF e
  <2>4. Strchr(line, 8, "rbrace") = e
    <3>1. \A j \in 8 .. e - 1 : line[j] # "rbrace"
      BY <2>2
    <3>2. line \in Seq(Tokens)
      BY <1>7
    <3> QED BY <2>1, <2>3, <3>1, <3>2, StrchrFinds
  <2> QED BY <2>4 DEF e
<1>17. Behind(line, 8) = 11 + k
  BY <1>5, <1>15, <1>16 DEF Behind
<1>18. NoSpace(line, 11 + k) = 12 + k
  <2> DEFINE i == 11 + k
             e == 12 + k
  <2>1. i \in Nat \ {0} /\ e \in i .. Len(line) + 1
    BY <1>5, <1>8
  <2>2. \A j \in i .. e - 1 : line[j] = "space"
    BY <1>5, <1>8
  <2>3. ASSUME e <= Len(line) PROVE line[e] # "space"
    <3>1. Len(m) # 0 /\ 11 + k + 1 = e
      BY <1>5, <1>7, <2>3
    <3>2. m # <<>>
      BY <3>1
    <3>3. m[1] # "space"
      BY <3>2, ProtocolAssumption
    <3>4. 1 \in 1 .. Len(m)
      BY <1>7, <3>1
    <3>5. line[11 + k + 1] = m[1]
      BY <1>7, <3>4
    <3> QED BY <3>1, <3>3, <3>5
  <2> HIDE DEF i, e
  <2>4. NoSpace(line, i) = e
    BY <1>7, <2>1, <2>2, <2>3, NoSpaceFinds, Zenon
  <2> QED BY <2>4 DEF i, e
<1>19. SubSeq(line, 12 + k, Len(line)) = m
  <2> DEFINE before == 11 + k
  <2>1. before \in Nat /\ before + Len(m) = Len(line) /\ before + 1 = 12 + k
        /\ before + Len(m) <= Len(line)
    BY <1>5, <1>7
  <2>2. \A i \in 1 .. Len(m) : line[before + i] = m[i]
    BY <1>7
  <2> HIDE DEF before
  <2>3. SubSeq(line, before + 1, before + Len(m)) = m
    BY <1>1, <1>7, <2>1, <2>2, Part
  <2> QED BY <2>1, <2>3
<1>20. Feed(line) = FeedAck(line)
  <2>1. At(line, 1) = "ACK"
    BY <1>9, <1>10, <1>7, <1>8 DEF At
  <2>2. line # <<"OK">> /\ line # <<"list_OK">>
    <3>1. Len(line) # 1
      BY <1>8, <1>10
    <3>2. Len(<<"OK">>) = 1 /\ Len(<<"list_OK">>) = 1
      OBVIOUS
    <3> QED BY <3>1, <3>2
  <2> QED BY <2>1, <2>2 DEF Feed
<1>21. At(line, 5) = "@"
  BY <1>7, <1>8, <1>9, <1>10 DEF At
<1>22. FeedAck(line) = Error(server, place, m)
  <2> DEFINE p == Strchr(line, 2, "[")
             first == Strtol(line, p + 1)
             second == IF At(line, first.end) = "@" THEN Strtol(line, first.end + 1)
                       ELSE [value |-> "0", end |-> first.end]
             q == Strchr(line, second.end, "]")
             message == NoSpace(line, Behind(line, q + 1))
  <2>1. p = 3 /\ p + 1 = 4
    BY <1>11
  <2>2. first = [value |-> server, end |-> 5]
    BY <1>12, <2>1
  <2> HIDE DEF p
  <2>3. first.end = 5 /\ first.value = server /\ first.end + 1 = 6
    BY <2>2
  <2> HIDE DEF first
  <2>4. second = [value |-> place, end |-> 7]
    BY <1>13, <1>21, <2>3
  <2> HIDE DEF second
  <2>5. second.end = 7 /\ second.value = place
    BY <2>4
  <2>6. q = 7 /\ q + 1 = 8
    BY <1>14, <2>5
  <2> HIDE DEF q
  <2>7. message = 12 + k
    BY <1>17, <1>18, <2>6
  <2> HIDE DEF message
  <2>8. FeedAck(line) = Error(first.value, second.value, SubSeq(line, message, Len(line)))
    <3>1. p # 0 /\ q # 0
      BY <2>1, <2>6
    <3> QED BY <3>1, Zenon DEF FeedAck, p, first, second, q, message
  <2> QED BY <1>19, <2>3, <2>5, <2>7, <2>8
<1> QED BY <1>4, <1>20, <1>22

\* mpd_error_code() sets the code and no message, and leaves errno.
LEMMA ErrorCodeSets ==
    ASSUME NEW e \in ErrorInfo, NEW code \in Codes
    PROVE  /\ ErrorCode(e, code) \in ErrorInfo
           /\ ErrorCode(e, code).code = code
           /\ ErrorCode(e, code).message = NULL
           /\ ErrorCode(e, code).system = e.system
<1> DEFINE g == [e EXCEPT !.code = code]
<1>1. g \in ErrorInfo /\ g.code = code /\ g.system = e.system
  BY DEF ErrorInfo
<1>2. ErrorCode(e, code) = [g EXCEPT !.message = NULL]
  BY DEF ErrorInfo, ErrorCode
<1>3. NULL \in (0 .. MaxMessages) \cup {Garbage}
  BY ErrorsAssumption DEF NULL
<1> HIDE DEF g
<1>4. [g EXCEPT !.message = NULL] \in ErrorInfo
  BY <1>1, <1>3 DEF ErrorInfo
<1>5. /\ [g EXCEPT !.message = NULL].code = code
      /\ [g EXCEPT !.message = NULL].message = NULL
      /\ [g EXCEPT !.message = NULL].system = g.system
  BY <1>1 DEF ErrorInfo
<1> QED
  BY <1>1, <1>2, <1>4, <1>5

\* No block, and the codes that the leaves below need, are of their types.
LEMMA SomeCodes ==
    /\ NULL \in (0 .. MaxMessages) \cup {Garbage}
    /\ {"OOM", "SERVER", "SYSTEM", "TIMEOUT"} \subseteq Codes
BY ErrorsAssumption DEF NULL, Codes

\* mpd_error_message() adds the message, or the error becomes OOM.
LEMMA WithMessageAdds ==
    ASSUME NEW e \in ErrorInfo, Defined(e), NEW text, NEW memory,
           DOMAIN memory \subseteq Addresses, NEW o \in WithMessage(e, text, memory)
    PROVE  /\ Adds(o, memory)
           /\ \/ o.error.code = "OOM"
              \/ /\ o.error.code = e.code /\ o.error.system = e.system
                 /\ o.error.server = e.server /\ o.error.at = e.at
                 /\ o.heap[o.error.message] = text
<1>1. CASE o = Outcome(Exhausted(e), memory)
  <2>1. o.error = ErrorCode(e, "OOM") /\ o.heap = memory
    BY <1>1 DEF Outcome, Exhausted
  <2>3. o.error \in ErrorInfo /\ o.error.code = "OOM" /\ o.error.message = NULL
    BY <2>1, ErrorCodeSets, SomeCodes
  <2>4. Owned(o.error) = {}
    BY <2>3 DEF Owned
  <2> QED
    BY <2>1, <2>3, <2>4 DEF Adds, Defined
<1>2. ASSUME NEW a \in Addresses \ DOMAIN memory,
             o = Outcome([e EXCEPT !.message = a], Stored(memory, a, text))
      PROVE  /\ Adds(o, memory)
             /\ o.error.code = e.code /\ o.error.system = e.system
             /\ o.error.server = e.server /\ o.error.at = e.at
             /\ o.heap[o.error.message] = text
  <2>1. o.error = [e EXCEPT !.message = a] /\ o.heap = Stored(memory, a, text)
    BY <1>2 DEF Outcome
  <2>2. /\ o.error \in ErrorInfo /\ o.error.message = a
        /\ o.error.code = e.code /\ o.error.system = e.system
        /\ o.error.server = e.server /\ o.error.at = e.at
    BY <2>1, ErrorsAssumption DEF ErrorInfo, Addresses
  <2>3. a # NULL
    BY ErrorsAssumption DEF Addresses, NULL
  <2>4. Owned(o.error) = {a}
    BY <2>2, <2>3 DEF Owned, Defined
  <2>5. /\ DOMAIN o.heap = DOMAIN memory \cup {a}
        /\ o.heap[a] = text
        /\ \A b \in DOMAIN memory : o.heap[b] = memory[b]
    BY <2>1 DEF Stored
  <2> QED
    BY <2>2, <2>3, <2>4, <2>5 DEF Adds, Defined
<1> QED
  BY <1>1, <1>2 DEF WithMessage, Addresses

\* mpd_error_code() followed by mpd_error_message()
LEMMA RaiseAdds ==
    ASSUME NEW e \in ErrorInfo, NEW code \in Codes \ {"SUCCESS"}, NEW text, NEW memory,
           DOMAIN memory \subseteq Addresses, NEW o \in Raise(e, code, text, memory)
    PROVE  Adds(o, memory) /\ o.error.code \in {"OOM", code}
<1> DEFINE f == ErrorCode(e, code)
<1>1. f \in ErrorInfo /\ f.code = code /\ Defined(f)
  BY ErrorCodeSets DEF Defined
<1>2. o \in WithMessage(f, text, memory)
  BY DEF Raise
<1> HIDE DEF f
<1> QED
  BY <1>1, <1>2, WithMessageAdds

\* What an error copies of another one: all that AsyncErrorIsCopied speaks of.
Agrees(o, src, memory) ==
    o.error.code \in {"SYSTEM", "CLOSED"} =>
        /\ src.code = o.error.code
        /\ o.error.code = "SYSTEM" => o.error.system = src.system
        /\ o.heap[o.error.message] = memory[src.message]

\* mpd_error_copy() of an error adds its message and agrees with it.
LEMMA CopyAdds ==
    ASSUME NEW dest \in ErrorInfo, NEW src \in ErrorInfo, Defined(src),
           src.message = NULL => src.code = "OOM",
           NEW memory, DOMAIN memory \subseteq Addresses, NEW o \in Copy(dest, src, memory)
    PROVE  Adds(o, memory) /\ Agrees(o, src, memory)
<1> DEFINE copied == CopiedFields(dest, src)
<1>1. /\ copied \in ErrorInfo /\ copied.code = src.code
      /\ src.code = "SYSTEM" => copied.system = src.system
  <2>1. CASE src.code = "SERVER"
    BY <2>1 DEF CopiedFields, ErrorInfo, Codes
  <2>2. CASE src.code = "SYSTEM"
    BY <2>2 DEF CopiedFields, ErrorInfo, Codes
  <2>3. CASE src.code \notin {"SERVER", "SYSTEM"}
    BY <2>3 DEF CopiedFields, ErrorInfo
  <2> QED
    BY <2>1, <2>2, <2>3
<1>2. Defined(copied)
  BY <1>1 DEF Defined
<1>3. CASE src.message = NULL
  <2>1. o = Outcome([copied EXCEPT !.message = NULL], memory)
    BY <1>3 DEF Copy
  <2>2. o.error = [copied EXCEPT !.message = NULL] /\ o.heap = memory
    BY <2>1 DEF Outcome
  <2> HIDE DEF copied
  <2>3. o.error \in ErrorInfo /\ o.error.code = "OOM" /\ o.error.message = NULL
    BY <1>1, <1>3, <2>2, ErrorsAssumption DEF ErrorInfo, NULL
  <2>4. Owned(o.error) = {}
    BY <2>3 DEF Owned
  <2> QED
    BY <2>2, <2>3, <2>4 DEF Adds, Defined, Agrees
<1>4. CASE src.message # NULL
  <2>1. o \in WithMessage(copied, memory[src.message], memory)
    BY <1>4 DEF Copy
  <2> HIDE DEF copied
  <2> QED
    BY <1>1, <1>2, <2>1, WithMessageAdds DEF Agrees
<1> QED
  BY <1>3, <1>4

\* mpd_connection_sync_error(): the mpd_async's error, or a timeout.
LEMMA SyncErrorAdds ==
    ASSUME NEW dest \in ErrorInfo, NEW src \in ErrorInfo,
           Defined(src) /\ src.message = NULL => src.code = "OOM",
           NEW memory, DOMAIN memory \subseteq Addresses, NEW o \in SyncError(dest, src, memory)
    PROVE  Adds(o, memory) /\ Agrees(o, src, memory)
<1>1. CASE Defined(src)
  BY <1>1, CopyAdds DEF SyncError
<1>2. CASE ~Defined(src)
  <2> DEFINE copied == CopiedFields(dest, src)
  <2>1. src.code = "SUCCESS"
    BY <1>2 DEF Defined
  <2>2. copied \in ErrorInfo
    BY <2>1 DEF CopiedFields, ErrorInfo
  <2>3. Copy(dest, src, memory) = {Outcome(copied, memory)}
    BY <1>2 DEF Copy
  <2> HIDE DEF copied
  <2>4. o \in Raise(copied, "TIMEOUT", <<"Timeout">>, memory)
    BY <1>2, <2>3 DEF SyncError, Outcome
  <2>5. "TIMEOUT" \in Codes \ {"SUCCESS"}
    BY DEF Codes
  <2>6. Adds(o, memory) /\ o.error.code \in {"OOM", "TIMEOUT"}
    BY <2>2, <2>4, <2>5, RaiseAdds
  <2> QED
    BY <2>6 DEF Agrees
<1> QED
  BY <1>1, <1>2

\* The failures of the mpd_async.
LEMMA AsyncFailuresAdd ==
    ASSUME NEW e \in ErrorInfo, NEW memory, DOMAIN memory \subseteq Addresses,
           NEW o \in AsyncFailures(e, memory)
    PROVE  Adds(o, memory) /\ o.error.code # "SERVER"
<1>1. ASSUME NEW s \in SystemErrors, o \in WithMessage(ErrorSystem(e, s), <<s>>, memory)
      PROVE  Adds(o, memory) /\ o.error.code # "SERVER"
  <2>1. ErrorCode(e, "SYSTEM") \in ErrorInfo
    BY ErrorCodeSets, SomeCodes
  <2>2. ErrorSystem(e, s) \in ErrorInfo /\ ErrorSystem(e, s).code = "SYSTEM"
    <3>1. ErrorCode(e, "SYSTEM").code = "SYSTEM"
      BY ErrorCodeSets, SomeCodes
    <3> QED
      BY <2>1, <3>1 DEF ErrorSystem, ErrorInfo
  <2> QED
    BY <1>1, <2>2, WithMessageAdds DEF Defined
<1>2. ASSUME NEW code \in {"CLOSED", "MALFORMED", "ARGUMENT"}, o \in Raise(e, code, <<code>>, memory)
      PROVE  Adds(o, memory) /\ o.error.code # "SERVER"
  <2>1. code \in Codes \ {"SUCCESS"}
    BY DEF Codes
  <2> QED
    BY <1>2, <2>1, RaiseAdds
<1>3. \/ \E s \in SystemErrors : o \in WithMessage(ErrorSystem(e, s), <<s>>, memory)
      \/ \E code \in {"CLOSED", "MALFORMED", "ARGUMENT"} : o \in Raise(e, code, <<code>>, memory)
  BY DEF AsyncFailures
<1> QED
  BY <1>1, <1>2, <1>3

(***************************************************************************)
(* The invariant                                                           *)
(***************************************************************************)
ErrorsInv == TypeOK /\ MessagesAreOwned /\ MessageIsThere /\ AsyncErrorIsCopied

\* the part of it that is about the errors, without the parser
Owning ==
    /\ conn \in ErrorInfo /\ async \in ErrorInfo
    /\ DOMAIN heap \subseteq Addresses
    /\ MessagesAreOwned /\ MessageIsThere /\ AsyncErrorIsCopied

LEMMA OwningSuffices ==
    ASSUME Owning, UNCHANGED <<conn, async, heap>>
    PROVE  Owning'
BY DEF Owning, MessagesAreOwned, MessageIsThere, AsyncErrorIsCopied, Owned, Defined, ErrorInfo

\* A connection without an error gets one that adds its message.
LEMMA ConnGetsKeeps ==
    ASSUME Owning, ~Defined(conn), NEW o, Adds(o, heap), Agrees(o, async, heap),
           conn' = o.error, heap' = o.heap, async' = async
    PROVE  Owning'
<1>1. conn' \in ErrorInfo /\ async' \in ErrorInfo /\ DOMAIN heap' \subseteq Addresses
  BY DEF Adds, Owning
<1>2. Owned(conn) = {} /\ DOMAIN heap = Owned(async)
  BY DEF Owned, Owning, MessagesAreOwned
<1>3. MessagesAreOwned'
  BY <1>2 DEF Adds, MessagesAreOwned, Owned, Defined
<1>4. MessageIsThere'
  BY DEF MessageIsThere, Adds, Owning, Defined
<1>5. AsyncErrorIsCopied'
  <2>1. SUFFICES ASSUME conn'.code \in {"SYSTEM", "CLOSED"}
                 PROVE  /\ async'.code = conn'.code
                        /\ conn'.code = "SYSTEM" => conn'.system = async'.system
                        /\ heap'[conn'.message] = heap'[async'.message]
    BY DEF AsyncErrorIsCopied
  <2>2. /\ async.code = conn'.code
        /\ conn'.code = "SYSTEM" => conn'.system = async.system
        /\ heap'[conn'.message] = heap[async.message]
    BY <2>1 DEF Agrees
  <2>3. Defined(async) /\ async.message # NULL
    BY <2>1, <2>2 DEF Defined, Owning, MessageIsThere
  <2>4. async.message \in DOMAIN heap
    BY <1>2, <2>3 DEF Owned
  <2>5. heap'[async.message] = heap[async.message]
    BY <2>4 DEF Adds
  <2> QED
    BY <2>2, <2>5
<1> QED
  BY <1>1, <1>3, <1>4, <1>5 DEF Owning

\* The mpd_async fails while the connection has no error yet.
LEMMA AsyncGetsKeeps ==
    ASSUME Owning, ~Defined(async), NEW a, Adds(a, heap),
           async' = a.error, heap' = a.heap, conn' = conn
    PROVE  Owning'
<1>1. conn' \in ErrorInfo /\ async' \in ErrorInfo /\ DOMAIN heap' \subseteq Addresses
  BY DEF Adds, Owning
<1>2. Owned(async) = {} /\ DOMAIN heap = Owned(conn)
  BY DEF Owned, Owning, MessagesAreOwned
<1>3. MessagesAreOwned'
  BY <1>2 DEF Adds, MessagesAreOwned, Owned, Defined
<1>4. MessageIsThere'
  BY DEF MessageIsThere, Adds, Owning, Defined
<1>5. conn.code \notin {"SYSTEM", "CLOSED"}
  BY DEF Owning, AsyncErrorIsCopied, Defined
<1> QED
  BY <1>1, <1>3, <1>4, <1>5 DEF Owning, AsyncErrorIsCopied

\* mpd_recv_pair() makes an error of its own of a line, or none.
LEMMA ReadsAdds ==
    ASSUME conn \in ErrorInfo, DOMAIN heap \subseteq Addresses, NEW line,
           NEW o \in Reads(Feed(line))
    PROVE  \/ o.error = conn /\ o.heap = heap
           \/ Adds(o, heap) /\ Agrees(o, async, heap)
<1> DEFINE v == Feed(line)
<1>1. /\ v.result \in {"MALFORMED", "SUCCESS", "PAIR", "ERROR"}
      /\ v.result = "ERROR" => v.server \in Numbers \cup {"UNK"} /\ v.at \in Numbers
  BY FeedTypes
<1> HIDE DEF v
<1>2. o \in Reads(v)
  BY DEF v
<1>3. "MALFORMED" \in Codes \ {"SUCCESS"} /\ "SERVER" \in Codes
  BY DEF Codes
<1>4. ASSUME NEW text, o \in Raise(conn, "MALFORMED", text, heap)
      PROVE  Adds(o, heap) /\ Agrees(o, async, heap)
  <2>1. Adds(o, heap) /\ o.error.code \in {"OOM", "MALFORMED"}
    BY <1>3, <1>4, RaiseAdds
  <2> QED
    BY <2>1 DEF Agrees
<1>5. CASE v.result = "ERROR"
  <2> DEFINE e == ErrorServer(conn, v.server, v.at)
             c == ErrorCode(conn, "SERVER")
  <2>1. c \in ErrorInfo /\ c.code = "SERVER"
    BY <1>3, ErrorCodeSets
  <2>2. e = [c EXCEPT !.server = v.server, !.at = v.at]
    BY DEF ErrorServer
  <2> HIDE DEF e, c
  <2>3. [c EXCEPT !.server = v.server] \in ErrorInfo
    BY <1>1, <1>5, <2>1 DEF ErrorInfo
  <2>4. e = [[c EXCEPT !.server = v.server] EXCEPT !.at = v.at]
    BY <2>1, <2>2 DEF ErrorInfo
  <2>5. e \in ErrorInfo
    BY <1>1, <1>5, <2>3, <2>4 DEF ErrorInfo
  <2>6. e.code = "SERVER"
    BY <2>1, <2>4 DEF ErrorInfo
  <2>7. PICK text : o \in WithMessage(e, text, heap)
    BY <1>2, <1>5 DEF Reads, e
  <2> QED
    BY <2>5, <2>6, <2>7, WithMessageAdds DEF Defined, Agrees
<1>6. CASE v.result = "MALFORMED"
  BY <1>2, <1>4, <1>6 DEF Reads
<1>7. CASE v.result \in {"SUCCESS", "PAIR"}
  BY <1>2, <1>4, <1>7 DEF Reads, Outcome
<1> QED
  BY <1>1, <1>5, <1>6, <1>7

LEMMA ErrorsInitially == Init => ErrorsInv
<1> SUFFICES ASSUME Init PROVE ErrorsInv
  OBVIOUS
<1>1. NoError \in ErrorInfo /\ ~Defined(NoError)
  BY DEF NoError, ErrorInfo, Codes, Defined, Garbage
<1>2. DOMAIN heap = {}
  BY DEF Init
<1>3. parser.result = "MALFORMED"
  BY DEF Init, Malformed
<1> QED
  BY <1>1, <1>2, <1>3
  DEF Init, ErrorsInv, TypeOK, MessagesAreOwned, MessageIsThere, AsyncErrorIsCopied, Owned, Defined

LEMMA ErrorsStep ==
    ASSUME ~FlushesAnyway, ErrorsInv, [Next]_vars
    PROVE  ErrorsInv'
<1>0. Owning
  BY DEF ErrorsInv, TypeOK, Owning, Addresses
<1>1. SUFFICES /\ Owning'
               /\ parser'.result \in {"MALFORMED", "SUCCESS", "PAIR", "ERROR"}
               /\ parser'.result = "ERROR" =>
                     parser'.server \in Numbers \cup {"UNK"} /\ parser'.at \in Numbers
  BY DEF ErrorsInv, TypeOK, Owning, Addresses
<1>2. CASE RecvPair
  <2>1. PICK line \in ServerLines : parser' = Feed(line.tokens)
    BY <1>2 DEF RecvPair
  <2>2. PICK o \in Reads(Feed(line.tokens)) : conn' = o.error /\ heap' = o.heap /\ async' = async
    BY <1>2, <2>1 DEF RecvPair, ConnGets
  <2>3. CASE o.error = conn /\ o.heap = heap
    BY <1>0, <2>1, <2>2, <2>3, FeedTypes, OwningSuffices
  <2>4. CASE Adds(o, heap) /\ Agrees(o, async, heap)
    <3>1. ~Defined(conn)
      BY <1>2 DEF RecvPair
    <3>2. Owning'
      BY <1>0, <2>2, <2>4, <3>1, ConnGetsKeeps
    <3> QED
      BY <2>1, <3>2, FeedTypes
  <2>5. conn \in ErrorInfo /\ DOMAIN heap \subseteq Addresses
    BY <1>0 DEF Owning
  <2> QED
    BY <2>3, <2>4, <2>5, ReadsAdds
<1>3. CASE SyncCall
  <2>1. ~Defined(conn) /\ SyncFails /\ parser' = parser
    BY <1>3 DEF SyncCall
  <2>2. /\ conn \in ErrorInfo /\ async \in ErrorInfo /\ DOMAIN heap \subseteq Addresses
        /\ Defined(async) /\ async.message = NULL => async.code = "OOM"
    BY <1>0 DEF Owning, MessageIsThere
  <2>3. CASE ConnGets(SyncError(conn, async, heap))
    <3>1. PICK o \in SyncError(conn, async, heap) :
             conn' = o.error /\ heap' = o.heap /\ async' = async
      BY <2>3 DEF ConnGets
    <3>2. Adds(o, heap) /\ Agrees(o, async, heap)
      BY <2>2, SyncErrorAdds
    <3>3. Owning'
      BY <1>0, <2>1, <3>1, <3>2, ConnGetsKeeps
    <3> QED
      BY <2>1, <3>3, <1>0 DEF ErrorsInv, TypeOK
  <2>4. ASSUME ~Defined(async), NEW a \in AsyncFailures(async, heap),
               NEW o \in SyncError(conn, a.error, a.heap),
               async' = a.error, conn' = o.error, heap' = o.heap
        PROVE  Owning'
    <3>1. Adds(a, heap)
      BY <2>2, AsyncFailuresAdd
    <3>2. /\ a.error \in ErrorInfo /\ Defined(a.error) /\ DOMAIN a.heap \subseteq Addresses
          /\ a.error.message = NULL => a.error.code = "OOM"
      BY <3>1 DEF Adds
    <3>3. Adds(o, a.heap) /\ Agrees(o, a.error, a.heap)
      BY <2>2, <3>2, SyncErrorAdds
    <3>4. DOMAIN heap = {}
      BY <1>0, <2>1, <2>4 DEF Owning, MessagesAreOwned, Owned
    <3>5. /\ DOMAIN a.heap = Owned(a.error)
          /\ DOMAIN o.heap = Owned(a.error) \cup Owned(o.error)
          /\ Owned(o.error) \cap Owned(a.error) = {}
      BY <3>1, <3>3, <3>4 DEF Adds
    <3>6. conn' \in ErrorInfo /\ async' \in ErrorInfo /\ DOMAIN heap' \subseteq Addresses
      BY <2>4, <3>2, <3>3 DEF Adds
    <3>7. MessagesAreOwned'
      BY <2>4, <3>5 DEF MessagesAreOwned, Owned, Defined
    <3>8. MessageIsThere'
      BY <2>4, <3>2, <3>3 DEF MessageIsThere, Adds, Defined
    <3>9. ASSUME conn'.code \in {"SYSTEM", "CLOSED"}
          PROVE  /\ async'.code = conn'.code
                 /\ conn'.code = "SYSTEM" => conn'.system = async'.system
                 /\ heap'[conn'.message] = heap'[async'.message]
      <4>1. /\ a.error.code = conn'.code
            /\ conn'.code = "SYSTEM" => conn'.system = a.error.system
            /\ heap'[conn'.message] = a.heap[a.error.message]
        BY <2>4, <3>3, <3>9 DEF Agrees
      <4>2. a.error.message # NULL
        BY <3>2, <3>9, <4>1
      <4>3. a.error.message \in DOMAIN a.heap
        BY <3>2, <3>5, <4>2 DEF Owned
      <4>4. heap'[a.error.message] = a.heap[a.error.message]
        BY <2>4, <3>3, <4>3 DEF Adds
      <4> QED
        BY <2>4, <4>1, <4>4
    <3>10. AsyncErrorIsCopied'
      BY <3>9 DEF AsyncErrorIsCopied
    <3> QED
      BY <3>6, <3>7, <3>8, <3>10 DEF Owning
  <2> QED
    BY <2>1, <2>3, <2>4 DEF SyncFails, ErrorsInv, TypeOK
<1>4. CASE AsyncIO
  <2>1. ~Defined(async) /\ parser' = parser /\ conn' = conn
    BY <1>4 DEF AsyncIO
  <2>2. PICK a \in AsyncFailures(async, heap) : async' = a.error /\ heap' = a.heap
    BY <1>4 DEF AsyncIO
  <2>3. async \in ErrorInfo /\ DOMAIN heap \subseteq Addresses
    BY <1>0 DEF Owning
  <2>4. Adds(a, heap)
    BY <2>3, AsyncFailuresAdd
  <2>5. Owning'
    BY <1>0, <2>1, <2>2, <2>4, AsyncGetsKeeps
  <2> QED
    BY <2>1, <2>5 DEF ErrorsInv, TypeOK
<1>5. CASE Declines
  <2>1. ~Defined(conn) /\ parser' = parser
    BY <1>5 DEF Declines
  <2>2. PICK o : /\ \/ \E code \in {"ARGUMENT", "STATE", "MALFORMED"} :
                           o \in Raise(conn, code, <<code>>, heap)
                    \/ o = Outcome(ErrorCode(conn, "OOM"), heap)
                 /\ conn' = o.error /\ heap' = o.heap /\ async' = async
    BY <1>5 DEF Declines, ConnGets
  <2>3. conn \in ErrorInfo /\ DOMAIN heap \subseteq Addresses
    BY <1>0 DEF Owning
  <2>4. ASSUME NEW code \in {"ARGUMENT", "STATE", "MALFORMED"},
               o \in Raise(conn, code, <<code>>, heap)
        PROVE  Adds(o, heap) /\ Agrees(o, async, heap)
    <3>1. code \in Codes \ {"SUCCESS"}
      BY DEF Codes
    <3>2. Adds(o, heap) /\ o.error.code \in {"OOM", code}
      BY <2>3, <2>4, <3>1, RaiseAdds
    <3> QED
      BY <3>2 DEF Agrees
  <2>5. ASSUME o = Outcome(ErrorCode(conn, "OOM"), heap)
        PROVE  Adds(o, heap) /\ Agrees(o, async, heap)
    <3>1. o.error = ErrorCode(conn, "OOM") /\ o.heap = heap
      BY <2>5 DEF Outcome
    <3>2. o.error \in ErrorInfo /\ o.error.code = "OOM" /\ o.error.message = NULL
      BY <2>3, <3>1, SomeCodes, ErrorCodeSets
    <3> QED
      BY <2>3, <3>1, <3>2 DEF Adds, Agrees, Owned, Defined
  <2>6. Adds(o, heap) /\ Agrees(o, async, heap)
    BY <2>2, <2>4, <2>5
  <2>7. Owning'
    BY <1>0, <2>1, <2>2, <2>6, ConnGetsKeeps
  <2> QED
    BY <2>1, <2>7 DEF ErrorsInv, TypeOK
<1>6. CASE ClearError
  <2>1. /\ Defined(conn)
        /\ conn' = [conn EXCEPT !.code = "SUCCESS"] /\ heap' = Deinit(conn, heap)
        /\ async' = async /\ parser' = parser
    BY <1>6 DEF ClearError, ConnGets, Outcome
  <2>2. conn' \in ErrorInfo /\ conn'.code = "SUCCESS"
    BY <1>0, <2>1 DEF Owning, ErrorInfo, Codes
  <2>3. DOMAIN heap' = DOMAIN heap \ {conn.message}
    BY <2>1 DEF Deinit, Restrict
  <2>4. NULL \notin DOMAIN heap
    BY <1>0, ErrorsAssumption DEF Owning, Addresses, NULL
  <2>5. MessagesAreOwned'
    <3>1. DOMAIN heap' = Owned(async)
      BY <1>0, <2>1, <2>3, <2>4 DEF Owning, MessagesAreOwned, Owned
    <3> QED
      BY <2>1, <2>2, <3>1 DEF MessagesAreOwned, Owned, Defined
  <2>6. MessageIsThere' /\ AsyncErrorIsCopied'
    BY <1>0, <2>1, <2>2 DEF Owning, MessageIsThere, AsyncErrorIsCopied, Defined
  <2>7. Owning'
    BY <1>0, <2>1, <2>2, <2>3, <2>5, <2>6 DEF Owning
  <2> QED
    BY <2>1, <2>7 DEF ErrorsInv, TypeOK
<1>7. CASE Reconnect
  <2>1. /\ heap' = Deinit(conn, Deinit(async, heap))
        /\ conn' = NoError /\ async' = NoError /\ parser' = Malformed
    BY <1>7 DEF Reconnect
  <2>2. NoError \in ErrorInfo /\ ~Defined(NoError) /\ NoError.code = "SUCCESS"
    BY DEF NoError, ErrorInfo, Codes, Defined, Garbage
  <2>3. NULL \notin DOMAIN heap
    BY <1>0, ErrorsAssumption DEF Owning, Addresses, NULL
  <2>4. DOMAIN Deinit(async, heap) = DOMAIN heap \ Owned(async)
    BY <2>3 DEF Deinit, Restrict, Owned
  <2>5. DOMAIN heap' = DOMAIN Deinit(async, heap) \ Owned(conn)
    <3> DEFINE h == Deinit(async, heap)
    <3>1. NULL \notin DOMAIN h
      BY <2>3, <2>4
    <3>2. heap' = Deinit(conn, h)
      BY <2>1
    <3> HIDE DEF h
    <3>3. DOMAIN heap' = DOMAIN h \ Owned(conn)
      BY <3>1, <3>2 DEF Deinit, Restrict, Owned
    <3> QED
      BY <3>3 DEF h
  <2>6. DOMAIN heap' = {}
    BY <1>0, <2>4, <2>5 DEF Owning, MessagesAreOwned
  <2>7. Owning'
    BY <2>1, <2>2, <2>6
    DEF Owning, MessagesAreOwned, MessageIsThere, AsyncErrorIsCopied, Owned, Defined
  <2> QED
    BY <2>1, <2>7 DEF Malformed
<1>8. CASE UNCHANGED vars
  BY <1>0, <1>8, OwningSuffices DEF vars, ErrorsInv, TypeOK
<1> QED
  BY <1>2, <1>3, <1>4, <1>5, <1>6, <1>7, <1>8 DEF Next

\* Every line is read as it was meant, whatever it contains.
LEMMA FeedReads == ASSUME NEW line \in ProperLines PROVE Feed(line.tokens) = line.meaning
<1>1. CASE line \in EndLines
  <2>1. CASE line = Line(<<"OK">>, Success(FALSE))
    BY <2>1 DEF Line, Feed
  <2>2. CASE line = Line(<<"list_OK">>, Success(TRUE))
    <3>1. <<"list_OK">> # <<"OK">>
      OBVIOUS
    <3> QED BY <2>2, <3>1 DEF Line, Feed
  <2> QED BY <1>1, <2>1, <2>2 DEF EndLines
<1>2. CASE line \in PairLines
  <2>1. PICK n \in Names, v \in Values :
           line = Line(n \o <<":", "space">> \o v, PairOf(n, v))
    BY <1>2 DEF PairLines
  <2> QED BY <2>1, PairIsRead DEF Line
<1>3. CASE line \in AckLines
  <2>1. PICK s \in Numbers, a \in Numbers, c \in CommandNames, m \in Messages :
           line = Line(AckLine(s, a, c, m), Error(s, a, m))
    BY <1>3 DEF AckLines
  <2> QED BY <2>1, AckIsRead DEF Line
<1> QED BY <1>1, <1>2, <1>3 DEF ProperLines

\* The parser reads every line that the server completes as it was meant.
THEOREM LinesAreAlwaysRead == Spec => []LinesAreReadAsSent
<1>1. Init => LinesAreReadAsSent
  BY DEF Init, LinesAreReadAsSent
<1>2. LinesAreReadAsSent /\ [Next]_vars => LinesAreReadAsSent'
  <2>1. ASSUME RecvPair PROVE LinesAreReadAsSent'
    <3>1. PICK line \in ServerLines : parser' = Feed(line.tokens) /\ sent' = line.meaning
      BY <2>1 DEF RecvPair
    <3>2. CASE line \in ProperLines
      BY <3>1, <3>2, FeedReads DEF LinesAreReadAsSent
    <3>3. CASE line \in BrokenLines
      BY <3>1, <3>3 DEF BrokenLines, Line, LinesAreReadAsSent
    <3> QED BY <3>2, <3>3 DEF ServerLines
  <2>2. ASSUME SyncCall \/ AsyncIO \/ Declines \/ ClearError \/ UNCHANGED vars
        PROVE  parser' = parser /\ sent' = sent
    BY <2>2 DEF SyncCall, AsyncIO, Declines, ClearError, vars
  <2>3. ASSUME Reconnect PROVE sent' = Broken
    BY <2>3 DEF Reconnect
  <2> QED BY <2>1, <2>2, <2>3 DEF Next, LinesAreReadAsSent
<1> QED BY <1>1, <1>2, PTL DEF Spec

LEMMA ErrorsInvariant ==
    ASSUME ~FlushesAnyway
    PROVE  Spec => []ErrorsInv
<1>1. Init => ErrorsInv
  BY ErrorsInitially
<1>2. ErrorsInv /\ [Next]_vars => ErrorsInv'
  BY ErrorsStep
<1> QED
  BY <1>1, <1>2, PTL DEF Spec

(***************************************************************************)
(* Whose error it is                                                       *)
(***************************************************************************)
\* The failures of sync.c are never the server's.
LEMMA SyncErrorIsOurs ==
    ASSUME NEW dest \in ErrorInfo, NEW src \in ErrorInfo, src.code # "SERVER",
           Defined(src) /\ src.message = NULL => src.code = "OOM",
           NEW memory, DOMAIN memory \subseteq Addresses, NEW o \in SyncError(dest, src, memory)
    PROVE  o.error.code # "SERVER"
<1> DEFINE copied == CopiedFields(dest, src)
<1>1. copied \in ErrorInfo /\ copied.code = src.code
  BY DEF CopiedFields, ErrorInfo, Codes
<1> HIDE DEF copied
<1>2. CASE Defined(src) /\ src.message = NULL
  <2>1. o = Outcome([copied EXCEPT !.message = NULL], memory)
    BY <1>2 DEF SyncError, Copy, copied
  <2>2. o.error.code = copied.code
    BY <1>1, <2>1 DEF Outcome, ErrorInfo
  <2> QED BY <1>1, <2>2
<1>3. CASE Defined(src) /\ src.message # NULL
  <2>1. o \in WithMessage(copied, memory[src.message], memory)
    BY <1>3 DEF SyncError, Copy, copied
  <2> QED BY <1>1, <1>3, <2>1, WithMessageAdds DEF Defined
<1>4. CASE ~Defined(src)
  <2>1. Copy(dest, src, memory) = {Outcome(copied, memory)}
    BY <1>4 DEF Copy, copied
  <2>2. o \in Raise(copied, "TIMEOUT", <<"Timeout">>, memory)
    BY <1>4, <2>1 DEF SyncError, Outcome
  <2>3. "TIMEOUT" \in Codes \ {"SUCCESS"}
    BY DEF Codes
  <2> QED BY <1>1, <2>2, <2>3, RaiseAdds
<1> QED BY <1>2, <1>3, <1>4

\* An error of the server is made of an ACK, and is what it says.
LEMMA ReadsTells ==
    ASSUME conn \in ErrorInfo, ~Defined(conn), DOMAIN heap \subseteq Addresses,
           NEW line, NEW o \in Reads(Feed(line)), o.error.code = "SERVER"
    PROVE  LET v == Feed(line)
           IN  /\ v.result = "ERROR"
               /\ o.error.server = v.server /\ o.error.at = v.at
               /\ o.heap[o.error.message] =
                    IF v.message = <<>> THEN <<"Unspecified">> ELSE v.message
<1> DEFINE v == Feed(line)
           text == IF v.message = <<>> THEN <<"Unspecified">> ELSE v.message
<1>1. /\ v.result \in {"MALFORMED", "SUCCESS", "PAIR", "ERROR"}
      /\ v.result = "ERROR" => v.server \in Numbers \cup {"UNK"} /\ v.at \in Numbers
  BY FeedTypes
<1> HIDE DEF v
<1>2. o \in Reads(v)
  BY DEF v
<1>3. "MALFORMED" \in Codes \ {"SUCCESS"} /\ "SERVER" \in Codes
  BY DEF Codes
<1>4. \A said : o \notin Raise(conn, "MALFORMED", said, heap)
  BY <1>3, RaiseAdds
<1>5. conn.code # "SERVER"
  BY DEF Defined
<1>6. v.result = "ERROR"
  <2>1. CASE v.result = "MALFORMED"
    BY <1>2, <1>4, <2>1 DEF Reads
  <2>2. CASE v.result \in {"SUCCESS", "PAIR"}
    BY <1>2, <1>4, <1>5, <2>2 DEF Reads, Outcome
  <2> QED BY <1>1, <2>1, <2>2
<1> DEFINE e == ErrorServer(conn, v.server, v.at)
           d == ErrorCode(conn, "SERVER")
<1>7. d \in ErrorInfo /\ d.code = "SERVER"
  BY <1>3, ErrorCodeSets
<1>8. e = [d EXCEPT !.server = v.server, !.at = v.at]
  BY DEF ErrorServer
<1>9. o \in WithMessage(e, text, heap)
  BY <1>2, <1>6 DEF Reads
<1> HIDE DEF e, d, text
<1>10. e \in ErrorInfo /\ e.code = "SERVER" /\ e.server = v.server /\ e.at = v.at
  <2>1. [d EXCEPT !.server = v.server] \in ErrorInfo
    BY <1>1, <1>6, <1>7 DEF ErrorInfo
  <2>2. e = [[d EXCEPT !.server = v.server] EXCEPT !.at = v.at]
    BY <1>7, <1>8 DEF ErrorInfo
  <2>3. e \in ErrorInfo
    BY <1>1, <1>6, <2>1, <2>2 DEF ErrorInfo
  <2>4. e.code = "SERVER" /\ e.server = v.server /\ e.at = v.at
    BY <1>7, <2>2 DEF ErrorInfo
  <2> QED BY <2>3, <2>4
<1>11. /\ o.error.server = e.server /\ o.error.at = e.at /\ o.heap[o.error.message] = text
  BY <1>9, <1>10, WithMessageAdds DEF Defined
<1> QED BY <1>6, <1>10, <1>11 DEF v, text

\* An error of the server is in the connection only.
Told == async.code # "SERVER" /\ ErrorIsTheServers

LEMMA ToldStep ==
    ASSUME ErrorsInv, LinesAreReadAsSent', Told, [Next]_vars, ~FlushesAnyway
    PROVE  Told'
<1>1. /\ conn \in ErrorInfo /\ async \in ErrorInfo /\ DOMAIN heap \subseteq Addresses
      /\ \A e \in {conn, async} : Defined(e) /\ e.message = NULL => e.code = "OOM"
  BY DEF ErrorsInv, TypeOK, MessageIsThere, Addresses
<1>2. ASSUME conn'.code # "SERVER", async'.code # "SERVER" PROVE Told'
  BY <1>2 DEF Told, ErrorIsTheServers
<1>3. CASE RecvPair
  <2>1. ~Defined(conn) /\ async' = async
    BY <1>3 DEF RecvPair, ConnGets
  <2>2. PICK line \in ServerLines :
           /\ parser' = Feed(line.tokens)
           /\ \E o \in Reads(parser') : conn' = o.error /\ heap' = o.heap
    BY <1>3 DEF RecvPair, ConnGets
  <2>3. PICK o \in Reads(Feed(line.tokens)) : conn' = o.error /\ heap' = o.heap
    BY <2>2
  <2>4. ASSUME conn'.code = "SERVER", sent' # Broken
        PROVE  /\ sent'.result = "ERROR"
               /\ conn'.server = sent'.server /\ conn'.at = sent'.at
               /\ heap'[conn'.message] =
                    IF sent'.message = <<>> THEN <<"Unspecified">> ELSE sent'.message
    <3>1. sent' = Feed(line.tokens)
      BY <2>2, <2>4 DEF LinesAreReadAsSent
    <3> QED BY <1>1, <2>1, <2>3, <2>4, <3>1, ReadsTells
  <2> QED BY <2>1, <2>4 DEF Told, ErrorIsTheServers
<1>4. CASE SyncCall
  <2>1. SyncFails
    BY <1>4 DEF SyncCall
  <2>2. CASE ConnGets(SyncError(conn, async, heap))
    <3>1. PICK o \in SyncError(conn, async, heap) : conn' = o.error /\ async' = async
      BY <2>2 DEF ConnGets
    <3> QED BY <1>1, <1>2, <3>1, SyncErrorIsOurs DEF Told
  <2>3. CASE \E a \in AsyncFailures(async, heap) : \E o \in SyncError(conn, a.error, a.heap) :
                async' = a.error /\ conn' = o.error
    <3>1. PICK a \in AsyncFailures(async, heap) :
             \E o \in SyncError(conn, a.error, a.heap) : async' = a.error /\ conn' = o.error
      BY <2>3
    <3>2. PICK o \in SyncError(conn, a.error, a.heap) : async' = a.error /\ conn' = o.error
      BY <3>1
    <3>3. Adds(a, heap) /\ a.error.code # "SERVER"
      BY <1>1, AsyncFailuresAdd
    <3>4. o.error.code # "SERVER"
      BY <1>1, <3>3, SyncErrorIsOurs DEF Adds
    <3> QED BY <1>2, <3>2, <3>3, <3>4
  <2> QED BY <2>1, <2>2, <2>3 DEF SyncFails
<1>5. CASE AsyncIO
  <2>1. conn' = conn /\ sent' = sent
    BY <1>5 DEF AsyncIO
  <2>2. PICK a \in AsyncFailures(async, heap) : async' = a.error /\ heap' = a.heap
    BY <1>5 DEF AsyncIO
  <2>3. Adds(a, heap) /\ a.error.code # "SERVER"
    BY <1>1, AsyncFailuresAdd
  <2>4. ASSUME conn.code = "SERVER" PROVE heap'[conn.message] = heap[conn.message]
    <3>1. conn.message # NULL /\ Defined(conn)
      BY <1>1, <2>4 DEF Defined
    <3>2. conn.message \in DOMAIN heap
      BY <3>1 DEF ErrorsInv, MessagesAreOwned, Owned
    <3> QED BY <2>2, <2>3, <3>2 DEF Adds
  <2> QED BY <2>1, <2>2, <2>3, <2>4 DEF Told, ErrorIsTheServers
<1>6. CASE Declines
  <2>1. async' = async
    BY <1>6 DEF Declines, ConnGets
  <2>2. PICK o : /\ \/ \E code \in {"ARGUMENT", "STATE", "MALFORMED"} :
                           o \in Raise(conn, code, <<code>>, heap)
                    \/ o = Outcome(ErrorCode(conn, "OOM"), heap)
                 /\ conn' = o.error
    BY <1>6 DEF Declines, ConnGets
  <2>3. {"ARGUMENT", "STATE", "MALFORMED", "OOM"} \subseteq Codes \ {"SUCCESS"}
    BY DEF Codes
  <2>4. ASSUME NEW code \in {"ARGUMENT", "STATE", "MALFORMED"},
               o \in Raise(conn, code, <<code>>, heap)
        PROVE  o.error.code # "SERVER"
    BY <1>1, <2>3, <2>4, RaiseAdds
  <2>5. ASSUME o = Outcome(ErrorCode(conn, "OOM"), heap)
        PROVE  o.error.code # "SERVER"
    <3>1. o.error = ErrorCode(conn, "OOM")
      BY <2>5 DEF Outcome
    <3>2. ErrorCode(conn, "OOM").code = "OOM"
      BY <1>1, <2>3, ErrorCodeSets
    <3> QED BY <3>1, <3>2
  <2> QED BY <1>2, <2>1, <2>2, <2>4, <2>5 DEF Told
<1>7. CASE ClearError
  <2>1. conn' = [conn EXCEPT !.code = "SUCCESS"] /\ async' = async
    BY <1>7 DEF ClearError, ConnGets, Outcome
  <2>2. conn'.code = "SUCCESS"
    BY <1>1, <2>1 DEF ErrorInfo
  <2> QED BY <1>2, <2>1, <2>2 DEF Told
<1>8. CASE Reconnect
  BY <1>2, <1>8 DEF Reconnect, NoError
<1>9. CASE UNCHANGED vars
  BY <1>9 DEF vars, Told, ErrorIsTheServers
<1> QED BY <1>3, <1>4, <1>5, <1>6, <1>7, <1>8, <1>9 DEF Next

\* What the client is told of an error of the server is what the server said.
THEOREM ServerErrorsAreTold ==
    ASSUME ~FlushesAnyway
    PROVE  Spec => []ErrorIsTheServers
<1>1. Init => Told
  BY DEF Init, NoError, Told, ErrorIsTheServers
<1>2. Told => ErrorIsTheServers
  BY DEF Told
<1> QED BY <1>1, <1>2, ToldStep, ErrorsInvariant, LinesAreAlwaysRead, PTL DEF Spec

\* Every message belongs to exactly one of the two errors, and is freed with it.
THEOREM MessagesAreAlwaysOwned ==
    ASSUME ~FlushesAnyway
    PROVE  Spec => []MessagesAreOwned
<1>1. ErrorsInv => MessagesAreOwned
  BY DEF ErrorsInv
<1> QED
  BY <1>1, ErrorsInvariant, PTL

\* mpd_error_get_message() always has a message to return.
THEOREM MessageIsAlwaysThere ==
    ASSUME ~FlushesAnyway
    PROVE  Spec => []MessageIsThere
<1>1. ErrorsInv => MessageIsThere
  BY DEF ErrorsInv
<1> QED
  BY <1>1, ErrorsInvariant, PTL

\* The client is told of a failure of the socket what the mpd_async knows of it.
THEOREM AsyncErrorIsAlwaysCopied ==
    ASSUME ~FlushesAnyway
    PROVE  Spec => []AsyncErrorIsCopied
<1>1. ErrorsInv => AsyncErrorIsCopied
  BY DEF ErrorsInv
<1> QED
  BY <1>1, ErrorsInvariant, PTL
=============================================================================
