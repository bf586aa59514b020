---------------------------- MODULE StreamProofs ----------------------------
(***************************************************************************)
(* Proofs about Async, Sync and Binary: what becomes of the two streams of *)
(* bytes between the client and the server.                                *)
(*                                                                         *)
(* Async: for any size of the buffers, any requests, lines and order of    *)
(* calls, the indices stay in bounds, the buffers hold what they should,   *)
(* and every step is one of the abstract queues of Channel.                *)
(*                                                                         *)
(* Sync: the blocking functions use the async object as any user may, wait *)
(* only for what can help, refuse only what can never be sent, and keep    *)
(* the caller's line.                                                      *)
(*                                                                         *)
(* Binary: mpd_recv_binary() uses the blocking functions as their users    *)
(* must, so that what is proved of them holds with chunks in between; and  *)
(* a chunk that is received is the one that was sent.                      *)
(***************************************************************************)
EXTENDS Binary, SequenceTheorems, WellFoundedInduction, TLAPS

(***************************************************************************)
(* Buffers                                                                 *)
(***************************************************************************)
Sound(b) == b \in Buffer /\ b.read <= b.write

LEMMA UsedAndRoom ==
    ASSUME NEW b, Sound(b)
    PROVE  Used(b) \in 0 .. Size /\ Room(b) \in 0 .. Size /\ Used(b) + Room(b) = Size
BY SizeAssumption DEF Sound, Buffer, Used, Room

\* Moving the contents to the front changes neither them nor their number.
LEMMA MovedKeeps ==
    ASSUME NEW b, Sound(b)
    PROVE  /\ Sound(Moved(b)) /\ Moved(b).read = 0
           /\ Used(Moved(b)) = Used(b) /\ Room(Moved(b)) = Room(b)
           /\ \A i \in 0 .. Used(b) - 1 : Moved(b).data[i] = b.data[b.read + i]
<1>1. /\ Used(b) \in 0 .. Size /\ b.read \in 0 .. Size /\ b.write \in 0 .. Size
      /\ b.write = b.read + Used(b) /\ Size \in Nat
  BY SizeAssumption DEF Sound, Buffer, Used
<1>2. Moved(b) = [data |-> Moved(b).data, read |-> 0, write |-> Used(b)]
  BY DEF Moved
<1>3. \A i \in Positions : Moved(b).data[i] = IF i < Used(b) THEN b.data[b.read + i]
                                                            ELSE b.data[i]
  BY DEF Moved
<1>4. Moved(b).data \in [Positions -> Nat]
  <2>1. \A i \in Positions : i < Used(b) => b.read + i \in Positions
    BY <1>1 DEF Positions
  <2>2. \A i \in Positions : Moved(b).data[i] \in Nat
    BY <1>3, <2>1 DEF Sound, Buffer
  <2>3. Moved(b).data = [i \in Positions |-> IF i < Used(b) THEN b.data[b.read + i]
                                                            ELSE b.data[i]]
    BY DEF Moved
  <2> QED BY <1>3, <2>2, <2>3
<1>5. Moved(b).read = 0 /\ Moved(b).write = Used(b)
  BY DEF Moved
<1>6. \A i \in 0 .. Used(b) - 1 : Moved(b).data[i] = b.data[b.read + i]
  BY <1>1, <1>3 DEF Positions
<1>7. Sound(Moved(b))
  BY <1>1, <1>2, <1>4 DEF Sound, Buffer
<1>8. Used(Moved(b)) = Used(b) /\ Room(Moved(b)) = Room(b)
  BY <1>1, <1>5 DEF Used, Room
<1> QED BY <1>5, <1>6, <1>7, <1>8

LEMMA HoldsMoved ==
    ASSUME NEW b, Sound(b), NEW from \in Nat, NEW to \in Nat, Holds(b, from, to)
    PROVE  Holds(Moved(b), from, to)
BY MovedKeeps, UsedAndRoom DEF Holds

\* Bytes put behind the contents do not disturb them.
LEMMA PutBehind ==
    ASSUME NEW b, Sound(b), NEW s \in Seq(Nat)
    PROVE  /\ Sound(Put(b, s)) /\ Used(Put(b, s)) = Used(b)
           /\ Put(b, s).read = b.read /\ Put(b, s).write = b.write
           /\ \A i \in Positions :
                Put(b, s).data[i] = IF b.write <= i /\ i < b.write + Len(s)
                                    THEN s[i - b.write + 1] ELSE b.data[i]
           /\ \A i \in 0 .. Used(b) - 1 :
                Put(b, s).data[b.read + i] = b.data[b.read + i]
<1> DEFINE new == [i \in Positions |-> IF b.write <= i /\ i < b.write + Len(s)
                                       THEN s[i - b.write + 1] ELSE b.data[i]]
<1>1. /\ b.data \in [Positions -> Nat] /\ b.read \in 0 .. Size /\ b.write \in 0 .. Size
      /\ b.read <= b.write /\ Size \in Nat /\ Len(s) \in Nat
      /\ b = [data |-> b.data, read |-> b.read, write |-> b.write]
  BY SizeAssumption DEF Sound, Buffer
<1>2. Put(b, s) = [data |-> new, read |-> b.read, write |-> b.write]
  <2>1. Put(b, s) = [b EXCEPT !.data = new]
    BY DEF Put
  <2> HIDE DEF new
  <2> QED BY <2>1 DEF Sound, Buffer
<1>3. \A i \in Positions : new[i] \in Nat
  <2> TAKE i \in Positions
  <2>1. CASE b.write <= i /\ i < b.write + Len(s)
    <3>1. i - b.write + 1 \in 1 .. Len(s)
      BY <1>1, <2>1 DEF Positions
    <3>2. s[i - b.write + 1] \in Nat
      BY <3>1
    <3> QED BY <2>1, <3>2
  <2>2. CASE ~(b.write <= i /\ i < b.write + Len(s))
    BY <1>1, <2>2
  <2> QED BY <2>1, <2>2
<1>4. new \in [Positions -> Nat]
  BY <1>3
<1>5. \A i \in Positions : new[i] = IF b.write <= i /\ i < b.write + Len(s)
                                    THEN s[i - b.write + 1] ELSE b.data[i]
  OBVIOUS
<1> HIDE DEF new
<1>6. Sound(Put(b, s)) /\ Used(Put(b, s)) = Used(b)
  BY <1>1, <1>2, <1>4 DEF Sound, Buffer, Used
<1>7. \A i \in 0 .. Used(b) - 1 : new[b.read + i] = b.data[b.read + i]
  <2> TAKE i \in 0 .. Used(b) - 1
  <2>1. b.read + i \in Positions /\ ~(b.write <= b.read + i)
    BY <1>1 DEF Used, Positions
  <2> QED BY <1>5, <2>1
<1> QED BY <1>2, <1>5, <1>6, <1>7

LEMMA Appends ==
    ASSUME NEW b, Sound(b), b.read = 0, NEW from \in Nat, NEW to \in Nat,
           Holds(b, from, to), NEW n \in 0 .. Room(b)
    PROVE  LET c == Expanded(Put(b, Bytes(to, n)), n)
           IN  Sound(c) /\ Holds(c, from, to + n)
<1> DEFINE s == Bytes(to, n)
           p == Put(b, s)
           c == Expanded(p, n)
<1>1. /\ b.data \in [Positions -> Nat] /\ b.write \in 0 .. Size /\ Size \in Nat
      /\ Used(b) = b.write /\ Used(b) = to - from /\ b.write + n <= Size /\ n \in Nat
  BY UsedAndRoom, SizeAssumption DEF Sound, Buffer, Used, Room, Holds
<1>2. s \in Seq(Nat) /\ Len(s) = n /\ \A i \in 1 .. n : s[i] = to + i
  BY <1>1 DEF Bytes
<1> HIDE DEF s
<1>3. /\ Sound(p) /\ p.read = 0 /\ p.write = b.write
      /\ \A i \in Positions : p.data[i] = IF b.write <= i /\ i < b.write + n
                                          THEN s[i - b.write + 1] ELSE b.data[i]
  BY <1>2, PutBehind
<1> HIDE DEF p
<1>4. c = [data |-> p.data, read |-> 0, write |-> b.write + n]
  BY <1>3 DEF Expanded, Sound, Buffer
<1> HIDE DEF c
<1>5. Sound(c) /\ Used(c) = to + n - from
  BY <1>1, <1>3, <1>4 DEF Sound, Buffer, Used
<1>6. \A i \in 0 .. Used(c) - 1 : c.data[c.read + i] = from + i + 1
  <2> TAKE i \in 0 .. Used(c) - 1
  <2>1. i \in Positions /\ c.data[c.read + i] = p.data[i]
    BY <1>1, <1>4, <1>5 DEF Positions
  <2>2. CASE i < b.write
    <3>1. p.data[i] = b.data[i]
      BY <1>1, <1>3, <2>1, <2>2
    <3>2. b.data[0 + i] = from + i + 1
      BY <1>1, <2>2 DEF Holds
    <3> QED BY <2>1, <3>1, <3>2
  <2>3. CASE ~(i < b.write)
    <3>1. p.data[i] = s[i - b.write + 1] /\ i - b.write + 1 \in 1 .. n
      BY <1>1, <1>3, <1>5, <2>1, <2>3 DEF Positions
    <3>2. s[i - b.write + 1] = to + (i - b.write + 1)
      BY <1>2, <3>1
    <3>3. i \in Int /\ b.write \in Int /\ to = from + b.write
      BY <1>1 DEF Positions
    <3>4. to + (i - b.write + 1) = from + i + 1
      BY <3>3
    <3> QED BY <2>1, <3>1, <3>2, <3>4
  <2> QED BY <2>2, <2>3
<1>7. Sound(c) /\ Holds(c, from, to + n)
  BY <1>5, <1>6 DEF Holds
<1> QED BY <1>7 DEF c, p, s

LEMMA Consumes ==
    ASSUME NEW b, Sound(b), NEW from \in Nat, NEW to \in Nat, Holds(b, from, to),
           NEW n \in 0 .. Used(b)
    PROVE  Sound(Consumed(b, n)) /\ Holds(Consumed(b, n), from + n, to)
<1> DEFINE c == Consumed(b, n)
<1>1. /\ b.data \in [Positions -> Nat] /\ b.read \in 0 .. Size /\ b.write \in 0 .. Size
      /\ b.read <= b.write /\ Size \in Nat /\ Used(b) = b.write - b.read
      /\ Used(b) = to - from
  BY SizeAssumption DEF Sound, Buffer, Used, Holds
<1>2. c = [data |-> b.data, read |-> b.read + n, write |-> b.write]
  BY DEF Consumed, Sound, Buffer
<1> HIDE DEF c
<1>3. Sound(c) /\ Used(c) = to - (from + n)
  BY <1>1, <1>2 DEF Sound, Buffer, Used
<1>4. \A i \in 0 .. Used(c) - 1 : c.data[c.read + i] = from + n + i + 1
  <2> TAKE i \in 0 .. Used(c) - 1
  <2>1. n + i \in 0 .. Used(b) - 1 /\ c.data[c.read + i] = b.data[b.read + (n + i)]
    BY <1>1, <1>2, <1>3
  <2> QED BY <1>1, <2>1 DEF Holds
<1>5. Sound(c) /\ Holds(c, from + n, to)
  BY <1>3, <1>4 DEF Holds
<1> QED BY <1>5 DEF c

\* A set of numbers that is not empty has a least element.
LEMMA LeastExists ==
    ASSUME NEW S, S \subseteq Nat, S # {}
    PROVE  Least(S) \in S /\ \A m \in S : Least(S) <= m
<1>1. PICK n \in S : \A m \in S : ~(<<m, n>> \in OpToRel(<, Nat))
  BY NatLessThanWellFounded, WFMin
<1>2. \A m \in S : n <= m
  <2> TAKE m \in S
  <2>1. m \in Nat /\ n \in Nat
    OBVIOUS
  <2>2. ~(m < n)
    <3> SUFFICES ASSUME m < n PROVE FALSE
      OBVIOUS
    <3>1. <<m, n>> \in Nat \X Nat
      BY <2>1
    <3>2. <<m, n>> \in {ss \in Nat \X Nat : ss[1] < ss[2]}
      BY <3>1
    <3> QED BY <1>1, <3>2, Zenon DEF OpToRel
  <2> QED BY <2>1, <2>2
<1> QED BY <1>2 DEF Least

LEMMA LeastOfTwo ==
    ASSUME NEW x \in Int, NEW y \in Int
    PROVE  Least({x, y}) \in {x, y} /\ Least({x, y}) <= x /\ Least({x, y}) <= y
<1>1. \E n \in {x, y} : \A m \in {x, y} : n <= m
  <2>1. CASE x <= y
    BY <2>1
  <2>2. CASE y < x
    BY <2>2
  <2> QED BY <2>1, <2>2
<1> QED BY <1>1 DEF Least

(***************************************************************************)
(* The object and the streams.  Good(a, d, c, t, r) is the inductive       *)
(* invariant, of an object and the four counters.                          *)
(***************************************************************************)
Good(a, d, c, t, r) ==
    /\ a \in AsyncObject
    /\ a.input.read <= a.input.write /\ a.output.read <= a.output.write
    /\ d \in Nat /\ c \in Nat /\ t \in Nat /\ r \in Nat
    /\ Holds(a.output, d, c)
    /\ Holds(a.input, t, r)

AsyncInv == Good(async, delivered, accepted, taken, arrived)

LEMMA GoodIsSound ==
    ASSUME NEW a, NEW d, NEW c, NEW t, NEW r, Good(a, d, c, t, r)
    PROVE  Sound(a.input) /\ Sound(a.output)
BY DEF Good, Sound, AsyncObject

\* Changing one buffer or recording an error leaves the rest as it is.
LEMMA NewInput ==
    ASSUME NEW a, NEW d, NEW c, NEW t, NEW r, Good(a, d, c, t, r),
           NEW b, NEW t2 \in Nat, NEW r2 \in Nat, Sound(b), Holds(b, t2, r2)
    PROVE  Good([a EXCEPT !.input = b], d, c, t2, r2)
BY DEF Good, Sound, AsyncObject

LEMMA NewOutput ==
    ASSUME NEW a, NEW d, NEW c, NEW t, NEW r, Good(a, d, c, t, r),
           NEW b, NEW d2 \in Nat, NEW c2 \in Nat, Sound(b), Holds(b, d2, c2)
    PROVE  Good([a EXCEPT !.output = b], d2, c2, t, r)
BY DEF Good, Sound, AsyncObject

LEMMA FailsKeeps ==
    ASSUME NEW a, NEW d, NEW c, NEW t, NEW r, Good(a, d, c, t, r), NEW e \in AsyncErrors
    PROVE  Good(Fails(a, e), d, c, t, r)
<1>1. (a.asserts \/ Failed(a)) \in BOOLEAN
  BY DEF Failed
<1>2. Fails(a, e) = [a EXCEPT !.error = e, !.asserts = a.asserts \/ Failed(a)]
  BY Zenon DEF Fails
<1> QED BY <1>1, <1>2 DEF Good, AsyncObject

LEMMA ReadsKeep ==
    ASSUME NEW d, NEW c, NEW t, NEW a, Good(a, d, c, t, arrived), NEW o \in Reads(a)
    PROVE  /\ o.in \in Nat /\ o.out = 0
           /\ Good(o.async, d, c, t, arrived + o.in)
<1>1. arrived \in Nat /\ t \in Nat /\ Sound(a.input) /\ Holds(a.input, t, arrived)
  BY GoodIsSound DEF Good
<1>2. CASE Room(a.input) = 0
  <2>1. o = Outcome(a, 0, 0)
    BY <1>2 DEF Reads
  <2> QED BY <1>1, <2>1 DEF Outcome
<1>3. CASE Room(a.input) # 0
  <2> DEFINE m == [a EXCEPT !.input = Moved(a.input)]
  <2>1. m.input = Moved(a.input) /\ Good(m, d, c, t, arrived)
    <3>1. Sound(Moved(a.input)) /\ Holds(Moved(a.input), t, arrived)
      BY <1>1, MovedKeeps, HoldsMoved
    <3>2. Good(m, d, c, t, arrived)
      BY <1>1, <3>1, NewInput
    <3> QED BY <3>2 DEF Good, AsyncObject
  <2>2. Sound(m.input) /\ m.input.read = 0 /\ Holds(m.input, t, arrived)
    BY <1>1, <2>1, MovedKeeps, HoldsMoved
  <2>3. \/ \E n \in 0 .. Least({Room(m.input), MaxArrived - arrived}) :
             o = Outcome([m EXCEPT !.input = Expanded(Put(m.input, Bytes(arrived, n)), n)], n, 0)
        \/ \E e \in {"SYSTEM", "CLOSED"} : o = Outcome(Fails(m, e), 0, 0)
    BY <1>3, Zenon DEF Reads
  <2> HIDE DEF m
  <2>4. ASSUME NEW n \in 0 .. Least({Room(m.input), MaxArrived - arrived}),
               o = Outcome([m EXCEPT !.input = Expanded(Put(m.input, Bytes(arrived, n)), n)], n, 0)
        PROVE  o.in \in Nat /\ o.out = 0 /\ Good(o.async, d, c, t, arrived + o.in)
    <3>1. n \in 0 .. Room(m.input)
      <4>1. Room(m.input) \in Int /\ MaxArrived - arrived \in Int
        BY <1>1, <2>2, UsedAndRoom, AsyncAssumption
      <4>2. Least({Room(m.input), MaxArrived - arrived}) <= Room(m.input)
            /\ Least({Room(m.input), MaxArrived - arrived}) \in Int
        BY <4>1, LeastOfTwo
      <4> QED BY <4>1, <4>2
    <3> DEFINE b == Expanded(Put(m.input, Bytes(arrived, n)), n)
    <3>2. Sound(b) /\ Holds(b, t, arrived + n)
      BY <1>1, <2>2, <3>1, Appends
    <3>3. arrived + n \in Nat /\ n \in Nat
      BY <1>1
    <3>4. o.async = [m EXCEPT !.input = b] /\ o.in = n /\ o.out = 0
      BY <2>4 DEF Outcome
    <3> HIDE DEF b
    <3>5. Good([m EXCEPT !.input = b], d, c, t, arrived + n)
      BY <1>1, <2>1, <3>2, <3>3, NewInput
    <3> QED BY <3>3, <3>4, <3>5
  <2>5. ASSUME NEW e \in {"SYSTEM", "CLOSED"}, o = Outcome(Fails(m, e), 0, 0)
        PROVE  o.in \in Nat /\ o.out = 0 /\ Good(o.async, d, c, t, arrived + o.in)
    <3>1. Good(Fails(m, e), d, c, t, arrived)
      BY <2>1, FailsKeeps DEF AsyncErrors
    <3>2. o.async = Fails(m, e) /\ o.in = 0 /\ o.out = 0
      BY <2>5 DEF Outcome
    <3> QED BY <1>1, <3>1, <3>2
  <2> QED BY <2>3, <2>4, <2>5
<1> QED BY <1>2, <1>3

LEMMA WritesKeep ==
    ASSUME NEW d, NEW c, NEW t, NEW r, NEW a, Good(a, d, c, t, r), NEW in, NEW o \in Writes(a, in)
    PROVE  /\ o.in = in /\ o.out \in Nat
           /\ Good(o.async, d + o.out, c, t, r)
<1>1. d \in Nat /\ c \in Nat /\ Sound(a.output) /\ Holds(a.output, d, c)
  BY GoodIsSound DEF Good
<1>2. CASE Used(a.output) = 0
  <2>1. o = Outcome(a, in, 0)
    BY <1>2 DEF Writes
  <2> QED BY <1>1, <2>1 DEF Outcome
<1>3. CASE Used(a.output) # 0
  <2>1. \/ \E n \in 0 .. Used(a.output) :
             o = Outcome([a EXCEPT !.output = Consumed(a.output, n)], in, n)
        \/ o = Outcome(Fails(a, "SYSTEM"), in, 0)
    BY <1>3, Zenon DEF Writes
  <2>2. ASSUME NEW n \in 0 .. Used(a.output),
               o = Outcome([a EXCEPT !.output = Consumed(a.output, n)], in, n)
        PROVE  o.in = in /\ o.out \in Nat /\ Good(o.async, d + o.out, c, t, r)
    <3> DEFINE b == Consumed(a.output, n)
    <3>1. Sound(b) /\ Holds(b, d + n, c)
      BY <1>1, Consumes
    <3>2. n \in Nat /\ d + n \in Nat
      BY <1>1, UsedAndRoom
    <3>3. o.async = [a EXCEPT !.output = b] /\ o.in = in /\ o.out = n
      BY <2>2 DEF Outcome
    <3> HIDE DEF b
    <3>4. Good([a EXCEPT !.output = b], d + n, c, t, r)
      BY <1>1, <3>1, <3>2, NewOutput
    <3> QED BY <3>2, <3>3, <3>4
  <2>3. ASSUME o = Outcome(Fails(a, "SYSTEM"), in, 0)
        PROVE  o.in = in /\ o.out \in Nat /\ Good(o.async, d + o.out, c, t, r)
    <3>1. Good(Fails(a, "SYSTEM"), d, c, t, r)
      BY FailsKeeps DEF AsyncErrors
    <3>2. o.async = Fails(a, "SYSTEM") /\ o.in = in /\ o.out = 0
      BY <2>3 DEF Outcome
    <3> QED BY <1>1, <3>1, <3>2
  <2> QED BY <2>1, <2>2, <2>3
<1> QED BY <1>2, <1>3

LEMMA IOsKeep ==
    ASSUME AsyncInv, NEW events, NEW o \in IOs(async, events)
    PROVE  /\ o.in \in Nat /\ o.out \in Nat
           /\ Good(o.async, delivered + o.out, accepted, taken, arrived + o.in)
<1> DEFINE Kept(p) == /\ p.in \in Nat /\ p.out \in Nat
                      /\ Good(p.async, delivered + p.out, accepted, taken, arrived + p.in)
           read == IF "READ" \in events THEN Reads(async) ELSE {Outcome(async, 0, 0)}
<1>1. delivered \in Nat /\ arrived \in Nat
  BY DEF AsyncInv, Good
<1>2. Kept(Outcome(async, 0, 0))
  BY <1>1 DEF AsyncInv, Outcome
<1>3. Kept(Outcome(Fails(async, "CLOSED"), 0, 0))
  <2>1. Good(Fails(async, "CLOSED"), delivered, accepted, taken, arrived)
    BY FailsKeeps DEF AsyncInv, AsyncErrors
  <2> QED BY <1>1, <2>1 DEF Outcome
<1>4. \A p \in read : Kept(p) /\ p.out = 0
  <2> TAKE p \in read
  <2>1. CASE p = Outcome(async, 0, 0)
    BY <1>2, <2>1 DEF Outcome
  <2>2. CASE p \in Reads(async)
    <3>1. p.in \in Nat /\ p.out = 0
          /\ Good(p.async, delivered, accepted, taken, arrived + p.in)
      BY <2>2, ReadsKeep DEF AsyncInv
    <3> QED BY <1>1, <3>1
  <2> QED BY <2>1, <2>2
<1>5. \A p \in read : \A q \in Writes(p.async, p.in) : Kept(q)
  <2> TAKE p \in read
  <2> TAKE q \in Writes(p.async, p.in)
  <2>1. /\ p.in \in Nat
        /\ Good(p.async, delivered, accepted, taken, arrived + p.in)
    BY <1>1, <1>4
  <2>2. q.in = p.in /\ q.out \in Nat
        /\ Good(q.async, delivered + q.out, accepted, taken, arrived + p.in)
    BY <2>1, WritesKeep
  <2> QED BY <2>1, <2>2
<1>6. \/ o = Outcome(async, 0, 0)
      \/ o = Outcome(Fails(async, "CLOSED"), 0, 0)
      \/ o \in read
      \/ \E p \in read : o \in Writes(p.async, p.in)
  BY Zenon DEF IOs
<1> HIDE DEF read
<1>7. Kept(o)
  <2> HIDE DEF Kept
  <2> QED BY <1>2, <1>3, <1>4, <1>5, <1>6
<1> QED BY <1>7

LEMMA SendKeeps ==
    ASSUME AsyncInv, NEW r \in Requests
    PROVE  Good(Enqueued(async, r), delivered,
                IF Accepts(async, r) THEN accepted + r.total ELSE accepted, taken, arrived)
<1> DEFINE b == async.output
<1>1. /\ delivered \in Nat /\ accepted \in Nat /\ taken \in Nat /\ arrived \in Nat
      /\ Sound(b) /\ Holds(b, delivered, accepted)
      /\ Good(async, delivered, accepted, taken, arrived)
  BY GoodIsSound DEF AsyncInv, Good
<1>2. /\ Sound(Moved(b)) /\ Moved(b).read = 0 /\ Room(Moved(b)) = Room(b)
      /\ Holds(Moved(b), delivered, accepted)
  BY <1>1, MovedKeeps, HoldsMoved
<1>3. CASE Accepts(async, r)
  <2> DEFINE new == Expanded(Put(Moved(b), Bytes(accepted, r.total)), r.total)
  <2>1. r.total \in 0 .. Room(Moved(b)) /\ r.total \in Nat
    BY <1>1, <1>2, <1>3, UsedAndRoom, AsyncAssumption DEF Accepts, Fits, Request
  <2>2. Sound(new) /\ Holds(new, delivered, accepted + r.total)
    BY <1>1, <1>2, <2>1, Appends
  <2>3. Enqueued(async, r) = [async EXCEPT !.output = new]
    BY <1>3, Zenon DEF Enqueued
  <2>4. accepted + r.total \in Nat
    BY <1>1, <2>1
  <2> HIDE DEF new
  <2>5. Good([async EXCEPT !.output = new], delivered, accepted + r.total, taken, arrived)
    BY <1>1, <2>2, <2>4, NewOutput
  <2> QED BY <1>3, <2>3, <2>5
<1>4. CASE ~Accepts(async, r) /\ (Failed(async) \/ Room(b) <= r.command)
  BY <1>1, <1>4 DEF Enqueued
<1>5. CASE ~Accepts(async, r) /\ ~(Failed(async) \/ Room(b) <= r.command)
  <2> DEFINE zeros == [i \in 1 .. Room(Moved(b)) |-> 0]
             new == Put(Moved(b), zeros)
  <2>1. zeros \in Seq(Nat)
    BY <1>2, UsedAndRoom
  <2>2. Sound(new) /\ Holds(new, delivered, accepted)
    <3> HIDE DEF zeros
    <3>1. /\ Sound(new) /\ Used(new) = Used(Moved(b)) /\ new.read = Moved(b).read
          /\ \A i \in 0 .. Used(Moved(b)) - 1 :
                new.data[Moved(b).read + i] = Moved(b).data[Moved(b).read + i]
      BY <1>2, <2>1, PutBehind
    <3> HIDE DEF new
    <3> QED BY <1>2, <3>1 DEF Holds
  <2>3. Enqueued(async, r) = [async EXCEPT !.output = new]
    <3>1. Enqueued(async, r) = [async EXCEPT !.output = Put(Moved(b), [i \in 1 .. Room(b) |-> 0])]
      BY <1>5, Zenon DEF Enqueued
    <3> QED BY <1>2, <3>1
  <2> HIDE DEF new
  <2>4. Good([async EXCEPT !.output = new], delivered, accepted, taken, arrived)
    BY <1>1, <2>2, NewOutput
  <2> QED BY <1>5, <2>3, <2>4
<1> QED BY <1>3, <1>4, <1>5

\* A line ends within the buffer's contents.
LEMMA LineWithin ==
    ASSUME NEW b, Sound(b), LineEnds(b) # {}
    PROVE  /\ Least(LineEnds(b)) \in 0 .. Used(b) - 1
           /\ LineSize(b) = Least(LineEnds(b)) + 1 /\ LineSize(b) \in 1 .. Used(b)
<1>1. LineEnds(b) \subseteq 0 .. Used(b) - 1 /\ Used(b) \in Nat
  BY UsedAndRoom DEF LineEnds
<1>2. LineEnds(b) \subseteq Nat
  BY <1>1
<1>3. Least(LineEnds(b)) \in LineEnds(b)
  BY <1>2, LeastExists
<1>4. Least(LineEnds(b)) \in 0 .. Used(b) - 1
  BY <1>1, <1>3
<1> QED BY <1>1, <1>4 DEF LineSize

LEMMA LineKeeps ==
    ASSUME AsyncInv
    PROVE  Good(Lined(async), delivered, accepted,
                IF LineEnds(async.input) # {} THEN taken + Least(LineEnds(async.input)) + 1
                                              ELSE taken, arrived)
<1> DEFINE b == async.input
           n == LineSize(b)
           at == b.read + Least(LineEnds(b))
           ended == [b EXCEPT !.data[at] = 0]
           new == Consumed(ended, n)
<1>1. /\ delivered \in Nat /\ accepted \in Nat /\ taken \in Nat /\ arrived \in Nat
      /\ Sound(b) /\ Holds(b, taken, arrived)
      /\ Good(async, delivered, accepted, taken, arrived)
  BY GoodIsSound DEF AsyncInv, Good
<1>2. CASE LineEnds(b) # {}
  <2>1. /\ n \in 1 .. Used(b) /\ Used(b) = b.write - b.read /\ Used(b) = arrived - taken
        /\ n = Least(LineEnds(b)) + 1 /\ Least(LineEnds(b)) \in Nat
        /\ b.read \in 0 .. Size /\ b.write \in 0 .. Size /\ Size \in Nat
        /\ b.data \in [Positions -> Nat] /\ at = b.read + n - 1
        /\ b.read + n <= b.write /\ Used(b) \in Nat
        /\ taken \in Nat /\ arrived \in Nat
    <3>1. Least(LineEnds(b)) \in 0 .. Used(b) - 1 /\ n = Least(LineEnds(b)) + 1
          /\ n \in 1 .. Used(b)
      BY <1>1, <1>2, LineWithin
    <3> QED BY <1>1, <3>1, SizeAssumption DEF Sound, Buffer, Used, Holds
  <2> HIDE DEF n, at
  <2> DEFINE data == [b.data EXCEPT ![at] = 0]
  <2>2. data \in [Positions -> Nat] /\ \A i \in Positions : i # at => data[i] = b.data[i]
    BY <2>1
  <2>3. ended = [data |-> data, read |-> b.read, write |-> b.write]
    BY <1>1 DEF Sound, Buffer
  <2> HIDE DEF data, ended
  <2>4. new = [data |-> data, read |-> b.read + n, write |-> b.write]
    BY <2>3 DEF Consumed
  <2> HIDE DEF new
  <2>5. Sound(new) /\ Used(new) = arrived - (taken + n)
    BY <2>1, <2>2, <2>4 DEF Sound, Buffer, Used
  <2>6. \A i \in 0 .. Used(new) - 1 : new.data[new.read + i] = taken + n + i + 1
    <3> TAKE i \in 0 .. Used(new) - 1
    <3>1. n + i \in 0 .. Used(b) - 1 /\ new.read + i = b.read + (n + i)
          /\ b.read + (n + i) \in Positions /\ b.read + (n + i) # at
      <4>1. /\ i \in Int /\ i >= 0 /\ i < arrived - (taken + n)
            /\ n \in Int /\ n >= 1 /\ b.read \in Int /\ b.read >= 0
            /\ b.write \in Int /\ b.write <= Size
        BY <2>1, <2>5
      <4>2. new.read = b.read + n
        BY <2>4
      <4>3. /\ Used(b) = arrived - taken /\ Used(b) = b.write - b.read
            /\ taken \in Int /\ arrived \in Int /\ Size \in Int /\ at = b.read + n - 1
        BY <2>1
      <4>4. n + i \in 0 .. Used(b) - 1
        BY <4>1, <4>3
      <4>5. new.read + i = b.read + (n + i)
        BY <4>1, <4>2
      <4>6. b.read + (n + i) \in Positions
        BY <4>1, <4>3 DEF Positions
      <4>7. b.read + (n + i) # at
        BY <4>1, <4>3
      <4> QED BY <4>4, <4>5, <4>6, <4>7
    <3>2. new.data[new.read + i] = b.data[b.read + (n + i)]
      BY <2>2, <2>4, <3>1
    <3>3. b.data[b.read + (n + i)] = taken + (n + i) + 1
      BY <1>1, <3>1 DEF Holds
    <3> QED BY <1>1, <2>1, <3>1, <3>2, <3>3
  <2>7. Holds(new, taken + n, arrived) /\ taken + n \in Nat
    BY <1>1, <2>1, <2>5, <2>6 DEF Holds
  <2>8. Good([async EXCEPT !.input = new], delivered, accepted, taken + n, arrived)
    BY <1>1, <2>5, <2>7, NewInput
  <2>9. Lined(async) = [async EXCEPT !.input = new]
    BY <1>2, Zenon DEF Lined, new, ended, data, n, at
  <2>10. taken + Least(LineEnds(b)) + 1 = taken + n
    BY <1>1, <2>1
  <2> QED BY <1>2, <2>8, <2>9, <2>10
<1>3. CASE LineEnds(b) = {} /\ TooLarge(b)
  <2>1. Lined(async) = Fails(async, "MALFORMED")
    BY <1>3, Zenon DEF Lined
  <2>2. Good(Fails(async, "MALFORMED"), delivered, accepted, taken, arrived)
    BY <1>1, FailsKeeps DEF AsyncErrors
  <2> QED BY <1>3, <2>1, <2>2
<1>4. CASE LineEnds(b) = {} /\ ~TooLarge(b)
  <2>1. Lined(async) = async
    BY <1>4, Zenon DEF Lined
  <2> QED BY <1>1, <1>4, <2>1
<1> QED BY <1>2, <1>3, <1>4

(***************************************************************************)
(* The invariant                                                           *)
(***************************************************************************)
LEMMA AsyncStarts == AsyncInit => AsyncInv
<1> SUFFICES ASSUME AsyncInit PROVE AsyncInv
  OBVIOUS
<1>1. [i \in Positions |-> 0] \in [Positions -> Nat]
  OBVIOUS
<1>2. EmptyBuffer \in Buffer /\ EmptyBuffer.read = 0 /\ EmptyBuffer.write = 0
  BY <1>1, SizeAssumption DEF EmptyBuffer, Buffer
<1>3. Holds(EmptyBuffer, 0, 0)
  BY <1>2 DEF Holds, Used
<1> HIDE DEF EmptyBuffer
<1> QED BY <1>2, <1>3 DEF AsyncInit, AsyncInv, Good, AsyncObject, AsyncErrors

LEMMA AsyncKeeps == AsyncInv /\ [AsyncNext]_asyncVars => AsyncInv'
<1> SUFFICES ASSUME AsyncInv, [AsyncNext]_asyncVars PROVE AsyncInv'
  OBVIOUS
<1>1. ASSUME NEW events \in SUBSET EventNames, Io(events) PROVE AsyncInv'
  <2>1. PICK o \in IOs(async, events) :
          /\ async' = o.async /\ arrived' = arrived + o.in /\ delivered' = delivered + o.out
          /\ accepted' = accepted /\ taken' = taken
    BY <1>1 DEF Io
  <2>2. Good(o.async, delivered + o.out, accepted, taken, arrived + o.in)
    BY IOsKeep
  <2> QED BY <2>1, <2>2 DEF AsyncInv
<1>2. ASSUME NEW r \in Requests, MayEnqueue(r), Send(r) PROVE AsyncInv'
  BY <1>2, SendKeeps, Zenon DEF Send, AsyncInv
<1>3. CASE RecvLine
  BY <1>3, LineKeeps, Zenon DEF RecvLine, AsyncInv
<1>4. ASSUME NEW n \in RawSizes, RecvRaw(n) PROVE AsyncInv'
  <2>1. /\ Sound(async.input) /\ Holds(async.input, taken, arrived)
        /\ taken \in Nat /\ arrived \in Nat
        /\ Good(async, delivered, accepted, taken, arrived)
    BY GoodIsSound DEF AsyncInv, Good
  <2>2. RawLength(n) \in 0 .. Used(async.input) /\ taken + RawLength(n) \in Nat
    <3>1. n \in Int /\ n > 0 /\ Used(async.input) \in Int /\ Used(async.input) >= 0
      BY <2>1, UsedAndRoom, AsyncAssumption
    <3>2. Least({n, Used(async.input)}) \in {n, Used(async.input)}
          /\ Least({n, Used(async.input)}) <= Used(async.input)
      BY <3>1, LeastOfTwo
    <3> QED BY <2>1, <3>1, <3>2 DEF RawLength
  <2>3. Sound(Consumed(async.input, RawLength(n)))
        /\ Holds(Consumed(async.input, RawLength(n)), taken + RawLength(n), arrived)
    BY <2>1, <2>2, Consumes
  <2>4. Good([async EXCEPT !.input = Consumed(async.input, RawLength(n))],
             delivered, accepted, taken + RawLength(n), arrived)
    BY <2>1, <2>2, <2>3, NewInput
  <2> QED BY <1>4, <2>4, Zenon DEF RecvRaw, AsyncInv
<1>5. CASE Refuse
  <2>1. Good(Fails(async, "ARGUMENT"), delivered, accepted, taken, arrived)
    BY FailsKeeps DEF AsyncInv, AsyncErrors
  <2> QED BY <1>5, <2>1 DEF Refuse, counters, AsyncInv
<1>6. CASE UNCHANGED asyncVars
  BY <1>6 DEF asyncVars, AsyncInv, Good
<1> QED BY <1>1, <1>2, <1>3, <1>4, <1>5, <1>6 DEF AsyncNext

THEOREM AsyncInvariant == AsyncSpec => []AsyncInv
BY AsyncStarts, AsyncKeeps, PTL DEF AsyncSpec

\* Whatever is called in whatever order, the object keeps its shape: both
\* buffers' indices stay in bounds and in order.
THEOREM AsyncTypeCorrect == AsyncSpec => []AsyncTypeOK
<1>1. AsyncInv => AsyncTypeOK
  BY DEF AsyncInv, Good, AsyncTypeOK
<1> QED BY <1>1, AsyncInvariant, PTL

\* What is in the output buffer is, byte for byte, the tail of the accepted
\* requests that the server has not got yet.
THEOREM RequestsStayIntact == AsyncSpec => []RequestsIntact
<1>1. AsyncInv => RequestsIntact
  BY DEF AsyncInv, Good, RequestsIntact
<1> QED BY <1>1, AsyncInvariant, PTL

\* What is in the input buffer is, byte for byte, what the server has sent and
\* the user has not taken.
THEOREM ResponsesStayIntact == AsyncSpec => []ResponsesIntact
<1>1. AsyncInv => ResponsesIntact
  BY DEF AsyncInv, Good, ResponsesIntact
<1> QED BY <1>1, AsyncInvariant, PTL

(***************************************************************************)
(* The refinement.  The invariant says what the contents of both buffers   *)
(* are, so that a step of the queues can be read off the four counters.    *)
(***************************************************************************)
LEMMA ContentsAreBytes ==
    ASSUME NEW b, Sound(b), NEW from \in Nat, NEW to \in Nat, Holds(b, from, to)
    PROVE  Contents(b) = Bytes(from, to - from) /\ to - from \in 0 .. Size
<1>1. Used(b) = to - from /\ to - from \in 0 .. Size
  BY UsedAndRoom DEF Holds
<1>2. \A i \in 1 .. to - from : b.data[b.read + i - 1] = from + i
  <2> TAKE i \in 1 .. to - from
  <2>1. i - 1 \in 0 .. Used(b) - 1 /\ b.read \in Int /\ i \in Int
    BY <1>1 DEF Sound, Buffer
  <2>2. b.data[b.read + (i - 1)] = from + (i - 1) + 1
    BY <2>1 DEF Holds
  <2>3. b.read + (i - 1) = b.read + i - 1 /\ from + (i - 1) + 1 = from + i
    BY <2>1
  <2> QED BY <2>2, <2>3
<1>3. Contents(b) = [i \in 1 .. to - from |-> b.data[b.read + i - 1]]
  BY <1>1 DEF Contents
<1> QED BY <1>1, <1>2, <1>3 DEF Bytes

LEMMA ContentsOf ==
    ASSUME NEW a, NEW d, NEW c, NEW t, NEW r, Good(a, d, c, t, r)
    PROVE  /\ Contents(a.output) = Bytes(d, c - d) /\ c - d \in 0 .. Size
           /\ Contents(a.input) = Bytes(t, r - t) /\ r - t \in 0 .. Size
           /\ d \in Nat /\ c \in Nat /\ t \in Nat /\ r \in Nat
BY GoodIsSound, ContentsAreBytes DEF Good

\* A queue whose end goes up extends the old one; one whose beginning goes up
\* is an end of the old one.
LEMMA LaterEnd ==
    ASSUME NEW from \in Nat, NEW n \in Nat, NEW m \in Nat, n <= m
    PROVE  Queues!Extends(Bytes(from, m), Bytes(from, n))
<1>1. Len(Bytes(from, m)) = m /\ Len(Bytes(from, n)) = n
  BY DEF Bytes
<1>2. \A i \in 1 .. n : Bytes(from, m)[i] = Bytes(from, n)[i]
  BY DEF Bytes
<1> QED BY <1>1, <1>2 DEF Queues!Extends

LEMMA LaterBeginning ==
    ASSUME NEW from \in Nat, NEW n \in Nat, NEW k \in 0 .. n
    PROVE  Queues!EndsWith(Bytes(from, n), Bytes(from + k, n - k))
<1>1. Len(Bytes(from, n)) = n /\ Len(Bytes(from + k, n - k)) = n - k
  BY DEF Bytes
<1>2. \A i \in 1 .. n - k : Bytes(from + k, n - k)[i] = Bytes(from, n)[n - (n - k) + i]
  <2> TAKE i \in 1 .. n - k
  <2>1. Bytes(from + k, n - k)[i] = from + k + i
    BY DEF Bytes
  <2>2. n - (n - k) + i \in 1 .. n /\ n - (n - k) + i = k + i
    OBVIOUS
  <2>3. Bytes(from, n)[k + i] = from + (k + i)
    BY <2>2 DEF Bytes
  <2> QED BY <2>1, <2>2, <2>3
<1> QED BY <1>1, <1>2 DEF Queues!EndsWith

LEMMA QueuesGrow ==
    ASSUME NEW f \in Nat, NEW g \in Nat, NEW f2 \in Nat, NEW g2 \in Nat,
           g - f \in 0 .. Size, g2 - f2 \in 0 .. Size
    PROVE  /\ Len(Bytes(f, g - f)) <= Size
           /\ f2 = f /\ g2 >= g => Queues!Extends(Bytes(f2, g2 - f2), Bytes(f, g - f))
           /\ g2 = g /\ f2 >= f => Queues!EndsWith(Bytes(f, g - f), Bytes(f2, g2 - f2))
<1>1. Len(Bytes(f, g - f)) = g - f
  BY DEF Bytes
<1>2. ASSUME f2 = f, g2 >= g
      PROVE  Queues!Extends(Bytes(f2, g2 - f2), Bytes(f, g - f))
  BY <1>2, LaterEnd
<1>3. ASSUME g2 = g, f2 >= f
      PROVE  Queues!EndsWith(Bytes(f, g - f), Bytes(f2, g2 - f2))
  <2> DEFINE k == f2 - f
             n == g - f
  <2>1. n \in Nat /\ k \in 0 .. n /\ f + k = f2 /\ n - k = g2 - f2
    BY <1>3
  <2> HIDE DEF k, n
  <2>2. Queues!EndsWith(Bytes(f, n), Bytes(f + k, n - k))
    BY <2>1, LaterBeginning
  <2> QED BY <2>1, <2>2 DEF n
<1>4. g - f <= Size
  BY SizeAssumption
<1> QED BY <1>1, <1>2, <1>3, <1>4

LEMMA EnqueuedKeepsError ==
    ASSUME AsyncInv, NEW r
    PROVE  Enqueued(async, r).error = async.error
BY DEF Enqueued, AsyncInv, Good, AsyncObject

LEMMA ConsumingKeepsError ==
    ASSUME AsyncInv, NEW b
    PROVE  [async EXCEPT !.input = b].error = async.error
BY DEF AsyncInv, Good, AsyncObject

LEMMA FailsFails ==
    ASSUME AsyncInv, NEW e \in AsyncErrors \ {"SUCCESS"}
    PROVE  Failed(Fails(async, e))
BY DEF Fails, Failed, AsyncInv, Good, AsyncObject

(* What a step does, in terms of the counters and of whether there is an   *)
(* error.                                                                  *)
IoCounts ==
    /\ ~Failed(async) /\ arrived' >= arrived /\ delivered' >= delivered
    /\ UNCHANGED <<accepted, taken>>
SendCounts ==
    /\ ~Failed(async) /\ ~Failed(async') /\ accepted' >= accepted
    /\ UNCHANGED <<delivered, arrived, taken>>
TakeCounts ==
    /\ Failed(async') = Failed(async) /\ taken' >= taken
    /\ UNCHANGED <<accepted, delivered, arrived>>
FailCounts == ~Failed(async) /\ Failed(async') /\ UNCHANGED counters
IdleCounts == Failed(async') = Failed(async) /\ UNCHANGED counters

LEMMA StepCounts ==
    ASSUME AsyncInv, AsyncNext
    PROVE  IoCounts \/ SendCounts \/ TakeCounts \/ FailCounts \/ IdleCounts
<1>0. delivered \in Nat /\ accepted \in Nat /\ taken \in Nat /\ arrived \in Nat
  BY DEF AsyncInv, Good
<1>1. ASSUME NEW events \in SUBSET EventNames, Io(events) PROVE IoCounts \/ IdleCounts
  <2>1. PICK o \in IOs(async, events) :
          /\ async' = o.async /\ arrived' = arrived + o.in /\ delivered' = delivered + o.out
          /\ accepted' = accepted /\ taken' = taken
    BY <1>1 DEF Io
  <2>2. o.in \in Nat /\ o.out \in Nat
    BY IOsKeep
  <2>3. CASE Failed(async)
    <3>1. o = Outcome(async, 0, 0)
      BY <2>3, Zenon DEF IOs
    <3>2. o.async = async /\ o.in = 0 /\ o.out = 0
      BY <3>1 DEF Outcome
    <3> QED BY <1>0, <2>1, <3>2 DEF IdleCounts, counters
  <2>4. CASE ~Failed(async)
    BY <1>0, <2>1, <2>2, <2>4 DEF IoCounts
  <2> QED BY <2>3, <2>4
<1>2. ASSUME NEW r \in Requests, Send(r) PROVE SendCounts \/ IdleCounts
  <2>1. /\ async' = Enqueued(async, r)
        /\ accepted' = IF Accepts(async, r) THEN accepted + r.total ELSE accepted
        /\ delivered' = delivered /\ arrived' = arrived /\ taken' = taken
    BY <1>2 DEF Send
  <2>2. Failed(async') = Failed(async)
    BY <2>1, EnqueuedKeepsError DEF Failed
  <2>3. CASE Accepts(async, r)
    <3>1. ~Failed(async) /\ r.total \in Nat
      BY <2>3, AsyncAssumption DEF Accepts, Request
    <3> QED BY <1>0, <2>1, <2>2, <2>3, <3>1 DEF SendCounts
  <2>4. CASE ~Accepts(async, r)
    BY <2>1, <2>2, <2>4 DEF IdleCounts, counters
  <2> QED BY <2>3, <2>4
<1>3. CASE RecvLine
  <2> DEFINE b == async.input
  <2>1. /\ async' = Lined(async)
        /\ taken' = IF LineEnds(b) # {} THEN taken + Least(LineEnds(b)) + 1 ELSE taken
        /\ accepted' = accepted /\ delivered' = delivered /\ arrived' = arrived
    BY <1>3 DEF RecvLine
  <2>2. CASE LineEnds(b) # {}
    <3>1. Failed(async') = Failed(async)
      <4>1. \E c : async' = [async EXCEPT !.input = c]
        BY <2>1, <2>2, Zenon DEF Lined
      <4> QED BY <4>1, ConsumingKeepsError DEF Failed
    <3>2. Least(LineEnds(b)) \in Nat
      BY <2>2, LineWithin, GoodIsSound DEF AsyncInv
    <3> QED BY <1>0, <2>1, <2>2, <3>1, <3>2 DEF TakeCounts
  <2>3. CASE LineEnds(b) = {}
    <3>1. async' = async \/ async' = Fails(async, "MALFORMED")
      BY <2>1, <2>3, Zenon DEF Lined
    <3>2. async' = async \/ Failed(async')
      BY <3>1, FailsFails DEF AsyncErrors
    <3>3. UNCHANGED counters
      BY <2>1, <2>3 DEF counters
    <3>4. Failed(async) \in BOOLEAN /\ Failed(async') \in BOOLEAN
      BY DEF Failed
    <3> QED BY <3>2, <3>3, <3>4 DEF FailCounts, IdleCounts
  <2> QED BY <2>2, <2>3
<1>4. ASSUME NEW n \in RawSizes, RecvRaw(n) PROVE TakeCounts
  <2>1. Failed(async') = Failed(async)
    <3>1. async' = [async EXCEPT !.input = Consumed(async.input, RawLength(n))]
      BY <1>4, Zenon DEF RecvRaw
    <3> QED BY <3>1, ConsumingKeepsError DEF Failed
  <2>2. RawLength(n) \in Nat
    <3>1. n \in Nat /\ Used(async.input) \in Nat
      BY GoodIsSound, UsedAndRoom, AsyncAssumption DEF AsyncInv
    <3>2. Least({n, Used(async.input)}) \in {n, Used(async.input)}
      <4>1. n \in Int /\ Used(async.input) \in Int
        BY <3>1
      <4> QED BY <4>1, LeastOfTwo
    <3> QED BY <3>1, <3>2 DEF RawLength
  <2> QED BY <1>0, <1>4, <2>1, <2>2 DEF TakeCounts, RecvRaw
<1>5. CASE Refuse
  <2>1. async' = async \/ (~Failed(async) /\ Failed(async'))
    BY <1>5, FailsFails DEF Refuse, AsyncErrors
  <2>2. UNCHANGED counters
    BY <1>5 DEF Refuse
  <2> QED BY <2>1, <2>2 DEF FailCounts, IdleCounts
<1> QED BY <1>1, <1>2, <1>3, <1>4, <1>5 DEF AsyncNext

LEMMA StepIsQueueStep ==
    ASSUME AsyncInv, AsyncInv', [AsyncNext]_asyncVars
    PROVE  [Queues!Next]_<<Contents(async.output), Contents(async.input), Failed(async)>>
<1> DEFINE out == Contents(async.output)
           in == Contents(async.input)
           fail == Failed(async)
<1>1. /\ out = Bytes(delivered, accepted - delivered) /\ accepted - delivered \in 0 .. Size
      /\ in = Bytes(taken, arrived - taken) /\ arrived - taken \in 0 .. Size
      /\ delivered \in Nat /\ accepted \in Nat /\ taken \in Nat /\ arrived \in Nat
  BY ContentsOf DEF AsyncInv
<1>2. /\ out' = Bytes(delivered', accepted' - delivered') /\ accepted' - delivered' \in 0 .. Size
      /\ in' = Bytes(taken', arrived' - taken') /\ arrived' - taken' \in 0 .. Size
      /\ delivered' \in Nat /\ accepted' \in Nat /\ taken' \in Nat /\ arrived' \in Nat
  <2>1. Good(async', delivered', accepted', taken', arrived')
    BY DEF AsyncInv
  <2> QED BY <2>1, ContentsOf
<1>3. fail \in BOOLEAN /\ fail' \in BOOLEAN
  BY DEF Failed
<1>4. Len(out') <= Size /\ Len(in') <= Size
  <2>1. Len(Bytes(delivered', accepted' - delivered')) <= Size
        /\ Len(Bytes(taken', arrived' - taken')) <= Size
    BY <1>2, QueuesGrow
  <2> QED BY <1>2, <2>1
<1> HIDE DEF out, in, fail
<1>5. ASSUME accepted' = accepted, delivered' = delivered PROVE out' = out
  BY <1>1, <1>2, <1>5
<1>6. ASSUME taken' = taken, arrived' = arrived PROVE in' = in
  BY <1>1, <1>2, <1>6
<1>7. ASSUME delivered' = delivered, accepted' >= accepted PROVE Queues!Extends(out', out)
  <2>1. Queues!Extends(Bytes(delivered', accepted' - delivered'),
                       Bytes(delivered, accepted - delivered))
    BY <1>1, <1>2, <1>7, QueuesGrow
  <2> QED BY <1>1, <1>2, <2>1
<1>8. ASSUME taken' = taken, arrived' >= arrived PROVE Queues!Extends(in', in)
  <2>1. Queues!Extends(Bytes(taken', arrived' - taken'), Bytes(taken, arrived - taken))
    BY <1>1, <1>2, <1>8, QueuesGrow
  <2> QED BY <1>1, <1>2, <2>1
<1>9. ASSUME accepted' = accepted, delivered' >= delivered PROVE Queues!EndsWith(out, out')
  <2>1. Queues!EndsWith(Bytes(delivered, accepted - delivered),
                        Bytes(delivered', accepted' - delivered'))
    BY <1>1, <1>2, <1>9, QueuesGrow
  <2> QED BY <1>1, <1>2, <2>1
<1>10. ASSUME arrived' = arrived, taken' >= taken PROVE Queues!EndsWith(in, in')
  <2>1. Queues!EndsWith(Bytes(taken, arrived - taken), Bytes(taken', arrived' - taken'))
    BY <1>1, <1>2, <1>10, QueuesGrow
  <2> QED BY <1>1, <1>2, <2>1
<1>11. CASE IoCounts
  <2>1. Queues!Extends(in', in) /\ Len(in') <= Size /\ Queues!EndsWith(out, out') /\ ~fail
    BY <1>4, <1>8, <1>9, <1>11 DEF IoCounts, fail
  <2>2. Queues!Transfer
    BY <1>3, <2>1 DEF Queues!Transfer, out, in, fail
  <2> QED BY <2>2 DEF Queues!Next
<1>12. CASE SendCounts
  <2>1. Queues!Extends(out', out) /\ Len(out') <= Size /\ in' = in /\ ~fail /\ ~fail'
    BY <1>4, <1>6, <1>7, <1>12 DEF SendCounts, fail
  <2>2. Queues!Accept
    BY <1>3, <2>1 DEF Queues!Accept, out, in, fail
  <2> QED BY <2>2 DEF Queues!Next
<1>13. CASE TakeCounts
  <2>1. Queues!EndsWith(in, in') /\ out' = out /\ fail' = fail
    BY <1>5, <1>10, <1>13 DEF TakeCounts, fail
  <2>2. Queues!Take
    BY <2>1 DEF Queues!Take, out, in, fail
  <2> QED BY <2>2 DEF Queues!Next
<1>14. CASE FailCounts
  <2>1. ~fail /\ fail' /\ out' = out /\ in' = in
    BY <1>5, <1>6, <1>14 DEF FailCounts, counters, fail
  <2>2. Queues!Fail
    BY <2>1 DEF Queues!Fail, out, in, fail
  <2> QED BY <2>2 DEF Queues!Next
<1>15. CASE IdleCounts
  <2>1. fail' = fail /\ out' = out /\ in' = in
    BY <1>5, <1>6, <1>15 DEF IdleCounts, counters, fail
  <2> QED BY <2>1 DEF out, in, fail
<1>16. CASE UNCHANGED asyncVars
  BY <1>16 DEF asyncVars, Contents, Failed
<1> QED BY <1>11, <1>12, <1>13, <1>14, <1>15, <1>16, StepCounts

LEMMA StartIsQueueStart == AsyncInit => Queues!Init
<1> SUFFICES ASSUME AsyncInit PROVE Queues!Init
  OBVIOUS
<1>1. async.output = EmptyBuffer /\ async.input = EmptyBuffer /\ async.error = "SUCCESS"
  BY DEF AsyncInit
<1>2. Used(EmptyBuffer) = 0
  BY DEF Used, EmptyBuffer
<1>3. Contents(EmptyBuffer) = <<>>
  BY <1>2 DEF Contents
<1> QED BY <1>1, <1>3 DEF Queues!Init, Failed

\* The async object implements the pair of queues: bytes are neither lost,
\* repeated nor reordered, and none comes or goes after a failure.
THEOREM AsyncImplementsQueues == AsyncSpec => BehavesAsQueues
<1>1. AsyncInit => Queues!Init
  BY StartIsQueueStart
<1>2. AsyncInv /\ AsyncInv' /\ [AsyncNext]_asyncVars =>
        [Queues!Next]_<<Contents(async.output), Contents(async.input), Failed(async)>>
  BY StepIsQueueStep
<1> QED BY <1>1, <1>2, AsyncInvariant, PTL DEF AsyncSpec, Queues!Spec, BehavesAsQueues

(***************************************************************************)
(* Errors                                                                  *)
(***************************************************************************)
LEMMA FailsSets ==
    ASSUME NEW a \in AsyncObject, NEW e
    PROVE  Fails(a, e).error = e
BY DEF Fails, AsyncObject

LEMMA WriteErrors ==
    ASSUME NEW a \in AsyncObject, NEW in, NEW o \in Writes(a, in)
    PROVE  o.async.error \in {a.error, "SYSTEM"}
<1>1. CASE Used(a.output) = 0
  <2>1. o = Outcome(a, in, 0)
    BY <1>1 DEF Writes
  <2> QED BY <2>1 DEF Outcome
<1>2. CASE Used(a.output) # 0
  <2>1. \/ \E n \in 0 .. Used(a.output) :
             o = Outcome([a EXCEPT !.output = Consumed(a.output, n)], in, n)
        \/ o = Outcome(Fails(a, "SYSTEM"), in, 0)
    BY <1>2, Zenon DEF Writes
  <2>2. ASSUME NEW n \in 0 .. Used(a.output),
               o = Outcome([a EXCEPT !.output = Consumed(a.output, n)], in, n)
        PROVE  o.async.error = a.error
    BY <2>2 DEF Outcome, AsyncObject
  <2>3. CASE o = Outcome(Fails(a, "SYSTEM"), in, 0)
    BY <2>3, FailsSets DEF Outcome
  <2> QED BY <2>1, <2>2, <2>3
<1> QED BY <1>1, <1>2

\* I/O sets no error but SYSTEM and CLOSED.
LEMMA IOErrors ==
    ASSUME AsyncInv, NEW events, NEW o \in IOs(async, events)
    PROVE  o.async.error \in {async.error, "SYSTEM", "CLOSED"}
<1> DEFINE Fine(a) == a.error \in {async.error, "SYSTEM", "CLOSED"}
           read == IF "READ" \in events THEN Reads(async) ELSE {Outcome(async, 0, 0)}
<1>1. async \in AsyncObject
  BY DEF AsyncInv, Good
<1>2. Fine(Fails(async, "CLOSED"))
  BY <1>1, FailsSets
<1>3. ASSUME NEW p \in Reads(async) PROVE Fine(p.async) /\ p.async \in AsyncObject
  <2>1. p.async \in AsyncObject
    BY ReadsKeep DEF AsyncInv, Good
  <2> DEFINE m == [async EXCEPT !.input = Moved(async.input)]
  <2>2. m.error = async.error /\ m \in AsyncObject
    BY <1>1, GoodIsSound, MovedKeeps DEF AsyncObject, AsyncInv, Sound
  <2>3. \/ p = Outcome(async, 0, 0)
        \/ \E b, n : p = Outcome([m EXCEPT !.input = b], n, 0)
        \/ \E e \in {"SYSTEM", "CLOSED"} : p = Outcome(Fails(m, e), 0, 0)
    <3>1. CASE Room(async.input) = 0
      BY <3>1 DEF Reads
    <3>2. CASE Room(async.input) # 0
      <4>1. \/ \E n \in 0 .. Least({Room(m.input), MaxArrived - arrived}) :
                  p = Outcome([m EXCEPT !.input = Expanded(Put(m.input, Bytes(arrived, n)), n)],
                              n, 0)
            \/ \E e \in {"SYSTEM", "CLOSED"} : p = Outcome(Fails(m, e), 0, 0)
        BY <3>2, Zenon DEF Reads
      <4> QED BY <4>1, Zenon
    <3> QED BY <3>1, <3>2
  <2> HIDE DEF m
  <2>4. CASE p = Outcome(async, 0, 0)
    BY <2>1, <2>4 DEF Outcome
  <2>5. CASE \E b, n : p = Outcome([m EXCEPT !.input = b], n, 0)
    <3>1. PICK b, n : p = Outcome([m EXCEPT !.input = b], n, 0)
      BY <2>5
    <3>2. p.async = [m EXCEPT !.input = b]
      BY <3>1 DEF Outcome
    <3>3. [m EXCEPT !.input = b].error = m.error
      BY <2>2 DEF AsyncObject
    <3> QED BY <2>1, <2>2, <3>2, <3>3
  <2>6. CASE \E e \in {"SYSTEM", "CLOSED"} : p = Outcome(Fails(m, e), 0, 0)
    <3>1. PICK e \in {"SYSTEM", "CLOSED"} : p = Outcome(Fails(m, e), 0, 0)
      BY <2>6
    <3>2. p.async.error = e
      BY <2>2, <3>1, FailsSets DEF Outcome
    <3> QED BY <2>1, <3>2
  <2> QED BY <2>3, <2>4, <2>5, <2>6
<1>4. \A p \in read : Fine(p.async) /\ p.async \in AsyncObject
  <2> TAKE p \in read
  <2>1. CASE p \in Reads(async)
    BY <1>3, <2>1
  <2>2. CASE p = Outcome(async, 0, 0)
    BY <1>1, <2>2 DEF Outcome
  <2> QED BY <2>1, <2>2
<1>5. ASSUME NEW p \in read, NEW q \in Writes(p.async, p.in) PROVE Fine(q.async)
  <2> DEFINE a == p.async
  <2>1. Fine(a) /\ a \in AsyncObject
    BY <1>4
  <2>2. q.async.error \in {a.error, "SYSTEM"}
    BY <2>1, WriteErrors
  <2> QED BY <2>1, <2>2
<1>6. \/ o = Outcome(async, 0, 0)
      \/ o = Outcome(Fails(async, "CLOSED"), 0, 0)
      \/ o \in read
      \/ \E p \in read : o \in Writes(p.async, p.in)
  BY Zenon DEF IOs
<1> HIDE DEF read
<1>7. CASE o = Outcome(async, 0, 0)
  BY <1>7 DEF Outcome
<1>8. CASE o = Outcome(Fails(async, "CLOSED"), 0, 0)
  BY <1>2, <1>8 DEF Outcome
<1> QED BY <1>4, <1>5, <1>6, <1>7, <1>8

\* A line is called too large only when a whole buffer of it has come and no
\* newline is among those bytes: no line that fits is ever refused.
THEOREM OnlyTooLargeIsTooLarge == AsyncSpec => TooLargeIsTooLarge
<1>1. ASSUME AsyncInv, [AsyncNext]_asyncVars
      PROVE  [async.error # "MALFORMED" /\ async'.error = "MALFORMED" =>
                /\ arrived - taken = Size
                /\ \A i \in 1 .. Size : taken + i \notin Newlines]_asyncVars
  <2>1. ASSUME async.error # "MALFORMED", async'.error = "MALFORMED"
        PROVE  arrived - taken = Size /\ \A i \in 1 .. Size : taken + i \notin Newlines
    <3>0. async \in AsyncObject
      BY <1>1 DEF AsyncInv, Good
    <3>1. ASSUME NEW events, Io(events) PROVE FALSE
      <4>1. PICK o \in IOs(async, events) : async' = o.async
        BY <3>1 DEF Io
      <4> QED BY <1>1, <2>1, <4>1, IOErrors
    <3>2. ASSUME NEW r, Send(r) PROVE FALSE
      BY <1>1, <2>1, <3>2, EnqueuedKeepsError DEF Send
    <3>3. ASSUME NEW n, RecvRaw(n) PROVE FALSE
      <4>1. \E b : async' = [async EXCEPT !.input = b]
        BY <3>3, Zenon DEF RecvRaw
      <4> QED BY <1>1, <2>1, <4>1, ConsumingKeepsError
    <3>4. ASSUME Refuse PROVE FALSE
      BY <2>1, <3>0, <3>4, FailsSets DEF Refuse
    <3>5. RecvLine
      BY <1>1, <2>1, <3>1, <3>2, <3>3, <3>4 DEF AsyncNext, asyncVars
    <3>6. LineEnds(async.input) = {} /\ TooLarge(async.input)
      <4>1. \/ LineEnds(async.input) = {} /\ TooLarge(async.input)
            \/ async' = async
            \/ \E b : async' = [async EXCEPT !.input = b]
        BY <3>5, Zenon DEF RecvLine, Lined
      <4> QED BY <1>1, <2>1, <4>1, ConsumingKeepsError
    <3>7. /\ Sound(async.input) /\ Holds(async.input, taken, arrived)
          /\ taken \in Nat /\ arrived \in Nat
      BY <1>1, GoodIsSound DEF AsyncInv, Good
    <3>8. Used(async.input) = Size /\ arrived - taken = Size /\ Size \in Nat
      BY <3>6, <3>7, UsedAndRoom, SizeAssumption DEF TooLarge, Holds
    <3>9. ASSUME NEW i \in 1 .. Size PROVE taken + i \notin Newlines
      <4>1. i - 1 \in 0 .. Used(async.input) - 1
        BY <3>8
      <4>2. async.input.data[async.input.read + (i - 1)] \notin Newlines
        BY <3>6, <4>1 DEF LineEnds
      <4>3. async.input.data[async.input.read + (i - 1)] = taken + (i - 1) + 1
        BY <3>7, <4>1 DEF Holds
      <4> QED BY <3>7, <4>2, <4>3
    <3> QED BY <3>8, <3>9
  <2> QED BY <2>1
<1> QED BY <1>1, AsyncInvariant, PTL DEF AsyncSpec, TooLargeIsTooLarge


(***************************************************************************)
(* What the caller's arguments are.  This needs nothing about the buffers, *)
(* and is enough for each step to be a step of the async object.           *)
(***************************************************************************)
Arguments ==
    /\ call \in {"none", "send", "flush", "line", "raw"}
    /\ step \in {"first", "try", "check", "wait"}
    /\ argument \in Request
    /\ result \in {"none", "true", "false"}
    /\ call = "send" => argument \in Requests /\ MayEnqueue(argument)
    /\ call = "raw" => argument.total \in RawSizes

LEMMA NoRequestIsRequest == NoRequest \in Request
BY DEF NoRequest, Request

\* Returning, or moving on within a call that has sent nothing, is harmless.
LEMMA ReturnKeepsArguments ==
    ASSUME Arguments, NEW r \in {"none", "true", "false"}, Return(r)
    PROVE  Arguments'
BY NoRequestIsRequest DEF Arguments, Return

LEMMA GotoKeepsArguments ==
    ASSUME Arguments, NEW s \in {"first", "try", "check", "wait"}, Goto(s),
           accepted' = accepted
    PROVE  Arguments'
BY DEF Arguments, Goto, MayEnqueue

LEMMA ArgumentsStart == Init => Arguments
BY NoRequestIsRequest DEF Init, Arguments

LEMMA ArgumentsKept == Arguments /\ [Next]_vars => Arguments'
<1> SUFFICES ASSUME Arguments, [Next]_vars PROVE Arguments'
  OBVIOUS
<1>1. CASE CallSend
  BY <1>1, AsyncAssumption DEF CallSend, Call, Arguments, asyncVars, MayEnqueue
<1>2. CASE CallFlush
  BY <1>2, NoRequestIsRequest DEF CallFlush, Call, Arguments
<1>3. CASE CallLine
  BY <1>3, NoRequestIsRequest DEF CallLine, Call, Arguments
<1>4. CASE CallRaw
  <2>1. PICK n \in RawSizes : Call("raw", [NoRequest EXCEPT !.total = n], "try")
    BY <1>4 DEF CallRaw
  <2>2. [NoRequest EXCEPT !.total = n] = [command |-> 0, total |-> n] /\ n \in Nat
    BY AsyncAssumption DEF NoRequest
  <2> QED BY <2>1, <2>2 DEF Call, Arguments, Request
<1>5. CASE TrySend
  <2>1. CASE Accepts(async, argument)
    <3>1. Return("true")
      BY <1>5, <2>1 DEF TrySend
    <3> QED BY <3>1, ReturnKeepsArguments
  <2>2. CASE ~Accepts(async, argument)
    <3>1. Goto("check") /\ accepted' = accepted
      BY <1>5, <2>2 DEF TrySend, Send
    <3> QED BY <3>1, GotoKeepsArguments
  <2> QED BY <2>1, <2>2
<1>6. CASE CheckRoom
  <2>1. Return("false") \/ (Goto("wait") /\ accepted' = accepted)
    BY <1>6 DEF CheckRoom, asyncVars
  <2> QED BY <2>1, ReturnKeepsArguments, GotoKeepsArguments
<1>7. CASE FlushFirst
  <2>1. Return("false") \/ (Goto("try") /\ accepted' = accepted)
    BY <1>7 DEF FlushFirst, Io
  <2> QED BY <2>1, ReturnKeepsArguments, GotoKeepsArguments
<1>8. CASE TryFlush
  <2>1. Return("true") \/ (Goto("wait") /\ accepted' = accepted)
    BY <1>8 DEF TryFlush
  <2> QED BY <2>1, ReturnKeepsArguments, GotoKeepsArguments
<1>9. CASE TryLine
  <2>1. Return("true") \/ (Goto("wait") /\ accepted' = accepted)
    BY <1>9 DEF TryLine, RecvLine
  <2> QED BY <2>1, ReturnKeepsArguments, GotoKeepsArguments
<1>10. CASE TryRaw
  <2>1. Return("true") \/ (Goto("wait") /\ accepted' = accepted)
    BY <1>10 DEF TryRaw, RecvRaw
  <2> QED BY <2>1, ReturnKeepsArguments, GotoKeepsArguments
<1>11. CASE Ready
  <2>1. Return("false") \/ (Goto("try") /\ accepted' = accepted)
    BY <1>11 DEF Ready, Io
  <2> QED BY <2>1, ReturnKeepsArguments, GotoKeepsArguments
<1>12. CASE GiveUp
  BY <1>12, ReturnKeepsArguments DEF GiveUp
<1>13. CASE UNCHANGED vars
  BY <1>13 DEF vars, Arguments, MayEnqueue
<1> QED BY <1>1, <1>2, <1>3, <1>4, <1>5, <1>6, <1>7, <1>8, <1>9, <1>10, <1>11, <1>12, <1>13
        DEF Next, Run

\* The events that Sync waits for are events of the object.
LEMMA EventsAreNames == Events(async) \subseteq EventNames
BY DEF Events

LEMMA StepIsAsyncStep == Arguments /\ [Next]_vars => [AsyncNext]_asyncVars
<1> SUFFICES ASSUME Arguments, [Next]_vars PROVE [AsyncNext]_asyncVars
  OBVIOUS
<1>1. CASE CallSend \/ CallFlush \/ CallLine \/ CallRaw
  BY <1>1 DEF CallSend, CallFlush, CallLine, CallRaw, Call
<1>2. CASE TrySend
  BY <1>2 DEF TrySend, Arguments, AsyncNext
<1>3. CASE CheckRoom
  BY <1>3 DEF CheckRoom, AsyncNext
<1>4. CASE FlushFirst
  BY <1>4 DEF FlushFirst, FirstFlush, EventNames, AsyncNext
<1>5. CASE TryFlush
  BY <1>5 DEF TryFlush, asyncVars
<1>6. CASE TryLine
  BY <1>6 DEF TryLine, AsyncNext
<1>7. CASE TryRaw
  BY <1>7 DEF TryRaw, Arguments, AsyncNext
<1>8. CASE Ready
  <2>1. PICK events \in SUBSET Events(async) : Io(events)
    BY <1>8 DEF Ready
  <2>2. events \in SUBSET EventNames
    BY EventsAreNames
  <2> QED BY <2>1, <2>2 DEF AsyncNext
<1>9. CASE GiveUp
  BY <1>9 DEF GiveUp, asyncVars
<1>10. CASE UNCHANGED vars
  BY <1>10 DEF vars, asyncVars
<1> QED BY <1>1, <1>2, <1>3, <1>4, <1>5, <1>6, <1>7, <1>8, <1>9, <1>10 DEF Next, Run

\* The blocking functions are a user of the async object like any other: all
\* that holds for every user holds for them.
THEOREM SyncImplementsAsync == Spec => AsyncSpec
<1>1. Init => AsyncInit
  BY DEF Init
<1> QED BY <1>1, ArgumentsStart, ArgumentsKept, StepIsAsyncStep, PTL DEF Spec, AsyncSpec

LEMMA BuffersSound == Spec => [](Arguments /\ AsyncInv)
BY SyncImplementsAsync, AsyncInvariant, ArgumentsStart, ArgumentsKept, PTL DEF Spec

(***************************************************************************)
(* Where a loop is, and what that says of the object.  A request that did  *)
(* not fit still does not when the room is checked: mpd_async_send_...()   *)
(* left the room as it was.  A loop of mpd_sync_flush() has no error.      *)
(***************************************************************************)
Loops ==
    /\ call # "none" => result = "none"
    /\ call = "none" => step = "try"
    /\ call = "send" /\ step = "check" => ~Accepts(async, argument)
    /\ call = "flush" /\ step = "try" => ~Failed(async)
    /\ WaitsToSomePurpose

LEMMA RejectedKeepsRoom ==
    ASSUME AsyncInv, NEW r \in Requests, ~Accepts(async, r)
    PROVE  ~Accepts(Enqueued(async, r), r)
<1> DEFINE b == async.output
           zeros == [i \in 1 .. Room(Moved(b)) |-> 0]
           new == Put(Moved(b), zeros)
<1>1. Sound(b)
  BY GoodIsSound DEF AsyncInv
<1>2. CASE Failed(async) \/ Room(b) <= r.command
  <2>1. Enqueued(async, r) = async
    BY <1>2, Zenon DEF Enqueued
  <2> QED BY <2>1
<1>3. CASE ~(Failed(async) \/ Room(b) <= r.command)
  <2>1. Sound(Moved(b)) /\ Room(Moved(b)) = Room(b)
    BY <1>1, MovedKeeps
  <2>2. zeros \in Seq(Nat)
    BY <2>1, UsedAndRoom
  <2>3. Room(new) = Room(b)
    <3> HIDE DEF zeros
    <3>1. Used(new) = Used(Moved(b))
      BY <2>1, <2>2, PutBehind
    <3> HIDE DEF new
    <3> QED BY <2>1, <3>1 DEF Room
  <2>4. Enqueued(async, r) = [async EXCEPT !.output = new]
    <3>1. Enqueued(async, r) = [async EXCEPT !.output = Put(Moved(b), [i \in 1 .. Room(b) |-> 0])]
      BY <1>3, Zenon DEF Enqueued
    <3> QED BY <2>1, <3>1
  <2> HIDE DEF new
  <2>5. Enqueued(async, r).output = new
    BY <2>4 DEF AsyncInv, Good, AsyncObject
  <2>6. ~Fits(async, r)
    BY <1>1, <1>3, UsedAndRoom, AsyncAssumption DEF Accepts, Request
  <2> QED BY <2>3, <2>5, <2>6 DEF Accepts, Fits
<1> QED BY <1>2, <1>3

\* Returning leaves a loop where it may be.
LEMMA ReturnKeepsLoops ==
    ASSUME NEW r, Return(r)
    PROVE  Loops'
BY DEF Return, Loops, WaitsToSomePurpose

LEMMA LoopsStart == Init => Loops
BY DEF Init, Loops, WaitsToSomePurpose

LEMMA CallKeepsLoops ==
    ASSUME NEW c, NEW a, NEW s \in {"first", "try"}, Call(c, a, s), c = "flush" => s = "first",
           c # "none"
    PROVE  Loops'
BY DEF Call, Loops, WaitsToSomePurpose

LEMMA LoopsKept == Arguments /\ AsyncInv /\ Loops /\ [Next]_vars => Loops'
<1> SUFFICES ASSUME Arguments, AsyncInv, Loops, [Next]_vars PROVE Loops'
  OBVIOUS
<1>0. Sound(async.input) /\ Sound(async.output)
  BY GoodIsSound DEF AsyncInv
<1>1. CASE CallSend
  BY <1>1, CallKeepsLoops DEF CallSend
<1>2. CASE CallFlush
  BY <1>2, CallKeepsLoops DEF CallFlush
<1>3. CASE CallLine
  BY <1>3, CallKeepsLoops DEF CallLine
<1>4. CASE CallRaw
  BY <1>4, CallKeepsLoops DEF CallRaw
<1>5. CASE TrySend
  <2>1. CASE Accepts(async, argument)
    BY <1>5, <2>1, ReturnKeepsLoops DEF TrySend
  <2>2. CASE ~Accepts(async, argument)
    <3>1. /\ call = "send" /\ call' = "send" /\ step' = "check"
          /\ argument' = argument /\ result' = result /\ async' = Enqueued(async, argument)
      BY <1>5, <2>2 DEF TrySend, Goto, Send
    <3>2. ~Accepts(async', argument')
      BY <2>2, <3>1, RejectedKeepsRoom DEF Arguments
    <3> QED BY <3>1, <3>2 DEF Loops, WaitsToSomePurpose
  <2> QED BY <2>1, <2>2
<1>6. CASE CheckRoom
  <2>1. CASE CannotGrow
    BY <1>6, <2>1, ReturnKeepsLoops DEF CheckRoom
  <2>2. CASE ~CannotGrow
    <3>1. /\ call = "send" /\ step = "check" /\ call' = "send" /\ step' = "wait"
          /\ argument' = argument /\ result' = result /\ async' = async
      BY <1>6, <2>2 DEF CheckRoom, Goto, asyncVars
    <3>2. "WRITE" \in Events(async) /\ ~Accepts(async, argument)
      BY <2>2, <3>1 DEF CannotGrow, Loops
    <3> QED BY <3>1, <3>2 DEF Loops, WaitsToSomePurpose
  <2> QED BY <2>1, <2>2
<1>7. CASE FlushFirst
  <2>1. CASE Failed(async')
    BY <1>7, <2>1, ReturnKeepsLoops DEF FlushFirst
  <2>2. CASE ~Failed(async')
    <3>1. /\ call = "flush" /\ call' = "flush" /\ step' = "try" /\ result' = result
      BY <1>7, <2>2 DEF FlushFirst, Goto
    <3> QED BY <2>2, <3>1 DEF Loops, WaitsToSomePurpose
  <2> QED BY <2>1, <2>2
<1>8. CASE TryFlush
  <2>1. CASE Flushed
    BY <1>8, <2>1, ReturnKeepsLoops DEF TryFlush
  <2>2. CASE ~Flushed
    <3>1. /\ call = "flush" /\ call' = "flush" /\ step' = "wait" /\ result' = result
          /\ async' = async
      BY <1>8, <2>2 DEF TryFlush, Goto
    <3> QED BY <2>2, <3>1 DEF Flushed, Loops, WaitsToSomePurpose
  <2> QED BY <2>1, <2>2
<1>9. CASE TryLine
  <2>1. CASE LineEnds(async.input) # {}
    BY <1>9, <2>1, ReturnKeepsLoops DEF TryLine
  <2>2. CASE LineEnds(async.input) = {}
    <3>1. /\ call = "line" /\ call' = "line" /\ step' = "wait" /\ result' = result
          /\ async' = Lined(async)
      BY <1>9, <2>2 DEF TryLine, Goto, RecvLine
    <3>2. ASSUME ~Failed(async')
          PROVE  "READ" \in Events(async') /\ LineEnds(async'.input) = {}
      <4>1. CASE TooLarge(async.input)
        <5>1. async' = Fails(async, "MALFORMED")
          BY <2>2, <3>1, <4>1, Zenon DEF Lined
        <5> QED BY <3>2, <5>1, FailsFails DEF AsyncErrors
      <4>2. CASE ~TooLarge(async.input)
        <5>1. async' = async
          BY <2>2, <3>1, <4>2, Zenon DEF Lined
        <5>2. Room(async.input) > 0
          BY <1>0, <2>2, <4>2, UsedAndRoom DEF TooLarge
        <5> QED BY <2>2, <3>2, <5>1, <5>2 DEF Events, EventNames
      <4> QED BY <4>1, <4>2
    <3> QED BY <3>1, <3>2 DEF Loops, WaitsToSomePurpose
  <2> QED BY <2>1, <2>2
<1>10. CASE TryRaw
  <2>1. CASE Used(async.input) > 0
    BY <1>10, <2>1, ReturnKeepsLoops DEF TryRaw
  <2>2. CASE ~(Used(async.input) > 0)
    <3> DEFINE n == RawLength(argument.total)
    <3>1. /\ call = "raw" /\ call' = "raw" /\ step' = "wait" /\ result' = result
          /\ async' = [async EXCEPT !.input = Consumed(async.input, n)]
      BY <1>10, <2>2, Zenon DEF TryRaw, Goto, RecvRaw
    <3>2. Used(async.input) = 0
      BY <1>0, <2>2, UsedAndRoom
    <3>3. n = 0
      <4>1. argument.total \in Int /\ argument.total >= 1
        BY <3>1, AsyncAssumption DEF Arguments
      <4>2. /\ n \in {argument.total, Used(async.input)}
            /\ n <= Used(async.input)
        BY <3>2, <4>1, LeastOfTwo DEF RawLength
      <4> QED BY <3>2, <4>1, <4>2
    <3>4. async'.input = Consumed(async.input, 0)
      BY <3>1, <3>3 DEF AsyncInv, Good, AsyncObject
    <3>5. Used(async'.input) = 0 /\ Room(async'.input) > 0
      BY <1>0, <3>2, <3>4, SizeAssumption DEF Consumed, Used, Room, Sound, Buffer
    <3> QED BY <3>1, <3>5 DEF Loops, WaitsToSomePurpose, Events, EventNames
  <2> QED BY <2>1, <2>2
<1>11. CASE Ready
  <2>1. CASE Failed(async')
    BY <1>11, <2>1, ReturnKeepsLoops DEF Ready
  <2>2. CASE ~Failed(async')
    <3>1. step = "wait" /\ step' = "try" /\ UNCHANGED <<call, argument, result>>
      BY <1>11, <2>2 DEF Ready, Goto
    <3> QED BY <2>2, <3>1 DEF Loops, WaitsToSomePurpose
  <2> QED BY <2>1, <2>2
<1>12. CASE GiveUp
  BY <1>12, ReturnKeepsLoops DEF GiveUp
<1>13. CASE UNCHANGED vars
  BY <1>13 DEF vars, Loops, WaitsToSomePurpose
<1> QED BY <1>1, <1>2, <1>3, <1>4, <1>5, <1>6, <1>7, <1>8, <1>9, <1>10, <1>11, <1>12, <1>13
        DEF Next, Run

LEMMA LoopsHold == Spec => [](Arguments /\ AsyncInv /\ Loops)
BY BuffersSound, LoopsStart, LoopsKept, PTL DEF Spec

\* No loop waits for what it already has, or for an event that cannot help it:
\* the reason why no call of the library blocks for ever on its own account.
THEOREM LoopsWaitToSomePurpose == Spec => []WaitsToSomePurpose
<1>1. Loops => WaitsToSomePurpose
  BY DEF Loops
<1> QED BY <1>1, LoopsHold, PTL

\* mpd_sync_flush() returns true only when the server has every request.
THEOREM FlushesDeliver == Spec => FlushDelivers
<1>1. ASSUME Arguments, AsyncInv, Loops, [Next]_vars
      PROVE  [call = "flush" /\ result' = "true" => delivered = accepted]_vars
  <2>1. ASSUME call = "flush", result' = "true" PROVE delivered = accepted
    <3>1. result = "none"
      BY <1>1, <2>1 DEF Loops
    <3>2. TryFlush /\ Flushed
      BY <1>1, <2>1, <3>1 DEF Next, Run, vars, CallSend, CallFlush, CallLine, CallRaw, Call, Idle,
         TrySend, CheckRoom, FlushFirst, TryFlush, TryLine, TryRaw, Ready, GiveUp, Goto, Return
    <3>3. ~Failed(async)
      BY <1>1, <2>1, <3>2 DEF TryFlush, Loops
    <3>4. Sound(async.output) /\ Holds(async.output, delivered, accepted)
          /\ delivered \in Nat /\ accepted \in Nat
      BY <1>1, GoodIsSound DEF AsyncInv, Good
    <3>5. Used(async.output) = 0
      BY <3>2, <3>3, <3>4, UsedAndRoom DEF Flushed, Events, EventNames
    <3> QED BY <3>4, <3>5 DEF Holds
  <2> QED BY <2>1
<1> QED BY <1>1, LoopsHold, PTL DEF Spec, FlushDelivers

(***************************************************************************)
(* Refusals                                                                *)
(***************************************************************************)
\* A request is refused for good only if not even the empty buffer holds it:
\* a request that merely has to wait for room is never lost.
THEOREM RefusesOnlyTooLong == Spec => RefusedOnlyIfTooLong
<1>1. ASSUME Arguments, AsyncInv, Loops, [Next]_vars
      PROVE  [async.error # "ARGUMENT" /\ async'.error = "ARGUMENT" => argument.total > Size]_vars
  <2>1. ASSUME async.error # "ARGUMENT", async'.error = "ARGUMENT"
        PROVE  argument.total > Size
    <3>1. ASSUME NEW events, Io(events) PROVE FALSE
      <4>1. PICK o \in IOs(async, events) : async' = o.async
        BY <3>1 DEF Io
      <4> QED BY <1>1, <2>1, <4>1, IOErrors
    <3>2. ASSUME NEW r, Send(r) PROVE FALSE
      BY <1>1, <2>1, <3>2, EnqueuedKeepsError DEF Send
    <3>3. ASSUME RecvLine PROVE FALSE
      <4>1. \/ async' = async
            \/ async' = Fails(async, "MALFORMED")
            \/ \E b : async' = [async EXCEPT !.input = b]
        BY <3>3, Zenon DEF RecvLine, Lined
      <4>2. async \in AsyncObject
        BY <1>1 DEF AsyncInv, Good
      <4> QED BY <1>1, <2>1, <4>1, <4>2, FailsSets, ConsumingKeepsError
    <3>4. ASSUME NEW n, RecvRaw(n) PROVE FALSE
      <4>1. \E b : async' = [async EXCEPT !.input = b]
        BY <3>4, Zenon DEF RecvRaw
      <4> QED BY <1>1, <2>1, <4>1, ConsumingKeepsError
    <3>5. async' # async
      BY <2>1
    <3>6. CheckRoom /\ CannotGrow /\ ~Failed(async)
      BY <1>1, <3>1, <3>2, <3>3, <3>4, <3>5 DEF Next, Run, vars, asyncVars, CallSend, CallFlush,
         CallLine, CallRaw, Call, TrySend, CheckRoom, Refuse, FlushFirst, TryFlush, TryLine,
         TryRaw, Ready, GiveUp
    <3>7. Sound(async.output)
      BY <1>1, GoodIsSound DEF AsyncInv
    <3>8. Used(async.output) = 0 /\ Room(async.output) = Size /\ Size \in Nat
      BY <3>6, <3>7, UsedAndRoom, SizeAssumption DEF CannotGrow, Events, EventNames
    <3>9. argument \in Requests /\ ~Accepts(async, argument)
      BY <1>1, <3>6 DEF CheckRoom, Arguments, Loops
    <3>10. /\ argument.command \in Nat /\ argument.total \in Nat
           /\ argument.command < argument.total
      BY <3>9, AsyncAssumption DEF Request
    <3> QED BY <3>6, <3>8, <3>9, <3>10 DEF Accepts, Fits
  <2> QED BY <2>1
<1> QED BY <1>1, LoopsHold, PTL DEF Spec, RefusedOnlyIfTooLong

(***************************************************************************)
(* The caller's line                                                       *)
(***************************************************************************)
LineType == line \in [at : 0 .. Size, length : -1 .. Size, first : Nat]

LEMMA NoLineHasType == NoLine \in [at : 0 .. Size, length : -1 .. Size, first : Nat]
BY SizeAssumption DEF NoLine

LEMMA NewLineHasType ==
    ASSUME AsyncInv, LineEnds(async.input) # {},
           line' = [at |-> async.input.read, length |-> Least(LineEnds(async.input)),
                    first |-> taken]
    PROVE  LineType'
<1>1. Least(LineEnds(async.input)) \in 0 .. Used(async.input) - 1
  BY LineWithin, GoodIsSound DEF AsyncInv
<1>2. Used(async.input) \in 0 .. Size /\ Size \in Nat
  BY UsedAndRoom, GoodIsSound, SizeAssumption DEF AsyncInv
<1>3. async.input.read \in 0 .. Size /\ taken \in Nat
  BY GoodIsSound DEF AsyncInv, Good, Sound, Buffer
<1>4. Least(LineEnds(async.input)) \in -1 .. Size
  BY <1>1, <1>2
<1> QED BY <1>3, <1>4 DEF LineType

LEMMA LineStep ==
    ASSUME [Next]_vars
    PROVE  \/ line' = line
           \/ line' = NoLine
           \/ TryLine /\ LineEnds(async.input) # {}
              /\ line' = [at |-> async.input.read, length |-> Least(LineEnds(async.input)),
                          first |-> taken]
BY DEF Next, Run, vars, CallSend, CallFlush, CallLine, CallRaw, TrySend, CheckRoom, FlushFirst,
       TryFlush, TryLine, TryRaw, Ready, GiveUp

LEMMA LineTypeKept == AsyncInv /\ LineType /\ [Next]_vars => LineType'
BY LineStep, NoLineHasType, NewLineHasType DEF LineType

\* Every variable of the blocking functions keeps its type, for any buffer
\* size, any requests and lines.
THEOREM SyncTypeCorrect == Spec => []TypeOK
<1>1. Init => LineType
  BY NoLineHasType DEF Init, LineType
<1>2. Arguments /\ AsyncInv /\ LineType => TypeOK
  BY DEF Arguments, AsyncInv, Good, AsyncTypeOK, LineType, TypeOK
<1> QED BY <1>1, <1>2, LineTypeKept, BuffersSound, PTL DEF Spec

(* While the caller holds a line, the only call is a flush that finds      *)
(* nothing to write and so never comes to wait.                            *)
HeldLine ==
    Holding =>
        /\ LineIntact
        /\ \/ call = "none" /\ step = "try"
           \/ call = "flush" /\ step \in {"first", "try"}
        /\ call = "flush" => Used(async.output) = 0

LEMMA NoLineIsNotHeld == ASSUME line' = NoLine PROVE ~Holding'
BY DEF NoLine, Holding

LEMMA LineStaysIntact ==
    ASSUME LineIntact, line' = line, async'.input = async.input
    PROVE  LineIntact'
BY DEF LineIntact, Holding

LEMMA FlushWithNothing ==
    ASSUME AsyncInv, Io({"WRITE"}), Used(async.output) = 0
    PROVE  async'.input = async.input /\ async'.output = async.output
<1>1. PICK o \in IOs(async, {"WRITE"}) : async' = o.async
  BY DEF Io
<1>2. o = Outcome(async, 0, 0)
  <2>1. CASE Failed(async)
    BY <2>1, Zenon DEF IOs
  <2>2. CASE ~Failed(async)
    <3>1. "HUP" \notin {"WRITE"} /\ "READ" \notin {"WRITE"} /\ "WRITE" \in {"WRITE"}
      OBVIOUS
    <3>2. PICK p \in {Outcome(async, 0, 0)} :
            (o = p /\ Failed(p.async)) \/ o \in Writes(p.async, p.in)
      BY <2>2, <3>1, Zenon DEF IOs
    <3>3. p = Outcome(async, 0, 0) /\ p.async = async /\ p.in = 0
      BY DEF Outcome
    <3>4. Writes(async, 0) = {Outcome(async, 0, 0)}
      BY DEF Writes
    <3> QED BY <3>2, <3>3, <3>4
  <2> QED BY <2>1, <2>2
<1> QED BY <1>1, <1>2 DEF Outcome

LEMMA NewLineIsIntact ==
    ASSUME AsyncInv, RecvLine, LineEnds(async.input) # {},
           line' = [at |-> async.input.read, length |-> Least(LineEnds(async.input)),
                    first |-> taken]
    PROVE  LineIntact'
<1> DEFINE b == async.input
           n == Least(LineEnds(b))
           data == [b.data EXCEPT ![b.read + n] = 0]
           ended == [b EXCEPT !.data[b.read + n] = 0]
<1>1. /\ b.data \in [Positions -> Nat] /\ b.read \in 0 .. Size /\ b.write \in 0 .. Size
      /\ Size \in Nat /\ taken \in Nat /\ Used(b) = b.write - b.read
      /\ \A i \in 0 .. Used(b) - 1 : b.data[b.read + i] = taken + i + 1
  BY SizeAssumption DEF AsyncInv, Good, AsyncObject, Buffer, Used, Holds
<1>2. n \in 0 .. Used(b) - 1
  BY LineWithin, GoodIsSound DEF AsyncInv
<1>3. n \in LineEnds(b) /\ \A m \in LineEnds(b) : n <= m
  <2>1. LineEnds(b) \subseteq Nat
    BY <1>1 DEF LineEnds
  <2> QED BY <2>1, LeastExists
<1>4. async'.input.data = data
  <2>1. async' = [async EXCEPT !.input = Consumed(ended, LineSize(b))]
    BY Zenon DEF RecvLine, Lined
  <2>2. ended = [data |-> data, read |-> b.read, write |-> b.write]
    BY DEF AsyncInv, Good, AsyncObject, Buffer
  <2> HIDE DEF ended, data
  <2>3. Consumed(ended, LineSize(b)).data = data
    BY <2>2 DEF Consumed
  <2>4. async'.input = Consumed(ended, LineSize(b))
    BY <2>1 DEF AsyncInv, Good, AsyncObject
  <2> QED BY <2>3, <2>4
<1>5. line'.at = b.read /\ line'.length = n /\ line'.first = taken
  OBVIOUS
<1> HIDE DEF n
<1>6. \A i \in 0 .. n : b.read + i \in Positions
  <2> TAKE i \in 0 .. n
  <2>1. Used(b) \in Int /\ b.read \in Int /\ b.write \in Int
    BY <1>1
  <2>2. n \in Int /\ n < Used(b)
    BY <1>2, <2>1
  <2>3. i \in Int /\ i >= 0 /\ i <= n
    BY <2>2
  <2>4. Size \in Int /\ 0 <= b.read /\ b.write <= Size /\ Used(b) = b.write - b.read
    BY <1>1
  <2> HIDE DEF b
  <2>5. b.read + i \in Int /\ 0 <= b.read + i /\ b.read + i <= Size - 1
    BY <2>1, <2>2, <2>3, <2>4
  <2> QED BY <2>4, <2>5 DEF Positions
<1>7. data[b.read + n] = 0
  BY <1>1, <1>2, <1>6
<1>8. taken + n + 1 \in Newlines
  BY <1>1, <1>2, <1>3 DEF LineEnds
<1>9. \A i \in 0 .. n - 1 : data[b.read + i] = taken + i + 1 /\ taken + i + 1 \notin Newlines
  <2> TAKE i \in 0 .. n - 1
  <2>1. i \in 0 .. Used(b) - 1 /\ b.read + i \in Positions /\ b.read + i # b.read + n
    BY <1>1, <1>2, <1>6
  <2>2. data[b.read + i] = b.data[b.read + i] /\ b.data[b.read + i] = taken + i + 1
    BY <1>1, <2>1
  <2>3. i \notin LineEnds(b)
    BY <1>2, <1>3
  <2> QED BY <2>1, <2>2, <2>3 DEF LineEnds
<1> HIDE DEF data
<1> QED BY <1>4, <1>5, <1>7, <1>8, <1>9 DEF LineIntact

LEMMA HeldLineKept ==
    ASSUME ~NoidleWithPair, AsyncInv, HeldLine, [Next]_vars
    PROVE  HeldLine'
<1>1. CASE line' = NoLine
  BY <1>1, NoLineIsNotHeld DEF HeldLine
<1>2. CASE TryLine /\ LineEnds(async.input) # {}
           /\ line' = [at |-> async.input.read, length |-> Least(LineEnds(async.input)),
                       first |-> taken]
  <2>1. LineIntact'
    BY <1>2, NewLineIsIntact DEF TryLine
  <2>2. call' = "none" /\ step' = "try"
    BY <1>2 DEF TryLine, Return
  <2> QED BY <2>1, <2>2 DEF HeldLine
<1>3. CASE line' = line /\ ~Holding
  BY <1>3 DEF HeldLine, Holding
<1>4. CASE line' = line /\ Holding
  <2>1. /\ LineIntact
        /\ \/ call = "none" /\ step = "try"
           \/ call = "flush" /\ step \in {"first", "try"}
        /\ call = "flush" => Used(async.output) = 0
    BY <1>4 DEF HeldLine
  <2>2. CASE CallFlush
    <3>1. async' = async /\ call' = "flush" /\ step' = "first" /\ Used(async.output) = 0
      BY <1>4, <2>2 DEF CallFlush, Call, asyncVars
    <3>2. LineIntact'
      BY <1>4, <2>1, <3>1, LineStaysIntact
    <3> QED BY <3>1, <3>2 DEF HeldLine
  <2>3. CASE FlushFirst
    <3>1. call = "flush" /\ Io({"WRITE"}) /\ Used(async.output) = 0
      BY <2>1, <2>3 DEF FlushFirst, FirstFlush
    <3>2. async'.input = async.input /\ async'.output = async.output
      BY <3>1, FlushWithNothing
    <3>3. step' = "try" /\ call' \in {"none", "flush"}
      BY <2>3, <3>1 DEF FlushFirst, Return, Goto
    <3>4. LineIntact'
      BY <1>4, <2>1, <3>2, LineStaysIntact
    <3> QED BY <3>1, <3>2, <3>3, <3>4 DEF HeldLine
  <2>4. CASE TryFlush
    <3>1. call = "flush" /\ Used(async.output) = 0 /\ async' = async
      BY <2>1, <2>4 DEF TryFlush
    <3>2. Flushed
      BY <3>1 DEF Flushed, Events
    <3>3. call' = "none" /\ step' = "try"
      BY <2>4, <3>2 DEF TryFlush, Return
    <3>4. LineIntact'
      BY <1>4, <2>1, <3>1, LineStaysIntact
    <3> QED BY <3>3, <3>4 DEF HeldLine
  <2>5. CASE UNCHANGED vars
    <3>1. async' = async /\ call' = call /\ step' = step
      BY <2>5 DEF vars
    <3>2. LineIntact'
      BY <1>4, <2>1, <3>1, LineStaysIntact
    <3> QED BY <2>1, <3>1, <3>2 DEF HeldLine
  <2>6. CASE CallLine \/ CallRaw
    BY <2>6, NoLineIsNotHeld DEF CallLine, CallRaw, HeldLine
  <2>7. ~CallSend
    BY <1>4 DEF CallSend
  <2>8. ~TrySend /\ ~CheckRoom /\ ~TryLine /\ ~TryRaw /\ ~Ready /\ ~GiveUp
    BY <2>1 DEF TrySend, CheckRoom, TryLine, TryRaw, Ready, GiveUp
  <2> QED BY <2>2, <2>3, <2>4, <2>5, <2>6, <2>7, <2>8 DEF Next, Run
<1> QED BY <1>1, <1>2, <1>3, <1>4, LineStep

\* Unless a request is sent while a pair is held, the line that a pair points
\* into stays what the server sent for as long as the caller may use it.
THEOREM LinesStayIntact == ~NoidleWithPair => (Spec => []LineIntact)
<1> SUFFICES ASSUME ~NoidleWithPair PROVE Spec => []LineIntact
  OBVIOUS
<1>1. Init => HeldLine
  BY DEF Init, NoLine, HeldLine, Holding
<1>2. AsyncInv /\ HeldLine /\ [Next]_vars => HeldLine'
  BY HeldLineKept
<1>3. HeldLine => LineIntact
  BY DEF HeldLine, LineIntact
<1> QED BY <1>1, <1>2, <1>3, BuffersSound, PTL DEF Spec

(***************************************************************************)
(* The first error is the last: mpd_error_code() asserts it.  A loop that  *)
(* has met an error does not try again, and the rest look before they set. *)
(***************************************************************************)
Once ==
    /\ ~async.asserts
    /\ call = "line" /\ step = "try" => ~Failed(async)

LEMMA FirstError ==
    ASSUME NEW a \in AsyncObject, NEW e, ~Failed(a), ~a.asserts
    PROVE  ~Fails(a, e).asserts
<1>1. Fails(a, e) = [a EXCEPT !.error = e, !.asserts = a.asserts \/ Failed(a)]
  BY Zenon DEF Fails
<1>2. Fails(a, e).asserts = (a.asserts \/ Failed(a))
  BY <1>1 DEF AsyncObject
<1> QED BY <1>2

LEMMA WriteAsserts ==
    ASSUME NEW a \in AsyncObject, NEW in, NEW o \in Writes(a, in), ~Failed(a), ~a.asserts
    PROVE  ~o.async.asserts
<1>1. \/ o = Outcome(a, in, 0)
      \/ \E b : o.async = [a EXCEPT !.output = b]
      \/ o = Outcome(Fails(a, "SYSTEM"), in, 0)
  <2>1. CASE Used(a.output) = 0
    BY <2>1 DEF Writes
  <2>2. CASE Used(a.output) # 0
    <3>1. \/ \E n \in 0 .. Used(a.output) :
               o = Outcome([a EXCEPT !.output = Consumed(a.output, n)], in, n)
          \/ o = Outcome(Fails(a, "SYSTEM"), in, 0)
      BY <2>2, Zenon DEF Writes
    <3>2. ASSUME NEW n \in 0 .. Used(a.output),
                 o = Outcome([a EXCEPT !.output = Consumed(a.output, n)], in, n)
          PROVE  o.async = [a EXCEPT !.output = Consumed(a.output, n)]
      BY <3>2 DEF Outcome
    <3> QED BY <3>1, <3>2, Zenon
  <2> QED BY <2>1, <2>2
<1>2. CASE o = Outcome(a, in, 0)
  BY <1>2 DEF Outcome
<1>3. ASSUME NEW b, o.async = [a EXCEPT !.output = b] PROVE ~o.async.asserts
  BY <1>3 DEF AsyncObject
<1>4. CASE o = Outcome(Fails(a, "SYSTEM"), in, 0)
  BY <1>4, FirstError DEF Outcome
<1> QED BY <1>1, <1>2, <1>3, <1>4

LEMMA ReadAsserts ==
    ASSUME NEW a \in AsyncObject, a.input.read <= a.input.write, NEW o \in Reads(a),
           ~Failed(a), ~a.asserts
    PROVE  ~o.async.asserts
<1> DEFINE m == [a EXCEPT !.input = Moved(a.input)]
<1>1. m \in AsyncObject /\ ~Failed(m) /\ ~m.asserts
  BY MovedKeeps DEF AsyncObject, Sound, Failed
<1>2. CASE Room(a.input) = 0
  <2>1. o = Outcome(a, 0, 0)
    BY <1>2 DEF Reads
  <2> QED BY <2>1 DEF Outcome
<1>3. CASE Room(a.input) # 0
  <2>1. \/ \E n \in 0 .. Least({Room(m.input), MaxArrived - arrived}) :
              o = Outcome([m EXCEPT !.input = Expanded(Put(m.input, Bytes(arrived, n)), n)], n, 0)
        \/ \E e \in {"SYSTEM", "CLOSED"} : o = Outcome(Fails(m, e), 0, 0)
    BY <1>3, Zenon DEF Reads
  <2> HIDE DEF m
  <2>2. ASSUME NEW b, NEW n, o = Outcome([m EXCEPT !.input = b], n, 0) PROVE ~o.async.asserts
    <3>1. o.async = [m EXCEPT !.input = b]
      BY <2>2 DEF Outcome
    <3> QED BY <1>1, <3>1 DEF AsyncObject
  <2>3. ASSUME NEW e, o = Outcome(Fails(m, e), 0, 0) PROVE ~o.async.asserts
    BY <1>1, <2>3, FirstError DEF Outcome
  <2> QED BY <2>1, <2>2, <2>3, Zenon
<1> QED BY <1>2, <1>3

LEMMA IOAsserts ==
    ASSUME AsyncInv, ~async.asserts, NEW events, NEW o \in IOs(async, events)
    PROVE  ~o.async.asserts
<1> DEFINE read == IF "READ" \in events THEN Reads(async) ELSE {Outcome(async, 0, 0)}
<1>1. async \in AsyncObject /\ async.input.read <= async.input.write
  BY DEF AsyncInv, Good
<1>2. CASE Failed(async)
  <2>1. o = Outcome(async, 0, 0)
    BY <1>2, Zenon DEF IOs
  <2> QED BY <2>1 DEF Outcome
<1>3. CASE ~Failed(async)
  <2>1. ASSUME NEW p \in read PROVE ~p.async.asserts /\ p.async \in AsyncObject
    <3>1. CASE p \in Reads(async)
      <4>1. ~p.async.asserts
        BY <1>1, <1>3, <3>1, ReadAsserts
      <4>2. p.async \in AsyncObject
        BY <3>1, ReadsKeep DEF AsyncInv, Good
      <4> QED BY <4>1, <4>2
    <3>2. CASE p = Outcome(async, 0, 0)
      BY <1>1, <3>2 DEF Outcome
    <3> QED BY <3>1, <3>2
  <2>2. \/ o = Outcome(Fails(async, "CLOSED"), 0, 0)
        \/ o \in read
        \/ \E p \in {q \in read : ~Failed(q.async)} : o \in Writes(p.async, p.in)
    BY <1>3, Zenon DEF IOs
  <2> HIDE DEF read
  <2>3. CASE o = Outcome(Fails(async, "CLOSED"), 0, 0)
    BY <1>1, <1>3, <2>3, FirstError DEF Outcome
  <2>4. ASSUME NEW p \in read, ~Failed(p.async), o \in Writes(p.async, p.in)
        PROVE  ~o.async.asserts
    BY <2>1, <2>4, WriteAsserts
  <2> QED BY <2>1, <2>2, <2>3, <2>4
<1> QED BY <1>2, <1>3

LEMMA OnceKept == Arguments /\ AsyncInv /\ Once /\ [Next]_vars => Once'
<1> SUFFICES ASSUME Arguments, AsyncInv, Once, [Next]_vars PROVE Once'
  OBVIOUS
<1>0. async \in AsyncObject /\ ~async.asserts
  BY DEF AsyncInv, Good, Once
<1>1. ASSUME NEW events, Io(events) PROVE ~async'.asserts
  <2>1. PICK o \in IOs(async, events) : async' = o.async
    BY <1>1 DEF Io
  <2> QED BY <1>0, <2>1, IOAsserts
<1>2. ASSUME async' = async, call' # "line" \/ step' # "try" \/ ~Failed(async) PROVE Once'
  BY <1>0, <1>2 DEF Once
<1>3. CASE CallSend \/ CallFlush \/ CallLine \/ CallRaw
  BY <1>2, <1>3 DEF CallSend, CallFlush, CallLine, CallRaw, Call, asyncVars, MayReceive
<1>4. CASE TrySend
  <2>1. call' # "line"
    BY <1>4 DEF TrySend, Return, Goto
  <2>2. \/ async' = async
        \/ \E b : async' = [async EXCEPT !.output = b]
    BY <1>4, Zenon DEF TrySend, Send, Enqueued
  <2>3. ~async'.asserts
    BY <1>0, <2>2 DEF AsyncObject
  <2> QED BY <2>1, <2>3 DEF Once
<1>5. CASE CheckRoom
  <2>1. call' # "line"
    BY <1>5 DEF CheckRoom, Return, Goto
  <2>2. async' = async \/ (~Failed(async) /\ async' = Fails(async, "ARGUMENT"))
    BY <1>5 DEF CheckRoom, Refuse, asyncVars
  <2>3. ~async'.asserts
    BY <1>0, <2>2, FirstError
  <2> QED BY <2>1, <2>3 DEF Once
<1>6. CASE FlushFirst
  BY <1>1, <1>6 DEF FlushFirst, Once, Return, Goto
<1>7. CASE TryFlush \/ GiveUp
  BY <1>2, <1>7 DEF TryFlush, GiveUp, Return, Goto
<1>8. CASE TryLine
  <2>1. step' # "try" \/ call' = "none"
    BY <1>8 DEF TryLine, Return, Goto
  <2>2. \/ async' = async
        \/ async' = Fails(async, "MALFORMED")
        \/ \E b : async' = [async EXCEPT !.input = b]
    BY <1>8, Zenon DEF TryLine, RecvLine, Lined
  <2>3. ~Failed(async)
    BY <1>8 DEF TryLine, Once
  <2>4. ~async'.asserts
    BY <1>0, <2>2, <2>3, FirstError DEF AsyncObject
  <2> QED BY <2>1, <2>4 DEF Once
<1>9. CASE TryRaw
  <2>1. call' # "line"
    BY <1>9 DEF TryRaw, Return, Goto
  <2>2. \E b : async' = [async EXCEPT !.input = b]
    BY <1>9, Zenon DEF TryRaw, RecvRaw
  <2>3. ~async'.asserts
    BY <1>0, <2>2 DEF AsyncObject
  <2> QED BY <2>1, <2>3 DEF Once
<1>10. CASE Ready
  <2>1. PICK events \in SUBSET Events(async) : Io(events)
    BY <1>10 DEF Ready
  <2>2. ~Failed(async') \/ call' = "none"
    BY <1>10 DEF Ready, Return
  <2> QED BY <1>1, <2>1, <2>2 DEF Once
<1>11. CASE UNCHANGED vars
  BY <1>11 DEF vars, Once, Failed
<1> QED BY <1>3, <1>4, <1>5, <1>6, <1>7, <1>8, <1>9, <1>10, <1>11 DEF Next, Run


(***************************************************************************)
(* Sequences of consecutive bytes                                          *)
(***************************************************************************)
LEMMA BytesAre ==
    ASSUME NEW f \in Nat, NEW n \in Nat
    PROVE  /\ Bytes(f, n) \in Seq(Nat) /\ Len(Bytes(f, n)) = n
           /\ \A i \in 1 .. n : Bytes(f, n)[i] = f + i
BY DEF Bytes

LEMMA BytesBegin ==
    ASSUME NEW f \in Nat, NEW n \in Nat, NEW k \in 0 .. n
    PROVE  SubSeq(Bytes(f, n), 1, k) = Bytes(f, k)
<1> DEFINE whole == Bytes(f, n)
           part == Bytes(f, k)
<1>1. \A i \in 1 .. k : whole[i] = f + i /\ whole[i] \in Nat
  <2>1. \A i \in 1 .. n : whole[i] = f + i
    BY BytesAre
  <2> HIDE DEF whole
  <2> QED BY <2>1
<1>2. part \in Seq(Nat) /\ Len(part) = k /\ \A i \in 1 .. k : part[i] = f + i
  BY BytesAre
<1> HIDE DEF whole, part
<1>3. /\ SubSeq(whole, 1, k) \in Seq(Nat)
      /\ Len(SubSeq(whole, 1, k)) = IF 1 <= k THEN k - 1 + 1 ELSE 0
      /\ \A i \in 1 .. k - 1 + 1 : SubSeq(whole, 1, k)[i] = whole[1 + i - 1]
  BY <1>1, SubSeqProperties
<1>4. Len(SubSeq(whole, 1, k)) = k /\ \A i \in 1 .. k : SubSeq(whole, 1, k)[i] = part[i]
  BY <1>1, <1>2, <1>3
<1>5. SubSeq(whole, 1, k) = part
  BY <1>2, <1>3, <1>4, SeqEqual
<1> QED BY <1>5 DEF whole, part

LEMMA BytesGoOn ==
    ASSUME NEW f \in Nat, NEW n \in Nat, NEW k \in Nat
    PROVE  Bytes(f, n) \o Bytes(f + n, k) = Bytes(f, n + k)
<1> DEFINE s == Bytes(f, n)
           t == Bytes(f + n, k)
           both == Bytes(f, n + k)
<1>1. s \in Seq(Nat) /\ Len(s) = n /\ \A i \in 1 .. n : s[i] = f + i
  BY BytesAre
<1>2. f + n \in Nat /\ n + k \in Nat
  OBVIOUS
<1>3. t \in Seq(Nat) /\ Len(t) = k /\ \A i \in 1 .. k : t[i] = f + n + i
  BY <1>2, BytesAre
<1>4. both \in Seq(Nat) /\ Len(both) = n + k /\ \A i \in 1 .. n + k : both[i] = f + i
  BY <1>2, BytesAre
<1> HIDE DEF s, t, both
<1>5. /\ s \o t \in Seq(Nat) /\ Len(s \o t) = n + k
      /\ \A i \in 1 .. n + k : (s \o t)[i] = IF i <= n THEN s[i] ELSE t[i - n]
  BY <1>1, <1>3, ConcatProperties
<1>6. \A i \in 1 .. n + k : (s \o t)[i] = both[i]
  <2> TAKE i \in 1 .. n + k
  <2>1. CASE i <= n
    BY <1>1, <1>4, <1>5, <2>1
  <2>2. CASE ~(i <= n)
    <3>1. i - n \in 1 .. k /\ f + n + (i - n) = f + i
      BY <2>2
    <3> QED BY <1>3, <1>4, <1>5, <2>2, <3>1
  <2> QED BY <2>1, <2>2
<1>7. s \o t = both
  BY <1>4, <1>5, <1>6, SeqEqual
<1> QED BY <1>7 DEF s, t, both

(***************************************************************************)
(* The invariant.  Between the calls of mpd_recv_binary() nothing else     *)
(* happens, so that it may receive as long as there is no error; and what  *)
(* it has received are the bytes that were taken since it began.           *)
(***************************************************************************)
Phases ==
    /\ phase \in {"free", "data", "newline", "failed"}
    /\ phase \in {"free", "data", "newline"} => connError = "SUCCESS"
    /\ phase = "failed" => connError \in {"TIMEOUT", "SYSTEM", "MALFORMED", "CLOSED"}

Chunks == [first : Nat, size : Nat, wanted : Nat]

\* nothing to write, and no error while the loop may go on
MayGoOn ==
    /\ call \in {"none", "raw"}
    /\ Used(async.output) = 0
    /\ async.error \in {"SUCCESS", "SYSTEM", "CLOSED"}
    /\ call = "raw" /\ step = "try" => ~Failed(async)
    /\ call = "none" => result \in {"true", "false"}
    /\ call = "none" /\ result = "true" => ~Failed(async)

\* the bytes that were received
Collected ==
    /\ dest = Bytes(chunk.first, Len(dest)) /\ Len(dest) \in Nat
    /\ taken = chunk.first + Len(dest)

\* and how many there are still to come
Counted ==
    /\ 1 .. chunk.wanted \subseteq RawSizes
    /\ phase = "data" => /\ Len(dest) <= chunk.wanted
                         /\ call = "raw" => argument.total = chunk.wanted - Len(dest)
    /\ phase = "newline" =>
          IF call = "raw" THEN Len(dest) = chunk.wanted /\ argument.total = 1
          ELSE result = "true" => Len(dest) = chunk.wanted + 1

Receiving == phase \in {"data", "newline"} => MayGoOn /\ Collected /\ Counted

BinaryInv ==
    /\ Arguments /\ AsyncInv /\ Once
    /\ Phases /\ chunk \in Chunks /\ Receiving

(***************************************************************************)
(* mpd_recv_binary() calls                                                 *)
(***************************************************************************)
LEMMA RetrievedFits ==
    ASSUME NEW size \in Announced, NEW buffer \in BufferSizes
    PROVE  Retrieved(size, buffer) \in Nat /\ 1 .. Retrieved(size, buffer) \subseteq RawSizes
<1>1. size \in Nat /\ buffer \in Nat /\ 1 .. buffer \subseteq RawSizes
  BY BinaryAssumption
<1>2. Retrieved(size, buffer) \in Nat /\ Retrieved(size, buffer) <= buffer
  BY <1>1 DEF Retrieved
<1> QED BY <1>1, <1>2

LEMMA ReceivesCalls ==
    ASSUME MayReceive, NEW where, NEW n \in RawSizes, Receives(where, n)
    PROVE  /\ CallRaw
           /\ call' = "raw" /\ step' = "try" /\ argument'.total = n
           /\ phase' = where /\ connError' = connError /\ async' = async /\ taken' = taken
<1>1. CallRaw
  BY DEF Receives, CallRaw
<1>2. [NoRequest EXCEPT !.total = n].total = n
  BY DEF NoRequest
<1> QED BY <1>1, <1>2 DEF Receives, Call, asyncVars

\* Whichever it asks for, what is missing or the newline, is as Counted says.
LEMMA ProceedsCalls ==
    ASSUME MayReceive, NEW n \in Int, n > 0 => n \in RawSizes, Proceeds(n)
    PROVE  /\ CallRaw
           /\ call' = "raw" /\ step' = "try"
           /\ phase' = IF n > 0 THEN "data" ELSE "newline"
           /\ argument'.total = IF n > 0 THEN n ELSE 1
           /\ connError' = connError /\ async' = async /\ taken' = taken
<1>1. CASE n > 0
  BY <1>1, ReceivesCalls DEF Proceeds
<1>2. CASE ~(n > 0)
  BY <1>2, ReceivesCalls, BinaryAssumption DEF Proceeds
<1> QED BY <1>1, <1>2

LEMMA MoreMayReceive ==
    ASSUME BinaryInv, MoreData
    PROVE  /\ MayReceive /\ MayGoOn /\ Collected /\ Counted /\ phase = "data"
           /\ Missing \in Int
           /\ Missing > 0 => Missing \in RawSizes
<1>1. phase = "data" /\ call = "none" /\ result = "true"
  BY DEF MoreData, Idle, Received
<1>2. MayGoOn /\ Collected /\ Counted
  BY <1>1 DEF BinaryInv, Receiving
<1>3. MayReceive
  BY <1>1, <1>2 DEF MayGoOn, MayReceive
<1>4. chunk.wanted \in Nat /\ Len(dest) \in Nat /\ 1 .. chunk.wanted \subseteq RawSizes
  BY <1>2 DEF BinaryInv, Chunks, Collected, Counted
<1>5. Missing \in Int /\ Missing <= chunk.wanted
  BY <1>4 DEF Missing
<1> QED BY <1>1, <1>2, <1>3, <1>4, <1>5

\* Every step is one of the blocking functions or of their user.
LEMMA StepIsSyncStep == BinaryInv /\ [BinaryNext]_allVars => [Next]_vars
<1> SUFFICES ASSUME BinaryInv, [BinaryNext]_allVars PROVE [Next]_vars
  OBVIOUS
<1>1. ASSUME NEW size \in Announced, NEW buffer \in BufferSizes, RecvChunk(size, buffer)
      PROVE  CallRaw
  <2>1. /\ MayReceive /\ Proceeds(Retrieved(size, buffer))
        /\ Retrieved(size, buffer) \in Int
        /\ Retrieved(size, buffer) > 0 => Retrieved(size, buffer) \in RawSizes
    BY <1>1, RetrievedFits DEF RecvChunk
  <2> QED BY <2>1, ProceedsCalls
<1>2. CASE MoreData
  BY <1>2, MoreMayReceive, ProceedsCalls DEF MoreData, Next
<1>3. CASE NoData \/ Newline
  BY <1>3 DEF NoData, Newline, FailsWith
<1>4. CASE LoopStep
  BY <1>4 DEF LoopStep, Next
<1>5. CASE OtherCall
  BY <1>5 DEF OtherCall, Next
<1>6. CASE Dead \/ UNCHANGED allVars
  BY <1>6 DEF Dead, allVars
<1> QED BY <1>1, <1>2, <1>3, <1>4, <1>5, <1>6 DEF BinaryNext, Recv, Next

(***************************************************************************)
(* The loop runs                                                           *)
(***************************************************************************)
\* With nothing to write, I/O leaves nothing to write.
LEMMA StillNothingToWrite ==
    ASSUME AsyncInv, AsyncInv', Used(async.output) = 0,
           delivered' \in Nat, delivered' >= delivered, accepted' = accepted
    PROVE  Used(async'.output) = 0
<1>1. /\ Sound(async.output) /\ Holds(async.output, delivered, accepted)
      /\ delivered \in Nat /\ accepted \in Nat
  BY GoodIsSound DEF AsyncInv, Good
<1>2. /\ Sound(async'.output) /\ Holds(async'.output, delivered', accepted')
  BY GoodIsSound DEF AsyncInv, Good
<1>3. Used(async'.output) \in Nat
  BY <1>2, UsedAndRoom
<1>4. Used(async.output) = accepted - delivered /\ Used(async'.output) = accepted' - delivered'
  BY <1>1, <1>2 DEF Holds
<1> DEFINE d == delivered
           e == delivered'
           c == accepted
           u == Used(async'.output)
<1>5. d \in Int /\ e \in Int /\ c \in Int /\ u \in Int
  BY <1>1, <1>3
<1>6. c - d = 0 /\ e >= d /\ u = c - e /\ u >= 0
  BY <1>3, <1>4
<1> HIDE DEF c, d, e, u
<1>7. u = 0
  BY <1>5, <1>6
<1> QED BY <1>7 DEF u

\* mpd_sync_recv_raw() takes from the input buffer what follows.
LEMMA RawIsNext ==
    ASSUME AsyncInv, NEW n \in RawSizes
    PROVE  /\ RawLength(n) \in Nat /\ RawLength(n) <= n
           /\ Used(async.input) = 0 => RawLength(n) = 0
           /\ Used(async.input) > 0 => RawLength(n) > 0
           /\ SubSeq(Contents(async.input), 1, RawLength(n)) = Bytes(taken, RawLength(n))
<1>1. /\ Contents(async.input) = Bytes(taken, arrived - taken) /\ arrived - taken \in 0 .. Size
      /\ taken \in Nat /\ arrived \in Nat
  BY ContentsOf DEF AsyncInv
<1>2. Used(async.input) = arrived - taken /\ Size \in Nat
  BY SizeAssumption DEF AsyncInv, Good, Holds
<1>3. n \in Int /\ n > 0 /\ Used(async.input) \in Int /\ Used(async.input) >= 0
  BY <1>1, <1>2, AsyncAssumption
<1>4. /\ RawLength(n) \in {n, Used(async.input)}
      /\ RawLength(n) <= n /\ RawLength(n) <= Used(async.input)
  <2>1. /\ Least({n, Used(async.input)}) \in {n, Used(async.input)}
        /\ Least({n, Used(async.input)}) <= n
        /\ Least({n, Used(async.input)}) <= Used(async.input)
    BY <1>3, LeastOfTwo
  <2> QED BY <2>1 DEF RawLength
<1>5. RawLength(n) \in 0 .. arrived - taken
  BY <1>2, <1>3, <1>4
<1>6. SubSeq(Bytes(taken, arrived - taken), 1, RawLength(n)) = Bytes(taken, RawLength(n))
  <2>1. arrived - taken \in Nat
    BY <1>1, <1>2
  <2> QED BY <1>1, <1>5, <2>1, BytesBegin
<1> QED BY <1>1, <1>3, <1>4, <1>6

LEMMA RawStep ==
    ASSUME BinaryInv, phase \in {"data", "newline"}, LoopStep, TryRaw
    PROVE  Receiving'
<1> DEFINE n == argument.total
           k == RawLength(n)
<1>1. call = "raw" /\ step = "try" /\ MayGoOn /\ Collected /\ Counted
  BY DEF TryRaw, BinaryInv, Receiving
<1>2. n \in RawSizes /\ n \in Nat /\ n > 0
  <2>1. argument.total \in RawSizes
    BY <1>1 DEF BinaryInv, Arguments
  <2>2. \A i \in RawSizes : i \in Nat /\ i > 0
    BY AsyncAssumption
  <2> HIDE DEF n
  <2>3. n \in RawSizes
    BY <2>1 DEF n
  <2> QED BY <2>2, <2>3
<1>3. /\ k \in Nat /\ k <= n
      /\ Used(async.input) = 0 => k = 0
      /\ Used(async.input) > 0 => k > 0
      /\ SubSeq(Contents(async.input), 1, k) = Bytes(taken, k)
  BY <1>2, RawIsNext DEF BinaryInv
<1>4. /\ phase' = phase /\ chunk' = chunk
      /\ async' = [async EXCEPT !.input = Consumed(async.input, k)] /\ taken' = taken + k
      /\ dest' = dest \o SubSeq(Contents(async.input), 1, k)
  BY <1>1, Zenon DEF LoopStep, TryRaw, RecvRaw, Copied
<1>5. /\ chunk.first \in Nat /\ chunk.wanted \in Nat /\ Len(dest) \in Nat
      /\ dest = Bytes(chunk.first, Len(dest)) /\ taken = chunk.first + Len(dest)
  BY <1>1 DEF BinaryInv, Chunks, Collected
<1> HIDE DEF n, k
<1>6. dest' = Bytes(chunk.first, Len(dest) + k)
  <2> DEFINE f == chunk.first
             m == Len(dest)
  <2>1. f \in Nat /\ m \in Nat /\ k \in Nat
    BY <1>3, <1>5
  <2>2. dest' = Bytes(f, m) \o Bytes(f + m, k)
    BY <1>3, <1>4, <1>5
  <2> HIDE DEF f, m
  <2>3. dest' = Bytes(f, m + k)
    BY <2>1, <2>2, BytesGoOn
  <2> QED BY <2>3 DEF f, m
<1>7. Len(dest') = Len(dest) + k /\ Len(dest') \in Nat
  <2>1. chunk.first \in Nat /\ Len(dest) + k \in Nat
    BY <1>3, <1>5
  <2> QED BY <1>6, <2>1, BytesAre
<1>8. Collected'
  <2>1. dest' = Bytes(chunk'.first, Len(dest'))
    BY <1>4, <1>6, <1>7
  <2>2. taken' = chunk'.first + Len(dest')
    BY <1>3, <1>4, <1>5, <1>7
  <2> QED BY <1>7, <2>1, <2>2 DEF Collected
<1>9. async'.error = async.error /\ async'.output = async.output /\ ~Failed(async')
  BY <1>1, <1>4 DEF BinaryInv, AsyncInv, Good, AsyncObject, MayGoOn, Failed
<1>10. Used(async.input) \in Nat
  BY GoodIsSound, UsedAndRoom DEF BinaryInv, AsyncInv
<1>11. CASE Used(async.input) > 0
  <2>1. call' = "none" /\ result' = "true"
    BY <1>11 DEF TryRaw, Return
  <2>2. MayGoOn'
    BY <1>1, <1>9, <2>1 DEF MayGoOn
  <2>3. Counted'
    BY <1>1, <1>2, <1>3, <1>4, <1>5, <1>7, <1>11, <2>1 DEF Counted, n
  <2> QED BY <1>8, <2>2, <2>3 DEF Receiving
<1>12. CASE Used(async.input) = 0
  <2>1. call' = "raw" /\ step' = "wait" /\ argument' = argument
    BY <1>1, <1>12 DEF TryRaw, Goto
  <2>2. MayGoOn'
    BY <1>1, <1>9, <2>1 DEF MayGoOn
  <2>3. Len(dest') = Len(dest)
    BY <1>3, <1>5, <1>7, <1>12
  <2>4. Counted'
    BY <1>1, <1>4, <2>1, <2>3 DEF Counted
  <2> QED BY <1>8, <2>2, <2>4 DEF Receiving
<1> QED BY <1>10, <1>11, <1>12

LEMMA WaitStep ==
    ASSUME BinaryInv, AsyncInv', phase \in {"data", "newline"}, LoopStep, Ready \/ GiveUp
    PROVE  Receiving'
<1>1. step = "wait" /\ MayGoOn /\ Collected /\ Counted
  BY DEF Ready, GiveUp, BinaryInv, Receiving
<1>2. phase' = phase /\ chunk' = chunk /\ dest' = dest
  BY <1>1 DEF LoopStep, Copied
<1>3. CASE Ready
  <2>1. PICK events \in SUBSET Events(async) : Io(events)
    BY <1>3 DEF Ready
  <2>2. PICK o \in IOs(async, events) :
          /\ async' = o.async /\ delivered' = delivered + o.out
          /\ accepted' = accepted /\ taken' = taken
    BY <2>1 DEF Io
  <2>3. o.async.error \in {async.error, "SYSTEM", "CLOSED"} /\ o.out \in Nat
    BY IOErrors, IOsKeep DEF BinaryInv, AsyncInv
  <2>4. Used(async'.output) = 0
    <3>1. delivered \in Nat
      BY DEF BinaryInv, AsyncInv, Good
    <3> QED BY <1>1, <2>2, <2>3, <3>1, StillNothingToWrite DEF BinaryInv, MayGoOn
  <2>5. async'.error \in {"SUCCESS", "SYSTEM", "CLOSED"}
    BY <1>1, <2>2, <2>3 DEF MayGoOn
  <2>6. CASE Failed(async')
    <3>1. call' = "none" /\ result' = "false"
      BY <1>3, <2>6 DEF Ready, Return
    <3> QED BY <1>1, <1>2, <2>2, <2>4, <2>5, <3>1 DEF Receiving, MayGoOn, Collected, Counted
  <2>7. CASE ~Failed(async')
    <3>1. call' = call /\ step' = "try" /\ argument' = argument /\ result' = result
      BY <1>3, <2>7 DEF Ready, Goto
    <3> QED BY <1>1, <1>2, <2>2, <2>4, <2>5, <2>7, <3>1 DEF Receiving, MayGoOn, Collected, Counted
  <2> QED BY <2>6, <2>7
<1>4. CASE GiveUp
  <2>1. call' = "none" /\ result' = "false" /\ async' = async /\ taken' = taken
    BY <1>4 DEF GiveUp, Return
  <2> QED BY <1>1, <1>2, <2>1 DEF Receiving, MayGoOn, Collected, Counted
<1> QED BY <1>3, <1>4

(***************************************************************************)
(* The invariant is kept                                                   *)
(***************************************************************************)
LEMMA OwnKept ==
    ASSUME BinaryInv, AsyncInv', [BinaryNext]_allVars
    PROVE  (Phases /\ chunk \in Chunks /\ Receiving)'
<1>0. Phases /\ chunk \in Chunks /\ Receiving /\ taken \in Nat
  BY DEF BinaryInv, AsyncInv, Good
<1>1. ASSUME NEW size \in Announced, NEW buffer \in BufferSizes, RecvChunk(size, buffer)
      PROVE  (Phases /\ chunk \in Chunks /\ Receiving)'
  <2> DEFINE n == Retrieved(size, buffer)
  <2>1. n \in Nat /\ 1 .. n \subseteq RawSizes /\ size \in Nat
    BY RetrievedFits, BinaryAssumption
  <2>2. /\ phase = "free" /\ MayReceive /\ Proceeds(n) /\ dest' = <<>>
        /\ chunk' = [first |-> taken, size |-> size, wanted |-> n]
    BY <1>1 DEF RecvChunk
  <2> HIDE DEF n
  <2>3. /\ call' = "raw" /\ step' = "try"
        /\ phase' = IF n > 0 THEN "data" ELSE "newline"
        /\ argument'.total = IF n > 0 THEN n ELSE 1
        /\ connError' = connError /\ async' = async /\ taken' = taken
    BY <2>1, <2>2, ProceedsCalls
  <2>4. Phases' /\ chunk' \in Chunks
    BY <1>0, <2>1, <2>2, <2>3 DEF Phases, Chunks
  <2>5. MayGoOn'
    BY <2>2, <2>3 DEF MayGoOn, MayReceive, Failed
  <2>6. Collected'
    <3>1. Bytes(taken, 0) = <<>>
      BY DEF Bytes
    <3> QED BY <1>0, <2>2, <2>3, <3>1 DEF Collected
  <2>7. Counted'
    BY <2>1, <2>2, <2>3 DEF Counted
  <2> QED BY <2>4, <2>5, <2>6, <2>7 DEF Receiving
<1>2. CASE MoreData
  <2>1. /\ MayReceive /\ MayGoOn /\ Collected /\ Counted /\ phase = "data"
        /\ Missing \in Int
        /\ Missing > 0 => Missing \in RawSizes
    BY <1>2, MoreMayReceive
  <2>2. Proceeds(Missing) /\ chunk' = chunk /\ dest' = dest
    BY <1>2 DEF MoreData
  <2>3. /\ call' = "raw" /\ step' = "try"
        /\ phase' = IF Missing > 0 THEN "data" ELSE "newline"
        /\ argument'.total = IF Missing > 0 THEN Missing ELSE 1
        /\ connError' = connError /\ async' = async /\ taken' = taken
    BY <2>1, <2>2, ProceedsCalls
  <2>4. Phases' /\ chunk' \in Chunks
    BY <1>0, <2>1, <2>2, <2>3 DEF Phases
  <2>5. MayGoOn'
    BY <2>1, <2>3 DEF MayGoOn, MayReceive
  <2>6. Collected'
    BY <2>1, <2>2, <2>3 DEF Collected
  <2>7. chunk.wanted \in Nat /\ Len(dest) \in Nat
    BY <1>0, <2>1 DEF Chunks, Collected
  <2>8. Counted'
    BY <2>1, <2>2, <2>3, <2>7 DEF Counted, Missing
  <2> QED BY <2>4, <2>5, <2>6, <2>8 DEF Receiving
<1>3. ASSUME NEW code \in {"TIMEOUT", "SYSTEM", "MALFORMED", "CLOSED"}, FailsWith(code)
      PROVE  (Phases /\ chunk \in Chunks /\ Receiving)'
  BY <1>3 DEF FailsWith, Phases, Chunks, NoChunk, Receiving
<1>4. CASE NoData
  <2>1. SyncError \in {"TIMEOUT", "SYSTEM", "CLOSED"}
    BY <1>0, <1>4 DEF NoData, Receiving, MayGoOn, SyncError, Failed
  <2> QED BY <1>3, <1>4, <2>1 DEF NoData
<1>5. CASE Newline
  BY <1>0, <1>3, <1>5 DEF Newline, Phases, Chunks, NoChunk, Receiving
<1>6. CASE LoopStep
  <2>1. Phases' /\ chunk' \in Chunks /\ phase' = phase
    BY <1>0, <1>6 DEF LoopStep, Phases
  <2>2. CASE phase \in {"data", "newline"}
    <3>1. call \in {"none", "raw"}
      BY <1>0, <2>2 DEF Receiving, MayGoOn
    <3>2. TryRaw \/ Ready \/ GiveUp
      BY <1>6, <3>1 DEF LoopStep, Run, TrySend, CheckRoom, FlushFirst, TryFlush, TryLine
    <3> QED BY <1>6, <2>1, <2>2, <3>2, RawStep, WaitStep
  <2>3. CASE phase \notin {"data", "newline"}
    BY <2>1, <2>3 DEF Receiving
  <2> QED BY <2>1, <2>2, <2>3
<1>7. CASE OtherCall
  BY <1>0, <1>7 DEF OtherCall, binaryVars, Phases, Receiving
<1>8. CASE Dead \/ UNCHANGED allVars
  BY <1>0, <1>8 DEF Dead, allVars, vars, binaryVars, Phases, Receiving, MayGoOn, Collected,
     Counted, Failed
<1> QED BY <1>1, <1>2, <1>4, <1>5, <1>6, <1>7, <1>8 DEF BinaryNext, Recv

LEMMA BinaryStarts == BinaryInit => BinaryInv
<1> SUFFICES ASSUME BinaryInit PROVE BinaryInv
  OBVIOUS
<1>1. Arguments /\ AsyncInv
  BY ArgumentsStart, AsyncStarts DEF BinaryInit, Init
<1>2. Once
  BY DEF BinaryInit, Init, AsyncInit, Once
<1>3. Phases /\ chunk \in Chunks /\ Receiving
  BY DEF BinaryInit, Phases, Chunks, NoChunk, Receiving
<1> QED BY <1>1, <1>2, <1>3 DEF BinaryInv

LEMMA BinaryKept == BinaryInv /\ [BinaryNext]_allVars => BinaryInv'
<1> SUFFICES ASSUME BinaryInv, [BinaryNext]_allVars PROVE BinaryInv'
  OBVIOUS
<1>1. [Next]_vars
  BY StepIsSyncStep
<1>2. Arguments' /\ AsyncInv' /\ Once'
  BY <1>1, ArgumentsKept, StepIsAsyncStep, AsyncKeeps, OnceKept DEF BinaryInv
<1> QED BY <1>2, OwnKept DEF BinaryInv

\* The inductive invariant holds.
THEOREM BinaryInvariant == BinarySpec => []BinaryInv
BY BinaryStarts, BinaryKept, PTL DEF BinarySpec

(***************************************************************************)
(* What follows                                                            *)
(***************************************************************************)
\* mpd_recv_binary() is a user of the blocking functions like any other: it
\* receives only with no error and nothing to write, and nothing at all that
\* holds for every user is lost by it.
THEOREM BinaryUsesSyncRight == BinarySpec => UsesSyncRight
<1>1. BinaryInit => Init
  BY DEF BinaryInit
<1> QED BY <1>1, BinaryInvariant, StepIsSyncStep, PTL DEF BinarySpec, UsesSyncRight, Spec

\* With chunks between the lines, too, no loop waits for what cannot help.
THEOREM ChunksWaitToSomePurpose == BinarySpec => []WaitsToSomePurpose
BY BinaryUsesSyncRight, LoopsWaitToSomePurpose, PTL DEF UsesSyncRight

\* Unless a request is sent while a pair is held, a line stays what the server
\* sent for as long as the caller may use it; chunks do not disturb it.
THEOREM ChunksKeepLines == ~NoidleWithPair => (BinarySpec => []LineIntact)
BY BinaryUsesSyncRight, LinesStayIntact, PTL DEF UsesSyncRight

\* With chunks, too, only a request that is too long is refused for good.
THEOREM ChunksRefuseOnlyTooLong == BinarySpec => RefusedOnlyIfTooLong
BY BinaryUsesSyncRight, RefusesOnlyTooLong, PTL DEF UsesSyncRight

\* With chunks, too, a line is called too large only when a whole buffer of it
\* has come.
THEOREM ChunksOnlyTooLarge == BinarySpec => TooLargeIsTooLarge
BY BinaryUsesSyncRight, SyncImplementsAsync, OnlyTooLargeIsTooLarge, PTL DEF UsesSyncRight

\* With chunks, too, both streams arrive complete and in order: raw data and
\* lines are taken from one queue.
THEOREM ChunksBehaveAsQueues == BinarySpec => BehavesAsQueues
BY BinaryUsesSyncRight, SyncImplementsAsync, AsyncImplementsQueues, PTL DEF UsesSyncRight

\* A chunk that could not be received leaves an error that cannot be cleared,
\* and no error is set over another.
THEOREM FailuresAreFatal == BinarySpec => []FailureIsFatal
<1>1. BinaryInv => FailureIsFatal
  BY DEF BinaryInv, Phases, Once, FailureIsFatal
<1> QED BY <1>1, BinaryInvariant, PTL

\* What the caller gets is the chunk, byte for byte, and the stream is left at
\* the line behind it.
THEOREM ChunksAreWhole == BinarySpec => ChunkIsWhole
<1>1. ASSUME BinaryInv, [BinaryNext]_allVars
      PROVE  [phase = "newline" /\ phase' = "free" /\ chunk.wanted = chunk.size =>
                /\ SubSeq(dest, 1, chunk.size) = Bytes(chunk.first, chunk.size)
                /\ taken = chunk.first + chunk.size + 1]_allVars
  <2>1. ASSUME phase = "newline", phase' = "free", chunk.wanted = chunk.size
        PROVE  /\ SubSeq(dest, 1, chunk.size) = Bytes(chunk.first, chunk.size)
               /\ taken = chunk.first + chunk.size + 1
    <3>1. Newline
      BY <1>1, <2>1 DEF BinaryNext, Recv, RecvChunk, MoreData, NoData, FailsWith, LoopStep,
         OtherCall, Dead, allVars, binaryVars
    <3>2. call = "none" /\ result = "true"
      BY <3>1 DEF Newline, Idle, Received
    <3>3. Collected /\ Counted /\ chunk \in Chunks
      BY <1>1, <2>1 DEF BinaryInv, Receiving
    <3>4. /\ Len(dest) = chunk.size + 1 /\ chunk.size \in Nat /\ chunk.first \in Nat
          /\ dest = Bytes(chunk.first, Len(dest)) /\ taken = chunk.first + Len(dest)
      BY <2>1, <3>2, <3>3 DEF Collected, Counted, Chunks
    <3>5. SubSeq(Bytes(chunk.first, chunk.size + 1), 1, chunk.size)
            = Bytes(chunk.first, chunk.size)
      <4>1. chunk.size + 1 \in Nat /\ chunk.size \in 0 .. chunk.size + 1 /\ chunk.first \in Nat
        BY <3>4
      <4> QED BY <4>1, BytesBegin
    <3> QED BY <3>4, <3>5
  <2> QED BY <2>1
<1> QED BY <1>1, BinaryInvariant, PTL DEF BinarySpec, ChunkIsWhole
=============================================================================
