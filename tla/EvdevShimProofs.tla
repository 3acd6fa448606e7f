---------------------------- MODULE EvdevShimProofs ----------------------------
(***************************************************************************)
(* The shim in one process, for every number of threads, descriptors and   *)
(* effect slots: it acts for its own descriptors only, and plays only what *)
(* was uploaded through them.  With one thread, whose reads nothing        *)
(* interrupts, a joystick's reader is told whole events, all of them, and  *)
(* which belong to the snapshot; with two it is not (run shim_threads).    *)
(***************************************************************************)
EXTENDS EvdevShim, SequenceTheorems, FiniteSetTheorems, WellFoundedInduction, TLAPS

Items == [message : Messages, half : {1, 2}]

LEMMA Concat ==
  ASSUME NEW s \in Bytes, NEW t \in Bytes
  PROVE  /\ s \o t \in Bytes
         /\ Len(s \o t) = Len(s) + Len(t)
         /\ \A i \in 1..Len(s) : (s \o t)[i] = s[i]
         /\ \A i \in 1..Len(t) : (s \o t)[i + Len(s)] = t[i]
         /\ \A i \in (Len(s) + 1)..(Len(s) + Len(t)) : (s \o t)[i] = t[i - Len(s)]
  BY ConcatProperties DEF Bytes

LEMMA Associative ==
  ASSUME NEW a \in Bytes, NEW b \in Bytes, NEW c \in Bytes
  PROVE  (a \o b) \o c = a \o (b \o c)
<1> DEFINE S == [message : Messages, half : {1, 2}]
<1>1. a \in Seq(S) /\ b \in Seq(S) /\ c \in Seq(S) BY DEF Bytes
<1> HIDE DEF S
<1> QED BY <1>1, ConcatAssociative

LEMMA Sub ==
  ASSUME NEW s \in Bytes, NEW m \in 1..(Len(s) + 1), NEW n \in 0..Len(s), m <= n + 1
  PROVE  /\ SubSeq(s, m, n) \in Bytes
         /\ Len(SubSeq(s, m, n)) = n - m + 1
         /\ \A i \in 1..(n - m + 1) : SubSeq(s, m, n)[i] = s[m + i - 1]
<1>0. Len(s) \in Nat /\ \A i \in 1..Len(s) : s[i] \in Items
  BY LenProperties, ElementOfSeq DEF Bytes, Items
<1>1. \A i \in m..n : s[i] \in Items BY <1>0
<1>2. m \in Int /\ n \in Int BY <1>0
<1>3. /\ SubSeq(s, m, n) \in Seq(Items)
      /\ Len(SubSeq(s, m, n)) = IF m <= n THEN n - m + 1 ELSE 0
      /\ \A i \in 1..(n - m + 1) : SubSeq(s, m, n)[i] = s[m + i - 1]
  BY <1>1, <1>2, SubSeqProperties
<1> QED BY <1>3 DEF Bytes, Items

LEMMA Empty ==
  /\ <<>> \in Bytes /\ Len(<<>>) = 0
  /\ \A s \in Bytes : <<>> \o s = s /\ s \o <<>> = s
  /\ \A s \in Bytes : Len(s) \in Nat /\ (Len(s) = 0 => s = <<>>)
<1>1. <<>> \in Bytes /\ Len(<<>>) = 0 BY EmptySeq DEF Bytes
<1>2. \A s \in Bytes : <<>> \o s = s /\ s \o <<>> = s BY ConcatEmptySeq DEF Bytes
<1>3. \A s \in Bytes : Len(s) \in Nat /\ (Len(s) = 0 => s = <<>>)
  BY EmptySeq, LenProperties DEF Bytes
<1> QED BY <1>1, <1>2, <1>3

LEMMA HalvesAre ==
  ASSUME NEW ms \in Seq(Messages)
  PROVE  /\ Halves(ms) \in Bytes /\ Len(Halves(ms)) = 2 * Len(ms)
         /\ \A i \in 1..Len(ms) :
              /\ Halves(ms)[2 * i - 1] = [message |-> ms[i], half |-> 1]
              /\ Halves(ms)[2 * i] = [message |-> ms[i], half |-> 2]
<1>1. Len(ms) \in Nat BY LenProperties
<1>2. \A i \in 1..(2 * Len(ms)) :
        /\ (i + 1) \div 2 \in 1..Len(ms)
        /\ i % 2 \in {0, 1}
  BY <1>1
<1>3. \A i \in 1..(2 * Len(ms)) : Halves(ms)[i] \in Items
  BY <1>2, <1>1, ElementOfSeq DEF Halves, Items
<1>4. Halves(ms) \in [1..(2 * Len(ms)) -> Items]
  BY <1>3 DEF Halves
<1>5. Halves(ms) \in Seq(Items) /\ Len(Halves(ms)) = 2 * Len(ms)
  BY <1>1, <1>4
<1>6. ASSUME NEW i \in 1..Len(ms)
      PROVE /\ Halves(ms)[2 * i - 1] = [message |-> ms[i], half |-> 1]
            /\ Halves(ms)[2 * i] = [message |-> ms[i], half |-> 2]
  <2>1. /\ 2 * i - 1 \in 1..(2 * Len(ms)) /\ 2 * i \in 1..(2 * Len(ms))
        /\ (2 * i - 1 + 1) \div 2 = i /\ (2 * i + 1) \div 2 = i
        /\ (2 * i - 1) % 2 = 1 /\ (2 * i) % 2 = 0
    BY <1>1
  <2> QED BY <2>1 DEF Halves
<1> QED BY <1>5, <1>6 DEF Bytes, Items

WellFramed(s) ==
  \A k \in 1..Len(s) :
    /\ s[k].half = IF k % 2 = 1 THEN 1 ELSE 2
    /\ k % 2 = 0 => s[k].message = s[k - 1].message

\* A stream whose messages are whole, up to a cut.
Good(link, s) ==
  /\ s \in Bytes /\ WellFramed(s)
  /\ link = "up" => Len(s) % 2 = 0

LEMMA GoodEmpty == ASSUME NEW link PROVE Good(link, <<>>) /\ Good(link, <<>> \o <<>>)
<1>1. WellFramed(<<>>) BY Empty DEF WellFramed
<1>2. <<>> \o <<>> = <<>> /\ <<>> \in Bytes /\ Len(<<>>) % 2 = 0 BY Empty
<1> QED BY <1>1, <1>2 DEF Good

\* The bridge puts whole messages behind what it has sent.
LEMMA GoodPut ==
  ASSUME NEW b \in Bytes, NEW c \in Bytes, Good("up", b \o c),
         NEW ms \in Seq(Messages)
  PROVE  /\ c \o Halves(ms) \in Bytes
         /\ b \o (c \o Halves(ms)) = (b \o c) \o Halves(ms)
         /\ Good("up", b \o (c \o Halves(ms)))
<1> DEFINE H == Halves(ms)
           s == b \o c
<1>1. /\ H \in Bytes /\ Len(H) = 2 * Len(ms) /\ Len(ms) \in Nat
      /\ \A i \in 1..Len(ms) : /\ H[2 * i - 1] = [message |-> ms[i], half |-> 1]
                               /\ H[2 * i] = [message |-> ms[i], half |-> 2]
  BY HalvesAre, LenProperties
<1>2. c \o H \in Bytes /\ s \in Bytes BY <1>1, Concat
<1> HIDE DEF H
<1>3. b \o (c \o H) = s \o H BY <1>1, Associative
<1> HIDE DEF s
<1>4. Len(s) \in Nat /\ Len(s) % 2 = 0 BY <1>2, Empty DEF Good, s
<1>5. /\ s \o H \in Bytes /\ Len(s \o H) = Len(s) + 2 * Len(ms)
      /\ \A i \in 1..Len(s) : (s \o H)[i] = s[i]
      /\ \A i \in 1..(2 * Len(ms)) : (s \o H)[i + Len(s)] = H[i]
  <2>1. /\ s \o H \in Bytes /\ Len(s \o H) = Len(s) + Len(H)
        /\ \A i \in 1..Len(s) : (s \o H)[i] = s[i]
        /\ \A i \in 1..Len(H) : (s \o H)[i + Len(s)] = H[i]
    BY <1>1, <1>2, Concat
  <2> QED BY <1>1, <2>1
<1>6. Len(s \o H) % 2 = 0 BY <1>1, <1>4, <1>5
<1>7. ASSUME NEW i \in 1..Len(s \o H)
      PROVE /\ (s \o H)[i].half = IF i % 2 = 1 THEN 1 ELSE 2
            /\ i % 2 = 0 => (s \o H)[i].message = (s \o H)[i - 1].message
  <2>1. CASE i <= Len(s)
    <3>1. i \in 1..Len(s) BY <1>4, <1>5, <2>1
    <3>2. i % 2 = 0 => i - 1 \in 1..Len(s) BY <1>4, <3>1
    <3>3. WellFramed(s) BY DEF Good, s
    <3>4. /\ s[i].half = IF i % 2 = 1 THEN 1 ELSE 2
          /\ i % 2 = 0 => s[i].message = s[i - 1].message
      BY <3>1, <3>3 DEF WellFramed
    <3>5. (s \o H)[i] = s[i] /\ (i % 2 = 0 => (s \o H)[i - 1] = s[i - 1])
      BY <1>5, <3>1, <3>2
    <3> QED BY <3>4, <3>5
  <2>2. CASE i > Len(s)
    <3> DEFINE j == i - Len(s)
               k == (j + 1) \div 2
    <3>0. i \in Nat /\ i <= Len(s) + 2 * Len(ms) BY <1>1, <1>4, <1>5
    <3>1. /\ j \in 1..(2 * Len(ms)) /\ j % 2 = i % 2 /\ i = j + Len(s)
          /\ k \in 1..Len(ms) /\ j = (IF i % 2 = 1 THEN 2 * k - 1 ELSE 2 * k)
      <4>1. j \in 1..(2 * Len(ms)) /\ i = j + Len(s) BY <1>1, <1>4, <2>2, <3>0
      <4>2. j % 2 = i % 2 BY <1>4, <3>0, <2>2
      <4>3. k \in 1..Len(ms) BY <1>1, <4>1
      <4>4. j = (IF j % 2 = 1 THEN 2 * k - 1 ELSE 2 * k) BY <1>1, <4>1
      <4> QED BY <4>1, <4>2, <4>3, <4>4
    <3> HIDE DEF j, k
    <3>2. (s \o H)[i] = H[j] BY <1>5, <3>1
    <3>3. CASE i % 2 = 1
      <4>1. (s \o H)[i] = [message |-> ms[k], half |-> 1] BY <1>1, <3>1, <3>2, <3>3
      <4> QED BY <4>1, <3>3
    <3>4. CASE i % 2 # 1
      <4>0. i % 2 = 0 BY <3>0, <3>4
      <4>1. i % 2 = 0 /\ j = 2 * k BY <3>1, <3>4, <4>0
      <4>2. 2 * k - 1 \in 1..(2 * Len(ms)) /\ i - 1 = (2 * k - 1) + Len(s)
        BY <1>1, <1>4, <3>0, <3>1, <4>1
      <4>3. (s \o H)[i - 1] = H[2 * k - 1] BY <1>5, <4>2
      <4>4. /\ (s \o H)[i] = [message |-> ms[k], half |-> 2]
            /\ (s \o H)[i - 1] = [message |-> ms[k], half |-> 1]
        BY <1>1, <3>1, <3>2, <4>1, <4>3
      <4> QED BY <4>1, <4>4
    <3> QED BY <3>3, <3>4
  <2> QED BY <2>1, <2>2, <1>4
<1>8. WellFramed(s \o H) BY <1>7 DEF WellFramed
<1> QED BY <1>2, <1>3, <1>5, <1>6, <1>8 DEF Good, s, H

\* A connection that is cut keeps a prefix.
LEMMA GoodCut ==
  ASSUME NEW link, NEW b \in Bytes, NEW c \in Bytes, Good(link, b \o c),
         NEW n \in 0..Len(c)
  PROVE  SubSeq(c, 1, n) \in Bytes /\ Good("cut", b \o SubSeq(c, 1, n))
<1> DEFINE p == SubSeq(c, 1, n)
<1>1. Len(b) \in Nat /\ Len(c) \in Nat BY Empty
<1>2. /\ p \in Bytes /\ Len(p) = n /\ \A i \in 1..n : p[i] = c[i]
  BY <1>1, Sub
<1> HIDE DEF p
<1>3. /\ b \o p \in Bytes /\ Len(b \o p) = Len(b) + n /\ Len(b \o c) = Len(b) + Len(c)
      /\ \A i \in 1..Len(b) : (b \o p)[i] = b[i] /\ (b \o c)[i] = b[i]
      /\ \A i \in (Len(b) + 1)..(Len(b) + n) : (b \o p)[i] = p[i - Len(b)]
      /\ \A i \in (Len(b) + 1)..(Len(b) + Len(c)) : (b \o c)[i] = c[i - Len(b)]
  BY <1>2, Concat
<1>4. \A i \in 1..(Len(b) + n) : (b \o p)[i] = (b \o c)[i]
  <2> TAKE i \in 1..(Len(b) + n)
  <2>1. CASE i <= Len(b) BY <1>1, <1>3, <2>1
  <2>0. i \in Nat BY <1>1
  <2>2. CASE i > Len(b)
    <3>1. i - Len(b) \in 1..n /\ i \in (Len(b) + 1)..(Len(b) + n)
          /\ i \in (Len(b) + 1)..(Len(b) + Len(c))
      BY <1>1, <2>2
    <3>2. (b \o p)[i] = p[i - Len(b)] /\ (b \o c)[i] = c[i - Len(b)]
      BY <1>3, <3>1
    <3>3. p[i - Len(b)] = c[i - Len(b)] BY <1>2, <3>1
    <3> QED BY <3>2, <3>3
  <2>3. i <= Len(b) \/ i > Len(b) BY <1>1, <2>0
  <2> QED BY <2>1, <2>2, <2>3, Zenon
<1>5. \A i \in 1..(Len(b) + n) : i % 2 = 0 => i - 1 \in 1..(Len(b) + n)
  BY <1>1
<1>6. WellFramed(b \o p)
  <2>1. \A i \in 1..(Len(b) + n) : i \in 1..Len(b \o c) BY <1>1, <1>3
  <2> QED BY <1>3, <1>4, <1>5, <2>1 DEF Good, WellFramed
<1> QED BY <1>2, <1>3, <1>6 DEF Good, p

\* recv moves what it takes from the channel to the buffer.
LEMMA Take ==
  ASSUME NEW b \in Bytes, NEW c \in Bytes, NEW n \in 1..Len(c)
  PROVE  /\ SubSeq(c, 1, n) \in Bytes /\ SubSeq(c, n + 1, Len(c)) \in Bytes
         /\ b \o SubSeq(c, 1, n) \in Bytes
         /\ Len(b \o SubSeq(c, 1, n)) = Len(b) + n
         /\ (b \o SubSeq(c, 1, n)) \o SubSeq(c, n + 1, Len(c)) = b \o c
<1>1. Len(b) \in Nat /\ Len(c) \in Nat BY Empty
<1>2. /\ SubSeq(c, 1, n) \in Bytes /\ Len(SubSeq(c, 1, n)) = n
      /\ SubSeq(c, n + 1, Len(c)) \in Bytes
  BY <1>1, Sub
<1>3. SubSeq(c, 1, n) \o SubSeq(c, n + 1, Len(c)) = c
  <2>1. SubSeq(c, 1, n) \o SubSeq(c, n + 1, Len(c)) = SubSeq(c, 1, Len(c))
    BY <1>1, ConcatAdjacentSubSeq DEF Bytes
  <2> QED BY <2>1, SubSeqFull DEF Bytes
<1>4. (b \o SubSeq(c, 1, n)) \o SubSeq(c, n + 1, Len(c))
        = b \o (SubSeq(c, 1, n) \o SubSeq(c, n + 1, Len(c)))
  <2> HIDE DEF Bytes
  <2> DEFINE u == SubSeq(c, 1, n)
             v == SubSeq(c, n + 1, Len(c))
  <2>1. u \in Bytes /\ v \in Bytes BY <1>2
  <2> HIDE DEF u, v
  <2>2. (b \o u) \o v = b \o (u \o v) BY <2>1, Associative
  <2> QED BY <2>2 DEF u, v
<1> QED BY <1>2, <1>3, <1>4, Concat

\* The first message of a stream is whole, and what follows it is framed.
LEMMA GoodDrop ==
  ASSUME NEW link, NEW r \in Bytes, NEW t \in Bytes, Len(r) = 2,
         Good(link, r \o t)
  PROVE  /\ Good(link, t) /\ Good(link, <<>> \o t)
         /\ r[1] \in Items /\ r[2] \in Items /\ r[1].message = r[2].message
         /\ r[1].half = 1 /\ r[2].half = 2
<1>1. Len(t) \in Nat BY Empty
<1>2. /\ Len(r \o t) = Len(t) + 2
      /\ (r \o t)[1] = r[1] /\ (r \o t)[2] = r[2]
      /\ \A i \in 1..Len(t) : (r \o t)[i + 2] = t[i]
  <2>1. /\ Len(r \o t) = Len(r) + Len(t)
        /\ \A i \in 1..Len(r) : (r \o t)[i] = r[i]
        /\ \A i \in 1..Len(t) : (r \o t)[i + Len(r)] = t[i]
    BY Concat
  <2>2. 1 \in 1..2 /\ 2 \in 1..2 OBVIOUS
  <2> QED BY <1>1, <2>1, <2>2
<1>3. r[1] \in Items /\ r[2] \in Items
  <2>1. 1 \in 1..Len(r) /\ 2 \in 1..Len(r) OBVIOUS
  <2> QED BY <2>1, ElementOfSeq DEF Bytes, Items
<1>4. \A i \in 1..(Len(t) + 2) :
        /\ (r \o t)[i].half = IF i % 2 = 1 THEN 1 ELSE 2
        /\ i % 2 = 0 => (r \o t)[i].message = (r \o t)[i - 1].message
  BY <1>2 DEF Good, WellFramed
<1>5. /\ r[1].half = 1 /\ r[2].half = 2 /\ r[1].message = r[2].message
  <2>1. 1 \in 1..(Len(t) + 2) /\ 2 \in 1..(Len(t) + 2) BY <1>1
  <2>2. 1 % 2 = 1 /\ 2 % 2 = 0 /\ 2 - 1 = 1 OBVIOUS
  <2> QED BY <1>2, <1>4, <2>1, <2>2
<1>6. ASSUME NEW i \in 1..Len(t)
      PROVE /\ t[i].half = IF i % 2 = 1 THEN 1 ELSE 2
            /\ i % 2 = 0 => t[i].message = t[i - 1].message
  <2> DEFINE m == i + 2
  <2>1. m \in 1..(Len(t) + 2) /\ m % 2 = i % 2 /\ m - 1 = i + 1 BY <1>1
  <2>2. t[i] = (r \o t)[m] BY <1>2
  <2>3. ASSUME i % 2 = 0 PROVE t[i - 1] = (r \o t)[m - 1]
    <3>1. i - 1 \in 1..Len(t) /\ i - 1 + 2 = m - 1 BY <1>1, <2>3
    <3> QED BY <1>2, <3>1
  <2> HIDE DEF m
  <2>4. /\ (r \o t)[m].half = IF m % 2 = 1 THEN 1 ELSE 2
        /\ m % 2 = 0 => (r \o t)[m].message = (r \o t)[m - 1].message
    BY <1>4, <2>1
  <2>5. t[i].half = IF i % 2 = 1 THEN 1 ELSE 2 BY <2>1, <2>2, <2>4
  <2>6. i % 2 = 0 => t[i].message = t[i - 1].message BY <2>1, <2>2, <2>3, <2>4
  <2> QED BY <2>5, <2>6
<1>7. link = "up" => Len(t) % 2 = 0
  <2>1. link = "up" => (Len(t) + 2) % 2 = 0 BY <1>2 DEF Good
  <2> QED BY <1>1, <2>1
<1>8. WellFramed(t) BY <1>6 DEF WellFramed
<1> QED BY <1>3, <1>5, <1>7, <1>8, Empty DEF Good

-----------------------------------------------------------------------------
(* Messages. *)

LEMMA MessageIs ==
  ASSUME NEW snapshot \in BOOLEAN
  PROVE  /\ \A c \in Controls, v \in Values : Event(c, v, snapshot) \in Messages
         /\ Syn(snapshot) \in Messages
  BY DEF Event, Syn, Messages

LEMMA Contents ==
  ASSUME NEW m \in Messages
  PROVE  /\ m.snapshot \in BOOLEAN
         /\ m.type = "syn" => m = Syn(m.snapshot)
         /\ m.type # "syn" => /\ m.type = "event"
                              /\ m.control \in Controls /\ m.value \in Values
  BY DEF Messages, Syn

\* A report names every control once.
LEMMA InOrderIs ==
  ASSUME NEW S \in SUBSET Controls
  PROVE  /\ Cardinality(S) \in Nat
         /\ InOrder(S) \in [1..Cardinality(S) -> S]
         /\ \A i, j \in 1..Cardinality(S) : InOrder(S)[i] = InOrder(S)[j] => i = j
         /\ \A c \in S : \E i \in 1..Cardinality(S) : InOrder(S)[i] = c
<1> DEFINE n == Cardinality(S)
<1>1. IsFiniteSet(S) BY ShimAssumption, FS_Subset
<1>2. n \in Nat /\ ExistsBijection(1..n, S) BY <1>1, FS_CardinalityType
<1>3. PICK g \in Bijection(1..n, S) : TRUE BY <1>2 DEF ExistsBijection
<1>4. /\ g \in [1..n -> S]
      /\ \A i, j \in 1..n : g[i] = g[j] => i = j
  BY <1>3 DEF Bijection, Injection, IsInjective
<1>5. /\ InOrder(S) \in [1..n -> S]
      /\ \A i, j \in 1..n : InOrder(S)[i] = InOrder(S)[j] => i = j
  BY <1>4 DEF InOrder
<1>6. InOrder(S) \in Injection(1..n, S)
  BY <1>5 DEF Injection, IsInjective
<1>7. Cardinality(1..n) = n BY <1>2, FS_Interval
<1>8. InOrder(S) \in Surjection(1..n, S)
  BY <1>1, <1>6, <1>7, FS_Injection
<1> QED BY <1>2, <1>5, <1>8 DEF Surjection

LEMMA BatchIs ==
  ASSUME NEW S \in SUBSET Controls, NEW values \in States, NEW snapshot \in BOOLEAN
  PROVE  LET B == Batch(S, values, snapshot)
         IN  /\ B \in Seq(Messages) /\ Len(B) = Cardinality(S) + 1
             /\ \A i \in 1..Cardinality(S) :
                  B[i] = Event(InOrder(S)[i], values[InOrder(S)[i]], snapshot)
             /\ B[Cardinality(S) + 1] = Syn(snapshot)
<1> DEFINE n == Cardinality(S)
           order == InOrder(S)
           events == [i \in 1..n |-> Event(order[i], values[order[i]], snapshot)]
<1>1. n \in Nat /\ order \in [1..n -> S] BY InOrderIs
<1> HIDE DEF n, order
<1>2. \A i \in 1..n : Event(order[i], values[order[i]], snapshot) \in Messages
  BY <1>1, MessageIs DEF States
<1>3. events \in Seq(Messages) /\ Len(events) = n
  BY <1>1, <1>2
<1>4. \A i \in 1..n : events[i] = Event(order[i], values[order[i]], snapshot) OBVIOUS
<1>5. Syn(snapshot) \in Messages BY MessageIs
<1> DEFINE syn == Syn(snapshot)
<1> HIDE DEF events, syn
<1>6. /\ Append(events, syn) \in Seq(Messages) /\ Len(Append(events, syn)) = n + 1
      /\ \A i \in 1..n : Append(events, syn)[i] = events[i]
      /\ Append(events, syn)[n + 1] = syn
  BY <1>1, <1>3, <1>5 DEF syn
<1>7. Batch(S, values, snapshot) = Append(events, syn)
  BY DEF Batch, events, order, n, syn
<1> QED BY <1>4, <1>6, <1>7 DEF n, order, syn
-----------------------------------------------------------------------------
(* What a stream leads to. *)

EventAt(s, i, c) ==
  s[i].half = 2 /\ s[i].message.type = "event" /\ s[i].message.control = c

Silent(s, c) == \A i \in 1..Len(s) : ~EventAt(s, i, c)

\* The last event of control c in stream s has the value v.
Ends(s, c, v) ==
  \E i \in 1..Len(s) : /\ EventAt(s, i, c) /\ s[i].message.value = v
                       /\ \A j \in 1..Len(s) : EventAt(s, j, c) => j <= i

\* A reader in state st that consumes s is in state values then.
Leads(st, s, values) ==
  \A c \in Controls : Ends(s, c, values[c]) \/ (Silent(s, c) /\ st[c] = values[c])

LEMMA LeadsIsDrained ==
  ASSUME NEW st \in States, NEW values \in States, NEW s \in Bytes,
         Leads(st, s, values)
  PROVE  Drained(st, s) = values
<1> DEFINE ends(c) == {i \in 1..Len(s) : /\ s[i].half = 2
                                         /\ s[i].message.type = "event"
                                         /\ s[i].message.control = c}
           final(c) == IF ends(c) = {} THEN st[c]
                       ELSE s[CHOOSE i \in ends(c) : \A j \in ends(c) : j <= i].message.value
<1>1. ASSUME NEW c \in Controls PROVE final(c) = values[c]
  <2> DEFINE e == ends(c)
             m == CHOOSE i \in e : \A j \in e : j <= i
  <2>1. \A i : i \in e <=> i \in 1..Len(s) /\ EventAt(s, i, c) BY DEF EventAt
  <2>2. final(c) = IF e = {} THEN st[c] ELSE s[m].message.value OBVIOUS
  <2> HIDE DEF e, ends, final
  <2>3. CASE Silent(s, c) /\ st[c] = values[c]
    <3>1. e = {} BY <2>1, <2>3 DEF Silent
    <3> QED BY <2>2, <2>3, <3>1
  <2>4. CASE Ends(s, c, values[c])
    <3>1. PICK i \in 1..Len(s) : /\ EventAt(s, i, c) /\ s[i].message.value = values[c]
                                 /\ \A j \in 1..Len(s) : EventAt(s, j, c) => j <= i
      BY <2>4 DEF Ends
    <3>2. i \in e /\ \A j \in e : j <= i BY <2>1, <3>1
    <3>3. m \in e /\ \A j \in e : j <= m BY <3>2
    <3>4. m = i
      <4>1. m <= i /\ i <= m BY <3>2, <3>3
      <4>2. m \in Int /\ i \in Int BY <2>1, <3>3, Empty
      <4> HIDE DEF m
      <4> QED BY <4>1, <4>2
    <3> HIDE DEF m
    <3> QED BY <2>2, <3>1, <3>2, <3>4
  <2>5. Ends(s, c, values[c]) \/ (Silent(s, c) /\ st[c] = values[c]) BY DEF Leads
  <2> QED BY <2>3, <2>4, <2>5
<1>2. Drained(st, s) = [c \in Controls |-> final(c)] BY DEF Drained
<1> HIDE DEF final
<1>3. Drained(st, s) = [c \in Controls |-> values[c]] BY <1>1, <1>2
<1> QED BY <1>3 DEF States

\* What is put behind a stream decides what the stream ends with.
LEMMA EndsPut ==
  ASSUME NEW s \in Bytes, NEW h \in Bytes, NEW c, NEW v
  PROVE  /\ Ends(h, c, v) => Ends(s \o h, c, v)
         /\ Silent(h, c) /\ Ends(s, c, v) => Ends(s \o h, c, v)
         /\ Silent(h, c) /\ Silent(s, c) => Silent(s \o h, c)
<1>1. Len(s) \in Nat /\ Len(h) \in Nat BY Empty
<1>2. /\ Len(s \o h) = Len(s) + Len(h)
      /\ \A i \in 1..Len(s) : (s \o h)[i] = s[i]
      /\ \A i \in 1..Len(h) : (s \o h)[i + Len(s)] = h[i]
  BY Concat
<1> DEFINE u == s \o h
<1> HIDE DEF u
<1>3. /\ \A i \in 1..Len(s) : i \in 1..Len(u) /\ (EventAt(u, i, c) <=> EventAt(s, i, c))
                              /\ u[i] = s[i]
      /\ \A i \in 1..Len(h) : /\ i + Len(s) \in 1..Len(u) /\ u[i + Len(s)] = h[i]
                              /\ EventAt(u, i + Len(s), c) <=> EventAt(h, i, c)
  BY <1>1, <1>2 DEF EventAt, u
<1>4. \A j \in 1..Len(u) : j \in 1..Len(s) \/ (j > Len(s) /\ j - Len(s) \in 1..Len(h)
                                               /\ (j - Len(s)) + Len(s) = j)
  BY <1>1, <1>2 DEF u
<1>5. ASSUME NEW j \in 1..Len(u), EventAt(u, j, c)
      PROVE  \/ j \in 1..Len(s) /\ EventAt(s, j, c)
             \/ j > Len(s) /\ j - Len(s) \in 1..Len(h) /\ EventAt(h, j - Len(s), c)
  <2>1. CASE j \in 1..Len(s) BY <1>3, <1>5, <2>1
  <2>2. CASE j > Len(s) /\ j - Len(s) \in 1..Len(h) /\ (j - Len(s)) + Len(s) = j
    <3> DEFINE i == j - Len(s)
    <3>1. i \in 1..Len(h) /\ i + Len(s) = j BY <2>2
    <3> HIDE DEF i
    <3>2. EventAt(h, i, c) BY <1>3, <1>5, <3>1
    <3> QED BY <2>2, <3>2 DEF i
  <2> QED BY <1>4, <2>1, <2>2
<1>6. ASSUME Ends(h, c, v) PROVE Ends(u, c, v)
  <2>1. PICK i \in 1..Len(h) : /\ EventAt(h, i, c) /\ h[i].message.value = v
                               /\ \A j \in 1..Len(h) : EventAt(h, j, c) => j <= i
    BY <1>6 DEF Ends
  <2>2. /\ i + Len(s) \in 1..Len(u) /\ EventAt(u, i + Len(s), c)
        /\ u[i + Len(s)].message.value = v
    BY <1>3, <2>1
  <2>3. ASSUME NEW j \in 1..Len(u), EventAt(u, j, c) PROVE j <= i + Len(s)
    <3>0. j \in Int /\ i \in Nat BY <1>1
    <3>1. CASE j \in 1..Len(s) BY <1>1, <3>0, <3>1
    <3>2. CASE j - Len(s) \in 1..Len(h) /\ EventAt(h, j - Len(s), c)
      <4>1. j - Len(s) <= i BY <2>1, <3>2
      <4> QED BY <1>1, <3>0, <4>1
    <3> QED BY <1>5, <2>3, <3>1, <3>2
  <2> QED BY <2>2, <2>3 DEF Ends
<1>7. ASSUME Silent(h, c), Ends(s, c, v) PROVE Ends(u, c, v)
  <2>1. PICK i \in 1..Len(s) : /\ EventAt(s, i, c) /\ s[i].message.value = v
                               /\ \A j \in 1..Len(s) : EventAt(s, j, c) => j <= i
    BY <1>7 DEF Ends
  <2>2. i \in 1..Len(u) /\ EventAt(u, i, c) /\ u[i].message.value = v BY <1>3, <2>1
  <2>3. ASSUME NEW j \in 1..Len(u), EventAt(u, j, c) PROVE j <= i
    BY <1>5, <1>7, <2>1, <2>3 DEF Silent
  <2> QED BY <2>2, <2>3 DEF Ends
<1>8. ASSUME Silent(h, c), Silent(s, c) PROVE Silent(u, c)
  BY <1>5, <1>8 DEF Silent
<1> QED BY <1>6, <1>7, <1>8 DEF u

\* Messages that have one event of a control, or none.
LEMMA EndsHalves ==
  ASSUME NEW ms \in Seq(Messages), NEW c \in Controls, NEW v
  PROVE  /\ (\E k \in 1..Len(ms) :
               /\ ms[k].type = "event" /\ ms[k].control = c /\ ms[k].value = v
               /\ \A j \in 1..Len(ms) : ms[j].type = "event" /\ ms[j].control = c => j = k)
            => Ends(Halves(ms), c, v)
         /\ (\A j \in 1..Len(ms) : ~(ms[j].type = "event" /\ ms[j].control = c))
            => Silent(Halves(ms), c)
<1> DEFINE H == Halves(ms)
<1>1. Len(ms) \in Nat BY LenProperties
<1>2. /\ Len(H) = 2 * Len(ms)
      /\ \A i \in 1..Len(ms) : /\ H[2 * i - 1] = [message |-> ms[i], half |-> 1]
                               /\ H[2 * i] = [message |-> ms[i], half |-> 2]
  BY HalvesAre
<1> HIDE DEF H
<1>3. ASSUME NEW i \in 1..Len(H), EventAt(H, i, c)
      PROVE  \E k \in 1..Len(ms) : i = 2 * k /\ ms[k].type = "event" /\ ms[k].control = c
  <2> DEFINE k == (i + 1) \div 2
  <2>1. k \in 1..Len(ms) /\ (i = 2 * k - 1 \/ i = 2 * k) BY <1>1, <1>2
  <2> HIDE DEF k
  <2>2. i # 2 * k - 1
    <3>1. ASSUME i = 2 * k - 1 PROVE FALSE
      <4>1. H[2 * k - 1].half = 1
        <5>1. H[2 * k - 1] = [message |-> ms[k], half |-> 1] BY <1>2, <2>1
        <5> QED BY <5>1
      <4> QED BY <1>3, <3>1, <4>1 DEF EventAt
    <3> QED BY <3>1
  <2>3. H[i] = [message |-> ms[k], half |-> 2] BY <1>2, <2>1, <2>2
  <2>4. ms[k].type = "event" /\ ms[k].control = c BY <1>3, <2>3 DEF EventAt
  <2> QED BY <2>1, <2>2, <2>4
<1>4. ASSUME NEW k \in 1..Len(ms),
             ms[k].type = "event", ms[k].control = c, ms[k].value = v,
             \A j \in 1..Len(ms) : ms[j].type = "event" /\ ms[j].control = c => j = k
      PROVE  Ends(H, c, v)
  <2>1. 2 * k \in 1..Len(H) BY <1>1, <1>2
  <2>2. H[2 * k] = [message |-> ms[k], half |-> 2] BY <1>2
  <2>3. EventAt(H, 2 * k, c) /\ H[2 * k].message.value = v BY <1>4, <2>2 DEF EventAt
  <2>4. ASSUME NEW i \in 1..Len(H), EventAt(H, i, c) PROVE i <= 2 * k
    <3>1. PICK j \in 1..Len(ms) : i = 2 * j /\ ms[j].type = "event" /\ ms[j].control = c
      BY <1>3, <2>4
    <3>2. i = 2 * k BY <1>4, <3>1
    <3> QED BY <2>1, <3>2, <1>1
  <2> QED BY <2>1, <2>3, <2>4 DEF Ends
<1>5. ASSUME \A j \in 1..Len(ms) : ~(ms[j].type = "event" /\ ms[j].control = c)
      PROVE  Silent(H, c)
  BY <1>3, <1>5 DEF Silent
<1> QED BY <1>4, <1>5 DEF H

\* A report tells of its controls and of no other.
LEMMA BatchEnds ==
  ASSUME NEW S \in SUBSET Controls, NEW values \in States, NEW snapshot \in BOOLEAN,
         NEW c \in Controls
  PROVE  LET H == Halves(Batch(S, values, snapshot))
         IN  /\ c \in S => Ends(H, c, values[c])
             /\ c \notin S => Silent(H, c)
<1> DEFINE n == Cardinality(S)
           R == Batch(S, values, snapshot)
           order == InOrder(S)
<1>1. /\ n \in Nat /\ order \in [1..n -> S]
      /\ \A i, j \in 1..n : order[i] = order[j] => i = j
      /\ \A d \in S : \E i \in 1..n : order[i] = d
  BY InOrderIs
<1>2. /\ R \in Seq(Messages) /\ Len(R) = n + 1 /\ R[n + 1] = Syn(snapshot)
      /\ \A i \in 1..n : R[i] = Event(order[i], values[order[i]], snapshot)
  BY BatchIs
<1> HIDE DEF n, R, order
<1>3. ASSUME NEW j \in 1..Len(R), R[j].type = "event"
      PROVE  j \in 1..n /\ R[j].control = order[j] /\ order[j] \in S
  <2>1. j # n + 1 BY <1>2, <1>3 DEF Syn
  <2>2. j \in 1..n BY <1>1, <1>2, <2>1
  <2>3. R[j] = Event(order[j], values[order[j]], snapshot) BY <1>2, <2>2
  <2>4. R[j].control = order[j] BY <2>3 DEF Event
  <2> QED BY <1>1, <2>2, <2>4
<1>4. ASSUME c \in S PROVE Ends(Halves(R), c, values[c])
  <2>1. PICK k \in 1..n : order[k] = c BY <1>1, <1>4
  <2>2. k \in 1..Len(R) /\ R[k] = Event(c, values[c], snapshot) BY <1>1, <1>2, <2>1
  <2>3. R[k].type = "event" /\ R[k].control = c /\ R[k].value = values[c]
    BY <2>2 DEF Event
  <2>4. \A j \in 1..Len(R) : R[j].type = "event" /\ R[j].control = c => j = k
    BY <1>1, <1>3, <2>1
  <2> QED BY <1>2, <2>2, <2>3, <2>4, EndsHalves
<1>5. ASSUME c \notin S PROVE Silent(Halves(R), c)
  <2>1. \A j \in 1..Len(R) : ~(R[j].type = "event" /\ R[j].control = c)
    BY <1>3, <1>5
  <2> QED BY <1>2, <2>1, EndsHalves
<1> QED BY <1>4, <1>5 DEF R

\* What an event does to the state a reader was told.
Told(st, m) == IF m.type = "syn" THEN st ELSE [st EXCEPT ![m.control] = m.value]

\* A message that is taken from the stream and applied to the state.
LEMMA EndsTake ==
  ASSUME NEW st \in States, NEW values \in States,
         NEW r \in Bytes, NEW t \in Bytes, Len(r) = 2,
         r[1].message = r[2].message, r[1].half = 1, r[2].half = 2,
         r[1].message \in Messages, Leads(st, r \o t, values)
  PROVE  Leads(Told(st, r[1].message), t, values)
<1> DEFINE s == r \o t
           m == r[1].message
           next == Told(st, m)
<1>1. Len(t) \in Nat BY Empty
<1>2. /\ Len(s) = Len(t) + 2 /\ s[1] = r[1] /\ s[2] = r[2]
      /\ \A i \in 1..Len(t) : s[i + 2] = t[i]
  <2>1. /\ Len(r \o t) = Len(r) + Len(t)
        /\ \A i \in 1..Len(r) : (r \o t)[i] = r[i]
        /\ \A i \in 1..Len(t) : (r \o t)[i + Len(r)] = t[i]
    BY Concat
  <2>2. 1 \in 1..2 /\ 2 \in 1..2 OBVIOUS
  <2> QED BY <1>1, <2>1, <2>2
<1>3. (m.type = "event" /\ m.control \in Controls) \/ m.type = "syn" BY Contents
<1>4. \A c \in Controls :
        next[c] = IF m.type = "event" /\ m.control = c THEN m.value ELSE st[c]
  BY <1>3 DEF Told, States
<1>5. Leads(st, s, values) OBVIOUS
<1>6. s[2].message = m /\ s[2].half = 2 /\ s[1].half = 1 BY <1>2
<1> HIDE DEF s, m, next
<1> SUFFICES ASSUME NEW c \in Controls
             PROVE  Ends(t, c, values[c]) \/ (Silent(t, c) /\ next[c] = values[c])
  BY DEF Leads, next, m
<1>7. \A i \in 1..Len(t) : i + 2 \in 1..Len(s) /\ (EventAt(s, i + 2, c) <=> EventAt(t, i, c))
  BY <1>1, <1>2 DEF EventAt
<1>8. 2 \in 1..Len(s) /\ (EventAt(s, 2, c) <=> m.type = "event" /\ m.control = c)
  BY <1>1, <1>2, <1>6 DEF EventAt
<1>9. CASE Silent(s, c) /\ st[c] = values[c]
  <2>1. Silent(t, c) BY <1>7, <1>9 DEF Silent
  <2>2. ~(m.type = "event" /\ m.control = c) BY <1>8, <1>9 DEF Silent
  <2> QED BY <1>4, <1>9, <2>1, <2>2
<1>10. CASE Ends(s, c, values[c])
  <2>1. PICK i \in 1..Len(s) : /\ EventAt(s, i, c) /\ s[i].message.value = values[c]
                               /\ \A j \in 1..Len(s) : EventAt(s, j, c) => j <= i
    BY <1>10 DEF Ends
  <2>2. CASE i <= 2
    <3>1. i # 1 BY <1>6, <2>1 DEF EventAt
    <3>2. i = 2 BY <1>1, <1>2, <2>2, <3>1
    <3>3. Silent(t, c)
      <4>1. ASSUME NEW j \in 1..Len(t), EventAt(t, j, c) PROVE FALSE
        <5>1. j + 2 <= 2 BY <1>7, <2>1, <3>2, <4>1
        <5> QED BY <1>1, <5>1
      <4> QED BY <4>1 DEF Silent
    <3>4. m.type = "event" /\ m.control = c /\ m.value = values[c]
      BY <1>6, <1>8, <2>1, <3>2
    <3> QED BY <1>4, <3>3, <3>4
  <2>3. CASE i > 2
    <3> DEFINE k == i - 2
    <3>1. k \in 1..Len(t) /\ k + 2 = i BY <1>1, <1>2, <2>3
    <3> HIDE DEF k
    <3>2. EventAt(t, k, c) /\ t[k].message.value = values[c] BY <1>2, <1>7, <2>1, <3>1
    <3>3. ASSUME NEW j \in 1..Len(t), EventAt(t, j, c) PROVE j <= k
      <4>1. j + 2 <= k + 2 BY <1>7, <2>1, <3>1, <3>3
      <4> QED BY <1>1, <3>1, <4>1
    <3> QED BY <3>1, <3>2, <3>3 DEF Ends
  <2> QED BY <1>1, <1>2, <2>2, <2>3
<1> QED BY <1>5, <1>9, <1>10 DEF Leads

\* A report of what has changed, behind a stream that leads to the old state.
LEMMA ReportLeads ==
  ASSUME NEW st \in States, NEW values \in States, NEW next \in States,
         NEW s \in Bytes, Leads(st, s, values)
  PROVE  LET H == Halves(Batch({c \in Controls : next[c] # values[c]}, next, FALSE))
         IN  Leads(st, s \o H, next)
<1> DEFINE S == {c \in Controls : next[c] # values[c]}
           H == Halves(Batch(S, next, FALSE))
<1>1. S \in SUBSET Controls /\ \A c \in Controls : c \notin S => next[c] = values[c]
  OBVIOUS
<1> HIDE DEF S
<1>2. H \in Bytes BY <1>1, BatchIs, HalvesAre
<1>3. \A c \in Controls : /\ c \in S => Ends(H, c, next[c])
                          /\ c \notin S => Silent(H, c)
  BY <1>1, BatchEnds
<1> HIDE DEF H
<1>4. ASSUME NEW c \in Controls
      PROVE  Ends(s \o H, c, next[c]) \/ (Silent(s \o H, c) /\ st[c] = next[c])
  <2>1. CASE c \in S BY <1>2, <1>3, <2>1, EndsPut
  <2>2. CASE c \notin S
    <3>1. Silent(H, c) /\ next[c] = values[c] BY <1>1, <1>3, <2>2
    <3>2. Ends(s, c, values[c]) \/ (Silent(s, c) /\ st[c] = values[c]) BY DEF Leads
    <3> QED BY <1>2, <3>1, <3>2, EndsPut
  <2> QED BY <2>1, <2>2
<1>5. Leads(st, s \o H, next) BY <1>4 DEF Leads
<1> QED BY <1>5 DEF H, S

\* A snapshot leads any reader to the state it is of.
LEMMA SnapshotLeads ==
  ASSUME NEW st, NEW values \in States
  PROVE  Leads(st, Halves(Batch(Controls, values, TRUE)), values)
<1>1. Controls \in SUBSET Controls OBVIOUS
<1> QED BY <1>1, BatchEnds DEF Leads
-----------------------------------------------------------------------------
(* The inductive invariants. *)

Entry(fd, joydev) ==
  \E i \in 1..fake_count : fake_fds[i].fd = fd /\ fake_fds[i].joydev = joydev

\* The table has each descriptor once, and open, and every effect in use is one
\* of an event descriptor's uploads.
TableOK ==
  /\ \A i \in 1..fake_count :
       /\ file[fake_fds[i].fd].kind = IF fake_fds[i].joydev THEN "joy" ELSE "event"
       /\ \A j \in 1..fake_count : fake_fds[j].fd = fake_fds[i].fd => i = j
  /\ \A id \in DOMAIN effect_slots : LET s == effect_slots[id] IN
       s.used => /\ Entry(s.fd, FALSE)
                 /\ [low |-> s.low, high |-> s.high] \in uploaded[s.fd]

IInv == TypeOK /\ TableOK /\ OwnEffectsOnly

\* A read has an entry of the table, if not always its own.
ReadersOK == \A t \in Threads : Waiting(t) => reader[t].fake # 0

OneThread == \A t, u \in Threads : t = u

\* As long as the snapshot's SYN_REPORT is to come, everything up to it is of
\* the snapshot; before and after, nothing is.
Marked(initializing, s) ==
  IF initializing
  THEN \E n \in 1..Len(s) :
         /\ n % 2 = 0
         /\ \A k \in 1..Len(s) : /\ s[k].message.snapshot <=> k <= n
                                 /\ s[k].message = Syn(TRUE) <=> k \in {n - 1, n}
  ELSE \A k \in 1..Len(s) : ~s[k].message.snapshot

\* A joystick with entry f and descriptor g: its stream is whole, leads a
\* reader in state st to the values v, and has what is of the snapshot in front.
Sound(f, g, st, v) ==
  /\ Len(f.raw) <= 1 /\ g.link # "closed"
  /\ Good(g.link, f.raw \o g.chan)
  /\ g.link = "up" => /\ Leads(st, f.raw \o g.chan, v)
                      /\ Marked(f.initializing, f.raw \o g.chan)

\* A read has its joystick's entry, and every joystick is sound.
JoyOK ==
  /\ \A t \in Threads : Waiting(t) =>
       /\ reader[t].fake \in Joysticks
       /\ fake_fds[reader[t].fake].fd = reader[t].fd
  /\ \A i \in Joysticks : LET fd == fake_fds[i].fd
                          IN Sound(fake_fds[i], file[fd], seen[fd], val)
-----------------------------------------------------------------------------
(* The marks of the snapshot. *)

LEMMA HalvesOf ==
  ASSUME NEW ms \in Seq(Messages), NEW k \in 1..Len(Halves(ms))
  PROVE  /\ Halves(ms)[k].message = ms[(k + 1) \div 2]
         /\ (k + 1) \div 2 \in 1..Len(ms) /\ k \in 1..(2 * Len(ms))
<1>1. Len(ms) \in Nat BY LenProperties
<1>2. k \in 1..(2 * Len(ms)) BY HalvesAre
<1>3. (k + 1) \div 2 \in 1..Len(ms) BY <1>1, <1>2
<1>4. Halves(ms)[k] = [message |-> ms[(k + 1) \div 2], half |-> IF k % 2 = 1 THEN 1 ELSE 2]
  BY <1>2 DEF Halves
<1> QED BY <1>2, <1>3, <1>4

LEMMA BatchMarks ==
  ASSUME NEW S \in SUBSET Controls, NEW values \in States, NEW snapshot \in BOOLEAN
  PROVE  LET H == Halves(Batch(S, values, snapshot))
         IN  /\ H \in Bytes /\ Len(H) = 2 * (Cardinality(S) + 1) /\ Cardinality(S) \in Nat
             /\ \A k \in 1..Len(H) :
                  /\ H[k].message.snapshot = snapshot
                  /\ H[k].message = Syn(snapshot) <=> k \in {Len(H) - 1, Len(H)}
<1> DEFINE n == Cardinality(S)
           B == Batch(S, values, snapshot)
           order == InOrder(S)
           H == Halves(B)
<1>1. n \in Nat BY InOrderIs
<1>2. /\ B \in Seq(Messages) /\ Len(B) = n + 1 /\ B[n + 1] = Syn(snapshot)
      /\ \A i \in 1..n : B[i] = Event(order[i], values[order[i]], snapshot)
  BY BatchIs
<1> HIDE DEF n, B, order
<1>3. H \in Bytes /\ Len(H) = 2 * (n + 1) BY <1>2, HalvesAre
<1>4. \A k \in 1..Len(H) : H[k].message = B[(k + 1) \div 2] /\ (k + 1) \div 2 \in 1..(n + 1)
  BY <1>2, HalvesOf
<1> HIDE DEF H
<1>5. ASSUME NEW k \in 1..Len(H)
      PROVE  /\ H[k].message.snapshot = snapshot
             /\ H[k].message = Syn(snapshot) <=> k \in {Len(H) - 1, Len(H)}
  <2> DEFINE i == (k + 1) \div 2
  <2>1. H[k].message = B[i] /\ i \in 1..(n + 1) BY <1>4
  <2>2. i = n + 1 <=> k \in {Len(H) - 1, Len(H)} BY <1>1, <1>3
  <2> HIDE DEF i
  <2>3. CASE i = n + 1 BY <1>2, <2>1, <2>2, <2>3 DEF Syn
  <2>4. CASE i # n + 1
    <3>1. i \in 1..n BY <1>1, <2>1, <2>4
    <3>2. B[i] = Event(order[i], values[order[i]], snapshot) BY <1>2, <3>1
    <3>3. B[i].snapshot = snapshot /\ B[i].type = "event" BY <3>2 DEF Event
    <3>4. Syn(snapshot).type = "syn" BY DEF Syn
    <3> QED BY <2>1, <2>2, <2>4, <3>3, <3>4
  <2> QED BY <2>3, <2>4
<1> QED BY <1>1, <1>3, <1>5 DEF H, B, n

LEMMA SnapshotMarked ==
  ASSUME NEW values \in States
  PROVE  Marked(TRUE, Halves(Batch(Controls, values, TRUE)))
<1> DEFINE H == Halves(Batch(Controls, values, TRUE))
           n == Cardinality(Controls)
<1>0. Controls \in SUBSET Controls OBVIOUS
<1>1. /\ Len(H) = 2 * (n + 1) /\ n \in Nat
      /\ \A k \in 1..Len(H) : /\ H[k].message.snapshot = TRUE
                              /\ H[k].message = Syn(TRUE) <=> k \in {Len(H) - 1, Len(H)}
  BY <1>0, BatchMarks
<1> HIDE DEF H, n
<1>2. Len(H) \in 1..Len(H) /\ Len(H) % 2 = 0 /\ \A k \in 1..Len(H) : k <= Len(H)
  BY <1>1
<1>3. Marked(TRUE, H) BY <1>1, <1>2 DEF Marked
<1> QED BY <1>3 DEF H

\* A report is no part of the snapshot.
LEMMA ReportMarked ==
  ASSUME NEW b \in BOOLEAN, NEW s \in Bytes, NEW h \in Bytes, Marked(b, s),
         \A k \in 1..Len(h) : h[k].message.snapshot = FALSE
  PROVE  Marked(b, s \o h)
<1>1. Len(s) \in Nat /\ Len(h) \in Nat BY Empty
<1>2. /\ Len(s \o h) = Len(s) + Len(h)
      /\ \A i \in 1..Len(s) : (s \o h)[i] = s[i]
      /\ \A i \in (Len(s) + 1)..(Len(s) + Len(h)) : (s \o h)[i] = h[i - Len(s)]
  BY Concat
<1> DEFINE u == s \o h
<1>3. \A k \in 1..Len(u) : \/ k \in 1..Len(s) /\ u[k] = s[k]
                           \/ k > Len(s) /\ ~u[k].message.snapshot
  <2> TAKE k \in 1..Len(u)
  <2>1. CASE k <= Len(s) BY <1>1, <1>2, <2>1
  <2>2. CASE k > Len(s)
    <3>1. k \in (Len(s) + 1)..(Len(s) + Len(h)) /\ k - Len(s) \in 1..Len(h)
      BY <1>1, <1>2, <2>2
    <3> QED BY <1>2, <2>2, <3>1
  <2> QED BY <1>1, <1>2, <2>1, <2>2
<1>4. Len(u) \in Nat /\ Len(s) <= Len(u) BY <1>1, <1>2
<1> HIDE DEF u
<1>5. CASE b
  <2>1. PICK n \in 1..Len(s) :
          /\ n % 2 = 0
          /\ \A k \in 1..Len(s) : /\ s[k].message.snapshot <=> k <= n
                                  /\ s[k].message = Syn(TRUE) <=> k \in {n - 1, n}
    BY <1>5 DEF Marked
  <2>2. ASSUME NEW k \in 1..Len(u)
        PROVE  /\ u[k].message.snapshot <=> k <= n
               /\ u[k].message = Syn(TRUE) <=> k \in {n - 1, n}
    <3>1. CASE k \in 1..Len(s) /\ u[k] = s[k] BY <2>1, <3>1
    <3>2. CASE k > Len(s) /\ ~u[k].message.snapshot
      <4>1. ~(k <= n) /\ k \notin {n - 1, n} BY <1>1, <1>4, <3>2
      <4>2. u[k].message # Syn(TRUE) BY <3>2 DEF Syn
      <4> QED BY <3>2, <4>1, <4>2
    <3> QED BY <1>3, <3>1, <3>2
  <2>3. n \in 1..Len(u) BY <1>1, <1>4
  <2> QED BY <1>5, <2>1, <2>2, <2>3 DEF Marked, u
<1>6. CASE ~b BY <1>3, <1>6 DEF Marked, u
<1> QED BY <1>5, <1>6

\* SYN_REPORT ends the initialization, and no other event does.
LEMMA TakeMarked ==
  ASSUME NEW b \in BOOLEAN, NEW r \in Bytes, NEW t \in Bytes, Len(r) = 2,
         Good("up", r \o t), Marked(b, r \o t)
  PROVE  Marked(b /\ r[1].message.type # "syn", t)
<1>1. Len(t) \in Nat BY Empty
<1>2. /\ Len(r \o t) = Len(t) + 2
      /\ (r \o t)[1] = r[1] /\ (r \o t)[2] = r[2]
      /\ \A i \in 1..Len(t) : (r \o t)[i + 2] = t[i]
  <2>1. /\ Len(r \o t) = Len(r) + Len(t)
        /\ \A i \in 1..Len(r) : (r \o t)[i] = r[i]
        /\ \A i \in 1..Len(t) : (r \o t)[i + Len(r)] = t[i]
    BY Concat
  <2>2. 1 \in 1..2 /\ 2 \in 1..2 OBVIOUS
  <2> QED BY <1>1, <2>1, <2>2
<1>3. /\ r[1] \in Items /\ r[1].message = r[2].message BY GoodDrop
<1> DEFINE u == r \o t
           m == r[1].message
<1>4. /\ m \in Messages /\ 1 \in 1..Len(u) /\ 2 \in 1..Len(u)
      /\ u[1].message = m /\ u[2].message = m
      /\ \A i \in 1..Len(t) : i + 2 \in 1..Len(u) /\ u[i + 2] = t[i]
  BY <1>1, <1>2, <1>3 DEF Items
<1>5. m.snapshot \in BOOLEAN /\ (m.type = "syn" => m = Syn(m.snapshot)) BY <1>4, Contents
<1>6. Marked(b, u) OBVIOUS
<1>7. Len(u) = Len(t) + 2 BY <1>2
<1> HIDE DEF u, m
<1>8. CASE ~b
  <2>1. \A k \in 1..Len(t) : ~t[k].message.snapshot BY <1>4, <1>6, <1>8 DEF Marked
  <2> QED BY <1>8, <2>1 DEF Marked
<1>9. CASE b
  <2>1. PICK n \in 1..Len(u) :
          /\ n % 2 = 0
          /\ \A k \in 1..Len(u) : /\ u[k].message.snapshot <=> k <= n
                                  /\ u[k].message = Syn(TRUE) <=> k \in {n - 1, n}
    BY <1>6, <1>9 DEF Marked
  <2>0. n \in Nat /\ n >= 2 BY <1>1, <1>7, <2>1
  <2>2. m.snapshot = TRUE
    <3>1. u[1].message.snapshot BY <1>4, <2>0, <2>1
    <3> QED BY <1>4, <1>5, <3>1
  <2>3. CASE m.type = "syn"
    <3>1. u[1].message = Syn(TRUE) BY <1>4, <1>5, <2>2, <2>3
    <3>2. 1 \in {n - 1, n} BY <1>4, <2>1, <3>1
    <3>3. n = 2 BY <2>0, <3>2
    <3>4. \A k \in 1..Len(t) : ~t[k].message.snapshot
      <4> TAKE k \in 1..Len(t)
      <4>1. k + 2 \in 1..Len(u) /\ ~(k + 2 <= n) BY <1>1, <1>4, <3>3
      <4> QED BY <1>4, <2>1, <4>1
    <3> QED BY <2>3, <3>4 DEF Marked, m
  <2>4. CASE m.type # "syn"
    <3>1. n # 2
      <4>1. n = 2 => u[2].message = Syn(TRUE) BY <1>4, <2>1
      <4>2. Syn(TRUE).type = "syn" BY DEF Syn
      <4> QED BY <1>4, <2>4, <4>1, <4>2
    <3> DEFINE p == n - 2
    <3>2. p \in 1..Len(t) /\ p % 2 = 0 /\ n = p + 2 BY <1>1, <1>7, <2>0, <2>1, <3>1
    <3> HIDE DEF p
    <3>3. ASSUME NEW k \in 1..Len(t)
          PROVE  /\ t[k].message.snapshot <=> k <= p
                 /\ t[k].message = Syn(TRUE) <=> k \in {p - 1, p}
      <4>0. k + 2 \in 1..Len(u) /\ u[k + 2] = t[k] BY <1>4
      <4> DEFINE i == k + 2
      <4> HIDE DEF i
      <4>3. i \in 1..Len(u) => /\ u[i].message.snapshot <=> i <= n
                               /\ u[i].message = Syn(TRUE) <=> i \in {n - 1, n}
        BY <2>1
      <4>1. /\ t[k].message.snapshot <=> k + 2 <= n
            /\ t[k].message = Syn(TRUE) <=> k + 2 \in {n - 1, n}
        BY <4>0, <4>3 DEF i
      <4>2. (k + 2 <= n <=> k <= p) /\ (k + 2 \in {n - 1, n} <=> k \in {p - 1, p})
        BY <1>1, <3>2
      <4> QED BY <4>1, <4>2
    <3> QED BY <1>9, <2>4, <3>2, <3>3 DEF Marked, m
  <2> QED BY <2>3, <2>4
<1> QED BY <1>8, <1>9 DEF m
-----------------------------------------------------------------------------
(* Types, the table and the effects. *)

Files == [kind : {"closed", "other", "event", "joy"}, nonblock : BOOLEAN,
          link : {"closed", "up", "cut"}, chan : Bytes]

Slots == [used : BOOLEAN, fd : Fds, low : 0..Full, high : 0..Full]

Entries == [fd : Fds, joydev : BOOLEAN, initializing : BOOLEAN, raw : Bytes]

\* TypeOK with its parts named.
LEMMA Types ==
  TypeOK <=>
    /\ file \in [Fds -> Files]
    /\ val \in States /\ faults \in 0..MaxFaults
    /\ playing \in [Fds -> Strengths]
    /\ fake_count \in 0..TG_MAX_FAKE_FDS
    /\ fake_fds \in [1..TG_MAX_FAKE_FDS -> Entries]
    /\ effect_slots \in [0..(TG_MAX_EFFECTS - 1) -> Slots]
    /\ ff_gain \in 0..Full
    /\ reader \in [Threads -> [fd : Fds, fake : 0..TG_MAX_FAKE_FDS, room : 0..2]]
    /\ seen \in [Fds -> States] /\ uploaded \in [Fds -> SUBSET Strengths]
  BY DEF TypeOK, Files, Slots, Entries

LEMMA Numbers ==
  /\ Full \in Nat \ {0} /\ Half \in Nat \ {0} /\ 2 * Half <= Full
  /\ Fds \subseteq Nat /\ 0 \in Fds
  /\ TG_MAX_EFFECTS \in Nat \ {0} /\ TG_MAX_FAKE_FDS \in Nat \ {0}
  /\ MaxFaults \in Nat /\ MaxQueue \in Nat
  BY ShimAssumption DEF Full, Fds

LEMMA Fixed ==
  /\ NoFile \in Files /\ NoFile.kind = "closed"
  /\ Other \in Files /\ Other.kind = "other"
  /\ Neutral \in States /\ Off \in Strengths
  /\ Unused \in Entries /\ FreeSlot \in Slots /\ FreeSlot.used = FALSE
  /\ Idle \in [fd : Fds, fake : 0..TG_MAX_FAKE_FDS, room : 0..2]
<1>1. <<>> \in Bytes BY Empty
<1>2. /\ NoFile \in Files /\ NoFile.kind = "closed"
      /\ Other \in Files /\ Other.kind = "other"
  BY <1>1 DEF NoFile, Other, Files
<1>3. Neutral \in States BY ShimAssumption DEF Neutral, States
<1>4. /\ Off \in Strengths /\ Unused \in Entries
      /\ FreeSlot \in Slots /\ FreeSlot.used = FALSE
      /\ Idle \in [fd : Fds, fake : 0..TG_MAX_FAKE_FDS, room : 0..2]
  BY <1>1, Numbers DEF Off, Strengths, Unused, Entries, FreeSlot, Slots, Idle
<1> QED BY <1>2, <1>3, <1>4

\* A descriptor number is free before it is given out.
LEMMA LowestIsFree ==
  ASSUME \E fd \in Fds : file[fd].kind = "closed"
  PROVE  LowestFree \in Fds /\ file[LowestFree].kind = "closed"
<1> DEFINE Free == {fd \in Fds : file[fd].kind = "closed"}
<1>1. Free \subseteq Nat /\ Free # {} BY Numbers
<1>2. PICK fd \in Free : \A g \in Free : ~(<<g, fd>> \in OpToRel(<, Nat))
  BY <1>1, NatLessThanWellFounded, WFMin
<1>3. ASSUME NEW g \in 0..(fd - 1) PROVE file[g].kind # "closed"
  <2>1. fd \in Nat /\ fd \in 0..MaxFd /\ g \in Nat /\ g < fd
    BY <1>1 DEF Fds
  <2>2. g \in Fds BY <2>1, ShimAssumption DEF Fds
  <2>3. CASE g \in Free
    <3>1. <<g, fd>> \in Nat \X Nat /\ <<g, fd>>[1] < <<g, fd>>[2]
      BY <2>1
    <3>2. <<g, fd>> \in OpToRel(<, Nat) BY <3>1, Zenon DEF OpToRel
    <3> QED BY <1>2, <2>3, <3>2
  <2> QED BY <2>2, <2>3
<1> QED BY <1>2, <1>3 DEF LowestFree

LEMMA Found ==
  ASSUME TableOK, NEW fd
  PROVE  \/ tg_find_fake_fd(fd) = 0 /\ \A i \in 1..fake_count : fake_fds[i].fd # fd
         \/ /\ tg_find_fake_fd(fd) \in 1..fake_count
            /\ fake_fds[tg_find_fake_fd(fd)].fd = fd
<1> DEFINE found == {i \in 1..fake_count : fake_fds[i].fd = fd}
<1>1. CASE found = {} BY <1>1 DEF tg_find_fake_fd
<1>2. CASE found # {}
  <2>1. PICK i \in found : TRUE BY <1>2
  <2>2. \A j \in found : i = j BY <2>1 DEF TableOK
  <2>3. \A j \in found : i <= j
    <3>1. i <= i BY <2>1
    <3> QED BY <2>2, <3>1
  <2>4. (CHOOSE k \in found : \A j \in found : k <= j) \in found BY <2>1, <2>3
  <2> QED BY <1>2, <2>4 DEF tg_find_fake_fd
<1> QED BY <1>1, <1>2

\* The search and the table agree.
LEMMA FakedIsEntry ==
  ASSUME TypeOK, TableOK, NEW fd, NEW joydev
  PROVE  Faked(fd, joydev) <=> Entry(fd, joydev)
<1> DEFINE k == tg_find_fake_fd(fd)
<1>1. \/ k = 0 /\ \A i \in 1..fake_count : fake_fds[i].fd # fd
      \/ k \in 1..fake_count /\ fake_fds[k].fd = fd
  BY Found
<1>2. Faked(fd, joydev) <=> k # 0 /\ fake_fds[k].joydev = joydev BY DEF Faked
<1>3. fake_count \in Nat BY DEF TypeOK
<1> HIDE DEF k
<1>4. CASE k = 0 BY <1>1, <1>2, <1>4 DEF Entry
<1>5. CASE k # 0
  <2>1. k \in 1..fake_count /\ fake_fds[k].fd = fd BY <1>1, <1>5
  <2>2. \A i \in 1..fake_count : fake_fds[i].fd = fd => i = k BY <2>1 DEF TableOK
  <2> QED BY <1>2, <1>5, <2>1, <2>2 DEF Entry
<1> QED BY <1>4, <1>5

LEMMA EntryIsOpen ==
  ASSUME TableOK, NEW fd, NEW joydev, Entry(fd, joydev)
  PROVE  file[fd].kind = IF joydev THEN "joy" ELSE "event"
  BY DEF TableOK, Entry

LEMMA EntryInFds == ASSUME TypeOK, NEW fd, NEW joydev, Entry(fd, joydev) PROVE fd \in Fds
<1>1. PICK i \in 1..fake_count : fake_fds[i].fd = fd BY DEF Entry
<1>2. i \in 1..TG_MAX_FAKE_FDS BY Numbers DEF TypeOK
<1> QED BY <1>1, <1>2, Types DEF Entries

\* A step that leaves the table, the effects and every open descriptor's kind.
LEMMA TableKept ==
  ASSUME TypeOK, TableOK, effect_slots' = effect_slots, uploaded' = uploaded,
         fake_count' = fake_count,
         \A i \in 1..fake_count : /\ fake_fds'[i].fd = fake_fds[i].fd
                                  /\ fake_fds'[i].joydev = fake_fds[i].joydev,
         \A fd \in Fds : file[fd].kind # "closed" => file'[fd].kind = file[fd].kind
  PROVE  TableOK'
<1>1. \A i \in 1..fake_count : fake_fds[i].fd \in Fds
  <2> TAKE i \in 1..fake_count
  <2>1. i \in 1..TG_MAX_FAKE_FDS BY Numbers DEF TypeOK
  <2> QED BY <2>1, Types DEF Entries
<1>2. ASSUME NEW i \in 1..fake_count'
      PROVE  /\ file'[fake_fds'[i].fd].kind = IF fake_fds'[i].joydev THEN "joy" ELSE "event"
             /\ \A j \in 1..fake_count' : fake_fds'[j].fd = fake_fds'[i].fd => i = j
  <2>1. i \in 1..fake_count OBVIOUS
  <2>2. /\ file[fake_fds[i].fd].kind = IF fake_fds[i].joydev THEN "joy" ELSE "event"
        /\ \A j \in 1..fake_count : fake_fds[j].fd = fake_fds[i].fd => i = j
    BY <2>1 DEF TableOK
  <2>3. file'[fake_fds[i].fd].kind = file[fake_fds[i].fd].kind BY <1>1, <2>1, <2>2
  <2> QED BY <2>1, <2>2, <2>3
<1>3. ASSUME NEW id \in DOMAIN effect_slots, effect_slots[id].used
      PROVE  /\ \E i \in 1..fake_count' : /\ fake_fds'[i].fd = effect_slots[id].fd
                                          /\ fake_fds'[i].joydev = FALSE
             /\ [low |-> effect_slots[id].low, high |-> effect_slots[id].high]
                  \in uploaded[effect_slots[id].fd]
  BY <1>3 DEF TableOK, Entry
<1> QED BY <1>2, <1>3 DEF TableOK, Entry

\* Motors that stop or go on playing what was uploaded.
LEMMA EffectsKept ==
  ASSUME OwnEffectsOnly,
         \A fd \in Fds : \/ playing'[fd] = Off
                         \/ playing'[fd] = playing[fd] /\ uploaded[fd] \subseteq uploaded'[fd]
  PROVE  OwnEffectsOnly'
<1> SUFFICES ASSUME NEW fd \in Fds, playing'[fd] # Off
             PROVE  \E strength \in uploaded'[fd], gain \in 0..Full :
                      playing'[fd] = Scaled(strength, gain)
  BY DEF OwnEffectsOnly, Full, Scaled, Off
<1>1. playing'[fd] = playing[fd] /\ uploaded[fd] \subseteq uploaded'[fd] OBVIOUS
<1> QED BY <1>1 DEF OwnEffectsOnly
-----------------------------------------------------------------------------
(* Strengths. *)

LEMMA StrengthIs == ASSUME NEW e \in Effects PROVE Strength(e) \in Strengths
<1>1. /\ e.type \in EffectTypes
      /\ IF e.type = "rumble" THEN e.x \in 0..Full /\ e.y \in 0..Full
         ELSE e.x \in (-Half - 1)..Half /\ e.y \in (-Half - 1)..Half
  BY ShimAssumption
<1>2. CASE e.type = "rumble" BY <1>1, <1>2 DEF Strength, Strengths
<1>3. CASE e.type # "rumble"
  <2>1. \A v \in (-Half - 1)..Half : tg_scaled_abs(v) \in 0..Full
    BY Numbers DEF tg_scaled_abs, Abs
  <2> DEFINE x == tg_scaled_abs(e.x)
             y == tg_scaled_abs(e.y)
  <2>2. x \in 0..Full /\ y \in 0..Full BY <1>1, <1>3, <2>1
  <2>3. Larger(x, y) \in 0..Full BY <2>2 DEF Larger
  <2>4. Strength(e) = CASE e.type = "rumble"    -> [low |-> e.x, high |-> e.y]
                        [] e.type = "constant"  -> [low |-> x, high |-> x]
                        [] e.type = "ramp"      -> [low |-> Larger(x, y), high |-> Larger(x, y)]
                        [] e.type = "condition" -> [low |-> x, high |-> y]
    BY DEF Strength
  <2> HIDE DEF x, y
  <2>5. e.type \in {"constant", "ramp", "condition"} BY <1>1, <1>3 DEF EffectTypes
  <2> QED BY <1>3, <2>2, <2>3, <2>4, <2>5 DEF Strengths
<1> QED BY <1>2, <1>3

\* A gain never makes an effect stronger.
LEMMA Quotient ==
  ASSUME NEW F \in Nat \ {0}, NEW a \in 0..F, NEW g \in 0..F
  PROVE  (a * g) \div F \in 0..F
<1> DEFINE p == a * g
           q == p \div F
<1>1. p \in Nat /\ p <= F * F
  <2>1. a * g \in Nat OBVIOUS
  <2>2. a * g <= F * g /\ F * g <= F * F BY SMT
  <2>3. F * g \in Nat /\ F * F \in Nat OBVIOUS
  <2> QED BY <2>1, <2>2, <2>3
<1> HIDE DEF p
<1>2. q \in Int /\ F * q <= p /\ p < F * q + F
  BY <1>1
<1>3. q >= 0 BY <1>1
<1>4. q <= F
  <2> HIDE DEF q
  <2>1. CASE q >= F + 1
    <3>1. F * q >= F * (F + 1) BY <1>2, <2>1
    <3>2. F * (F + 1) = F * F + F OBVIOUS
    <3>3. F * q \in Int /\ F * F \in Int BY <1>2
    <3> QED BY <1>1, <1>2, <3>1, <3>2, <3>3
  <2> QED BY <1>2, <2>1
<1> QED BY <1>2, <1>3, <1>4 DEF p

LEMMA ScaledIs ==
  ASSUME NEW s \in Strengths, NEW gain \in 0..Full
  PROVE  Scaled(s, gain) \in Strengths
<1>1. s.low \in 0..Full /\ s.high \in 0..Full BY DEF Strengths
<1>2. (s.low * gain) \div Full \in 0..Full /\ (s.high * gain) \div Full \in 0..Full
  BY <1>1, Numbers, Quotient
<1> QED BY <1>2 DEF Scaled, Strengths
-----------------------------------------------------------------------------
(* What is true with any number of threads. *)

LEMMA InitIInv == Init => IInv
<1> SUFFICES ASSUME Init PROVE IInv OBVIOUS
<1>1. TypeOK
  <2>1. /\ file \in [Fds -> Files] /\ playing \in [Fds -> Strengths]
        /\ fake_fds \in [1..TG_MAX_FAKE_FDS -> Entries]
        /\ effect_slots \in [0..(TG_MAX_EFFECTS - 1) -> Slots]
        /\ reader \in [Threads -> [fd : Fds, fake : 0..TG_MAX_FAKE_FDS, room : 0..2]]
        /\ seen \in [Fds -> States] /\ uploaded \in [Fds -> SUBSET Strengths]
    BY Fixed DEF Init
  <2>2. val \in States /\ faults \in 0..MaxFaults /\ fake_count \in 0..TG_MAX_FAKE_FDS
        /\ ff_gain \in 0..Full
    BY Numbers DEF Init
  <2> QED BY <2>1, <2>2, Types
<1>2. TableOK
  <2>1. fake_count = 0 /\ \A i \in 1..fake_count : FALSE BY DEF Init
  <2>2. \A id \in DOMAIN effect_slots : ~effect_slots[id].used BY Fixed DEF Init
  <2> QED BY <2>1, <2>2 DEF TableOK
<1>3. OwnEffectsOnly BY DEF Init, OwnEffectsOnly
<1> QED BY <1>1, <1>2, <1>3 DEF IInv

LEMMA OpenIInv ==
  ASSUME IInv, NEW joydev \in BOOLEAN, NEW nonblock \in BOOLEAN, Open(joydev, nonblock)
  PROVE  IInv'
<1> DEFINE fd == LowestFree
           f == [kind |-> IF joydev THEN "joy" ELSE "event",
                 nonblock |-> joydev /\ nonblock, link |-> "up",
                 chan |-> IF joydev THEN Halves(Batch(Controls, val, TRUE)) ELSE <<>>]
<1>1. TypeOK /\ TableOK /\ OwnEffectsOnly BY DEF IInv
<1>2. fd \in Fds /\ file[fd].kind = "closed" BY LowestIsFree DEF Open
<1>3. /\ file' = [file EXCEPT ![fd] = f] /\ tg_add_fake_fd(fd, joydev)
      /\ UNCHANGED <<val, faults, playing, effect_slots, ff_gain, reader, seen, uploaded>>
  BY DEF Open, service, effects
<1>4. f \in Files
  <2>1. Controls \in SUBSET Controls /\ val \in States BY <1>1, Types
  <2>2. Halves(Batch(Controls, val, TRUE)) \in Bytes /\ <<>> \in Bytes
    BY <2>1, BatchMarks, Empty
  <2> QED BY <2>2 DEF Files
<1>5. f.kind = IF joydev THEN "joy" ELSE "event" OBVIOUS
<1> HIDE DEF fd, f
<1>6. \A i \in 1..fake_count : i \in 1..TG_MAX_FAKE_FDS /\ fake_fds[i].fd \in Fds
                               /\ fake_fds[i].fd # fd
  <2> TAKE i \in 1..fake_count
  <2>1. i \in 1..TG_MAX_FAKE_FDS BY <1>1, Numbers DEF TypeOK
  <2>2. fake_fds[i].fd \in Fds BY <1>1, <2>1, Types DEF Entries
  <2> QED BY <1>1, <1>2, <2>1, <2>2 DEF TableOK
<1>7. file' \in [Fds -> Files] BY <1>1, <1>3, <1>4, Types
<1>8. \A g \in Fds : file'[g] = IF g = fd THEN f ELSE file[g] BY <1>1, <1>3, Types
<1>9. OwnEffectsOnly' BY <1>1, <1>3, EffectsKept
<1>10. CASE UNCHANGED table
  <2>1. TypeOK' BY <1>1, <1>3, <1>7, <1>10 DEF table, TypeOK, Files, Slots, Entries
  <2>2. TableOK' BY <1>1, <1>2, <1>3, <1>8, <1>10, TableKept DEF table
  <2> QED BY <1>9, <2>1, <2>2 DEF IInv
<1>11. CASE ~UNCHANGED table
  <2> DEFINE n == fake_count + 1
             e == [Unused EXCEPT !.fd = fd, !.joydev = joydev, !.initializing = joydev]
  <2>1. /\ fake_count < TG_MAX_FAKE_FDS /\ fake_count' = n
        /\ fake_fds' = [fake_fds EXCEPT ![n] = e]
    BY <1>1, <1>3, <1>11, Numbers DEF tg_add_fake_fd, TypeOK
  <2>2. n \in 1..TG_MAX_FAKE_FDS /\ fake_count \in Nat BY <1>1, <2>1, Numbers DEF TypeOK
  <2>3. e \in Entries /\ e.fd = fd /\ e.joydev = joydev
    BY <1>2, Fixed DEF Entries, Unused
  <2> HIDE DEF e
  <2>4. /\ fake_fds' \in [1..TG_MAX_FAKE_FDS -> Entries] /\ fake_fds'[n] = e
        /\ \A i \in 1..fake_count : fake_fds'[i] = fake_fds[i]
    BY <1>1, <1>6, <2>1, <2>2, <2>3, Types
  <2>5. \A i \in 1..n : i = n \/ i \in 1..fake_count BY <2>2
  <2>6. TypeOK'
    <3>1. fake_count' \in 0..TG_MAX_FAKE_FDS BY <2>1, <2>2
    <3> QED BY <1>1, <1>3, <1>7, <2>4, <3>1 DEF TypeOK, Files, Slots, Entries
  <2>7. ASSUME NEW i \in 1..n
        PROVE  /\ file'[fake_fds'[i].fd].kind
                    = IF fake_fds'[i].joydev THEN "joy" ELSE "event"
               /\ \A j \in 1..n : fake_fds'[j].fd = fake_fds'[i].fd => i = j
    <3>1. CASE i = n
      <4>1. fake_fds'[i].fd = fd /\ fake_fds'[i].joydev = joydev BY <2>3, <2>4, <3>1
      <4>2. \A j \in 1..fake_count : fake_fds'[j].fd # fd BY <1>6, <2>4
      <4> QED BY <1>2, <1>5, <1>8, <2>5, <3>1, <4>1, <4>2
    <3>2. CASE i \in 1..fake_count
      <4>1. /\ file[fake_fds[i].fd].kind = IF fake_fds[i].joydev THEN "joy" ELSE "event"
            /\ \A j \in 1..fake_count : fake_fds[j].fd = fake_fds[i].fd => i = j
        BY <1>1, <3>2 DEF TableOK
      <4>2. file'[fake_fds[i].fd] = file[fake_fds[i].fd] BY <1>6, <1>8, <3>2
      <4>3. fake_fds'[n].fd # fake_fds[i].fd BY <1>6, <2>3, <2>4, <3>2
      <4> QED BY <2>4, <2>5, <3>2, <4>1, <4>2, <4>3
    <3> QED BY <2>5, <3>1, <3>2
  <2>8. ASSUME NEW id \in DOMAIN effect_slots, effect_slots[id].used
        PROVE  /\ \E i \in 1..n : /\ fake_fds'[i].fd = effect_slots[id].fd
                                  /\ fake_fds'[i].joydev = FALSE
               /\ [low |-> effect_slots[id].low, high |-> effect_slots[id].high]
                    \in uploaded[effect_slots[id].fd]
    <3>1. /\ Entry(effect_slots[id].fd, FALSE)
          /\ [low |-> effect_slots[id].low, high |-> effect_slots[id].high]
               \in uploaded[effect_slots[id].fd]
      BY <1>1, <2>8 DEF TableOK
    <3>2. PICK i \in 1..fake_count : /\ fake_fds[i].fd = effect_slots[id].fd
                                     /\ fake_fds[i].joydev = FALSE
      BY <3>1 DEF Entry
    <3>3. i \in 1..n BY <2>2
    <3> QED BY <2>4, <3>1, <3>2, <3>3
  <2> HIDE DEF n
  <2>9. TableOK'
    <3>1. effect_slots' = effect_slots /\ uploaded' = uploaded /\ fake_count' = n
      BY <1>3, <2>1
    <3>2. \A id \in DOMAIN effect_slots' : effect_slots'[id].used =>
            /\ \E i \in 1..fake_count' : /\ fake_fds'[i].fd = effect_slots'[id].fd
                                         /\ fake_fds'[i].joydev = FALSE
            /\ [low |-> effect_slots'[id].low, high |-> effect_slots'[id].high]
                 \in uploaded'[effect_slots'[id].fd]
      BY <2>8, <3>1
    <3>3. \A i \in 1..fake_count' :
            /\ file'[fake_fds'[i].fd].kind
                 = IF fake_fds'[i].joydev THEN "joy" ELSE "event"
            /\ \A j \in 1..fake_count' : fake_fds'[j].fd = fake_fds'[i].fd => i = j
      BY <2>7, <3>1
    <3> QED BY <3>2, <3>3 DEF TableOK, Entry
  <2> QED BY <1>9, <2>6, <2>9 DEF IInv
<1> QED BY <1>10, <1>11

LEMMA OpenOtherIInv == ASSUME IInv, OpenOther PROVE IInv'
<1>1. TypeOK /\ TableOK /\ OwnEffectsOnly BY DEF IInv
<1>2. LowestFree \in Fds /\ file[LowestFree].kind = "closed"
  BY LowestIsFree DEF OpenOther
<1>3. /\ file' = [file EXCEPT ![LowestFree] = Other]
      /\ UNCHANGED <<val, faults, playing, fake_fds, fake_count, effect_slots, ff_gain,
                     reader, seen, uploaded>>
  BY DEF OpenOther, service, effects, table
<1>4. TypeOK' BY <1>1, <1>3, Fixed DEF TypeOK, Files, Slots, Entries
<1>5. \A g \in Fds : file[g].kind # "closed" => file'[g].kind = file[g].kind
  BY <1>1, <1>2, <1>3, Types
<1>6. TableOK' BY <1>1, <1>3, <1>5, TableKept
<1>7. OwnEffectsOnly' BY <1>1, <1>3, EffectsKept
<1> QED BY <1>4, <1>6, <1>7 DEF IInv

LEMMA UploadIInv ==
  ASSUME IInv, NEW fd \in Fds, NEW asked \in -1..TG_MAX_EFFECTS, NEW e \in Effects,
         tg_upload_effect(fd, asked, e)
  PROVE  IInv'
<1> DEFINE s == Strength(e)
           slot == [used |-> TRUE, fd |-> fd, low |-> s.low, high |-> s.high]
<1>1. TypeOK /\ TableOK /\ OwnEffectsOnly BY DEF IInv
<1>2. s \in Strengths BY StrengthIs
<1>3. PICK id \in UploadIds(fd, asked) : effect_slots' = [effect_slots EXCEPT ![id] = slot]
  BY DEF tg_upload_effect
<1>4. id \in 0..(TG_MAX_EFFECTS - 1) BY DEF UploadIds, FreeIds
<1>5. Entry(fd, FALSE) BY <1>1, FakedIsEntry DEF tg_upload_effect
<1>6. /\ uploaded' = [uploaded EXCEPT ![fd] = @ \union {s}]
      /\ UNCHANGED <<file, val, faults, playing, fake_fds, fake_count, ff_gain, reader, seen>>
  BY DEF tg_upload_effect, service, table
<1> HIDE DEF s
<1>7. [low |-> slot.low, high |-> slot.high] = s BY <1>2 DEF Strengths
<1>8. slot \in Slots /\ slot.fd = fd BY <1>2 DEF Slots, Strengths
<1> HIDE DEF slot
<1>9. TypeOK' BY <1>1, <1>2, <1>3, <1>4, <1>6, <1>8 DEF TypeOK, Files, Slots, Entries
<1>10. \A g \in Fds : uploaded'[g] = IF g = fd THEN uploaded[g] \union {s} ELSE uploaded[g]
  BY <1>1, <1>6, Types
<1>11. /\ DOMAIN effect_slots' = 0..(TG_MAX_EFFECTS - 1)
       /\ DOMAIN effect_slots = 0..(TG_MAX_EFFECTS - 1)
       /\ \A k \in 0..(TG_MAX_EFFECTS - 1) :
            effect_slots'[k] = IF k = id THEN slot ELSE effect_slots[k]
  BY <1>1, <1>3, <1>4, Types
<1>12. ASSUME NEW k \in 0..(TG_MAX_EFFECTS - 1), effect_slots'[k].used
       PROVE  /\ Entry(effect_slots'[k].fd, FALSE)
              /\ [low |-> effect_slots'[k].low, high |-> effect_slots'[k].high]
                   \in uploaded'[effect_slots'[k].fd]
  <2>1. CASE k = id BY <1>5, <1>7, <1>8, <1>10, <1>11, <2>1
  <2>2. CASE k # id
    <3>1. effect_slots'[k] = effect_slots[k] /\ effect_slots[k].fd \in Fds
      BY <1>1, <1>11, <2>2, Types DEF Slots
    <3>2. /\ Entry(effect_slots[k].fd, FALSE)
          /\ [low |-> effect_slots[k].low, high |-> effect_slots[k].high]
               \in uploaded[effect_slots[k].fd]
      BY <1>1, <1>11, <1>12, <3>1 DEF TableOK
    <3> QED BY <1>10, <3>1, <3>2
  <2> QED BY <2>1, <2>2
<1>13. TableOK' BY <1>1, <1>6, <1>11, <1>12 DEF TableOK, Entry
<1>14. OwnEffectsOnly' BY <1>1, <1>6, <1>10, EffectsKept
<1> QED BY <1>9, <1>13, <1>14 DEF IInv

LEMMA RemoveIInv ==
  ASSUME IInv, NEW fd \in Fds, NEW id, tg_remove_effect(fd, id)
  PROVE  IInv'
<1>1. TypeOK /\ TableOK /\ OwnEffectsOnly BY DEF IInv
<1>2. /\ effect_slots' = [effect_slots EXCEPT ![id] = FreeSlot]
      /\ UNCHANGED <<file, val, faults, playing, fake_fds, fake_count, ff_gain, reader,
                     seen, uploaded>>
  BY DEF tg_remove_effect, service, table
<1>3. TypeOK' BY <1>1, <1>2, Fixed DEF TypeOK, Files, Slots, Entries
<1>4. /\ DOMAIN effect_slots' = DOMAIN effect_slots
      /\ \A k \in DOMAIN effect_slots : effect_slots'[k] \in {effect_slots[k], FreeSlot}
  BY <1>1, <1>2, Types
<1>5. TableOK' BY <1>1, <1>2, <1>4, Fixed DEF TableOK, Entry
<1>6. OwnEffectsOnly' BY <1>1, <1>2, EffectsKept
<1> QED BY <1>3, <1>5, <1>6 DEF IInv

\* Messages to the bridge change nothing in the shim.
LEMMA SendIInv ==
  ASSUME IInv, NEW fd \in Fds, NEW rumble \in Strengths, tg_send_control(fd, rumble),
         \/ rumble = Off
         \/ \E strength \in uploaded[fd], gain \in 0..Full : rumble = Scaled(strength, gain),
         UNCHANGED <<file, val, table, effects, reader, seen, uploaded>>
  PROVE  IInv'
<1>1. TypeOK /\ TableOK /\ OwnEffectsOnly BY DEF IInv
<1>2. /\ playing' = playing \/ playing' = [playing EXCEPT ![fd] = rumble]
      /\ faults' \in {faults, faults + 1} /\ (faults' = faults + 1 => faults < MaxFaults)
  <2>1. CASE playing' = [playing EXCEPT ![fd] = rumble] /\ UNCHANGED faults
    BY <1>1, <2>1, Numbers DEF TypeOK
  <2>2. CASE faults < MaxFaults /\ faults' = faults + 1 /\ UNCHANGED playing BY <2>2
  <2>3. CASE UNCHANGED <<playing, faults>> BY <1>1, <2>3, Numbers DEF TypeOK
  <2> QED BY <2>1, <2>2, <2>3 DEF tg_send_control
<1>3. UNCHANGED <<file, val, fake_fds, fake_count, effect_slots, ff_gain, reader, seen,
                  uploaded>>
  BY DEF table, effects
<1>4. playing' \in [Fds -> Strengths] BY <1>1, <1>2, Types
<1>5. faults' \in 0..MaxFaults BY <1>1, <1>2, Numbers DEF TypeOK
<1>6. TypeOK' BY <1>1, <1>3, <1>4, <1>5 DEF TypeOK, Files, Slots, Entries
<1>7. TableOK' BY <1>1, <1>3, TableKept
<1>8. OwnEffectsOnly'
  <2> SUFFICES ASSUME NEW g \in Fds, playing'[g] # Off
               PROVE  \E strength \in uploaded[g], gain \in 0..Full :
                        playing'[g] = Scaled(strength, gain)
    BY <1>3 DEF OwnEffectsOnly, Off, Scaled, Full
  <2>1. CASE playing'[g] = playing[g] BY <1>1, <2>1 DEF OwnEffectsOnly
  <2>2. CASE playing'[g] # playing[g]
    <3>1. g = fd /\ playing'[g] = rumble BY <1>1, <1>2, <2>2, Types
    <3> QED BY <3>1
  <2> QED BY <2>1, <2>2
<1> QED BY <1>6, <1>7, <1>8 DEF IInv

LEMMA WriteIInv ==
  ASSUME IInv, NEW fd \in Fds, NEW id, WriteStop(fd, id) \/ WritePlay(fd, id)
  PROVE  IInv'
<1>1. TypeOK /\ TableOK /\ OwnEffectsOnly BY DEF IInv
<1>2. CASE WriteStop(fd, id) BY <1>2, SendIInv, Fixed DEF WriteStop
<1>3. CASE WritePlay(fd, id)
  <2> DEFINE s == [low |-> effect_slots[id].low, high |-> effect_slots[id].high]
  <2>1. /\ id \in 0..(TG_MAX_EFFECTS - 1) /\ effect_slots[id].used
        /\ effect_slots[id].fd = fd
    BY <1>3 DEF WritePlay, tg_find_effect
  <2>2. s \in uploaded[fd] /\ ff_gain \in 0..Full
    BY <1>1, <2>1, Types DEF TableOK
  <2>3. s \in Strengths BY <1>1, <2>2, Types
  <2>4. /\ tg_send_control(fd, Scaled(s, ff_gain))
        /\ UNCHANGED <<file, val, table, effects, reader, seen, uploaded>>
    BY <1>3 DEF WritePlay
  <2> HIDE DEF s
  <2> DEFINE r == Scaled(s, ff_gain)
  <2>5. r \in Strengths BY <2>2, <2>3, ScaledIs
  <2>6. \E strength \in uploaded[fd], gain \in 0..Full : r = Scaled(strength, gain)
    BY <2>2
  <2>7. tg_send_control(fd, r) BY <2>4
  <2> HIDE DEF r
  <2> QED BY <2>4, <2>5, <2>6, <2>7, SendIInv
<1> QED BY <1>2, <1>3

LEMMA WriteGainIInv ==
  ASSUME IInv, NEW fd \in Fds, NEW gain \in Gains, WriteGain(fd, gain)
  PROVE  IInv'
<1>1. TypeOK /\ TableOK /\ OwnEffectsOnly BY DEF IInv
<1>2. UNCHANGED <<file, val, faults, playing, fake_fds, fake_count, effect_slots, reader,
                  seen, uploaded>>
  BY DEF WriteGain, service, table
<1>3. ff_gain' \in 0..Full
  <2>1. gain \in Int BY ShimAssumption
  <2> QED BY <2>1, Numbers DEF WriteGain
<1>4. TypeOK' BY <1>1, <1>2, <1>3 DEF TypeOK, Files, Slots, Entries
<1>5. TableOK' BY <1>1, <1>2, TableKept
<1>6. OwnEffectsOnly' BY <1>1, <1>2, EffectsKept
<1> QED BY <1>4, <1>5, <1>6 DEF IInv

\* The last entry takes the place of the one that goes.
LEMMA DelIs ==
  ASSUME TypeOK, TableOK, NEW fd, tg_del_fake_fd(fd)
  PROVE  /\ fake_count' \in 0..fake_count
         /\ fake_fds' \in [1..TG_MAX_FAKE_FDS -> Entries]
         /\ \A k \in 1..fake_count' : \E m \in 1..fake_count :
              /\ fake_fds'[k] = fake_fds[m] /\ fake_fds[m].fd # fd
              /\ m = k \/ (fake_fds[k].fd = fd /\ m = fake_count /\ fake_count' < m)
         /\ \A m \in 1..fake_count : fake_fds[m].fd # fd =>
              \E k \in 1..fake_count' : fake_fds'[k] = fake_fds[m]
<1> DEFINE i == tg_find_fake_fd(fd)
<1>1. fake_count \in Nat /\ fake_count <= TG_MAX_FAKE_FDS BY Numbers DEF TypeOK
<1>2. fake_fds \in [1..TG_MAX_FAKE_FDS -> Entries] BY Types
<1>3. \/ i = 0 /\ \A m \in 1..fake_count : fake_fds[m].fd # fd
      \/ i \in 1..fake_count /\ fake_fds[i].fd = fd
  BY Found
<1>4. IF i = 0 THEN UNCHANGED table
      ELSE /\ fake_fds' = [fake_fds EXCEPT ![i] = fake_fds[fake_count]]
           /\ fake_count' = fake_count - 1
  BY DEF tg_del_fake_fd
<1> HIDE DEF i
<1>5. CASE i = 0
  <2>1. UNCHANGED <<fake_fds, fake_count>> BY <1>4, <1>5 DEF table
  <2>2. \A m \in 1..fake_count : fake_fds[m].fd # fd BY <1>1, <1>3, <1>5
  <2> QED BY <1>1, <1>2, <2>1, <2>2
<1>6. CASE i # 0
  <2>1. i \in 1..fake_count /\ fake_fds[i].fd = fd BY <1>3, <1>6
  <2>2. \A m \in 1..fake_count : m # i => fake_fds[m].fd # fd BY <2>1 DEF TableOK
  <2>3. /\ fake_fds' = [fake_fds EXCEPT ![i] = fake_fds[fake_count]]
        /\ fake_count' = fake_count - 1
    BY <1>4, <1>6
  <2>4. fake_count' \in 0..fake_count /\ fake_count \in 1..fake_count BY <1>1, <2>1, <2>3
  <2>5. /\ fake_fds' \in [1..TG_MAX_FAKE_FDS -> Entries]
        /\ \A k \in 1..fake_count :
             fake_fds'[k] = IF k = i THEN fake_fds[fake_count] ELSE fake_fds[k]
    <3>1. 1..fake_count \subseteq 1..TG_MAX_FAKE_FDS BY <1>1, Numbers
    <3> QED BY <1>2, <2>3, <2>4, <3>1
  <2>6. ASSUME NEW k \in 1..fake_count'
        PROVE  \E m \in 1..fake_count :
                 /\ fake_fds'[k] = fake_fds[m] /\ fake_fds[m].fd # fd
                 /\ m = k \/ (fake_fds[k].fd = fd /\ m = fake_count /\ fake_count' < m)
    <3>1. k \in 1..fake_count /\ k # fake_count /\ fake_count' < fake_count
      BY <1>1, <2>3
    <3>2. CASE k = i
      <4>1. fake_fds'[k] = fake_fds[fake_count] BY <2>5, <3>1, <3>2
      <4>2. fake_fds[fake_count].fd # fd BY <2>2, <2>4, <3>1, <3>2
      <4> QED BY <2>1, <2>4, <3>1, <3>2, <4>1, <4>2
    <3>3. CASE k # i BY <2>2, <2>5, <3>1, <3>3
    <3> QED BY <3>2, <3>3
  <2>7. ASSUME NEW m \in 1..fake_count, fake_fds[m].fd # fd
        PROVE  \E k \in 1..fake_count' : fake_fds'[k] = fake_fds[m]
    <3>1. m # i BY <2>1, <2>7
    <3>2. CASE m = fake_count
      <4>1. i \in 1..fake_count' BY <1>1, <2>1, <2>3, <3>1, <3>2
      <4> QED BY <2>1, <2>5, <3>2, <4>1
    <3>3. CASE m # fake_count
      <4>1. m \in 1..fake_count' BY <1>1, <2>3, <3>3
      <4> QED BY <2>5, <3>1, <4>1
    <3> QED BY <3>2, <3>3
  <2> QED BY <2>4, <2>5, <2>6, <2>7
<1> QED BY <1>5, <1>6

LEMMA CloseIInv == ASSUME IInv, NEW fd \in Fds, Close(fd) PROVE IInv'
<1>1. TypeOK /\ TableOK /\ OwnEffectsOnly BY DEF IInv
<1>2. /\ IF Faked(fd, FALSE) THEN tg_clear_effects(fd) ELSE UNCHANGED effect_slots
      /\ tg_del_fake_fd(fd)
      /\ file' = [file EXCEPT ![fd] = NoFile] /\ playing' = [playing EXCEPT ![fd] = Off]
      /\ seen' = [seen EXCEPT ![fd] = Neutral] /\ uploaded' = [uploaded EXCEPT ![fd] = {}]
      /\ UNCHANGED <<val, faults, ff_gain, reader>>
  BY DEF Close, service
<1>3. /\ fake_count' \in 0..fake_count
      /\ fake_fds' \in [1..TG_MAX_FAKE_FDS -> Entries]
      /\ \A k \in 1..fake_count' : \E m \in 1..fake_count :
           /\ fake_fds'[k] = fake_fds[m] /\ fake_fds[m].fd # fd
           /\ m = k \/ (fake_fds[k].fd = fd /\ m = fake_count /\ fake_count' < m)
      /\ \A m \in 1..fake_count : fake_fds[m].fd # fd =>
           \E k \in 1..fake_count' : fake_fds'[k] = fake_fds[m]
  BY <1>1, <1>2, DelIs
<1>4. /\ effect_slots' \in [0..(TG_MAX_EFFECTS - 1) -> Slots]
      /\ \A id \in 0..(TG_MAX_EFFECTS - 1) : effect_slots'[id].used =>
           effect_slots'[id] = effect_slots[id] /\ effect_slots[id].fd # fd
  <2>1. effect_slots \in [0..(TG_MAX_EFFECTS - 1) -> Slots] BY <1>1, Types
  <2>2. CASE Faked(fd, FALSE) BY <1>2, <2>1, <2>2, Fixed DEF tg_clear_effects
  <2>3. CASE ~Faked(fd, FALSE)
    <3>1. effect_slots' = effect_slots BY <1>2, <2>3
    <3>2. \A id \in 0..(TG_MAX_EFFECTS - 1) : effect_slots[id].used =>
            Entry(effect_slots[id].fd, FALSE)
      BY <1>1, <2>1 DEF TableOK
    <3>3. ~Entry(fd, FALSE) BY <1>1, <2>3, FakedIsEntry
    <3> QED BY <2>1, <3>1, <3>2, <3>3
  <2> QED BY <2>2, <2>3
<1>5. TypeOK'
  <2>1. /\ file' \in [Fds -> Files] /\ playing' \in [Fds -> Strengths]
        /\ seen' \in [Fds -> States] /\ uploaded' \in [Fds -> SUBSET Strengths]
    BY <1>1, <1>2, Fixed, Types
  <2>2. fake_count' \in 0..TG_MAX_FAKE_FDS BY <1>1, <1>3, Numbers DEF TypeOK
  <2> QED BY <1>1, <1>2, <1>3, <1>4, <2>1, <2>2 DEF TypeOK, Files, Slots, Entries
<1>6. \A g \in Fds : g # fd => file'[g] = file[g] /\ uploaded'[g] = uploaded[g]
  BY <1>1, <1>2, Types
<1>7. ASSUME NEW k \in 1..fake_count'
      PROVE  /\ file'[fake_fds'[k].fd].kind
                  = IF fake_fds'[k].joydev THEN "joy" ELSE "event"
             /\ \A j \in 1..fake_count' : fake_fds'[j].fd = fake_fds'[k].fd => k = j
  <2>0. fake_count \in Nat /\ fake_count' \in Nat BY <1>1, <1>3, Numbers DEF TypeOK
  <2>1. PICK m \in 1..fake_count :
          /\ fake_fds'[k] = fake_fds[m] /\ fake_fds[m].fd # fd
          /\ m = k \/ (fake_fds[k].fd = fd /\ m = fake_count /\ fake_count' < m)
    BY <1>3
  <2>2. /\ file[fake_fds[m].fd].kind = IF fake_fds[m].joydev THEN "joy" ELSE "event"
        /\ \A j \in 1..fake_count : fake_fds[j].fd = fake_fds[m].fd => m = j
    BY <1>1, <2>1 DEF TableOK
  <2>3. fake_fds[m].fd \in Fds
    <3>1. Entry(fake_fds[m].fd, fake_fds[m].joydev) BY DEF Entry
    <3> QED BY <1>1, <3>1, EntryInFds
  <2>4. file'[fake_fds[m].fd] = file[fake_fds[m].fd] BY <1>6, <2>1, <2>3
  <2>5. ASSUME NEW j \in 1..fake_count', fake_fds'[j].fd = fake_fds'[k].fd PROVE k = j
    <3>1. PICK n \in 1..fake_count :
            /\ fake_fds'[j] = fake_fds[n] /\ fake_fds[n].fd # fd
            /\ n = j \/ (fake_fds[j].fd = fd /\ n = fake_count /\ fake_count' < n)
      BY <1>3
    <3>2. m = n BY <2>1, <2>2, <2>5, <3>1
    <3>3. CASE m = k /\ n = j BY <3>2, <3>3
    <3>4. CASE m = k /\ fake_count' < n BY <2>0, <3>2, <3>4
    <3>5. CASE fake_count' < m /\ n = j BY <2>0, <3>2, <3>5
    <3>6. CASE fake_fds[k].fd = fd /\ fake_fds[j].fd = fd
      <4>1. k \in 1..fake_count /\ j \in 1..fake_count BY <1>3, <2>0
      <4> QED BY <1>1, <3>6, <4>1 DEF TableOK
    <3> QED BY <2>1, <3>1, <3>3, <3>4, <3>5, <3>6
  <2> QED BY <2>1, <2>2, <2>4, <2>5
<1>8. ASSUME NEW id \in 0..(TG_MAX_EFFECTS - 1), effect_slots'[id].used
      PROVE  /\ \E i \in 1..fake_count' : /\ fake_fds'[i].fd = effect_slots'[id].fd
                                          /\ fake_fds'[i].joydev = FALSE
             /\ [low |-> effect_slots'[id].low, high |-> effect_slots'[id].high]
                  \in uploaded'[effect_slots'[id].fd]
  <2> DEFINE s == effect_slots[id]
  <2>1. effect_slots'[id] = s /\ s.fd # fd /\ s.used BY <1>4, <1>8
  <2>2. id \in DOMAIN effect_slots /\ s.fd \in Fds BY <1>1, Types DEF Slots
  <2>3. Entry(s.fd, FALSE) /\ [low |-> s.low, high |-> s.high] \in uploaded[s.fd]
    BY <1>1, <2>1, <2>2 DEF TableOK
  <2>4. PICK m \in 1..fake_count : fake_fds[m].fd = s.fd /\ fake_fds[m].joydev = FALSE
    BY <2>3 DEF Entry
  <2>5. PICK i \in 1..fake_count' : fake_fds'[i] = fake_fds[m] BY <1>3, <2>1, <2>4
  <2> HIDE DEF s
  <2> QED BY <1>6, <2>1, <2>2, <2>3, <2>4, <2>5
<1>9. TableOK'
  <2>1. DOMAIN effect_slots' = 0..(TG_MAX_EFFECTS - 1) BY <1>4
  <2>2. \A id \in DOMAIN effect_slots' : effect_slots'[id].used =>
          /\ \E i \in 1..fake_count' : /\ fake_fds'[i].fd = effect_slots'[id].fd
                                       /\ fake_fds'[i].joydev = FALSE
          /\ [low |-> effect_slots'[id].low, high |-> effect_slots'[id].high]
               \in uploaded'[effect_slots'[id].fd]
    BY <1>8, <2>1
  <2> QED BY <1>7, <2>2 DEF TableOK, Entry
<1>10. OwnEffectsOnly'
  <2>1. \A g \in Fds : playing'[g] = IF g = fd THEN Off ELSE playing[g]
    BY <1>1, <1>2, Types
  <2> QED BY <1>1, <1>6, <2>1, EffectsKept
<1> QED BY <1>5, <1>9, <1>10 DEF IInv
-----------------------------------------------------------------------------
(* Reads and the bridge. *)

LEMMA ReaderTypes ==
  ASSUME TypeOK, NEW t \in Threads
  PROVE  /\ Idle \in [fd : Fds, fake : 0..TG_MAX_FAKE_FDS, room : 0..2]
         /\ reader[t].fd \in Fds /\ reader[t].fake \in 0..TG_MAX_FAKE_FDS
         /\ reader[t].room \in 0..2
         /\ Waiting(t) => Produced(t) \in
              [Threads -> [fd : Fds, fake : 0..TG_MAX_FAKE_FDS, room : 0..2]]
<1> DEFINE R == [fd : Fds, fake : 0..TG_MAX_FAKE_FDS, room : 0..2]
<1>1. Idle \in R BY Fixed
<1>2. reader \in [Threads -> R] BY Types
<1>3. /\ reader[t].fd \in Fds /\ reader[t].fake \in 0..TG_MAX_FAKE_FDS
      /\ reader[t].room \in 0..2
  BY <1>2
<1>4. ASSUME Waiting(t) PROVE Produced(t) \in [Threads -> R]
  <2>1. reader[t].room \in 1..2 BY <1>3, <1>4 DEF Waiting
  <2>2. CASE reader[t].room = 1
    <3>1. Produced(t) = [reader EXCEPT ![t] = Idle] BY <2>2 DEF Produced
    <3> QED BY <1>1, <1>2, <3>1
  <2>3. CASE reader[t].room # 1
    <3>1. Produced(t) = [reader EXCEPT ![t].room = reader[t].room - 1]
      BY <2>3 DEF Produced
    <3>2. reader[t].room - 1 \in 0..2 BY <2>1
    <3> QED BY <1>2, <3>1, <3>2
  <2> QED BY <2>2, <2>3
<1> QED BY <1>1, <1>3, <1>4

LEMMA ReadStartIInv ==
  ASSUME IInv, NEW t \in Threads, NEW fd \in Fds, NEW n \in 1..2, ReadStart(t, fd, n)
  PROVE  IInv'
<1>1. TypeOK /\ TableOK /\ OwnEffectsOnly BY DEF IInv
<1>2. /\ reader' = [reader EXCEPT ![t] =
           [fd |-> fd, fake |-> tg_find_fake_fd(fd), room |-> n]]
      /\ UNCHANGED <<file, val, faults, playing, fake_fds, fake_count, effect_slots,
                     ff_gain, seen, uploaded>>
  BY DEF ReadStart, service, table, effects
<1>3. tg_find_fake_fd(fd) \in 0..TG_MAX_FAKE_FDS
  <2>1. tg_find_fake_fd(fd) \in (1..fake_count) \union {0} BY <1>1, Found
  <2> QED BY <1>1, <2>1, Numbers DEF TypeOK
<1>4. [fd |-> fd, fake |-> tg_find_fake_fd(fd), room |-> n]
        \in [fd : Fds, fake : 0..TG_MAX_FAKE_FDS, room : 0..2]
  BY <1>3
<1>5. reader' \in [Threads -> [fd : Fds, fake : 0..TG_MAX_FAKE_FDS, room : 0..2]]
  BY <1>1, <1>2, <1>4, Types
<1>6. TypeOK' BY <1>1, <1>2, <1>5 DEF TypeOK
<1>7. TableOK' BY <1>1, <1>2, TableKept
<1>8. OwnEffectsOnly' BY <1>1, <1>2, EffectsKept
<1> QED BY <1>6, <1>7, <1>8 DEF IInv

LEMMA ReadReturnIInv ==
  ASSUME IInv, NEW t \in Threads, ReadReturn(t)
  PROVE  IInv'
<1>1. TypeOK /\ TableOK /\ OwnEffectsOnly BY DEF IInv
<1>2. /\ reader' = [reader EXCEPT ![t] = Idle]
      /\ UNCHANGED <<file, val, faults, playing, fake_fds, fake_count, effect_slots,
                     ff_gain, seen, uploaded>>
  BY DEF ReadReturn, service, table, effects
<1>3. reader' \in [Threads -> [fd : Fds, fake : 0..TG_MAX_FAKE_FDS, room : 0..2]]
  BY <1>1, <1>2, Fixed, Types
<1>4. TypeOK' BY <1>1, <1>2, <1>3 DEF TypeOK
<1>5. TableOK' BY <1>1, <1>2, TableKept
<1>6. OwnEffectsOnly' BY <1>1, <1>2, EffectsKept
<1> QED BY <1>4, <1>5, <1>6 DEF IInv

\* What one read of the socket does to the entry, in a step of its own.
Received(t, bytes) ==
  IF Len(bytes) = 2 THEN tg_convert_joy_event(t, reader[t].fake, bytes[1].message)
  ELSE /\ fake_fds' = [fake_fds EXCEPT ![reader[t].fake].raw = bytes]
       /\ UNCHANGED <<reader, seen>>

LEMMA ReceiveIs ==
  ASSUME TypeOK, NEW t \in Threads, ReadReceive(t), reader[t].fake # 0
  PROVE  LET raw  == fake_fds[reader[t].fake].raw
             chan == file[reader[t].fd].chan
         IN  /\ raw \in Bytes /\ chan \in Bytes
             /\ \E n \in 1..(2 - Len(raw)) :
                  /\ n \in 1..Len(chan)
                  /\ file' = [file EXCEPT ![reader[t].fd].chan = SubSeq(chan, n + 1, Len(chan))]
                  /\ SubSeq(chan, n + 1, Len(chan)) \in Bytes
                  /\ raw \o SubSeq(chan, 1, n) \in Bytes
                  /\ Len(raw \o SubSeq(chan, 1, n)) = Len(raw) + n
                  /\ (raw \o SubSeq(chan, 1, n)) \o SubSeq(chan, n + 1, Len(chan))
                       = raw \o chan
                  /\ Received(t, raw \o SubSeq(chan, 1, n))
<1> DEFINE raw  == fake_fds[reader[t].fake].raw
           chan == file[reader[t].fd].chan
<1>1. reader[t].fd \in Fds /\ reader[t].fake \in 1..TG_MAX_FAKE_FDS
  BY ReaderTypes, Numbers
<1>2. raw \in Bytes /\ chan \in Bytes BY <1>1, Types DEF Files, Entries
<1>3. PICK n \in 1..(2 - Len(raw)) :
        /\ n <= Len(chan)
        /\ file' = [file EXCEPT ![reader[t].fd].chan = SubSeq(chan, n + 1, Len(chan))]
        /\ Received(t, raw \o SubSeq(chan, 1, n))
  BY DEF ReadReceive, Received
<1> HIDE DEF raw, chan
<1>4. n \in 1..Len(chan) BY <1>2, <1>3, Empty
<1>5. /\ SubSeq(chan, n + 1, Len(chan)) \in Bytes /\ raw \o SubSeq(chan, 1, n) \in Bytes
      /\ Len(raw \o SubSeq(chan, 1, n)) = Len(raw) + n
      /\ (raw \o SubSeq(chan, 1, n)) \o SubSeq(chan, n + 1, Len(chan)) = raw \o chan
  BY <1>2, <1>4, Take
<1> QED BY <1>2, <1>3, <1>4, <1>5 DEF raw, chan

\* A whole event goes to the reader or ends the initialization, and the entry
\* is empty again; half an event stays in it.
LEMMA ReceivedIs ==
  ASSUME TypeOK, NEW t \in Threads, Waiting(t), reader[t].fake # 0,
         NEW bytes \in Bytes, Received(t, bytes)
  PROVE  LET i == reader[t].fake
             m == bytes[1].message
         IN  /\ fake_fds' \in [1..TG_MAX_FAKE_FDS -> Entries]
             /\ \A k \in 1..TG_MAX_FAKE_FDS :
                  fake_fds'[k] =
                    IF k # i THEN fake_fds[k]
                    ELSE [fake_fds[k] EXCEPT
                            !.raw = IF Len(bytes) = 2 THEN <<>> ELSE bytes,
                            !.initializing = @ /\ ~(Len(bytes) = 2 /\ m.type = "syn")]
             /\ seen' = IF Len(bytes) = 2
                        THEN [seen EXCEPT ![reader[t].fd] = Told(@, m)] ELSE seen
             /\ seen' \in [Fds -> States]
             /\ reader' \in {reader, Produced(t)}
             /\ reader' \in [Threads -> [fd : Fds, fake : 0..TG_MAX_FAKE_FDS, room : 0..2]]
<1> DEFINE i == reader[t].fake
           fd == reader[t].fd
           m == bytes[1].message
<1>1. /\ fd \in Fds /\ i \in 1..TG_MAX_FAKE_FDS
      /\ Produced(t) \in [Threads -> [fd : Fds, fake : 0..TG_MAX_FAKE_FDS, room : 0..2]]
  BY ReaderTypes, Numbers
<1>2. /\ fake_fds \in [1..TG_MAX_FAKE_FDS -> Entries] /\ seen \in [Fds -> States]
      /\ reader \in [Threads -> [fd : Fds, fake : 0..TG_MAX_FAKE_FDS, room : 0..2]]
  BY Types
<1>3. <<>> \in Bytes BY Empty
<1>4. /\ fake_fds[i] \in Entries /\ fake_fds[i].initializing \in BOOLEAN
      /\ seen[fd] \in States
  BY <1>1, <1>2 DEF Entries
<1>5. IF Len(bytes) = 2 THEN tg_convert_joy_event(t, i, m)
      ELSE fake_fds' = [fake_fds EXCEPT ![i].raw = bytes] /\ UNCHANGED <<reader, seen>>
  BY DEF Received
<1> HIDE DEF i, fd
<1>6. CASE Len(bytes) # 2
  <2>1. /\ fake_fds' = [fake_fds EXCEPT ![i].raw = bytes] /\ UNCHANGED <<reader, seen>>
    BY <1>5, <1>6
  <2>2. fake_fds' \in [1..TG_MAX_FAKE_FDS -> Entries]
    BY <1>1, <1>2, <1>4, <2>1 DEF Entries
  <2>3. \A k \in 1..TG_MAX_FAKE_FDS :
          fake_fds'[k] = IF k # i THEN fake_fds[k]
                         ELSE [fake_fds[k] EXCEPT !.raw = bytes, !.initializing = @ /\ TRUE]
    BY <1>1, <1>2, <1>4, <2>1 DEF Entries
  <2> QED BY <1>2, <1>6, <2>1, <2>2, <2>3 DEF i, fd
<1>7. CASE Len(bytes) = 2
  <2>0. m \in Messages
    <3>1. 1 \in 1..Len(bytes) BY <1>7
    <3>2. bytes[1] \in Items BY <3>1, ElementOfSeq DEF Bytes, Items
    <3> QED BY <3>2 DEF Items
  <2>1. tg_convert_joy_event(t, i, m) BY <1>5, <1>7
  <2> HIDE DEF m
  <2>2. CASE m.type = "syn"
    <3>1. /\ fake_fds' = [fake_fds EXCEPT ![i].raw = <<>>, ![i].initializing = FALSE]
          /\ UNCHANGED <<reader, seen>>
      BY <2>1, <2>2 DEF tg_convert_joy_event
    <3>2. fake_fds' \in [1..TG_MAX_FAKE_FDS -> Entries]
      BY <1>1, <1>2, <1>3, <1>4, <3>1 DEF Entries
    <3>3. \A k \in 1..TG_MAX_FAKE_FDS :
            fake_fds'[k] = IF k # i THEN fake_fds[k]
                           ELSE [fake_fds[k] EXCEPT !.raw = <<>>, !.initializing = FALSE]
      BY <1>1, <1>2, <1>4, <3>1 DEF Entries
    <3>4. seen' = [seen EXCEPT ![fd] = Told(@, m)]
      BY <1>1, <1>2, <2>2, <3>1 DEF Told
    <3> QED BY <1>2, <1>7, <2>2, <3>1, <3>2, <3>3, <3>4 DEF i, fd, m
  <2>3. CASE m.type # "syn"
    <3>1. /\ fake_fds' = [fake_fds EXCEPT ![i].raw = <<>>]
          /\ seen' = [seen EXCEPT ![fd][m.control] = m.value]
          /\ reader' = Produced(t)
      BY <2>1, <2>3 DEF tg_convert_joy_event, fd
    <3>2. fake_fds' \in [1..TG_MAX_FAKE_FDS -> Entries]
      BY <1>1, <1>2, <1>3, <1>4, <3>1 DEF Entries
    <3>3. \A k \in 1..TG_MAX_FAKE_FDS :
            fake_fds'[k] = IF k # i THEN fake_fds[k]
                           ELSE [fake_fds[k] EXCEPT !.raw = <<>>, !.initializing = @ /\ TRUE]
      BY <1>1, <1>2, <1>4, <3>1 DEF Entries
    <3>4. seen' = [seen EXCEPT ![fd] = Told(@, m)]
      BY <1>1, <1>2, <2>3, <3>1 DEF Told
    <3>5. m.control \in Controls /\ m.value \in Values BY <2>0, <2>3, Contents
    <3>6. seen' \in [Fds -> States] BY <1>1, <1>2, <1>4, <3>1, <3>5 DEF States
    <3> QED BY <1>1, <1>7, <2>3, <3>1, <3>2, <3>3, <3>4, <3>6 DEF i, fd, m
  <2> QED BY <2>2, <2>3
<1> QED BY <1>6, <1>7

LEMMA ReadReceiveIInv ==
  ASSUME IInv, ReadersOK, NEW t \in Threads, ReadReceive(t)
  PROVE  IInv'
<1> DEFINE i == reader[t].fake
           fd == reader[t].fd
           raw  == fake_fds[i].raw
           chan == file[fd].chan
<1>1. TypeOK /\ TableOK /\ OwnEffectsOnly BY DEF IInv
<1>2. /\ Waiting(t) /\ i # 0
      /\ UNCHANGED <<val, faults, playing, fake_count, effect_slots, ff_gain, uploaded>>
  BY DEF ReadReceive, ReadersOK, service, effects
<1>3. PICK n \in 1..(2 - Len(raw)) :
        /\ file' = [file EXCEPT ![fd].chan = SubSeq(chan, n + 1, Len(chan))]
        /\ SubSeq(chan, n + 1, Len(chan)) \in Bytes
        /\ raw \o SubSeq(chan, 1, n) \in Bytes
        /\ Received(t, raw \o SubSeq(chan, 1, n))
  BY <1>1, <1>2, ReceiveIs
<1> DEFINE bytes == raw \o SubSeq(chan, 1, n)
           left == SubSeq(chan, n + 1, Len(chan))
<1>4. bytes \in Bytes /\ left \in Bytes /\ Received(t, bytes) BY <1>3
<1>5. file' = [file EXCEPT ![fd].chan = left] BY <1>3
<1> HIDE DEF bytes, left, raw, chan
<1>6. /\ fake_fds' \in [1..TG_MAX_FAKE_FDS -> Entries] /\ seen' \in [Fds -> States]
      /\ reader' \in [Threads -> [fd : Fds, fake : 0..TG_MAX_FAKE_FDS, room : 0..2]]
      /\ \A k \in 1..TG_MAX_FAKE_FDS :
           fake_fds'[k] =
             IF k # i THEN fake_fds[k]
             ELSE [fake_fds[k] EXCEPT
                     !.raw = IF Len(bytes) = 2 THEN <<>> ELSE bytes,
                     !.initializing = @ /\ ~(Len(bytes) = 2 /\ bytes[1].message.type = "syn")]
  BY <1>1, <1>2, <1>4, ReceivedIs
<1>7. fd \in Fds BY <1>1, ReaderTypes
<1> HIDE DEF i, fd
<1>8. /\ file' \in [Fds -> Files]
      /\ \A g \in Fds : file'[g].kind = file[g].kind
  BY <1>1, <1>4, <1>5, <1>7, Types DEF Files
<1>9. TypeOK' BY <1>1, <1>2, <1>6, <1>8 DEF TypeOK, Files, Slots, Entries
<1>10. \A k \in 1..fake_count : /\ fake_fds'[k].fd = fake_fds[k].fd
                                /\ fake_fds'[k].joydev = fake_fds[k].joydev
  <2> TAKE k \in 1..fake_count
  <2>1. k \in 1..TG_MAX_FAKE_FDS BY <1>1, Numbers DEF TypeOK
  <2>2. fake_fds[k] \in Entries BY <1>1, <2>1, Types
  <2> QED BY <1>6, <2>1, <2>2 DEF Entries
<1>11. TableOK' BY <1>1, <1>2, <1>8, <1>10, TableKept
<1>12. OwnEffectsOnly' BY <1>1, <1>2, EffectsKept
<1> QED BY <1>9, <1>11, <1>12 DEF IInv

\* What the bridge does to one joystick's stream when the controller moves.
Reported(f, report, n) ==
  IF f.kind # "joy" \/ f.link # "up" THEN f
  ELSE IF Len(f.chan) + Len(report) <= MaxQueue
    THEN [f EXCEPT !.chan = @ \o report]
    ELSE [f EXCEPT !.link = "cut",
                   !.chan = SubSeq(@, 1, IF n < Len(@) THEN n ELSE Len(@))]

LEMMA InputIs ==
  ASSUME TypeOK, Input
  PROVE  LET report == Halves(Batch({c \in Controls : val'[c] # val[c]}, val', FALSE))
         IN  /\ val' \in States
             /\ report \in Bytes
             /\ \A k \in 1..Len(report) : report[k].message.snapshot = FALSE
             /\ \E n \in 0..MaxQueue :
                  file' = [g \in Fds |-> Reported(file[g], report, n)]
             /\ UNCHANGED <<faults, playing, fake_fds, fake_count, effect_slots, ff_gain,
                            reader, seen, uploaded>>
<1> DEFINE S == {c \in Controls : val'[c] # val[c]}
<1>1. val' \in States /\ S \in SUBSET Controls BY DEF Input
<1>2. \E n \in 0..MaxQueue : file' = [g \in Fds |-> Reported(file[g], Halves(Batch(S, val', FALSE)), n)]
  BY DEF Input, Reported
<1>3. UNCHANGED <<faults, playing, fake_fds, fake_count, effect_slots, ff_gain, reader,
                  seen, uploaded>>
  BY DEF Input, table, effects
<1> HIDE DEF S
<1> DEFINE v == val'
           H == Halves(Batch(S, v, FALSE))
<1>4. H \in Bytes /\ \A k \in 1..Len(H) : H[k].message.snapshot = FALSE
  <2>1. v \in States /\ S \in SUBSET Controls /\ FALSE \in BOOLEAN BY <1>1
  <2> HIDE DEF v
  <2>2. /\ H \in Bytes /\ Len(H) = 2 * (Cardinality(S) + 1) /\ Cardinality(S) \in Nat
        /\ \A k \in 1..Len(H) :
             /\ H[k].message.snapshot = FALSE
             /\ H[k].message = Syn(FALSE) <=> k \in {Len(H) - 1, Len(H)}
    BY <2>1, BatchMarks, Zenon
  <2> HIDE DEF H
  <2>3. ASSUME NEW k \in 1..Len(H) PROVE H[k].message.snapshot = FALSE
    BY <2>2, Zenon
  <2> QED BY <2>2, <2>3, Zenon
<1> HIDE DEF H
<1> QED BY <1>1, <1>2, <1>3, <1>4 DEF S, H, v

LEMMA ReportedIs ==
  ASSUME NEW f \in Files, NEW report \in Bytes, NEW n \in Nat
  PROVE  LET next == Reported(f, report, n)
         IN  /\ next \in Files /\ next.kind = f.kind
             /\ next.link = "up" => f.link = "up"
             /\ next.link = "closed" => f.link = "closed"
             /\ \/ next = f /\ ~(f.kind = "joy" /\ f.link = "up")
                \/ f.link = "up" /\ next.link = "up" /\ next.chan = f.chan \o report
                \/ /\ f.link = "up" /\ next.link = "cut"
                   /\ \E m \in 0..Len(f.chan) : next.chan = SubSeq(f.chan, 1, m)
<1> DEFINE next == Reported(f, report, n)
<1>1. CASE f.kind # "joy" \/ f.link # "up"
  <2>1. next = f BY <1>1 DEF Reported
  <2> QED BY <1>1, <2>1
<1>2. CASE f.kind = "joy" /\ f.link = "up" /\ Len(f.chan) + Len(report) <= MaxQueue
  <2>1. next = [f EXCEPT !.chan = @ \o report] BY <1>2 DEF Reported
  <2>2. f.chan \in Bytes BY DEF Files
  <2>3. f.chan \o report \in Bytes BY <2>2, Concat
  <2>4. next \in Files /\ next.kind = f.kind /\ next.link = f.link /\ next.chan = f.chan \o report
    BY <2>1, <2>3 DEF Files
  <2> QED BY <1>2, <2>4
<1>3. CASE f.kind = "joy" /\ f.link = "up" /\ ~(Len(f.chan) + Len(report) <= MaxQueue)
  <2> DEFINE m == IF n < Len(f.chan) THEN n ELSE Len(f.chan)
             kept == SubSeq(f.chan, 1, m)
  <2>1. next = [f EXCEPT !.link = "cut", !.chan = kept] BY <1>3 DEF Reported
  <2>2. f.chan \in Bytes /\ Len(f.chan) \in Nat BY Empty DEF Files
  <2>3. m \in 0..Len(f.chan) BY <2>2
  <2> HIDE DEF m
  <2>4. kept \in Bytes
    <3>1. 1 \in 1..(Len(f.chan) + 1) /\ 1 <= m + 1 BY <2>2, <2>3
    <3> QED BY <2>2, <2>3, <3>1, Sub
  <2>5. next \in Files /\ next.kind = f.kind /\ next.link = "cut" /\ next.chan = kept
    BY <2>1, <2>4 DEF Files
  <2> QED BY <1>3, <2>3, <2>5
<1> QED BY <1>1, <1>2, <1>3

LEMMA InputIInv == ASSUME IInv, Input PROVE IInv'
<1>1. TypeOK /\ TableOK /\ OwnEffectsOnly BY DEF IInv
<1> DEFINE report == Halves(Batch({c \in Controls : val'[c] # val[c]}, val', FALSE))
<1>2. /\ val' \in States /\ report \in Bytes
      /\ \E n \in 0..MaxQueue : file' = [g \in Fds |-> Reported(file[g], report, n)]
      /\ UNCHANGED <<faults, playing, fake_fds, fake_count, effect_slots, ff_gain, reader,
                     seen, uploaded>>
  BY <1>1, InputIs
<1> HIDE DEF report
<1>3. PICK n \in 0..MaxQueue : file' = [g \in Fds |-> Reported(file[g], report, n)] BY <1>2
<1>4. \A g \in Fds : Reported(file[g], report, n) \in Files
                     /\ Reported(file[g], report, n).kind = file[g].kind
  <2> TAKE g \in Fds
  <2>1. file[g] \in Files /\ n \in Nat BY <1>1, Types
  <2> QED BY <1>2, <2>1, ReportedIs
<1>5. file' \in [Fds -> Files] /\ \A g \in Fds : file'[g].kind = file[g].kind
  BY <1>3, <1>4
<1>6. TypeOK' BY <1>1, <1>2, <1>5 DEF TypeOK, Files
<1>7. TableOK' BY <1>1, <1>2, <1>5, TableKept
<1>8. OwnEffectsOnly' BY <1>1, <1>2, EffectsKept
<1> QED BY <1>6, <1>7, <1>8 DEF IInv

LEMMA CutIs ==
  ASSUME TypeOK, NEW fd \in Fds, Cut(fd)
  PROVE  /\ file[fd].link = "up" /\ faults' \in 0..MaxFaults
         /\ file' \in [Fds -> Files] /\ file'[fd].kind = file[fd].kind
         /\ file'[fd].link = "cut"
         /\ \E n \in 0..Len(file[fd].chan) : file'[fd].chan = SubSeq(file[fd].chan, 1, n)
         /\ \A g \in Fds : g # fd => file'[g] = file[g]
         /\ playing' = [playing EXCEPT ![fd] = Off]
         /\ UNCHANGED <<val, fake_fds, fake_count, effect_slots, ff_gain, reader, seen,
                        uploaded>>
<1> DEFINE chan == file[fd].chan
<1>1. /\ file[fd].link = "up" /\ faults < MaxFaults /\ faults' = faults + 1
      /\ playing' = [playing EXCEPT ![fd] = Off]
      /\ UNCHANGED <<val, fake_fds, fake_count, effect_slots, ff_gain, reader, seen, uploaded>>
  BY DEF Cut, table, effects
<1>2. PICK n \in 0..Len(chan) :
        file' = [file EXCEPT ![fd].link = "cut", ![fd].chan = SubSeq(chan, 1, n)]
  BY DEF Cut
<1>3. file \in [Fds -> Files] /\ file[fd] \in Files /\ chan \in Bytes BY Types DEF Files
<1> HIDE DEF chan
<1> DEFINE kept == SubSeq(chan, 1, n)
<1>4. kept \in Bytes
  <2>1. Len(chan) \in Nat BY <1>3, Empty
  <2>2. 1 \in 1..(Len(chan) + 1) /\ 1 <= n + 1 BY <2>1
  <2> QED BY <1>3, <2>2, Sub
<1>5. file' = [file EXCEPT ![fd].link = "cut", ![fd].chan = kept] BY <1>2
<1>6. kept = SubSeq(chan, 1, n) OBVIOUS
<1> HIDE DEF kept
<1>7. /\ file' \in [Fds -> Files] /\ file'[fd].kind = file[fd].kind
      /\ file'[fd].link = "cut" /\ file'[fd].chan = kept
      /\ \A g \in Fds : g # fd => file'[g] = file[g]
  BY <1>3, <1>4, <1>5 DEF Files
<1>8. faults' \in 0..MaxFaults BY <1>1, Numbers DEF TypeOK
<1> QED BY <1>1, <1>6, <1>7, <1>8 DEF chan

LEMMA CutIInv == ASSUME IInv, NEW fd \in Fds, Cut(fd) PROVE IInv'
<1>1. TypeOK /\ TableOK /\ OwnEffectsOnly BY DEF IInv
<1>2. /\ faults' \in 0..MaxFaults /\ file' \in [Fds -> Files]
      /\ \A g \in Fds : file'[g].kind = file[g].kind
      /\ playing' = [playing EXCEPT ![fd] = Off]
      /\ UNCHANGED <<val, fake_fds, fake_count, effect_slots, ff_gain, reader, seen, uploaded>>
  BY <1>1, CutIs
<1>3. /\ playing' \in [Fds -> Strengths]
      /\ \A g \in Fds : playing'[g] = IF g = fd THEN Off ELSE playing[g]
  BY <1>1, <1>2, Fixed, Types
<1>4. TypeOK' BY <1>1, <1>2, <1>3 DEF TypeOK, Files
<1>5. TableOK' BY <1>1, <1>2, TableKept
<1>6. OwnEffectsOnly' BY <1>1, <1>2, <1>3, EffectsKept
<1> QED BY <1>4, <1>5, <1>6 DEF IInv

LEMMA ExpireIInv == ASSUME IInv, NEW fd \in Fds, Expire(fd) PROVE IInv'
<1>1. TypeOK /\ TableOK /\ OwnEffectsOnly BY DEF IInv
<1>2. /\ playing' = [playing EXCEPT ![fd] = Off]
      /\ UNCHANGED <<file, val, faults, fake_fds, fake_count, effect_slots, ff_gain, reader,
                     seen, uploaded>>
  BY DEF Expire, service, table, effects
<1>3. /\ playing' \in [Fds -> Strengths]
      /\ \A g \in Fds : playing'[g] = IF g = fd THEN Off ELSE playing[g]
  BY <1>1, <1>2, Fixed, Types
<1>4. TypeOK' BY <1>1, <1>2, <1>3 DEF TypeOK
<1>5. TableOK' BY <1>1, <1>2, TableKept
<1>6. OwnEffectsOnly' BY <1>1, <1>2, <1>3, EffectsKept
<1> QED BY <1>4, <1>5, <1>6 DEF IInv

\* The steps that leave the reads alone.
Elsewhere ==
  \/ \E joydev, nonblock \in BOOLEAN : Open(joydev, nonblock)
  \/ OpenOther \/ Input
  \/ \E fd \in Fds :
       \/ Close(fd) \/ Cut(fd) \/ Expire(fd)
       \/ \E asked \in -1..TG_MAX_EFFECTS, e \in Effects : tg_upload_effect(fd, asked, e)
       \/ \E id \in 0..TG_MAX_EFFECTS :
            tg_remove_effect(fd, id) \/ WriteStop(fd, id) \/ WritePlay(fd, id)
       \/ \E gain \in Gains : WriteGain(fd, gain)

LEMMA NextIs ==
  Next <=> \/ \E t \in Threads :
                \/ ~Waiting(t) /\ Elsewhere
                \/ \E fd \in Fds, n \in 1..2 : ReadStart(t, fd, n)
                \/ ReadReceive(t) \/ ReadReturn(t)
           \/ Input
           \/ \E fd \in Fds : Cut(fd) \/ Expire(fd)
  BY DEF Next, Call, Elsewhere, ReadStart

LEMMA ElsewhereReader == Elsewhere => reader' = reader
  BY DEF Elsewhere, Open, OpenOther, Input, Close, Cut, Expire, tg_upload_effect,
         tg_remove_effect, WriteStop, WritePlay, WriteGain

LEMMA ElsewhereIInv == ASSUME IInv, Elsewhere PROVE IInv'
<1>1. CASE \E joydev, nonblock \in BOOLEAN : Open(joydev, nonblock) BY <1>1, OpenIInv
<1>2. CASE OpenOther BY <1>2, OpenOtherIInv
<1>3. CASE Input BY <1>3, InputIInv
<1>4. CASE \E fd \in Fds : Close(fd) \/ Cut(fd) \/ Expire(fd)
  BY <1>4, CloseIInv, CutIInv, ExpireIInv
<1>5. CASE \E fd \in Fds : \E asked \in -1..TG_MAX_EFFECTS, e \in Effects :
             tg_upload_effect(fd, asked, e)
  BY <1>5, UploadIInv
<1>6. CASE \E fd \in Fds : \E id \in 0..TG_MAX_EFFECTS :
             tg_remove_effect(fd, id) \/ WriteStop(fd, id) \/ WritePlay(fd, id)
  BY <1>6, RemoveIInv, WriteIInv
<1>7. CASE \E fd \in Fds : \E gain \in Gains : WriteGain(fd, gain)
  BY <1>7, WriteGainIInv
<1> QED BY <1>1, <1>2, <1>3, <1>4, <1>5, <1>6, <1>7 DEF Elsewhere

LEMMA ReadStartReader ==
  ASSUME IInv, NEW t \in Threads, NEW fd \in Fds, NEW n \in 1..2, ReadStart(t, fd, n)
  PROVE  /\ reader'[t].fake \in Joysticks /\ fake_fds[reader'[t].fake].fd = fd
         /\ reader'[t].fd = fd /\ \A u \in Threads : u # t => reader'[u] = reader[u]
<1>1. TypeOK /\ TableOK BY DEF IInv
<1> DEFINE k == tg_find_fake_fd(fd)
<1>2. k # 0 /\ fake_fds[k].joydev = TRUE BY DEF ReadStart, Faked
<1>3. k \in 1..fake_count /\ fake_fds[k].fd = fd BY <1>1, <1>2, Found
<1>4. reader' = [reader EXCEPT ![t] = [fd |-> fd, fake |-> k, room |-> n]]
  BY DEF ReadStart
<1> HIDE DEF k
<1>5. /\ reader'[t] = [fd |-> fd, fake |-> k, room |-> n]
      /\ \A u \in Threads : u # t => reader'[u] = reader[u]
  BY <1>1, <1>4, Types
<1> QED BY <1>2, <1>3, <1>5 DEF Joysticks

LEMMA NextReaders == ASSUME IInv, ReadersOK, Next PROVE ReadersOK'
<1>0. TypeOK BY DEF IInv
<1>1. CASE Elsewhere BY <1>1, ElsewhereReader DEF ReadersOK, Waiting
<1>2. ASSUME NEW t \in Threads, NEW fd \in Fds, NEW n \in 1..2, ReadStart(t, fd, n)
      PROVE  ReadersOK'
  <2>1. reader'[t].fake # 0
    <3>1. reader'[t].fake \in 1..fake_count BY <1>2, ReadStartReader DEF Joysticks
    <3> QED BY <1>0, <3>1, Numbers DEF TypeOK
  <2>2. \A u \in Threads : u # t => reader'[u] = reader[u] BY <1>2, ReadStartReader
  <2> QED BY <2>1, <2>2 DEF ReadersOK, Waiting
<1>3. ASSUME NEW t \in Threads, ReadReceive(t) PROVE ReadersOK'
  <2>1. reader' \in {reader, Produced(t)}
    <3>1. Waiting(t) /\ reader[t].fake # 0 BY <1>3 DEF ReadReceive, ReadersOK
    <3>2. \E bytes \in Bytes : Received(t, bytes) BY <1>0, <1>3, <3>1, ReceiveIs
    <3> QED BY <1>0, <3>1, <3>2, ReceivedIs
  <2>2. \A u \in Threads : \/ reader'[u] = reader[u] \/ reader'[u] = Idle
                           \/ reader'[u].fake = reader[u].fake /\ reader[u].fake # 0
    <3>0. Waiting(t) /\ reader[t].fake # 0 BY <1>3 DEF ReadReceive, ReadersOK
    <3>1. reader \in [Threads -> [fd : Fds, fake : 0..TG_MAX_FAKE_FDS, room : 0..2]]
      BY <1>0, Types
    <3> QED BY <2>1, <3>0, <3>1 DEF Produced
  <2> QED BY <2>2 DEF ReadersOK, Waiting, Idle
<1>4. ASSUME NEW t \in Threads, ReadReturn(t) PROVE ReadersOK'
  <2>1. \A u \in Threads : reader'[u] = reader[u] \/ reader'[u] = Idle
    BY <1>0, <1>4, Types DEF ReadReturn
  <2> QED BY <2>1 DEF ReadersOK, Waiting, Idle
<1>5. Elsewhere \/ \E t \in Threads : \/ \E fd \in Fds, n \in 1..2 : ReadStart(t, fd, n)
                                      \/ ReadReceive(t) \/ ReadReturn(t)
  BY NextIs DEF Elsewhere
<1> QED BY <1>1, <1>2, <1>3, <1>4, <1>5

LEMMA NextIInv == IInv /\ ReadersOK /\ [Next]_vars => (IInv /\ ReadersOK)'
<1> SUFFICES ASSUME IInv, ReadersOK, [Next]_vars PROVE (IInv /\ ReadersOK)' OBVIOUS
<1>1. CASE Next
  <2>1. Elsewhere \/ \E t \in Threads : \/ \E fd \in Fds, n \in 1..2 : ReadStart(t, fd, n)
                                        \/ ReadReceive(t) \/ ReadReturn(t)
    BY <1>1, NextIs DEF Elsewhere
  <2>2. IInv'
    BY <2>1, ElsewhereIInv, ReadStartIInv, ReadReceiveIInv, ReadReturnIInv
  <2> QED BY <1>1, <2>2, NextReaders
<1>2. CASE UNCHANGED vars
  <2>1. UNCHANGED <<file, val, faults, playing, fake_fds, fake_count, effect_slots, ff_gain,
                    reader, seen, uploaded>>
    BY <1>2 DEF vars, service, table, effects
  <2>2. TypeOK' BY <2>1 DEF IInv, TypeOK
  <2>3. TableOK' BY <2>1, TableKept DEF IInv
  <2>4. OwnEffectsOnly' BY <2>1, EffectsKept DEF IInv
  <2>5. ReadersOK' BY <2>1 DEF ReadersOK, Waiting
  <2> QED BY <2>2, <2>3, <2>4, <2>5 DEF IInv
<1> QED BY <1>1, <1>2

LEMMA InitReaders == Init => ReadersOK
  BY DEF Init, ReadersOK, Waiting, Idle

LEMMA Invariant == Spec => [](IInv /\ ReadersOK)
<1>1. Init => IInv /\ ReadersOK BY InitIInv, InitReaders
<1> QED BY <1>1, NextIInv, PTL DEF Spec
-----------------------------------------------------------------------------
(* What is true with one thread. *)

LEMMA HalfEvent == ASSUME NEW n, n = 1 PROVE n <= 1 OBVIOUS

LEMMA SoundOpened ==
  ASSUME NEW f, NEW g, NEW st, NEW v \in States, f.raw = <<>>, f.initializing = TRUE,
         g.link = "up", g.chan = Halves(Batch(Controls, v, TRUE))
  PROVE  Sound(f, g, st, v)
<1> DEFINE ms == Batch(Controls, v, TRUE)
           H == Halves(ms)
<1>0. Controls \in SUBSET Controls OBVIOUS
<1>1. ms \in Seq(Messages) BY <1>0, BatchIs
<1>2. Leads(st, H, v) /\ Marked(TRUE, H) BY SnapshotLeads, SnapshotMarked
<1> HIDE DEF ms
<1>3. <<>> \in Bytes /\ Good("up", <<>> \o <<>>) BY Empty, GoodEmpty
<1>4. Good("up", <<>> \o (<<>> \o H)) BY <1>1, <1>3, GoodPut
<1>5. <<>> \o H = H /\ H \in Bytes BY <1>1, HalvesAre, Empty
<1>6. Good("up", <<>> \o H) BY <1>4, <1>5
<1>7. Len(f.raw) <= 1 BY Empty
<1>8. g.chan = H BY DEF ms
<1> HIDE DEF H
<1> QED BY <1>2, <1>5, <1>6, <1>7, <1>8 DEF Sound

LEMMA ReportIs ==
  ASSUME NEW v \in States, NEW next \in States
  PROVE  LET ms == Batch({c \in Controls : next[c] # v[c]}, next, FALSE)
         IN  /\ ms \in Seq(Messages)
             /\ \A k \in 1..Len(Halves(ms)) : Halves(ms)[k].message.snapshot = FALSE
             /\ \A st \in States, s \in Bytes :
                  Leads(st, s, v) => Leads(st, s \o Halves(ms), next)
<1> DEFINE S == {c \in Controls : next[c] # v[c]}
           H == Halves(Batch(S, next, FALSE))
<1>0. S \in SUBSET Controls OBVIOUS
<1>1. \A st \in States, s \in Bytes : Leads(st, s, v) => Leads(st, s \o H, next)
  BY ReportLeads
<1> HIDE DEF S
<1>2. Batch(S, next, FALSE) \in Seq(Messages) BY <1>0, BatchIs
<1>3. /\ H \in Bytes /\ Len(H) = 2 * (Cardinality(S) + 1) /\ Cardinality(S) \in Nat
      /\ \A k \in 1..Len(H) :
           /\ H[k].message.snapshot = FALSE
           /\ H[k].message = Syn(FALSE) <=> k \in {Len(H) - 1, Len(H)}
  BY <1>0, BatchMarks, Zenon
<1> HIDE DEF H
<1>4. /\ Batch(S, next, FALSE) \in Seq(Messages)
      /\ \A k \in 1..Len(H) : H[k].message.snapshot = FALSE
      /\ \A st \in States, s \in Bytes : Leads(st, s, v) => Leads(st, s \o H, next)
  BY <1>1, <1>2, <1>3
<1> QED BY <1>4 DEF H, S

LEMMA SoundReported ==
  ASSUME NEW f \in Entries, NEW g \in Files, NEW st \in States, NEW v, NEW next,
         NEW n \in Nat, g.kind = "joy", Sound(f, g, st, v), NEW ms \in Seq(Messages),
         \A k \in 1..Len(Halves(ms)) : Halves(ms)[k].message.snapshot = FALSE,
         \A s \in Bytes : Leads(st, s, v) => Leads(st, s \o Halves(ms), next)
  PROVE  Sound(f, Reported(g, Halves(ms), n), st, next)
<1> DEFINE H == Halves(ms)
           h == Reported(g, H, n)
           s == f.raw \o g.chan
<1>0. \A k \in 1..Len(H) : H[k].message.snapshot = FALSE OBVIOUS
<1>1. H \in Bytes BY HalvesAre
<1>2. f.raw \in Bytes /\ g.chan \in Bytes /\ f.initializing \in BOOLEAN
  BY DEF Entries, Files
<1>3. s \in Bytes BY <1>2, Concat
<1>4. Leads(st, s, v) => Leads(st, s \o H, next) BY <1>3
<1> HIDE DEF H
<1>5. \/ h = g /\ ~(g.kind = "joy" /\ g.link = "up")
      \/ g.link = "up" /\ h.link = "up" /\ h.chan = g.chan \o H
      \/ /\ g.link = "up" /\ h.link = "cut"
         /\ \E m \in 0..Len(g.chan) : h.chan = SubSeq(g.chan, 1, m)
  BY <1>1, ReportedIs
<1>6. /\ Good(g.link, s) /\ Len(f.raw) <= 1
      /\ g.link = "up" => Leads(st, s, v) /\ Marked(f.initializing, s)
  BY DEF Sound
<1> HIDE DEF h, s
<1>7. CASE h = g /\ ~(g.kind = "joy" /\ g.link = "up")
  <2>1. Sound(f, g, st, next) BY <1>7 DEF Sound
  <2> QED BY <1>7, <2>1 DEF h, H
<1>8. CASE g.link = "up" /\ h.link = "up" /\ h.chan = g.chan \o H
  <2>1. f.raw \o (g.chan \o H) = s \o H /\ Good("up", f.raw \o (g.chan \o H))
    BY <1>2, <1>6, <1>8, GoodPut DEF s, H
  <2>2. Marked(f.initializing, s \o H) BY <1>0, <1>1, <1>2, <1>3, <1>6, <1>8, ReportMarked
  <2>3. Leads(st, s \o H, next) BY <1>4, <1>6, <1>8
  <2>4. Sound(f, h, st, next) BY <1>6, <1>8, <2>1, <2>2, <2>3 DEF Sound
  <2> QED BY <2>4 DEF h, H
<1>9. CASE g.link = "up" /\ h.link = "cut" /\ \E m \in 0..Len(g.chan) : h.chan = SubSeq(g.chan, 1, m)
  <2>1. PICK m \in 0..Len(g.chan) : h.chan = SubSeq(g.chan, 1, m) BY <1>9
  <2>2. Good("cut", f.raw \o h.chan) BY <1>2, <1>6, <2>1, GoodCut DEF s
  <2>3. Sound(f, h, st, next) BY <1>6, <1>9, <2>2 DEF Sound
  <2> QED BY <2>3 DEF h, H
<1> QED BY <1>5, <1>7, <1>8, <1>9

\* A read of the socket, whether the event is whole then or not.
LEMMA SoundReceived ==
  ASSUME NEW f \in Entries, NEW g \in Files, NEW st \in States, NEW v \in States,
         Sound(f, g, st, v),
         NEW bytes \in Bytes, NEW left \in Bytes, bytes \o left = f.raw \o g.chan,
         Len(bytes) \in 1..2,
         NEW e, e.raw = IF Len(bytes) = 2 THEN <<>> ELSE bytes,
         e.initializing = (f.initializing /\ ~(Len(bytes) = 2 /\ bytes[1].message.type = "syn")),
         NEW h, h.link = g.link, h.chan = left
  PROVE  Sound(e, h, IF Len(bytes) = 2 THEN Told(st, bytes[1].message) ELSE st, v)
<1>1. f.initializing \in BOOLEAN BY DEF Entries
<1> DEFINE s == bytes \o left
<1>2. /\ Good(g.link, s) /\ g.link # "closed"
      /\ g.link = "up" => Leads(st, s, v) /\ Marked(f.initializing, s)
  BY DEF Sound
<1>3. CASE Len(bytes) # 2
  <2>1. e.raw = bytes /\ Len(bytes) = 1 BY <1>3
  <2>2. Len(e.raw) <= 1
    <3>1. Len(e.raw) = 1 BY <2>1
    <3> QED BY <3>1, HalfEvent, Zenon
  <2>3. e.initializing = f.initializing
    <3>1. CASE f.initializing BY <1>1, <1>3, <3>1
    <3>2. CASE ~f.initializing BY <1>1, <1>3, <3>2
    <3> QED BY <3>1, <3>2
  <2> QED BY <1>2, <1>3, <2>1, <2>2, <2>3 DEF Sound
<1>4. CASE Len(bytes) = 2
  <2> DEFINE m == bytes[1].message
  <2>1. e.raw = <<>> /\ <<>> \o left = left /\ Len(<<>>) <= 1 BY <1>4, Empty
  <2>2. /\ Good(g.link, <<>> \o left) /\ bytes[1] \in Items
        /\ bytes[1].message = bytes[2].message /\ bytes[1].half = 1 /\ bytes[2].half = 2
    BY <1>2, <1>4, GoodDrop
  <2>3. m \in Messages BY <2>2 DEF Items
  <2>4. g.link = "up" => Leads(Told(st, m), left, v)
    BY <1>2, <1>4, <2>2, <2>3, EndsTake
  <2>5. g.link = "up" => Marked(f.initializing /\ m.type # "syn", left)
    BY <1>1, <1>2, <1>4, TakeMarked
  <2>6. e.initializing = (f.initializing /\ m.type # "syn") BY <1>4
  <2> HIDE DEF m
  <2>7. Sound(e, h, Told(st, m), v) BY <1>2, <2>1, <2>2, <2>4, <2>5, <2>6 DEF Sound
  <2> QED BY <1>4, <2>7 DEF m
<1> QED BY <1>3, <1>4

LEMMA JoyIs ==
  ASSUME TypeOK, TableOK, NEW i \in Joysticks
  PROVE  /\ i \in 1..fake_count /\ i \in 1..TG_MAX_FAKE_FDS
         /\ fake_fds[i] \in Entries /\ fake_fds[i].fd \in Fds
         /\ file[fake_fds[i].fd] \in Files /\ file[fake_fds[i].fd].kind = "joy"
         /\ seen[fake_fds[i].fd] \in States
<1>1. i \in 1..fake_count /\ fake_fds[i].joydev BY DEF Joysticks
<1>2. i \in 1..TG_MAX_FAKE_FDS BY <1>1, Numbers DEF TypeOK
<1>3. fake_fds[i] \in Entries /\ fake_fds[i].fd \in Fds BY <1>2, Types DEF Entries
<1>4. file[fake_fds[i].fd].kind = "joy" BY <1>1 DEF TableOK
<1> QED BY <1>1, <1>2, <1>3, <1>4, Types

\* A step that leaves the joysticks alone.
LEMMA JoyKept ==
  ASSUME JoyOK, UNCHANGED <<val, fake_fds, fake_count>>,
         \A i \in Joysticks : /\ file'[fake_fds[i].fd] = file[fake_fds[i].fd]
                              /\ seen'[fake_fds[i].fd] = seen[fake_fds[i].fd],
         \A t \in Threads : Waiting(t)' => reader'[t] = reader[t]
  PROVE  JoyOK'
<1>1. Joysticks' = Joysticks BY DEF Joysticks
<1>2. \A t \in Threads : Waiting(t)' =>
        /\ reader'[t].fake \in Joysticks
        /\ fake_fds[reader'[t].fake].fd = reader'[t].fd
  BY DEF JoyOK, Waiting
<1>3. \A i \in Joysticks : Sound(fake_fds[i], file'[fake_fds[i].fd], seen'[fake_fds[i].fd], val)
  BY DEF JoyOK
<1> QED BY <1>1, <1>2, <1>3 DEF JoyOK

LEMMA InitJoy == Init => JoyOK
<1> SUFFICES ASSUME Init PROVE JoyOK OBVIOUS
<1>1. Joysticks = {} BY DEF Init, Joysticks
<1>2. \A t \in Threads : ~Waiting(t) BY DEF Init, Waiting, Idle
<1> QED BY <1>1, <1>2 DEF JoyOK

LEMMA OpenJoy ==
  ASSUME IInv, JoyOK, \A t \in Threads : ~Waiting(t),
         NEW joydev \in BOOLEAN, NEW nonblock \in BOOLEAN, Open(joydev, nonblock)
  PROVE  JoyOK'
<1> DEFINE fd == LowestFree
           chan == IF joydev THEN Halves(Batch(Controls, val, TRUE)) ELSE <<>>
           f == [kind |-> IF joydev THEN "joy" ELSE "event",
                 nonblock |-> joydev /\ nonblock, link |-> "up", chan |-> chan]
           e == [fd |-> fd, joydev |-> joydev, initializing |-> joydev, raw |-> <<>>]
<1>1. TypeOK /\ TableOK BY DEF IInv
<1>2. fd \in Fds /\ file[fd].kind = "closed" BY LowestIsFree DEF Open
<1>3. /\ file' = [file EXCEPT ![fd] = f] /\ UNCHANGED <<val, reader, seen>>
      /\ \/ UNCHANGED <<fake_fds, fake_count>>
         \/ /\ fake_count < TG_MAX_FAKE_FDS /\ fake_count' = fake_count + 1
            /\ fake_fds' = [fake_fds EXCEPT ![fake_count + 1] = e]
  <2>1. tg_add_fake_fd(fd, joydev) BY DEF Open
  <2>2. \/ UNCHANGED <<fake_fds, fake_count>>
        \/ /\ ~(fake_count >= TG_MAX_FAKE_FDS) /\ fake_count' = fake_count + 1
           /\ fake_fds' = [fake_fds EXCEPT ![fake_count + 1] = e]
    BY <2>1 DEF tg_add_fake_fd, table, Unused
  <2>3. fake_count \in Nat BY <1>1 DEF TypeOK
  <2> QED BY <2>2, <2>3, Numbers DEF Open, service
<1>4. \A t \in Threads : ~Waiting(t)' BY <1>3 DEF Waiting
<1>5. file'[fd] = f /\ \A g \in Fds : g # fd => file'[g] = file[g]
  <2> HIDE DEF f, fd
  <2> QED BY <1>1, <1>2, <1>3, Types
<1>6. \A i \in Joysticks : /\ i \in 1..fake_count /\ fake_fds[i].fd # fd
                           /\ file'[fake_fds[i].fd] = file[fake_fds[i].fd]
  BY <1>1, <1>2, <1>5, JoyIs
<1>7. CASE UNCHANGED <<fake_fds, fake_count>> BY <1>3, <1>4, <1>6, <1>7, JoyKept
<1>8. CASE /\ fake_count < TG_MAX_FAKE_FDS /\ fake_count' = fake_count + 1
           /\ fake_fds' = [fake_fds EXCEPT ![fake_count + 1] = e]
  <2>1. fake_count \in Nat /\ fake_count + 1 \in 1..TG_MAX_FAKE_FDS
    BY <1>1, <1>8, Numbers DEF TypeOK
  <2> HIDE DEF e
  <2>2. /\ fake_fds'[fake_count + 1] = e
        /\ \A i \in 1..fake_count : fake_fds'[i] = fake_fds[i]
    BY <1>1, <1>8, <2>1, Types
  <2>3. ASSUME NEW i \in Joysticks'
        PROVE  Sound(fake_fds'[i], file'[fake_fds'[i].fd], seen'[fake_fds'[i].fd], val')
    <3>1. i \in 1..(fake_count + 1) /\ fake_fds'[i].joydev BY <1>8, <2>3 DEF Joysticks
    <3>2. CASE i \in 1..fake_count
      <4>1. i \in Joysticks BY <2>2, <3>1, <3>2 DEF Joysticks
      <4> QED BY <1>3, <1>6, <2>2, <3>2, <4>1 DEF JoyOK
    <3>3. CASE i = fake_count + 1
      <4>1. joydev /\ e.raw = <<>> /\ e.initializing = TRUE /\ e.fd = fd
        BY <2>2, <3>1, <3>3 DEF e
      <4>2. f.link = "up" /\ f.chan = Halves(Batch(Controls, val, TRUE)) BY <4>1
      <4>3. val \in States BY <1>1 DEF TypeOK
      <4> HIDE DEF f
      <4>4. Sound(e, f, seen[fd], val) BY <4>1, <4>2, <4>3, SoundOpened
      <4> QED BY <1>3, <1>5, <2>2, <3>3, <4>1, <4>4
    <3> QED BY <2>1, <3>1, <3>2, <3>3
  <2> QED BY <1>4, <2>3 DEF JoyOK
<1> QED BY <1>3, <1>7, <1>8

LEMMA OpenOtherJoy ==
  ASSUME IInv, JoyOK, OpenOther PROVE JoyOK'
<1>1. TypeOK /\ TableOK BY DEF IInv
<1>2. LowestFree \in Fds /\ file[LowestFree].kind = "closed"
  BY LowestIsFree DEF OpenOther
<1>3. /\ file' = [file EXCEPT ![LowestFree] = Other]
      /\ UNCHANGED <<val, fake_fds, fake_count, reader, seen>>
  BY DEF OpenOther, service, table
<1>4. \A i \in Joysticks : file'[fake_fds[i].fd] = file[fake_fds[i].fd]
  BY <1>1, <1>2, <1>3, JoyIs
<1> QED BY <1>3, <1>4, JoyKept

LEMMA CloseJoy ==
  ASSUME IInv, JoyOK, \A t \in Threads : ~Waiting(t), NEW fd \in Fds, Close(fd)
  PROVE  JoyOK'
<1>1. TypeOK /\ TableOK BY DEF IInv
<1>2. /\ tg_del_fake_fd(fd) /\ file' = [file EXCEPT ![fd] = NoFile]
      /\ seen' = [seen EXCEPT ![fd] = Neutral] /\ UNCHANGED <<val, reader>>
  BY DEF Close, service
<1>3. /\ fake_count' \in 0..fake_count
      /\ \A k \in 1..fake_count' : \E m \in 1..fake_count :
           fake_fds'[k] = fake_fds[m] /\ fake_fds[m].fd # fd
  BY <1>1, <1>2, DelIs
<1>4. \A g \in Fds : g # fd => file'[g] = file[g] /\ seen'[g] = seen[g]
  BY <1>1, <1>2, Types
<1>5. ASSUME NEW k \in Joysticks'
      PROVE  Sound(fake_fds'[k], file'[fake_fds'[k].fd], seen'[fake_fds'[k].fd], val')
  <2>1. k \in 1..fake_count' /\ fake_fds'[k].joydev BY <1>5 DEF Joysticks
  <2>2. PICK m \in 1..fake_count : fake_fds'[k] = fake_fds[m] /\ fake_fds[m].fd # fd
    BY <1>3, <2>1
  <2>3. m \in Joysticks BY <2>1, <2>2 DEF Joysticks
  <2>4. fake_fds[m].fd \in Fds BY <1>1, <2>3, JoyIs
  <2> QED BY <1>2, <1>4, <2>2, <2>3, <2>4 DEF JoyOK
<1>6. \A t \in Threads : ~Waiting(t)' BY <1>2 DEF Waiting
<1> QED BY <1>5, <1>6 DEF JoyOK

\* In a read, the one thread has its joystick's entry.
LEMMA ReadStartJoy ==
  ASSUME IInv, JoyOK, OneThread, NEW t \in Threads, NEW fd \in Fds, NEW n \in 1..2,
         ReadStart(t, fd, n)
  PROVE  JoyOK'
<1>1. UNCHANGED <<file, val, fake_fds, fake_count, seen>>
  BY DEF ReadStart, service, table
<1>2. Joysticks' = Joysticks BY <1>1 DEF Joysticks
<1>3. /\ reader'[t].fake \in Joysticks /\ fake_fds[reader'[t].fake].fd = fd
      /\ reader'[t].fd = fd
  BY ReadStartReader
<1>4. \A u \in Threads : u = t BY DEF OneThread
<1> QED BY <1>1, <1>2, <1>3, <1>4 DEF JoyOK

LEMMA ReadReturnJoy ==
  ASSUME IInv, JoyOK, NEW t \in Threads, ReadReturn(t)
  PROVE  JoyOK'
<1>1. reader' = [reader EXCEPT ![t] = Idle] /\ UNCHANGED <<file, val, fake_fds, fake_count, seen>>
  BY DEF ReadReturn, service, table
<1>2. \A u \in Threads : Waiting(u)' => reader'[u] = reader[u]
  BY <1>1, Types DEF IInv, Waiting, Idle
<1> QED BY <1>1, <1>2, JoyKept

LEMMA ReadReceiveJoy ==
  ASSUME IInv, ReadersOK, JoyOK, OneThread, NEW t \in Threads, ReadReceive(t)
  PROVE  JoyOK'
<1> DEFINE i == reader[t].fake
           fd == reader[t].fd
           raw  == fake_fds[i].raw
           chan == file[fd].chan
<1>1. TypeOK /\ TableOK BY DEF IInv
<1>2. /\ Waiting(t) /\ i # 0 /\ i \in Joysticks /\ fake_fds[i].fd = fd
      /\ UNCHANGED <<val, fake_count>>
  BY DEF ReadReceive, ReadersOK, JoyOK, service
<1>3. PICK n \in 1..(2 - Len(raw)) :
        /\ file' = [file EXCEPT ![fd].chan = SubSeq(chan, n + 1, Len(chan))]
        /\ SubSeq(chan, n + 1, Len(chan)) \in Bytes
        /\ raw \o SubSeq(chan, 1, n) \in Bytes
        /\ Len(raw \o SubSeq(chan, 1, n)) = Len(raw) + n
        /\ (raw \o SubSeq(chan, 1, n)) \o SubSeq(chan, n + 1, Len(chan)) = raw \o chan
        /\ Received(t, raw \o SubSeq(chan, 1, n))
  BY <1>1, <1>2, ReceiveIs
<1>4. raw \in Bytes /\ chan \in Bytes BY <1>1, <1>2, ReceiveIs
<1>5. Len(raw) + n \in 1..2
  <2>1. Len(raw) \in Nat BY <1>4, Empty
  <2> HIDE DEF raw
  <2> QED BY <2>1
<1> DEFINE bytes == raw \o SubSeq(chan, 1, n)
           left == SubSeq(chan, n + 1, Len(chan))
<1>6. /\ bytes \in Bytes /\ left \in Bytes /\ Received(t, bytes)
      /\ bytes \o left = raw \o chan /\ Len(bytes) \in 1..2
      /\ file' = [file EXCEPT ![fd].chan = left]
  BY <1>3, <1>5
<1> DEFINE m == bytes[1].message
           told == IF Len(bytes) = 2 THEN Told(seen[fd], m) ELSE seen[fd]
<1> HIDE DEF bytes, left
<1>7. /\ \A k \in 1..TG_MAX_FAKE_FDS :
           fake_fds'[k] =
             IF k # i THEN fake_fds[k]
             ELSE [fake_fds[k] EXCEPT
                     !.raw = IF Len(bytes) = 2 THEN <<>> ELSE bytes,
                     !.initializing = @ /\ ~(Len(bytes) = 2 /\ m.type = "syn")]
      /\ seen' = IF Len(bytes) = 2 THEN [seen EXCEPT ![fd] = Told(@, m)] ELSE seen
      /\ reader' \in {reader, Produced(t)}
  BY <1>1, <1>2, <1>6, ReceivedIs
<1>8. /\ i \in 1..TG_MAX_FAKE_FDS /\ fake_fds[i] \in Entries /\ fd \in Fds
      /\ file[fd] \in Files /\ file[fd].kind = "joy" /\ seen[fd] \in States
  BY <1>1, <1>2, JoyIs
<1>9. /\ Sound(fake_fds[i], file[fd], seen[fd], val)
      /\ bytes \o left = fake_fds[i].raw \o file[fd].chan
  BY <1>2, <1>6 DEF JoyOK
<1>10. val \in States BY <1>1 DEF TypeOK
<1> HIDE DEF raw, chan, m, i, fd
<1>11. /\ fake_fds'[i].fd = fd /\ fake_fds'[i].joydev = fake_fds[i].joydev
       /\ fake_fds'[i].raw = (IF Len(bytes) = 2 THEN <<>> ELSE bytes)
       /\ fake_fds'[i].initializing =
            (fake_fds[i].initializing /\ ~(Len(bytes) = 2 /\ m.type = "syn"))
       /\ \A k \in 1..TG_MAX_FAKE_FDS : k # i => fake_fds'[k] = fake_fds[k]
  BY <1>2, <1>7, <1>8 DEF Entries
<1>12. /\ file'[fd].link = file[fd].link /\ file'[fd].chan = left
       /\ \A g \in Fds : g # fd => file'[g] = file[g]
  BY <1>1, <1>6, <1>8, Types DEF Files
<1>13. seen'[fd] = told /\ \A g \in Fds : g # fd => seen'[g] = seen[g]
  BY <1>1, <1>7, <1>8, Types
<1>14. Sound(fake_fds'[i], file'[fd], told, val)
  <2> DEFINE e == fake_fds'[i]
             f == fake_fds[i]
             h == file'[fd]
  <2>1. /\ e.raw = (IF Len(bytes) = 2 THEN <<>> ELSE bytes)
        /\ e.initializing =
             (f.initializing /\ ~(Len(bytes) = 2 /\ bytes[1].message.type = "syn"))
        /\ h.link = file[fd].link /\ h.chan = left
        /\ f \in Entries /\ Sound(f, file[fd], seen[fd], val)
        /\ bytes \o left = f.raw \o file[fd].chan
    BY <1>8, <1>9, <1>11, <1>12 DEF m
  <2> HIDE DEF e, f, h
  <2>2. Sound(e, h, IF Len(bytes) = 2 THEN Told(seen[fd], bytes[1].message) ELSE seen[fd], val)
    BY <1>6, <1>8, <1>10, <2>1, SoundReceived
  <2> QED BY <2>2 DEF e, h, m
<1>15. Joysticks' = Joysticks
  <2>1. \A k \in 1..fake_count : fake_fds'[k].joydev = fake_fds[k].joydev
    <3>1. \A k \in 1..fake_count : k \in 1..TG_MAX_FAKE_FDS BY <1>1, Numbers DEF TypeOK
    <3> QED BY <1>11, <3>1
  <2> QED BY <1>2, <2>1 DEF Joysticks
<1>16. ASSUME NEW k \in Joysticks
       PROVE  Sound(fake_fds'[k], file'[fake_fds'[k].fd], seen'[fake_fds'[k].fd], val')
  <2>1. CASE k = i BY <1>2, <1>11, <1>13, <1>14, <2>1
  <2>2. CASE k # i
    <3>1. /\ k \in 1..fake_count /\ k \in 1..TG_MAX_FAKE_FDS /\ fake_fds[k].fd \in Fds
          /\ i \in 1..fake_count
      BY <1>1, <1>2, JoyIs
    <3>2. fake_fds[k].fd # fd BY <1>1, <1>2, <2>2, <3>1 DEF TableOK
    <3> QED BY <1>2, <1>11, <1>12, <1>13, <2>2, <3>1, <3>2 DEF JoyOK
  <2> QED BY <2>1, <2>2
<1>17. \A u \in Threads : Waiting(u)' =>
         /\ reader'[u].fake \in Joysticks /\ fake_fds'[reader'[u].fake].fd = reader'[u].fd
  <2>1. \A u \in Threads : u = t BY DEF OneThread
  <2>2. \/ reader'[t].room = 0
        \/ reader'[t].fake = reader[t].fake /\ reader'[t].fd = reader[t].fd
    <3>1. reader \in [Threads -> [fd : Fds, fake : 0..TG_MAX_FAKE_FDS, room : 0..2]]
      BY <1>1, Types
    <3>2. CASE reader' = reader BY <3>2
    <3>3. CASE reader' = Produced(t)
      BY <3>1, <3>3 DEF Produced, Idle
    <3> QED BY <1>7, <3>2, <3>3
  <2>3. Waiting(t)' => reader'[t].room # 0 BY DEF Waiting
  <2> QED BY <1>2, <1>11, <2>1, <2>2, <2>3 DEF i, fd
<1> QED BY <1>15, <1>16, <1>17 DEF JoyOK

LEMMA InputJoy == ASSUME IInv, JoyOK, Input PROVE JoyOK'
<1>1. TypeOK /\ TableOK BY DEF IInv
<1> DEFINE ms == Batch({c \in Controls : val'[c] # val[c]}, val', FALSE)
<1>2. val \in States /\ val' \in States BY <1>1 DEF Input, TypeOK
<1>3. PICK n \in 0..MaxQueue : file' = [g \in Fds |-> Reported(file[g], Halves(ms), n)]
  BY DEF Input, Reported
<1>4. UNCHANGED <<fake_fds, fake_count, reader, seen>> BY DEF Input, table
<1>5. /\ ms \in Seq(Messages)
      /\ \A k \in 1..Len(Halves(ms)) : Halves(ms)[k].message.snapshot = FALSE
      /\ \A st \in States, s \in Bytes :
           Leads(st, s, val) => Leads(st, s \o Halves(ms), val')
  BY <1>2, ReportIs
<1> HIDE DEF ms
<1>6. ASSUME NEW i \in Joysticks
      PROVE  Sound(fake_fds[i], file'[fake_fds[i].fd], seen[fake_fds[i].fd], val')
  <2> DEFINE fd == fake_fds[i].fd
             f == fake_fds[i]
             g == file[fd]
  <2>1. /\ f \in Entries /\ fd \in Fds /\ g \in Files /\ g.kind = "joy" /\ seen[fd] \in States
    BY <1>1, JoyIs
  <2>2. Sound(f, g, seen[fd], val) BY DEF JoyOK
  <2>3. n \in Nat BY Numbers
  <2>4. file'[fd] = Reported(g, Halves(ms), n) BY <1>3, <2>1
  <2> HIDE DEF f, g, fd
  <2>5. Sound(f, Reported(g, Halves(ms), n), seen[fd], val')
    BY <1>5, <2>1, <2>2, <2>3, SoundReported
  <2> QED BY <2>4, <2>5 DEF f, fd
<1>7. Joysticks' = Joysticks BY <1>4 DEF Joysticks
<1>8. \A t \in Threads : Waiting(t)' = Waiting(t) BY <1>4 DEF Waiting
<1> QED BY <1>4, <1>6, <1>7, <1>8 DEF JoyOK

LEMMA CutJoy == ASSUME IInv, JoyOK, NEW fd \in Fds, Cut(fd) PROVE JoyOK'
<1>1. TypeOK /\ TableOK BY DEF IInv
<1>2. /\ file'[fd].link = "cut"
      /\ \A g \in Fds : g # fd => file'[g] = file[g]
      /\ UNCHANGED <<val, fake_fds, fake_count, reader, seen>>
  BY <1>1, CutIs
<1>3. PICK n \in 0..Len(file[fd].chan) : file'[fd].chan = SubSeq(file[fd].chan, 1, n)
  BY <1>1, CutIs
<1>4. ASSUME NEW i \in Joysticks
      PROVE  Sound(fake_fds[i], file'[fake_fds[i].fd], seen[fake_fds[i].fd], val)
  <2>1. /\ fake_fds[i] \in Entries /\ fake_fds[i].fd \in Fds /\ file[fake_fds[i].fd] \in Files
    BY <1>1, JoyIs
  <2>2. Sound(fake_fds[i], file[fake_fds[i].fd], seen[fake_fds[i].fd], val) BY DEF JoyOK
  <2>3. CASE fake_fds[i].fd # fd BY <1>2, <2>1, <2>2, <2>3
  <2>4. CASE fake_fds[i].fd = fd
    <3> DEFINE raw == fake_fds[i].raw
               chan == file[fd].chan
    <3>1. raw \in Bytes /\ chan \in Bytes BY <2>1, <2>4 DEF Entries, Files
    <3>2. Good(file[fd].link, raw \o chan) /\ Len(raw) <= 1 BY <2>2, <2>4 DEF Sound
    <3>3. Good("cut", raw \o SubSeq(chan, 1, n)) BY <1>3, <3>1, <3>2, GoodCut
    <3> QED BY <1>2, <1>3, <2>4, <3>2, <3>3 DEF Sound
  <2> QED BY <2>3, <2>4
<1>5. Joysticks' = Joysticks BY <1>2 DEF Joysticks
<1>6. \A t \in Threads : Waiting(t)' = Waiting(t) BY <1>2 DEF Waiting
<1> QED BY <1>2, <1>4, <1>5, <1>6 DEF JoyOK

\* The calls that have to do with effects, and the end of a rumble.
LEMMA EffectsJoy ==
  ASSUME JoyOK, NEW fd \in Fds,
         \/ Expire(fd)
         \/ \E asked \in -1..TG_MAX_EFFECTS, e \in Effects : tg_upload_effect(fd, asked, e)
         \/ \E id \in 0..TG_MAX_EFFECTS :
              tg_remove_effect(fd, id) \/ WriteStop(fd, id) \/ WritePlay(fd, id)
         \/ \E gain \in Gains : WriteGain(fd, gain)
  PROVE  JoyOK'
<1>1. UNCHANGED <<file, val, fake_fds, fake_count, reader, seen>>
  BY DEF Expire, tg_upload_effect, tg_remove_effect, WriteStop, WritePlay, WriteGain,
         service, table
<1> QED BY <1>1, JoyKept

LEMMA NextJoy ==
  ASSUME OneThread
  PROVE  IInv /\ ReadersOK /\ JoyOK /\ [Next]_vars => JoyOK'
<1> SUFFICES ASSUME IInv, ReadersOK, JoyOK, [Next]_vars PROVE JoyOK' OBVIOUS
<1>1. CASE UNCHANGED vars
  <2>1. UNCHANGED <<file, val, fake_fds, fake_count, reader, seen>>
    BY <1>1 DEF vars, service, table
  <2> QED BY <2>1, JoyKept
<1>2. ASSUME NEW t \in Threads, ~Waiting(t), Elsewhere PROVE JoyOK'
  <2>1. \A u \in Threads : ~Waiting(u) BY <1>2 DEF OneThread
  <2>2. CASE \E joydev, nonblock \in BOOLEAN : Open(joydev, nonblock)
    BY <2>1, <2>2, OpenJoy
  <2>3. CASE OpenOther BY <2>3, OpenOtherJoy
  <2>4. CASE Input BY <2>4, InputJoy
  <2>5. CASE \E fd \in Fds : Close(fd) BY <2>1, <2>5, CloseJoy
  <2>6. CASE \E fd \in Fds : Cut(fd) BY <2>6, CutJoy
  <2>7. ASSUME NEW fd \in Fds,
               \/ Expire(fd)
               \/ \E asked \in -1..TG_MAX_EFFECTS, e \in Effects :
                    tg_upload_effect(fd, asked, e)
               \/ \E id \in 0..TG_MAX_EFFECTS :
                    tg_remove_effect(fd, id) \/ WriteStop(fd, id) \/ WritePlay(fd, id)
               \/ \E gain \in Gains : WriteGain(fd, gain)
        PROVE  JoyOK'
    BY <2>7, EffectsJoy
  <2> QED BY <1>2, <2>2, <2>3, <2>4, <2>5, <2>6, <2>7 DEF Elsewhere
<1>3. ASSUME NEW t \in Threads, NEW fd \in Fds, NEW n \in 1..2, ReadStart(t, fd, n)
      PROVE  JoyOK'
  BY <1>3, ReadStartJoy
<1>4. ASSUME NEW t \in Threads, ReadReceive(t) \/ ReadReturn(t) PROVE JoyOK'
  BY <1>4, ReadReceiveJoy, ReadReturnJoy
<1>5. CASE Input BY <1>5, InputJoy
<1>6. ASSUME NEW fd \in Fds, Cut(fd) \/ Expire(fd) PROVE JoyOK'
  BY <1>6, CutJoy, EffectsJoy
<1>7. CASE Next BY <1>2, <1>3, <1>4, <1>5, <1>6, <1>7, NextIs
<1> QED BY <1>1, <1>7

LEMMA JoyInvariant == ASSUME OneThread PROVE Spec => [](IInv /\ ReadersOK /\ JoyOK)
<1>1. Init => IInv /\ ReadersOK /\ JoyOK BY InitIInv, InitReaders, InitJoy
<1>2. IInv /\ ReadersOK /\ JoyOK /\ [Next]_vars => (IInv /\ ReadersOK /\ JoyOK)'
  BY NextIInv, NextJoy
<1> QED BY <1>1, <1>2, PTL DEF Spec

LEMMA StreamIs ==
  ASSUME TypeOK, TableOK, JoyOK, NEW i \in Joysticks
  PROVE  LET fd == fake_fds[i].fd
         IN  /\ Good(file[fd].link, Stream(i)) /\ seen[fd] \in States
             /\ file[fd].link = "up" =>
                  /\ Leads(seen[fd], Stream(i), val)
                  /\ Marked(fake_fds[i].initializing, Stream(i))
<1>1. seen[fake_fds[i].fd] \in States BY JoyIs
<1> QED BY <1>1 DEF JoyOK, Sound, Stream
-----------------------------------------------------------------------------
(* What holds in every reachable state. *)

\* The tables and the effects keep their C types: a strength and the gain stay
\* in 16 bits whatever level is uploaded and whatever gain is written
\* (tg_scaled_abs and write, src/evdev_preload.c:321-325, 617-627).
THEOREM ShimTypeCorrect == Spec => []TypeOK
<1>1. IInv => TypeOK BY DEF IInv
<1> QED BY <1>1, Invariant, PTL

\* However many threads open, read and close at once, and whatever numbers the
\* kernel uses again, the table names connections to the bridge that are open,
\* and effects belong to one of them (tg_add_fake_fd, tg_del_fake_fd and close,
\* src/evdev_preload.c:164-178, 667-678).
THEOREM FakesAreDevices == Spec => []FakeIsDevice
<1>1. IInv => FakeIsDevice
  <2> SUFFICES ASSUME IInv PROVE FakeIsDevice OBVIOUS
  <2>1. TypeOK /\ TableOK BY DEF IInv
  <2> QED BY <2>1, FakedIsEntry DEF TableOK, FakeIsDevice
<1> QED BY <1>1, Invariant, PTL

\* What a connection's motors play was uploaded through its own descriptor
\* since it was opened, however many descriptors share the slots
\* (tg_find_effect and tg_clear_effects, src/evdev_preload.c:314-319, 404-409).
THEOREM EffectsAreOwn == Spec => []OwnEffectsOnly
<1>1. IInv => OwnEffectsOnly BY DEF IInv
<1> QED BY <1>1, Invariant, PTL

\* With one thread, the joystick's reads keep to the boundaries of the events,
\* over every sequence of opens and closes that moves the entries (raw_used,
\* src/evdev_preload.c:57, 175-177, 587-595).
THEOREM EventsAreWhole == ASSUME OneThread PROVE Spec => []JoyFramed
<1>1. IInv /\ JoyOK => JoyFramed
  <2> SUFFICES ASSUME IInv, JoyOK PROVE JoyFramed OBVIOUS
  <2>1. \A i \in Joysticks : WellFramed(Stream(i)) BY StreamIs DEF IInv, Good
  <2> QED BY <2>1 DEF JoyFramed, WellFramed
<1> QED BY <1>1, JoyInvariant, PTL

\* With one thread, a joystick's reader is told, or will be by what is on its
\* way, the state the controller has, whatever the controls and values are and
\* however its reads cut the stream (read, src/evdev_preload.c:563-602).
THEOREM JoystickCatchesUp == ASSUME OneThread PROVE Spec => []JoyCatchesUp
<1>1. IInv /\ JoyOK => JoyCatchesUp
  <2> SUFFICES ASSUME IInv, JoyOK, NEW i \in Joysticks, file[fake_fds[i].fd].link = "up"
               PROVE  Drained(seen[fake_fds[i].fd], Stream(i)) = val
    BY DEF JoyCatchesUp
  <2>1. /\ Stream(i) \in Bytes /\ seen[fake_fds[i].fd] \in States /\ val \in States
        /\ Leads(seen[fake_fds[i].fd], Stream(i), val)
    BY StreamIs DEF IInv, Good, TypeOK
  <2> QED BY <2>1, LeadsIsDrained
<1> QED BY <1>1, JoyInvariant, PTL

\* With one thread, JS_EVENT_INIT marks the snapshot and nothing else: it goes
\* with the SYN_REPORT that ends it (initializing, src/evdev_preload.c:172, 541,
\* 559).
THEOREM InitEndsWithSnapshot == ASSUME OneThread PROVE Spec => []InitMarksSnapshot
<1>1. IInv /\ JoyOK => InitMarksSnapshot
  <2> SUFFICES ASSUME IInv, JoyOK, NEW i \in Joysticks, file[fake_fds[i].fd].link = "up"
               PROVE  fake_fds[i].initializing <=>
                        \E k \in 1..Len(Stream(i)) : Stream(i)[k].message = Syn(TRUE)
    BY DEF InitMarksSnapshot
  <2>1. Marked(fake_fds[i].initializing, Stream(i)) BY StreamIs DEF IInv
  <2> DEFINE s == Stream(i)
  <2> HIDE DEF s
  <2>2. CASE fake_fds[i].initializing
    <3>1. PICK n \in 1..Len(s) :
            \A k \in 1..Len(s) : s[k].message = Syn(TRUE) <=> k \in {n - 1, n}
      BY <2>1, <2>2 DEF Marked, s
    <3> QED BY <2>2, <3>1 DEF s
  <2>3. CASE ~fake_fds[i].initializing
    <3>1. \A k \in 1..Len(s) : ~s[k].message.snapshot BY <2>1, <2>3 DEF Marked, s
    <3>2. Syn(TRUE).snapshot BY DEF Syn
    <3> QED BY <2>3, <3>1, <3>2 DEF s
  <2> QED BY <2>2, <2>3
<1> QED BY <1>1, JoyInvariant, PTL
=============================================================================
