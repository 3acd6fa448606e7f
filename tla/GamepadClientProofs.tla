-------------------------- MODULE GamepadClientProofs --------------------------
(***************************************************************************)
(* The library's two connections, for every set of devices, controls and   *)
(* values, every number of faults and every length of a channel: messages  *)
(* stay whole however they are cut into pieces, no button stays pressed    *)
(* without a stream, a refresh that returns 0 has changed nothing, and a   *)
(* stream in use leads to the state the bridge has.  The bridge that the   *)
(* library is checked against keeps to BridgeService.                      *)
(***************************************************************************)
EXTENDS ClientRefinement, SequenceTheorems, FiniteSetTheorems,
        WellFoundedInduction, TLAPS

-----------------------------------------------------------------------------
(* Streams. *)

Items == [message : Messages, half : {1, 2}]

LEMMA Concat ==
  ASSUME NEW s \in Stream, NEW t \in Stream
  PROVE  /\ s \o t \in Stream
         /\ Len(s \o t) = Len(s) + Len(t)
         /\ \A i \in 1..Len(s) : (s \o t)[i] = s[i]
         /\ \A i \in 1..Len(t) : (s \o t)[i + Len(s)] = t[i]
         /\ \A i \in (Len(s) + 1)..(Len(s) + Len(t)) : (s \o t)[i] = t[i - Len(s)]
  BY ConcatProperties DEF Stream

LEMMA Associative ==
  ASSUME NEW a \in Stream, NEW b \in Stream, NEW c \in Stream
  PROVE  (a \o b) \o c = a \o (b \o c)
<1> DEFINE S == [message : Messages, half : {1, 2}]
<1>1. a \in Seq(S) /\ b \in Seq(S) /\ c \in Seq(S) BY DEF Stream
<1> HIDE DEF S
<1> QED BY <1>1, ConcatAssociative

LEMMA Sub ==
  ASSUME NEW s \in Stream, NEW m \in 1..(Len(s) + 1), NEW n \in 0..Len(s), m <= n + 1
  PROVE  /\ SubSeq(s, m, n) \in Stream
         /\ Len(SubSeq(s, m, n)) = n - m + 1
         /\ \A i \in 1..(n - m + 1) : SubSeq(s, m, n)[i] = s[m + i - 1]
<1>0. Len(s) \in Nat /\ \A i \in 1..Len(s) : s[i] \in Items
  BY LenProperties, ElementOfSeq DEF Stream, Items
<1>1. \A i \in m..n : s[i] \in Items BY <1>0
<1>2. m \in Int /\ n \in Int BY <1>0
<1>3. /\ SubSeq(s, m, n) \in Seq(Items)
      /\ Len(SubSeq(s, m, n)) = IF m <= n THEN n - m + 1 ELSE 0
      /\ \A i \in 1..(n - m + 1) : SubSeq(s, m, n)[i] = s[m + i - 1]
  BY <1>1, <1>2, SubSeqProperties
<1> QED BY <1>3 DEF Stream, Items

LEMMA Empty ==
  /\ <<>> \in Stream /\ Len(<<>>) = 0
  /\ \A s \in Stream : <<>> \o s = s /\ s \o <<>> = s
  /\ \A s \in Stream : Len(s) \in Nat /\ (Len(s) = 0 => s = <<>>)
<1>1. <<>> \in Stream /\ Len(<<>>) = 0 BY EmptySeq DEF Stream
<1>2. \A s \in Stream : <<>> \o s = s /\ s \o <<>> = s BY ConcatEmptySeq DEF Stream
<1>3. \A s \in Stream : Len(s) \in Nat /\ (Len(s) = 0 => s = <<>>)
  BY EmptySeq, LenProperties DEF Stream
<1> QED BY <1>1, <1>2, <1>3

LEMMA HalvesAre ==
  ASSUME NEW ms \in Seq(Messages)
  PROVE  /\ Halves(ms) \in Stream /\ Len(Halves(ms)) = 2 * Len(ms)
         /\ \A i \in 1..Len(ms) :
              /\ Halves(ms)[2 * i - 1] = [message |-> ms[i], half |-> 1]
              /\ Halves(ms)[2 * i] = [message |-> ms[i], half |-> 2]
<1>1. Len(ms) \in Nat BY LenProperties
<1>2. \A i \in 1..(2 * Len(ms)) :
        /\ (i + 1) \div 2 \in 1..Len(ms)
        /\ i % 2 \in {0, 1}
  BY <1>1
<1>3. \A i \in 1..(2 * Len(ms)) : Halves(ms)[i] \in Items
  BY <1>2, <1>1, ElementOfSeq DEF Halves, Items
<1>4. Halves(ms) \in [1..(2 * Len(ms)) -> Items]
  BY <1>3 DEF Halves
<1>5. Halves(ms) \in Seq(Items) /\ Len(Halves(ms)) = 2 * Len(ms)
  BY <1>1, <1>4
<1>6. ASSUME NEW i \in 1..Len(ms)
      PROVE /\ Halves(ms)[2 * i - 1] = [message |-> ms[i], half |-> 1]
            /\ Halves(ms)[2 * i] = [message |-> ms[i], half |-> 2]
  <2>1. /\ 2 * i - 1 \in 1..(2 * Len(ms)) /\ 2 * i \in 1..(2 * Len(ms))
        /\ (2 * i - 1 + 1) \div 2 = i /\ (2 * i + 1) \div 2 = i
        /\ (2 * i - 1) % 2 = 1 /\ (2 * i) % 2 = 0
    BY <1>1
  <2> QED BY <2>1 DEF Halves
<1> QED BY <1>5, <1>6 DEF Stream, Items

\* A stream whose messages are whole, up to a cut.
Good(link, s) ==
  /\ s \in Stream /\ WellFramed(s)
  /\ link = "up" => Len(s) % 2 = 0

LEMMA GoodEmpty == ASSUME NEW link PROVE Good(link, <<>>) /\ Good(link, <<>> \o <<>>)
<1>1. WellFramed(<<>>) BY Empty DEF WellFramed
<1>2. <<>> \o <<>> = <<>> /\ <<>> \in Stream /\ Len(<<>>) % 2 = 0 BY Empty
<1> QED BY <1>1, <1>2 DEF Good

\* The bridge puts whole messages behind what it has sent.
LEMMA GoodPut ==
  ASSUME NEW b \in Stream, NEW c \in Stream, Good("up", b \o c),
         NEW ms \in Seq(Messages)
  PROVE  /\ c \o Halves(ms) \in Stream
         /\ b \o (c \o Halves(ms)) = (b \o c) \o Halves(ms)
         /\ Good("up", b \o (c \o Halves(ms)))
<1> DEFINE H == Halves(ms)
           s == b \o c
<1>1. /\ H \in Stream /\ Len(H) = 2 * Len(ms) /\ Len(ms) \in Nat
      /\ \A i \in 1..Len(ms) : /\ H[2 * i - 1] = [message |-> ms[i], half |-> 1]
                               /\ H[2 * i] = [message |-> ms[i], half |-> 2]
  BY HalvesAre, LenProperties
<1>2. c \o H \in Stream /\ s \in Stream BY <1>1, Concat
<1> HIDE DEF H
<1>3. b \o (c \o H) = s \o H BY <1>1, Associative
<1> HIDE DEF s
<1>4. Len(s) \in Nat /\ Len(s) % 2 = 0 BY <1>2, Empty DEF Good, s
<1>5. /\ s \o H \in Stream /\ Len(s \o H) = Len(s) + 2 * Len(ms)
      /\ \A i \in 1..Len(s) : (s \o H)[i] = s[i]
      /\ \A i \in 1..(2 * Len(ms)) : (s \o H)[i + Len(s)] = H[i]
  <2>1. /\ s \o H \in Stream /\ Len(s \o H) = Len(s) + Len(H)
        /\ \A i \in 1..Len(s) : (s \o H)[i] = s[i]
        /\ \A i \in 1..Len(H) : (s \o H)[i + Len(s)] = H[i]
    BY <1>1, <1>2, Concat
  <2> QED BY <1>1, <2>1
<1>6. Len(s \o H) % 2 = 0 BY <1>1, <1>4, <1>5
<1>7. ASSUME NEW i \in 1..Len(s \o H)
      PROVE /\ (s \o H)[i].half = IF i % 2 = 1 THEN 1 ELSE 2
            /\ i % 2 = 0 => (s \o H)[i].message = (s \o H)[i - 1].message
  <2>1. CASE i <= Len(s)
    <3>1. i \in 1..Len(s) BY <1>4, <1>5, <2>1
    <3>2. i % 2 = 0 => i - 1 \in 1..Len(s) BY <1>4, <3>1
    <3>3. WellFramed(s) BY DEF Good, s
    <3>4. /\ s[i].half = IF i % 2 = 1 THEN 1 ELSE 2
          /\ i % 2 = 0 => s[i].message = s[i - 1].message
      BY <3>1, <3>3 DEF WellFramed
    <3>5. (s \o H)[i] = s[i] /\ (i % 2 = 0 => (s \o H)[i - 1] = s[i - 1])
      BY <1>5, <3>1, <3>2
    <3> QED BY <3>4, <3>5
  <2>2. CASE i > Len(s)
    <3> DEFINE j == i - Len(s)
               k == (j + 1) \div 2
    <3>0. i \in Nat /\ i <= Len(s) + 2 * Len(ms) BY <1>1, <1>4, <1>5
    <3>1. /\ j \in 1..(2 * Len(ms)) /\ j % 2 = i % 2 /\ i = j + Len(s)
          /\ k \in 1..Len(ms) /\ j = (IF i % 2 = 1 THEN 2 * k - 1 ELSE 2 * k)
      <4>1. j \in 1..(2 * Len(ms)) /\ i = j + Len(s) BY <1>1, <1>4, <2>2, <3>0
      <4>2. j % 2 = i % 2 BY <1>4, <3>0, <2>2
      <4>3. k \in 1..Len(ms) BY <1>1, <4>1
      <4>4. j = (IF j % 2 = 1 THEN 2 * k - 1 ELSE 2 * k) BY <1>1, <4>1
      <4> QED BY <4>1, <4>2, <4>3, <4>4
    <3> HIDE DEF j, k
    <3>2. (s \o H)[i] = H[j] BY <1>5, <3>1
    <3>3. CASE i % 2 = 1
      <4>1. (s \o H)[i] = [message |-> ms[k], half |-> 1] BY <1>1, <3>1, <3>2, <3>3
      <4> QED BY <4>1, <3>3
    <3>4. CASE i % 2 # 1
      <4>0. i % 2 = 0 BY <3>0, <3>4
      <4>1. i % 2 = 0 /\ j = 2 * k BY <3>1, <3>4, <4>0
      <4>2. 2 * k - 1 \in 1..(2 * Len(ms)) /\ i - 1 = (2 * k - 1) + Len(s)
        BY <1>1, <1>4, <3>0, <3>1, <4>1
      <4>3. (s \o H)[i - 1] = H[2 * k - 1] BY <1>5, <4>2
      <4>4. /\ (s \o H)[i] = [message |-> ms[k], half |-> 2]
            /\ (s \o H)[i - 1] = [message |-> ms[k], half |-> 1]
        BY <1>1, <3>1, <3>2, <4>1, <4>3
      <4> QED BY <4>1, <4>4
    <3> QED BY <3>3, <3>4
  <2> QED BY <2>1, <2>2, <1>4
<1>8. WellFramed(s \o H) BY <1>7 DEF WellFramed
<1> QED BY <1>2, <1>3, <1>5, <1>6, <1>8 DEF Good, s, H

\* A connection that is cut keeps a prefix.
LEMMA GoodCut ==
  ASSUME NEW link, NEW b \in Stream, NEW c \in Stream, Good(link, b \o c),
         NEW n \in 0..Len(c)
  PROVE  SubSeq(c, 1, n) \in Stream /\ Good("cut", b \o SubSeq(c, 1, n))
<1> DEFINE p == SubSeq(c, 1, n)
<1>1. Len(b) \in Nat /\ Len(c) \in Nat BY Empty
<1>2. /\ p \in Stream /\ Len(p) = n /\ \A i \in 1..n : p[i] = c[i]
  BY <1>1, Sub
<1> HIDE DEF p
<1>3. /\ b \o p \in Stream /\ Len(b \o p) = Len(b) + n /\ Len(b \o c) = Len(b) + Len(c)
      /\ \A i \in 1..Len(b) : (b \o p)[i] = b[i] /\ (b \o c)[i] = b[i]
      /\ \A i \in (Len(b) + 1)..(Len(b) + n) : (b \o p)[i] = p[i - Len(b)]
      /\ \A i \in (Len(b) + 1)..(Len(b) + Len(c)) : (b \o c)[i] = c[i - Len(b)]
  BY <1>2, Concat
<1>4. \A i \in 1..(Len(b) + n) : (b \o p)[i] = (b \o c)[i]
  <2> TAKE i \in 1..(Len(b) + n)
  <2>1. CASE i <= Len(b) BY <1>1, <1>3, <2>1
  <2>0. i \in Nat BY <1>1
  <2>2. CASE i > Len(b)
    <3>1. i - Len(b) \in 1..n /\ i \in (Len(b) + 1)..(Len(b) + n)
          /\ i \in (Len(b) + 1)..(Len(b) + Len(c))
      BY <1>1, <2>2
    <3>2. (b \o p)[i] = p[i - Len(b)] /\ (b \o c)[i] = c[i - Len(b)]
      BY <1>3, <3>1
    <3>3. p[i - Len(b)] = c[i - Len(b)] BY <1>2, <3>1
    <3> QED BY <3>2, <3>3
  <2>3. i <= Len(b) \/ i > Len(b) BY <1>1, <2>0
  <2> QED BY <2>1, <2>2, <2>3, Zenon
<1>5. \A i \in 1..(Len(b) + n) : i % 2 = 0 => i - 1 \in 1..(Len(b) + n)
  BY <1>1
<1>6. WellFramed(b \o p)
  <2>1. \A i \in 1..(Len(b) + n) : i \in 1..Len(b \o c) BY <1>1, <1>3
  <2> QED BY <1>3, <1>4, <1>5, <2>1 DEF Good, WellFramed
<1> QED BY <1>2, <1>3, <1>6 DEF Good, p

\* recv moves what it takes from the channel to the buffer.
LEMMA Take ==
  ASSUME NEW b \in Stream, NEW c \in Stream, NEW n \in 1..Len(c)
  PROVE  /\ SubSeq(c, 1, n) \in Stream /\ SubSeq(c, n + 1, Len(c)) \in Stream
         /\ b \o SubSeq(c, 1, n) \in Stream
         /\ Len(b \o SubSeq(c, 1, n)) = Len(b) + n
         /\ (b \o SubSeq(c, 1, n)) \o SubSeq(c, n + 1, Len(c)) = b \o c
<1>1. Len(b) \in Nat /\ Len(c) \in Nat BY Empty
<1>2. /\ SubSeq(c, 1, n) \in Stream /\ Len(SubSeq(c, 1, n)) = n
      /\ SubSeq(c, n + 1, Len(c)) \in Stream
  BY <1>1, Sub
<1>3. SubSeq(c, 1, n) \o SubSeq(c, n + 1, Len(c)) = c
  <2>1. SubSeq(c, 1, n) \o SubSeq(c, n + 1, Len(c)) = SubSeq(c, 1, Len(c))
    BY <1>1, ConcatAdjacentSubSeq DEF Stream
  <2> QED BY <2>1, SubSeqFull DEF Stream
<1>4. (b \o SubSeq(c, 1, n)) \o SubSeq(c, n + 1, Len(c))
        = b \o (SubSeq(c, 1, n) \o SubSeq(c, n + 1, Len(c)))
  <2> HIDE DEF Stream
  <2> DEFINE u == SubSeq(c, 1, n)
             v == SubSeq(c, n + 1, Len(c))
  <2>1. u \in Stream /\ v \in Stream BY <1>2
  <2> HIDE DEF u, v
  <2>2. (b \o u) \o v = b \o (u \o v) BY <2>1, Associative
  <2> QED BY <2>2 DEF u, v
<1> QED BY <1>2, <1>3, <1>4, Concat

\* The first message of a stream is whole, and what follows it is framed.
LEMMA GoodDrop ==
  ASSUME NEW link, NEW r \in Stream, NEW t \in Stream, Len(r) = 2,
         Good(link, r \o t)
  PROVE  /\ Good(link, t) /\ Good(link, <<>> \o t)
         /\ r[1] \in Items /\ r[2] \in Items /\ r[1].message = r[2].message
         /\ r[1].half = 1 /\ r[2].half = 2
<1>1. Len(t) \in Nat BY Empty
<1>2. /\ Len(r \o t) = Len(t) + 2
      /\ (r \o t)[1] = r[1] /\ (r \o t)[2] = r[2]
      /\ \A i \in 1..Len(t) : (r \o t)[i + 2] = t[i]
  <2>1. /\ Len(r \o t) = Len(r) + Len(t)
        /\ \A i \in 1..Len(r) : (r \o t)[i] = r[i]
        /\ \A i \in 1..Len(t) : (r \o t)[i + Len(r)] = t[i]
    BY Concat
  <2>2. 1 \in 1..2 /\ 2 \in 1..2 OBVIOUS
  <2> QED BY <1>1, <2>1, <2>2
<1>3. r[1] \in Items /\ r[2] \in Items
  <2>1. 1 \in 1..Len(r) /\ 2 \in 1..Len(r) OBVIOUS
  <2> QED BY <2>1, ElementOfSeq DEF Stream, Items
<1>4. \A i \in 1..(Len(t) + 2) :
        /\ (r \o t)[i].half = IF i % 2 = 1 THEN 1 ELSE 2
        /\ i % 2 = 0 => (r \o t)[i].message = (r \o t)[i - 1].message
  BY <1>2 DEF Good, WellFramed
<1>5. /\ r[1].half = 1 /\ r[2].half = 2 /\ r[1].message = r[2].message
  <2>1. 1 \in 1..(Len(t) + 2) /\ 2 \in 1..(Len(t) + 2) BY <1>1
  <2>2. 1 % 2 = 1 /\ 2 % 2 = 0 /\ 2 - 1 = 1 OBVIOUS
  <2> QED BY <1>2, <1>4, <2>1, <2>2
<1>6. ASSUME NEW i \in 1..Len(t)
      PROVE /\ t[i].half = IF i % 2 = 1 THEN 1 ELSE 2
            /\ i % 2 = 0 => t[i].message = t[i - 1].message
  <2> DEFINE m == i + 2
  <2>1. m \in 1..(Len(t) + 2) /\ m % 2 = i % 2 /\ m - 1 = i + 1 BY <1>1
  <2>2. t[i] = (r \o t)[m] BY <1>2
  <2>3. ASSUME i % 2 = 0 PROVE t[i - 1] = (r \o t)[m - 1]
    <3>1. i - 1 \in 1..Len(t) /\ i - 1 + 2 = m - 1 BY <1>1, <2>3
    <3> QED BY <1>2, <3>1
  <2> HIDE DEF m
  <2>4. /\ (r \o t)[m].half = IF m % 2 = 1 THEN 1 ELSE 2
        /\ m % 2 = 0 => (r \o t)[m].message = (r \o t)[m - 1].message
    BY <1>4, <2>1
  <2>5. t[i].half = IF i % 2 = 1 THEN 1 ELSE 2 BY <2>1, <2>2, <2>4
  <2>6. i % 2 = 0 => t[i].message = t[i - 1].message BY <2>1, <2>2, <2>3, <2>4
  <2> QED BY <2>5, <2>6
<1>7. link = "up" => Len(t) % 2 = 0
  <2>1. link = "up" => (Len(t) + 2) % 2 = 0 BY <1>2 DEF Good
  <2> QED BY <1>1, <2>1
<1>8. WellFramed(t) BY <1>6 DEF WellFramed
<1> QED BY <1>3, <1>5, <1>7, <1>8, Empty DEF Good
-----------------------------------------------------------------------------
(* Messages. *)

LEMMA MessageIs ==
  /\ \A desc \in Descriptors :
       /\ Describe("hotplug", desc) \in Messages
       /\ Describe("descriptor", desc) \in Messages
  /\ \A c \in Controls, v \in Values : Event(c, v) \in Messages
  /\ Syn \in Messages
  BY DEF Describe, Event, Syn, Messages

LEMMA Contents ==
  ASSUME NEW m \in Messages
  PROVE  /\ m.type = "hotplug" => m.desc \in Descriptors
         /\ m.type = "event" => m.control \in Controls /\ m.value \in Values
  BY DEF Messages, Syn

LEMMA One ==
  ASSUME NEW m \in Messages
  PROVE  /\ <<m>> \in Seq(Messages) /\ Len(<<m>>) = 1 /\ <<m>>[1] = m
  OBVIOUS

\* A report names every control once.
LEMMA InOrderIs ==
  ASSUME NEW S \in SUBSET Controls
  PROVE  /\ Cardinality(S) \in Nat
         /\ InOrder(S) \in [1..Cardinality(S) -> S]
         /\ \A i, j \in 1..Cardinality(S) : InOrder(S)[i] = InOrder(S)[j] => i = j
         /\ \A c \in S : \E i \in 1..Cardinality(S) : InOrder(S)[i] = c
<1> DEFINE n == Cardinality(S)
<1>1. IsFiniteSet(S) BY ClientAssumption, FS_Subset
<1>2. n \in Nat /\ ExistsBijection(1..n, S) BY <1>1, FS_CardinalityType
<1>3. PICK g \in Bijection(1..n, S) : TRUE BY <1>2 DEF ExistsBijection
<1>4. /\ g \in [1..n -> S]
      /\ \A i, j \in 1..n : g[i] = g[j] => i = j
  BY <1>3 DEF Bijection, Injection, IsInjective
<1>5. /\ InOrder(S) \in [1..n -> S]
      /\ \A i, j \in 1..n : InOrder(S)[i] = InOrder(S)[j] => i = j
  BY <1>4 DEF InOrder
<1>6. InOrder(S) \in Injection(1..n, S)
  BY <1>5 DEF Injection, IsInjective
<1>7. Cardinality(1..n) = n BY <1>2, FS_Interval
<1>8. InOrder(S) \in Surjection(1..n, S)
  BY <1>1, <1>6, <1>7, FS_Injection
<1> QED BY <1>2, <1>5, <1>8 DEF Surjection

LEMMA ReportIs ==
  ASSUME NEW S \in SUBSET Controls, NEW values \in States
  PROVE  /\ ReportOf(S, values) \in Seq(Messages)
         /\ Len(ReportOf(S, values)) = Cardinality(S) + 1
         /\ \A i \in 1..Cardinality(S) :
              ReportOf(S, values)[i] = Event(InOrder(S)[i], values[InOrder(S)[i]])
         /\ ReportOf(S, values)[Cardinality(S) + 1] = Syn
<1> DEFINE n == Cardinality(S)
           order == InOrder(S)
           events == [i \in 1..n |-> Event(order[i], values[order[i]])]
<1>1. n \in Nat /\ order \in [1..n -> S] BY InOrderIs
<1> HIDE DEF n, order
<1>2. \A i \in 1..n : Event(order[i], values[order[i]]) \in Messages
  BY <1>1, MessageIs DEF States
<1>3. events \in Seq(Messages) /\ Len(events) = n
  BY <1>1, <1>2
<1>4. \A i \in 1..n : events[i] = Event(order[i], values[order[i]]) OBVIOUS
<1>5. Syn \in Messages BY MessageIs
<1> HIDE DEF events
<1>6. /\ Append(events, Syn) \in Seq(Messages) /\ Len(Append(events, Syn)) = n + 1
      /\ \A i \in 1..n : Append(events, Syn)[i] = events[i]
      /\ Append(events, Syn)[n + 1] = Syn
  BY <1>1, <1>3, <1>5
<1>7. ReportOf(S, values) = Append(events, Syn) BY DEF ReportOf, events, order, n
<1> QED BY <1>4, <1>6, <1>7 DEF n, order

\* The answer to a query.
LEMMA AnswerIs ==
  ASSUME sdesc \in Descriptors, sval \in States
  PROVE  LET report == IF sdesc.present THEN ReportOf(Controls, sval) ELSE <<>>
             answer == <<Describe("descriptor", sdesc)>> \o report
         IN  /\ report \in Seq(Messages) /\ answer \in Seq(Messages)
             /\ Len(answer) = Len(report) + 1
             /\ \A i \in 1..Len(report) : answer[i + 1] = report[i]
<1> DEFINE report == IF sdesc.present THEN ReportOf(Controls, sval) ELSE <<>>
           m == Describe("descriptor", sdesc)
<1>1. report \in Seq(Messages)
  <2>1. Controls \in SUBSET Controls OBVIOUS
  <2> QED BY <2>1, ReportIs
<1>2. <<m>> \in Seq(Messages) /\ Len(<<m>>) = 1 BY MessageIs, One
<1> HIDE DEF report, m
<1>3. /\ <<m>> \o report \in Seq(Messages)
      /\ Len(<<m>> \o report) = Len(<<m>>) + Len(report)
      /\ \A i \in 1..(Len(<<m>>) + Len(report)) :
           (<<m>> \o report)[i] = IF i <= Len(<<m>>) THEN <<m>>[i] ELSE report[i - Len(<<m>>)]
  BY <1>1, <1>2, ConcatProperties
<1>4. Len(report) \in Nat BY <1>1, LenProperties
<1>5. Len(<<m>> \o report) = Len(report) + 1 BY <1>2, <1>3, <1>4
<1>6. \A i \in 1..Len(report) : (<<m>> \o report)[i + 1] = report[i]
  BY <1>2, <1>3, <1>4
<1> QED BY <1>1, <1>3, <1>5, <1>6 DEF report, m
-----------------------------------------------------------------------------
(* The inductive invariant. *)

Channels == [link : {"closed", "up", "cut"},
             role : {"none", "query", "events", "ask", "hotplug"},
             live : BOOLEAN, chan : Stream]

Hotplugs(s) == \A i \in 1..Len(s) : s[i].message.type = "hotplug"

\* Each connection has its roles, each buffer its connection, and each place in
\* a call the connections it waits for.
PlaceOK ==
  /\ conn["monitor"].role \in {"none", "ask", "hotplug"}
  /\ conn["event"].role \in {"none", "events"}
  /\ conn["new"].role \in {"none", "query", "events"}
  /\ \A k \in Kinds : conn[k].link = "closed" => conn[k].chan = <<>>
  /\ conn["monitor"].link = "closed" => mbuf = <<>>
  /\ conn["monitor"].role = "ask" => mbuf = <<>> /\ conn["monitor"].chan = <<>>
  /\ conn["new"].role = "query" => conn["new"].chan = <<>>
  /\ conn["event"].link = "closed" => ebuf = <<>>
  /\ pc = "wait_monitor" => conn["monitor"].link # "closed" /\ mbuf = <<>>
  /\ pc = "wait_stream" => conn["event"].link = "closed" /\ descriptor.present
  /\ pc = "wait_stream" /\ back = "refresh" => conn["monitor"].link # "closed"

StreamsOK ==
  /\ Good(conn["monitor"].link, mbuf \o conn["monitor"].chan)
  /\ Good(conn["event"].link, ebuf \o conn["event"].chan)
  /\ Good(conn["new"].link, conn["new"].chan)
  /\ Hotplugs(mbuf \o conn["monitor"].chan)

\* A refresh that has nothing to tell yet has changed nothing.
TellsOK ==
  /\ pc \in {"update", "events"} => call = "update"
  /\ pc = "wait_stream" /\ back = "update" => call = "update"
  /\ pc \in {"refresh", "wait_monitor"} /\ refreshed # 1 => descriptor = before
  /\ pc = "refresh" /\ conn["monitor"].link = "closed" => refreshed # 1
  /\ pc = "wait_monitor" => refreshed # 1
  /\ RefreshTells

IInv == TypeOK /\ PlaceOK /\ StreamsOK /\ NoStreamNoInput /\ TellsOK

LEMMA FixedChannels ==
  /\ Closed \in Channels /\ Closed.link = "closed" /\ Closed.role = "none"
  /\ Closed.live = FALSE /\ Closed.chan = <<>>
  /\ \A request \in {"query", "ask"} :
       /\ Connected(request) \in Channels /\ Connected(request).link = "up"
       /\ Connected(request).role = request /\ Connected(request).live = FALSE
       /\ Connected(request).chan = <<>>
  BY Empty DEF Closed, Connected, Channel, Channels

LEMMA ChannelHas ==
  ASSUME NEW c \in Channels
  PROVE  /\ c.link \in {"closed", "up", "cut"} /\ c.live \in BOOLEAN /\ c.chan \in Stream
         /\ c.role \in {"none", "query", "events", "ask", "hotplug"}
  BY DEF Channels

LEMMA Kind == {"monitor", "event", "new"} = Kinds /\ "monitor" \in Kinds
              /\ "event" \in Kinds /\ "new" \in Kinds
  BY DEF Kinds

LEMMA NeutralIs == Neutral \in States
  BY ClientAssumption DEF Neutral, States

\* recv takes n halves.
LEMMA SkipIs ==
  ASSUME NEW c \in Channels, NEW n \in 1..Len(c.chan)
  PROVE  /\ Skip(c, n) \in Channels /\ Skip(c, n).link = c.link
         /\ Skip(c, n).role = c.role /\ Skip(c, n).live = c.live
         /\ Skip(c, n).chan = SubSeq(c.chan, n + 1, Len(c.chan))
<1>1. c.chan \in Stream BY ChannelHas
<1>2. SubSeq(c.chan, n + 1, Len(c.chan)) \in Stream BY <1>1, Take, Empty
<1> QED BY <1>2, ChannelHas DEF Skip, Holding, Channel, Channels

LEMMA PutIs ==
  ASSUME NEW c \in Channels, NEW ms \in Seq(Messages)
  PROVE  /\ Put(c, ms) \in Channels /\ Put(c, ms).link = c.link
         /\ Put(c, ms).role = c.role /\ Put(c, ms).live = c.live
         /\ Put(c, ms).chan = c.chan \o Halves(ms)
<1>1. c.chan \in Stream /\ Halves(ms) \in Stream BY ChannelHas, HalvesAre
<1>2. c.chan \o Halves(ms) \in Stream BY <1>1, Concat
<1> QED BY <1>2, ChannelHas DEF Put, Holding, Channel, Channels

\* The same of a connection that is sent to.
LEMMA PutTo ==
  ASSUME NEW k \in Kinds, conn[k] \in Channels, NEW ms \in Seq(Messages),
         conn'[k] = Put(conn[k], ms)
  PROVE  /\ conn'[k].link = conn[k].link /\ conn'[k].role = conn[k].role
         /\ conn'[k].live = conn[k].live
         /\ conn'[k].chan = conn[k].chan \o Halves(ms)
<1> DEFINE c == conn[k]
           d == Put(c, ms)
<1>1. c \in Channels /\ conn'[k] = d OBVIOUS
<1> HIDE DEF c
<1>2. /\ d.link = c.link /\ d.role = c.role /\ d.live = c.live
      /\ d.chan = c.chan \o Halves(ms)
  BY <1>1, PutIs
<1> HIDE DEF d
<1> QED BY <1>1, <1>2 DEF c

LEMMA OutdatedIs ==
  ASSUME NEW c \in Channels
  PROVE  /\ Outdated(c) \in Channels /\ Outdated(c).link = c.link
         /\ Outdated(c).role = c.role /\ Outdated(c).live = FALSE
         /\ Outdated(c).chan = c.chan
  BY ChannelHas DEF Outdated, Channel, Channels

LEMMA HalvesOfHotplug ==
  ASSUME NEW desc \in Descriptors
  PROVE  /\ <<Describe("hotplug", desc)>> \in Seq(Messages)
         /\ Hotplugs(Halves(<<Describe("hotplug", desc)>>))
<1> DEFINE m == Describe("hotplug", desc)
<1>1. m \in Messages /\ m.type = "hotplug" BY MessageIs DEF Describe
<1> HIDE DEF m
<1>2. <<m>> \in Seq(Messages) /\ Len(<<m>>) = 1 /\ <<m>>[1] = m BY <1>1, One
<1>3. Len(Halves(<<m>>)) = 2
  <2>1. Len(Halves(<<m>>)) = 2 * Len(<<m>>) BY <1>2, HalvesAre
  <2> QED BY <1>2, <2>1
<1>4. /\ Halves(<<m>>)[2 * 1 - 1] = [message |-> m, half |-> 1]
      /\ Halves(<<m>>)[2 * 1] = [message |-> m, half |-> 2]
  <2>1. 1 \in 1..Len(<<m>>) BY <1>2
  <2> QED BY <1>2, <2>1, HalvesAre
<1>5. \A i \in 1..2 : Halves(<<m>>)[i].message = m BY <1>4
<1> QED BY <1>1, <1>2, <1>3, <1>5 DEF Hotplugs, m

LEMMA HotplugsConcat ==
  ASSUME NEW s \in Stream, NEW t \in Stream
  PROVE  Hotplugs(s \o t) <=> Hotplugs(s) /\ Hotplugs(t)
<1>1. Len(s) \in Nat /\ Len(t) \in Nat BY Empty
<1>2. /\ Len(s \o t) = Len(s) + Len(t)
      /\ \A i \in 1..Len(s) : (s \o t)[i] = s[i]
      /\ \A i \in 1..Len(t) : (s \o t)[i + Len(s)] = t[i]
  BY Concat
<1>3. ASSUME Hotplugs(s \o t) PROVE Hotplugs(s) /\ Hotplugs(t)
  <2>1. \A i \in 1..Len(s) : i \in 1..(Len(s) + Len(t)) BY <1>1
  <2>2. \A i \in 1..Len(t) : i + Len(s) \in 1..(Len(s) + Len(t)) BY <1>1
  <2> QED BY <1>2, <1>3, <2>1, <2>2 DEF Hotplugs
<1>4. ASSUME Hotplugs(s), Hotplugs(t) PROVE Hotplugs(s \o t)
  <2>1. \A i \in 1..(Len(s) + Len(t)) :
          i \in 1..Len(s) \/ (i - Len(s) \in 1..Len(t) /\ i = (i - Len(s)) + Len(s))
    BY <1>1
  <2> QED BY <1>2, <1>4, <2>1 DEF Hotplugs
<1> QED BY <1>3, <1>4

LEMMA HotplugsSub ==
  ASSUME NEW s \in Stream, NEW n \in 0..Len(s), Hotplugs(s)
  PROVE  Hotplugs(SubSeq(s, 1, n))
<1>1. Len(s) \in Nat BY Empty
<1>2. Len(SubSeq(s, 1, n)) = n /\ \A i \in 1..n : SubSeq(s, 1, n)[i] = s[i]
  BY <1>1, Sub
<1> QED BY <1>1, <1>2 DEF Hotplugs

LEMMA Types ==
  ASSUME TypeOK
  PROVE  /\ conn \in [Kinds -> Channels]
         /\ \A k \in Kinds : conn[k] \in Channels /\ conn[k].chan \in Stream
         /\ mbuf \in Stream /\ ebuf \in Stream
<1>1. conn \in [Kinds -> Channels] BY DEF TypeOK, Channels
<1> QED BY <1>1, ChannelHas DEF TypeOK

LEMMA UnknownIs == Unknown \in Descriptors /\ Unknown.present = FALSE
  BY DEF Unknown, Descriptors

LEMMA InitIInv == Init => IInv
<1> SUFFICES ASSUME Init PROVE IInv OBVIOUS
<1>1. \A k \in Kinds : conn[k] = Closed BY DEF Init
<1>2. conn \in [Kinds -> Channels] BY FixedChannels DEF Init
<1>3. sdesc \in Descriptors
  <2>1. \A d \in [present : {TRUE}, device : Devices] : d \in Descriptors BY DEF Descriptors
  <2> QED BY <2>1, UnknownIs DEF Init
<1>4. TypeOK
  <2>1. conn["new"].link = "closed" /\ pc = "refresh" BY <1>1, Kind, FixedChannels DEF Init
  <2>2. up \in BOOLEAN /\ faults \in 0..MaxFaults BY ClientAssumption DEF Init
  <2>3. mbuf = <<>> /\ ebuf = <<>> /\ <<>> \in Stream /\ Len(<<>>) = 0 BY Empty DEF Init
  <2> QED BY <1>2, <1>3, <2>1, <2>2, <2>3, NeutralIs, UnknownIs DEF Init, TypeOK, Channels
<1>5. PlaceOK BY <1>1, Kind, FixedChannels DEF Init, PlaceOK
<1>6. StreamsOK
  <2>1. mbuf \o conn["monitor"].chan = <<>> /\ ebuf \o conn["event"].chan = <<>>
        /\ conn["new"].chan = <<>>
    BY <1>1, Kind, FixedChannels, Empty DEF Init
  <2>2. Hotplugs(<<>>) BY Empty DEF Hotplugs
  <2> QED BY <2>1, <2>2, GoodEmpty DEF StreamsOK
<1>7. NoStreamNoInput BY <1>1, Kind, FixedChannels DEF Init, NoStreamNoInput
<1>8. TellsOK BY DEF Init, TellsOK, RefreshTells
<1> QED BY <1>4, <1>5, <1>6, <1>7, <1>8 DEF IInv

-----------------------------------------------------------------------------
(* The bridge. *)

\* What the bridge may do to the library's connections.
LEMMA ServiceStep ==
  ASSUME IInv, UNCHANGED ServiceOnly,
         up' \in BOOLEAN, sdesc' \in Descriptors, sval' \in States, faults' \in 0..MaxFaults,
         conn' \in [Kinds -> Channels],
         \A k \in Kinds : conn'[k].link = "closed" <=> conn[k].link = "closed",
         \A k \in Kinds : conn'[k].link = "closed" => conn'[k].chan = <<>>,
         conn'["monitor"].role \in {"none", "ask", "hotplug"},
         conn'["event"].role \in {"none", "events"},
         conn'["new"].role \in {"none", "query", "events"},
         conn'["monitor"].role = "ask" => mbuf = <<>> /\ conn'["monitor"].chan = <<>>,
         conn'["new"].role = "query" => conn'["new"].chan = <<>>,
         Good(conn'["monitor"].link, mbuf \o conn'["monitor"].chan),
         Good(conn'["event"].link, ebuf \o conn'["event"].chan),
         Good(conn'["new"].link, conn'["new"].chan),
         Hotplugs(mbuf \o conn'["monitor"].chan)
  PROVE  IInv'
<1>1. /\ UNCHANGED <<pc, call, before, back, refreshed>>
      /\ UNCHANGED <<descriptor, state, mbuf, ebuf>>
  BY DEF ServiceOnly, public
<1>2. TypeOK /\ PlaceOK /\ StreamsOK /\ NoStreamNoInput /\ TellsOK BY DEF IInv
<1>3. TypeOK' BY <1>1, <1>2, Kind DEF TypeOK, Channels
<1>4. PlaceOK' BY <1>1, <1>2, Kind DEF PlaceOK
<1>5. StreamsOK' BY <1>1 DEF StreamsOK
<1>6. NoStreamNoInput' BY <1>1, <1>2, Kind DEF NoStreamNoInput
<1>7. TellsOK' BY <1>1, <1>2, Kind DEF TellsOK, RefreshTells
<1> QED BY <1>3, <1>4, <1>5, <1>6, <1>7 DEF IInv

\* A message or a report to the connections of one role.
LEMMA Told ==
  ASSUME IInv, UNCHANGED ServiceOnly,
         up' \in BOOLEAN, sdesc' \in Descriptors, sval' \in States, faults' \in 0..MaxFaults,
         NEW role \in {"events", "hotplug"}, NEW ms \in Seq(Messages),
         role = "hotplug" => Hotplugs(Halves(ms)),
         conn' \in [Kinds -> Channels],
         \A k \in Kinds : IF Listening(k, role) THEN conn'[k] = Put(conn[k], ms)
                          ELSE conn'[k] \in {conn[k], Outdated(conn[k])}
  PROVE  IInv'
<1>1. TypeOK /\ PlaceOK /\ StreamsOK BY DEF IInv
<1>2. /\ \A k \in Kinds : conn[k] \in Channels /\ conn[k].chan \in Stream
      /\ mbuf \in Stream /\ ebuf \in Stream
  BY <1>1, Types
<1>3. ASSUME NEW k \in Kinds
      PROVE /\ conn'[k].link = conn[k].link /\ conn'[k].role = conn[k].role
            /\ Listening(k, role) => conn[k].link = "up" /\ conn[k].role = role
            /\ Listening(k, role) => conn'[k].chan = conn[k].chan \o Halves(ms)
            /\ ~Listening(k, role) => conn'[k].chan = conn[k].chan
  <2>1. conn[k] \in Channels BY <1>2
  <2>2. CASE Listening(k, role)
    <3>1. conn'[k] = Put(conn[k], ms) BY <2>2
    <3>2. conn[k].link = "up" /\ conn[k].role = role BY <2>2 DEF Listening
    <3>3. /\ conn'[k].link = conn[k].link /\ conn'[k].role = conn[k].role
          /\ conn'[k].chan = conn[k].chan \o Halves(ms)
      BY <2>1, <3>1, PutTo
    <3> QED BY <2>2, <3>2, <3>3
  <2>3. CASE ~Listening(k, role)
    <3>1. conn'[k] = conn[k] \/ conn'[k] = Outdated(conn[k]) BY <2>3
    <3> QED BY <2>1, <2>3, <3>1, OutdatedIs
  <2> QED BY <2>2, <2>3
<1>4. ASSUME NEW k \in Kinds, NEW b \in Stream, Good(conn[k].link, b \o conn[k].chan)
      PROVE  /\ Good(conn'[k].link, b \o conn'[k].chan)
             /\ Listening(k, role) =>
                  b \o conn'[k].chan = (b \o conn[k].chan) \o Halves(ms)
  <2>1. CASE Listening(k, role)
    <3>1. conn[k].link = "up" /\ conn'[k].link = "up"
          /\ conn'[k].chan = conn[k].chan \o Halves(ms)
      BY <1>3, <2>1
    <3>2. Good("up", b \o conn[k].chan) BY <1>4, <3>1
    <3>3. conn[k].chan \in Stream BY <1>2
    <3>4. /\ b \o (conn[k].chan \o Halves(ms)) = (b \o conn[k].chan) \o Halves(ms)
          /\ Good("up", b \o (conn[k].chan \o Halves(ms)))
      BY <3>2, <3>3, GoodPut
    <3> QED BY <3>1, <3>4
  <2>2. CASE ~Listening(k, role) BY <1>3, <1>4, <2>2
  <2> QED BY <2>1, <2>2
<1>5. Good(conn'["monitor"].link, mbuf \o conn'["monitor"].chan)
  BY <1>1, <1>2, <1>4, Kind DEF StreamsOK
<1>6. Good(conn'["event"].link, ebuf \o conn'["event"].chan)
  BY <1>1, <1>2, <1>4, Kind DEF StreamsOK
<1>7. Good(conn'["new"].link, conn'["new"].chan)
  <2>1. Good(conn["new"].link, <<>> \o conn["new"].chan)
    BY <1>1, <1>2, Kind, Empty DEF StreamsOK
  <2>2. Good(conn'["new"].link, <<>> \o conn'["new"].chan)
    BY <2>1, <1>4, Kind, Empty
  <2>3. conn'["new"].chan \in Stream BY Kind, ChannelHas
  <2> QED BY <2>2, <2>3, Empty
<1>8. Hotplugs(mbuf \o conn'["monitor"].chan)
  <2>1. CASE Listening("monitor", role)
    <3>1. role = "hotplug" BY <2>1, <1>1, <1>3, Kind DEF PlaceOK
    <3>2. mbuf \o conn'["monitor"].chan = (mbuf \o conn["monitor"].chan) \o Halves(ms)
      BY <2>1, <1>1, <1>2, <1>4, Kind DEF StreamsOK
    <3>3. mbuf \o conn["monitor"].chan \in Stream /\ Halves(ms) \in Stream
      BY <1>2, Kind, Concat, HalvesAre
    <3> QED BY <1>1, <3>1, <3>2, <3>3, HotplugsConcat DEF StreamsOK
  <2>2. CASE ~Listening("monitor", role)
    BY <2>2, <1>1, <1>3, Kind DEF StreamsOK
  <2> QED BY <2>1, <2>2
<1>9. \A k \in Kinds : conn'[k].link = "closed" => conn'[k].chan = <<>>
  BY <1>1, <1>3 DEF PlaceOK
<1>10. /\ conn'["monitor"].role = "ask" => mbuf = <<>> /\ conn'["monitor"].chan = <<>>
       /\ conn'["new"].role = "query" => conn'["new"].chan = <<>>
  BY <1>1, <1>3, Kind DEF PlaceOK
<1>11. /\ conn'["monitor"].role \in {"none", "ask", "hotplug"}
       /\ conn'["event"].role \in {"none", "events"}
       /\ conn'["new"].role \in {"none", "query", "events"}
  BY <1>1, <1>3, Kind DEF PlaceOK
<1> QED BY <1>3, <1>5, <1>6, <1>7, <1>8, <1>9, <1>10, <1>11, ServiceStep

LEMMA AnswerIInv == ASSUME IInv, NEW k \in Kinds, Answer(k) PROVE IInv'
<1>1. TypeOK /\ PlaceOK /\ StreamsOK BY DEF IInv
<1>2. /\ \A j \in Kinds : conn[j] \in Channels /\ conn[j].chan \in Stream
      /\ conn \in [Kinds -> Channels]
      /\ mbuf \in Stream /\ ebuf \in Stream
  BY <1>1, Types
<1>3. UNCHANGED <<up, sdesc, sval, faults>> /\ UNCHANGED ServiceOnly
  BY DEF Answer, service
<1>4. up \in BOOLEAN /\ sdesc \in Descriptors /\ sval \in States /\ faults \in 0..MaxFaults
  BY <1>1 DEF TypeOK
<1>5. CASE /\ Listening(k, "query")
           /\ conn' = [conn EXCEPT ![k] =
                Answering("events", sdesc.present,
                          <<Describe("descriptor", sdesc)>> \o
                          IF sdesc.present THEN ReportOf(Controls, sval) ELSE <<>>)]
  <2> DEFINE ms == <<Describe("descriptor", sdesc)>> \o
                     IF sdesc.present THEN ReportOf(Controls, sval) ELSE <<>>
             c == Answering("events", sdesc.present, ms)
  <2>1. ms \in Seq(Messages) BY <1>4, AnswerIs
  <2>2. sdesc.present \in BOOLEAN BY <1>4 DEF Descriptors
  <2>3. conn[k].link = "up" /\ conn[k].role = "query" BY <1>5 DEF Listening
  <2>4. k = "new" BY <1>1, <2>3, Kind DEF PlaceOK
  <2>5. Halves(ms) \in Stream BY <2>1, HalvesAre
  <2>6. conn' = [conn EXCEPT ![k] = c] BY <1>5
  <2> HIDE DEF ms
  <2>7. /\ c \in Channels /\ c.link = "up" /\ c.role = "events" /\ c.chan = Halves(ms)
    BY <2>2, <2>5 DEF Answering, Channel, Channels
  <2> HIDE DEF c
  <2>8. Good("up", Halves(ms))
    <3>1. Good("up", <<>> \o <<>>) /\ <<>> \in Stream BY GoodEmpty, Empty
    <3>2. Good("up", <<>> \o (<<>> \o Halves(ms))) BY <2>1, <3>1, GoodPut
    <3> QED BY <3>2, <2>5, Empty
  <2>9. /\ conn' \in [Kinds -> Channels] /\ conn'["new"] = c
        /\ \A j \in Kinds : j # "new" => conn'[j] = conn[j]
    BY <1>2, <2>4, <2>6, <2>7, Kind
  <2> QED BY <1>1, <1>3, <1>4, <2>3, <2>4, <2>7, <2>8, <2>9, ServiceStep, Kind
          DEF PlaceOK, StreamsOK
<1>6. CASE /\ Listening(k, "ask")
           /\ conn' = [conn EXCEPT ![k] =
                Answering("hotplug", FALSE, <<Describe("hotplug", sdesc)>>)]
  <2> DEFINE ms == <<Describe("hotplug", sdesc)>>
             c == Answering("hotplug", FALSE, ms)
  <2>1. ms \in Seq(Messages) /\ Hotplugs(Halves(ms)) BY <1>4, HalvesOfHotplug
  <2>3. conn[k].link = "up" /\ conn[k].role = "ask" BY <1>6 DEF Listening
  <2>4. k = "monitor" /\ mbuf = <<>> BY <1>1, <2>3, Kind DEF PlaceOK
  <2>5. Halves(ms) \in Stream BY <2>1, HalvesAre
  <2>6. conn' = [conn EXCEPT ![k] = c] BY <1>6
  <2> HIDE DEF ms
  <2>7. /\ c \in Channels /\ c.link = "up" /\ c.role = "hotplug" /\ c.chan = Halves(ms)
    BY <2>5 DEF Answering, Channel, Channels
  <2> HIDE DEF c
  <2>8. Good("up", mbuf \o Halves(ms)) /\ Hotplugs(mbuf \o Halves(ms))
    <3>1. Good("up", <<>> \o <<>>) /\ <<>> \in Stream BY GoodEmpty, Empty
    <3>2. Good("up", <<>> \o (<<>> \o Halves(ms))) BY <2>1, <3>1, GoodPut
    <3> QED BY <2>1, <2>4, <2>5, <3>2, Empty
  <2>9. /\ conn' \in [Kinds -> Channels] /\ conn'["monitor"] = c
        /\ \A j \in Kinds : j # "monitor" => conn'[j] = conn[j]
    BY <1>2, <2>4, <2>6, <2>7, Kind
  <2> QED BY <1>1, <1>3, <1>4, <2>3, <2>4, <2>7, <2>8, <2>9, ServiceStep, Kind
          DEF PlaceOK, StreamsOK
<1> QED BY <1>5, <1>6 DEF Answer

LEMMA RemoveIInv == ASSUME IInv, Remove PROVE IInv'
<1>1. TypeOK BY DEF IInv
<1>2. sdesc \in Descriptors /\ up \in BOOLEAN /\ faults \in 0..MaxFaults BY <1>1 DEF TypeOK
<1>3. UNCHANGED <<up, faults>> /\ UNCHANGED ServiceOnly BY DEF Remove
<1>4. sdesc' \in Descriptors BY <1>2 DEF Remove, Descriptors
<1>5. sval' \in States BY NeutralIs DEF Remove
<1> DEFINE ms == <<Describe("hotplug", sdesc')>>
<1>6. ms \in Seq(Messages) /\ Hotplugs(Halves(ms)) BY <1>4, HalvesOfHotplug
<1>7. conn' = [k \in Kinds |-> IF Listening(k, "hotplug") THEN Put(conn[k], ms)
                                                        ELSE Outdated(conn[k])]
  BY DEF Remove, Tell
<1>8. \A k \in Kinds : conn[k] \in Channels BY <1>1, Types
<1> HIDE DEF ms
<1>9. conn' \in [Kinds -> Channels] BY <1>6, <1>7, <1>8, PutIs, OutdatedIs
<1>10. \A k \in Kinds : IF Listening(k, "hotplug") THEN conn'[k] = Put(conn[k], ms)
                        ELSE conn'[k] \in {conn[k], Outdated(conn[k])}
  BY <1>7
<1> QED BY <1>2, <1>3, <1>4, <1>5, <1>6, <1>9, <1>10, Told

LEMMA AddIInv == ASSUME IInv, Add PROVE IInv'
<1>1. TypeOK BY DEF IInv
<1>2. up \in BOOLEAN /\ faults \in 0..MaxFaults /\ sval \in States BY <1>1 DEF TypeOK
<1>3. UNCHANGED <<up, sval, faults>> /\ UNCHANGED ServiceOnly BY DEF Add
<1>4. sdesc' \in Descriptors BY DEF Add, Descriptors
<1> DEFINE ms == <<Describe("hotplug", sdesc')>>
<1>6. ms \in Seq(Messages) /\ Hotplugs(Halves(ms)) BY <1>4, HalvesOfHotplug
<1>7. conn' = [k \in Kinds |-> IF Listening(k, "hotplug") THEN Put(conn[k], ms)
                                                        ELSE conn[k]]
  BY DEF Add, Tell
<1>8. \A k \in Kinds : conn[k] \in Channels BY <1>1, Types
<1> HIDE DEF ms
<1>9. conn' \in [Kinds -> Channels] BY <1>6, <1>7, <1>8, PutIs
<1>10. \A k \in Kinds : IF Listening(k, "hotplug") THEN conn'[k] = Put(conn[k], ms)
                        ELSE conn'[k] \in {conn[k], Outdated(conn[k])}
  BY <1>7
<1> QED BY <1>2, <1>3, <1>4, <1>6, <1>9, <1>10, Told

LEMMA InputIInv == ASSUME IInv, Input PROVE IInv'
<1>1. TypeOK BY DEF IInv
<1>2. up \in BOOLEAN /\ faults \in 0..MaxFaults /\ sdesc \in Descriptors BY <1>1 DEF TypeOK
<1>3. UNCHANGED <<up, sdesc, faults>> /\ UNCHANGED ServiceOnly BY DEF Input
<1>5. sval' \in States BY DEF Input
<1> DEFINE changed == {c \in Controls : sval'[c] # sval[c]}
           ms == ReportOf(changed, sval')
<1>6. ms \in Seq(Messages)
  <2>1. changed \in SUBSET Controls OBVIOUS
  <2> HIDE DEF changed
  <2> QED BY <1>5, <2>1, ReportIs
<1>7. conn' = [k \in Kinds |-> IF Listening(k, "events") THEN Put(conn[k], ms)
                                                       ELSE conn[k]]
  BY DEF Input, Tell
<1>8. \A k \in Kinds : conn[k] \in Channels BY <1>1, Types
<1> HIDE DEF ms
<1>9. conn' \in [Kinds -> Channels] BY <1>6, <1>7, <1>8, PutIs
<1>10. \A k \in Kinds : IF Listening(k, "events") THEN conn'[k] = Put(conn[k], ms)
                        ELSE conn'[k] \in {conn[k], Outdated(conn[k])}
  BY <1>7
<1> QED BY <1>2, <1>3, <1>5, <1>6, <1>9, <1>10, Told

LEMMA CutIInv == ASSUME IInv, NEW k \in Kinds, Cut(k) PROVE IInv'
<1>1. TypeOK /\ PlaceOK /\ StreamsOK BY DEF IInv
<1>2. /\ \A j \in Kinds : conn[j] \in Channels /\ conn[j].chan \in Stream
      /\ conn \in [Kinds -> Channels]
      /\ mbuf \in Stream /\ ebuf \in Stream
  BY <1>1, Types
<1>3. UNCHANGED <<up, sdesc, sval>> /\ UNCHANGED ServiceOnly /\ conn[k].link = "up"
  BY DEF Cut
<1>4. up \in BOOLEAN /\ sdesc \in Descriptors /\ sval \in States
  BY <1>1 DEF TypeOK
<1>5. faults' \in 0..MaxFaults BY <1>1, ClientAssumption DEF Cut, TypeOK
<1>6. PICK n \in 0..Len(conn[k].chan) :
        conn' = [conn EXCEPT ![k] = Channel("cut", conn[k].role, conn[k].live,
                                            SubSeq(conn[k].chan, 1, n))]
  BY DEF Cut
<1> DEFINE t == SubSeq(conn[k].chan, 1, n)
           c == Channel("cut", conn[k].role, conn[k].live, t)
<1>7. t \in Stream
  <2>1. Len(conn[k].chan) \in Nat BY <1>2, Empty
  <2> QED BY <1>2, <2>1, Sub
<1>8. conn' = [conn EXCEPT ![k] = c] BY <1>6
<1>9. ASSUME NEW b \in Stream, Good(conn[k].link, b \o conn[k].chan)
      PROVE  Good("cut", b \o t)
  BY <1>2, <1>9, GoodCut
<1>10. conn[k].chan = <<>> => t = <<>>
  <2> SUFFICES ASSUME conn[k].chan = <<>> PROVE t = <<>> OBVIOUS
  <2>1. n = 0 BY Empty
  <2>2. Len(t) = 0
    <3>1. 1 \in 1..(Len(conn[k].chan) + 1) /\ n \in 0..Len(conn[k].chan) /\ 1 <= n + 1
      BY <2>1, Empty
    <3>2. Len(t) = n - 1 + 1 BY <1>2, <3>1, Sub
    <3> QED BY <2>1, <3>2
  <2> QED BY <1>7, <2>2, Empty
<1>11. k = "monitor" => Hotplugs(mbuf \o t)
  <2> SUFFICES ASSUME k = "monitor" PROVE Hotplugs(mbuf \o t) OBVIOUS
  <2>1. Hotplugs(mbuf) /\ Hotplugs(conn[k].chan)
    BY <1>1, <1>2, HotplugsConcat DEF StreamsOK
  <2>2. Hotplugs(t) BY <1>2, <2>1, HotplugsSub
  <2> QED BY <1>2, <1>7, <2>1, <2>2, HotplugsConcat
<1> HIDE DEF t
<1>12. /\ c \in Channels /\ c.link = "cut" /\ c.role = conn[k].role /\ c.chan = t
  BY <1>2, <1>7, ChannelHas DEF Channel, Channels
<1> HIDE DEF c
<1>13. /\ conn' \in [Kinds -> Channels] /\ conn'[k] = c
       /\ \A j \in Kinds : j # k => conn'[j] = conn[j]
  BY <1>2, <1>8, <1>12
<1>14. /\ \A j \in Kinds : conn'[j].link = "closed" <=> conn[j].link = "closed"
       /\ \A j \in Kinds : conn'[j].link = "closed" => conn'[j].chan = <<>>
       /\ \A j \in Kinds : conn'[j].role = conn[j].role
       /\ \A j \in Kinds : conn[j].chan = <<>> => conn'[j].chan = <<>>
  BY <1>1, <1>3, <1>10, <1>12, <1>13 DEF PlaceOK
<1>15. ASSUME NEW j \in Kinds, NEW b \in Stream, Good(conn[j].link, b \o conn[j].chan)
       PROVE  Good(conn'[j].link, b \o conn'[j].chan)
  <2>1. CASE j = k BY <1>9, <1>12, <1>13, <1>15, <2>1
  <2>2. CASE j # k BY <1>13, <1>15, <2>2
  <2> QED BY <2>1, <2>2
<1>16. Good(conn'["monitor"].link, mbuf \o conn'["monitor"].chan)
  BY <1>1, <1>2, <1>15, Kind DEF StreamsOK
<1>17. Good(conn'["event"].link, ebuf \o conn'["event"].chan)
  BY <1>1, <1>2, <1>15, Kind DEF StreamsOK
<1>18. Good(conn'["new"].link, conn'["new"].chan)
  <2>1. Good(conn["new"].link, <<>> \o conn["new"].chan)
    BY <1>1, <1>2, Kind, Empty DEF StreamsOK
  <2>2. Good(conn'["new"].link, <<>> \o conn'["new"].chan)
    BY <2>1, <1>15, Kind, Empty
  <2>3. conn'["new"].chan \in Stream BY <1>13, Kind, ChannelHas
  <2> QED BY <2>2, <2>3, Empty
<1>19. Hotplugs(mbuf \o conn'["monitor"].chan)
  BY <1>1, <1>11, <1>12, <1>13, Kind DEF StreamsOK
<1>20. /\ conn'["monitor"].role \in {"none", "ask", "hotplug"}
       /\ conn'["event"].role \in {"none", "events"}
       /\ conn'["new"].role \in {"none", "query", "events"}
       /\ conn'["monitor"].role = "ask" => mbuf = <<>> /\ conn'["monitor"].chan = <<>>
       /\ conn'["new"].role = "query" => conn'["new"].chan = <<>>
  BY <1>1, <1>14, Kind DEF PlaceOK
<1> QED BY <1>3, <1>4, <1>5, <1>13, <1>14, <1>16, <1>17, <1>18, <1>19, <1>20, ServiceStep

LEMMA ExitOrStart == ASSUME IInv, Exit \/ Start PROVE IInv'
<1>1. TypeOK /\ PlaceOK /\ StreamsOK BY DEF IInv
<1>2. UNCHANGED conn /\ UNCHANGED ServiceOnly BY DEF Exit, Start
<1>3. up' \in BOOLEAN /\ faults' \in 0..MaxFaults
  <2>1. CASE Exit
    <3>1. faults \in 0..MaxFaults /\ faults < MaxFaults /\ faults' = faults + 1
      BY <2>1, <1>1 DEF Exit, TypeOK
    <3>2. up' = FALSE BY <2>1 DEF Exit
    <3>3. faults' \in 0..MaxFaults BY <3>1, ClientAssumption
    <3>4. up' \in BOOLEAN BY <3>2
    <3> QED BY <3>3, <3>4
  <2>2. CASE Start BY <2>2, <1>1 DEF Start, TypeOK
  <2> QED BY <2>1, <2>2
<1>4. sdesc' \in Descriptors
  <2>1. \A d \in [present : {TRUE}, device : Devices] : d \in Descriptors BY DEF Descriptors
  <2> QED BY <1>1, <2>1, UnknownIs DEF Exit, Start, TypeOK
<1>5. sval' \in States BY <1>1, NeutralIs DEF Exit, Start, TypeOK
<1>6. conn \in [Kinds -> Channels] BY <1>1, Types
<1> QED BY <1>1, <1>2, <1>3, <1>4, <1>5, <1>6, ServiceStep DEF PlaceOK, StreamsOK

LEMMA ServiceIInv == ASSUME IInv, Service PROVE IInv'
  BY AnswerIInv, CutIInv, RemoveIInv, AddIInv, InputIInv, ExitOrStart DEF Service

-----------------------------------------------------------------------------
(* The library. *)

LEMMA ContinueIs ==
  ASSUME TypeOK, NEW next \in {"return", "refresh", "update"}, NEW changed \in {0, 1},
         Continue(next, changed)
  PROVE  /\ next = "return" => /\ pc' = IF call = "update" THEN "update" ELSE "idle"
                               /\ refreshed' = changed
         /\ next = "refresh" => /\ pc' = "refresh"
                                /\ refreshed' = IF changed = 1 THEN 1 ELSE refreshed
         /\ next = "update" => pc' = "events" /\ refreshed' = refreshed
         /\ refreshed' \in {-1, 0, 1} /\ pc' \in {"idle", "refresh", "update", "events"}
<1>1. refreshed \in {-1, 0, 1} BY DEF TypeOK
<1>2. CASE next = "return" BY <1>1, <1>2 DEF Continue, FinishRefresh
<1>3. CASE next = "refresh" BY <1>1, <1>3 DEF Continue
<1>4. CASE next = "update" BY <1>1, <1>4 DEF Continue
<1> QED BY <1>2, <1>3, <1>4

\* A hotplug message has been taken from the monitor.
LEMMA Applied ==
  ASSUME IInv, UNCHANGED <<service, call, before>>,
         NEW message \in Messages, message.type = "hotplug",
         NEW conns \in [Kinds -> Channels],
         conns["event"] = conn["event"], conns["new"] = conn["new"],
         conns["monitor"].link # "closed",
         conns["monitor"].role \in {"none", "ask", "hotplug"},
         conns["monitor"].role = "ask" => conns["monitor"].chan = <<>>,
         mbuf' = <<>>, Good(conns["monitor"].link, <<>> \o conns["monitor"].chan),
         Hotplugs(<<>> \o conns["monitor"].chan),
         NEW next \in {"return", "refresh"},
         next = "return" => pc = "wait_monitor", next = "refresh" => pc = "refresh",
         apply_hotplug(message, conns, next)
  PROVE  IInv'
<1>1. TypeOK /\ PlaceOK /\ StreamsOK /\ NoStreamNoInput /\ TellsOK BY DEF IInv
<1>2. conn["new"].link = "closed"
  BY <1>1 DEF TypeOK
<1>3. UNCHANGED <<up, sdesc, sval, faults>> BY DEF service
<1>4. message.desc \in Descriptors BY Contents
<1>5. next \in {"return", "refresh", "update"} OBVIOUS
<1>6. CASE message.desc = descriptor
  <2>1. /\ UNCHANGED <<descriptor, state, ebuf, back>>
        /\ conn' = conns /\ Continue(next, 0)
    BY <1>6 DEF apply_hotplug
  <2>2. /\ refreshed' \in {-1, 0, 1}
        /\ next = "return" => /\ pc' = IF call = "update" THEN "update" ELSE "idle"
                              /\ refreshed' = 0
        /\ next = "refresh" => pc' = "refresh" /\ refreshed' = refreshed
    BY <1>1, <1>5, <2>1, ContinueIs
  <2>3. TypeOK'
    <3>1. pc' \in {"idle", "refresh", "update"} BY <2>2
    <3>2. conn'["new"].link = "closed" BY <1>2, <2>1
    <3> QED BY <1>1, <1>3, <2>1, <2>2, <3>1, <3>2, Empty DEF TypeOK, Channels
  <2>4. PlaceOK'
    <3>1. pc' \in {"idle", "refresh", "update"} BY <2>2
    <3>2. \A k \in Kinds : conns[k].link = "closed" => conns[k].chan = <<>>
      BY <1>1, Kind DEF PlaceOK
    <3> QED BY <1>1, <2>1, <3>1, <3>2 DEF PlaceOK
  <2>5. StreamsOK' BY <1>1, <2>1 DEF StreamsOK
  <2>6. NoStreamNoInput' BY <1>1, <2>1 DEF NoStreamNoInput
  <2>7. TellsOK' BY <1>1, <2>1, <2>2 DEF TellsOK, RefreshTells
  <2> QED BY <2>3, <2>4, <2>5, <2>6, <2>7 DEF IInv
<1>7. CASE message.desc # descriptor
  <2> DEFINE rest == [conns EXCEPT !["event"] = Closed]
  <2>1. /\ descriptor' = message.desc /\ state' = Neutral /\ ebuf' = <<>>
    BY <1>7 DEF apply_hotplug, close_event_stream
  <2>2. /\ rest \in [Kinds -> Channels] /\ rest["event"] = Closed
        /\ rest["monitor"] = conns["monitor"] /\ rest["new"] = conn["new"]
    BY Kind, FixedChannels
  <2>3. CASE message.desc.present /\ up
    <3>1. /\ conn' = [rest EXCEPT !["new"] = Connected("query")]
          /\ pc' = "wait_stream" /\ back' = next /\ UNCHANGED refreshed
      BY <1>7, <2>3 DEF apply_hotplug, open_event_stream
    <3> HIDE DEF rest
    <3>2. /\ conn' \in [Kinds -> Channels] /\ conn'["event"] = Closed
          /\ conn'["monitor"] = conns["monitor"] /\ conn'["new"] = Connected("query")
      BY <2>2, <3>1, Kind, FixedChannels
    <3>3. TypeOK'
      BY <1>1, <1>3, <1>4, <2>1, <3>1, <3>2, Empty, NeutralIs, FixedChannels
      DEF TypeOK, Channels
    <3>4. PlaceOK'
      BY <1>1, <2>1, <2>3, <3>1, <3>2, FixedChannels DEF PlaceOK, Kinds
    <3>5. StreamsOK' BY <2>1, <3>2, FixedChannels, GoodEmpty DEF StreamsOK
    <3>6. NoStreamNoInput' BY <2>1, <3>2, FixedChannels DEF NoStreamNoInput
    <3>7. TellsOK' BY <3>1 DEF TellsOK, RefreshTells
    <3> QED BY <3>3, <3>4, <3>5, <3>6, <3>7 DEF IInv
  <2>4. CASE ~(message.desc.present /\ up)
    <3>1. conn' = rest /\ Continue(next, 1) /\ UNCHANGED back
      BY <1>7, <2>4 DEF apply_hotplug, open_event_stream
    <3>2. /\ refreshed' = 1
          /\ next = "return" => pc' = IF call = "update" THEN "update" ELSE "idle"
          /\ next = "refresh" => pc' = "refresh"
      BY <1>1, <1>5, <3>1, ContinueIs
    <3> HIDE DEF rest
    <3>3. pc' \in {"idle", "refresh", "update"} BY <3>2
    <3>4. TypeOK'
      BY <1>1, <1>2, <1>3, <1>4, <2>1, <2>2, <3>1, <3>2, <3>3, Empty, NeutralIs
      DEF TypeOK, Channels
    <3>5. PlaceOK'
      BY <1>1, <2>1, <2>2, <3>1, <3>3, FixedChannels DEF PlaceOK, Kinds
    <3>6. StreamsOK' BY <1>1, <2>1, <2>2, <3>1, FixedChannels, GoodEmpty DEF StreamsOK
    <3>7. NoStreamNoInput' BY <2>1, <2>2, <3>1, FixedChannels DEF NoStreamNoInput
    <3>8. TellsOK' BY <1>1, <2>2, <3>1, <3>2 DEF TellsOK, RefreshTells
    <3> QED BY <3>4, <3>5, <3>6, <3>7, <3>8 DEF IInv
  <2> QED BY <2>3, <2>4
<1> QED BY <1>6, <1>7

LEMMA CallIInv == ASSUME IInv, NEW k \in {"refresh", "update"}, Call(k) PROVE IInv'
<1>1. TypeOK /\ PlaceOK /\ StreamsOK /\ NoStreamNoInput /\ TellsOK BY DEF IInv
<1>2. /\ UNCHANGED <<up, sdesc, sval, faults, conn, back>>
      /\ UNCHANGED <<descriptor, state, mbuf, ebuf>>
      /\ pc = "idle" /\ pc' = "refresh" /\ call' = k /\ refreshed' = 0 /\ before' = descriptor
  BY DEF Call, service, public
<1>3. TypeOK' BY <1>1, <1>2 DEF TypeOK
<1>4. PlaceOK' BY <1>1, <1>2 DEF PlaceOK
<1>5. StreamsOK' BY <1>1, <1>2 DEF StreamsOK
<1>6. NoStreamNoInput' BY <1>1, <1>2 DEF NoStreamNoInput
<1>7. TellsOK' BY <1>2 DEF TellsOK, RefreshTells
<1> QED BY <1>3, <1>4, <1>5, <1>6, <1>7 DEF IInv

LEMMA OpenMonitorIInv == ASSUME IInv, OpenMonitor PROVE IInv'
<1>1. TypeOK /\ PlaceOK /\ StreamsOK /\ NoStreamNoInput /\ TellsOK BY DEF IInv
<1>2. /\ UNCHANGED <<up, sdesc, sval, faults, call, before, back>>
      /\ UNCHANGED <<descriptor, state, mbuf, ebuf>>
      /\ pc = "refresh" /\ conn["monitor"].link = "closed"
  BY DEF OpenMonitor, service, public
<1>3. mbuf = <<>> /\ refreshed # 1 BY <1>1, <1>2 DEF PlaceOK, TellsOK
<1>4. conn \in [Kinds -> Channels] BY <1>1, Types
<1>5. CASE up
  <2>1. /\ conn' = [conn EXCEPT !["monitor"] = Connected("ask")]
        /\ pc' = "wait_monitor" /\ UNCHANGED refreshed
    BY <1>5 DEF OpenMonitor
  <2>2. /\ conn' \in [Kinds -> Channels] /\ conn'["monitor"] = Connected("ask")
        /\ conn'["event"] = conn["event"] /\ conn'["new"] = conn["new"]
    BY <1>4, <2>1, Kind, FixedChannels
  <2>3. TypeOK' BY <1>1, <1>2, <2>1, <2>2 DEF TypeOK, Channels
  <2>4. PlaceOK' BY <1>1, <1>2, <1>3, <2>1, <2>2, FixedChannels DEF PlaceOK, Kinds
  <2>5. StreamsOK'
    <3>1. mbuf' \o conn'["monitor"].chan = <<>>
      BY <1>2, <1>3, <2>2, FixedChannels, Empty
    <3>2. Hotplugs(<<>>) BY Empty DEF Hotplugs
    <3> QED BY <1>1, <1>2, <2>2, <3>1, <3>2, GoodEmpty DEF StreamsOK
  <2>6. NoStreamNoInput' BY <1>1, <1>2, <2>2 DEF NoStreamNoInput
  <2>7. TellsOK' BY <1>1, <1>2, <1>3, <2>1 DEF TellsOK, RefreshTells
  <2> QED BY <2>3, <2>4, <2>5, <2>6, <2>7 DEF IInv
<1>6. CASE ~up
  <2>1. FinishRefresh(-1) /\ UNCHANGED conn BY <1>6 DEF OpenMonitor
  <2>2. pc' \in {"idle", "update"} /\ refreshed' = -1 /\ (pc' = "update" => call = "update")
    BY <2>1 DEF FinishRefresh
  <2>3. TypeOK' BY <1>1, <1>2, <2>1, <2>2 DEF TypeOK
  <2>4. PlaceOK' BY <1>1, <1>2, <2>1, <2>2 DEF PlaceOK
  <2>5. StreamsOK' BY <1>1, <1>2, <2>1 DEF StreamsOK
  <2>6. NoStreamNoInput' BY <1>1, <1>2, <2>1 DEF NoStreamNoInput
  <2>7. TellsOK' BY <1>1, <1>2, <2>2 DEF TellsOK, RefreshTells
  <2> QED BY <2>3, <2>4, <2>5, <2>6, <2>7 DEF IInv
<1> QED BY <1>5, <1>6

\* The first message of a channel, when all of it has come.
LEMMA FirstMessage ==
  ASSUME NEW link, NEW c \in Stream, Len(c) >= 2, Good(link, c)
  PROVE  /\ SubSeq(c, 3, Len(c)) \in Stream /\ Good(link, <<>> \o SubSeq(c, 3, Len(c)))
         /\ c[1].message \in Messages /\ c[1].message = c[2].message
         /\ c[1].half = 1 /\ c[2].half = 2
         /\ \A i \in 1..(Len(c) - 2) : SubSeq(c, 3, Len(c))[i] = c[i + 2]
         /\ Len(SubSeq(c, 3, Len(c))) = Len(c) - 2
<1>1. Len(c) \in Nat BY Empty
<1>2. 2 \in 1..Len(c) BY <1>1
<1> DEFINE r == SubSeq(c, 1, 2)
           t == SubSeq(c, 2 + 1, Len(c))
<1>3. r \in Stream /\ t \in Stream /\ (<<>> \o r) \o t = <<>> \o c
  BY <1>2, Empty, Take
<1>4. Len(r) = 2 /\ r[1] = c[1] /\ r[2] = c[2]
  <2>1. Len(r) = 2 - 1 + 1 /\ \A i \in 1..(2 - 1 + 1) : r[i] = c[1 + i - 1]
    BY <1>1, Sub
  <2> QED BY <2>1
<1>5. Len(t) = Len(c) - 2 /\ \A i \in 1..(Len(c) - 2) : t[i] = c[i + 2]
  <2>1. 3 \in 1..(Len(c) + 1) /\ Len(c) \in 0..Len(c) /\ 3 <= Len(c) + 1 BY <1>1
  <2>2. /\ Len(SubSeq(c, 3, Len(c))) = Len(c) - 3 + 1
        /\ \A i \in 1..(Len(c) - 3 + 1) : SubSeq(c, 3, Len(c))[i] = c[3 + i - 1]
    BY <2>1, Sub
  <2> QED BY <1>1, <2>2
<1>6. t = SubSeq(c, 3, Len(c)) OBVIOUS
<1> HIDE DEF r, t
<1>7. r \o t = c BY <1>3, Empty
<1>8. /\ Good(link, <<>> \o t) /\ r[1] \in Items /\ r[1].message = r[2].message
      /\ r[1].half = 1 /\ r[2].half = 2
  BY <1>3, <1>4, <1>7, GoodDrop
<1>9. r[1].message \in Messages BY <1>8 DEF Items
<1> QED BY <1>3, <1>4, <1>5, <1>6, <1>8, <1>9

LEMMA MonitorAnsweredIInv == ASSUME IInv, MonitorAnswered PROVE IInv'
<1>1. TypeOK /\ PlaceOK /\ StreamsOK BY DEF IInv
<1>2. /\ pc = "wait_monitor" /\ Len(conn["monitor"].chan) >= 2 /\ mbuf' = <<>>
      /\ UNCHANGED <<service, call, before>>
      /\ apply_hotplug(conn["monitor"].chan[1].message,
                       [conn EXCEPT !["monitor"] = Skip(conn["monitor"], 2)], "return")
  BY DEF MonitorAnswered, Answered
<1> DEFINE c == conn["monitor"].chan
           conns == [conn EXCEPT !["monitor"] = Skip(conn["monitor"], 2)]
<1>3. conn \in [Kinds -> Channels] /\ conn["monitor"] \in Channels /\ c \in Stream
  BY <1>1, Types, Kind
<1>4. 2 \in 1..Len(c) BY <1>2, <1>3, Empty
<1>5. /\ conns \in [Kinds -> Channels]
      /\ conns["event"] = conn["event"] /\ conns["new"] = conn["new"]
      /\ conns["monitor"].link = conn["monitor"].link
      /\ conns["monitor"].role = conn["monitor"].role
      /\ conns["monitor"].chan = SubSeq(c, 3, Len(c))
  BY <1>3, <1>4, SkipIs, Kind
<1>6. mbuf = <<>> /\ conn["monitor"].link # "closed" BY <1>1, <1>2 DEF PlaceOK
<1>7. Good(conn["monitor"].link, c) /\ Hotplugs(c)
  BY <1>1, <1>3, <1>6, Empty DEF StreamsOK
<1>8. conn["monitor"].role # "ask"
  <2>1. c # <<>> BY <1>4, Empty
  <2> QED BY <1>1, <2>1 DEF PlaceOK
<1>9. c[1].message.type = "hotplug" BY <1>4, <1>7 DEF Hotplugs
<1> HIDE DEF c, conns
<1>10. /\ Good(conn["monitor"].link, <<>> \o SubSeq(c, 3, Len(c)))
       /\ c[1].message \in Messages /\ SubSeq(c, 3, Len(c)) \in Stream
  BY <1>2, <1>3, <1>7, FirstMessage DEF c
<1>11. Hotplugs(<<>> \o SubSeq(c, 3, Len(c)))
  <2>1. /\ Len(SubSeq(c, 3, Len(c))) = Len(c) - 2
        /\ \A i \in 1..(Len(c) - 2) : SubSeq(c, 3, Len(c))[i] = c[i + 2]
    BY <1>2, <1>3, <1>7, FirstMessage DEF c
  <2>2. Len(c) \in Nat BY <1>3, Empty
  <2>3. \A i \in 1..(Len(c) - 2) : i + 2 \in 1..Len(c) BY <2>2
  <2>4. Hotplugs(SubSeq(c, 3, Len(c))) BY <1>7, <2>1, <2>3 DEF Hotplugs
  <2> QED BY <1>10, <2>4, Empty
<1>12. apply_hotplug(c[1].message, conns, "return") BY <1>2 DEF c, conns
<1>13. conns["monitor"].role \in {"none", "ask", "hotplug"} BY <1>1, <1>5 DEF PlaceOK
<1> QED BY <1>2, <1>5, <1>6, <1>8, <1>9, <1>10, <1>11, <1>12, <1>13, Applied

\* A call returns without anything but its result.
LEMMA OnlyResult ==
  ASSUME IInv, pc = "refresh",
         UNCHANGED <<service, conn, call, before, back, public>>,
         NEW result \in {refreshed, -1}, FinishRefresh(result)
  PROVE  IInv'
<1>1. TypeOK /\ PlaceOK /\ StreamsOK /\ NoStreamNoInput /\ TellsOK BY DEF IInv
<1>2. /\ UNCHANGED <<up, sdesc, sval, faults, conn, call, before, back>>
      /\ UNCHANGED <<descriptor, state, mbuf, ebuf>>
  BY DEF service, public
<1>3. /\ pc' \in {"idle", "update"} /\ (pc' = "update" => call = "update")
      /\ refreshed' \in {refreshed, -1}
  BY DEF FinishRefresh
<1>4. TypeOK' BY <1>1, <1>2, <1>3 DEF TypeOK
<1>5. PlaceOK' BY <1>1, <1>2, <1>3 DEF PlaceOK
<1>6. StreamsOK' BY <1>1, <1>2 DEF StreamsOK
<1>7. NoStreamNoInput' BY <1>1, <1>2 DEF NoStreamNoInput
<1>8. TellsOK' BY <1>1, <1>2, <1>3 DEF TellsOK, RefreshTells
<1> QED BY <1>4, <1>5, <1>6, <1>7, <1>8 DEF IInv

LEMMA RefreshDrainedIInv == ASSUME IInv, RefreshDrained PROVE IInv'
<1>1. /\ pc = "refresh" /\ UNCHANGED <<service, conn, call, before, back, public>>
      /\ FinishRefresh(refreshed)
  BY DEF RefreshDrained
<1> QED BY <1>1, OnlyResult

\* The monitor is closed and its buffer dropped; the event stream as well, or
\* there was none.
LEMMA MonitorClosed ==
  ASSUME IInv, pc \in {"refresh", "wait_monitor"},
         UNCHANGED <<service, call, before, back>>,
         mbuf' = <<>>, NEW result \in {refreshed, 1, -1}, FinishRefresh(result),
         \/ /\ UNCHANGED <<descriptor, state, ebuf>>
            /\ conn' = [conn EXCEPT !["monitor"] = Closed]
            /\ result # 1 \/ refreshed = 1
         \/ /\ descriptor' = [descriptor EXCEPT !.present = FALSE]
            /\ state' = Neutral /\ ebuf' = <<>> /\ result = 1
            /\ conn' = [conn EXCEPT !["monitor"] = Closed, !["event"] = Closed]
  PROVE  IInv'
<1>1. TypeOK /\ PlaceOK /\ StreamsOK /\ NoStreamNoInput /\ TellsOK BY DEF IInv
<1>2. UNCHANGED <<up, sdesc, sval, faults>> BY DEF service
<1>3. /\ pc' \in {"idle", "update"} /\ (pc' = "update" => call = "update")
      /\ refreshed' = result
  BY DEF FinishRefresh
<1>4. conn \in [Kinds -> Channels] BY <1>1, Types
<1>5. conn["new"].link = "closed" BY <1>1 DEF TypeOK
<1>6. <<>> \o Closed.chan = <<>> /\ Hotplugs(<<>>)
  BY FixedChannels, Empty DEF Hotplugs
<1>7. CASE /\ UNCHANGED <<descriptor, state, ebuf>>
           /\ conn' = [conn EXCEPT !["monitor"] = Closed]
           /\ result # 1 \/ refreshed = 1
  <2>1. /\ conn' \in [Kinds -> Channels] /\ conn'["monitor"] = Closed
        /\ conn'["event"] = conn["event"] /\ conn'["new"] = conn["new"]
    BY <1>4, <1>7, Kind, FixedChannels
  <2>2. TypeOK' BY <1>1, <1>2, <1>3, <1>5, <1>7, <2>1, Empty DEF TypeOK, Channels
  <2>3. PlaceOK' BY <1>1, <1>3, <1>7, <2>1, FixedChannels DEF PlaceOK, Kinds
  <2>4. StreamsOK' BY <1>1, <1>6, <1>7, <2>1, GoodEmpty DEF StreamsOK
  <2>5. NoStreamNoInput' BY <1>1, <1>7, <2>1 DEF NoStreamNoInput
  <2>6. TellsOK' BY <1>1, <1>3, <1>7 DEF TellsOK, RefreshTells
  <2> QED BY <2>2, <2>3, <2>4, <2>5, <2>6 DEF IInv
<1>8. CASE /\ descriptor' = [descriptor EXCEPT !.present = FALSE]
           /\ state' = Neutral /\ ebuf' = <<>> /\ result = 1
           /\ conn' = [conn EXCEPT !["monitor"] = Closed, !["event"] = Closed]
  <2>1. /\ conn' \in [Kinds -> Channels] /\ conn'["monitor"] = Closed
        /\ conn'["event"] = Closed /\ conn'["new"] = conn["new"]
    BY <1>4, <1>8, Kind, FixedChannels
  <2>2. descriptor' \in Descriptors BY <1>1, <1>8 DEF TypeOK, Descriptors
  <2>3. TypeOK'
    <3>1. state' \in States /\ ebuf' \in Stream /\ Len(ebuf') <= 1
      BY <1>8, Empty, NeutralIs
    <3> QED BY <1>1, <1>2, <1>3, <1>5, <2>1, <2>2, <3>1, Empty DEF TypeOK, Channels
  <2>4. PlaceOK' BY <1>1, <1>3, <1>8, <2>1, FixedChannels DEF PlaceOK, Kinds
  <2>5. StreamsOK' BY <1>1, <1>6, <1>8, <2>1, GoodEmpty DEF StreamsOK
  <2>6. NoStreamNoInput' BY <1>8, <2>1, FixedChannels DEF NoStreamNoInput
  <2>7. TellsOK' BY <1>1, <1>3, <1>8 DEF TellsOK, RefreshTells
  <2> QED BY <2>3, <2>4, <2>5, <2>6, <2>7 DEF IInv
<1> QED BY <1>7, <1>8

LEMMA MonitorRefusedIInv == ASSUME IInv, MonitorRefused PROVE IInv'
<1>1. /\ pc = "wait_monitor" /\ UNCHANGED <<service, call, before, back>>
      /\ UNCHANGED <<descriptor, state, mbuf, ebuf>>
      /\ conn' = [conn EXCEPT !["monitor"] = Closed] /\ FinishRefresh(-1)
  BY DEF MonitorRefused, public
<1>2. mbuf' = <<>> BY <1>1 DEF IInv, PlaceOK
<1> QED BY <1>1, <1>2, MonitorClosed

LEMMA RefreshLostIInv == ASSUME IInv, RefreshLost PROVE IInv'
<1>1. pc = "refresh" /\ mbuf' = <<>> /\ UNCHANGED <<service, call, before, back>>
  BY DEF RefreshLost
<1>2. CASE descriptor.present
  <2>1. /\ descriptor' = [descriptor EXCEPT !.present = FALSE]
        /\ state' = Neutral /\ ebuf' = <<>> /\ FinishRefresh(1)
        /\ conn' = [conn EXCEPT !["monitor"] = Closed, !["event"] = Closed]
    BY <1>2 DEF RefreshLost, close_event_stream
  <2> QED BY <1>1, <2>1, MonitorClosed
<1>3. CASE ~descriptor.present
  <2>1. /\ UNCHANGED <<descriptor, state, ebuf>>
        /\ conn' = [conn EXCEPT !["monitor"] = Closed]
        /\ \E result \in {refreshed, -1} : FinishRefresh(result)
    BY <1>3 DEF RefreshLost
  <2>2. PICK result \in {refreshed, -1} : FinishRefresh(result) BY <2>1
  <2>3. result # 1 \/ refreshed = 1 OBVIOUS
  <2> QED BY <1>1, <2>1, <2>2, <2>3, MonitorClosed
<1> QED BY <1>2, <1>3

LEMMA RefreshReceiveIInv == ASSUME IInv, RefreshReceive PROVE IInv'
<1>1. TypeOK /\ PlaceOK /\ StreamsOK /\ NoStreamNoInput /\ TellsOK BY DEF IInv
<1>2. /\ pc = "refresh" /\ conn["monitor"].link # "closed"
      /\ UNCHANGED <<service, call, before>>
  BY DEF RefreshReceive
<1> DEFINE c == conn["monitor"].chan
           received(n) == mbuf \o SubSeq(c, 1, n)
           conns(n) == [conn EXCEPT !["monitor"] = Skip(conn["monitor"], n)]
<1>3. PICK n \in Chunks("monitor", mbuf) :
        IF Len(received(n)) = 2
          THEN /\ mbuf' = <<>>
               /\ apply_hotplug(received(n)[1].message, conns(n), "refresh")
          ELSE /\ mbuf' = received(n) /\ conn' = conns(n)
               /\ UNCHANGED <<pc, back, refreshed, descriptor, state, ebuf>>
  BY DEF RefreshReceive
<1>4. /\ conn \in [Kinds -> Channels] /\ conn["monitor"] \in Channels /\ c \in Stream
      /\ mbuf \in Stream
  BY <1>1, Types, Kind
<1>5. n \in 1..Len(c) /\ Len(mbuf) + n <= 2
  BY <1>4, Empty DEF Chunks
<1>6. /\ conns(n) \in [Kinds -> Channels]
      /\ conns(n)["event"] = conn["event"] /\ conns(n)["new"] = conn["new"]
      /\ conns(n)["monitor"].link = conn["monitor"].link
      /\ conns(n)["monitor"].role = conn["monitor"].role
      /\ conns(n)["monitor"].chan = SubSeq(c, n + 1, Len(c))
  BY <1>4, <1>5, SkipIs, Kind
<1>7. conn["monitor"].role # "ask"
  <2>1. c # <<>> BY <1>5, Empty
  <2> QED BY <1>1, <2>1 DEF PlaceOK
<1> DEFINE r == received(n)
           t == SubSeq(c, n + 1, Len(c))
           cs == conns(n)
<1>8. r \in Stream /\ t \in Stream /\ Len(r) = Len(mbuf) + n /\ r \o t = mbuf \o c
  BY <1>4, <1>5, Take
<1>9. Good(conn["monitor"].link, r \o t) /\ Hotplugs(r) /\ Hotplugs(t) /\ Hotplugs(r \o t)
  BY <1>1, <1>8, HotplugsConcat DEF StreamsOK
<1>10. CASE Len(r) = 2
  <2>1. mbuf' = <<>> /\ apply_hotplug(r[1].message, cs, "refresh") BY <1>3, <1>10
  <2>2. /\ cs \in [Kinds -> Channels]
        /\ cs["event"] = conn["event"] /\ cs["new"] = conn["new"]
        /\ cs["monitor"].link = conn["monitor"].link
        /\ cs["monitor"].role = conn["monitor"].role
        /\ cs["monitor"].chan = t
    BY <1>6
  <2> HIDE DEF r, t, cs
  <2>3. Good(conn["monitor"].link, <<>> \o t) /\ r[1] \in Items
    BY <1>8, <1>9, <1>10, GoodDrop
  <2>4. r[1].message \in Messages /\ r[1].message.type = "hotplug"
    BY <1>9, <1>10, <2>3 DEF Items, Hotplugs
  <2>5. Hotplugs(<<>> \o t) BY <1>8, <1>9, Empty
  <2>6. conn["monitor"].role \in {"none", "ask", "hotplug"} BY <1>1 DEF PlaceOK
  <2> QED BY <1>2, <1>7, <2>1, <2>2, <2>3, <2>4, <2>5, <2>6, Applied
<1>11. CASE Len(r) # 2
  <2>1. /\ mbuf' = r /\ conn' = cs
        /\ UNCHANGED <<pc, back, refreshed, descriptor, state, ebuf>>
    BY <1>3, <1>11
  <2>2. /\ conn' \in [Kinds -> Channels]
        /\ conn'["event"] = conn["event"] /\ conn'["new"] = conn["new"]
        /\ conn'["monitor"].link = conn["monitor"].link
        /\ conn'["monitor"].role = conn["monitor"].role
        /\ conn'["monitor"].chan = t
    BY <1>6, <2>1
  <2>3. Len(r) <= 1 BY <1>4, <1>5, <1>8, <1>11, Empty
  <2> HIDE DEF r, t, cs
  <2>4. TypeOK' BY <1>1, <1>2, <1>8, <2>1, <2>2, <2>3 DEF TypeOK, Channels, service
  <2>5. PlaceOK' BY <1>1, <1>2, <1>7, <2>1, <2>2 DEF PlaceOK, Kinds
  <2>6. StreamsOK' BY <1>1, <1>9, <2>1, <2>2 DEF StreamsOK
  <2>7. NoStreamNoInput' BY <1>1, <2>1, <2>2 DEF NoStreamNoInput
  <2>8. TellsOK' BY <1>1, <1>2, <2>1, <2>2 DEF TellsOK, RefreshTells
  <2> QED BY <2>4, <2>5, <2>6, <2>7, <2>8 DEF IInv
<1> QED BY <1>10, <1>11

\* The answer to a query has come, or will not.
LEMMA StreamOpened ==
  ASSUME IInv, pc = "wait_stream",
         UNCHANGED <<service, call, before, back, descriptor, mbuf>>, Continue(back, 1),
         \/ /\ UNCHANGED <<state, ebuf>> /\ conn' = [conn EXCEPT !["new"] = Closed]
         \/ /\ state' = Neutral /\ ebuf' = <<>> /\ Len(conn["new"].chan) >= 2
            /\ conn' = [conn EXCEPT !["event"] = Skip(conn["new"], 2), !["new"] = Closed]
  PROVE  IInv'
<1>1. TypeOK /\ PlaceOK /\ StreamsOK /\ NoStreamNoInput /\ TellsOK BY DEF IInv
<1>2. UNCHANGED <<up, sdesc, sval, faults>> BY DEF service
<1>3. conn \in [Kinds -> Channels] /\ conn["new"] \in Channels /\ conn["new"].chan \in Stream
  BY <1>1, Types, Kind
<1>4. conn["event"].link = "closed" /\ descriptor.present BY <1>1 DEF PlaceOK
<1>5. back \in {"return", "refresh", "update"} /\ call \in {"create", "refresh", "update"}
  BY <1>1 DEF TypeOK
<1>6. /\ back = "return" => pc' = (IF call = "update" THEN "update" ELSE "idle") /\ refreshed' = 1
      /\ back = "refresh" => pc' = "refresh" /\ refreshed' = 1
      /\ back = "update" => pc' = "events" /\ refreshed' = refreshed
      /\ refreshed' \in {-1, 0, 1} /\ pc' \in {"idle", "refresh", "update", "events"}
  BY <1>1, <1>5, ContinueIs
<1>7. TellsOK'
  <2>1. CASE back = "return"
    BY <1>1, <1>6, <2>1 DEF TellsOK, RefreshTells
  <2>2. CASE back = "refresh"
    <3>1. conn'["monitor"].link # "closed"
      <4>1. conn'["monitor"] = conn["monitor"] BY <1>3, Kind
      <4> QED BY <1>1, <2>2, <4>1 DEF PlaceOK
    <3> QED BY <1>6, <2>2, <3>1 DEF TellsOK, RefreshTells
  <2>3. CASE back = "update"
    BY <1>1, <1>6, <2>3 DEF TellsOK, RefreshTells
  <2> QED BY <1>5, <2>1, <2>2, <2>3
<1>8. CASE UNCHANGED <<state, ebuf>> /\ conn' = [conn EXCEPT !["new"] = Closed]
  <2>1. /\ conn' \in [Kinds -> Channels] /\ conn'["new"] = Closed
        /\ conn'["event"] = conn["event"] /\ conn'["monitor"] = conn["monitor"]
    BY <1>3, <1>8, Kind, FixedChannels
  <2>2. TypeOK' BY <1>1, <1>2, <1>6, <1>8, <2>1, FixedChannels DEF TypeOK, Channels
  <2>3. PlaceOK' BY <1>1, <1>6, <1>8, <2>1, FixedChannels DEF PlaceOK, Kinds
  <2>4. StreamsOK' BY <1>1, <1>8, <2>1, FixedChannels, GoodEmpty DEF StreamsOK
  <2>5. NoStreamNoInput' BY <1>1, <1>8, <2>1 DEF NoStreamNoInput
  <2> QED BY <1>7, <2>2, <2>3, <2>4, <2>5 DEF IInv
<1>9. CASE /\ state' = Neutral /\ ebuf' = <<>> /\ Len(conn["new"].chan) >= 2
           /\ conn' = [conn EXCEPT !["event"] = Skip(conn["new"], 2), !["new"] = Closed]
  <2> DEFINE c == conn["new"].chan
             e == Skip(conn["new"], 2)
  <2>1. 2 \in 1..Len(c) BY <1>3, <1>9, Empty
  <2>2. /\ e \in Channels /\ e.link = conn["new"].link /\ e.role = conn["new"].role
        /\ e.chan = SubSeq(c, 3, Len(c))
    BY <1>3, <2>1, SkipIs
  <2>3. Good(conn["new"].link, <<>> \o SubSeq(c, 3, Len(c)))
    BY <1>1, <1>3, <1>9, FirstMessage DEF StreamsOK
  <2>4. conn["new"].link # "closed" BY <1>1 DEF TypeOK
  <2>5. conn["new"].role \in {"none", "events"}
    <3>1. c # <<>> BY <2>1, Empty
    <3> QED BY <1>1, <3>1 DEF PlaceOK
  <2> HIDE DEF e
  <2>6. /\ conn' \in [Kinds -> Channels] /\ conn'["new"] = Closed
        /\ conn'["event"] = e /\ conn'["monitor"] = conn["monitor"]
    <3>1. conn' = [conn EXCEPT !["event"] = e, !["new"] = Closed] BY <1>9 DEF e
    <3> QED BY <1>3, <2>2, <3>1, Kind, FixedChannels
  <2>7. TypeOK'
    BY <1>1, <1>2, <1>6, <1>9, <2>6, FixedChannels, Empty, NeutralIs DEF TypeOK, Channels
  <2>8. PlaceOK' BY <1>1, <1>4, <1>6, <1>9, <2>2, <2>4, <2>5, <2>6, FixedChannels DEF PlaceOK, Kinds
  <2>9. StreamsOK' BY <1>1, <1>9, <2>2, <2>3, <2>6, FixedChannels, GoodEmpty DEF StreamsOK
  <2>10. NoStreamNoInput' BY <1>4, <1>9, <2>2, <2>4, <2>6 DEF NoStreamNoInput
  <2> QED BY <1>7, <2>7, <2>8, <2>9, <2>10 DEF IInv
<1> QED BY <1>8, <1>9

LEMMA StreamAnsweredIInv == ASSUME IInv, StreamAnswered PROVE IInv'
<1>1. /\ pc = "wait_stream" /\ Len(conn["new"].chan) >= 2
      /\ UNCHANGED <<service, call, before, back, descriptor, mbuf>> /\ Continue(back, 1)
  BY DEF StreamAnswered, Answered
<1>2. \/ /\ UNCHANGED <<state, ebuf>> /\ conn' = [conn EXCEPT !["new"] = Closed]
      \/ /\ state' = Neutral /\ ebuf' = <<>>
         /\ conn' = [conn EXCEPT !["event"] = Skip(conn["new"], 2), !["new"] = Closed]
  BY DEF StreamAnswered, close_event_stream
<1> QED BY <1>1, <1>2, StreamOpened

LEMMA StreamRefusedIInv == ASSUME IInv, StreamRefused PROVE IInv'
<1>1. /\ pc = "wait_stream" /\ conn' = [conn EXCEPT !["new"] = Closed]
      /\ UNCHANGED <<service, call, before, back, descriptor, mbuf>>
      /\ UNCHANGED <<state, ebuf>> /\ Continue(back, 1)
  BY DEF StreamRefused, public
<1> QED BY <1>1, StreamOpened

LEMMA UpdateIInv == ASSUME IInv, Update PROVE IInv'
<1>1. TypeOK /\ PlaceOK /\ StreamsOK /\ NoStreamNoInput /\ TellsOK BY DEF IInv
<1>2. /\ UNCHANGED <<up, sdesc, sval, faults, call, before>>
      /\ UNCHANGED <<descriptor, state, mbuf, ebuf>> /\ pc = "update"
  BY DEF Update, service, public
<1>3. conn \in [Kinds -> Channels] /\ call = "update" /\ conn["new"].link = "closed"
  BY <1>1, <1>2, Types DEF TellsOK, TypeOK
<1>4. CASE conn["event"].link = "closed" /\ descriptor.present /\ up
  <2>1. /\ conn' = [conn EXCEPT !["new"] = Connected("query")]
        /\ pc' = "wait_stream" /\ back' = "update" /\ UNCHANGED refreshed
    BY <1>4 DEF Update, open_event_stream
  <2>2. /\ conn' \in [Kinds -> Channels] /\ conn'["new"] = Connected("query")
        /\ conn'["event"] = conn["event"] /\ conn'["monitor"] = conn["monitor"]
    BY <1>3, <2>1, Kind, FixedChannels
  <2>3. TypeOK' BY <1>1, <1>2, <2>1, <2>2, FixedChannels DEF TypeOK, Channels
  <2>4. PlaceOK' BY <1>1, <1>2, <1>4, <2>1, <2>2, FixedChannels DEF PlaceOK, Kinds
  <2>5. StreamsOK' BY <1>1, <1>2, <2>2, FixedChannels, GoodEmpty DEF StreamsOK
  <2>6. NoStreamNoInput' BY <1>1, <1>2, <2>2 DEF NoStreamNoInput
  <2>7. TellsOK' BY <1>2, <1>3, <2>1 DEF TellsOK, RefreshTells
  <2> QED BY <2>3, <2>4, <2>5, <2>6, <2>7 DEF IInv
<1>5. CASE ~(conn["event"].link = "closed" /\ descriptor.present /\ up)
  <2>1. pc' = "events" /\ UNCHANGED <<conn, back, refreshed>>
    BY <1>5 DEF Update, open_event_stream, Continue
  <2>2. TypeOK' BY <1>1, <1>2, <1>3, <2>1 DEF TypeOK
  <2>3. PlaceOK' BY <1>1, <1>2, <2>1 DEF PlaceOK
  <2>4. StreamsOK' BY <1>1, <1>2, <2>1 DEF StreamsOK
  <2>5. NoStreamNoInput' BY <1>1, <1>2, <2>1 DEF NoStreamNoInput
  <2>6. TellsOK' BY <1>2, <1>3, <2>1 DEF TellsOK, RefreshTells
  <2> QED BY <2>2, <2>3, <2>4, <2>5, <2>6 DEF IInv
<1> QED BY <1>4, <1>5

LEMMA ProcessIs ==
  ASSUME NEW st \in States, NEW m \in Messages
  PROVE  process_event(st, m) \in States
<1>1. CASE m.type = "event"
  <2>1. m.control \in Controls /\ m.value \in Values BY <1>1, Contents
  <2> QED BY <1>1, <2>1 DEF process_event, States
<1>2. CASE m.type # "event" BY <1>2 DEF process_event
<1> QED BY <1>1, <1>2

LEMMA EventsReceiveIInv == ASSUME IInv, EventsReceive PROVE IInv'
<1>1. TypeOK /\ PlaceOK /\ StreamsOK /\ NoStreamNoInput /\ TellsOK BY DEF IInv
<1>2. /\ pc = "events" /\ conn["event"].link # "closed"
      /\ UNCHANGED <<up, sdesc, sval, faults>>
      /\ UNCHANGED <<pc, call, before, back, refreshed, descriptor, mbuf>>
  BY DEF EventsReceive, service
<1> DEFINE c == conn["event"].chan
           received(n) == ebuf \o SubSeq(c, 1, n)
<1>3. PICK n \in Chunks("event", ebuf) :
        /\ conn' = [conn EXCEPT !["event"] = Skip(conn["event"], n)]
        /\ IF Len(received(n)) = 2
             THEN /\ state' = process_event(state, received(n)[1].message)
                  /\ ebuf' = <<>>
             ELSE ebuf' = received(n) /\ UNCHANGED state
  BY DEF EventsReceive
<1>4. /\ conn \in [Kinds -> Channels] /\ conn["event"] \in Channels /\ c \in Stream
      /\ ebuf \in Stream
  BY <1>1, Types, Kind
<1>5. n \in 1..Len(c) /\ Len(ebuf) + n <= 2
  BY <1>4, Empty DEF Chunks
<1> DEFINE r == received(n)
           t == SubSeq(c, n + 1, Len(c))
<1>6. /\ conn' \in [Kinds -> Channels]
      /\ conn'["monitor"] = conn["monitor"] /\ conn'["new"] = conn["new"]
      /\ conn'["event"].link = conn["event"].link
      /\ conn'["event"].role = conn["event"].role
      /\ conn'["event"].chan = t
  BY <1>3, <1>4, <1>5, SkipIs, Kind
<1>7. r \in Stream /\ t \in Stream /\ Len(r) = Len(ebuf) + n /\ r \o t = ebuf \o c
  BY <1>4, <1>5, Take
<1>8. Good(conn["event"].link, r \o t) BY <1>1, <1>7 DEF StreamsOK
<1>9. CASE Len(r) = 2
  <2>1. state' = process_event(state, r[1].message) /\ ebuf' = <<>> BY <1>3, <1>9
  <2> HIDE DEF r, t
  <2>2. Good(conn["event"].link, <<>> \o t) /\ r[1] \in Items
    BY <1>7, <1>8, <1>9, GoodDrop
  <2>3. state' \in States
    <3>1. r[1].message \in Messages /\ state \in States BY <1>1, <2>2 DEF Items, TypeOK
    <3> QED BY <2>1, <3>1, ProcessIs
  <2>4. TypeOK' BY <1>1, <1>2, <1>6, <2>1, <2>3, Empty DEF TypeOK, Channels
  <2>5. PlaceOK' BY <1>1, <1>2, <1>6, <2>1 DEF PlaceOK, Kinds
  <2>6. StreamsOK' BY <1>1, <1>2, <1>6, <2>1, <2>2 DEF StreamsOK
  <2>7. NoStreamNoInput' BY <1>1, <1>2, <1>6 DEF NoStreamNoInput
  <2>8. TellsOK' BY <1>1, <1>2, <1>6 DEF TellsOK, RefreshTells
  <2> QED BY <2>4, <2>5, <2>6, <2>7, <2>8 DEF IInv
<1>10. CASE Len(r) # 2
  <2>1. UNCHANGED state /\ ebuf' = r BY <1>3, <1>10
  <2>2. Len(r) <= 1 BY <1>4, <1>5, <1>7, <1>10, Empty
  <2> HIDE DEF r, t
  <2>4. TypeOK' BY <1>1, <1>2, <1>6, <1>7, <2>1, <2>2 DEF TypeOK, Channels
  <2>5. PlaceOK' BY <1>1, <1>2, <1>6, <2>1 DEF PlaceOK, Kinds
  <2>6. StreamsOK' BY <1>1, <1>2, <1>6, <1>8, <2>1 DEF StreamsOK
  <2>7. NoStreamNoInput' BY <1>1, <1>2, <1>6, <2>1 DEF NoStreamNoInput
  <2>8. TellsOK' BY <1>1, <1>2, <1>6 DEF TellsOK, RefreshTells
  <2> QED BY <2>4, <2>5, <2>6, <2>7, <2>8 DEF IInv
<1> QED BY <1>9, <1>10

LEMMA EventsDrainedIInv == ASSUME IInv, EventsDrained PROVE IInv'
<1>1. TypeOK /\ PlaceOK /\ StreamsOK /\ NoStreamNoInput /\ TellsOK BY DEF IInv
<1>2. /\ UNCHANGED <<up, sdesc, sval, faults, conn, call, before, back, refreshed>>
      /\ UNCHANGED <<descriptor, state, mbuf, ebuf>> /\ pc = "events" /\ pc' = "idle"
  BY DEF EventsDrained, service, public
<1>3. TypeOK' BY <1>1, <1>2 DEF TypeOK
<1>4. PlaceOK' BY <1>1, <1>2 DEF PlaceOK
<1>5. StreamsOK' BY <1>1, <1>2 DEF StreamsOK
<1>6. NoStreamNoInput' BY <1>1, <1>2 DEF NoStreamNoInput
<1>7. TellsOK' BY <1>1, <1>2 DEF TellsOK, RefreshTells
<1> QED BY <1>3, <1>4, <1>5, <1>6, <1>7 DEF IInv

LEMMA EventsLostIInv == ASSUME IInv, EventsLost PROVE IInv'
<1>1. TypeOK /\ PlaceOK /\ StreamsOK /\ NoStreamNoInput /\ TellsOK BY DEF IInv
<1>2. /\ UNCHANGED <<up, sdesc, sval, faults, call, before, back, refreshed>>
      /\ UNCHANGED <<descriptor, mbuf>> /\ pc = "events" /\ pc' = "idle"
      /\ state' = Neutral /\ ebuf' = <<>> /\ conn' = [conn EXCEPT !["event"] = Closed]
  BY DEF EventsLost, service, close_event_stream
<1>3. /\ conn' \in [Kinds -> Channels] /\ conn'["event"] = Closed
      /\ conn'["monitor"] = conn["monitor"] /\ conn'["new"] = conn["new"]
  BY <1>1, <1>2, Types, Kind, FixedChannels
<1>4. TypeOK' BY <1>1, <1>2, <1>3, Empty, NeutralIs DEF TypeOK, Channels
<1>5. PlaceOK' BY <1>1, <1>2, <1>3, FixedChannels DEF PlaceOK, Kinds
<1>6. StreamsOK' BY <1>1, <1>2, <1>3, FixedChannels, GoodEmpty DEF StreamsOK
<1>7. NoStreamNoInput' BY <1>2, <1>3, FixedChannels DEF NoStreamNoInput
<1>8. TellsOK' BY <1>1, <1>2 DEF TellsOK, RefreshTells
<1> QED BY <1>4, <1>5, <1>6, <1>7, <1>8 DEF IInv

LEMMA NextIInv == IInv /\ [Next]_vars => IInv'
<1> SUFFICES ASSUME IInv, [Next]_vars PROVE IInv' OBVIOUS
<1>1. CASE Service BY <1>1, ServiceIInv
<1>2. CASE LibStep
  BY <1>2, OpenMonitorIInv, MonitorAnsweredIInv, MonitorRefusedIInv, RefreshReceiveIInv,
     RefreshDrainedIInv, RefreshLostIInv, StreamAnsweredIInv, StreamRefusedIInv,
     UpdateIInv, EventsReceiveIInv, EventsDrainedIInv, EventsLostIInv
  DEF LibStep
<1>3. CASE \E k \in {"refresh", "update"} : Call(k) BY <1>3, CallIInv
<1>4. CASE UNCHANGED vars
  BY <1>4 DEF vars, service, public, IInv, TypeOK, PlaceOK, StreamsOK, NoStreamNoInput,
     TellsOK, RefreshTells
<1> QED BY <1>1, <1>2, <1>3, <1>4 DEF Next

LEMMA Invariant == Spec => []IInv
  BY InitIInv, NextIInv, PTL DEF Spec
-----------------------------------------------------------------------------
(* What a live stream carries. *)

EventAt(s, i, c) ==
  s[i].half = 2 /\ s[i].message.type = "event" /\ s[i].message.control = c

Silent(s, c) == \A i \in 1..Len(s) : ~EventAt(s, i, c)

\* The last event of control c in stream s has the value v.
Ends(s, c, v) ==
  \E i \in 1..Len(s) : /\ EventAt(s, i, c) /\ s[i].message.value = v
                       /\ \A j \in 1..Len(s) : EventAt(s, j, c) => j <= i

\* A reader in state st that consumes s is in state values then.
Leads(st, s, values) ==
  \A c \in Controls : Ends(s, c, values[c]) \/ (Silent(s, c) /\ st[c] = values[c])

\* The first message of an answer is its descriptor.
Answers(s, values) ==
  /\ Len(s) >= 2 /\ s[2].message.type # "event"
  /\ \A c \in Controls : Ends(s, c, values[c])

Live(k) == conn[k].link = "up" /\ conn[k].live

\* The bridge reports to every stream it holds for live, and each of them leads
\* to its state: the library's from the public state, a new one by itself.
LiveOK ==
  /\ \A k \in Kinds : conn[k].live => conn[k].role = "events"
  /\ Live("event") => Leads(state, ebuf \o conn["event"].chan, sval)
  /\ Live("new") => Answers(conn["new"].chan, sval)

LEMMA LeadsIsDrained ==
  ASSUME NEW st \in States, NEW values \in States, NEW s \in Stream,
         Leads(st, s, values)
  PROVE  Drained(st, s) = values
<1> DEFINE ends(c) == {i \in 1..Len(s) : /\ s[i].half = 2
                                         /\ s[i].message.type = "event"
                                         /\ s[i].message.control = c}
           final(c) == IF ends(c) = {} THEN st[c]
                       ELSE s[CHOOSE i \in ends(c) : \A j \in ends(c) : j <= i].message.value
<1>1. ASSUME NEW c \in Controls PROVE final(c) = values[c]
  <2> DEFINE e == ends(c)
             m == CHOOSE i \in e : \A j \in e : j <= i
  <2>1. \A i : i \in e <=> i \in 1..Len(s) /\ EventAt(s, i, c) BY DEF EventAt
  <2>2. final(c) = IF e = {} THEN st[c] ELSE s[m].message.value OBVIOUS
  <2> HIDE DEF e, ends, final
  <2>3. CASE Silent(s, c) /\ st[c] = values[c]
    <3>1. e = {} BY <2>1, <2>3 DEF Silent
    <3> QED BY <2>2, <2>3, <3>1
  <2>4. CASE Ends(s, c, values[c])
    <3>1. PICK i \in 1..Len(s) : /\ EventAt(s, i, c) /\ s[i].message.value = values[c]
                                 /\ \A j \in 1..Len(s) : EventAt(s, j, c) => j <= i
      BY <2>4 DEF Ends
    <3>2. i \in e /\ \A j \in e : j <= i BY <2>1, <3>1
    <3>3. m \in e /\ \A j \in e : j <= m BY <3>2
    <3>4. m = i
      <4>1. m <= i /\ i <= m BY <3>2, <3>3
      <4>2. m \in Int /\ i \in Int BY <2>1, <3>3, Empty
      <4> HIDE DEF m
      <4> QED BY <4>1, <4>2
    <3> HIDE DEF m
    <3> QED BY <2>2, <3>1, <3>2, <3>4
  <2>5. Ends(s, c, values[c]) \/ (Silent(s, c) /\ st[c] = values[c]) BY DEF Leads
  <2> QED BY <2>3, <2>4, <2>5
<1>2. Drained(st, s) = [c \in Controls |-> final(c)] BY DEF Drained
<1> HIDE DEF final
<1>3. Drained(st, s) = [c \in Controls |-> values[c]] BY <1>1, <1>2
<1> QED BY <1>3 DEF States

\* What is put behind a stream decides what the stream ends with.
LEMMA EndsPut ==
  ASSUME NEW s \in Stream, NEW h \in Stream, NEW c, NEW v
  PROVE  /\ Ends(h, c, v) => Ends(s \o h, c, v)
         /\ Silent(h, c) /\ Ends(s, c, v) => Ends(s \o h, c, v)
         /\ Silent(h, c) /\ Silent(s, c) => Silent(s \o h, c)
<1>1. Len(s) \in Nat /\ Len(h) \in Nat BY Empty
<1>2. /\ Len(s \o h) = Len(s) + Len(h)
      /\ \A i \in 1..Len(s) : (s \o h)[i] = s[i]
      /\ \A i \in 1..Len(h) : (s \o h)[i + Len(s)] = h[i]
  BY Concat
<1> DEFINE u == s \o h
<1> HIDE DEF u
<1>3. /\ \A i \in 1..Len(s) : i \in 1..Len(u) /\ (EventAt(u, i, c) <=> EventAt(s, i, c))
                              /\ u[i] = s[i]
      /\ \A i \in 1..Len(h) : /\ i + Len(s) \in 1..Len(u) /\ u[i + Len(s)] = h[i]
                              /\ EventAt(u, i + Len(s), c) <=> EventAt(h, i, c)
  BY <1>1, <1>2 DEF EventAt, u
<1>4. \A j \in 1..Len(u) : j \in 1..Len(s) \/ (j > Len(s) /\ j - Len(s) \in 1..Len(h)
                                               /\ (j - Len(s)) + Len(s) = j)
  BY <1>1, <1>2 DEF u
<1>5. ASSUME NEW j \in 1..Len(u), EventAt(u, j, c)
      PROVE  \/ j \in 1..Len(s) /\ EventAt(s, j, c)
             \/ j > Len(s) /\ j - Len(s) \in 1..Len(h) /\ EventAt(h, j - Len(s), c)
  <2>1. CASE j \in 1..Len(s) BY <1>3, <1>5, <2>1
  <2>2. CASE j > Len(s) /\ j - Len(s) \in 1..Len(h) /\ (j - Len(s)) + Len(s) = j
    <3> DEFINE i == j - Len(s)
    <3>1. i \in 1..Len(h) /\ i + Len(s) = j BY <2>2
    <3> HIDE DEF i
    <3>2. EventAt(h, i, c) BY <1>3, <1>5, <3>1
    <3> QED BY <2>2, <3>2 DEF i
  <2> QED BY <1>4, <2>1, <2>2
<1>6. ASSUME Ends(h, c, v) PROVE Ends(u, c, v)
  <2>1. PICK i \in 1..Len(h) : /\ EventAt(h, i, c) /\ h[i].message.value = v
                               /\ \A j \in 1..Len(h) : EventAt(h, j, c) => j <= i
    BY <1>6 DEF Ends
  <2>2. /\ i + Len(s) \in 1..Len(u) /\ EventAt(u, i + Len(s), c)
        /\ u[i + Len(s)].message.value = v
    BY <1>3, <2>1
  <2>3. ASSUME NEW j \in 1..Len(u), EventAt(u, j, c) PROVE j <= i + Len(s)
    <3>0. j \in Int /\ i \in Nat BY <1>1
    <3>1. CASE j \in 1..Len(s) BY <1>1, <3>0, <3>1
    <3>2. CASE j - Len(s) \in 1..Len(h) /\ EventAt(h, j - Len(s), c)
      <4>1. j - Len(s) <= i BY <2>1, <3>2
      <4> QED BY <1>1, <3>0, <4>1
    <3> QED BY <1>5, <2>3, <3>1, <3>2
  <2> QED BY <2>2, <2>3 DEF Ends
<1>7. ASSUME Silent(h, c), Ends(s, c, v) PROVE Ends(u, c, v)
  <2>1. PICK i \in 1..Len(s) : /\ EventAt(s, i, c) /\ s[i].message.value = v
                               /\ \A j \in 1..Len(s) : EventAt(s, j, c) => j <= i
    BY <1>7 DEF Ends
  <2>2. i \in 1..Len(u) /\ EventAt(u, i, c) /\ u[i].message.value = v BY <1>3, <2>1
  <2>3. ASSUME NEW j \in 1..Len(u), EventAt(u, j, c) PROVE j <= i
    BY <1>5, <1>7, <2>1, <2>3 DEF Silent
  <2> QED BY <2>2, <2>3 DEF Ends
<1>8. ASSUME Silent(h, c), Silent(s, c) PROVE Silent(u, c)
  BY <1>5, <1>8 DEF Silent
<1> QED BY <1>6, <1>7, <1>8 DEF u

\* Messages that have one event of a control, or none.
LEMMA EndsHalves ==
  ASSUME NEW ms \in Seq(Messages), NEW c \in Controls, NEW v
  PROVE  /\ (\E k \in 1..Len(ms) :
               /\ ms[k] = Event(c, v)
               /\ \A j \in 1..Len(ms) : ms[j].type = "event" /\ ms[j].control = c => j = k)
            => Ends(Halves(ms), c, v)
         /\ (\A j \in 1..Len(ms) : ~(ms[j].type = "event" /\ ms[j].control = c))
            => Silent(Halves(ms), c)
<1> DEFINE H == Halves(ms)
<1>1. Len(ms) \in Nat BY LenProperties
<1>2. /\ Len(H) = 2 * Len(ms)
      /\ \A i \in 1..Len(ms) : /\ H[2 * i - 1] = [message |-> ms[i], half |-> 1]
                               /\ H[2 * i] = [message |-> ms[i], half |-> 2]
  BY HalvesAre
<1> HIDE DEF H
<1>3. ASSUME NEW i \in 1..Len(H), EventAt(H, i, c)
      PROVE  \E k \in 1..Len(ms) : i = 2 * k /\ ms[k].type = "event" /\ ms[k].control = c
  <2> DEFINE k == (i + 1) \div 2
  <2>1. k \in 1..Len(ms) /\ (i = 2 * k - 1 \/ i = 2 * k) BY <1>1, <1>2
  <2> HIDE DEF k
  <2>2. i # 2 * k - 1
    <3>1. ASSUME i = 2 * k - 1 PROVE FALSE
      <4>1. H[2 * k - 1].half = 1
        <5>1. H[2 * k - 1] = [message |-> ms[k], half |-> 1] BY <1>2, <2>1
        <5> QED BY <5>1
      <4> QED BY <1>3, <3>1, <4>1 DEF EventAt
    <3> QED BY <3>1
  <2>3. H[i] = [message |-> ms[k], half |-> 2] BY <1>2, <2>1, <2>2
  <2>4. ms[k].type = "event" /\ ms[k].control = c BY <1>3, <2>3 DEF EventAt
  <2> QED BY <2>1, <2>2, <2>4
<1>4. ASSUME NEW k \in 1..Len(ms), ms[k] = Event(c, v),
             \A j \in 1..Len(ms) : ms[j].type = "event" /\ ms[j].control = c => j = k
      PROVE  Ends(H, c, v)
  <2>1. 2 * k \in 1..Len(H) BY <1>1, <1>2
  <2>2. H[2 * k] = [message |-> Event(c, v), half |-> 2] BY <1>2, <1>4
  <2>3. EventAt(H, 2 * k, c) /\ H[2 * k].message.value = v BY <2>2 DEF EventAt, Event
  <2>4. ASSUME NEW i \in 1..Len(H), EventAt(H, i, c) PROVE i <= 2 * k
    <3>1. PICK j \in 1..Len(ms) : i = 2 * j /\ ms[j].type = "event" /\ ms[j].control = c
      BY <1>3, <2>4
    <3>2. i = 2 * k BY <1>4, <3>1
    <3> QED BY <2>1, <3>2, <1>1
  <2> QED BY <2>1, <2>3, <2>4 DEF Ends
<1>5. ASSUME \A j \in 1..Len(ms) : ~(ms[j].type = "event" /\ ms[j].control = c)
      PROVE  Silent(H, c)
  BY <1>3, <1>5 DEF Silent
<1> QED BY <1>4, <1>5 DEF H

\* A report tells of its controls and of no other.
LEMMA ReportEnds ==
  ASSUME NEW S \in SUBSET Controls, NEW values \in States, NEW c \in Controls
  PROVE  LET R == ReportOf(S, values)
         IN  /\ c \in S =>
                  \E k \in 1..Len(R) :
                    /\ R[k] = Event(c, values[c])
                    /\ \A j \in 1..Len(R) : R[j].type = "event" /\ R[j].control = c => j = k
             /\ c \notin S =>
                  \A j \in 1..Len(R) : ~(R[j].type = "event" /\ R[j].control = c)
<1> DEFINE n == Cardinality(S)
           R == ReportOf(S, values)
           order == InOrder(S)
<1>1. /\ n \in Nat /\ order \in [1..n -> S]
      /\ \A i, j \in 1..n : order[i] = order[j] => i = j
      /\ \A d \in S : \E i \in 1..n : order[i] = d
  BY InOrderIs
<1>2. /\ Len(R) = n + 1 /\ R[n + 1] = Syn
      /\ \A i \in 1..n : R[i] = Event(order[i], values[order[i]])
  BY ReportIs
<1> HIDE DEF n, R, order
<1>3. ASSUME NEW j \in 1..Len(R), R[j].type = "event"
      PROVE  j \in 1..n /\ R[j].control = order[j] /\ order[j] \in S
  <2>1. j # n + 1 BY <1>2, <1>3 DEF Syn
  <2>2. j \in 1..n BY <1>1, <1>2, <2>1
  <2>3. R[j] = Event(order[j], values[order[j]]) BY <1>2, <2>2
  <2>4. R[j].control = order[j] BY <2>3 DEF Event
  <2> QED BY <1>1, <2>2, <2>4
<1>4. ASSUME c \in S
      PROVE  \E k \in 1..Len(R) :
               /\ R[k] = Event(c, values[c])
               /\ \A j \in 1..Len(R) : R[j].type = "event" /\ R[j].control = c => j = k
  <2>1. PICK k \in 1..n : order[k] = c BY <1>1, <1>4
  <2>2. k \in 1..Len(R) /\ R[k] = Event(c, values[c]) BY <1>1, <1>2, <2>1
  <2>3. \A j \in 1..Len(R) : R[j].type = "event" /\ R[j].control = c => j = k
    BY <1>1, <1>3, <2>1
  <2> QED BY <2>2, <2>3
<1>5. ASSUME c \notin S
      PROVE  \A j \in 1..Len(R) : ~(R[j].type = "event" /\ R[j].control = c)
  BY <1>3, <1>5
<1> QED BY <1>4, <1>5 DEF R

\* A message that is taken from the stream and applied to the state.
LEMMA EndsTake ==
  ASSUME NEW st \in States, NEW values \in States,
         NEW r \in Stream, NEW t \in Stream, Len(r) = 2,
         r[1].message = r[2].message, r[1].half = 1, r[2].half = 2,
         r[1].message \in Messages, Leads(st, r \o t, values)
  PROVE  Leads(process_event(st, r[1].message), t, values)
<1> DEFINE s == r \o t
           m == r[1].message
           next == process_event(st, m)
<1>1. Len(t) \in Nat BY Empty
<1>2. /\ Len(s) = Len(t) + 2 /\ s[1] = r[1] /\ s[2] = r[2]
      /\ \A i \in 1..Len(t) : s[i + 2] = t[i]
  <2>1. /\ Len(r \o t) = Len(r) + Len(t)
        /\ \A i \in 1..Len(r) : (r \o t)[i] = r[i]
        /\ \A i \in 1..Len(t) : (r \o t)[i + Len(r)] = t[i]
    BY Concat
  <2>2. 1 \in 1..2 /\ 2 \in 1..2 OBVIOUS
  <2> QED BY <1>1, <2>1, <2>2
<1>3. m.type = "event" => m.control \in Controls /\ m.value \in Values BY Contents
<1>4. \A c \in Controls :
        next[c] = IF m.type = "event" /\ m.control = c THEN m.value ELSE st[c]
  BY <1>3 DEF process_event, States
<1>5. Leads(st, s, values) OBVIOUS
<1>6. s[2].message = m /\ s[2].half = 2 /\ s[1].half = 1 BY <1>2
<1> HIDE DEF s, m, next
<1> SUFFICES ASSUME NEW c \in Controls
             PROVE  Ends(t, c, values[c]) \/ (Silent(t, c) /\ next[c] = values[c])
  BY DEF Leads, next, m
<1>7. \A i \in 1..Len(t) : i + 2 \in 1..Len(s) /\ (EventAt(s, i + 2, c) <=> EventAt(t, i, c))
  BY <1>1, <1>2 DEF EventAt
<1>8. 2 \in 1..Len(s) /\ (EventAt(s, 2, c) <=> m.type = "event" /\ m.control = c)
  BY <1>1, <1>2, <1>6 DEF EventAt
<1>9. CASE Silent(s, c) /\ st[c] = values[c]
  <2>1. Silent(t, c) BY <1>7, <1>9 DEF Silent
  <2>2. ~(m.type = "event" /\ m.control = c) BY <1>8, <1>9 DEF Silent
  <2> QED BY <1>4, <1>9, <2>1, <2>2
<1>10. CASE Ends(s, c, values[c])
  <2>1. PICK i \in 1..Len(s) : /\ EventAt(s, i, c) /\ s[i].message.value = values[c]
                               /\ \A j \in 1..Len(s) : EventAt(s, j, c) => j <= i
    BY <1>10 DEF Ends
  <2>2. CASE i <= 2
    <3>1. i # 1 BY <1>6, <2>1 DEF EventAt
    <3>2. i = 2 BY <1>1, <1>2, <2>2, <3>1
    <3>3. Silent(t, c)
      <4>1. ASSUME NEW j \in 1..Len(t), EventAt(t, j, c) PROVE FALSE
        <5>1. j + 2 <= 2 BY <1>7, <2>1, <3>2, <4>1
        <5> QED BY <1>1, <5>1
      <4> QED BY <4>1 DEF Silent
    <3>4. m.type = "event" /\ m.control = c /\ m.value = values[c]
      BY <1>6, <1>8, <2>1, <3>2
    <3> QED BY <1>4, <3>3, <3>4
  <2>3. CASE i > 2
    <3> DEFINE k == i - 2
    <3>1. k \in 1..Len(t) /\ k + 2 = i BY <1>1, <1>2, <2>3
    <3> HIDE DEF k
    <3>2. EventAt(t, k, c) /\ t[k].message.value = values[c] BY <1>2, <1>7, <2>1, <3>1
    <3>3. ASSUME NEW j \in 1..Len(t), EventAt(t, j, c) PROVE j <= k
      <4>1. j + 2 <= k + 2 BY <1>7, <2>1, <3>1, <3>3
      <4> QED BY <1>1, <3>1, <4>1
    <3> QED BY <3>1, <3>2, <3>3 DEF Ends
  <2> QED BY <1>1, <1>2, <2>2, <2>3
<1> QED BY <1>5, <1>9, <1>10 DEF Leads

\* A report of what has changed, behind a stream that leads to the old state.
LEMMA ChangesEnd ==
  ASSUME NEW values \in States, NEW next \in States, NEW c \in Controls
  PROVE  LET H == Halves(ReportOf({d \in Controls : next[d] # values[d]}, next))
         IN  /\ H \in Stream
             /\ Ends(H, c, next[c]) \/ (Silent(H, c) /\ next[c] = values[c])
<1> DEFINE S == {d \in Controls : next[d] # values[d]}
           report == ReportOf(S, next)
<1>1. S \in SUBSET Controls /\ (c \notin S => next[c] = values[c]) OBVIOUS
<1> HIDE DEF S
<1>2. report \in Seq(Messages) BY <1>1, ReportIs
<1>3. /\ c \in S =>
           \E k \in 1..Len(report) :
             /\ report[k] = Event(c, next[c])
             /\ \A j \in 1..Len(report) :
                  report[j].type = "event" /\ report[j].control = c => j = k
      /\ c \notin S =>
           \A j \in 1..Len(report) : ~(report[j].type = "event" /\ report[j].control = c)
  BY <1>1, ReportEnds
<1> HIDE DEF report
<1>4. /\ c \in S => Ends(Halves(report), c, next[c])
      /\ c \notin S => Silent(Halves(report), c)
  BY <1>2, <1>3, EndsHalves
<1>5. Halves(report) \in Stream BY <1>2, HalvesAre
<1> QED BY <1>1, <1>4, <1>5 DEF report, S

LEMMA ReportLeads ==
  ASSUME NEW st \in States, NEW values \in States, NEW next \in States,
         NEW s \in Stream, Leads(st, s, values)
  PROVE  LET report == ReportOf({c \in Controls : next[c] # values[c]}, next)
         IN  Leads(st, s \o Halves(report), next)
<1> DEFINE H == Halves(ReportOf({c \in Controls : next[c] # values[c]}, next))
<1>1. \A c \in Controls :
        /\ H \in Stream
        /\ Ends(H, c, next[c]) \/ (Silent(H, c) /\ next[c] = values[c])
  BY ChangesEnd
<1> HIDE DEF H
<1>2. ASSUME NEW c \in Controls
      PROVE  Ends(s \o H, c, next[c]) \/ (Silent(s \o H, c) /\ st[c] = next[c])
  <2>1. H \in Stream BY <1>1
  <2>2. CASE Ends(H, c, next[c]) BY <2>1, <2>2, EndsPut
  <2>3. CASE Silent(H, c) /\ next[c] = values[c]
    <3>1. Ends(s, c, values[c]) \/ (Silent(s, c) /\ st[c] = values[c]) BY DEF Leads
    <3> QED BY <2>1, <2>3, <3>1, EndsPut
  <2> QED BY <1>1, <2>2, <2>3
<1>3. Leads(st, s \o H, next) BY <1>2 DEF Leads
<1> QED BY <1>3 DEF H

LEMMA ReportAnswers ==
  ASSUME NEW values \in States, NEW next \in States,
         NEW s \in Stream, Answers(s, values)
  PROVE  LET report == ReportOf({c \in Controls : next[c] # values[c]}, next)
         IN  Halves(report) \in Stream => Answers(s \o Halves(report), next)
<1> DEFINE H == Halves(ReportOf({c \in Controls : next[c] # values[c]}, next))
<1>1. \A c \in Controls : Ends(H, c, next[c]) \/ (Silent(H, c) /\ next[c] = values[c])
  BY ChangesEnd
<1> HIDE DEF H
<1> SUFFICES ASSUME H \in Stream PROVE Answers(s \o H, next) BY DEF H
<1>2. \A c \in Controls : Ends(s \o H, c, next[c]) BY <1>1, EndsPut DEF Answers
<1>3. Len(s \o H) >= 2 /\ (s \o H)[2] = s[2]
  <2>1. /\ Len(s) \in Nat /\ Len(H) \in Nat /\ Len(s \o H) = Len(s) + Len(H)
        /\ \A i \in 1..Len(s) : (s \o H)[i] = s[i]
    BY Concat, Empty
  <2>2. Len(s) >= 2 BY DEF Answers
  <2> QED BY <2>1, <2>2
<1> QED BY <1>2, <1>3 DEF Answers

\* The answer to a query.
LEMMA AnswerAnswers ==
  ASSUME sdesc \in Descriptors, sdesc.present, sval \in States
  PROVE  Answers(Halves(<<Describe("descriptor", sdesc)>> \o ReportOf(Controls, sval)), sval)
<1> DEFINE m == Describe("descriptor", sdesc)
           report == ReportOf(Controls, sval)
           ms == <<m>> \o report
           H == Halves(ms)
<1>1. m \in Messages /\ m.type = "descriptor" BY MessageIs DEF Describe
<1>2. \A c \in Controls :
        \E k \in 1..Len(report) :
          /\ report[k] = Event(c, sval[c])
          /\ \A j \in 1..Len(report) :
               report[j].type = "event" /\ report[j].control = c => j = k
  <2>1. Controls \in SUBSET Controls OBVIOUS
  <2> QED BY <2>1, ReportEnds
<1>3. report \in Seq(Messages)
  <2>1. Controls \in SUBSET Controls OBVIOUS
  <2> QED BY <2>1, ReportIs
<1> HIDE DEF m, report
<1>4. /\ ms \in Seq(Messages) /\ Len(ms) = Len(report) + 1 /\ Len(report) \in Nat
      /\ ms[1] = m /\ \A i \in 1..Len(report) : ms[i + 1] = report[i]
  <2>1. <<m>> \in Seq(Messages) /\ Len(<<m>>) = 1 /\ <<m>>[1] = m BY <1>1, One
  <2>2. /\ <<m>> \o report \in Seq(Messages)
        /\ Len(<<m>> \o report) = Len(<<m>>) + Len(report)
        /\ \A i \in 1..(Len(<<m>>) + Len(report)) :
             (<<m>> \o report)[i] = IF i <= Len(<<m>>) THEN <<m>>[i] ELSE report[i - Len(<<m>>)]
    BY <1>3, <2>1, ConcatProperties
  <2>3. Len(report) \in Nat BY <1>3, LenProperties
  <2> QED BY <2>1, <2>2, <2>3
<1> HIDE DEF ms
<1>5. ASSUME NEW c \in Controls PROVE Ends(H, c, sval[c])
  <2>1. PICK k \in 1..Len(report) :
          /\ report[k] = Event(c, sval[c])
          /\ \A j \in 1..Len(report) :
               report[j].type = "event" /\ report[j].control = c => j = k
    BY <1>2
  <2>2. k + 1 \in 1..Len(ms) /\ ms[k + 1] = Event(c, sval[c]) BY <1>4, <2>1
  <2>3. ASSUME NEW j \in 1..Len(ms), ms[j].type = "event", ms[j].control = c
        PROVE  j = k + 1
    <3>1. j # 1 BY <1>1, <1>4, <2>3
    <3> DEFINE i == j - 1
    <3>2. i \in 1..Len(report) /\ i + 1 = j BY <1>4, <3>1
    <3> HIDE DEF i
    <3>3. report[i] = ms[j] BY <1>4, <3>2
    <3>4. i = k BY <2>1, <2>3, <3>2, <3>3
    <3> QED BY <3>2, <3>4
  <2> QED BY <1>4, <2>2, <2>3, EndsHalves
<1>6. Len(H) >= 2 /\ H[2].message.type # "event"
  <2>1. Len(H) = 2 * Len(ms) /\ \A i \in 1..Len(ms) : H[2 * i] = [message |-> ms[i], half |-> 2]
    BY <1>4, HalvesAre
  <2>2. 1 \in 1..Len(ms) /\ 2 * 1 = 2 BY <1>4
  <2>3. H[2] = [message |-> m, half |-> 2] BY <1>4, <2>1, <2>2
  <2> QED BY <1>1, <1>4, <2>1, <2>3
<1> QED BY <1>5, <1>6 DEF Answers, H, ms, report, m

\* The stream an answer leaves behind its descriptor.
LEMMA AnswersLeads ==
  ASSUME NEW st \in States, NEW values \in States, NEW c \in Stream,
         Good("up", c), Answers(c, values)
  PROVE  Leads(st, <<>> \o SubSeq(c, 3, Len(c)), values)
<1> DEFINE t == SubSeq(c, 3, Len(c))
<1>1. Len(c) \in Nat /\ Len(c) >= 2 BY Empty DEF Answers
<1>2. /\ t \in Stream /\ Len(t) = Len(c) - 2
      /\ \A i \in 1..(Len(c) - 2) : t[i] = c[i + 2]
      /\ c[1].half = 1
  BY <1>1, FirstMessage
<1> HIDE DEF t
<1>3. ASSUME NEW x \in Controls PROVE Ends(t, x, values[x])
  <2>1. PICK i \in 1..Len(c) : /\ EventAt(c, i, x) /\ c[i].message.value = values[x]
                               /\ \A j \in 1..Len(c) : EventAt(c, j, x) => j <= i
    BY DEF Answers, Ends
  <2>2. i # 1 /\ i # 2 BY <1>2, <2>1 DEF EventAt, Answers
  <2> DEFINE k == i - 2
  <2>3. k \in 1..Len(t) /\ k + 2 = i BY <1>1, <1>2, <2>2
  <2> HIDE DEF k
  <2>4. EventAt(t, k, x) /\ t[k].message.value = values[x]
    BY <1>1, <1>2, <2>1, <2>3 DEF EventAt
  <2>5. ASSUME NEW j \in 1..Len(t), EventAt(t, j, x) PROVE j <= k
    <3>1. j + 2 \in 1..Len(c) /\ EventAt(c, j + 2, x) BY <1>1, <1>2, <2>5 DEF EventAt
    <3>2. j + 2 <= k + 2 BY <2>1, <2>3, <3>1
    <3> QED BY <1>1, <1>2, <2>3, <3>2
  <2> QED BY <2>3, <2>4, <2>5 DEF Ends
<1>4. <<>> \o t = t BY <1>2, Empty
<1> QED BY <1>3, <1>4 DEF Leads, t
-----------------------------------------------------------------------------
(* Streams stay complete. *)

LEMMA LiveIs ==
  ASSUME IInv, LiveOK, NEW k \in Kinds, Live(k)
  PROVE  Listening(k, "events")
  BY DEF LiveOK, Live, Listening

\* A step that leaves a live stream and what it leads to alone.
LEMMA LiveKept ==
  ASSUME LiveOK, UNCHANGED sval,
         \A k \in Kinds : conn'[k].live => conn'[k].role = "events",
         conn'["event"].link = "up" /\ conn'["event"].live =>
           conn'["event"] = conn["event"] /\ UNCHANGED <<state, ebuf>>,
         conn'["new"].link = "up" /\ conn'["new"].live => conn'["new"] = conn["new"]
  PROVE  LiveOK'
<1>1. Live("event")' => Leads(state, ebuf \o conn["event"].chan, sval)'
  <2> SUFFICES ASSUME Live("event")' PROVE Leads(state, ebuf \o conn["event"].chan, sval)'
    OBVIOUS
  <2>1. conn'["event"] = conn["event"] /\ UNCHANGED <<state, ebuf>> BY DEF Live
  <2>2. Live("event") BY <2>1 DEF Live
  <2>3. Leads(state, ebuf \o conn["event"].chan, sval) BY <2>2 DEF LiveOK
  <2> QED BY <2>1, <2>3 DEF Leads, Ends, Silent, EventAt
<1>2. Live("new")' => Answers(conn["new"].chan, sval)'
  <2> SUFFICES ASSUME Live("new")' PROVE Answers(conn["new"].chan, sval)'
    OBVIOUS
  <2>1. conn'["new"] = conn["new"] BY DEF Live
  <2>2. Live("new") BY <2>1 DEF Live
  <2>3. Answers(conn["new"].chan, sval) BY <2>2 DEF LiveOK
  <2> QED BY <2>1, <2>3 DEF Answers, Ends, EventAt
<1> QED BY <1>1, <1>2 DEF LiveOK

LEMMA AnswerLive == ASSUME IInv, LiveOK, NEW k \in Kinds, Answer(k) PROVE LiveOK'
<1>1. TypeOK /\ PlaceOK BY DEF IInv
<1>2. conn \in [Kinds -> Channels] /\ sdesc \in Descriptors /\ sval \in States
  BY <1>1, Types DEF TypeOK
<1>3. UNCHANGED <<sval, state, ebuf>>
  BY DEF Answer, service, ServiceOnly, public
<1>4. \A j \in Kinds : conn[j].live => conn[j].role = "events" BY DEF LiveOK
<1>5. CASE /\ Listening(k, "query")
           /\ conn' = [conn EXCEPT ![k] =
                Answering("events", sdesc.present,
                          <<Describe("descriptor", sdesc)>> \o
                          IF sdesc.present THEN ReportOf(Controls, sval) ELSE <<>>)]
  <2> DEFINE ms == <<Describe("descriptor", sdesc)>> \o
                     IF sdesc.present THEN ReportOf(Controls, sval) ELSE <<>>
             c == Answering("events", sdesc.present, ms)
  <2>1. k = "new"
    <3>1. conn[k].role = "query" BY <1>5 DEF Listening
    <3> QED BY <1>1, <3>1, Kind DEF PlaceOK
  <2>2. /\ c.role = "events" /\ c.live = sdesc.present /\ c.chan = Halves(ms)
    BY DEF Answering, Channel
  <2>3. sdesc.present => Answers(Halves(ms), sval)
    <3> SUFFICES ASSUME sdesc.present PROVE Answers(Halves(ms), sval) OBVIOUS
    <3>1. ms = <<Describe("descriptor", sdesc)>> \o ReportOf(Controls, sval) OBVIOUS
    <3> HIDE DEF ms
    <3> QED BY <1>2, <3>1, AnswerAnswers
  <2>4. conn' = [conn EXCEPT ![k] = c] BY <1>5
  <2> HIDE DEF c, ms
  <2>5. /\ conn'["new"] = c /\ conn'["event"] = conn["event"]
        /\ conn'["monitor"] = conn["monitor"]
    BY <1>2, <2>1, <2>4, Kind
  <2>6. \A j \in Kinds : conn'[j].live => conn'[j].role = "events"
    BY <1>4, <2>2, <2>5, Kind
  <2>7. Live("event")' => Leads(state, ebuf \o conn["event"].chan, sval)'
    <3> SUFFICES ASSUME Live("event")' PROVE Leads(state, ebuf \o conn["event"].chan, sval)'
      OBVIOUS
    <3>1. Live("event") BY <2>5 DEF Live
    <3>2. Leads(state, ebuf \o conn["event"].chan, sval) BY <3>1 DEF LiveOK
    <3> QED BY <1>3, <2>5, <3>2 DEF Leads, Ends, Silent, EventAt
  <2>8. Live("new")' => Answers(conn["new"].chan, sval)'
    <3> SUFFICES ASSUME Live("new")' PROVE Answers(conn["new"].chan, sval)'
      OBVIOUS
    <3>1. sdesc.present BY <2>2, <2>5 DEF Live
    <3>2. Answers(Halves(ms), sval) BY <2>3, <3>1
    <3> QED BY <1>3, <2>2, <2>5, <3>2 DEF Answers, Ends, EventAt
  <2> QED BY <2>6, <2>7, <2>8 DEF LiveOK
<1>6. CASE /\ Listening(k, "ask")
           /\ conn' = [conn EXCEPT ![k] =
                Answering("hotplug", FALSE, <<Describe("hotplug", sdesc)>>)]
  <2> DEFINE c == Answering("hotplug", FALSE, <<Describe("hotplug", sdesc)>>)
  <2>1. k = "monitor"
    <3>1. conn[k].role = "ask" BY <1>6 DEF Listening
    <3> QED BY <1>1, <3>1, Kind DEF PlaceOK
  <2>2. c.live = FALSE BY DEF Answering, Channel
  <2>4. conn' = [conn EXCEPT ![k] = c] BY <1>6
  <2> HIDE DEF c
  <2>5. /\ conn'["new"] = conn["new"] /\ conn'["event"] = conn["event"]
        /\ conn'["monitor"] = c
    BY <1>2, <2>1, <2>4, Kind
  <2> QED BY <1>3, <1>4, <2>2, <2>5, Kind, LiveKept
<1> QED BY <1>5, <1>6 DEF Answer

LEMMA RemoveLive == ASSUME IInv, LiveOK, Remove PROVE LiveOK'
<1>1. \A k \in Kinds : conn[k] \in Channels BY Types DEF IInv
<1> DEFINE ms == <<Describe("hotplug", sdesc')>>
<1>2. conn' = [k \in Kinds |-> IF Listening(k, "hotplug") THEN Put(conn[k], ms)
                                                        ELSE Outdated(conn[k])]
  BY DEF Remove, Tell
<1>3. ms \in Seq(Messages)
  <2>1. sdesc \in Descriptors /\ sdesc' = [sdesc EXCEPT !.present = FALSE]
    BY DEF Remove, IInv, TypeOK
  <2>2. sdesc' \in Descriptors BY <2>1 DEF Descriptors
  <2> QED BY <2>2, HalvesOfHotplug
<1> HIDE DEF ms
<1>4. ASSUME NEW k \in Kinds PROVE conn'[k].live = FALSE
  <2>1. CASE Listening(k, "hotplug")
    <3>1. conn[k].role = "hotplug" /\ conn[k].live \in BOOLEAN
      BY <1>1, <2>1, ChannelHas DEF Listening
    <3>2. conn[k].live = FALSE BY <3>1 DEF LiveOK
    <3>3. conn'[k] = Put(conn[k], ms) BY <1>2, <2>1
    <3>4. Put(conn[k], ms).live = conn[k].live BY <1>1, <1>3, PutIs
    <3> QED BY <3>2, <3>3, <3>4
  <2>2. CASE ~Listening(k, "hotplug")
    <3>1. conn'[k] = Outdated(conn[k]) BY <1>2, <2>2
    <3>2. Outdated(conn[k]).live = FALSE BY <1>1, OutdatedIs
    <3> QED BY <3>1, <3>2
  <2> QED BY <2>1, <2>2
<1> QED BY <1>4, Kind DEF LiveOK, Live

LEMMA AddLive == ASSUME IInv, LiveOK, Add PROVE LiveOK'
<1>1. PlaceOK /\ \A k \in Kinds : conn[k] \in Channels BY Types DEF IInv
<1> DEFINE ms == <<Describe("hotplug", sdesc')>>
<1>2. /\ conn' = [k \in Kinds |-> IF Listening(k, "hotplug") THEN Put(conn[k], ms)
                                                           ELSE conn[k]]
      /\ UNCHANGED sval
  BY DEF Add, Tell
<1>3. ms \in Seq(Messages)
  <2>1. sdesc' \in Descriptors BY DEF Add, Descriptors
  <2> QED BY <2>1, HalvesOfHotplug
<1>4. UNCHANGED <<state, ebuf>> BY DEF Add, ServiceOnly, public
<1> HIDE DEF ms
<1>5. conn'["event"] = conn["event"] /\ conn'["new"] = conn["new"]
  <2>1. ~Listening("event", "hotplug") /\ ~Listening("new", "hotplug")
    BY <1>1 DEF PlaceOK, Listening
  <2> QED BY <1>2, <2>1, Kind
<1>6. conn'["monitor"].live = conn["monitor"].live /\ conn'["monitor"].role = conn["monitor"].role
  <2>1. CASE Listening("monitor", "hotplug")
    <3>1. conn'["monitor"] = Put(conn["monitor"], ms) BY <1>2, <2>1, Kind
    <3> QED BY <1>1, <1>3, <3>1, PutTo, Kind
  <2>2. CASE ~Listening("monitor", "hotplug") BY <1>2, <2>2, Kind
  <2> QED BY <2>1, <2>2
<1>7. \A k \in Kinds : conn'[k].live => conn'[k].role = "events"
  BY <1>5, <1>6, Kind DEF LiveOK
<1> QED BY <1>2, <1>4, <1>5, <1>7, LiveKept

LEMMA InputLive == ASSUME IInv, LiveOK, Input PROVE LiveOK'
<1>1. TypeOK /\ StreamsOK BY DEF IInv
<1>2. /\ \A k \in Kinds : conn[k] \in Channels /\ conn[k].chan \in Stream
      /\ ebuf \in Stream /\ state \in States /\ sval \in States
  BY <1>1, Types DEF TypeOK
<1>3. sval' \in States /\ UNCHANGED <<state, ebuf>> BY DEF Input, ServiceOnly, public
<1> DEFINE changed == {c \in Controls : sval'[c] # sval[c]}
           ms == ReportOf(changed, sval')
<1>4. ms \in Seq(Messages)
  <2>1. changed \in SUBSET Controls OBVIOUS
  <2> HIDE DEF changed
  <2> QED BY <1>3, <2>1, ReportIs
<1>5. conn' = [k \in Kinds |-> IF Listening(k, "events") THEN Put(conn[k], ms)
                                                       ELSE conn[k]]
  BY DEF Input, Tell
<1>6. /\ \A st \in States, s \in Stream :
           Leads(st, s, sval) => Leads(st, s \o Halves(ms), sval')
      /\ \A s \in Stream : Answers(s, sval) => Answers(s \o Halves(ms), sval')
  BY <1>2, <1>3, <1>4, HalvesAre, ReportLeads, ReportAnswers
<1> HIDE DEF ms
<1>7. ASSUME NEW k \in Kinds
      PROVE  /\ conn'[k].live = conn[k].live /\ conn'[k].role = conn[k].role
             /\ conn'[k].link = conn[k].link
             /\ Live(k) => conn'[k].chan = conn[k].chan \o Halves(ms)
  <2>1. CASE Listening(k, "events")
    <3>1. conn'[k] = Put(conn[k], ms) BY <1>5, <2>1
    <3> QED BY <1>2, <1>4, <3>1, PutTo
  <2>2. CASE ~Listening(k, "events") BY <1>5, <2>2, LiveIs
  <2> QED BY <2>1, <2>2
<1>8. Live("event")' => Leads(state, ebuf \o conn["event"].chan, sval)'
  <2> SUFFICES ASSUME Live("event")' PROVE Leads(state, ebuf \o conn["event"].chan, sval)'
    OBVIOUS
  <2> DEFINE s == ebuf \o conn["event"].chan
  <2>1. Live("event") BY <1>7, Kind DEF Live
  <2>2. conn["event"].link = "up" /\ conn["event"].chan \in Stream BY <1>2, <2>1, Kind DEF Live
  <2>3. s \in Stream /\ Leads(state, s, sval) BY <1>2, <2>1, <2>2, Concat DEF LiveOK
  <2>4. conn'["event"].chan = conn["event"].chan \o Halves(ms) BY <1>7, <2>1, Kind
  <2>5. ebuf \o conn'["event"].chan = s \o Halves(ms)
    <3>1. Good("up", ebuf \o conn["event"].chan) BY <1>1, <2>2 DEF StreamsOK
    <3>2. ebuf \o (conn["event"].chan \o Halves(ms)) = s \o Halves(ms)
      BY <1>2, <1>4, <2>2, <3>1, GoodPut
    <3> QED BY <2>4, <3>2
  <2> HIDE DEF s
  <2>6. Leads(state, s \o Halves(ms), sval') BY <1>2, <1>6, <2>3
  <2> QED BY <1>3, <2>5, <2>6
<1>9. Live("new")' => Answers(conn["new"].chan, sval)'
  <2> SUFFICES ASSUME Live("new")' PROVE Answers(conn["new"].chan, sval)'
    OBVIOUS
  <2>1. Live("new") BY <1>7, Kind DEF Live
  <2>2. Answers(conn["new"].chan, sval) BY <2>1 DEF LiveOK
  <2>3. conn'["new"].chan = conn["new"].chan \o Halves(ms) BY <1>7, <2>1, Kind
  <2>4. Answers(conn["new"].chan \o Halves(ms), sval') BY <1>2, <1>6, <2>2, Kind
  <2> QED BY <2>3, <2>4
<1>10. \A k \in Kinds : conn'[k].live => conn'[k].role = "events" BY <1>7 DEF LiveOK
<1> QED BY <1>8, <1>9, <1>10 DEF LiveOK

LEMMA ServiceLive == ASSUME IInv, LiveOK, Service PROVE LiveOK'
<1>1. conn \in [Kinds -> Channels] BY Types DEF IInv
<1>2. ASSUME NEW k \in Kinds, Cut(k) PROVE LiveOK'
  <2>1. UNCHANGED <<sval, state, ebuf>> BY <1>2 DEF Cut, ServiceOnly, public
  <2>2. PICK n \in 0..Len(conn[k].chan) :
          conn' = [conn EXCEPT ![k] = Channel("cut", conn[k].role, conn[k].live,
                                              SubSeq(conn[k].chan, 1, n))]
    BY <1>2 DEF Cut
  <2> DEFINE c == Channel("cut", conn[k].role, conn[k].live, SubSeq(conn[k].chan, 1, n))
  <2>3. c.link = "cut" /\ c.role = conn[k].role /\ c.live = conn[k].live BY DEF Channel
  <2>4. conn' = [conn EXCEPT ![k] = c] BY <2>2
  <2> HIDE DEF c
  <2>5. conn'[k] = c /\ \A j \in Kinds : j # k => conn'[j] = conn[j] BY <1>1, <2>4
  <2>6. \A j \in Kinds : conn'[j].live => conn'[j].role = "events"
    BY <2>3, <2>5 DEF LiveOK
  <2>7. \A j \in Kinds : conn'[j].link = "up" => conn'[j] = conn[j] BY <2>3, <2>5
  <2> QED BY <2>1, <2>6, <2>7, Kind, LiveKept
<1>3. ASSUME Exit PROVE LiveOK'
  <2>1. UNCHANGED <<sval, conn, state, ebuf>> BY <1>3 DEF Exit, ServiceOnly, public
  <2> QED BY <2>1, LiveKept DEF LiveOK
<1>4. ASSUME Start PROVE LiveOK'
  <2>1. UNCHANGED conn /\ \A k \in Kinds : conn[k].link # "up" BY <1>4 DEF Start
  <2> QED BY <2>1, Kind DEF LiveOK, Live
<1> QED BY <1>2, <1>3, <1>4, AnswerLive, RemoveLive, AddLive, InputLive DEF Service

\* A library step that keeps, closes or asks on each of its connections.
LEMMA LiveClosed ==
  ASSUME LiveOK, UNCHANGED sval,
         conn'["monitor"].live = conn["monitor"].live \/ conn'["monitor"].live = FALSE,
         conn'["monitor"].role = conn["monitor"].role \/ conn'["monitor"].live = FALSE,
         conn'["event"] = Closed \/ (conn'["event"] = conn["event"] /\ UNCHANGED <<state, ebuf>>),
         conn'["new"] \in {conn["new"], Closed, Connected("query")}
  PROVE  LiveOK'
<1>1. Closed.live = FALSE /\ Connected("query").live = FALSE BY FixedChannels
<1>2. \A k \in Kinds : conn'[k].live => conn'[k].role = "events"
  <2>1. conn'["monitor"].live => conn'["monitor"].role = "events" BY Kind DEF LiveOK
  <2>2. conn'["event"].live => conn'["event"].role = "events" BY <1>1, Kind DEF LiveOK
  <2>3. conn'["new"].live => conn'["new"].role = "events" BY <1>1, Kind DEF LiveOK
  <2> QED BY <2>1, <2>2, <2>3 DEF Kinds
<1>3. conn'["event"].live => conn'["event"] = conn["event"] /\ UNCHANGED <<state, ebuf>>
  BY <1>1
<1>4. conn'["new"].live => conn'["new"] = conn["new"] BY <1>1
<1> QED BY <1>2, <1>3, <1>4, LiveKept

LEMMA AppliedLive ==
  ASSUME IInv, LiveOK, UNCHANGED service,
         NEW message, NEW conns \in [Kinds -> Channels], NEW next,
         conns["event"] = conn["event"], conns["new"] = conn["new"],
         conns["monitor"].live = conn["monitor"].live,
         conns["monitor"].role = conn["monitor"].role,
         apply_hotplug(message, conns, next)
  PROVE  LiveOK'
<1>1. UNCHANGED sval BY DEF service
<1>2. CASE message.desc = descriptor
  <2>1. UNCHANGED <<state, ebuf>> /\ conn' = conns BY <1>2 DEF apply_hotplug
  <2> QED BY <1>1, <2>1, LiveClosed
<1>3. CASE message.desc # descriptor
  <2> DEFINE rest == [conns EXCEPT !["event"] = Closed]
  <2>1. conn' = rest \/ conn' = [rest EXCEPT !["new"] = Connected("query")]
    BY <1>3 DEF apply_hotplug, open_event_stream
  <2>2. /\ rest \in [Kinds -> Channels] /\ rest["event"] = Closed
        /\ rest["monitor"] = conns["monitor"] /\ rest["new"] = conn["new"]
    BY Kind, FixedChannels
  <2> HIDE DEF rest
  <2>3. /\ conn'["event"] = Closed /\ conn'["monitor"] = conns["monitor"]
        /\ conn'["new"] \in {conn["new"], Connected("query")}
    BY <2>1, <2>2, Kind
  <2> QED BY <1>1, <2>3, LiveClosed
<1> QED BY <1>2, <1>3

LEMMA MonitorLive ==
  ASSUME IInv, LiveOK,
         MonitorAnswered \/ RefreshReceive \/ RefreshLost \/ MonitorRefused
  PROVE  LiveOK'
<1>1. /\ conn \in [Kinds -> Channels] /\ conn["monitor"] \in Channels
      /\ conn["monitor"].chan \in Stream /\ mbuf \in Stream
  BY Types, Kind DEF IInv
<1> DEFINE conns(n) == [conn EXCEPT !["monitor"] = Skip(conn["monitor"], n)]
<1>2. ASSUME NEW n \in 1..Len(conn["monitor"].chan)
      PROVE  /\ conns(n) \in [Kinds -> Channels]
             /\ conns(n)["event"] = conn["event"] /\ conns(n)["new"] = conn["new"]
             /\ conns(n)["monitor"].live = conn["monitor"].live
             /\ conns(n)["monitor"].role = conn["monitor"].role
  <2>1. /\ Skip(conn["monitor"], n) \in Channels
        /\ Skip(conn["monitor"], n).live = conn["monitor"].live
        /\ Skip(conn["monitor"], n).role = conn["monitor"].role
    BY <1>1, SkipIs
  <2>2. conns(n)["monitor"] = Skip(conn["monitor"], n) BY <1>1, Kind
  <2> QED BY <1>1, <2>1, <2>2, Kind
<1>3. CASE MonitorAnswered
  <2>1. /\ Len(conn["monitor"].chan) >= 2 /\ UNCHANGED service
        /\ apply_hotplug(conn["monitor"].chan[1].message, conns(2), "return")
    BY <1>3 DEF MonitorAnswered, Answered
  <2>2. 2 \in 1..Len(conn["monitor"].chan) BY <1>1, <2>1, Empty
  <2> HIDE DEF conns
  <2> QED BY <1>2, <2>1, <2>2, AppliedLive
<1>4. CASE RefreshReceive
  <2> DEFINE received(n) == mbuf \o SubSeq(conn["monitor"].chan, 1, n)
  <2>1. PICK n \in Chunks("monitor", mbuf) :
          IF Len(received(n)) = 2
            THEN apply_hotplug(received(n)[1].message, conns(n), "refresh")
            ELSE conn' = conns(n) /\ UNCHANGED <<state, ebuf>>
    BY <1>4 DEF RefreshReceive
  <2>2. n \in 1..Len(conn["monitor"].chan) BY <1>1, Empty DEF Chunks
  <2>3. UNCHANGED service BY <1>4 DEF RefreshReceive
  <2> HIDE DEF received, conns
  <2>4. CASE Len(received(n)) = 2
    BY <1>2, <2>1, <2>2, <2>3, <2>4, AppliedLive
  <2>5. CASE Len(received(n)) # 2
    BY <1>2, <2>1, <2>2, <2>3, <2>5, LiveClosed DEF service
  <2> QED BY <2>4, <2>5
<1>5. CASE RefreshLost \/ MonitorRefused
  <2>1. UNCHANGED sval BY <1>5 DEF RefreshLost, MonitorRefused, service
  <2>2. \/ conn' = [conn EXCEPT !["monitor"] = Closed] /\ UNCHANGED <<state, ebuf>>
        \/ conn' = [conn EXCEPT !["monitor"] = Closed, !["event"] = Closed]
    BY <1>5 DEF RefreshLost, MonitorRefused, public
  <2>3. /\ conn'["monitor"] = Closed /\ conn'["new"] = conn["new"]
        /\ conn'["event"] = Closed \/ (conn'["event"] = conn["event"] /\ UNCHANGED <<state, ebuf>>)
    BY <1>1, <2>2, Kind
  <2> QED BY <2>1, <2>3, FixedChannels, LiveClosed
<1> QED BY <1>3, <1>4, <1>5

LEMMA StreamLive ==
  ASSUME IInv, LiveOK, StreamAnswered \/ StreamRefused
  PROVE  LiveOK'
<1>1. TypeOK /\ StreamsOK BY DEF IInv
<1>2. /\ conn \in [Kinds -> Channels] /\ conn["new"] \in Channels
      /\ conn["new"].chan \in Stream /\ sval \in States
  BY <1>1, Types, Kind DEF TypeOK
<1>3. UNCHANGED sval BY DEF StreamAnswered, StreamRefused, service
<1>4. CASE conn' = [conn EXCEPT !["new"] = Closed] /\ UNCHANGED <<state, ebuf>>
  <2>1. /\ conn'["new"] = Closed /\ conn'["event"] = conn["event"]
        /\ conn'["monitor"] = conn["monitor"]
    BY <1>2, <1>4, Kind
  <2> QED BY <1>3, <1>4, <2>1, LiveClosed
<1>5. CASE /\ state' = Neutral /\ ebuf' = <<>> /\ Len(conn["new"].chan) >= 2
           /\ conn' = [conn EXCEPT !["event"] = Skip(conn["new"], 2), !["new"] = Closed]
  <2> DEFINE c == conn["new"].chan
             e == Skip(conn["new"], 2)
  <2>1. 2 \in 1..Len(c) BY <1>2, <1>5, Empty
  <2>2. /\ e \in Channels /\ e.link = conn["new"].link /\ e.role = conn["new"].role
        /\ e.live = conn["new"].live /\ e.chan = SubSeq(c, 3, Len(c))
    BY <1>2, <2>1, SkipIs
  <2> HIDE DEF e
  <2>3. /\ conn'["event"] = e /\ conn'["new"] = Closed /\ conn'["monitor"] = conn["monitor"]
    <3>1. conn' = [conn EXCEPT !["event"] = e, !["new"] = Closed] BY <1>5 DEF e
    <3> QED BY <1>2, <3>1, Kind
  <2>4. \A k \in Kinds : conn'[k].live => conn'[k].role = "events"
    <3>1. e.live => e.role = "events" BY <2>2, Kind DEF LiveOK
    <3>2. Closed.live = FALSE BY FixedChannels
    <3>3. conn["monitor"].live => conn["monitor"].role = "events" BY Kind DEF LiveOK
    <3> QED BY <2>3, <3>1, <3>2, <3>3 DEF Kinds
  <2>5. Live("event")' => Leads(state, ebuf \o conn["event"].chan, sval)'
    <3> SUFFICES ASSUME Live("event")' PROVE Leads(state, ebuf \o conn["event"].chan, sval)'
      OBVIOUS
    <3>1. conn["new"].link = "up" /\ conn["new"].live BY <2>2, <2>3 DEF Live
    <3>2. Answers(c, sval) BY <3>1 DEF LiveOK, Live
    <3>3. Good("up", c) BY <1>1, <3>1 DEF StreamsOK
    <3>4. Leads(Neutral, <<>> \o SubSeq(c, 3, Len(c)), sval)
      BY <1>2, <3>2, <3>3, NeutralIs, AnswersLeads
    <3> HIDE DEF c
    <3> QED BY <1>3, <1>5, <2>2, <2>3, <3>4
  <2>6. ~Live("new")' BY <2>3, FixedChannels DEF Live
  <2> QED BY <2>4, <2>5, <2>6 DEF LiveOK
<1>6. CASE StreamRefused
  <2>1. conn' = [conn EXCEPT !["new"] = Closed] /\ UNCHANGED <<state, ebuf>>
    BY <1>6 DEF StreamRefused, public
  <2> QED BY <1>4, <2>1
<1>7. CASE StreamAnswered
  <2>1. \/ UNCHANGED <<state, ebuf>> /\ conn' = [conn EXCEPT !["new"] = Closed]
        \/ /\ state' = Neutral /\ ebuf' = <<>> /\ Len(conn["new"].chan) >= 2
           /\ conn' = [conn EXCEPT !["event"] = Skip(conn["new"], 2), !["new"] = Closed]
    BY <1>7 DEF StreamAnswered, Answered, close_event_stream
  <2> QED BY <1>4, <1>5, <2>1
<1> QED BY <1>6, <1>7

LEMMA EventsReceiveLive == ASSUME IInv, LiveOK, EventsReceive PROVE LiveOK'
<1>1. TypeOK /\ StreamsOK BY DEF IInv
<1> DEFINE c == conn["event"].chan
           received(n) == ebuf \o SubSeq(c, 1, n)
<1>2. PICK n \in Chunks("event", ebuf) :
        /\ conn' = [conn EXCEPT !["event"] = Skip(conn["event"], n)]
        /\ IF Len(received(n)) = 2
             THEN /\ state' = process_event(state, received(n)[1].message)
                  /\ ebuf' = <<>>
             ELSE ebuf' = received(n) /\ UNCHANGED state
  BY DEF EventsReceive
<1>3. /\ conn \in [Kinds -> Channels] /\ conn["event"] \in Channels /\ c \in Stream
      /\ ebuf \in Stream /\ state \in States /\ sval \in States
  BY <1>1, Types, Kind DEF TypeOK
<1>4. n \in 1..Len(c) /\ UNCHANGED sval
  BY <1>3, Empty DEF Chunks, EventsReceive, service
<1> DEFINE r == received(n)
           t == SubSeq(c, n + 1, Len(c))
<1>5. /\ conn'["monitor"] = conn["monitor"] /\ conn'["new"] = conn["new"]
      /\ conn'["event"].link = conn["event"].link /\ conn'["event"].role = conn["event"].role
      /\ conn'["event"].live = conn["event"].live /\ conn'["event"].chan = t
  BY <1>2, <1>3, <1>4, SkipIs, Kind
<1>6. r \in Stream /\ t \in Stream /\ r \o t = ebuf \o c BY <1>3, <1>4, Take
<1>7. \A k \in Kinds : conn'[k].live => conn'[k].role = "events"
  BY <1>5, Kind DEF LiveOK
<1>8. Live("new")' => Answers(conn["new"].chan, sval)'
  <2> SUFFICES ASSUME Live("new")' PROVE Answers(conn["new"].chan, sval)'
    OBVIOUS
  <2>1. Answers(conn["new"].chan, sval) BY <1>5 DEF LiveOK, Live
  <2> QED BY <1>4, <1>5, <2>1
<1>9. Live("event")' => Leads(state, ebuf \o conn["event"].chan, sval)'
  <2> SUFFICES ASSUME Live("event")' PROVE Leads(state, ebuf \o conn["event"].chan, sval)'
    OBVIOUS
  <2>1. Live("event") BY <1>5 DEF Live
  <2>2. Leads(state, r \o t, sval)
    <3>1. Leads(state, ebuf \o c, sval) BY <2>1 DEF LiveOK
    <3> HIDE DEF r, t, c
    <3> QED BY <1>6, <3>1
  <2>3. CASE Len(r) = 2
    <3>1. state' = process_event(state, r[1].message) /\ ebuf' = <<>> BY <1>2, <2>3
    <3>2. Good(conn["event"].link, r \o t) BY <1>1, <1>6 DEF StreamsOK
    <3> HIDE DEF r, t, c
    <3>0. r \in Stream /\ t \in Stream BY <1>6
    <3>3. /\ r[1] \in Items /\ r[1].message = r[2].message
          /\ r[1].half = 1 /\ r[2].half = 2
      BY <2>3, <3>0, <3>2, GoodDrop
    <3>4. r[1].message \in Messages BY <3>3 DEF Items
    <3>5. Leads(process_event(state, r[1].message), t, sval)
      BY <1>3, <1>6, <2>2, <2>3, <3>3, <3>4, EndsTake
    <3>6. <<>> \o t = t BY <1>6, Empty
    <3> QED BY <1>4, <1>5, <3>1, <3>5, <3>6
  <2>4. CASE Len(r) # 2
    <3>1. ebuf' = r /\ UNCHANGED state BY <1>2, <2>4
    <3> HIDE DEF r, t, c
    <3> QED BY <1>4, <1>5, <2>2, <3>1
  <2> QED BY <2>3, <2>4
<1> QED BY <1>7, <1>8, <1>9 DEF LiveOK

LEMMA NextLive == IInv /\ LiveOK /\ [Next]_vars => LiveOK'
<1> SUFFICES ASSUME IInv, LiveOK, [Next]_vars PROVE LiveOK' OBVIOUS
<1>1. conn \in [Kinds -> Channels] BY Types DEF IInv
<1>2. CASE \/ RefreshDrained \/ EventsDrained \/ UNCHANGED vars
           \/ \E k \in {"refresh", "update"} : Call(k)
  <2>1. UNCHANGED <<sval, conn, state, ebuf>>
    BY <1>2 DEF RefreshDrained, EventsDrained, Call, vars, service, public
  <2> QED BY <2>1, LiveClosed
<1>3. CASE OpenMonitor
  <2>1. UNCHANGED <<sval, state, ebuf>> BY <1>3 DEF OpenMonitor, service, public
  <2>2. conn' = conn \/ conn' = [conn EXCEPT !["monitor"] = Connected("ask")]
    BY <1>3 DEF OpenMonitor
  <2>3. /\ conn'["event"] = conn["event"] /\ conn'["new"] = conn["new"]
        /\ conn'["monitor"] \in {conn["monitor"], Connected("ask")}
    BY <1>1, <2>2, Kind
  <2> QED BY <2>1, <2>3, FixedChannels, LiveClosed
<1>4. CASE Update
  <2>1. UNCHANGED <<sval, state, ebuf>> BY <1>4 DEF Update, service, public
  <2>2. conn' = conn \/ conn' = [conn EXCEPT !["new"] = Connected("query")]
    BY <1>4 DEF Update, open_event_stream
  <2>3. /\ conn'["event"] = conn["event"] /\ conn'["monitor"] = conn["monitor"]
        /\ conn'["new"] \in {conn["new"], Connected("query")}
    BY <1>1, <2>2, Kind
  <2> QED BY <2>1, <2>3, LiveClosed
<1>5. CASE EventsLost
  <2>1. UNCHANGED sval /\ conn' = [conn EXCEPT !["event"] = Closed]
    BY <1>5 DEF EventsLost, service
  <2>2. /\ conn'["event"] = Closed /\ conn'["monitor"] = conn["monitor"]
        /\ conn'["new"] = conn["new"]
    BY <1>1, <2>1, Kind
  <2> QED BY <2>1, <2>2, LiveClosed
<1>6. CASE Service BY <1>6, ServiceLive
<1>7. CASE \/ MonitorAnswered \/ RefreshReceive \/ RefreshLost \/ MonitorRefused
  BY <1>7, MonitorLive
<1>8. CASE StreamAnswered \/ StreamRefused BY <1>8, StreamLive
<1>9. CASE EventsReceive BY <1>9, EventsReceiveLive
<1> QED BY <1>2, <1>3, <1>4, <1>5, <1>6, <1>7, <1>8, <1>9 DEF Next, LibStep

LEMMA InitLive == Init => LiveOK
<1> SUFFICES ASSUME Init PROVE LiveOK OBVIOUS
<1>1. \A k \in Kinds : conn[k] = Closed BY DEF Init
<1> QED BY <1>1, FixedChannels, Kind DEF LiveOK, Live
-----------------------------------------------------------------------------
(* The service that the bridge keeps to. *)

\* The greatest of a set of places in a stream.
LEMMA LastOf ==
  ASSUME NEW n \in Nat, NEW S \in SUBSET (1..n), S # {}
  PROVE  \E i \in S : \A j \in S : j <= i
<1> DEFINE T == {n - i : i \in S}
<1>1. T \subseteq Nat /\ T # {}
  <2>1. \A i \in S : n - i \in Nat OBVIOUS
  <2> QED BY <2>1
<1>2. PICK t \in T : \A u \in T : ~(<<u, t>> \in OpToRel(<, Nat))
  BY <1>1, NatLessThanWellFounded, WFMin
<1>3. \A u \in T : ~(u < t) BY <1>1, <1>2 DEF OpToRel
<1>4. PICK i \in S : t = n - i BY <1>2
<1>5. ASSUME NEW j \in S PROVE j <= i
  <2>1. ~(n - j < n - i) BY <1>3, <1>4
  <2> QED BY <2>1
<1> QED BY <1>5

\* A stream leads to what it says when it is drained.
LEMMA DrainedLeads ==
  ASSUME NEW st \in States, NEW s \in Stream
  PROVE  Drained(st, s) \in States /\ Leads(st, s, Drained(st, s))
<1> DEFINE ends(c) == {i \in 1..Len(s) : /\ s[i].half = 2
                                         /\ s[i].message.type = "event"
                                         /\ s[i].message.control = c}
           final(c) == IF ends(c) = {} THEN st[c]
                       ELSE s[CHOOSE i \in ends(c) : \A j \in ends(c) : j <= i].message.value
<1>0. Len(s) \in Nat BY Empty
<1>1. ASSUME NEW c \in Controls
      PROVE  /\ Ends(s, c, final(c)) \/ (Silent(s, c) /\ st[c] = final(c))
             /\ final(c) \in Values
  <2> DEFINE e == ends(c)
             m == CHOOSE i \in e : \A j \in e : j <= i
  <2>1. \A i : i \in e <=> i \in 1..Len(s) /\ EventAt(s, i, c) BY DEF EventAt
  <2>2. final(c) = IF e = {} THEN st[c] ELSE s[m].message.value OBVIOUS
  <2>3. e \in SUBSET (1..Len(s)) OBVIOUS
  <2> HIDE DEF e, ends, final
  <2>4. CASE e = {}
    <3>1. Silent(s, c) BY <2>1, <2>4 DEF Silent
    <3>2. st[c] \in Values BY DEF States
    <3> QED BY <2>2, <2>4, <3>1, <3>2
  <2>5. CASE e # {}
    <3>1. \E i \in e : \A j \in e : j <= i BY <1>0, <2>3, <2>5, LastOf
    <3>2. m \in e /\ \A j \in e : j <= m BY <3>1
    <3> HIDE DEF m
    <3>3. m \in 1..Len(s) /\ EventAt(s, m, c) BY <2>1, <3>2
    <3>4. \A j \in 1..Len(s) : EventAt(s, j, c) => j <= m BY <2>1, <3>2
    <3>5. Ends(s, c, s[m].message.value) BY <3>3, <3>4 DEF Ends
    <3>6. s[m].message.value \in Values
      <4>1. s[m] \in Items BY <3>3, ElementOfSeq DEF Stream, Items
      <4>2. s[m].message \in Messages BY <4>1 DEF Items
      <4> QED BY <3>3, <4>2, Contents DEF EventAt
    <3> QED BY <2>2, <2>5, <3>5, <3>6
  <2> QED BY <2>4, <2>5
<1>2. Drained(st, s) = [c \in Controls |-> final(c)] BY DEF Drained
<1> HIDE DEF final
<1>3. Drained(st, s) \in States BY <1>1, <1>2 DEF States
<1>4. \A c \in Controls : Drained(st, s)[c] = final(c) BY <1>2
<1>5. Leads(st, s, Drained(st, s)) BY <1>1, <1>4 DEF Leads
<1> QED BY <1>3, <1>5

\* A report of some controls.
LEMMA ReportSays ==
  ASSUME NEW S \in SUBSET Controls, NEW values \in States
  PROVE  LET H == Halves(ReportOf(S, values))
         IN  /\ H \in Stream
             /\ \A c \in Controls : /\ c \in S => Ends(H, c, values[c])
                                    /\ c \notin S => Silent(H, c)
             /\ \A i \in 1..Len(H) : H[i].message.type = "event" => H[i].message.control \in S
<1> DEFINE R == ReportOf(S, values)
<1>1. /\ R \in Seq(Messages) /\ Len(R) = Cardinality(S) + 1
      /\ \A i \in 1..Cardinality(S) : R[i] = Event(InOrder(S)[i], values[InOrder(S)[i]])
      /\ R[Cardinality(S) + 1] = Syn
  BY ReportIs
<1>2. Cardinality(S) \in Nat /\ InOrder(S) \in [1..Cardinality(S) -> S] BY InOrderIs
<1>3. ASSUME NEW c \in Controls
      PROVE  /\ c \in S =>
                  \E k \in 1..Len(R) :
                    /\ R[k] = Event(c, values[c])
                    /\ \A j \in 1..Len(R) : R[j].type = "event" /\ R[j].control = c => j = k
             /\ c \notin S =>
                  \A j \in 1..Len(R) : ~(R[j].type = "event" /\ R[j].control = c)
  BY ReportEnds
<1> HIDE DEF R
<1>4. ASSUME NEW k \in 1..Len(R), R[k].type = "event" PROVE R[k].control \in S
  <2>1. k # Cardinality(S) + 1 BY <1>1, <1>4 DEF Syn
  <2>2. k \in 1..Cardinality(S) BY <1>1, <1>2, <2>1
  <2>3. R[k] = Event(InOrder(S)[k], values[InOrder(S)[k]]) BY <1>1, <2>2
  <2>4. R[k].control = InOrder(S)[k] BY <2>3 DEF Event
  <2>5. InOrder(S)[k] \in S BY <1>2, <2>2
  <2> QED BY <2>4, <2>5
<1>5. /\ Halves(R) \in Stream /\ Len(Halves(R)) = 2 * Len(R) /\ Len(R) \in Nat
      /\ \A i \in 1..Len(R) : /\ Halves(R)[2 * i - 1] = [message |-> R[i], half |-> 1]
                              /\ Halves(R)[2 * i] = [message |-> R[i], half |-> 2]
  BY <1>1, HalvesAre, LenProperties
<1>6. ASSUME NEW i \in 1..Len(Halves(R)), Halves(R)[i].message.type = "event"
      PROVE  Halves(R)[i].message.control \in S
  <2> DEFINE k == (i + 1) \div 2
  <2>1. k \in 1..Len(R) /\ (i = 2 * k - 1 \/ i = 2 * k) BY <1>5
  <2> HIDE DEF k
  <2>2. Halves(R)[i].message = R[k]
    <3>1. Halves(R)[i] \in {[message |-> R[k], half |-> 1], [message |-> R[k], half |-> 2]}
      BY <1>5, <2>1
    <3> QED BY <3>1
  <2> QED BY <1>4, <1>6, <2>1, <2>2
<1>7. \A c \in Controls : /\ c \in S => Ends(Halves(R), c, values[c])
                          /\ c \notin S => Silent(Halves(R), c)
  BY <1>1, <1>3, EndsHalves
<1> QED BY <1>5, <1>6, <1>7 DEF R

\* The controls a stream tells of.
ToldIn(s) == {s[i].message.control : i \in {i \in DOMAIN s : s[i].message.type = "event"}}

LEMMA ToldIs ==
  ASSUME NEW s \in Stream
  PROVE  /\ \A c : c \in ToldIn(s) <=>
               \E i \in 1..Len(s) : s[i].message.type = "event" /\ s[i].message.control = c
         /\ ToldIn(s) \in SUBSET Controls
<1>1. DOMAIN s = 1..Len(s) BY LenProperties DEF Stream
<1>2. \A c : c \in ToldIn(s) <=>
        \E i \in 1..Len(s) : s[i].message.type = "event" /\ s[i].message.control = c
  BY <1>1 DEF ToldIn
<1>3. ASSUME NEW i \in 1..Len(s), s[i].message.type = "event"
      PROVE  s[i].message.control \in Controls
  <2>1. s[i] \in Items BY ElementOfSeq DEF Stream, Items
  <2>2. s[i].message \in Messages BY <2>1 DEF Items
  <2> QED BY <1>3, <2>2, Contents
<1> QED BY <1>2, <1>3

LEMMA EndsTold ==
  ASSUME NEW s \in Stream, NEW c, NEW v, Ends(s, c, v)
  PROVE  c \in ToldIn(s)
BY ToldIs DEF Ends, EventAt

LEMMA ToldPut ==
  ASSUME NEW s \in Stream, NEW S \in SUBSET Controls, NEW values \in States
  PROVE  ToldIn(s \o Halves(ReportOf(S, values))) = ToldIn(s) \union S
<1> DEFINE H == Halves(ReportOf(S, values))
<1>1. /\ H \in Stream
      /\ \A c \in S : Ends(H, c, values[c])
      /\ \A i \in 1..Len(H) : H[i].message.type = "event" => H[i].message.control \in S
  BY ReportSays
<1> HIDE DEF H
<1> DEFINE u == s \o H
<1>2. /\ u \in Stream /\ Len(u) = Len(s) + Len(H) /\ Len(s) \in Nat /\ Len(H) \in Nat
      /\ \A i \in 1..Len(s) : u[i] = s[i]
      /\ \A i \in 1..Len(H) : u[i + Len(s)] = H[i]
      /\ \A i \in (Len(s) + 1)..(Len(s) + Len(H)) : u[i] = H[i - Len(s)]
  BY <1>1, Concat, Empty
<1> HIDE DEF u
<1>3. ASSUME NEW c \in ToldIn(u) PROVE c \in ToldIn(s) \union S
  <2>1. PICK i \in 1..Len(u) : u[i].message.type = "event" /\ u[i].message.control = c
    BY <1>2, ToldIs
  <2>2. CASE i <= Len(s)
    <3>1. i \in 1..Len(s) BY <1>2, <2>2
    <3> QED BY <1>2, <2>1, <3>1, ToldIs
  <2>3. CASE i > Len(s)
    <3>1. i \in (Len(s) + 1)..(Len(s) + Len(H)) /\ i - Len(s) \in 1..Len(H) BY <1>2, <2>3
    <3>2. u[i] = H[i - Len(s)] BY <1>2, <3>1
    <3> QED BY <1>1, <2>1, <3>1, <3>2
  <2> QED BY <1>2, <2>2, <2>3
<1>4. ASSUME NEW c \in ToldIn(s) PROVE c \in ToldIn(u)
  <2>1. PICK i \in 1..Len(s) : s[i].message.type = "event" /\ s[i].message.control = c
    BY ToldIs
  <2>2. i \in 1..Len(u) /\ u[i] = s[i] BY <1>2
  <2> QED BY <1>2, <2>1, <2>2, ToldIs
<1>5. ASSUME NEW c \in S PROVE c \in ToldIn(u)
  <2>1. c \in ToldIn(H) BY <1>1, EndsTold
  <2>2. PICK i \in 1..Len(H) : H[i].message.type = "event" /\ H[i].message.control = c
    BY <1>1, <2>1, ToldIs
  <2>3. i + Len(s) \in 1..Len(u) /\ u[i + Len(s)] = H[i] BY <1>2
  <2> QED BY <1>2, <2>2, <2>3, ToldIs
<1> QED BY <1>3, <1>4, <1>5 DEF u, H

\* What a reader has when a report is put behind its stream.
Moved(values, S, next) == [c \in Controls |-> IF c \in S THEN next[c] ELSE values[c]]

LEMMA DrainedPut ==
  ASSUME NEW st \in States, NEW s \in Stream, NEW S \in SUBSET Controls, NEW next \in States
  PROVE  Drained(st, s \o Halves(ReportOf(S, next))) = Moved(Drained(st, s), S, next)
<1> DEFINE H == Halves(ReportOf(S, next))
           D == Drained(st, s)
           M == Moved(D, S, next)
<1>1. D \in States /\ Leads(st, s, D) BY DrainedLeads
<1>2. /\ H \in Stream
      /\ \A c \in Controls : /\ c \in S => Ends(H, c, next[c])
                             /\ c \notin S => Silent(H, c)
  BY ReportSays
<1> HIDE DEF D, H
<1>3. M \in States /\ \A c \in Controls : M[c] = IF c \in S THEN next[c] ELSE D[c]
  BY <1>1 DEF Moved, States
<1> HIDE DEF M
<1>4. ASSUME NEW c \in Controls
      PROVE  Ends(s \o H, c, M[c]) \/ (Silent(s \o H, c) /\ st[c] = M[c])
  <2>1. CASE c \in S
    <3>1. Ends(H, c, M[c]) BY <1>2, <1>3, <2>1
    <3> QED BY <1>2, <3>1, EndsPut
  <2>2. CASE c \notin S
    <3>1. Silent(H, c) /\ M[c] = D[c] BY <1>2, <1>3, <2>2
    <3>2. Ends(s, c, D[c]) \/ (Silent(s, c) /\ st[c] = D[c]) BY <1>1 DEF Leads
    <3> QED BY <1>2, <3>1, <3>2, EndsPut
  <2> QED BY <2>1, <2>2
<1>5. Leads(st, s \o H, M) BY <1>4 DEF Leads
<1>6. s \o H \in Stream BY <1>2, Concat
<1>7. Drained(st, s \o H) = M BY <1>3, <1>5, <1>6, LeadsIsDrained
<1> QED BY <1>7 DEF H, M, D

\* A message that is taken from the stream and applied changes nothing of it.
LEMMA DrainedTake ==
  ASSUME NEW st \in States, NEW r \in Stream, NEW t \in Stream, Len(r) = 2,
         r[1].message = r[2].message, r[1].half = 1, r[2].half = 2,
         r[1].message \in Messages
  PROVE  Drained(process_event(st, r[1].message), t) = Drained(st, r \o t)
<1> DEFINE D == Drained(st, r \o t)
<1>1. r \o t \in Stream BY Concat
<1>2. D \in States /\ Leads(st, r \o t, D) BY <1>1, DrainedLeads
<1> HIDE DEF D
<1>3. Leads(process_event(st, r[1].message), t, D) BY <1>2, EndsTake
<1>4. process_event(st, r[1].message) \in States BY ProcessIs
<1>5. Drained(process_event(st, r[1].message), t) = D
  BY <1>2, <1>3, <1>4, LeadsIsDrained
<1> QED BY <1>5 DEF D

\* A stream that began with the descriptor of a device and its snapshot.
Began(s) ==
  /\ Len(s) >= 2 /\ s[2].message.type # "event"
  /\ \A c \in Controls : \E v : Ends(s, c, v)

LEMMA BeganPut ==
  ASSUME NEW s \in Stream, NEW S \in SUBSET Controls, NEW next \in States, Began(s)
  PROVE  Began(s \o Halves(ReportOf(S, next)))
<1> DEFINE H == Halves(ReportOf(S, next))
<1>1. /\ H \in Stream
      /\ \A c \in Controls : /\ c \in S => Ends(H, c, next[c])
                             /\ c \notin S => Silent(H, c)
  BY ReportSays
<1> HIDE DEF H
<1>2. ASSUME NEW c \in Controls PROVE \E v : Ends(s \o H, c, v)
  <2>1. PICK v : Ends(s, c, v) BY DEF Began
  <2> QED BY <1>1, <2>1, EndsPut
<1>3. Len(s \o H) >= 2 /\ (s \o H)[2] = s[2]
  <2>1. /\ Len(s) \in Nat /\ Len(H) \in Nat /\ Len(s \o H) = Len(s) + Len(H)
        /\ \A i \in 1..Len(s) : (s \o H)[i] = s[i]
    BY <1>1, Concat, Empty
  <2>2. Len(s) >= 2 BY DEF Began
  <2> QED BY <2>1, <2>2
<1> QED BY <1>2, <1>3 DEF Began, H

LEMMA BeganAll ==
  ASSUME NEW s \in Stream, Began(s)
  PROVE  ToldIn(s) = Controls
<1>1. ToldIn(s) \subseteq Controls BY ToldIs
<1>2. ASSUME NEW c \in Controls PROVE c \in ToldIn(s)
  <2>1. PICK v : Ends(s, c, v) BY DEF Began
  <2> QED BY <2>1, EndsTold
<1> QED BY <1>1, <1>2

\* The stream goes on where its answer ends.
LEMMA BeganDrained ==
  ASSUME NEW st \in States, NEW s \in Stream, Good("up", s), Began(s), NEW st2 \in States
  PROVE  Drained(st2, <<>> \o SubSeq(s, 3, Len(s))) = Drained(st, s)
<1> DEFINE D == Drained(st, s)
           t == SubSeq(s, 3, Len(s))
<1>1. D \in States /\ Leads(st, s, D) BY DrainedLeads
<1>2. Len(s) >= 2 /\ Len(s) \in Nat BY Empty DEF Began
<1>3. t \in Stream BY <1>2, FirstMessage
<1> HIDE DEF D
<1>4. ASSUME NEW c \in Controls PROVE Ends(s, c, D[c])
  <2>1. PICK v : Ends(s, c, v) BY DEF Began
  <2>2. ~Silent(s, c) BY <2>1 DEF Ends, Silent
  <2> QED BY <1>1, <2>2 DEF Leads
<1>5. Answers(s, D) BY <1>4 DEF Answers, Began
<1>6. Leads(st2, <<>> \o t, D) BY <1>1, <1>5, AnswersLeads
<1>7. <<>> \o t \in Stream BY <1>3, Empty
<1> HIDE DEF t
<1>8. Drained(st2, <<>> \o t) = D BY <1>1, <1>6, <1>7, LeadsIsDrained
<1> QED BY <1>8 DEF D, t

LEMMA CodesOfPairs ==
  ASSUME NEW f
  PROVE  Bridge!CodesIn(Pairs(f)) = DOMAIN f
<1>1. \A c : <<c, f[c]>>[1] = c OBVIOUS
<1> QED BY <1>1 DEF Bridge!CodesIn, Pairs

LEMMA PairsPicture == ASSUME NEW values \in States PROVE Bridge!IsPicture(Pairs(values))
<1>1. DOMAIN values = Controls /\ DOMAIN Neutral = Controls BY DEF States, Neutral
<1>2. \A p, q \in Pairs(values) : p[1] = q[1] => p = q BY DEF Pairs
<1> QED BY <1>1, <1>2, CodesOfPairs DEF Bridge!IsPicture

\* What a report adds to what is known is what the service says.
LEMMA PairsMoved ==
  ASSUME NEW told \in SUBSET Controls, NEW values \in States,
         NEW old \in States, NEW next \in States
  PROVE  LET S == {c \in Controls : next[c] # old[c]}
         IN  Bridge!Updated(Pairs([c \in told |-> values[c]]), Pairs(next) \ Pairs(old))
               = Pairs([c \in told \union S |-> Moved(values, S, next)[c]])
<1> DEFINE S == {c \in Controls : next[c] # old[c]}
           report == Pairs(next) \ Pairs(old)
           view == Pairs([c \in told |-> values[c]])
           after == Pairs([c \in told \union S |-> Moved(values, S, next)[c]])
<1>1. DOMAIN next = Controls /\ DOMAIN old = Controls BY DEF States
<1>2. report = {<<c, next[c]>> : c \in S} BY <1>1 DEF Pairs
<1>3. Bridge!CodesIn(report) = S
  <2>1. \A c : <<c, next[c]>>[1] = c OBVIOUS
  <2> HIDE DEF S, report
  <2> QED BY <1>2, <2>1 DEF Bridge!CodesIn
<1>4. view = {<<c, values[c]>> : c \in told} BY DEF Pairs
<1>5. after = {<<c, IF c \in S THEN next[c] ELSE values[c]>> : c \in told \union S}
  <2>1. S \subseteq Controls OBVIOUS
  <2> HIDE DEF S
  <2> QED BY <2>1 DEF Pairs, Moved
<1>6. Bridge!Updated(view, report) = {p \in view : p[1] \notin S} \union report
  BY <1>3 DEF Bridge!Updated
<1> HIDE DEF S, report, view, after
<1>7. {p \in view : p[1] \notin S} = {<<c, values[c]>> : c \in told \ S}
  BY <1>4
<1>8. {<<c, values[c]>> : c \in told \ S} \union {<<c, next[c]>> : c \in S} = after
  BY <1>5
<1> QED BY <1>2, <1>6, <1>7, <1>8 DEF S, report, view, after

\* What a step does to the sessions, those it loses aside.
LEMMA KeepingIs ==
  ASSUME NEW next, \A c \in Sessions : Session(c)' \in {next[c], Bridge!Closed}
  PROVE  Bridge!Keeping(next)
<1> DEFINE lost == {c \in Sessions : Session(c)' = Bridge!Closed}
<1>1. \A c \in Sessions : Session(c)' = IF c \in lost THEN Bridge!Closed ELSE next[c]
  OBVIOUS
<1>2. lost \in SUBSET Sessions OBVIOUS
<1> HIDE DEF lost
<1>3. [c \in Sessions |-> Session(c)]'
        = [c \in Sessions |-> IF c \in lost THEN Bridge!Closed ELSE next[c]]
  BY <1>1
<1> QED BY <1>2, <1>3 DEF Bridge!Keeping

LEMMA LoseIs ==
  ASSUME UNCHANGED <<sdesc, sval>>,
         \A c \in Sessions : Session(c)' \in {Session(c), Bridge!Closed}
  PROVE  Bridge!Next
<1> DEFINE now == [c \in Sessions |-> Session(c)]
<1>1. \A c \in Sessions : now[c] = Session(c) OBVIOUS
<1> HIDE DEF now
<1>2. Bridge!Keeping(now) BY <1>1, KeepingIs
<1>3. UNCHANGED <<DeviceOf(sdesc), Pairs(sval)>> BY DEF DeviceOf, Pairs
<1> QED BY <1>2, <1>3 DEF Bridge!Lose, Bridge!Next, now

LEMMA OpenIs ==
  ASSUME UNCHANGED <<sdesc, sval>>, NEW c \in Sessions,
         Session(c)' = Bridge!Opened,
         \A d \in Sessions \ {c} : Session(d)' \in {Session(d), Bridge!Closed}
  PROVE  Bridge!Next
<1> DEFINE now == [d \in Sessions |-> Session(d)]
           next == [now EXCEPT ![c] = Bridge!Opened]
<1>1. \A d \in Sessions : next[d] = IF d = c THEN Bridge!Opened ELSE Session(d) OBVIOUS
<1> HIDE DEF next
<1>2. Bridge!Keeping(next) BY <1>1, KeepingIs
<1>3. UNCHANGED <<DeviceOf(sdesc), Pairs(sval)>> BY DEF DeviceOf, Pairs
<1>4. Bridge!Open(c) BY <1>2, <1>3 DEF Bridge!Open, next
<1> QED BY <1>4 DEF Bridge!Next

\* A session, by its connection.
SessionIn(k, view, news) ==
  IF k.link # "up"
  THEN [role |-> "closed", view |-> {}, live |-> FALSE, news |-> NoNews]
  ELSE [role |-> Role[k.role], live |-> k.live,
        view |-> IF k.role = "events" THEN view ELSE {},
        news |-> IF k.role = "hotplug" THEN news ELSE NoNews]

LEMMA SessionsAre ==
  /\ Session("monitor") = SessionIn(conn["monitor"], View, News)
  /\ conn["new"].link = "closed" => Session("stream") = SessionIn(conn["event"], View, News)
  /\ conn["new"].link # "closed" => Session("stream") = SessionIn(conn["new"], View, News)
BY DEF Session, SessionIn, Connection

LEMMA SessionsAreNext ==
  /\ Session("monitor")' = SessionIn(conn'["monitor"], View', News')
  /\ conn'["new"].link = "closed" => Session("stream")' = SessionIn(conn'["event"], View', News')
  /\ conn'["new"].link # "closed" => Session("stream")' = SessionIn(conn'["new"], View', News')
BY DEF Session, SessionIn, Connection

LEMMA SessionOf ==
  ASSUME NEW k, NEW view, NEW news
  PROVE  /\ k.link # "up" => SessionIn(k, view, news) = Bridge!Closed
         /\ k.link = "up" /\ k.role \in {"query", "ask"} /\ k.live = FALSE
              => SessionIn(k, view, news) = Bridge!Opened
         /\ k.link = "up" /\ k.role = "events"
              => SessionIn(k, view, news) = Bridge!Session("events", view, k.live, NoNews)
         /\ k.link = "up" /\ k.role = "hotplug" /\ k.live = FALSE
              => SessionIn(k, view, news) = Bridge!Session("monitor", {}, FALSE, news)
BY DEF SessionIn, Role, Bridge!Closed, Bridge!Opened, Bridge!Session

\* What a session has heard, by what is on its way.
ViewIn(st, buffer, coming, new) ==
  IF new.link = "closed" THEN Pairs(Drained(st, buffer \o coming))
  ELSE Pairs([c \in ToldIn(new.chan) |-> Drained(st, new.chan)[c]])

NewsIn(desc, coming) ==
  DeviceOf(IF coming = <<>> THEN desc ELSE coming[Len(coming)].message.desc)

LEMMA HeardIs ==
  /\ View = ViewIn(state, ebuf, conn["event"].chan, conn["new"])
  /\ News = NewsIn(descriptor, mbuf \o conn["monitor"].chan)
  /\ View' = ViewIn(state', ebuf', conn'["event"].chan, conn'["new"])
  /\ News' = NewsIn(descriptor', mbuf' \o conn'["monitor"].chan)
BY DEF View, ViewIn, News, NewsIn, ToldIn, DeviceOf

LEMMA SessionSame ==
  ASSUME NEW k, NEW view, NEW news, NEW k2, NEW view2, NEW news2,
         \/ k2.link # "up"
         \/ /\ k2.link = k.link /\ k2.role = k.role /\ k2.live = k.live
            /\ k.role = "events" => view2 = view
            /\ k.role = "hotplug" => news2 = news
  PROVE  SessionIn(k2, view2, news2) \in {SessionIn(k, view, news), Bridge!Closed}
BY SessionOf DEF SessionIn

LEMMA SessionAlike ==
  ASSUME NEW k, NEW view, NEW news, NEW view2, NEW news2,
         k.role = "events" => view2 = view, k.role = "hotplug" => news2 = news
  PROVE  SessionIn(k, view2, news2) = SessionIn(k, view, news)
BY DEF SessionIn

\* A connection that is up has its role, and a stream that began with a device
\* has been told of every control.
HeardOK ==
  /\ sdesc.present => sdesc.device \in Devices
  /\ \A k \in Kinds : conn[k].link = "up" => conn[k].role # "none"
  /\ Listening("new", "events") =>
       /\ Len(conn["new"].chan) >= 2
       /\ conn["new"].chan[1].message.desc.present => Began(conn["new"].chan)

LEMMA HeardKept ==
  ASSUME HeardOK, sdesc'.present => sdesc'.device \in Devices,
         \A k \in Kinds : conn'[k].link = "up" => conn'[k].role # "none",
         conn'["new"].link = "up" /\ conn'["new"].role = "events" =>
           Listening("new", "events") /\ conn'["new"].chan = conn["new"].chan
  PROVE  HeardOK'
<1>1. Listening("new", "events")' =>
        /\ Len(conn'["new"].chan) >= 2
        /\ conn'["new"].chan[1].message.desc.present => Began(conn'["new"].chan)
  <2> SUFFICES ASSUME Listening("new", "events")'
               PROVE  /\ Len(conn'["new"].chan) >= 2
                      /\ conn'["new"].chan[1].message.desc.present => Began(conn'["new"].chan)
    OBVIOUS
  <2>1. Listening("new", "events") /\ conn'["new"].chan = conn["new"].chan BY DEF Listening
  <2> QED BY <2>1 DEF HeardOK
<1>2. Began(conn'["new"].chan) => Began(conn["new"].chan)'
  BY DEF Began, Ends, EventAt
<1> QED BY <1>1, <1>2 DEF HeardOK

\* Where the connections of a session are.
LEMMA RolesAre ==
  ASSUME IInv, LiveOK, HeardOK
  PROVE  /\ conn["monitor"].link = "up" => /\ conn["monitor"].role \in {"ask", "hotplug"}
                                           /\ conn["monitor"].live = FALSE
         /\ conn["event"].link = "up" => conn["event"].role = "events"
         /\ conn["new"].link = "up" => /\ conn["new"].role \in {"query", "events"}
                                       /\ conn["new"].role = "query" => conn["new"].live = FALSE
         /\ conn["new"].link # "closed" => conn["event"].link = "closed"
         /\ \A k \in Kinds : conn[k].live \in BOOLEAN
<1>1. TypeOK /\ PlaceOK BY DEF IInv
<1>2. \A k \in Kinds : conn[k].live \in BOOLEAN BY <1>1, Types, ChannelHas
<1>3. \A k \in Kinds : conn[k].live => conn[k].role = "events" BY DEF LiveOK
<1>4. conn["new"].link # "closed" => conn["event"].link = "closed"
  BY <1>1 DEF TypeOK, PlaceOK
<1> QED BY <1>1, <1>2, <1>3, <1>4, Kind DEF PlaceOK, HeardOK

LEMMA DeviceIs ==
  ASSUME HeardOK
  PROVE  /\ sdesc.present => DeviceOf(sdesc) \in Devices /\ DeviceOf(sdesc) # NoDevice
         /\ ~sdesc.present => DeviceOf(sdesc) = NoDevice
BY ClientAssumption DEF HeardOK, DeviceOf

\* The last of the hotplug messages is news.
LEMMA NewsPut ==
  ASSUME NEW b \in Stream, NEW c \in Stream, NEW desc \in Descriptors, NEW held
  PROVE  NewsIn(held, b \o (c \o Halves(<<Describe("hotplug", desc)>>))) = DeviceOf(desc)
<1> DEFINE ms == <<Describe("hotplug", desc)>>
           H == Halves(ms)
           s == b \o c
<1>1. /\ ms \in Seq(Messages) /\ Len(ms) = 1 /\ ms[1] = Describe("hotplug", desc)
  BY MessageIs, One
<1> HIDE DEF ms
<1>2. /\ H \in Stream /\ Len(H) = 2
      /\ H[2] = [message |-> ms[1], half |-> 2]
  <2>1. /\ H \in Stream /\ Len(H) = 2 * Len(ms)
        /\ \A i \in 1..Len(ms) : H[2 * i] = [message |-> ms[i], half |-> 2]
    BY <1>1, HalvesAre
  <2>2. 1 \in 1..Len(ms) /\ 2 * 1 = 2 BY <1>1
  <2> QED BY <1>1, <2>1, <2>2
<1> HIDE DEF H
<1>3. s \in Stream /\ b \o (c \o H) = s \o H
  <2>1. s \in Stream BY Concat
  <2>2. s \o H = b \o (c \o H) BY <1>2, Associative
  <2> QED BY <2>1, <2>2
<1> HIDE DEF s
<1>4. /\ s \o H \in Stream /\ Len(s \o H) = Len(s) + 2 /\ Len(s) \in Nat
      /\ (s \o H)[2 + Len(s)] = H[2]
  <2>1. /\ s \o H \in Stream /\ Len(s \o H) = Len(s) + Len(H)
        /\ \A i \in 1..Len(H) : (s \o H)[i + Len(s)] = H[i]
    BY <1>2, <1>3, Concat
  <2>2. 2 \in 1..Len(H) BY <1>2
  <2> QED BY <1>2, <1>3, <2>1, <2>2, Empty
<1>5. s \o H # <<>> BY <1>4, Empty
<1>6. (s \o H)[Len(s \o H)].message = Describe("hotplug", desc)
  <2>1. Len(s \o H) = 2 + Len(s) BY <1>4
  <2> QED BY <1>1, <1>2, <1>4, <2>1
<1>7. (s \o H)[Len(s \o H)].message.desc = desc BY <1>6 DEF Describe
<1>8. NewsIn(held, s \o H) = DeviceOf(desc) BY <1>5, <1>7 DEF NewsIn
<1> QED BY <1>3, <1>8 DEF H, ms

-----------------------------------------------------------------------------
(* The steps of the bridge are those of the service. *)

LEMMA AnswerServes ==
  ASSUME IInv, LiveOK, HeardOK, NEW k \in Kinds, Answer(k)
  PROVE  HeardOK' /\ Bridge!Next
<1>1. TypeOK /\ PlaceOK BY DEF IInv
<1>2. /\ conn \in [Kinds -> Channels] /\ sdesc \in Descriptors /\ sval \in States
      /\ state \in States /\ mbuf \in Stream
  BY <1>1, Types DEF TypeOK
<1>3. UNCHANGED <<sdesc, sval, descriptor, state, ebuf, mbuf>>
  BY DEF Answer, service, ServiceOnly, public
<1>4. UNCHANGED <<DeviceOf(sdesc), Pairs(sval)>> BY <1>3 DEF DeviceOf, Pairs
<1> DEFINE now == [c \in Sessions |-> Session(c)]
<1>5. CASE /\ Listening(k, "query")
           /\ conn' = [conn EXCEPT ![k] =
                Answering("events", sdesc.present,
                          <<Describe("descriptor", sdesc)>> \o
                          IF sdesc.present THEN ReportOf(Controls, sval) ELSE <<>>)]
  <2> DEFINE ms == <<Describe("descriptor", sdesc)>> \o
                     IF sdesc.present THEN ReportOf(Controls, sval) ELSE <<>>
             H == Halves(ms)
             c == Answering("events", sdesc.present, ms)
  <2>1. k = "new"
    <3>1. conn[k].role = "query" BY <1>5 DEF Listening
    <3> QED BY <1>1, <3>1, Kind DEF PlaceOK
  <2>2. /\ c.link = "up" /\ c.role = "events" /\ c.live = sdesc.present /\ c.chan = H
    BY DEF Answering, Channel
  <2>3. sdesc.present => Answers(H, sval)
    <3> SUFFICES ASSUME sdesc.present PROVE Answers(H, sval) OBVIOUS
    <3>1. ms = <<Describe("descriptor", sdesc)>> \o ReportOf(Controls, sval) OBVIOUS
    <3> HIDE DEF ms
    <3> QED BY <1>2, <3>1, AnswerAnswers
  <2>4. /\ ms \in Seq(Messages) /\ Len(ms) >= 1 /\ ms[1] = Describe("descriptor", sdesc)
        /\ ~sdesc.present => Len(ms) = 1
    <3> DEFINE m == Describe("descriptor", sdesc)
               rest == IF sdesc.present THEN ReportOf(Controls, sval) ELSE <<>>
    <3>1. /\ m \in Messages /\ <<m>> \in Seq(Messages) /\ Len(<<m>>) = 1 /\ <<m>>[1] = m
      BY <1>2, MessageIs, One
    <3>2. rest \in Seq(Messages) /\ Len(rest) \in Nat /\ (~sdesc.present => Len(rest) = 0)
      <4>1. Controls \in SUBSET Controls OBVIOUS
      <4>2. ReportOf(Controls, sval) \in Seq(Messages) BY <1>2, <4>1, ReportIs
      <4>3. <<>> \in Seq(Messages) /\ Len(<<>>) = 0 BY EmptySeq
      <4> QED BY <4>2, <4>3, LenProperties
    <3>3. ms = <<m>> \o rest OBVIOUS
    <3> HIDE DEF ms, m, rest
    <3>4. /\ <<m>> \o rest \in Seq(Messages)
          /\ Len(<<m>> \o rest) = Len(<<m>>) + Len(rest)
          /\ \A i \in 1..(Len(<<m>>) + Len(rest)) :
               (<<m>> \o rest)[i] = IF i <= Len(<<m>>) THEN <<m>>[i] ELSE rest[i - Len(<<m>>)]
      BY <3>1, <3>2, ConcatProperties
    <3>5. 1 \in 1..(Len(<<m>>) + Len(rest)) BY <3>1, <3>2
    <3>6. ms[1] = m BY <3>1, <3>3, <3>4, <3>5
    <3> QED BY <3>1, <3>2, <3>3, <3>4, <3>6 DEF m
  <2>5. conn' = [conn EXCEPT ![k] = c] BY <1>5
  <2>6. now = [d \in Sessions |-> Session(d)] OBVIOUS
  <2> HIDE DEF c, ms, now
  <2>7. /\ H \in Stream /\ Len(H) = 2 * Len(ms) /\ Len(ms) \in Nat
        /\ \A i \in 1..Len(ms) : /\ H[2 * i - 1] = [message |-> ms[i], half |-> 1]
                                 /\ H[2 * i] = [message |-> ms[i], half |-> 2]
    BY <2>4, HalvesAre, LenProperties
  <2>8. Len(H) >= 2 /\ H[1].message = ms[1] /\ H[2].message = ms[1]
    <3>1. 1 \in 1..Len(ms) /\ 2 * 1 - 1 = 1 /\ 2 * 1 = 2 BY <2>4, <2>7
    <3>2. H[1] = [message |-> ms[1], half |-> 1] /\ H[2] = [message |-> ms[1], half |-> 2]
      BY <2>7, <3>1
    <3> QED BY <2>4, <2>7, <3>2
  <2> HIDE DEF H
  <2>9. /\ conn'["new"] = c /\ conn'["event"] = conn["event"]
        /\ conn'["monitor"] = conn["monitor"]
    BY <1>2, <2>1, <2>5, Kind
  <2>10. H[1].message.desc = sdesc BY <2>4, <2>8 DEF Describe
  <2>11. sdesc.present => Began(H) BY <2>3 DEF Answers, Began
  <2>12. HeardOK'
    <3>1. \A j \in Kinds : conn'[j].link = "up" => conn'[j].role # "none"
      BY <2>2, <2>9, Kind DEF HeardOK
    <3>2. Len(conn'["new"].chan) >= 2 /\
          (conn'["new"].chan[1].message.desc.present => Began(conn["new"].chan)')
      <4>0. conn'["new"].chan = H BY <2>2, <2>9
      <4>1. Began(H) => Began(conn["new"].chan)' BY <4>0 DEF Began, Ends, EventAt
      <4> QED BY <2>2, <2>8, <2>9, <2>10, <2>11, <4>1
    <3> QED BY <1>3, <3>1, <3>2 DEF HeardOK
  <2>13. Session("stream") = Bridge!Opened
    <3>1. conn["new"].link = "up" /\ conn["new"].role = "query" BY <1>5, <2>1 DEF Listening
    <3>2. conn["new"].live = FALSE BY <3>1, RolesAre
    <3> QED BY <3>1, <3>2, SessionsAre, SessionOf
  <2>14. Session("monitor")' = Session("monitor")
    <3>1. News' = News BY <1>3, <2>9, HeardIs
    <3>2. conn["monitor"].role # "events" BY <1>1 DEF PlaceOK
    <3>3. SessionIn(conn["monitor"], View', News') = SessionIn(conn["monitor"], View, News)
      BY <3>1, <3>2, SessionAlike
    <3> QED BY <2>9, <3>3, SessionsAre, SessionsAreNext
  <2>15. Session("stream")' = Bridge!Session("events", View', sdesc.present, NoNews)
    <3>1. Session("stream")' = SessionIn(c, View', News')
      BY <2>2, <2>9, SessionsAreNext
    <3> QED BY <2>2, <3>1, SessionOf
  <2>16. View' = Pairs([x \in ToldIn(H) |-> Drained(state, H)[x]])
    BY <1>3, <2>2, <2>9, HeardIs DEF ViewIn
  <2>17. View' = IF sdesc.present THEN Pairs(sval) ELSE {}
    <3>1. CASE sdesc.present
      <4>1. ToldIn(H) = Controls BY <2>7, <2>11, <3>1, BeganAll
      <4>2. Leads(state, H, sval) BY <2>3, <3>1 DEF Leads, Answers
      <4>3. Drained(state, H) = sval BY <1>2, <2>7, <4>2, LeadsIsDrained
      <4>4. [x \in Controls |-> sval[x]] = sval BY <1>2 DEF States
      <4> QED BY <2>16, <3>1, <4>1, <4>3, <4>4
    <3>2. CASE ~sdesc.present
      <4>1. \A i \in 1..Len(H) : H[i].message.type # "event"
        <5>1. Len(H) = 2 BY <2>4, <2>7, <3>2
        <5>2. ms[1].type # "event" BY <2>4 DEF Describe
        <5>3. \A i \in 1..2 : i = 1 \/ i = 2 OBVIOUS
        <5> QED BY <2>8, <5>1, <5>2, <5>3
      <4>2. ToldIn(H) = {} BY <2>7, <4>1, ToldIs
      <4> QED BY <2>16, <3>2, <4>2 DEF Pairs
    <3> QED BY <3>1, <3>2
  <2> DEFINE s == now["stream"]
             after == IF DeviceOf(sdesc) = NoDevice
                      THEN Bridge!Session("events", s.view, FALSE, s.news)
                      ELSE Bridge!Session("events", Bridge!Updated(s.view, Pairs(sval)), TRUE, s.news)
             next == [now EXCEPT !["stream"] = after]
  <2>18. now["stream"] = Session("stream") /\ now["monitor"] = Session("monitor")
    BY <2>6 DEF Sessions
  <2>19. s.view = {} /\ s.news = NoNews /\ s.role # "closed"
    BY <2>13, <2>18 DEF Bridge!Opened, Bridge!Session
  <2>20. Session("stream")' = after
    <3>1. Bridge!Updated({}, Pairs(sval)) = Pairs(sval) BY DEF Bridge!Updated
    <3>2. sdesc.present \in BOOLEAN BY <1>2 DEF Descriptors
    <3> QED BY <2>15, <2>17, <2>19, <3>1, <3>2, DeviceIs
  <2>21. \A d \in Sessions : next[d] = IF d = "stream" THEN after ELSE now[d]
    BY <2>6
  <2> HIDE DEF after, next
  <2>22. Bridge!Keeping(next)
    <3>1. \A d \in Sessions : Session(d)' = next[d]
      BY <2>14, <2>18, <2>20, <2>21 DEF Sessions
    <3> QED BY <3>1, KeepingIs
  <2>23. Bridge!Query("stream")
    BY <1>4, <2>19, <2>22 DEF Bridge!Query, next, after, now
  <2>24. "stream" \in Sessions BY DEF Sessions
  <2> QED BY <2>12, <2>23, <2>24 DEF Bridge!Next
<1>6. CASE /\ Listening(k, "ask")
           /\ conn' = [conn EXCEPT ![k] =
                Answering("hotplug", FALSE, <<Describe("hotplug", sdesc)>>)]
  <2> DEFINE H == Halves(<<Describe("hotplug", sdesc)>>)
             c == Answering("hotplug", FALSE, <<Describe("hotplug", sdesc)>>)
  <2>1. k = "monitor"
    <3>1. conn[k].role = "ask" BY <1>6 DEF Listening
    <3> QED BY <1>1, <3>1, Kind DEF PlaceOK
  <2>2. c.live = FALSE /\ c.link = "up" /\ c.role = "hotplug" /\ c.chan = H
    BY DEF Answering, Channel
  <2>4. conn' = [conn EXCEPT ![k] = c] BY <1>6
  <2>6. now = [d \in Sessions |-> Session(d)] OBVIOUS
  <2> HIDE DEF c, now
  <2>5. /\ conn'["new"] = conn["new"] /\ conn'["event"] = conn["event"]
        /\ conn'["monitor"] = c
    BY <1>2, <2>1, <2>4, Kind
  <2>7. HeardOK'
    <3>1. \A j \in Kinds : conn'[j].link = "up" => conn'[j].role # "none"
      BY <2>2, <2>5, Kind DEF HeardOK
    <3> QED BY <1>3, <2>5, <3>1, HeardKept DEF HeardOK, Listening
  <2>8. Session("monitor") = Bridge!Opened
    <3>1. conn["monitor"].link = "up" /\ conn["monitor"].role = "ask"
      BY <1>6, <2>1 DEF Listening
    <3>2. conn["monitor"].live = FALSE BY <3>1, RolesAre
    <3> QED BY <3>1, <3>2, SessionsAre, SessionOf
  <2>9. Session("stream")' = Session("stream")
    <3>1. View' = View BY <1>3, <2>5, HeardIs
    <3>2. conn["event"].role # "hotplug" /\ conn["new"].role # "hotplug"
      BY <1>1 DEF PlaceOK
    <3>3. \A j \in {conn["event"], conn["new"]} :
            SessionIn(j, View', News') = SessionIn(j, View, News)
      BY <3>1, <3>2, SessionAlike
    <3>4. CASE conn["new"].link = "closed"
      BY <2>5, <3>1, <3>3, <3>4, SessionsAre, SessionsAreNext
    <3>5. CASE conn["new"].link # "closed"
      BY <2>5, <3>1, <3>3, <3>5, SessionsAre, SessionsAreNext
    <3> QED BY <3>4, <3>5
  <2>10. Session("monitor")' = Bridge!Session("monitor", {}, FALSE, DeviceOf(sdesc))
    <3>1. <<>> \in Stream /\ H \in Stream
      <4>1. <<Describe("hotplug", sdesc)>> \in Seq(Messages) BY <1>2, HalvesOfHotplug
      <4> QED BY <4>1, HalvesAre, Empty
    <3>2. <<>> \o H = H BY <3>1, Empty
    <3>3. News' = DeviceOf(sdesc)
      <4>1. News' = NewsIn(descriptor, mbuf \o (<<>> \o H))
        BY <1>3, <2>2, <2>5, <3>2, HeardIs
      <4> HIDE DEF H
      <4>2. NewsIn(descriptor, mbuf \o (<<>> \o H)) = DeviceOf(sdesc)
        BY <1>2, <3>1, NewsPut DEF H
      <4> QED BY <4>1, <4>2
    <3>4. Session("monitor")' = SessionIn(c, View', DeviceOf(sdesc))
      BY <2>5, <3>3, SessionsAreNext
    <3> QED BY <2>2, <3>4, SessionOf
  <2> DEFINE after == Bridge!Session("monitor", now["monitor"].view, FALSE, DeviceOf(sdesc))
             next == [now EXCEPT !["monitor"] = after]
  <2>11. now["stream"] = Session("stream") /\ now["monitor"] = Session("monitor")
    BY <2>6 DEF Sessions
  <2>12. now["monitor"].view = {} /\ now["monitor"].role # "closed"
    BY <2>8, <2>11 DEF Bridge!Opened, Bridge!Session
  <2>13. \A d \in Sessions : next[d] = IF d = "monitor" THEN after ELSE now[d]
    BY <2>6
  <2>14. Session("monitor")' = after BY <2>10, <2>12
  <2> HIDE DEF after, next
  <2>15. Bridge!Keeping(next)
    <3>1. \A d \in Sessions : Session(d)' = next[d]
      BY <2>9, <2>11, <2>13, <2>14 DEF Sessions
    <3> QED BY <3>1, KeepingIs
  <2>16. Bridge!Monitor("monitor")
    BY <1>4, <2>12, <2>15 DEF Bridge!Monitor, next, after, now
  <2>17. "monitor" \in Sessions BY DEF Sessions
  <2> QED BY <2>7, <2>16, <2>17 DEF Bridge!Next
<1> QED BY <1>5, <1>6 DEF Answer

\* The stream's session when its connections and the view of them are as before.
LEMMA StreamAlike ==
  ASSUME IInv, conn'["event"] = conn["event"], conn'["new"] = conn["new"], View' = View
  PROVE  Session("stream")' = Session("stream")
<1>1. conn["event"].role # "hotplug" /\ conn["new"].role # "hotplug" BY DEF IInv, PlaceOK
<1>2. \A j \in {conn["event"], conn["new"]} :
        SessionIn(j, View', News') = SessionIn(j, View, News)
  BY <1>1, SessionAlike
<1>3. CASE conn["new"].link = "closed" BY <1>2, <1>3, SessionsAre, SessionsAreNext
<1>4. CASE conn["new"].link # "closed" BY <1>2, <1>4, SessionsAre, SessionsAreNext
<1> QED BY <1>3, <1>4

LEMMA MonitorAlike ==
  ASSUME IInv, conn'["monitor"] = conn["monitor"], News' = News
  PROVE  Session("monitor")' = Session("monitor")
<1>1. conn["monitor"].role # "events" BY DEF IInv, PlaceOK
<1>2. SessionIn(conn["monitor"], View', News') = SessionIn(conn["monitor"], View, News)
  BY <1>1, SessionAlike
<1> QED BY <1>2, SessionsAre, SessionsAreNext

LEMMA RemoveServes ==
  ASSUME IInv, LiveOK, HeardOK, Remove
  PROVE  HeardOK' /\ Bridge!Next
<1>1. TypeOK /\ PlaceOK BY DEF IInv
<1>2. /\ \A k \in Kinds : conn[k] \in Channels /\ conn[k].chan \in Stream
      /\ sdesc \in Descriptors /\ mbuf \in Stream
  BY <1>1, Types DEF TypeOK
<1>3. UNCHANGED <<descriptor, state, ebuf, mbuf>> BY DEF Remove, ServiceOnly, public
<1>4. /\ sdesc.present /\ sdesc' = [sdesc EXCEPT !.present = FALSE] /\ sval' = Neutral
  BY DEF Remove
<1>5. sdesc' \in Descriptors /\ sdesc'.present = FALSE BY <1>2, <1>4 DEF Descriptors
<1> DEFINE ms == <<Describe("hotplug", sdesc')>>
<1>6. conn' = [k \in Kinds |-> IF Listening(k, "hotplug") THEN Put(conn[k], ms)
                                                        ELSE Outdated(conn[k])]
  BY DEF Remove, Tell
<1>7. ms \in Seq(Messages) BY <1>5, HalvesOfHotplug
<1> HIDE DEF ms
<1>8. /\ \A k \in Kinds : conn'[k].link = conn[k].link /\ conn'[k].role = conn[k].role
      /\ conn'["event"].live = FALSE /\ conn'["event"].chan = conn["event"].chan
      /\ conn'["new"].live = FALSE /\ conn'["new"].chan = conn["new"].chan
      /\ conn["monitor"].link = "up" => conn'["monitor"].live = FALSE
      /\ Listening("monitor", "hotplug") =>
           conn'["monitor"].chan = conn["monitor"].chan \o Halves(ms)
  <2>1. ASSUME NEW k \in Kinds
        PROVE  conn'[k].link = conn[k].link /\ conn'[k].role = conn[k].role
    BY <1>2, <1>6, <1>7, PutIs, OutdatedIs
  <2>2. /\ conn'["event"].live = FALSE /\ conn'["event"].chan = conn["event"].chan
        /\ conn'["new"].live = FALSE /\ conn'["new"].chan = conn["new"].chan
    <3>1. ~Listening("event", "hotplug") /\ ~Listening("new", "hotplug")
      BY <1>1 DEF PlaceOK, Listening
    <3>2. conn'["event"] = Outdated(conn["event"]) /\ conn'["new"] = Outdated(conn["new"])
      BY <1>6, <3>1, Kind
    <3>3. conn["event"] \in Channels /\ conn["new"] \in Channels BY <1>2, Kind
    <3>4. Outdated(conn["event"]).live = FALSE
          /\ Outdated(conn["event"]).chan = conn["event"].chan
      BY <3>3, OutdatedIs
    <3>5. Outdated(conn["new"]).live = FALSE
          /\ Outdated(conn["new"]).chan = conn["new"].chan
      BY <3>3, OutdatedIs
    <3> QED BY <3>2, <3>4, <3>5
  <2>3. conn["monitor"].link = "up" => conn'["monitor"].live = FALSE
    <3> SUFFICES ASSUME conn["monitor"].link = "up" PROVE conn'["monitor"].live = FALSE
      OBVIOUS
    <3>1. conn["monitor"].live = FALSE BY RolesAre
    <3>2. conn["monitor"] \in Channels BY <1>2, Kind
    <3>3. CASE Listening("monitor", "hotplug")
      <4>1. conn'["monitor"] = Put(conn["monitor"], ms) BY <1>6, <3>3, Kind
      <4>2. Put(conn["monitor"], ms).live = conn["monitor"].live
        BY <1>7, <3>2, PutIs
      <4> QED BY <3>1, <4>1, <4>2
    <3>4. CASE ~Listening("monitor", "hotplug")
      <4>1. conn'["monitor"] = Outdated(conn["monitor"]) BY <1>6, <3>4, Kind
      <4> QED BY <3>2, <4>1, OutdatedIs
    <3> QED BY <3>3, <3>4
  <2>4. Listening("monitor", "hotplug") =>
          conn'["monitor"].chan = conn["monitor"].chan \o Halves(ms)
    <3> SUFFICES ASSUME Listening("monitor", "hotplug")
                 PROVE  conn'["monitor"].chan = conn["monitor"].chan \o Halves(ms)
      OBVIOUS
    <3>1. conn'["monitor"] = Put(conn["monitor"], ms) BY <1>6, Kind
    <3>2. conn["monitor"] \in Channels BY <1>2, Kind
    <3> QED BY <1>7, <3>1, <3>2, PutTo, Kind
  <2> QED BY <2>1, <2>2, <2>3, <2>4
<1>9. HeardOK'
  <2>1. \A k \in Kinds : conn'[k].link = "up" => conn'[k].role # "none"
    BY <1>8 DEF HeardOK
  <2> QED BY <1>5, <1>8, <2>1, HeardKept, Kind DEF Listening
<1>10. View' = View BY <1>3, <1>8, HeardIs, Kind DEF ViewIn
<1>11. Listening("monitor", "hotplug") => News' = NoDevice
  <2> SUFFICES ASSUME Listening("monitor", "hotplug") PROVE News' = NoDevice OBVIOUS
  <2>1. News' = NewsIn(descriptor, mbuf \o (conn["monitor"].chan \o Halves(ms)))
    BY <1>3, <1>8, HeardIs
  <2>2. NewsIn(descriptor, mbuf \o (conn["monitor"].chan \o Halves(ms))) = DeviceOf(sdesc')
    BY <1>2, <1>5, NewsPut, Kind DEF ms
  <2>3. DeviceOf(sdesc') = NoDevice BY <1>5 DEF DeviceOf
  <2> QED BY <2>1, <2>2, <2>3
<1> DEFINE now == [c \in Sessions |-> Session(c)]
           tells(s) == Bridge!Session(s.role, s.view, FALSE,
                                      IF s.role = "monitor" THEN NoDevice ELSE s.news)
           next == [c \in Sessions |-> tells(now[c])]
<1>12. tells(Bridge!Closed) = Bridge!Closed /\ tells(Bridge!Opened) = Bridge!Opened
  BY DEF Bridge!Closed, Bridge!Opened, Bridge!Session
<1>13. \A view, live, news :
         /\ tells(Bridge!Session("events", view, live, news))
              = Bridge!Session("events", view, FALSE, news)
         /\ tells(Bridge!Session("monitor", view, live, news))
              = Bridge!Session("monitor", view, FALSE, NoDevice)
  BY DEF Bridge!Session
<1>14. now["stream"] = Session("stream") /\ now["monitor"] = Session("monitor")
  BY DEF Sessions
<1>15. \A c \in Sessions : next[c] = tells(now[c]) OBVIOUS
<1> HIDE DEF now, tells, next
<1>16. Session("monitor")' = tells(Session("monitor"))
  <2>0. /\ conn'["monitor"].link = conn["monitor"].link
        /\ conn'["monitor"].role = conn["monitor"].role
    BY <1>8, Kind
  <2>1. CASE conn["monitor"].link # "up"
    <3>1. Session("monitor") = Bridge!Closed BY <2>1, SessionsAre, SessionOf
    <3>2. Session("monitor")' = Bridge!Closed BY <2>0, <2>1, SessionsAreNext, SessionOf
    <3> QED BY <1>12, <3>1, <3>2
  <2>2. CASE conn["monitor"].link = "up" /\ conn["monitor"].role = "ask"
    <3>1. conn["monitor"].live = FALSE BY <2>2, RolesAre
    <3>2. Session("monitor") = Bridge!Opened BY <2>2, <3>1, SessionsAre, SessionOf
    <3>3. Session("monitor")' = Bridge!Opened
      <4>1. /\ conn'["monitor"].link = "up" /\ conn'["monitor"].role \in {"query", "ask"}
            /\ conn'["monitor"].live = FALSE
        BY <1>8, <2>0, <2>2
      <4>2. SessionIn(conn'["monitor"], View', News') = Bridge!Opened BY <4>1, SessionOf
      <4> QED BY <4>2, SessionsAreNext
    <3> QED BY <1>12, <3>2, <3>3
  <2>3. CASE conn["monitor"].link = "up" /\ conn["monitor"].role = "hotplug"
    <3>1. conn["monitor"].live = FALSE BY <2>3, RolesAre
    <3>2. Session("monitor") = Bridge!Session("monitor", {}, FALSE, News)
      BY <2>3, <3>1, SessionsAre, SessionOf
    <3>3. News' = NoDevice BY <1>11, <2>3 DEF Listening
    <3>4. Session("monitor")' = Bridge!Session("monitor", {}, FALSE, NoDevice)
      <4>1. /\ conn'["monitor"].link = "up" /\ conn'["monitor"].role = "hotplug"
            /\ conn'["monitor"].live = FALSE
        BY <1>8, <2>0, <2>3
      <4>2. SessionIn(conn'["monitor"], View', News')
              = Bridge!Session("monitor", {}, FALSE, News')
        BY <4>1, SessionOf
      <4> QED BY <3>3, <4>2, SessionsAreNext
    <3> QED BY <1>13, <3>2, <3>4
  <2> QED BY <2>1, <2>2, <2>3, RolesAre
<1>17. Session("stream")' = tells(Session("stream"))
  <2> DEFINE j == IF conn["new"].link = "closed" THEN "event" ELSE "new"
  <2>1. j \in {"event", "new"} /\ j \in Kinds BY Kind
  <2>2. /\ Session("stream") = SessionIn(conn[j], View, News)
        /\ Session("stream")' = SessionIn(conn'[j], View, News')
    BY <1>8, <1>10, SessionsAre, SessionsAreNext, Kind
  <2>3. /\ conn'[j].link = conn[j].link /\ conn'[j].role = conn[j].role
        /\ conn'[j].live = FALSE
    BY <1>8, <2>1
  <2>4. conn[j].link = "up" => /\ conn[j].role \in {"query", "events"}
                               /\ conn[j].role = "query" => conn[j].live = FALSE
    BY <2>1, RolesAre
  <2> HIDE DEF j
  <2>5. CASE conn[j].link # "up" BY <1>12, <2>2, <2>3, <2>5, SessionOf
  <2>6. CASE conn[j].link = "up" /\ conn[j].role = "query"
    <3>1. Session("stream") = Bridge!Opened BY <2>2, <2>4, <2>6, SessionOf
    <3>2. Session("stream")' = Bridge!Opened
      <4>1. /\ conn'[j].link = "up" /\ conn'[j].role \in {"query", "ask"}
            /\ conn'[j].live = FALSE
        BY <2>3, <2>6
      <4>2. SessionIn(conn'[j], View, News') = Bridge!Opened BY <4>1, SessionOf
      <4> QED BY <2>2, <4>2
    <3> QED BY <1>12, <3>1, <3>2
  <2>7. CASE conn[j].link = "up" /\ conn[j].role = "events"
    <3>1. Session("stream") = Bridge!Session("events", View, conn[j].live, NoNews)
      BY <2>2, <2>7, SessionOf
    <3>2. Session("stream")' = Bridge!Session("events", View, FALSE, NoNews)
      BY <2>2, <2>3, <2>7, SessionOf
    <3> QED BY <1>13, <3>1, <3>2
  <2> QED BY <2>4, <2>5, <2>6, <2>7
<1>18. Bridge!Keeping(next)
  <2>1. \A c \in Sessions : Session(c)' = next[c]
    BY <1>14, <1>15, <1>16, <1>17 DEF Sessions
  <2> QED BY <2>1, KeepingIs
<1>19. DeviceOf(sdesc) # NoDevice /\ DeviceOf(sdesc') = NoDevice
  BY <1>4, <1>5, DeviceIs DEF DeviceOf
<1>20. Bridge!Remove
  BY <1>4, <1>18, <1>19 DEF Bridge!Remove, next, tells, now, DeviceOf
<1> QED BY <1>9, <1>20 DEF Bridge!Next

LEMMA AddServes ==
  ASSUME IInv, LiveOK, HeardOK, Add
  PROVE  HeardOK' /\ Bridge!Next
<1>1. TypeOK /\ PlaceOK BY DEF IInv
<1>2. /\ \A k \in Kinds : conn[k] \in Channels /\ conn[k].chan \in Stream
      /\ mbuf \in Stream
  BY <1>1, Types DEF TypeOK
<1>3. UNCHANGED <<descriptor, state, ebuf, mbuf, sval>> BY DEF Add, ServiceOnly, public
<1>4. /\ ~sdesc.present /\ sdesc'.present /\ sdesc'.device \in Devices
      /\ sdesc' \in Descriptors
  BY DEF Add, Descriptors
<1> DEFINE ms == <<Describe("hotplug", sdesc')>>
<1>5. conn' = [k \in Kinds |-> IF Listening(k, "hotplug") THEN Put(conn[k], ms)
                                                        ELSE conn[k]]
  BY DEF Add, Tell
<1>6. ms \in Seq(Messages) BY <1>4, HalvesOfHotplug
<1> HIDE DEF ms
<1>7. conn'["event"] = conn["event"] /\ conn'["new"] = conn["new"]
  <2>1. ~Listening("event", "hotplug") /\ ~Listening("new", "hotplug")
    BY <1>1 DEF PlaceOK, Listening
  <2> QED BY <1>5, <2>1, Kind
<1>8. /\ ~Listening("monitor", "hotplug") => conn'["monitor"] = conn["monitor"]
      /\ Listening("monitor", "hotplug") =>
           /\ conn'["monitor"].link = "up" /\ conn'["monitor"].role = "hotplug"
           /\ conn'["monitor"].live = FALSE
           /\ conn'["monitor"].chan = conn["monitor"].chan \o Halves(ms)
  <2>1. CASE Listening("monitor", "hotplug")
    <3>1. conn'["monitor"] = Put(conn["monitor"], ms) BY <1>5, <2>1, Kind
    <3>2. conn["monitor"].live = FALSE BY <2>1, RolesAre DEF Listening
    <3>3. /\ conn'["monitor"].link = conn["monitor"].link
          /\ conn'["monitor"].role = conn["monitor"].role
          /\ conn'["monitor"].live = conn["monitor"].live
          /\ conn'["monitor"].chan = conn["monitor"].chan \o Halves(ms)
      <4>1. conn["monitor"] \in Channels BY <1>2, Kind
      <4> QED BY <1>6, <3>1, <4>1, PutTo, Kind
    <3> QED BY <2>1, <3>2, <3>3 DEF Listening
  <2>2. CASE ~Listening("monitor", "hotplug") BY <1>5, <2>2, Kind
  <2> QED BY <2>1, <2>2
<1>9. HeardOK'
  <2>1. \A k \in Kinds : conn'[k].link = "up" => conn'[k].role # "none"
    BY <1>7, <1>8, Kind DEF HeardOK
  <2> QED BY <1>4, <1>7, <2>1, HeardKept DEF Listening
<1>10. View' = View BY <1>3, <1>7, HeardIs DEF ViewIn
<1> DEFINE now == [c \in Sessions |-> Session(c)]
           tells(s) == Bridge!Session(s.role, s.view, s.live, DeviceOf(sdesc'))
           next == [c \in Sessions |-> IF now[c].role = "monitor" THEN tells(now[c]) ELSE now[c]]
<1>11. now["stream"] = Session("stream") /\ now["monitor"] = Session("monitor")
  BY DEF Sessions
<1>12. \A c \in Sessions : next[c] = IF now[c].role = "monitor" THEN tells(now[c]) ELSE now[c]
  OBVIOUS
<1>13. \A view, live, news : tells(Bridge!Session("monitor", view, live, news))
                               = Bridge!Session("monitor", view, live, DeviceOf(sdesc'))
  BY DEF Bridge!Session
<1> HIDE DEF now, tells, next
<1>14. Session("stream")' = Session("stream") BY <1>7, <1>10, StreamAlike
<1>15. Session("stream").role # "monitor"
  <2>1. conn["event"].role # "hotplug" /\ conn["new"].role # "hotplug" BY <1>1 DEF PlaceOK
  <2>2. \A k \in {"event", "new"} : SessionIn(conn[k], View, News).role # "monitor"
    <3> SUFFICES ASSUME NEW k \in {"event", "new"}
                 PROVE  SessionIn(conn[k], View, News).role # "monitor"
      OBVIOUS
    <3>1. conn[k].link = "up" => /\ conn[k].role \in {"query", "events"}
                                 /\ conn[k].role = "query" => conn[k].live = FALSE
      BY RolesAre
    <3>2. SessionIn(conn[k], View, News)
            \in {Bridge!Closed, Bridge!Opened, Bridge!Session("events", View, conn[k].live, NoNews)}
      BY <3>1, SessionOf
    <3> QED BY <3>2 DEF Bridge!Closed, Bridge!Opened, Bridge!Session
  <2> QED BY <2>2, SessionsAre
<1>16. Session("monitor")' = IF Session("monitor").role = "monitor"
                             THEN tells(Session("monitor")) ELSE Session("monitor")
  <2>1. CASE Listening("monitor", "hotplug")
    <3>1. conn["monitor"].live = FALSE BY <2>1, RolesAre DEF Listening
    <3>2. Session("monitor") = Bridge!Session("monitor", {}, FALSE, News)
      BY <2>1, <3>1, SessionsAre, SessionOf DEF Listening
    <3>3. News' = NewsIn(descriptor, mbuf \o (conn["monitor"].chan \o Halves(ms)))
      BY <1>3, <1>8, <2>1, HeardIs
    <3>4. NewsIn(descriptor, mbuf \o (conn["monitor"].chan \o Halves(ms))) = DeviceOf(sdesc')
      BY <1>2, <1>4, NewsPut, Kind DEF ms
    <3>5. Session("monitor")' = Bridge!Session("monitor", {}, FALSE, DeviceOf(sdesc'))
      <4>1. Session("monitor")' = SessionIn(conn'["monitor"], View', DeviceOf(sdesc'))
        BY <3>3, <3>4, SessionsAreNext
      <4> QED BY <1>8, <2>1, <4>1, SessionOf
    <3>6. Session("monitor").role = "monitor" BY <3>2 DEF Bridge!Session
    <3> QED BY <1>13, <3>2, <3>5, <3>6
  <2>2. CASE ~Listening("monitor", "hotplug")
    <3>1. conn'["monitor"] = conn["monitor"] /\ News' = News BY <1>3, <1>8, <2>2, HeardIs
    <3>2. Session("monitor")' = Session("monitor") BY <3>1, MonitorAlike
    <3>3. Session("monitor").role # "monitor"
      <4>1. conn["monitor"].link # "up" \/
            (conn["monitor"].link = "up" /\ conn["monitor"].role = "ask"
               /\ conn["monitor"].live = FALSE)
        BY <2>2, RolesAre DEF Listening
      <4>2. Session("monitor") \in {Bridge!Closed, Bridge!Opened}
        BY <4>1, SessionsAre, SessionOf
      <4> QED BY <4>2 DEF Bridge!Closed, Bridge!Opened, Bridge!Session
    <3> QED BY <3>2, <3>3
  <2> QED BY <2>1, <2>2
<1>17. Bridge!Keeping(next)
  <2>1. \A c \in Sessions : Session(c)' = next[c]
    BY <1>11, <1>12, <1>14, <1>15, <1>16 DEF Sessions
  <2> QED BY <2>1, KeepingIs
<1>18. DeviceOf(sdesc) = NoDevice /\ DeviceOf(sdesc') \in Devices BY <1>4 DEF DeviceOf
<1>19. UNCHANGED Pairs(sval) BY <1>3 DEF Pairs
<1>20. Bridge!Add
  BY <1>17, <1>18, <1>19 DEF Bridge!Add, Bridge!Telling, next, tells, now
<1> QED BY <1>9, <1>20 DEF Bridge!Next

LEMMA InputServes ==
  ASSUME IInv, LiveOK, HeardOK, Input
  PROVE  HeardOK' /\ Bridge!Next
<1>1. TypeOK /\ PlaceOK BY DEF IInv
<1>2. /\ \A k \in Kinds : conn[k] \in Channels /\ conn[k].chan \in Stream
      /\ ebuf \in Stream /\ state \in States /\ sval \in States
  BY <1>1, Types DEF TypeOK
<1>3. UNCHANGED <<descriptor, state, ebuf, mbuf, sdesc>> BY DEF Input, ServiceOnly, public
<1>4. sdesc.present /\ sval' \in States BY DEF Input
<1> DEFINE S == {c \in Controls : sval'[c] # sval[c]}
           ms == ReportOf(S, sval')
           H == Halves(ms)
<1>5. conn' = [k \in Kinds |-> IF Listening(k, "events") THEN Put(conn[k], ms)
                                                       ELSE conn[k]]
  BY DEF Input, Tell
<1>6. S \in SUBSET Controls OBVIOUS
<1> HIDE DEF S
<1>7. ms \in Seq(Messages) /\ H \in Stream BY <1>4, <1>6, ReportIs, HalvesAre
<1>8. /\ \A s \in Stream : /\ ToldIn(s \o H) = ToldIn(s) \union S
                           /\ Began(s) => Began(s \o H)
                           /\ Drained(state, s \o H) = Moved(Drained(state, s), S, sval')
  BY <1>2, <1>4, <1>6, ToldPut, BeganPut, DrainedPut
<1> HIDE DEF ms
<1>9. ASSUME NEW k \in Kinds
      PROVE  /\ conn'[k].link = conn[k].link /\ conn'[k].role = conn[k].role
             /\ conn'[k].live = conn[k].live
             /\ Listening(k, "events") => conn'[k].chan = conn[k].chan \o H
             /\ ~Listening(k, "events") => conn'[k] = conn[k]
  <2>1. CASE Listening(k, "events")
    <3>1. conn'[k] = Put(conn[k], ms) BY <1>5, <2>1
    <3> QED BY <1>2, <1>7, <2>1, <3>1, PutTo
  <2>2. CASE ~Listening(k, "events") BY <1>5, <2>2
  <2> QED BY <2>1, <2>2
<1> HIDE DEF H
<1>10. HeardOK'
  <2>1. \A k \in Kinds : conn'[k].link = "up" => conn'[k].role # "none"
    BY <1>9 DEF HeardOK
  <2>2. ASSUME Listening("new", "events")'
        PROVE  /\ Len(conn'["new"].chan) >= 2
               /\ conn'["new"].chan[1].message.desc.present => Began(conn["new"].chan)'
    <3> DEFINE c == conn["new"].chan
    <3>1. Listening("new", "events") BY <1>9, <2>2, Kind DEF Listening
    <3>2. conn'["new"].chan = c \o H BY <1>9, <3>1, Kind
    <3>3. c \in Stream /\ Len(c) >= 2 /\ (c[1].message.desc.present => Began(c))
      BY <1>2, <3>1, Kind DEF HeardOK
    <3> HIDE DEF c
    <3>4. Len(c \o H) >= 2 /\ (c \o H)[1] = c[1]
      <4>1. /\ Len(c) \in Nat /\ Len(H) \in Nat /\ Len(c \o H) = Len(c) + Len(H)
            /\ \A i \in 1..Len(c) : (c \o H)[i] = c[i]
        BY <1>7, <3>3, Concat, Empty
      <4> QED BY <3>3, <4>1
    <3>5. Began(c) => Began(c \o H) BY <1>8, <3>3
    <3>6. Began(c \o H) => Began(conn["new"].chan)'
      <4> DEFINE u == c \o H
      <4>1. conn'["new"].chan = u BY <3>2
      <4> HIDE DEF u
      <4>2. Began(u) => Began(conn["new"].chan)' BY <4>1 DEF Began, Ends, EventAt
      <4> QED BY <4>2 DEF u
    <3> QED BY <3>2, <3>3, <3>4, <3>5, <3>6
  <2> QED BY <1>3, <2>1, <2>2 DEF HeardOK
<1> DEFINE report == Pairs(sval') \ Pairs(sval)
           j == IF conn["new"].link = "closed" THEN "event" ELSE "new"
<1>11. j \in {"event", "new"} /\ j \in Kinds BY Kind
<1>12. /\ Session("stream") = SessionIn(conn[j], View, News)
       /\ Session("stream")' = SessionIn(conn'[j], View', News')
  BY <1>9, SessionsAre, SessionsAreNext, Kind
<1>13. ASSUME NEW told \in SUBSET Controls, NEW values \in States
       PROVE  Bridge!Updated(Pairs([c \in told |-> values[c]]), report)
                = Pairs([c \in told \union S |-> Moved(values, S, sval')[c]])
  <2> HIDE DEF j
  <2> QED BY <1>2, <1>4, PairsMoved DEF S
<1>14. Listening(j, "events") => View' = Bridge!Updated(View, report)
  <2> SUFFICES ASSUME Listening(j, "events") PROVE View' = Bridge!Updated(View, report)
    OBVIOUS
  <2>1. CASE conn["new"].link = "closed"
    <3> DEFINE s == ebuf \o conn["event"].chan
               D == Drained(state, s)
    <3>1. j = "event" /\ conn'["new"].link = "closed" BY <1>9, <2>1, Kind
    <3>2. s \in Stream /\ D \in States BY <1>2, Concat, DrainedLeads, Kind
    <3>3. conn'["event"].chan = conn["event"].chan \o H BY <1>9, <3>1, Kind
    <3>4. ebuf \o conn'["event"].chan = s \o H
      <4>1. ebuf \o (conn["event"].chan \o H) = (ebuf \o conn["event"].chan) \o H
        BY <1>2, <1>7, Associative, Kind
      <4> QED BY <3>3, <4>1
    <3>5. View = Pairs(D) BY <2>1, HeardIs DEF ViewIn
    <3> HIDE DEF s, j, report
    <3>6. View' = Pairs(Drained(state, s \o H)) BY <1>3, <3>1, <3>4, HeardIs DEF ViewIn
    <3>7. Drained(state, s \o H) = Moved(D, S, sval') BY <1>8, <3>2
    <3> HIDE DEF D
    <3>8. [c \in Controls |-> D[c]] = D BY <3>2 DEF States
    <3>9. [c \in Controls \union S |-> Moved(D, S, sval')[c]] = Moved(D, S, sval')
      <4>1. Controls \union S = Controls BY <1>6
      <4> QED BY <4>1 DEF Moved
    <3>10. Controls \in SUBSET Controls OBVIOUS
    <3>11. Bridge!Updated(Pairs([c \in Controls |-> D[c]]), report)
             = Pairs([c \in Controls \union S |-> Moved(D, S, sval')[c]])
      BY <1>13, <3>2, <3>10
    <3> QED BY <3>5, <3>6, <3>7, <3>8, <3>9, <3>11
  <2>2. CASE conn["new"].link # "closed"
    <3> DEFINE s == conn["new"].chan
               D == Drained(state, s)
    <3>1. j = "new" /\ conn'["new"].link # "closed" BY <1>9, <2>2, Kind
    <3>2. s \in Stream /\ D \in States BY <1>2, DrainedLeads, Kind
    <3>3. conn'["new"].chan = s \o H BY <1>9, <3>1, Kind
    <3>4. ToldIn(s) \in SUBSET Controls BY <3>2, ToldIs
    <3>5. View = Pairs([c \in ToldIn(s) |-> D[c]]) BY <2>2, HeardIs DEF ViewIn
    <3> HIDE DEF s, j, report
    <3>6. View' = Pairs([c \in ToldIn(s \o H) |-> Drained(state, s \o H)[c]])
      BY <1>3, <3>1, <3>3, HeardIs DEF ViewIn
    <3>7. Drained(state, s \o H) = Moved(D, S, sval') /\ ToldIn(s \o H) = ToldIn(s) \union S
      BY <1>8, <3>2
    <3> HIDE DEF D
    <3>8. Bridge!Updated(Pairs([c \in ToldIn(s) |-> D[c]]), report)
            = Pairs([c \in ToldIn(s) \union S |-> Moved(D, S, sval')[c]])
      BY <1>13, <3>2, <3>4
    <3> QED BY <3>5, <3>6, <3>7, <3>8
  <2> QED BY <2>1, <2>2
<1>15. ~Listening(j, "events") => Session("stream")' = Session("stream")
  <2> SUFFICES ASSUME ~Listening(j, "events") PROVE Session("stream")' = Session("stream")
    OBVIOUS
  <2>1. conn'[j] = conn[j] BY <1>9, <1>11
  <2>2. conn[j].link # "up" \/ (conn[j].link = "up" /\ conn[j].role = "query" /\ conn[j].live = FALSE)
    BY <1>11, RolesAre DEF Listening
  <2> HIDE DEF j
  <2> QED BY <1>12, <2>1, <2>2, SessionOf
<1>16. Session("monitor")' = Session("monitor")
  <2>1. ~Listening("monitor", "events") BY <1>1 DEF PlaceOK, Listening
  <2>2. conn'["monitor"] = conn["monitor"] BY <1>9, <2>1, Kind
  <2>3. News' = News BY <1>3, <2>2, HeardIs
  <2> QED BY <2>2, <2>3, MonitorAlike
<1>17. Session("monitor").role # "events"
  <2>1. conn["monitor"].link = "up" => /\ conn["monitor"].role \in {"ask", "hotplug"}
                                       /\ conn["monitor"].live = FALSE
    BY RolesAre
  <2>2. Session("monitor") \in {Bridge!Closed, Bridge!Opened,
                                Bridge!Session("monitor", {}, FALSE, News)}
    BY <2>1, SessionsAre, SessionOf
  <2> QED BY <2>2 DEF Bridge!Closed, Bridge!Opened, Bridge!Session
<1> DEFINE now == [c \in Sessions |-> Session(c)]
           tells(s) == Bridge!Session(s.role, Bridge!Updated(s.view, report), s.live, s.news)
           next == [c \in Sessions |-> IF now[c].role = "events" THEN tells(now[c]) ELSE now[c]]
<1>18. now["stream"] = Session("stream") /\ now["monitor"] = Session("monitor")
  BY DEF Sessions
<1>19. \A c \in Sessions : next[c] = IF now[c].role = "events" THEN tells(now[c]) ELSE now[c]
  OBVIOUS
<1>20. \A view, live, news : tells(Bridge!Session("events", view, live, news))
                     = Bridge!Session("events", Bridge!Updated(view, report), live, news)
  BY DEF Bridge!Session
<1> HIDE DEF now, tells, next, j
<1>21. Session("stream")' = IF Session("stream").role = "events"
                            THEN tells(Session("stream")) ELSE Session("stream")
  <2>1. CASE Listening(j, "events")
    <3>1. Session("stream") = Bridge!Session("events", View, conn[j].live, NoNews)
      BY <1>12, <2>1, SessionOf DEF Listening
    <3>2. /\ conn'[j].link = "up" /\ conn'[j].role = "events" /\ conn'[j].live = conn[j].live
      BY <1>9, <1>11, <2>1 DEF Listening
    <3>3. SessionIn(conn'[j], View', News') = Bridge!Session("events", View', conn'[j].live, NoNews)
      BY <3>2, SessionOf
    <3>4. Session("stream").role = "events" BY <3>1 DEF Bridge!Session
    <3>5. tells(Session("stream"))
            = Bridge!Session("events", Bridge!Updated(View, report), conn[j].live, NoNews)
      BY <1>20, <3>1
    <3> QED BY <1>12, <1>14, <2>1, <3>2, <3>3, <3>4, <3>5
  <2>2. CASE ~Listening(j, "events")
    <3>1. conn[j].link # "up" \/ (conn[j].link = "up" /\ conn[j].role = "query" /\ conn[j].live = FALSE)
      BY <1>11, <2>2, RolesAre DEF Listening
    <3>2. Session("stream") \in {Bridge!Closed, Bridge!Opened} BY <1>12, <3>1, SessionOf
    <3>3. Session("stream").role # "events"
      BY <3>2 DEF Bridge!Closed, Bridge!Opened, Bridge!Session
    <3> QED BY <1>15, <2>2, <3>3
  <2> QED BY <2>1, <2>2
<1>22. Bridge!Keeping(next)
  <2>1. \A c \in Sessions : Session(c)' = next[c]
    BY <1>16, <1>17, <1>18, <1>19, <1>21 DEF Sessions
  <2> QED BY <2>1, KeepingIs
<1>23. DeviceOf(sdesc) # NoDevice /\ DeviceOf(sdesc') = DeviceOf(sdesc)
  BY <1>3, <1>4, DeviceIs
<1>24. Bridge!IsPicture(Pairs(sval')) BY <1>4, PairsPicture
<1>25. Bridge!Change
  BY <1>22, <1>23, <1>24 DEF Bridge!Change, Bridge!Telling, next, tells, now
<1> QED BY <1>10, <1>25 DEF Bridge!Next

LEMMA CutServes ==
  ASSUME IInv, LiveOK, HeardOK, NEW k \in Kinds, Cut(k)
  PROVE  HeardOK' /\ Bridge!Next
<1>1. conn \in [Kinds -> Channels] BY Types DEF IInv
<1>2. UNCHANGED <<sdesc, sval, descriptor, state, ebuf, mbuf>> /\ conn[k].link = "up"
  BY DEF Cut, ServiceOnly, public
<1>3. PICK n \in 0..Len(conn[k].chan) :
        conn' = [conn EXCEPT ![k] = Channel("cut", conn[k].role, conn[k].live,
                                            SubSeq(conn[k].chan, 1, n))]
  BY DEF Cut
<1> DEFINE c == Channel("cut", conn[k].role, conn[k].live, SubSeq(conn[k].chan, 1, n))
<1>4. c.link = "cut" BY DEF Channel
<1>5. conn' = [conn EXCEPT ![k] = c] BY <1>3
<1> HIDE DEF c
<1>6. conn'[k] = c /\ \A j \in Kinds : j # k => conn'[j] = conn[j] BY <1>1, <1>5
<1>7. HeardOK'
  <2>1. \A j \in Kinds : conn'[j].link = "up" => conn'[j].role # "none"
    BY <1>4, <1>6 DEF HeardOK
  <2>2. conn'["new"].link = "up" => conn'["new"] = conn["new"] BY <1>4, <1>6, Kind
  <2> QED BY <1>2, <2>1, <2>2, HeardKept DEF HeardOK, Listening
<1>8. conn'[k].link = "cut" BY <1>4, <1>6
<1>9. Session("monitor")' \in {Session("monitor"), Bridge!Closed}
  <2>1. CASE k = "monitor" BY <1>8, <2>1, SessionsAreNext, SessionOf
  <2>2. CASE k # "monitor"
    <3>1. conn'["monitor"] = conn["monitor"] BY <1>6, <2>2, Kind
    <3>2. News' = News BY <1>2, <3>1, HeardIs
    <3> QED BY <3>1, <3>2, MonitorAlike
  <2> QED BY <2>1, <2>2
<1>10. Session("stream")' \in {Session("stream"), Bridge!Closed}
  <2>1. CASE k = "monitor"
    <3>1. conn'["event"] = conn["event"] /\ conn'["new"] = conn["new"] BY <1>6, <2>1, Kind
    <3>2. View' = View BY <1>2, <3>1, HeardIs DEF ViewIn
    <3> QED BY <3>1, <3>2, StreamAlike
  <2>2. CASE k = "new"
    <3>1. conn'["new"].link = "cut" BY <1>8, <2>2
    <3>2. conn'["new"].link # "up" /\ conn'["new"].link # "closed" BY <3>1
    <3> QED BY <3>2, SessionsAreNext, SessionOf
  <2>3. CASE k = "event"
    <3>1. conn'["new"] = conn["new"] BY <1>6, <2>3, Kind
    <3>2. conn["new"].link = "closed" BY <1>2, <2>3, RolesAre
    <3>3. conn'["event"].link # "up" BY <1>8, <2>3
    <3> QED BY <3>1, <3>2, <3>3, SessionsAreNext, SessionOf
  <2> QED BY <2>1, <2>2, <2>3, Kind DEF Kinds
<1>11. \A d \in Sessions : Session(d)' \in {Session(d), Bridge!Closed}
  BY <1>9, <1>10 DEF Sessions
<1> QED BY <1>2, <1>7, <1>11, LoseIs

LEMMA ExitServes ==
  ASSUME IInv, LiveOK, HeardOK, Exit
  PROVE  HeardOK' /\ Bridge!Next
<1>1. UNCHANGED <<sdesc, sval, conn, descriptor, state, ebuf, mbuf>>
  BY DEF Exit, ServiceOnly, public
<1>2. HeardOK' BY <1>1, HeardKept DEF HeardOK, Listening
<1>3. View' = View /\ News' = News BY <1>1, HeardIs
<1>4. \A d \in Sessions : Session(d)' \in {Session(d), Bridge!Closed}
  BY <1>1, <1>3, StreamAlike, MonitorAlike DEF Sessions
<1> QED BY <1>1, <1>2, <1>4, LoseIs

LEMMA StartServes ==
  ASSUME IInv, LiveOK, HeardOK, Start
  PROVE  HeardOK' /\ Bridge!Next
<1>1. /\ UNCHANGED conn /\ sval' = Neutral /\ \A k \in Kinds : conn[k].link # "up"
      /\ sdesc' \in {Unknown} \union [present : {TRUE}, device : Devices]
  BY DEF Start
<1>2. /\ sdesc'.present => sdesc'.device \in Devices
      /\ DeviceOf(sdesc') \in Devices \union {NoDevice}
  <2>1. CASE sdesc' = Unknown
    <3>1. sdesc'.present = FALSE BY <2>1 DEF Unknown
    <3> QED BY <3>1 DEF DeviceOf
  <2>2. CASE sdesc' \in [present : {TRUE}, device : Devices]
    <3>1. sdesc'.present = TRUE /\ sdesc'.device \in Devices BY <2>2
    <3> QED BY <3>1 DEF DeviceOf
  <2> QED BY <1>1, <2>1, <2>2
<1>3. HeardOK' BY <1>1, <1>2, HeardKept, Kind DEF HeardOK, Listening
<1>4. \A d \in Sessions : Session(d) = Bridge!Closed /\ Session(d)' = Bridge!Closed
  <2>1. /\ SessionIn(conn["event"], View, News) = Bridge!Closed
        /\ SessionIn(conn["new"], View, News) = Bridge!Closed
        /\ SessionIn(conn["monitor"], View, News) = Bridge!Closed
        /\ SessionIn(conn["event"], View', News') = Bridge!Closed
        /\ SessionIn(conn["new"], View', News') = Bridge!Closed
        /\ SessionIn(conn["monitor"], View', News') = Bridge!Closed
    BY <1>1, Kind, SessionOf
  <2>2. Session("stream") = Bridge!Closed /\ Session("monitor") = Bridge!Closed
    BY <2>1, SessionsAre
  <2>3. Session("stream")' = Bridge!Closed /\ Session("monitor")' = Bridge!Closed
    BY <1>1, <2>1, SessionsAreNext
  <2> QED BY <2>2, <2>3 DEF Sessions
<1>5. [d \in Sessions |-> Session(d)]' = [d \in Sessions |-> Session(d)] BY <1>4
<1>6. \A d \in Sessions : [e \in Sessions |-> Session(e)][d].role = "closed"
  BY <1>4 DEF Bridge!Closed, Bridge!Session
<1>7. Pairs(sval') = Pairs(Neutral) BY <1>1
<1>8. Bridge!Restart BY <1>2, <1>5, <1>6, <1>7 DEF Bridge!Restart
<1> QED BY <1>3, <1>8 DEF Bridge!Next

-----------------------------------------------------------------------------
(* The steps of the library open and lose sessions, and change no other. *)

\* A message taken over leaves the news what it was.
LEMMA NewsTake ==
  ASSUME NEW r \in Stream, NEW t \in Stream, Len(r) = 2,
         r[1].message = r[2].message, NEW held
  PROVE  NewsIn(r[1].message.desc, <<>> \o t) = NewsIn(held, r \o t)
<1> DEFINE s == r \o t
<1>1. /\ Len(s) = Len(t) + 2 /\ Len(t) \in Nat /\ s \in Stream /\ s[2] = r[2]
      /\ \A i \in 1..Len(t) : s[i + 2] = t[i]
  <2>1. /\ r \o t \in Stream /\ Len(r \o t) = Len(r) + Len(t)
        /\ \A i \in 1..Len(r) : (r \o t)[i] = r[i]
        /\ \A i \in 1..Len(t) : (r \o t)[i + Len(r)] = t[i]
    BY Concat
  <2>2. 2 \in 1..2 OBVIOUS
  <2> QED BY <2>1, <2>2, Empty
<1> HIDE DEF s
<1>2. s # <<>> /\ <<>> \o t = t BY <1>1, Empty
<1>3. NewsIn(held, s) = DeviceOf(s[Len(s)].message.desc) BY <1>2 DEF NewsIn
<1>4. CASE t = <<>>
  <2>1. Len(s) = 2 BY <1>1, <1>4, Empty
  <2>2. s[Len(s)].message = r[1].message BY <1>1, <2>1
  <2> QED BY <1>2, <1>3, <1>4, <2>2 DEF NewsIn, s
<1>5. CASE t # <<>>
  <2>1. Len(t) \in 1..Len(t) BY <1>1, <1>5, Empty
  <2>2. s[Len(s)] = t[Len(t)] BY <1>1, <2>1
  <2> QED BY <1>2, <1>3, <1>5, <2>2 DEF NewsIn, s
<1> QED BY <1>4, <1>5

LEMMA MonitorTaken ==
  ASSUME IInv, News' = News,
         conn'["monitor"].link = conn["monitor"].link,
         conn'["monitor"].role = conn["monitor"].role,
         conn'["monitor"].live = conn["monitor"].live
  PROVE  Session("monitor")' = Session("monitor")
<1>1. conn["monitor"].role # "events" BY DEF IInv, PlaceOK
<1>2. SessionIn(conn'["monitor"], View', News') = SessionIn(conn["monitor"], View, News)
  BY <1>1 DEF SessionIn
<1> QED BY <1>2, SessionsAre, SessionsAreNext

LEMMA QuietServes ==
  ASSUME IInv, LiveOK, HeardOK, UNCHANGED <<sdesc, sval, conn, descriptor, state, ebuf, mbuf>>
  PROVE  HeardOK' /\ Bridge!Next
<1>1. HeardOK' BY HeardKept DEF HeardOK, Listening
<1>2. View' = View /\ News' = News BY HeardIs
<1>3. \A d \in Sessions : Session(d)' \in {Session(d), Bridge!Closed}
  BY <1>2, StreamAlike, MonitorAlike DEF Sessions
<1> QED BY <1>1, <1>3, LoseIs

\* A new connection of a session, the others being as before or closed.
LEMMA FreshIs ==
  /\ \A view, news : /\ SessionIn(Connected("query"), view, news) = Bridge!Opened
                     /\ SessionIn(Connected("ask"), view, news) = Bridge!Opened
                     /\ SessionIn(Closed, view, news) = Bridge!Closed
  /\ Connected("query").link = "up" /\ Connected("query").role = "query"
  /\ Connected("ask").link = "up" /\ Connected("ask").role = "ask"
  /\ Closed.link = "closed"
<1>1. /\ Connected("query").link = "up" /\ Connected("query").role = "query"
      /\ Connected("query").live = FALSE
      /\ Connected("ask").link = "up" /\ Connected("ask").role = "ask"
      /\ Connected("ask").live = FALSE
      /\ Closed.link = "closed"
  BY FixedChannels
<1>2. ASSUME NEW view, NEW news
      PROVE  /\ SessionIn(Connected("query"), view, news) = Bridge!Opened
             /\ SessionIn(Connected("ask"), view, news) = Bridge!Opened
             /\ SessionIn(Closed, view, news) = Bridge!Closed
  <2> DEFINE q == Connected("query")
             a == Connected("ask")
             z == Closed
  <2>1. /\ q.link = "up" /\ q.role \in {"query", "ask"} /\ q.live = FALSE
        /\ a.link = "up" /\ a.role \in {"query", "ask"} /\ a.live = FALSE
        /\ z.link # "up"
    BY <1>1
  <2> HIDE DEF q, a, z
  <2>2. SessionIn(q, view, news) = Bridge!Opened BY <2>1, SessionOf
  <2>3. SessionIn(a, view, news) = Bridge!Opened BY <2>1, SessionOf
  <2>4. SessionIn(z, view, news) = Bridge!Closed BY <2>1, SessionOf
  <2> QED BY <2>2, <2>3, <2>4 DEF q, a, z
<1> QED BY <1>1, <1>2

\* The stream is opened, closed or left alone while its descriptor is not waited for.
LEMMA StreamSteps ==
  ASSUME IInv, LiveOK, HeardOK, UNCHANGED <<sdesc, sval>>, conn["new"].link = "closed",
         Session("monitor")' \in {Session("monitor"), Bridge!Closed},
         conn'["monitor"].link = "up" => conn'["monitor"].role # "none",
         \/ /\ conn'["event"] = conn["event"] /\ conn'["new"] = conn["new"]
            /\ UNCHANGED <<state, ebuf>>
         \/ conn'["event"] = Closed /\ conn'["new"] = conn["new"]
         \/ /\ conn'["new"] = Connected("query")
            /\ conn'["event"] \in {Closed, conn["event"]}
  PROVE  HeardOK' /\ Bridge!Next
<1>1. HeardOK'
  <2>1. \A k \in Kinds : conn'[k].link = "up" => conn'[k].role # "none"
    BY FreshIs, Kind DEF HeardOK, Kinds
  <2>2. ~(conn'["new"].link = "up" /\ conn'["new"].role = "events") BY FreshIs
  <2> QED BY <2>1, <2>2, HeardKept DEF HeardOK
<1>2. CASE conn'["new"] = Connected("query")
  <2>1. conn'["new"].link # "closed" BY <1>2, FreshIs
  <2>2. Session("stream")' = Bridge!Opened BY <1>2, <2>1, FreshIs, SessionsAreNext
  <2>3. "stream" \in Sessions /\ \A d \in Sessions \ {"stream"} : d = "monitor" BY DEF Sessions
  <2>4. \A d \in Sessions \ {"stream"} : Session(d)' \in {Session(d), Bridge!Closed} BY <2>3
  <2> QED BY <1>1, <2>2, <2>3, <2>4, OpenIs
<1>3. CASE conn'["event"] = Closed /\ conn'["new"] = conn["new"]
  <2>1. Session("stream")' = Bridge!Closed BY <1>3, FreshIs, SessionsAreNext
  <2>2. \A d \in Sessions : Session(d)' \in {Session(d), Bridge!Closed} BY <2>1 DEF Sessions
  <2> QED BY <1>1, <2>2, LoseIs
<1>4. CASE /\ conn'["event"] = conn["event"] /\ conn'["new"] = conn["new"]
           /\ UNCHANGED <<state, ebuf>>
  <2>1. View' = View BY <1>4, HeardIs
  <2>2. Session("stream")' = Session("stream") BY <1>4, <2>1, StreamAlike
  <2>3. \A d \in Sessions : Session(d)' \in {Session(d), Bridge!Closed} BY <2>2 DEF Sessions
  <2> QED BY <1>1, <2>3, LoseIs
<1> QED BY <1>2, <1>3, <1>4

LEMMA AppliedServes ==
  ASSUME IInv, LiveOK, HeardOK, UNCHANGED service, conn["new"].link = "closed",
         NEW message, NEW conns \in [Kinds -> Channels], NEW next,
         conns["event"] = conn["event"], conns["new"] = conn["new"],
         conns["monitor"].link = conn["monitor"].link,
         conns["monitor"].role = conn["monitor"].role,
         conns["monitor"].live = conn["monitor"].live,
         NewsIn(message.desc, mbuf' \o conns["monitor"].chan) = News,
         apply_hotplug(message, conns, next)
  PROVE  HeardOK' /\ Bridge!Next
<1>1. UNCHANGED <<sdesc, sval>> BY DEF service
<1>2. descriptor' = message.desc /\ conn'["monitor"] = conns["monitor"]
      /\ (\/ /\ conn'["event"] = conn["event"] /\ conn'["new"] = conn["new"]
             /\ UNCHANGED <<state, ebuf>>
          \/ conn'["event"] = Closed /\ conn'["new"] = conn["new"]
          \/ conn'["event"] = Closed /\ conn'["new"] = Connected("query"))
  <2>1. CASE message.desc = descriptor
    BY <2>1 DEF apply_hotplug
  <2>2. CASE message.desc # descriptor
    <3> DEFINE rest == [conns EXCEPT !["event"] = Closed]
    <3>1. descriptor' = message.desc /\ (conn' = rest \/ conn' = [rest EXCEPT !["new"] = Connected("query")])
      BY <2>2 DEF apply_hotplug, open_event_stream
    <3>2. /\ rest \in [Kinds -> Channels] /\ rest["event"] = Closed
          /\ rest["monitor"] = conns["monitor"] /\ rest["new"] = conn["new"]
      BY Kind, FixedChannels
    <3> HIDE DEF rest
    <3> QED BY <3>1, <3>2, Kind
  <2> QED BY <2>1, <2>2
<1>3. News' = News BY <1>2, HeardIs
<1>4. Session("monitor")' = Session("monitor") BY <1>2, <1>3, MonitorTaken
<1>5. conn'["monitor"].link = "up" => conn'["monitor"].role # "none"
  BY <1>2, Kind DEF HeardOK
<1> QED BY <1>1, <1>2, <1>4, <1>5, StreamSteps

LEMMA NotOpening ==
  ASSUME IInv, pc # "wait_stream"
  PROVE  conn["new"].link = "closed"
BY DEF IInv, TypeOK

LEMMA MonitorServes ==
  ASSUME IInv, LiveOK, HeardOK,
         MonitorAnswered \/ RefreshReceive \/ RefreshLost \/ MonitorRefused
  PROVE  HeardOK' /\ Bridge!Next
<1>1. /\ conn \in [Kinds -> Channels] /\ conn["monitor"] \in Channels
      /\ conn["monitor"].chan \in Stream /\ mbuf \in Stream
      /\ PlaceOK /\ StreamsOK
  BY Types, Kind DEF IInv
<1>2. conn["new"].link = "closed"
  <2>1. pc # "wait_stream" BY DEF MonitorAnswered, RefreshReceive, RefreshLost, MonitorRefused
  <2> QED BY <2>1, NotOpening
<1> DEFINE conns(n) == [conn EXCEPT !["monitor"] = Skip(conn["monitor"], n)]
           c == conn["monitor"].chan
           received(n) == mbuf \o SubSeq(c, 1, n)
           rest(n) == SubSeq(c, n + 1, Len(c))
<1>3. ASSUME NEW n \in 1..Len(c)
      PROVE  /\ conns(n) \in [Kinds -> Channels]
             /\ conns(n)["event"] = conn["event"] /\ conns(n)["new"] = conn["new"]
             /\ conns(n)["monitor"].link = conn["monitor"].link
             /\ conns(n)["monitor"].live = conn["monitor"].live
             /\ conns(n)["monitor"].role = conn["monitor"].role
             /\ conns(n)["monitor"].chan = rest(n)
  <2>1. /\ Skip(conn["monitor"], n) \in Channels
        /\ Skip(conn["monitor"], n).link = conn["monitor"].link
        /\ Skip(conn["monitor"], n).live = conn["monitor"].live
        /\ Skip(conn["monitor"], n).role = conn["monitor"].role
        /\ Skip(conn["monitor"], n).chan = rest(n)
    BY <1>1, SkipIs
  <2>2. conns(n)["monitor"] = Skip(conn["monitor"], n) BY <1>1, Kind
  <2> QED BY <1>1, <2>1, <2>2, Kind
<1>4. ASSUME NEW n \in 1..Len(c)
      PROVE  /\ received(n) \in Stream /\ rest(n) \in Stream
             /\ received(n) \o rest(n) = mbuf \o c
             /\ Len(received(n)) = 2 =>
                  NewsIn(received(n)[1].message.desc, <<>> \o rest(n)) = News
  <2>1. received(n) \in Stream /\ rest(n) \in Stream /\ received(n) \o rest(n) = mbuf \o c
    BY <1>1, Take
  <2>2. News = NewsIn(descriptor, mbuf \o c) BY HeardIs
  <2>3. Good(conn["monitor"].link, mbuf \o c) BY <1>1 DEF StreamsOK
  <2> DEFINE r == received(n)
             t == rest(n)
  <2> HIDE DEF c, received, rest, r, t
  <2>4. r \in Stream /\ t \in Stream /\ r \o t = mbuf \o c BY <2>1 DEF r, t
  <2>5. ASSUME Len(r) = 2 PROVE NewsIn(r[1].message.desc, <<>> \o t) = News
    <3>1. Good(conn["monitor"].link, r \o t) BY <2>3, <2>4
    <3>2. r[1].message = r[2].message BY <2>4, <2>5, <3>1, GoodDrop
    <3>3. NewsIn(r[1].message.desc, <<>> \o t) = NewsIn(descriptor, r \o t)
      BY <2>4, <2>5, <3>2, NewsTake
    <3> QED BY <2>2, <2>4, <3>3
  <2> QED BY <2>1, <2>5 DEF r, t
<1>5. CASE MonitorAnswered
  <2>1. /\ Len(c) >= 2 /\ UNCHANGED service /\ mbuf' = <<>> /\ pc = "wait_monitor"
        /\ apply_hotplug(c[1].message, conns(2), "return")
    BY <1>5 DEF MonitorAnswered, Answered
  <2>2. 2 \in 1..Len(c) BY <1>1, <2>1, Empty
  <2>3. mbuf = <<>> BY <1>1, <2>1 DEF PlaceOK
  <2>4. Len(received(2)) = 2 /\ received(2)[1] = c[1]
    <3>1. /\ SubSeq(c, 1, 2) \in Stream /\ Len(SubSeq(c, 1, 2)) = 2
          /\ SubSeq(c, 1, 2)[1] = c[1]
      <4>1. 2 \in 0..Len(c) /\ 1 \in 1..(Len(c) + 1) /\ 1 <= 2 + 1 BY <1>1, <2>1, Empty
      <4>2. /\ SubSeq(c, 1, 2) \in Stream /\ Len(SubSeq(c, 1, 2)) = 2 - 1 + 1
            /\ \A i \in 1..(2 - 1 + 1) : SubSeq(c, 1, 2)[i] = c[1 + i - 1]
        BY <1>1, <4>1, Sub
      <4>3. 1 \in 1..(2 - 1 + 1) /\ 1 + 1 - 1 = 1 OBVIOUS
      <4> QED BY <4>2, <4>3
    <3>2. received(2) = SubSeq(c, 1, 2) BY <2>3, <3>1, Empty
    <3> QED BY <3>1, <3>2
  <2> HIDE DEF conns, received, rest
  <2>5. NewsIn(c[1].message.desc, mbuf' \o conns(2)["monitor"].chan) = News
    BY <1>3, <1>4, <2>1, <2>2, <2>4
  <2> HIDE DEF c
  <2> QED BY <1>2, <1>3, <2>1, <2>2, <2>5, AppliedServes
<1>6. CASE RefreshReceive
  <2>1. PICK n \in Chunks("monitor", mbuf) :
          IF Len(received(n)) = 2
            THEN mbuf' = <<>> /\ apply_hotplug(received(n)[1].message, conns(n), "refresh")
            ELSE mbuf' = received(n) /\ conn' = conns(n) /\ UNCHANGED <<descriptor, state, ebuf>>
    BY <1>6 DEF RefreshReceive
  <2>2. n \in 1..Len(c) BY <1>1, Empty DEF Chunks
  <2>3. UNCHANGED service BY <1>6 DEF RefreshReceive
  <2> HIDE DEF received, conns, rest, c
  <2>4. CASE Len(received(n)) = 2
    <3>1. NewsIn(received(n)[1].message.desc, mbuf' \o conns(n)["monitor"].chan) = News
      BY <1>3, <1>4, <2>1, <2>2, <2>4
    <3> QED BY <1>2, <1>3, <2>1, <2>2, <2>3, <2>4, <3>1, AppliedServes
  <2>5. CASE Len(received(n)) # 2
    <3>1. News' = News
      <4>1. mbuf' \o conn'["monitor"].chan = mbuf \o c
        <5>1. mbuf' = received(n) /\ conn' = conns(n) BY <2>1, <2>5
        <5>2. conn'["monitor"].chan = rest(n) BY <1>3, <2>2, <5>1
        <5> QED BY <1>4, <2>2, <5>1, <5>2
      <4>2. News' = NewsIn(descriptor', mbuf' \o conn'["monitor"].chan)
            /\ News = NewsIn(descriptor, mbuf \o c)
        BY HeardIs DEF c
      <4> QED BY <2>1, <2>5, <4>1, <4>2
    <3>2. conn' = conns(n) /\ UNCHANGED <<sdesc, sval, state, ebuf>>
      BY <2>1, <2>3, <2>5 DEF service
    <3>3. Session("monitor")' = Session("monitor") BY <1>3, <2>2, <3>1, <3>2, MonitorTaken
    <3>4. conn'["monitor"].link = "up" => conn'["monitor"].role # "none"
      BY <1>3, <2>2, <3>2, Kind DEF HeardOK
    <3> QED BY <1>2, <1>3, <2>2, <3>2, <3>3, <3>4, StreamSteps
  <2> QED BY <2>4, <2>5
<1>7. CASE RefreshLost \/ MonitorRefused
  <2>1. UNCHANGED <<sdesc, sval>> BY <1>7 DEF RefreshLost, MonitorRefused, service
  <2>2. \/ conn' = [conn EXCEPT !["monitor"] = Closed] /\ UNCHANGED <<state, ebuf>>
        \/ conn' = [conn EXCEPT !["monitor"] = Closed, !["event"] = Closed]
    BY <1>7 DEF RefreshLost, MonitorRefused, public
  <2>3. /\ conn'["monitor"] = Closed /\ conn'["new"] = conn["new"]
        /\ conn'["event"] = Closed \/ (conn'["event"] = conn["event"] /\ UNCHANGED <<state, ebuf>>)
    BY <1>1, <2>2, Kind
  <2>4. Session("monitor")' = Bridge!Closed BY <2>3, FreshIs, SessionsAreNext
  <2>5. conn'["monitor"].link = "up" => conn'["monitor"].role # "none" BY <2>3, FreshIs
  <2> QED BY <1>2, <2>1, <2>3, <2>4, <2>5, StreamSteps
<1> QED BY <1>5, <1>6, <1>7

LEMMA StreamServes ==
  ASSUME IInv, LiveOK, HeardOK, StreamAnswered \/ StreamRefused
  PROVE  HeardOK' /\ Bridge!Next
<1>1. TypeOK /\ PlaceOK /\ StreamsOK BY DEF IInv
<1>2. /\ conn \in [Kinds -> Channels] /\ conn["new"] \in Channels
      /\ conn["new"].chan \in Stream /\ state \in States
  BY <1>1, Types, Kind DEF TypeOK
<1>3. UNCHANGED <<sdesc, sval, descriptor, mbuf>> /\ pc = "wait_stream"
  BY DEF StreamAnswered, StreamRefused, service, public
<1>4. conn["new"].link # "closed" /\ conn["event"].link = "closed"
  BY <1>1, <1>3 DEF TypeOK, PlaceOK
<1>5. \/ conn' = [conn EXCEPT !["new"] = Closed]
      \/ /\ state' = Neutral /\ ebuf' = <<>> /\ Len(conn["new"].chan) >= 2
         /\ conn["new"].chan[1].message.desc.present
         /\ conn' = [conn EXCEPT !["event"] = Skip(conn["new"], 2), !["new"] = Closed]
  BY DEF StreamAnswered, StreamRefused, Answered, close_event_stream
<1>6. conn'["monitor"] = conn["monitor"] /\ conn'["new"] = Closed
  BY <1>2, <1>5, Kind
<1>7. Session("monitor")' = Session("monitor")
  <2>1. News' = News BY <1>3, <1>6, HeardIs
  <2> QED BY <1>6, <2>1, MonitorAlike
<1>8. CASE conn' = [conn EXCEPT !["new"] = Closed]
  <2>1. conn'["event"] = conn["event"] BY <1>2, <1>8, Kind
  <2>2. HeardOK'
    <3>1. \A k \in Kinds : conn'[k].link = "up" => conn'[k].role # "none"
      BY <1>6, <2>1, FreshIs DEF HeardOK, Kinds
    <3> QED BY <1>3, <1>6, <3>1, FreshIs, HeardKept DEF HeardOK
  <2>3. Session("stream")' = Bridge!Closed
    <3>1. conn'["event"].link # "up" /\ conn'["new"].link = "closed"
      BY <1>4, <1>6, <2>1, FreshIs
    <3> QED BY <3>1, SessionsAreNext, SessionOf
  <2>4. \A d \in Sessions : Session(d)' \in {Session(d), Bridge!Closed}
    BY <1>7, <2>3 DEF Sessions
  <2> QED BY <1>3, <2>2, <2>4, LoseIs
<1>9. CASE /\ state' = Neutral /\ ebuf' = <<>> /\ Len(conn["new"].chan) >= 2
           /\ conn["new"].chan[1].message.desc.present
           /\ conn' = [conn EXCEPT !["event"] = Skip(conn["new"], 2), !["new"] = Closed]
  <2> DEFINE c == conn["new"].chan
             e == Skip(conn["new"], 2)
  <2>1. 2 \in 1..Len(c) BY <1>2, <1>9, Empty
  <2>2. /\ e \in Channels /\ e.link = conn["new"].link /\ e.role = conn["new"].role
        /\ e.live = conn["new"].live /\ e.chan = SubSeq(c, 3, Len(c))
    BY <1>2, <2>1, SkipIs
  <2>3. conn'["event"] = e
    <3> HIDE DEF e
    <3>1. conn' = [conn EXCEPT !["event"] = e, !["new"] = Closed] BY <1>9 DEF e
    <3> QED BY <1>2, <3>1, Kind
  <2> HIDE DEF e
  <2>4. HeardOK'
    <3>1. \A k \in Kinds : conn'[k].link = "up" => conn'[k].role # "none"
      BY <1>6, <2>2, <2>3, FreshIs DEF HeardOK, Kinds
    <3> QED BY <1>3, <1>6, <3>1, FreshIs, HeardKept DEF HeardOK
  <2>5. Session("stream")' \in {Session("stream"), Bridge!Closed}
    <3>1. /\ Session("stream") = SessionIn(conn["new"], View, News)
          /\ Session("stream")' = SessionIn(e, View', News')
      BY <1>4, <1>6, <2>3, FreshIs, SessionsAre, SessionsAreNext
    <3>2. CASE conn["new"].link # "up" BY <2>2, <3>1, <3>2, SessionOf
    <3>3. CASE conn["new"].link = "up"
      <4>1. conn["new"].role = "events"
        <5>1. c # <<>> BY <2>1, Empty
        <5> QED BY <1>1, <3>3, <5>1, RolesAre DEF PlaceOK
      <4>2. Began(c) BY <1>9, <3>3, <4>1 DEF HeardOK, Listening
      <4>3. Good("up", c) BY <1>1, <3>3 DEF StreamsOK
      <4>4. View = Pairs([x \in ToldIn(c) |-> Drained(state, c)[x]])
        BY <1>4, HeardIs DEF ViewIn
      <4>5. View' = Pairs(Drained(Neutral, <<>> \o SubSeq(c, 3, Len(c))))
        <5>1. conn'["new"].link = "closed" /\ conn'["event"].chan = SubSeq(c, 3, Len(c))
          BY <1>6, <2>2, <2>3, FreshIs
        <5> HIDE DEF c
        <5> QED BY <1>9, <5>1, HeardIs DEF ViewIn
      <4> HIDE DEF c
      <4>6. c \in Stream BY <1>2 DEF c
      <4>7. Drained(Neutral, <<>> \o SubSeq(c, 3, Len(c))) = Drained(state, c)
        BY <1>2, <4>2, <4>3, <4>6, NeutralIs, BeganDrained
      <4>8. ToldIn(c) = Controls BY <4>2, <4>6, BeganAll
      <4>9. [x \in Controls |-> Drained(state, c)[x]] = Drained(state, c)
        <5>1. Drained(state, c) \in States BY <1>2, <4>6, DrainedLeads
        <5> QED BY <5>1 DEF States
      <4>10. View' = View BY <4>4, <4>5, <4>7, <4>8, <4>9
      <4> QED BY <2>2, <3>1, <4>1, <4>10, SessionSame
    <3> QED BY <3>2, <3>3
  <2>6. \A d \in Sessions : Session(d)' \in {Session(d), Bridge!Closed}
    BY <1>7, <2>5 DEF Sessions
  <2> QED BY <1>3, <2>4, <2>6, LoseIs
<1> QED BY <1>5, <1>8, <1>9

LEMMA EventsReceiveServes ==
  ASSUME IInv, LiveOK, HeardOK, EventsReceive
  PROVE  HeardOK' /\ Bridge!Next
<1>1. TypeOK /\ StreamsOK BY DEF IInv
<1> DEFINE c == conn["event"].chan
           received(n) == ebuf \o SubSeq(c, 1, n)
<1>2. PICK n \in Chunks("event", ebuf) :
        /\ conn' = [conn EXCEPT !["event"] = Skip(conn["event"], n)]
        /\ IF Len(received(n)) = 2
             THEN /\ state' = process_event(state, received(n)[1].message)
                  /\ ebuf' = <<>>
             ELSE ebuf' = received(n) /\ UNCHANGED state
  BY DEF EventsReceive
<1>3. /\ conn \in [Kinds -> Channels] /\ conn["event"] \in Channels /\ c \in Stream
      /\ ebuf \in Stream /\ state \in States
  BY <1>1, Types, Kind DEF TypeOK
<1>4. n \in 1..Len(c) /\ UNCHANGED <<sdesc, sval, descriptor, mbuf>> /\ pc = "events"
  BY <1>3, Empty DEF Chunks, EventsReceive, service
<1> DEFINE r == received(n)
           t == SubSeq(c, n + 1, Len(c))
<1>5. /\ conn'["monitor"] = conn["monitor"] /\ conn'["new"] = conn["new"]
      /\ conn'["event"].link = conn["event"].link /\ conn'["event"].role = conn["event"].role
      /\ conn'["event"].live = conn["event"].live /\ conn'["event"].chan = t
  BY <1>2, <1>3, <1>4, SkipIs, Kind
<1>6. r \in Stream /\ t \in Stream /\ r \o t = ebuf \o c BY <1>3, <1>4, Take
<1>7. conn["new"].link = "closed" BY <1>4, NotOpening
<1>8. HeardOK'
  <2>1. \A k \in Kinds : conn'[k].link = "up" => conn'[k].role # "none"
    BY <1>5 DEF HeardOK, Kinds
  <2> QED BY <1>4, <1>5, <1>7, <2>1, HeardKept DEF HeardOK
<1>9. Drained(state', ebuf' \o t) = Drained(state, ebuf \o c)
  <2>1. CASE Len(r) = 2
    <3>1. state' = process_event(state, r[1].message) /\ ebuf' = <<>> BY <1>2, <2>1
    <3>2. Good(conn["event"].link, r \o t) BY <1>1, <1>6 DEF StreamsOK
    <3> HIDE DEF r, t, c
    <3>0. r \in Stream /\ t \in Stream BY <1>6
    <3>3. /\ r[1] \in Items /\ r[1].message = r[2].message
          /\ r[1].half = 1 /\ r[2].half = 2
      BY <2>1, <3>0, <3>2, GoodDrop
    <3>4. r[1].message \in Messages BY <3>3 DEF Items
    <3>5. Drained(process_event(state, r[1].message), t) = Drained(state, r \o t)
      BY <1>3, <1>6, <2>1, <3>3, <3>4, DrainedTake
    <3>6. <<>> \o t = t BY <1>6, Empty
    <3> QED BY <1>6, <3>1, <3>5, <3>6
  <2>2. CASE Len(r) # 2
    <3>1. ebuf' = r /\ state' = state BY <1>2, <2>2
    <3> HIDE DEF r, t, c
    <3> QED BY <1>6, <3>1
  <2> QED BY <2>1, <2>2
<1> HIDE DEF r, t
<1>10. View' = View BY <1>5, <1>7, <1>9, HeardIs DEF ViewIn
<1>11. Session("stream")' = Session("stream")
  <2>1. conn["event"].role # "hotplug" BY DEF IInv, PlaceOK
  <2>2. SessionIn(conn'["event"], View', News') = SessionIn(conn["event"], View, News)
    BY <1>5, <1>10, <2>1 DEF SessionIn
  <2> QED BY <1>5, <1>7, <2>2, SessionsAre, SessionsAreNext
<1>12. Session("monitor")' = Session("monitor")
  <2>1. News' = News BY <1>4, <1>5, HeardIs
  <2> QED BY <1>5, <2>1, MonitorAlike
<1>13. \A d \in Sessions : Session(d)' \in {Session(d), Bridge!Closed}
  BY <1>11, <1>12 DEF Sessions
<1> QED BY <1>4, <1>8, <1>13, LoseIs

LEMMA NextServes ==
  ASSUME IInv, LiveOK, HeardOK, [Next]_vars
  PROVE  HeardOK' /\ Bridge!Next
<1>1. conn \in [Kinds -> Channels] BY Types DEF IInv
<1>2. PlaceOK BY DEF IInv
<1>3. CASE \/ RefreshDrained \/ EventsDrained \/ UNCHANGED vars
           \/ \E k \in {"refresh", "update"} : Call(k)
  <2>1. UNCHANGED <<sdesc, sval, conn, descriptor, state, ebuf, mbuf>>
    BY <1>3 DEF RefreshDrained, EventsDrained, Call, vars, service, public
  <2> QED BY <2>1, QuietServes
<1>4. CASE OpenMonitor
  <2>1. UNCHANGED <<sdesc, sval, descriptor, state, ebuf, mbuf>>
    BY <1>4 DEF OpenMonitor, service, public
  <2>2. CASE conn' = conn BY <2>1, <2>2, QuietServes
  <2>3. CASE conn' = [conn EXCEPT !["monitor"] = Connected("ask")]
    <3>1. /\ conn'["event"] = conn["event"] /\ conn'["new"] = conn["new"]
          /\ conn'["monitor"] = Connected("ask")
      BY <1>1, <2>3, Kind
    <3>2. HeardOK'
      <4>1. \A k \in Kinds : conn'[k].link = "up" => conn'[k].role # "none"
        BY <3>1, FreshIs DEF HeardOK, Kinds
      <4> QED BY <2>1, <3>1, <4>1, HeardKept DEF HeardOK, Listening
    <3>3. View' = View BY <2>1, <3>1, HeardIs
    <3>4. Session("stream")' = Session("stream") BY <3>1, <3>3, StreamAlike
    <3>5. Session("monitor")' = Bridge!Opened BY <3>1, FreshIs, SessionsAreNext
    <3>6. /\ "monitor" \in Sessions
          /\ \A d \in Sessions \ {"monitor"} : Session(d)' \in {Session(d), Bridge!Closed}
      BY <3>4 DEF Sessions
    <3> QED BY <2>1, <3>2, <3>5, <3>6, OpenIs
  <2> QED BY <1>4, <2>2, <2>3 DEF OpenMonitor
<1>5. CASE Update
  <2>1. UNCHANGED <<sdesc, sval, descriptor, state, ebuf, mbuf>> /\ pc = "update"
    BY <1>5 DEF Update, service, public
  <2>2. CASE conn' = conn BY <2>1, <2>2, QuietServes
  <2>3. CASE conn' = [conn EXCEPT !["new"] = Connected("query")]
    <3>1. /\ conn'["event"] = conn["event"] /\ conn'["new"] = Connected("query")
          /\ conn'["monitor"] = conn["monitor"]
      BY <1>1, <2>3, Kind
    <3>2. conn["new"].link = "closed" BY <2>1, NotOpening
    <3>3. News' = News BY <2>1, <3>1, HeardIs
    <3>4. Session("monitor")' = Session("monitor") BY <3>1, <3>3, MonitorAlike
    <3>5. conn'["monitor"].link = "up" => conn'["monitor"].role # "none"
      BY <3>1, Kind DEF HeardOK
    <3> QED BY <2>1, <3>1, <3>2, <3>4, <3>5, StreamSteps
  <2> QED BY <1>5, <2>2, <2>3 DEF Update, open_event_stream
<1>6. CASE EventsLost
  <2>1. /\ UNCHANGED <<sdesc, sval, descriptor, mbuf>> /\ pc = "events"
        /\ conn' = [conn EXCEPT !["event"] = Closed]
    BY <1>6 DEF EventsLost, service
  <2>2. /\ conn'["event"] = Closed /\ conn'["monitor"] = conn["monitor"]
        /\ conn'["new"] = conn["new"]
    BY <1>1, <2>1, Kind
  <2>3. conn["new"].link = "closed" BY <2>1, NotOpening
  <2>4. News' = News BY <2>1, <2>2, HeardIs
  <2>5. Session("monitor")' = Session("monitor") BY <2>2, <2>4, MonitorAlike
  <2>6. conn'["monitor"].link = "up" => conn'["monitor"].role # "none"
    BY <2>2, Kind DEF HeardOK
  <2> QED BY <2>1, <2>2, <2>3, <2>5, <2>6, StreamSteps
<1>7. CASE \E k \in Kinds : Answer(k) \/ Cut(k) BY <1>7, AnswerServes, CutServes
<1>8. CASE Remove \/ Add \/ Input \/ Exit \/ Start
  BY <1>8, RemoveServes, AddServes, InputServes, ExitServes, StartServes
<1>9. CASE \/ MonitorAnswered \/ RefreshReceive \/ RefreshLost \/ MonitorRefused
  BY <1>9, MonitorServes
<1>10. CASE StreamAnswered \/ StreamRefused BY <1>10, StreamServes
<1>11. CASE EventsReceive BY <1>11, EventsReceiveServes
<1> QED BY <1>3, <1>4, <1>5, <1>6, <1>7, <1>8, <1>9, <1>10, <1>11
        DEF Next, LibStep, Service

LEMMA InitServes == ASSUME Init PROVE HeardOK /\ Bridge!Init
<1>1. /\ \A k \in Kinds : conn[k] = Closed
      /\ sdesc \in {Unknown} \union [present : {TRUE}, device : Devices]
      /\ sval = Neutral
  BY DEF Init
<1>2. /\ sdesc.present => sdesc.device \in Devices
      /\ DeviceOf(sdesc) \in Devices \union {NoDevice}
  <2>1. CASE sdesc = Unknown
    <3>1. sdesc.present = FALSE BY <2>1 DEF Unknown
    <3> QED BY <3>1 DEF DeviceOf
  <2>2. CASE sdesc \in [present : {TRUE}, device : Devices]
    <3>1. sdesc.present = TRUE /\ sdesc.device \in Devices BY <2>2
    <3> QED BY <3>1 DEF DeviceOf
  <2> QED BY <1>1, <2>1, <2>2
<1>3. HeardOK BY <1>1, <1>2, FreshIs, Kind DEF HeardOK, Listening
<1>4. Session("monitor") = Bridge!Closed /\ Session("stream") = Bridge!Closed
  BY <1>1, FreshIs, Kind, SessionsAre
<1>5. [c \in Sessions |-> Session(c)] = [c \in Sessions |-> Bridge!Closed]
  BY <1>4 DEF Sessions
<1>6. Pairs(sval) = Pairs(Neutral) BY <1>1
<1>7. Bridge!Init BY <1>2, <1>5, <1>6 DEF Bridge!Init
<1> QED BY <1>3, <1>7

-----------------------------------------------------------------------------
(* The service's own theorem, of the sessions of this library. *)

Client == INSTANCE BridgeServiceProofs WITH
             Conns   <- Sessions,
             device  <- DeviceOf(sdesc),
             picture <- Pairs(sval),
             session <- [c \in Sessions |-> Session(c)],
             Zero    <- Pairs(Neutral)

LEMMA SameService == Bridge!Spec => Client!Spec
<1>1. Bridge!Init => Client!Init
  BY DEF Bridge!Init, Client!Init, Bridge!Closed, Client!Closed, Bridge!Session,
         Client!Session
<1>2. Bridge!Next => Client!Next
  BY DEF Bridge!Next, Client!Next, Bridge!Lose, Client!Lose, Bridge!Open,
         Client!Open, Bridge!Query, Client!Query, Bridge!Monitor,
         Client!Monitor, Bridge!Change, Client!Change, Bridge!Remove,
         Client!Remove, Bridge!Add, Client!Add, Bridge!Restart, Client!Restart,
         Bridge!Keeping, Client!Keeping, Bridge!Telling, Client!Telling,
         Bridge!Closed, Client!Closed, Bridge!Opened, Client!Opened,
         Bridge!Session, Client!Session, Bridge!CodesIn, Client!CodesIn,
         Bridge!IsPicture, Client!IsPicture, Bridge!Updated, Client!Updated
<1>3. UNCHANGED Bridge!vars => UNCHANGED Client!vars BY DEF Bridge!vars, Client!vars
<1> QED BY <1>1, <1>2, <1>3, PTL DEF Bridge!Spec, Client!Spec

-----------------------------------------------------------------------------
(* The theorems. *)

\* Every variable of the library and of its connections keeps its type, and a
\* stream is being opened exactly while update or refresh waits for its
\* descriptor (src/termux_gamepad.c:18-27 and 162-186).
THEOREM TypeCorrect == Spec => []TypeOK
<1>1. IInv => TypeOK BY DEF IInv
<1> QED BY <1>1, Invariant, PTL

\* However recv cuts them and whenever a connection is closed and opened again,
\* what a buffer holds and what is still to come are whole messages
\* (monitor_used and event_used, src/termux_gamepad.c:158, 229, 378).
THEOREM WholeMessages == Spec => []Framed
<1>1. IInv => Framed BY DEF IInv, StreamsOK, Good, Framed
<1> QED BY <1>1, Invariant, PTL

\* A stream is open only while a device is shown, and without a stream the
\* state is that of an untouched gamepad (close_event_stream and its callers,
\* src/termux_gamepad.c:153-206, 380-384).
THEOREM NoInputWithoutStream == Spec => []NoStreamNoInput
<1>1. IInv => NoStreamNoInput BY DEF IInv
<1> QED BY <1>1, Invariant, PTL

\* A refresh that returns 0 leaves the descriptor as the application knew it,
\* whatever it read, reopened and lost (src/termux_gamepad.c:339-387).
THEOREM RefreshIsHonest == Spec => []RefreshTells
<1>1. IInv => RefreshTells BY DEF IInv, TellsOK
<1> QED BY <1>1, Invariant, PTL

\* While the device that a stream was opened for is there, the public state and
\* what is on its way to it add up to the bridge's state, for every order of
\* hotplug messages, partial reads and reconnections (update and process_event,
\* src/termux_gamepad.c:252-285, 403-423).
THEOREM StreamsCatchUp == Spec => []CatchesUp
<1>1. Init => IInv /\ LiveOK BY InitIInv, InitLive
<1>2. IInv /\ LiveOK /\ [Next]_vars => (IInv /\ LiveOK)' BY NextIInv, NextLive
<1>3. IInv /\ LiveOK => CatchesUp
  <2> SUFFICES ASSUME IInv, LiveOK, conn["event"].link = "up", conn["event"].live
               PROVE  Drained(state, ebuf \o conn["event"].chan) = sval
    BY DEF CatchesUp
  <2>1. TypeOK BY DEF IInv
  <2>2. /\ state \in States /\ sval \in States /\ ebuf \in Stream
        /\ conn["event"].chan \in Stream
    BY <2>1, Types, Kind DEF TypeOK
  <2>3. Leads(state, ebuf \o conn["event"].chan, sval) BY DEF LiveOK, Live
  <2> QED BY <2>2, <2>3, Concat, LeadsIsDrained
<1> QED BY <1>1, <1>2, <1>3, PTL DEF Spec

\* What the library relies on is what the bridge promises: the descriptor,
\* snapshot, reports and hotplug messages that GamepadClient's bridge sends, and
\* every half of them the library reads, keeps over a call or drops with its
\* connection, are steps of BridgeService (termux_gamepad_refresh and
\* termux_gamepad_update, src/termux_gamepad.c:339-387 and 389-424).
THEOREM LibraryReliesOnService == Spec => KeepsToService
<1>1. Init => IInv /\ LiveOK /\ HeardOK /\ Bridge!Init
  BY InitIInv, InitLive, InitServes
<1>2. IInv /\ LiveOK /\ HeardOK /\ [Next]_vars
        => (IInv /\ LiveOK /\ HeardOK)' /\ [Bridge!Next]_(Bridge!vars)
  BY NextIInv, NextLive, NextServes
<1> QED BY <1>1, <1>2, PTL DEF Spec, KeepsToService, Bridge!Spec

\* Hence what the bridge's clients may rely on holds of the library: of a live
\* stream, what the library has read and what is on its way say the state of
\* the bridge's controller, and the last hotplug message of a monitor is the
\* device there is, wherever recv cuts and whatever is closed and reopened.
THEOREM LibraryIsTold == Spec => []Bridge!Kept
<1>1. Client!IsPicture(Pairs(Neutral))
  <2>1. Bridge!IsPicture(Pairs(Neutral)) BY NeutralIs, PairsPicture
  <2> QED BY <2>1 DEF Bridge!IsPicture, Client!IsPicture, Bridge!CodesIn, Client!CodesIn
<1>2. Client!Spec => []Client!Kept BY <1>1, Client!ServiceKept
<1>3. Client!Kept => Bridge!Kept BY DEF Client!Kept, Bridge!Kept
<1> QED BY <1>2, <1>3, SameService, LibraryReliesOnService, PTL DEF KeepsToService
=============================================================================
