----------------------------- MODULE BridgeProofs -----------------------------
(***************************************************************************)
(* The bridge, for any number of slots, connections, devices, events and   *)
(* messages: types and the rumble aggregate; that what the clients were    *)
(* told is what the bridge holds; whom a step may close; that it is a      *)
(* BridgeService; and that the motors run for somebody or not at all.      *)
(***************************************************************************)
EXTENDS BridgeRefinement, XiInputProofs, WellFoundedInduction

(* Highest: the maximum a loop over the clients computes. *)

\* The loop's maximum is one of the values, or the 0 it starts from, and no
\* value is above it.
LEMMA HighestInSet ==
  ASSUME NEW N \in Nat, NEW S, S \subseteq 0..N
  PROVE  Highest(S) \in S \union {0} /\ \A y \in S : y <= Highest(S)
<1> DEFINE T == S \union {0}
           Bounds == {u \in Nat : \A y \in T : y <= u}
<1>1. T \subseteq Nat /\ 0 \in T
  OBVIOUS
<1>2. N \in Bounds
  OBVIOUS
<1>3. PICK u \in Bounds : \A v \in Bounds : ~(<<v, u>> \in OpToRel(<, Nat))
  BY <1>2, WFMin, NatLessThanWellFounded
<1>4. \A v \in Bounds : ~(v < u)
  BY <1>3 DEF OpToRel
<1>5. u \in T
  <2>1. SUFFICES ASSUME u \notin T
                 PROVE  FALSE
    OBVIOUS
  <2>2. \A y \in T : y \in Nat /\ y <= u /\ y # u
    BY <1>1, <2>1
  <2>3. u > 0 /\ u - 1 \in Nat
    BY <1>1, <2>2
  <2>4. \A y \in T : y <= u - 1
    BY <2>2, <2>3
  <2>5. u - 1 \in Bounds
    BY <2>3, <2>4
  <2> QED BY <1>4, <2>3, <2>5
<1>6. \E x \in T : \A y \in T : y <= x
  BY <1>5
<1> HIDE DEF T
<1>7. LET x == CHOOSE x \in T : \A y \in T : y <= x
      IN x \in T /\ \A y \in T : y <= x
  BY <1>6
<1> QED BY <1>7 DEF Highest, T

\* With nobody asking for anything the maximum is 0.
LEMMA HighestOfZero == Highest({0}) = 0
<1>1. {0} \subseteq 0..0 /\ 0 \in Nat
  OBVIOUS
<1>2. Highest({0}) \in {0} \union {0}
  BY <1>1, HighestInSet
<1> QED BY <1>2

\* A maximum over the clients stays within the type of the field.
LEMMA HighestInRange ==
  ASSUME NEW N \in Nat, NEW S, S \subseteq 0..N
  PROVE  Highest(S) \in 0..N
<1>1. Highest(S) \in S \union {0}
  BY HighestInSet
<1>2. 0 \in 0..N
  OBVIOUS
<1> QED BY <1>1, <1>2

-----------------------------------------------------------------------------
(* The client table. *)

Motors == [low : Levels, high : Levels, ttl : Ticks]
Strengths == [low : Levels, high : Levels]

\* The levels are an initial segment of the naturals.
LEMMA LevelRange == \E N \in Nat : Levels = 0..N
<1> DEFINE N == 65535
<1>1. N \in Nat
  OBVIOUS
<1>2. Levels = 0..N
  BY DEF Levels
<1> HIDE DEF N
<1> QED BY <1>1, <1>2

\* A free slot is a slot.
LEMMA FreeSlotType == FreeSlot \in SlotRecords
<1>1. 0 \in Levels
  BY LevelRange
<1> QED BY <1>1, BridgeAssumption DEF FreeSlot, SlotRecords, Kinds, Ticks

LEMMA SlotFields ==
  ASSUME NEW c \in SlotRecords
  PROVE  /\ c.conn \in Conns \union {NoConn} /\ c.kind \in Kinds
         /\ c.used \in 0..BufferSize
         /\ c.low \in Levels /\ c.high \in Levels /\ c.ttl \in Ticks
BY DEF SlotRecords

LEMMA DemandType ==
  ASSUME NEW cl \in [Slots -> SlotRecords]
  PROVE  Demand(cl) \in Strengths
<1>1. \A s \in Slots : cl[s].low \in Levels /\ cl[s].high \in Levels
  BY SlotFields
<1>2. /\ {cl[s].low : s \in Slots} \subseteq Levels
      /\ {cl[s].high : s \in Slots} \subseteq Levels
  BY <1>1
<1>3. \A S : S \subseteq Levels => Highest(S) \in Levels
  BY LevelRange, HighestInRange
<1>4. /\ Highest({cl[s].low : s \in Slots}) \in Levels
      /\ Highest({cl[s].high : s \in Slots}) \in Levels
  BY <1>2, <1>3
<1> QED BY <1>4 DEF Demand, Strengths

LEMMA LongestType ==
  ASSUME NEW cl \in [Slots -> SlotRecords]
  PROVE  LongestRemaining(cl) \in Ticks
<1>1. {cl[s].ttl : s \in {s \in Slots : Rumbling(cl[s])}} \subseteq 0..MaxDuration
  BY SlotFields DEF Ticks
<1> QED BY <1>1, HighestInRange, BridgeAssumption DEF LongestRemaining, Ticks

\* Two tables that ask for the same levels have the same demand.
LEMMA SameDemand ==
  ASSUME NEW cl, NEW new,
         \A s \in Slots : new[s].low = cl[s].low /\ new[s].high = cl[s].high
  PROVE  Demand(new) = Demand(cl)
<1>1. /\ {new[s].low : s \in Slots} = {cl[s].low : s \in Slots}
      /\ {new[s].high : s \in Slots} = {cl[s].high : s \in Slots}
  OBVIOUS
<1> QED BY <1>1 DEF Demand

\* What an expiry leaves of a clean table: a clean table with the same
\* connections, kinds and queues.
LEMMA ExpiredType ==
  ASSUME NEW cl, CleanTable(cl)
  PROVE  /\ CleanTable(Expired(cl))
         /\ \A s \in Slots : /\ Expired(cl)[s].conn = cl[s].conn
                             /\ Expired(cl)[s].kind = cl[s].kind
                             /\ Expired(cl)[s].used = cl[s].used
<1>1. \A s \in Slots :
        Expired(cl)[s] = IF cl[s].ttl = 0
                         THEN [cl[s] EXCEPT !.low = 0, !.high = 0] ELSE cl[s]
  BY DEF Expired
<1>2. \A s \in Slots : cl[s] \in SlotRecords
  BY DEF CleanTable
<1>3. \A s \in Slots : /\ Expired(cl)[s] \in SlotRecords
                       /\ Expired(cl)[s].conn = cl[s].conn
                       /\ Expired(cl)[s].kind = cl[s].kind
                       /\ Expired(cl)[s].used = cl[s].used
  <2>1. 0 \in Levels
    BY LevelRange
  <2>2. \A c \in SlotRecords :
          LET d == [c EXCEPT !.low = 0, !.high = 0] IN
          /\ d \in SlotRecords
          /\ d.conn = c.conn /\ d.kind = c.kind /\ d.used = c.used
    BY <2>1 DEF SlotRecords
  <2> QED BY <1>1, <1>2, <2>2
<1>4. \A s \in Slots : cl[s] = FreeSlot => Expired(cl)[s] = FreeSlot
  <2>1. /\ FreeSlot = [field \in DOMAIN FreeSlot |-> FreeSlot[field]]
        /\ FreeSlot.low = 0 /\ FreeSlot.high = 0
    BY DEF FreeSlot
  <2>2. /\ [FreeSlot EXCEPT !.low = 0] = FreeSlot
        /\ [FreeSlot EXCEPT !.high = 0] = FreeSlot
    BY <2>1
  <2> QED BY <1>1, <2>2
<1>5. Expired(cl) \in [Slots -> SlotRecords]
  BY <1>3 DEF Expired
<1> QED BY <1>3, <1>4, <1>5 DEF CleanTable

\* The result of update_rumble, whoever calls it: a clean table with the same
\* connections, and active_rumble its demand.
LEMMA UpdateRumble ==
  ASSUME NEW dev, NEW cl, CleanTable(cl), NEW force,
         motor \in Motors, update_rumble(dev, cl, force)
  PROVE  /\ CleanTable(clients')
         /\ active' \in Strengths /\ motor' \in Motors
         /\ active' = Demand(clients')
         /\ \A s \in Slots : /\ clients'[s].conn = cl[s].conn
                             /\ clients'[s].kind = cl[s].kind
                             /\ clients'[s].used = cl[s].used
<1> DEFINE left == Expired(cl)
           level == Demand(left)
           longest == LongestRemaining(left)
<1>1. CleanTable(left)
  BY ExpiredType
<1>2. level \in Strengths /\ longest \in Ticks
  BY <1>1, DemandType, LongestType DEF CleanTable
<1>3. 0 \in Levels
  BY LevelRange
<1>4. 0 \in Ticks
  BY BridgeAssumption DEF Ticks
<1>5. \A l \in Strengths : \A t \in Ticks : send_lorie_rumble(dev, l, t) \in Motors
  BY <1>3, <1>4 DEF send_lorie_rumble, MotorOff, Motors, Strengths
<1>6. /\ clients' = left /\ active' = level
      /\ motor' = IF level = Quiet
                  THEN IF active # Quiet THEN send_lorie_rumble(dev, Quiet, 0)
                                         ELSE motor
                  ELSE IF force \/ level # active
                  THEN send_lorie_rumble(dev, level, longest)
                  ELSE motor
  BY DEF update_rumble
<1> HIDE DEF left, level, longest
<1>7. motor' \in Motors
  BY <1>2, <1>4, <1>5, <1>6
<1>8. active' = Demand(clients')
  BY <1>6 DEF level
<1> QED BY <1>1, <1>2, <1>6, <1>7, <1>8, ExpiredType DEF left

\* What update_rumble and close_client leave behind: a clean table, and the
\* aggregate the bridge remembers equal to what the clients ask for.
TableOK ==
  /\ CleanTable(clients)
  /\ active \in Strengths /\ motor \in Motors
  /\ active = Demand(clients)
  /\ open \subseteq Conns /\ inbox \in [Conns -> Seq(Messages)]

\* A slot was closed, or keeps its connection and kind and its stream says
\* what was heard.
SlotsHear(kinds, heard) ==
  /\ DOMAIN told' = Slots
  /\ \A s \in Slots :
       \/ clients'[s] = FreeSlot /\ told'[s] = NothingTold
       \/ clients'[s].kind = kinds[s].kind /\ told'[s] = heard[s]

\* The result of closing clients: their slots are free, the others keep their
\* connection, kind and queue; active_rumble is again the demand.
LEMMA CloseClients ==
  ASSUME NEW dev, NEW cl, NEW dropped, dropped \subseteq Slots, NEW heard,
         \A s \in Slots \ dropped : cl[s] \in SlotRecords,
         \A s \in Slots \ dropped : cl[s].conn = NoConn => cl[s] = FreeSlot,
         \A s \in Slots : cl[s].low \in Levels /\ cl[s].high \in Levels,
         motor \in Motors, active = Demand(cl), active \in Strengths,
         open \subseteq Conns, inbox \in [Conns -> Seq(Messages)],
         close_clients(dev, cl, dropped, heard)
  PROVE  TableOK' /\ SlotsHear(cl, heard)
<1> DEFINE kept == [s \in Slots |-> IF s \in dropped THEN FreeSlot ELSE cl[s]]
<1>1. CleanTable(kept)
  BY FreeSlotType DEF CleanTable
<1>2. /\ open' \subseteq Conns
      /\ told' = [s \in Slots |-> IF s \in dropped THEN NothingTold
                                  ELSE heard[s]]
  BY DEF close_clients
<1>3. inbox' \in [Conns -> Seq(Messages)]
  BY DEF close_clients
<1>4. FreeSlot.conn = NoConn /\ FreeSlot.kind = "uninitialized"
      /\ FreeSlot.low = 0 /\ FreeSlot.high = 0
  BY DEF FreeSlot
<1>5. CASE \E s \in dropped : Rumbling(cl[s])
  <2>1. update_rumble(dev, kept, TRUE)
    BY <1>5 DEF close_clients
  <2> HIDE DEF kept
  <2>2. /\ CleanTable(clients')
        /\ active' \in Strengths /\ motor' \in Motors
        /\ active' = Demand(clients')
        /\ \A s \in Slots : /\ clients'[s].conn = kept[s].conn
                            /\ clients'[s].kind = kept[s].kind
    BY <1>1, <2>1, UpdateRumble
  <2>3. \A s \in dropped : clients'[s].conn = NoConn
    BY <1>4, <2>2 DEF kept
  <2>4. \A s \in dropped : clients'[s] = FreeSlot
    BY <2>2, <2>3 DEF CleanTable
  <2> QED BY <1>2, <1>3, <2>2, <2>4 DEF kept, TableOK, SlotsHear
<1>6. CASE ~\E s \in dropped : Rumbling(cl[s])
  <2>1. clients' = kept /\ active' = active /\ motor' = motor
    BY <1>6 DEF close_clients
  <2>2. \A s \in Slots : kept[s].low = cl[s].low /\ kept[s].high = cl[s].high
    <3>1. \A s \in dropped : cl[s].low = 0 /\ cl[s].high = 0
      BY <1>6, LevelRange DEF Rumbling
    <3> QED BY <1>4, <3>1
  <2> HIDE DEF kept
  <2>3. Demand(kept) = Demand(cl)
    BY <2>2, SameDemand
  <2>4. \A s \in Slots : kept[s] = IF s \in dropped THEN FreeSlot ELSE cl[s]
    BY DEF kept
  <2> QED BY <1>1, <1>2, <1>3, <2>1, <2>3, <2>4 DEF TableOK, SlotsHear
<1> QED BY <1>5, <1>6

\* A write takes a queue to a length it may have, or fails.
LEMMA QueueBytesType ==
  ASSUME NEW c, NEW used \in 0..BufferSize
  PROVE  /\ queue_bytes(c, used) \subseteq {Dropped} \union 0..BufferSize
         /\ flush_client(c, used) \subseteq {Dropped} \union 0..BufferSize
BY BridgeAssumption DEF queue_bytes, flush_client

\* The same after a broadcast to the clients of a kind.
LEMMA Broadcast ==
  ASSUME TableOK, NEW dev, NEW kind \in {"events", "monitor"}, NEW heard,
         broadcast(dev, kind, heard)
  PROVE  TableOK' /\ SlotsHear(clients, heard)
<1> DEFINE targets == {s \in Slots : clients[s].kind = kind}
<1>1. PICK sent \in [targets -> Dropped..BufferSize] :
        /\ \A s \in targets : sent[s] \in queue_bytes(clients[s].conn, clients[s].used)
        /\ close_clients(dev,
             [s \in Slots |-> IF s \in targets
                              THEN [clients[s] EXCEPT !.used = sent[s]]
                              ELSE clients[s]],
             {s \in targets : sent[s] = Dropped},
             heard)
  BY DEF broadcast
<1> DEFINE cl == [s \in Slots |-> IF s \in targets
                                  THEN [clients[s] EXCEPT !.used = sent[s]]
                                  ELSE clients[s]]
           dropped == {s \in targets : sent[s] = Dropped}
<1>2. dropped \subseteq Slots
  OBVIOUS
<1>3. \A s \in Slots : clients[s] \in SlotRecords
  BY DEF TableOK, CleanTable
<1>4. \A s \in targets : sent[s] \in {Dropped} \union 0..BufferSize
  BY <1>1, <1>3, QueueBytesType, SlotFields
<1>5. \A s \in Slots : /\ cl[s].conn = clients[s].conn
                       /\ cl[s].kind = clients[s].kind
                       /\ cl[s].low = clients[s].low
                       /\ cl[s].high = clients[s].high
  BY <1>3 DEF SlotRecords
<1>6. \A s \in Slots \ dropped : cl[s] \in SlotRecords
  BY <1>3, <1>4 DEF SlotRecords
<1>7. \A s \in Slots : cl[s].conn = NoConn => cl[s] = FreeSlot
  <2>1. FreeSlot.kind \notin {"events", "monitor"}
    BY DEF FreeSlot
  <2> QED BY <1>5, <2>1 DEF TableOK, CleanTable
<1>8. \A s \in Slots : cl[s].low \in Levels /\ cl[s].high \in Levels
  BY <1>3, <1>5, SlotFields
<1>9. Demand(cl) = Demand(clients)
  BY <1>5, SameDemand
<1> HIDE DEF cl, dropped
<1>10. TableOK' /\ SlotsHear(cl, heard)
  BY <1>1, <1>2, <1>6, <1>7, <1>8, <1>9, CloseClients DEF cl, dropped, TableOK
<1> QED BY <1>5, <1>10 DEF SlotsHear

\* The same after the answer to a query or a monitor request: the client is
\* closed, or is of its new kind and was told the answer.
LEMMA AnswerClient ==
  ASSUME TableOK, NEW s \in Slots, clients[s].conn # NoConn,
         NEW kind \in Kinds, NEW messages, NEW hears,
         Answer(s, kind, messages, hears)
  PROVE  /\ TableOK'
         /\ SlotsHear([clients EXCEPT ![s].kind = kind], [told EXCEPT ![s] = hears])
<1> DEFINE first == queue_bytes(clients[s].conn, clients[s].used)
           second == UNION {IF u = Dropped THEN {Dropped}
                            ELSE queue_bytes(clients[s].conn, u) : u \in first}
           sizes == {Dropped} \union 0..BufferSize
           heard == [told EXCEPT ![s] = hears]
<1>1. \A t \in Slots : clients[t] \in SlotRecords
  BY DEF TableOK, CleanTable
<1>2. first \subseteq sizes
  BY <1>1, QueueBytesType, SlotFields
<1>3. second \subseteq sizes
  BY <1>2, QueueBytesType
<1>4. PICK used \in sizes :
        close_clients(device,
          [clients EXCEPT ![s].kind = kind, ![s].used = used],
          IF used = Dropped THEN {s} ELSE {}, heard)
  BY <1>2, <1>3 DEF Answer
<1> DEFINE cl == [clients EXCEPT ![s].kind = kind, ![s].used = used]
           dropped == IF used = Dropped THEN {s} ELSE {}
<1>5. dropped \subseteq Slots
  OBVIOUS
<1>6. \A t \in Slots : /\ cl[t].conn = clients[t].conn
                       /\ cl[t].kind = IF t = s THEN kind ELSE clients[t].kind
                       /\ cl[t].low = clients[t].low
                       /\ cl[t].high = clients[t].high
                       /\ t # s => cl[t] = clients[t]
  BY <1>1 DEF SlotRecords, TableOK, CleanTable
<1>7. \A t \in Slots \ dropped : cl[t] \in SlotRecords
  BY <1>1 DEF SlotRecords, TableOK, CleanTable
<1>8. \A t \in Slots : cl[t].conn = NoConn => cl[t] = FreeSlot
  BY <1>6 DEF TableOK, CleanTable
<1>9. \A t \in Slots : cl[t].low \in Levels /\ cl[t].high \in Levels
  BY <1>1, <1>6, SlotFields
<1>10. Demand(cl) = Demand(clients)
  BY <1>6, SameDemand
<1>11. \A t \in Slots : cl[t].kind = [clients EXCEPT ![s].kind = kind][t].kind
  BY <1>1 DEF SlotRecords, TableOK, CleanTable
<1>12. close_clients(device, cl, dropped, heard)
  BY <1>4
<1> HIDE DEF cl, dropped, heard, first, second, sizes
<1>13. TableOK' /\ SlotsHear(cl, heard)
  BY <1>5, <1>7, <1>8, <1>9, <1>10, <1>12, CloseClients DEF TableOK
<1> QED BY <1>11, <1>13 DEF SlotsHear, heard

\* The same after one client was closed by the serving loop or at the end.
LEMMA CloseClient ==
  ASSUME TableOK, NEW s \in Slots, Close(s)
  PROVE  TableOK' /\ SlotsHear(clients, told)
<1>1. \A t \in Slots : clients[t] \in SlotRecords
  BY DEF TableOK, CleanTable
<1>2. \A t \in Slots : clients[t].low \in Levels /\ clients[t].high \in Levels
  BY <1>1, SlotFields
<1> QED BY <1>1, <1>2, CloseClients DEF Close, TableOK, CleanTable

-----------------------------------------------------------------------------
(* The inductive invariant: the table, the types of the rest, and where the  *)
(* serving loop may be while it handles messages.                            *)

PcLabels == {"poll", "pump1", "accept", "serve", "pump2", "tick", "closing",
             "stopped"}

ServerOK ==
  /\ xdev \in Devices \union {NoDevice} /\ device \in Devices \union {NoDevice}
  /\ adding \in Devices \union {NoDevice}
  /\ xqueue \in Seq(XEvents) /\ selected \subseteq DeviceIds
  /\ x_error \in BOOLEAN /\ IsGamepadState(state)

LoopOK ==
  /\ running \in BOOLEAN /\ pc \in PcLabels
  /\ cursor \in 0..MaxClients /\ control \in Seq(Messages)
  /\ revents \in [server : BOOLEAN, slot : [Slots -> SUBSET {"IN", "OUT", "HUP"}]]
  /\ backlog \in Seq(Conns) /\ fresh \subseteq Slots

\* Messages are only handled for a client that is there.
CursorOK ==
  /\ pc = "serve" => cursor \in Slots
  /\ control # <<>> => pc = "serve" /\ clients[cursor].conn # NoConn

IInv == TableOK /\ ServerOK /\ LoopOK /\ CursorOK

\* The invariant is what the two properties say, and CursorOK.
LEMMA InvariantImplies == IInv => TypeOK /\ ActiveIsDemand
BY DEF IInv, TableOK, ServerOK, LoopOK, PcLabels, TypeOK, ActiveIsDemand, Motors,
       Strengths

LEMMA ZeroStateType == IsGamepadState(ZeroState)
BY DEF IsGamepadState, ZeroState, Axes

LEMMA NoReventsType ==
  NoRevents \in [server : BOOLEAN, slot : [Slots -> SUBSET {"IN", "OUT", "HUP"}]]
BY DEF NoRevents

\* An empty table is clean and asks for nothing.
LEMMA EmptyTable ==
  LET cl == [s \in Slots |-> FreeSlot] IN CleanTable(cl) /\ Demand(cl) = Quiet
<1> DEFINE cl == [s \in Slots |-> FreeSlot]
<1>1. CleanTable(cl)
  BY FreeSlotType DEF CleanTable
<1>2. 0 \in Slots
  BY BridgeAssumption DEF Slots
<1>3. FreeSlot.low = 0 /\ FreeSlot.high = 0
  BY DEF FreeSlot
<1>4. /\ {cl[s].low : s \in Slots} = {0}
      /\ {cl[s].high : s \in Slots} = {0}
  BY <1>2, <1>3
<1>5. Demand(cl) = Quiet
  BY <1>4, HighestOfZero DEF Demand, Quiet
<1> QED BY <1>1, <1>5

LEMMA InitInvariant == Init => IInv
<1> SUFFICES ASSUME Init PROVE IInv
  OBVIOUS
<1>1. Quiet \in Strengths /\ MotorOff \in Motors
  <2>1. 0 \in Levels /\ 0 \in Ticks
    BY LevelRange, BridgeAssumption DEF Ticks
  <2> QED BY <2>1 DEF Quiet, MotorOff, Strengths, Motors
<1>2. TableOK
  BY <1>1, EmptyTable DEF Init, TableOK
<1>3. ServerOK
  <2>1. selected \subseteq DeviceIds
    BY DEF Init, Present, Devices
  <2>2. /\ xdev \in Devices \union {NoDevice} /\ device \in Devices \union {NoDevice}
        /\ adding \in Devices \union {NoDevice}
    BY Zenon DEF Init
  <2>3. xqueue \in Seq(XEvents)
    BY DEF Init
  <2>4. x_error \in BOOLEAN
    BY Zenon DEF Init
  <2>5. IsGamepadState(state)
    BY ZeroStateType DEF Init
  <2> QED BY <2>1, <2>2, <2>3, <2>4, <2>5 DEF ServerOK
<1>4. LoopOK /\ CursorOK
  BY NoReventsType, BridgeAssumption DEF Init, LoopOK, CursorOK, PcLabels
<1> QED BY <1>2, <1>3, <1>4 DEF IInv

\* A step that leaves the table and the clients' sockets alone.
LEMMA TableUnchanged ==
  ASSUME TableOK, UNCHANGED <<clients, active, motor, open, inbox>>
  PROVE  TableOK'
BY DEF TableOK

-----------------------------------------------------------------------------
(* One lemma for each step of the bridge. *)

LEMMA PollStep == IInv /\ Poll => IInv'
<1> SUFFICES ASSUME IInv, Poll PROVE IInv'
  OBVIOUS
<1>1. TableOK'
  BY TableUnchanged DEF IInv, Poll, table
<1>2. ServerOK'
  BY DEF IInv, Poll, xvars, ServerOK
<1>3. LoopOK'
  <2>1. revents' \in [server : BOOLEAN, slot : [Slots -> SUBSET {"IN", "OUT", "HUP"}]]
    <3>1. PICK slot \in [Slots -> SUBSET {"IN", "OUT", "HUP"}] :
            revents' = [server |-> backlog # <<>>, slot |-> slot]
      BY DEF Poll
    <3> QED BY <3>1
  <2> QED BY <2>1 DEF IInv, Poll, LoopOK, PcLabels, Goto
<1>4. CursorOK'
  BY DEF IInv, Poll, table, CursorOK, Goto
<1> QED BY <1>1, <1>2, <1>3, <1>4 DEF IInv

\* What the X server queues.
LEMMA XEventsType ==
  ASSUME NEW e \in XEvents, e # Hierarchy
  PROVE  e.id \in DeviceIds /\ IsXiEvent(e.event)
<1>1. e \in [type : {"device"}, id : DeviceIds, event : DeviceEvents]
  BY DEF XEvents
<1> QED BY <1>1, BridgeAssumption

LEMMA QueueHead ==
  ASSUME xqueue \in Seq(XEvents), xqueue # <<>>
  PROVE  Head(xqueue) \in XEvents /\ Tail(xqueue) \in Seq(XEvents)
OBVIOUS

LEMMA PumpDeviceEventStep == IInv /\ PumpDeviceEvent => IInv'
<1> SUFFICES ASSUME IInv, PumpDeviceEvent PROVE IInv'
  OBVIOUS
<1> DEFINE e == Head(xqueue)
           hears(t) == [t EXCEPT !.view = Told(@, Report(state, e.event))]
<1>1. /\ e \in XEvents /\ e # Hierarchy
      /\ xqueue' = Tail(xqueue) /\ Tail(xqueue) \in Seq(XEvents)
  BY QueueHead DEF IInv, ServerOK, PumpDeviceEvent
<1>2. IsXiEvent(e.event)
  BY <1>1, XEventsType
<1>3. \/ UNCHANGED table
      \/ broadcast(device, "events", Hears("events", hears))
  BY DEF PumpDeviceEvent
<1>4. TableOK'
  <2>1. CASE UNCHANGED table
    BY <2>1, TableUnchanged DEF IInv, table
  <2>2. CASE broadcast(device, "events", Hears("events", hears))
    BY <2>2, Broadcast DEF IInv
  <2> QED BY <1>3, <2>1, <2>2
<1>5. IsGamepadState(state')
  <2>1. state' = state \/ state' = After(state, e.event)
    BY DEF PumpDeviceEvent
  <2> QED BY <1>2, <2>1, AfterType DEF IInv, ServerOK
<1>6. ServerOK'
  BY <1>1, <1>5 DEF IInv, ServerOK, PumpDeviceEvent, loop
<1>7. LoopOK' /\ CursorOK'
  BY DEF IInv, LoopOK, CursorOK, PumpDeviceEvent, loop, Pumping
<1> QED BY <1>4, <1>6, <1>7 DEF IInv

LEMMA PumpHierarchyStep == IInv /\ PumpHierarchy => IInv'
<1> SUFFICES ASSUME IInv, PumpHierarchy PROVE IInv'
  OBVIOUS
<1>1. Tail(xqueue) \in Seq(XEvents)
  BY QueueHead DEF IInv, ServerOK, PumpHierarchy
<1>2. \/ UNCHANGED table
      \/ \E heard : broadcast(NoDevice, "monitor", heard)
  BY DEF PumpHierarchy
<1>3. TableOK'
  <2>1. CASE UNCHANGED table
    BY <2>1, TableUnchanged DEF IInv, table
  <2>2. CASE \E heard : broadcast(NoDevice, "monitor", heard)
    BY <2>2, Broadcast DEF IInv
  <2> QED BY <1>2, <2>1, <2>2
<1>4. /\ adding' \in {adding, xdev} /\ device' \in {device, NoDevice}
      /\ state' \in {state, ZeroState}
  BY DEF PumpHierarchy
<1>5. ServerOK'
  BY <1>1, <1>4, ZeroStateType DEF IInv, ServerOK, PumpHierarchy
<1>6. LoopOK' /\ CursorOK'
  BY DEF IInv, LoopOK, CursorOK, PumpHierarchy, Pumping
<1> QED BY <1>3, <1>5, <1>6 DEF IInv

LEMMA AddDeviceStep == IInv /\ AddDevice => IInv'
<1> SUFFICES ASSUME IInv, AddDevice PROVE IInv'
  OBVIOUS
<1>1. \E heard : broadcast(adding, "monitor", heard)
  BY DEF AddDevice
<1>2. TableOK'
  BY <1>1, Broadcast DEF IInv
<1>3. selected' \subseteq DeviceIds
  BY DEF IInv, ServerOK, AddDevice, Devices
<1>4. x_error' \in BOOLEAN
  BY Zenon DEF IInv, ServerOK, AddDevice
<1>5. ServerOK'
  BY <1>3, <1>4 DEF IInv, ServerOK, AddDevice
<1>6. LoopOK' /\ CursorOK'
  BY DEF IInv, LoopOK, CursorOK, AddDevice
<1> QED BY <1>2, <1>5, <1>6 DEF IInv

LEMMA PumpDoneStep == IInv /\ PumpDone => IInv'
<1> SUFFICES ASSUME IInv, PumpDone PROVE IInv'
  OBVIOUS
<1>1. TableOK'
  BY TableUnchanged DEF IInv, PumpDone, table
<1>2. ServerOK'
  BY DEF IInv, PumpDone, xvars, ServerOK
<1>3. LoopOK' /\ CursorOK'
  BY DEF IInv, LoopOK, CursorOK, PumpDone, Pumping, Goto, PcLabels, table
<1> QED BY <1>1, <1>2, <1>3 DEF IInv

LEMMA XErrorExitStep == IInv /\ XErrorExit => IInv'
<1> SUFFICES ASSUME IInv, XErrorExit PROVE IInv'
  OBVIOUS
<1>1. Quiet \in Strengths
  BY LevelRange DEF Quiet, Strengths
<1>2. TableOK'
  BY <1>1, EmptyTable DEF IInv, TableOK, XErrorExit
<1>3. ServerOK'
  <2>1. x_error' \in BOOLEAN
    BY Zenon DEF XErrorExit
  <2> QED BY <2>1 DEF IInv, ServerOK, XErrorExit
<1>4. LoopOK' /\ CursorOK'
  BY NoReventsType DEF IInv, LoopOK, CursorOK, XErrorExit, Pumping, Goto, PcLabels
<1> QED BY <1>2, <1>3, <1>4 DEF IInv

\* A new client asks for no rumble, so the aggregate stays what it is.
\* accept_clients finds the first free slot if there is one.
LEMMA FirstFree ==
  FreeSlots # {} =>
    (CHOOSE s \in FreeSlots : \A t \in FreeSlots : s <= t) \in FreeSlots
<1> SUFFICES ASSUME FreeSlots # {}
             PROVE  \E t \in FreeSlots : \A u \in FreeSlots : t <= u
  OBVIOUS
<1>1. FreeSlots \subseteq Nat
  BY BridgeAssumption DEF FreeSlots, Slots
<1>2. PICK t \in FreeSlots : \A u \in FreeSlots : ~(<<u, t>> \in OpToRel(<, Nat))
  BY <1>1, WFMin, NatLessThanWellFounded
<1>3. \A u \in FreeSlots : ~(u < t)
  BY <1>1, <1>2 DEF OpToRel
<1>4. \A u \in FreeSlots : t <= u
  BY <1>1, <1>3
<1> QED BY <1>4

LEMMA AcceptOneStep == IInv /\ AcceptOne => IInv'
<1> SUFFICES ASSUME IInv, AcceptOne PROVE IInv'
  OBVIOUS
<1> DEFINE c == Head(backlog)
<1>1. c \in Conns /\ Tail(backlog) \in Seq(Conns)
  BY DEF IInv, LoopOK, AcceptOne
<1>2. c # NoConn
  BY <1>1, BridgeAssumption
<1>3. CASE FreeSlots # {}
  <2> DEFINE s == CHOOSE s \in FreeSlots : \A t \in FreeSlots : s <= t
             new == [FreeSlot EXCEPT !.conn = c]
  <2>1. /\ clients' = [clients EXCEPT ![s] = new]
        /\ fresh' = fresh \union {s}
        /\ UNCHANGED <<open, inbox, active, motor>>
    BY <1>3 DEF AcceptOne
  <2>2. s \in FreeSlots
    BY <1>3, FirstFree
  <2>3. s \in Slots /\ clients[s].conn = NoConn
    BY <2>2 DEF FreeSlots
  <2>4. /\ new \in SlotRecords /\ new.conn = c
        /\ new.low = FreeSlot.low /\ new.high = FreeSlot.high
    BY <1>1, FreeSlotType DEF SlotRecords
  <2>5. CleanTable(clients')
    BY <1>2, <2>1, <2>3, <2>4 DEF IInv, TableOK, CleanTable
  <2>6. \A t \in Slots : /\ clients'[t].low = clients[t].low
                         /\ clients'[t].high = clients[t].high
    BY <2>1, <2>3, <2>4 DEF IInv, TableOK, CleanTable
  <2>7. Demand(clients') = Demand(clients)
    BY <2>6, SameDemand
  <2>8. TableOK'
    BY <2>1, <2>5, <2>7 DEF IInv, TableOK
  <2>9. ServerOK' /\ LoopOK'
    BY <1>1, <2>1, <2>3 DEF IInv, ServerOK, LoopOK, AcceptOne, xvars, loop
  <2>10. CursorOK'
    BY DEF IInv, CursorOK, AcceptOne, loop
  <2> QED BY <2>8, <2>9, <2>10 DEF IInv
<1>4. CASE FreeSlots = {}
  <2>1. TableOK'
    <3>1. /\ open' = open \ {c} /\ inbox' = [inbox EXCEPT ![c] = <<>>]
          /\ UNCHANGED <<clients, active, motor>>
      BY <1>4 DEF AcceptOne
    <3>2. inbox' \in [Conns -> Seq(Messages)]
      <4>1. inbox \in [Conns -> Seq(Messages)]
        BY DEF IInv, TableOK
      <4>2. <<>> \in Seq(Messages)
        OBVIOUS
      <4> HIDE DEF c
      <4> QED BY <3>1, <4>1, <4>2
    <3> QED BY <3>1, <3>2 DEF IInv, TableOK
  <2>2. ServerOK' /\ LoopOK' /\ CursorOK'
    BY <1>1, <1>4 DEF IInv, ServerOK, LoopOK, CursorOK, AcceptOne, xvars, loop
  <2> QED BY <2>1, <2>2 DEF IInv
<1> QED BY <1>3, <1>4

LEMMA AcceptDoneStep == IInv /\ AcceptDone => IInv'
<1> SUFFICES ASSUME IInv, AcceptDone PROVE IInv'
  OBVIOUS
<1>1. TableOK'
  BY TableUnchanged DEF IInv, AcceptDone, table
<1>2. ServerOK'
  BY DEF IInv, AcceptDone, xvars, ServerOK
<1>3. 0 \in Slots /\ 0 \in 0..MaxClients
  BY BridgeAssumption DEF Slots
<1>4. LoopOK' /\ CursorOK'
  BY <1>3 DEF IInv, LoopOK, CursorOK, AcceptDone, Goto, PcLabels, table
<1> QED BY <1>1, <1>2, <1>4 DEF IInv

\* Moving on to the next slot.
LEMMA NextSlotLoop ==
  ASSUME LoopOK, pc = "serve", cursor \in Slots, NextSlot,
         UNCHANGED <<running, backlog, fresh>>
  PROVE  /\ LoopOK' /\ control' = <<>>
         /\ pc' = "serve" => cursor' \in Slots
<1>1. \A n \in Slots : n \in 0..MaxClients
  BY BridgeAssumption DEF Slots
<1>2. /\ pc' \in PcLabels /\ cursor' \in 0..MaxClients
      /\ pc' = "serve" => cursor' \in Slots
  BY <1>1, BridgeAssumption DEF NextSlot, Goto, PcLabels
<1>3. revents' \in [server : BOOLEAN, slot : [Slots -> SUBSET {"IN", "OUT", "HUP"}]]
  BY DEF NextSlot, LoopOK
<1>4. control' = <<>>
  BY DEF NextSlot
<1> QED BY <1>2, <1>3, <1>4 DEF LoopOK

LEMMA ServeStep == IInv /\ Serve => IInv'
<1> SUFFICES ASSUME IInv, Serve PROVE IInv'
  OBVIOUS
<1> DEFINE s == cursor
           c == clients[s].conn
           r == revents.slot[s]
<1>1. s \in Slots /\ pc = "serve"
  BY DEF IInv, CursorOK, Serve
<1>2. ServerOK'
  BY DEF IInv, ServerOK, Serve, xvars
<1>3. ASSUME NextSlot, TableOK'
      PROVE  IInv'
  <2>1. LoopOK' /\ CursorOK'
    BY <1>1, <1>3, NextSlotLoop DEF IInv, CursorOK, Serve
  <2> QED BY <1>2, <1>3, <2>1 DEF IInv
<1>4. CASE c = NoConn
  <2>1. NextSlot /\ UNCHANGED table
    BY <1>4 DEF Serve
  <2> QED BY <1>3, <2>1, TableUnchanged DEF IInv, table
<1>5. CASE c # NoConn
  <2>1. clients[s] \in SlotRecords
    BY <1>1 DEF IInv, TableOK, CleanTable
  <2>2. PICK used \in IF "OUT" \in r THEN flush_client(c, clients[s].used)
                                     ELSE {clients[s].used} :
          IF \/ used = Dropped
             \/ "HUP" \in r
             \/ "IN" \in r /\ inbox[c] = <<>> /\ c \notin open
          THEN Close(s) /\ NextSlot
          ELSE /\ clients' = [clients EXCEPT ![s].used = used]
               /\ IF "IN" \in r /\ inbox[c] # <<>>
                  THEN LET n == IF Len(inbox[c]) < RecvMax THEN Len(inbox[c])
                                                           ELSE RecvMax
                       IN /\ control' = SubSeq(inbox[c], 1, n)
                          /\ inbox' = [inbox EXCEPT ![c] =
                                         SubSeq(@, n + 1, Len(@))]
                          /\ UNCHANGED <<pc, revents, cursor>>
                  ELSE NextSlot /\ UNCHANGED inbox
               /\ UNCHANGED <<open, active, motor, told>>
    BY <1>5 DEF Serve
  <2>3. used \in {Dropped} \union 0..BufferSize
    BY <2>1, <2>2, QueueBytesType, SlotFields
  <2> DEFINE gone == \/ used = Dropped
                     \/ "HUP" \in r
                     \/ "IN" \in r /\ inbox[c] = <<>> /\ c \notin open
  <2>4. CASE gone
    BY <1>1, <1>3, <2>2, <2>4, CloseClient DEF IInv
  <2>5. CASE ~gone
    <3>0. used # Dropped /\ clients' = [clients EXCEPT ![s].used = used]
          /\ UNCHANGED <<open, active, motor>>
      BY <2>2, <2>5
    <3>1. CleanTable(clients')
      BY <1>1, <1>5, <2>1, <2>3, <3>0 DEF IInv, TableOK, CleanTable, SlotRecords
    <3>2. \A t \in Slots : /\ clients'[t].low = clients[t].low
                           /\ clients'[t].high = clients[t].high
                           /\ clients'[t].conn = clients[t].conn
      BY <1>1, <2>1, <3>0 DEF IInv, TableOK, CleanTable, SlotRecords
    <3>3. Demand(clients') = Demand(clients)
      BY <3>2, SameDemand
    <3>4. CASE NextSlot /\ UNCHANGED inbox
      BY <1>3, <3>0, <3>1, <3>3, <3>4 DEF IInv, TableOK
    <3>5. CASE /\ UNCHANGED <<pc, revents, cursor>>
               /\ \E n \in Nat : /\ n <= Len(inbox[c])
                                 /\ control' = SubSeq(inbox[c], 1, n)
                                 /\ inbox' = [inbox EXCEPT ![c] =
                                                SubSeq(@, n + 1, Len(@))]
      <4>1. c \in Conns
        BY <1>5, <2>1 DEF SlotRecords
      <4>2. inbox[c] \in Seq(Messages)
        BY <4>1 DEF IInv, TableOK
      <4>3. PICK n \in Nat : /\ n <= Len(inbox[c])
                             /\ control' = SubSeq(inbox[c], 1, n)
                             /\ inbox' = [inbox EXCEPT ![c] =
                                            SubSeq(@, n + 1, Len(@))]
        BY <3>5
      <4>4. control' \in Seq(Messages) /\ inbox' \in [Conns -> Seq(Messages)]
        BY <4>1, <4>2, <4>3 DEF IInv, TableOK
      <4>5. TableOK'
        BY <3>0, <3>1, <3>3, <4>4 DEF IInv, TableOK
      <4>6. LoopOK' /\ CursorOK'
        BY <1>1, <1>5, <3>2, <3>5, <4>4 DEF IInv, LoopOK, CursorOK, Serve
      <4> QED BY <1>2, <4>5, <4>6 DEF IInv
    <3>6. \/ NextSlot /\ UNCHANGED inbox
          \/ /\ UNCHANGED <<pc, revents, cursor>>
             /\ \E n \in Nat : /\ n <= Len(inbox[c])
                               /\ control' = SubSeq(inbox[c], 1, n)
                               /\ inbox' = [inbox EXCEPT ![c] =
                                              SubSeq(@, n + 1, Len(@))]
      <4>1. inbox[c] \in Seq(Messages)
        BY <1>5, <2>1 DEF IInv, TableOK, SlotRecords
      <4> DEFINE n == IF Len(inbox[c]) < RecvMax THEN Len(inbox[c]) ELSE RecvMax
      <4>2. n \in Nat /\ n <= Len(inbox[c])
        BY <4>1, BridgeAssumption
      <4>3. \/ NextSlot /\ UNCHANGED inbox
            \/ /\ control' = SubSeq(inbox[c], 1, n)
               /\ inbox' = [inbox EXCEPT ![c] = SubSeq(@, n + 1, Len(@))]
               /\ UNCHANGED <<pc, revents, cursor>>
        BY <2>2, <2>5
      <4> HIDE DEF n
      <4> QED BY <4>2, <4>3
    <3> QED BY <3>4, <3>5, <3>6
  <2> QED BY <2>2, <2>4, <2>5
<1> QED BY <1>4, <1>5

\* A rumble or a stop changes one client's strengths and recomputes.
LEMMA SetRumble ==
  ASSUME TableOK, NEW s \in Slots, clients[s].conn # NoConn,
         NEW low \in Levels, NEW high \in Levels, NEW ttl \in Ticks,
         update_rumble(device,
           [clients EXCEPT ![s].low = low, ![s].high = high, ![s].ttl = ttl], TRUE),
         UNCHANGED <<open, inbox>>
  PROVE  /\ TableOK'
         /\ \A t \in Slots : /\ clients'[t].conn = clients[t].conn
                             /\ clients'[t].kind = clients[t].kind
<1> DEFINE cl == [clients EXCEPT ![s].low = low, ![s].high = high, ![s].ttl = ttl]
<1>1. clients \in [Slots -> SlotRecords]
  BY DEF TableOK, CleanTable
<1>2. \A t \in Slots : /\ cl[t] \in SlotRecords
                       /\ cl[t].conn = clients[t].conn
                       /\ cl[t].kind = clients[t].kind
                       /\ t # s => cl[t] = clients[t]
  BY <1>1 DEF SlotRecords
<1>3. CleanTable(cl)
  BY <1>1, <1>2 DEF TableOK, CleanTable
<1> HIDE DEF cl
<1>4. update_rumble(device, cl, TRUE)
  BY DEF cl
<1>5. /\ CleanTable(clients')
      /\ active' \in Strengths /\ motor' \in Motors
      /\ active' = Demand(clients')
      /\ \A t \in Slots : /\ clients'[t].conn = cl[t].conn
                          /\ clients'[t].kind = cl[t].kind
  BY <1>3, <1>4, UpdateRumble DEF TableOK
<1> QED BY <1>2, <1>5 DEF TableOK

\* The message at the head of what was received.
LEMMA ControlHead ==
  ASSUME control \in Seq(Messages), control # <<>>
  PROVE  /\ Tail(control) \in Seq(Messages)
         /\ Head(control).command = "rumble" =>
              /\ Head(control).low \in Levels /\ Head(control).high \in Levels
              /\ Head(control).duration \in Ticks
<1>1. Head(control) \in Messages /\ Tail(control) \in Seq(Messages)
  OBVIOUS
<1>2. IsRumble(Head(control))
        \/ Head(control).command \in {"stop", "query", "monitor", "invalid"}
  BY <1>1, BridgeAssumption DEF Messages
<1> QED BY <1>1, <1>2 DEF IsRumble

\* A rumble or a stop sets the strengths and the clock of the client at the
\* cursor; only a rumble sets strengths above 0.
LEMMA RumbleHandlers ==
  ASSUME IInv, Handle,
         \/ Head(control).command = "rumble" /\ HandleRumble(cursor, Head(control))
         \/ HandleStop(cursor)
  PROVE  \E low \in Levels, high \in Levels, ttl \in Ticks :
           /\ update_rumble(device, [clients EXCEPT ![cursor].low = low,
                              ![cursor].high = high, ![cursor].ttl = ttl], TRUE)
           /\ UNCHANGED <<open, inbox, told>>
           /\ low # 0 \/ high # 0 => Head(control).command = "rumble"
<1> DEFINE s == cursor
           m == Head(control)
<1>1. m.command = "rumble" =>
        m.low \in Levels /\ m.high \in Levels /\ m.duration \in Ticks
  BY ControlHead DEF IInv, LoopOK, Handle
<1>2. 0 \in Levels /\ 0 \in Ticks /\ DefaultDuration \in Ticks
  BY LevelRange, BridgeAssumption DEF Ticks
<1>3. CASE HandleStop(s)
  BY <1>2, <1>3 DEF HandleStop
<1>4. CASE m.command = "rumble" /\ HandleRumble(s, m)
  <2> DEFINE ttl == IF m.duration = 0 THEN DefaultDuration ELSE m.duration
  <2>1. ttl \in Ticks /\ m.low \in Levels /\ m.high \in Levels
    BY <1>1, <1>2, <1>4
  <2>2. /\ update_rumble(device, [clients EXCEPT ![s].low = m.low,
                            ![s].high = m.high, ![s].ttl = ttl], TRUE)
        /\ UNCHANGED <<open, inbox, told>>
    BY <1>4 DEF HandleRumble
  <2>3. m.command = "rumble"
    BY <1>4
  <2> HIDE DEF ttl, m, s
  <2> QED BY <2>1, <2>2, <2>3 DEF m, s
<1> QED BY <1>3, <1>4

\* What the handler of any message does to the table.
LEMMA HandlerTable ==
  ASSUME IInv, Handle
  PROVE  TableOK'
<1> DEFINE s == cursor
           m == Head(control)
<1>1. s \in Slots /\ clients[s].conn # NoConn /\ TableOK
  BY DEF IInv, CursorOK, Handle
<1>2. CASE (m.command = "rumble" /\ HandleRumble(s, m)) \/ HandleStop(s)
  <2>1. PICK low \in Levels, high \in Levels, ttl \in Ticks :
          /\ update_rumble(device, [clients EXCEPT ![s].low = low,
                             ![s].high = high, ![s].ttl = ttl], TRUE)
          /\ UNCHANGED <<open, inbox>>
    BY <1>2, RumbleHandlers
  <2> HIDE DEF s
  <2> QED BY <1>1, <2>1, SetRumble
<1>3. CASE HandleQuery(s)
  <2>1. PICK messages, hears : Answer(s, "events", messages, hears)
    BY <1>3 DEF HandleQuery
  <2> QED BY <1>1, <2>1, AnswerClient DEF Kinds
<1>4. CASE HandleMonitor(s)
  <2>1. PICK messages, hears : Answer(s, "monitor", messages, hears)
    BY <1>4 DEF HandleMonitor
  <2> QED BY <1>1, <2>1, AnswerClient DEF Kinds
<1>5. CASE Close(s)
  BY <1>1, <1>5, CloseClient
<1> QED BY <1>2, <1>3, <1>4, <1>5 DEF Handle

LEMMA HandleStep == IInv /\ Handle => IInv'
<1> SUFFICES ASSUME IInv, Handle PROVE IInv'
  OBVIOUS
<1>1. TableOK'
  BY HandlerTable
<1>2. ServerOK'
  BY DEF IInv, ServerOK, Handle, xvars
<1>3. cursor \in Slots /\ pc = "serve" /\ LoopOK
  BY DEF IInv, CursorOK, Handle
<1>4. CASE NextSlot
  <2>1. LoopOK' /\ CursorOK'
    BY <1>3, <1>4, NextSlotLoop DEF CursorOK, Handle
  <2> QED BY <1>1, <1>2, <2>1 DEF IInv
<1>5. CASE /\ clients'[cursor].conn # NoConn
           /\ control' = Tail(control) /\ UNCHANGED <<pc, revents, cursor>>
  <2>1. LoopOK' /\ CursorOK'
    BY <1>3, <1>5, ControlHead DEF LoopOK, CursorOK, Handle
  <2> QED BY <1>1, <1>2, <2>1 DEF IInv
<1> QED BY <1>4, <1>5 DEF Handle

LEMMA TickStep == IInv /\ Tick => IInv'
<1> SUFFICES ASSUME IInv, Tick PROVE IInv'
  OBVIOUS
<1>1. TableOK'
  BY UpdateRumble DEF IInv, TableOK, Tick
<1>2. ServerOK'
  BY DEF IInv, ServerOK, Tick, xvars
<1>3. LoopOK' /\ CursorOK'
  BY NoReventsType DEF IInv, LoopOK, CursorOK, Tick, Goto, PcLabels
<1> QED BY <1>1, <1>2, <1>3 DEF IInv

LEMMA ShutdownStep == IInv /\ Shutdown => IInv'
<1> SUFFICES ASSUME IInv, Shutdown PROVE IInv'
  OBVIOUS
<1>1. motor' \in Motors
  <2>1. 0 \in Levels /\ 0 \in Ticks
    BY LevelRange, BridgeAssumption DEF Ticks
  <2> QED BY <2>1 DEF IInv, TableOK, Shutdown, send_lorie_rumble, MotorOff,
                      Motors, Quiet
<1>2. TableOK'
  BY <1>1 DEF IInv, TableOK, Shutdown
<1>3. ServerOK'
  BY DEF IInv, ServerOK, Shutdown, xvars
<1>4. LoopOK' /\ CursorOK'
  BY BridgeAssumption DEF IInv, LoopOK, CursorOK, Shutdown, Goto, PcLabels
<1> QED BY <1>2, <1>3, <1>4 DEF IInv

LEMMA CloseNextStep == IInv /\ CloseNext => IInv'
<1> SUFFICES ASSUME IInv, CloseNext PROVE IInv'
  OBVIOUS
<1>1. TableOK'
  BY CloseClient DEF IInv, CloseNext
<1>2. ServerOK'
  BY DEF IInv, ServerOK, CloseNext, xvars
<1>3. cursor + 1 \in 0..MaxClients
  BY BridgeAssumption DEF CloseNext, Slots
<1>4. LoopOK' /\ CursorOK'
  BY <1>3 DEF IInv, LoopOK, CursorOK, CloseNext
<1> QED BY <1>1, <1>2, <1>4 DEF IInv

LEMMA StopStep == IInv /\ Stop => IInv'
<1> SUFFICES ASSUME IInv, Stop PROVE IInv'
  OBVIOUS
<1>1. open' \subseteq Conns /\ inbox' \in [Conns -> Seq(Messages)]
  BY DEF Stop
<1>2. TableOK'
  BY <1>1 DEF IInv, TableOK, Stop
<1>3. ServerOK'
  BY DEF IInv, ServerOK, Stop, xvars
<1>4. LoopOK' /\ CursorOK'
  BY BridgeAssumption DEF IInv, LoopOK, CursorOK, Stop, Goto, PcLabels
<1> QED BY <1>2, <1>3, <1>4 DEF IInv

-----------------------------------------------------------------------------
(* One lemma for each step of the environment. *)

LEMMA SocketSteps ==
  ASSUME NEW c \in Conns, IInv, Connect(c) \/ Send(c) \/ Hangup(c)
  PROVE  IInv'
<1>1. /\ UNCHANGED <<xvars, motor, BridgeSide>>
      /\ open' \subseteq Conns
      /\ inbox' = inbox \/ \E m \in Commands[c] : inbox' = [inbox EXCEPT ![c] = Append(@, m)]
      /\ backlog' = backlog \/ backlog' = Append(backlog, c)
  BY DEF Connect, Send, Hangup, IInv, TableOK
<1>2. inbox' \in [Conns -> Seq(Messages)]
  <2>1. \A m \in Commands[c] : m \in Messages
    BY DEF Messages
  <2> QED BY <1>1, <2>1 DEF IInv, TableOK
<1>3. backlog' \in Seq(Conns)
  <2>1. backlog \in Seq(Conns) BY DEF IInv, LoopOK
  <2>2. Append(backlog, c) \in Seq(Conns) BY <2>1
  <2> QED BY <1>1, <2>1, <2>2
<1>4. TableOK'
  BY <1>1, <1>2 DEF IInv, TableOK, BridgeSide
<1>5. ServerOK' /\ LoopOK' /\ CursorOK'
  BY <1>1, <1>3 DEF IInv, ServerOK, LoopOK, CursorOK, BridgeSide, xvars, loop
<1> QED BY <1>4, <1>5 DEF IInv

LEMMA XHotplugStep == IInv /\ XHotplug => IInv'
<1> SUFFICES ASSUME IInv, XHotplug PROVE IInv'
  OBVIOUS
<1>1. /\ xdev' \in Devices \union {NoDevice}
      /\ motor' \in {motor, MotorOff}
      /\ selected' \subseteq selected
      /\ xqueue' = Append(xqueue, Hierarchy)
      /\ UNCHANGED <<x_error, open, backlog, inbox, BridgeSide>>
  BY DEF XHotplug
<1>2. MotorOff \in Motors
  <2>1. 0 \in Levels /\ 0 \in Ticks
    BY LevelRange, BridgeAssumption DEF Ticks
  <2> QED BY <2>1 DEF MotorOff, Motors
<1>3. xqueue' \in Seq(XEvents)
  <2>1. Hierarchy \in XEvents
    BY DEF XEvents
  <2> QED BY <1>1, <2>1 DEF IInv, ServerOK
<1>4. TableOK'
  BY <1>1, <1>2 DEF IInv, TableOK, BridgeSide
<1>5. ServerOK' /\ LoopOK' /\ CursorOK'
  BY <1>1, <1>3 DEF IInv, ServerOK, LoopOK, CursorOK, BridgeSide, loop
<1> QED BY <1>4, <1>5 DEF IInv

LEMMA XInputStep == IInv /\ XInput => IInv'
<1> SUFFICES ASSUME IInv, XInput PROVE IInv'
  OBVIOUS
<1>1. PICK e \in DeviceEvents :
        xqueue' = Append(xqueue, [type |-> "device", id |-> xdev.id, event |-> e])
  BY DEF XInput
<1>2. xdev.id \in DeviceIds
  BY DEF IInv, ServerOK, XInput, Present, Devices
<1>3. [type |-> "device", id |-> xdev.id, event |-> e] \in XEvents
  BY <1>2 DEF XEvents
<1>4. xqueue' \in Seq(XEvents)
  BY <1>1, <1>3 DEF IInv, ServerOK
<1>5. TableOK'
  BY TableUnchanged DEF IInv, XInput, BridgeSide
<1>6. ServerOK' /\ LoopOK' /\ CursorOK'
  BY <1>4 DEF IInv, ServerOK, LoopOK, CursorOK, XInput, BridgeSide, loop
<1> QED BY <1>5, <1>6 DEF IInv

\* Time only takes from the clocks.
LEMMA TimePassesStep == IInv /\ TimePasses => IInv'
<1> SUFFICES ASSUME IInv, TimePasses PROVE IInv'
  OBVIOUS
<1>1. \A t \in Ticks : Less(t) \in Ticks
  BY BridgeAssumption DEF Less, Ticks
<1>2. clients \in [Slots -> SlotRecords] /\ motor \in Motors
  BY DEF IInv, TableOK, CleanTable
<1>3. /\ motor' = IF motor.ttl > 1 THEN [motor EXCEPT !.ttl = @ - 1] ELSE MotorOff
      /\ clients' = [s \in Slots |-> [clients[s] EXCEPT !.ttl = Less(@)]]
      /\ UNCHANGED <<xvars, open, backlog, inbox, running, loop, state, device,
                     active, fresh>>
  BY DEF TimePasses
<1>4. motor' \in Motors
  <2>1. 0 \in Levels /\ 0 \in Ticks
    BY LevelRange, BridgeAssumption DEF Ticks
  <2>2. MotorOff \in Motors
    BY <2>1 DEF MotorOff, Motors
  <2>3. motor.ttl > 1 => motor.ttl - 1 \in Ticks
    BY <1>2, BridgeAssumption DEF Motors, Ticks
  <2> QED BY <1>2, <1>3, <2>2, <2>3 DEF Motors
<1>5. \A s \in Slots : /\ clients'[s] \in SlotRecords
                       /\ clients'[s].conn = clients[s].conn
                       /\ clients'[s].low = clients[s].low
                       /\ clients'[s].high = clients[s].high
  BY <1>1, <1>2, <1>3 DEF SlotRecords
<1>6. clients' \in [Slots -> SlotRecords]
  BY <1>3, <1>5
<1>7. \A s \in Slots : clients[s] = FreeSlot => clients'[s] = FreeSlot
  <2>1. [FreeSlot EXCEPT !.ttl = Less(@)] = FreeSlot
    <3>1. /\ FreeSlot = [field \in DOMAIN FreeSlot |-> FreeSlot[field]]
          /\ FreeSlot.ttl = 0
      BY DEF FreeSlot
    <3>2. Less(0) = 0
      BY DEF Less
    <3> QED BY <3>1, <3>2
  <2> QED BY <1>3, <2>1
<1>8. CleanTable(clients')
  BY <1>5, <1>6, <1>7 DEF IInv, TableOK, CleanTable
<1>9. Demand(clients') = Demand(clients)
  BY <1>5, SameDemand
<1>10. TableOK'
  BY <1>3, <1>4, <1>8, <1>9 DEF IInv, TableOK
<1>11. ServerOK' /\ LoopOK' /\ CursorOK'
  BY <1>3, <1>5 DEF IInv, ServerOK, LoopOK, CursorOK, xvars, loop
<1> QED BY <1>10, <1>11 DEF IInv

LEMMA SignalStep == IInv /\ Signal => IInv'
<1> SUFFICES ASSUME IInv, Signal PROVE IInv'
  OBVIOUS
<1>1. TableOK'
  BY TableUnchanged DEF IInv, Signal
<1>2. running' \in BOOLEAN
  BY Zenon DEF Signal
<1>3. ServerOK' /\ LoopOK' /\ CursorOK'
  BY <1>2 DEF IInv, ServerOK, LoopOK, CursorOK, Signal, xvars, loop
<1> QED BY <1>1, <1>3 DEF IInv

LEMMA StutterStep == IInv /\ UNCHANGED vars => IInv'
<1> SUFFICES ASSUME IInv, UNCHANGED vars PROVE IInv'
  OBVIOUS
<1>1. TableOK'
  BY TableUnchanged DEF IInv, vars
<1>2. ServerOK' /\ LoopOK' /\ CursorOK'
  BY DEF IInv, ServerOK, LoopOK, CursorOK, vars, xvars, loop
<1> QED BY <1>1, <1>2 DEF IInv

-----------------------------------------------------------------------------
(* Theorems on the table and the rumble. *)

LEMMA NextInvariant == IInv /\ [Next]_vars => IInv'
<1> SUFFICES ASSUME IInv, [Next]_vars PROVE IInv'
  OBVIOUS
<1>1. CASE Poll
  BY <1>1, PollStep
<1>2. CASE PumpDeviceEvent
  BY <1>2, PumpDeviceEventStep
<1>3. CASE PumpHierarchy
  BY <1>3, PumpHierarchyStep
<1>4. CASE AddDevice
  BY <1>4, AddDeviceStep
<1>5. CASE PumpDone
  BY <1>5, PumpDoneStep
<1>6. CASE XErrorExit
  BY <1>6, XErrorExitStep
<1>7. CASE AcceptOne
  BY <1>7, AcceptOneStep
<1>8. CASE AcceptDone
  BY <1>8, AcceptDoneStep
<1>9. CASE Serve
  BY <1>9, ServeStep
<1>10. CASE Handle
  BY <1>10, HandleStep
<1>11. CASE Tick
  BY <1>11, TickStep
<1>12. CASE Shutdown
  BY <1>12, ShutdownStep
<1>13. CASE CloseNext
  BY <1>13, CloseNextStep
<1>14. CASE Stop
  BY <1>14, StopStep
<1>15. CASE TimePasses
  BY <1>15, TimePassesStep
<1>16. CASE \E c \in Conns : Connect(c) \/ Send(c) \/ Hangup(c)
  BY <1>16, SocketSteps
<1>17. CASE XHotplug
  BY <1>17, XHotplugStep
<1>18. CASE XInput
  BY <1>18, XInputStep
<1>19. CASE Signal
  BY <1>19, SignalStep
<1>20. CASE UNCHANGED vars
  BY <1>20, StutterStep
<1> QED
  BY <1>1, <1>2, <1>3, <1>4, <1>5, <1>6, <1>7, <1>8, <1>9, <1>10, <1>11, <1>12,
     <1>13, <1>14, <1>15, <1>16, <1>17, <1>18, <1>19, <1>20
  DEF Next, BridgeStep, Environment, Terminated

LEMMA Invariant == Spec => []IInv
BY InitInvariant, NextInvariant, PTL DEF Spec

\* Every variable keeps its type, and a slot that close_client freed is clean
\* whatever was being handled, broadcast or timed for it.
THEOREM TypeCorrect == Spec => []TypeOK
BY Invariant, InvariantImplies, PTL

\* active_rumble is the maximum over the client table in every state: stops,
\* expiries, hangups, broadcasts that drop several clients, the shutdown.
THEOREM ActiveRumbleIsDemand == Spec => []ActiveIsDemand
BY Invariant, InvariantImplies, PTL

-----------------------------------------------------------------------------
(* What the clients were told. *)

\* What one slot's stream says, given its kind, the state and the device.
SlotTold(kind, t, st, dev) ==
  /\ DOMAIN t = {"view", "live", "news"}
  /\ Codes(t.view) \subseteq StreamCodes
  /\ kind = "events" /\ t.live => t.view = Snapshot(st)
  /\ kind = "monitor" => t.news = dev

\* The inductive form of the two properties: a stream carries no code that a
\* snapshot would not replace.
StreamsOK ==
  /\ DOMAIN told = Slots
  /\ \A s \in Slots : SlotTold(clients[s].kind, told[s], state, device)

LEMMA StreamsImply == StreamsOK => StreamsMatchState /\ MonitorsCurrent
BY DEF StreamsOK, SlotTold, StreamsMatchState, MonitorsCurrent

\* A free slot was told nothing.
LEMMA FreeSlotTold ==
  ASSUME NEW st, NEW dev
  PROVE  SlotTold(FreeSlot.kind, NothingTold, st, dev)
<1>1. FreeSlot.kind = "uninitialized"
  BY DEF FreeSlot
<1>2. /\ DOMAIN NothingTold = {"view", "live", "news"}
      /\ NothingTold.view = {}
  BY DEF NothingTold
<1>3. Codes({}) = {}
  BY DEF Codes
<1> QED BY <1>1, <1>2, <1>3 DEF SlotTold

\* After a step that closed some clients, it is enough to look at the others.
LEMMA StreamsAfter ==
  ASSUME NEW kinds, NEW heard, SlotsHear(kinds, heard),
         \A s \in Slots : SlotTold(kinds[s].kind, heard[s], state', device')
  PROVE  StreamsOK'
BY FreeSlotTold DEF SlotsHear, StreamsOK

\* A step that tells nobody anything and changes neither kinds nor state.
LEMMA StreamsUnchanged ==
  ASSUME StreamsOK, UNCHANGED <<told, state, device>>,
         \A s \in Slots : clients'[s].kind = clients[s].kind
  PROVE  StreamsOK'
BY DEF StreamsOK

LEMMA StreamsInit == Init => StreamsOK
<1> SUFFICES ASSUME Init PROVE StreamsOK
  OBVIOUS
<1>1. /\ DOMAIN told = Slots
      /\ \A s \in Slots : told[s] = NothingTold /\ clients[s] = FreeSlot
  BY DEF Init
<1> QED BY <1>1, FreeSlotTold DEF StreamsOK

-----------------------------------------------------------------------------
(* The steps that tell somebody something. *)

\* Told with nothing new is what was told.
LEMMA ToldNothing == ASSUME NEW view PROVE Told(view, {}) = view
BY DEF Told, Codes

LEMMA PumpDeviceEventStreams == IInv /\ StreamsOK /\ PumpDeviceEvent => StreamsOK'
<1> SUFFICES ASSUME IInv, StreamsOK, PumpDeviceEvent PROVE StreamsOK'
  OBVIOUS
<1> DEFINE e == Head(xqueue)
           report == Report(state, e.event)
           hears(t) == [t EXCEPT !.view = Told(@, report)]
           heard == Hears("events", hears)
<1>1. e \in XEvents /\ e # Hierarchy
  BY QueueHead DEF IInv, ServerOK, PumpDeviceEvent
<1>2. IsXiEvent(e.event) /\ IsGamepadState(state) /\ device' = device
  BY <1>1, XEventsType DEF IInv, ServerOK, PumpDeviceEvent
<1>3. Told(Snapshot(state), report) = Snapshot(After(state, e.event))
  BY <1>2, ReportCompletesSnapshot
<1>4. CASE UNCHANGED <<state, table>>
  BY <1>2, <1>4, StreamsUnchanged DEF table
<1>5. CASE /\ state' = After(state, e.event)
           /\ report = {} /\ UNCHANGED table
  <2>1. Snapshot(state') = Snapshot(state)
    BY <1>3, <1>5, ToldNothing
  <2>2. clients' = clients /\ told' = told
    BY <1>5 DEF table
  <2> QED BY <1>2, <2>1, <2>2 DEF StreamsOK, SlotTold
<1>6. CASE /\ state' = After(state, e.event)
           /\ broadcast(device, "events", heard)
  <2>1. SlotsHear(clients, heard)
    BY <1>6, Broadcast DEF IInv
  <2>2. \A s \in Slots : heard[s] = IF clients[s].kind = "events"
                                    THEN hears(told[s]) ELSE told[s]
    BY DEF Hears
  <2>3. \A s \in Slots : SlotTold(clients[s].kind, told[s], state, device)
    BY DEF StreamsOK
  <2>4. ASSUME NEW s \in Slots
        PROVE  SlotTold(clients[s].kind, heard[s], state', device')
    <3>1. CASE clients[s].kind = "events"
      <4>1. /\ DOMAIN hears(told[s]) = {"view", "live", "news"}
            /\ hears(told[s]).view = Told(told[s].view, report)
            /\ hears(told[s]).live = told[s].live
        BY <2>3 DEF SlotTold
      <4>2. Codes(Told(told[s].view, report)) \subseteq StreamCodes
        BY <1>2, <2>3, ViewStaysInCodes DEF SlotTold
      <4>3. told[s].live => told[s].view = Snapshot(state)
        BY <2>3, <3>1 DEF SlotTold
      <4> HIDE DEF hears, heard, report, e
      <4>4. told[s].live => hears(told[s]).view = Snapshot(state')
        BY <1>3, <1>6, <4>1, <4>3
      <4> QED BY <2>2, <3>1, <4>1, <4>2, <4>4 DEF SlotTold
    <3>2. CASE clients[s].kind # "events"
      BY <1>2, <2>2, <2>3, <3>2 DEF SlotTold
    <3> QED BY <3>1, <3>2
  <2> HIDE DEF heard
  <2> QED BY <2>1, <2>4, StreamsAfter
<1> QED BY <1>4, <1>5, <1>6 DEF PumpDeviceEvent

LEMMA PumpHierarchyStreams == IInv /\ StreamsOK /\ PumpHierarchy => StreamsOK'
<1> SUFFICES ASSUME IInv, StreamsOK, PumpHierarchy PROVE StreamsOK'
  OBVIOUS
<1> DEFINE removed(t) == [t EXCEPT !.news = NoDevice]
           hear == Hears("monitor", removed)
           heard == [s \in Slots |-> [hear[s] EXCEPT !.live = FALSE]]
<1>1. CASE UNCHANGED <<table, state, device>>
  BY <1>1, StreamsUnchanged DEF table
<1>2. CASE device' = NoDevice /\ broadcast(NoDevice, "monitor", heard)
  <2>1. SlotsHear(clients, heard)
    BY <1>2, Broadcast DEF IInv
  <2>2. \A s \in Slots : SlotTold(clients[s].kind, told[s], state, device)
    BY DEF StreamsOK
  <2>3. ASSUME NEW s \in Slots
        PROVE  SlotTold(clients[s].kind, heard[s], state', device')
    <3>1. hear[s] = IF clients[s].kind = "monitor" THEN removed(told[s])
                                                  ELSE told[s]
      BY DEF Hears
    <3>2. /\ DOMAIN hear[s] = {"view", "live", "news"}
          /\ hear[s].view = told[s].view
          /\ clients[s].kind = "monitor" => hear[s].news = NoDevice
      BY <2>2, <3>1 DEF SlotTold
    <3>3. heard[s] = [hear[s] EXCEPT !.live = FALSE]
      OBVIOUS
    <3> HIDE DEF heard, hear
    <3>4. /\ DOMAIN heard[s] = {"view", "live", "news"}
          /\ heard[s].view = told[s].view /\ ~heard[s].live
          /\ heard[s].news = hear[s].news
      BY <3>2, <3>3
    <3> QED BY <1>2, <2>2, <3>2, <3>4 DEF SlotTold
  <2> HIDE DEF heard
  <2> QED BY <2>1, <2>3, StreamsAfter
<1> QED BY <1>1, <1>2 DEF PumpHierarchy, Present

LEMMA AddDeviceStreams == IInv /\ StreamsOK /\ AddDevice => StreamsOK'
<1> SUFFICES ASSUME IInv, StreamsOK, AddDevice PROVE StreamsOK'
  OBVIOUS
<1> DEFINE added(t) == [t EXCEPT !.news = adding]
           heard == Hears("monitor", added)
<1>1. device' = adding /\ state' = state /\ SlotsHear(clients, heard)
  BY Broadcast DEF IInv, AddDevice
<1>2. ASSUME NEW s \in Slots
      PROVE  SlotTold(clients[s].kind, heard[s], state', device')
  <2>1. SlotTold(clients[s].kind, told[s], state, device)
    BY DEF StreamsOK
  <2>2. heard[s] = IF clients[s].kind = "monitor" THEN added(told[s]) ELSE told[s]
    BY DEF Hears
  <2>3. /\ DOMAIN added(told[s]) = {"view", "live", "news"}
        /\ added(told[s]).view = told[s].view /\ added(told[s]).news = adding
    BY <2>1 DEF SlotTold
  <2> HIDE DEF heard, added
  <2>4. CASE clients[s].kind = "monitor"
    BY <1>1, <2>1, <2>2, <2>3, <2>4 DEF SlotTold
  <2>5. CASE clients[s].kind # "monitor"
    BY <1>1, <2>1, <2>2, <2>5 DEF SlotTold
  <2> QED BY <2>4, <2>5
<1> HIDE DEF heard
<1> QED BY <1>1, <1>2, StreamsAfter

-----------------------------------------------------------------------------
(* The serving loop and the end of the process. *)

LEMMA XErrorExitStreams == IInv /\ StreamsOK /\ XErrorExit => StreamsOK'
<1> SUFFICES ASSUME XErrorExit PROVE StreamsOK'
  OBVIOUS
<1>1. /\ DOMAIN told' = Slots
      /\ \A s \in Slots : told'[s] = NothingTold /\ clients'[s] = FreeSlot
  BY DEF XErrorExit
<1> QED BY <1>1, FreeSlotTold DEF StreamsOK

\* The kind of a slot that is filled is the kind of a free slot.
LEMMA AcceptOneStreams == IInv /\ StreamsOK /\ AcceptOne => StreamsOK'
<1> SUFFICES ASSUME IInv, StreamsOK, AcceptOne PROVE StreamsOK'
  OBVIOUS
<1> DEFINE new == [FreeSlot EXCEPT !.conn = Head(backlog)]
<1>1. new.kind = FreeSlot.kind
  BY DEF FreeSlot
<1>2. FreeSlot.kind = "uninitialized"
  BY DEF FreeSlot
<1>3. \/ clients' = clients
      \/ \E s : clients' = [clients EXCEPT ![s] = new]
  BY DEF AcceptOne
<1>4. told' = told /\ state' = state /\ device' = device
  BY DEF AcceptOne
<1> HIDE DEF new
<1>5. DOMAIN clients = Slots
  BY DEF IInv, TableOK, CleanTable
<1>6. \A s \in Slots : \/ clients'[s].kind = clients[s].kind
                       \/ clients'[s].kind = "uninitialized"
  BY <1>1, <1>2, <1>3, <1>5
<1> QED BY <1>4, <1>6 DEF StreamsOK, SlotTold

LEMMA CloseStreams ==
  ASSUME IInv, StreamsOK, NEW s \in Slots, Close(s), UNCHANGED <<state, device>>
  PROVE  StreamsOK'
<1>1. SlotsHear(clients, told)
  BY CloseClient DEF IInv
<1>2. \A t \in Slots : SlotTold(clients[t].kind, told[t], state', device')
  BY DEF StreamsOK
<1> QED BY <1>1, <1>2, StreamsAfter

LEMMA ServeStreams == IInv /\ StreamsOK /\ Serve => StreamsOK'
<1> SUFFICES ASSUME IInv, StreamsOK, Serve PROVE StreamsOK'
  OBVIOUS
<1>1. cursor \in Slots /\ UNCHANGED <<state, device>>
  BY DEF IInv, CursorOK, Serve
<1>2. \/ UNCHANGED table
      \/ Close(cursor)
      \/ \E used : clients' = [clients EXCEPT ![cursor].used = used] /\ told' = told
  BY DEF Serve
<1>3. CASE UNCHANGED table
  BY <1>1, <1>3, StreamsUnchanged DEF table
<1>4. CASE Close(cursor)
  BY <1>1, <1>4, CloseStreams
<1>5. CASE \E used : clients' = [clients EXCEPT ![cursor].used = used] /\ told' = told
  <2>1. \A s \in Slots : clients'[s].kind = clients[s].kind
    BY <1>1, <1>5 DEF IInv, TableOK, CleanTable, SlotRecords
  <2> QED BY <1>1, <1>5, <2>1, StreamsUnchanged
<1> QED BY <1>2, <1>3, <1>4, <1>5

\* Handlers of rumble and stop: nobody is told anything.
LEMMA RumbleStreams ==
  ASSUME IInv, StreamsOK, Handle,
         \/ Head(control).command = "rumble" /\ HandleRumble(cursor, Head(control))
         \/ HandleStop(cursor)
  PROVE  StreamsOK'
<1> DEFINE s == cursor
<1>1. s \in Slots /\ clients[s].conn # NoConn /\ UNCHANGED <<state, device>>
  BY DEF IInv, CursorOK, Handle
<1>2. PICK low \in Levels, high \in Levels, ttl \in Ticks :
        /\ update_rumble(device, [clients EXCEPT ![s].low = low,
                           ![s].high = high, ![s].ttl = ttl], TRUE)
        /\ UNCHANGED <<open, inbox, told>>
  BY RumbleHandlers
<1> HIDE DEF s
<1>3. \A t \in Slots : clients'[t].kind = clients[t].kind
  BY <1>1, <1>2, SetRumble DEF IInv
<1> QED BY <1>1, <1>2, <1>3, StreamsUnchanged

\* Handlers of query and monitor: the client at the cursor is told the answer.
LEMMA AnswerStreams ==
  ASSUME IInv, StreamsOK, NEW s \in Slots, clients[s].conn # NoConn,
         UNCHANGED <<state, device>>,
         NEW kind \in Kinds, NEW messages, NEW hears,
         Answer(s, kind, messages, hears),
         SlotTold(kind, hears, state, device)
  PROVE  StreamsOK'
<1> DEFINE kinds == [clients EXCEPT ![s].kind = kind]
           heard == [told EXCEPT ![s] = hears]
<1>1. SlotsHear(kinds, heard)
  BY AnswerClient DEF IInv
<1>2. \A t \in Slots : SlotTold(clients[t].kind, told[t], state, device)
  BY DEF StreamsOK
<1>3. clients \in [Slots -> SlotRecords]
  BY DEF IInv, TableOK, CleanTable
<1>4. DOMAIN told = Slots
  BY DEF StreamsOK
<1>5. /\ kinds[s].kind = kind /\ heard[s] = hears
      /\ \A t \in Slots : t # s => kinds[t] = clients[t] /\ heard[t] = told[t]
  BY <1>3, <1>4 DEF SlotRecords
<1> HIDE DEF kinds, heard
<1>6. \A t \in Slots : SlotTold(kinds[t].kind, heard[t], state', device')
  BY <1>2, <1>5
<1> QED BY <1>1, <1>6, StreamsAfter

LEMMA HandleStreams == IInv /\ StreamsOK /\ Handle => StreamsOK'
<1> SUFFICES ASSUME IInv, StreamsOK, Handle PROVE StreamsOK'
  OBVIOUS
<1> DEFINE s == cursor
           m == Head(control)
<1>1. s \in Slots /\ clients[s].conn # NoConn /\ UNCHANGED <<state, device>>
  BY DEF IInv, CursorOK, Handle
<1>2. SlotTold(clients[s].kind, told[s], state, device)
  BY <1>1 DEF StreamsOK
<1>3. CASE \/ m.command = "rumble" /\ HandleRumble(s, m)
           \/ HandleStop(s)
  BY <1>3, RumbleStreams
<1>4. CASE HandleQuery(s)
  <2>1. CASE Present(device)
    <3> DEFINE hears == [told[s] EXCEPT !.view = Told(@, Snapshot(state)),
                                        !.live = TRUE]
    <3>1. Answer(s, "events", 2, hears)
      BY <1>4, <2>1 DEF HandleQuery
    <3>2. Told(told[s].view, Snapshot(state)) = Snapshot(state)
      BY <1>2, SnapshotReplacesView DEF SlotTold
    <3>3. Codes(Snapshot(state)) \subseteq StreamCodes
      BY SnapshotIsValues, CodesOfValues
    <3>4. /\ DOMAIN hears = {"view", "live", "news"}
          /\ hears.view = Snapshot(state)
      BY <1>2, <3>2 DEF SlotTold
    <3>5. SlotTold("events", hears, state, device)
      BY <3>3, <3>4 DEF SlotTold
    <3> HIDE DEF hears, s
    <3> QED BY <1>1, <3>1, <3>5, AnswerStreams DEF Kinds
  <2>2. CASE ~Present(device)
    <3> DEFINE hears == [told[s] EXCEPT !.live = FALSE]
    <3>1. Answer(s, "events", 1, hears)
      BY <1>4, <2>2 DEF HandleQuery
    <3>2. SlotTold("events", hears, state, device)
      BY <1>2 DEF SlotTold
    <3> HIDE DEF hears, s
    <3> QED BY <1>1, <3>1, <3>2, AnswerStreams DEF Kinds
  <2> QED BY <2>1, <2>2
<1>5. CASE HandleMonitor(s)
  <2> DEFINE hears == [told[s] EXCEPT !.live = FALSE, !.news = device]
  <2>1. Answer(s, "monitor", 1, hears)
    BY <1>5 DEF HandleMonitor
  <2>2. SlotTold("monitor", hears, state, device)
    BY <1>2 DEF SlotTold
  <2> HIDE DEF hears, s
  <2> QED BY <1>1, <2>1, <2>2, AnswerStreams DEF Kinds
<1>6. CASE Close(s)
  BY <1>1, <1>6, CloseStreams
<1> QED BY <1>3, <1>4, <1>5, <1>6 DEF Handle

LEMMA TickStreams == IInv /\ StreamsOK /\ Tick => StreamsOK'
<1> SUFFICES ASSUME IInv, StreamsOK, Tick PROVE StreamsOK'
  OBVIOUS
<1>1. \A s \in Slots : clients'[s].kind = clients[s].kind
  BY UpdateRumble DEF IInv, TableOK, Tick
<1> QED BY <1>1, StreamsUnchanged DEF Tick

LEMMA CloseNextStreams == IInv /\ StreamsOK /\ CloseNext => StreamsOK'
BY CloseStreams DEF CloseNext

LEMMA TimePassesStreams == IInv /\ StreamsOK /\ TimePasses => StreamsOK'
<1> SUFFICES ASSUME IInv, StreamsOK, TimePasses PROVE StreamsOK'
  OBVIOUS
<1>1. \A s \in Slots : clients'[s].kind = clients[s].kind
  BY DEF IInv, TableOK, CleanTable, SlotRecords, TimePasses
<1> QED BY <1>1, StreamsUnchanged DEF TimePasses

\* Every other step leaves clients, told, state and device alone.
Silent ==
  \/ Poll \/ PumpDone \/ AcceptDone \/ Shutdown \/ Stop
  \/ (\E c \in Conns : Connect(c) \/ Send(c) \/ Hangup(c))
  \/ XHotplug \/ XInput \/ Signal \/ UNCHANGED vars

LEMMA SilentStreams == StreamsOK /\ Silent => StreamsOK'
<1> SUFFICES ASSUME StreamsOK, Silent PROVE StreamsOK'
  OBVIOUS
<1>1. UNCHANGED <<clients, told, state, device>>
  BY DEF Silent, Poll, PumpDone, AcceptDone, Shutdown, Stop, Connect, Send, Hangup,
         XHotplug, XInput, Signal, vars, table, BridgeSide
<1> QED BY <1>1, StreamsUnchanged

-----------------------------------------------------------------------------
(* Theorems on what the clients were told. *)

LEMMA NextStreams == IInv /\ StreamsOK /\ [Next]_vars => StreamsOK'
<1> SUFFICES ASSUME IInv, StreamsOK, [Next]_vars PROVE StreamsOK'
  OBVIOUS
<1>1. CASE PumpDeviceEvent
  BY <1>1, PumpDeviceEventStreams
<1>2. CASE PumpHierarchy
  BY <1>2, PumpHierarchyStreams
<1>3. CASE AddDevice
  BY <1>3, AddDeviceStreams
<1>4. CASE XErrorExit
  BY <1>4, XErrorExitStreams
<1>5. CASE AcceptOne
  BY <1>5, AcceptOneStreams
<1>6. CASE Serve
  BY <1>6, ServeStreams
<1>7. CASE Handle
  BY <1>7, HandleStreams
<1>8. CASE Tick
  BY <1>8, TickStreams
<1>9. CASE CloseNext
  BY <1>9, CloseNextStreams
<1>10. CASE TimePasses
  BY <1>10, TimePassesStreams
<1>11. CASE Silent
  BY <1>11, SilentStreams
<1> QED
  BY <1>1, <1>2, <1>3, <1>4, <1>5, <1>6, <1>7, <1>8, <1>9, <1>10, <1>11
  DEF Next, BridgeStep, Environment, Terminated, Silent

LEMMA StreamsInvariant == Spec => []StreamsOK
BY Invariant, StreamsInit, NextStreams, PTL DEF Spec

\* A client that got a snapshot of this device has been told exactly what a
\* new client's snapshot would tell it, whatever reports, queries, closed
\* neighbours and reconnections came in between.
THEOREM StreamsMatch == Spec => []StreamsMatchState
BY StreamsInvariant, StreamsImply, PTL

\* The last hotplug message of every monitor is about the device the bridge
\* has, in the middle of a replacement too.
THEOREM MonitorsAreCurrent == Spec => []MonitorsCurrent
BY StreamsInvariant, StreamsImply, PTL

-----------------------------------------------------------------------------
(* Which clients a step may end.                                             *)

Stays(s) == clients'[s].conn = clients[s].conn
Ends(s) == clients'[s].conn = NoConn

\* A slot is ended, or keeps its client, which is of its kind and was told what
\* was heard.
Follows(kinds, heard) ==
  /\ DOMAIN told' = Slots
  /\ \A s \in Slots :
       \/ Ends(s) /\ told'[s] = NothingTold
       \/ Stays(s) /\ clients'[s].kind = kinds[s].kind /\ told'[s] = heard[s]

\* The client hung up, or what waits for it and `n` messages do not fit.
FullOrGone(s, n) ==
  clients[s].conn \notin open \/ clients[s].used + n > BufferSize

\* A slot that poll found hung up is still that, unless it has been filled since.
HupOK ==
  \A s \in Slots : s \notin fresh /\ "HUP" \in revents.slot[s] => clients[s].conn \notin open

\* close_clients ends the clients it is given and no other.
LEMMA CloseClientsEnds ==
  ASSUME NEW dev, NEW cl, NEW dropped, dropped \subseteq Slots, NEW heard,
         \A s \in Slots \ dropped : cl[s] \in SlotRecords,
         \A s \in Slots \ dropped : cl[s].conn = NoConn => cl[s] = FreeSlot,
         motor \in Motors,
         close_clients(dev, cl, dropped, heard)
  PROVE  /\ open' \subseteq open
         /\ \A s \in Slots : clients'[s].conn = IF s \in dropped THEN NoConn ELSE cl[s].conn
         /\ \A s \in Slots \ dropped : clients'[s].kind = cl[s].kind
         /\ DOMAIN told' = Slots
         /\ \A s \in Slots : told'[s] = IF s \in dropped THEN NothingTold ELSE heard[s]
<1> DEFINE kept == [s \in Slots |-> IF s \in dropped THEN FreeSlot ELSE cl[s]]
<1>1. CleanTable(kept)
  BY FreeSlotType DEF CleanTable
<1>2. open' \subseteq open BY DEF close_clients
<1>3. \A s \in Slots : kept[s].conn = IF s \in dropped THEN NoConn ELSE cl[s].conn
  BY DEF FreeSlot
<1>4. clients' = kept \/ update_rumble(dev, kept, TRUE)
  BY DEF close_clients
<1>5. \A s \in Slots \ dropped : kept[s].kind = cl[s].kind
  OBVIOUS
<1> HIDE DEF kept
<1>6. \A s \in Slots : clients'[s].conn = kept[s].conn /\ clients'[s].kind = kept[s].kind
  BY <1>1, <1>4, UpdateRumble
<1>7. told' = [s \in Slots |-> IF s \in dropped THEN NothingTold ELSE heard[s]]
  BY DEF close_clients
<1> QED BY <1>2, <1>3, <1>5, <1>6, <1>7

\* A write fails only for want of room or of a reader.
LEMMA DropsForCause ==
  ASSUME NEW c, NEW used \in 0..BufferSize
  PROVE  /\ Dropped \in queue_bytes(c, used) => c \notin open \/ used + 1 > BufferSize
         /\ Dropped \in flush_client(c, used) => c \notin open
         /\ \A u \in queue_bytes(c, used) : u = Dropped \/ u \in 0..(used + 1)
<1>1. \A n \in Nat : Dropped \in flush_client(c, n) => c \notin open
  BY DEF flush_client, Dropped
<1>2. \A n \in Nat : \A u \in flush_client(c, n) : u = Dropped \/ u \in 0..n
  BY DEF flush_client
<1>3. used + 1 \in Nat /\ used \in Nat BY BridgeAssumption
<1> QED BY <1>1, <1>2, <1>3 DEF queue_bytes

\* A broadcast ends only clients of its kind that do not take the message.
LEMMA BroadcastEnds ==
  ASSUME TableOK, NEW dev, NEW kind \in {"events", "monitor"}, NEW heard,
         broadcast(dev, kind, heard)
  PROVE  /\ open' \subseteq open
         /\ \A s \in Slots : Stays(s) \/ (Ends(s) /\ FullOrGone(s, 1))
         /\ Follows(clients, heard)
<1> DEFINE targets == {s \in Slots : clients[s].kind = kind}
<1>1. PICK sent \in [targets -> Dropped..BufferSize] :
        /\ \A s \in targets : sent[s] \in queue_bytes(clients[s].conn, clients[s].used)
        /\ close_clients(dev,
             [s \in Slots |-> IF s \in targets
                              THEN [clients[s] EXCEPT !.used = sent[s]]
                              ELSE clients[s]],
             {s \in targets : sent[s] = Dropped},
             heard)
  BY DEF broadcast
<1> DEFINE cl == [s \in Slots |-> IF s \in targets
                                  THEN [clients[s] EXCEPT !.used = sent[s]]
                                  ELSE clients[s]]
           dropped == {s \in targets : sent[s] = Dropped}
<1>2. \A s \in Slots : clients[s] \in SlotRecords
  BY DEF TableOK, CleanTable
<1>3. \A s \in targets : sent[s] \in {Dropped} \union 0..BufferSize
  BY <1>1, <1>2, QueueBytesType, SlotFields
<1>4. \A s \in Slots : cl[s].conn = clients[s].conn /\ cl[s].kind = clients[s].kind
  BY <1>2 DEF SlotRecords
<1>5. \A s \in Slots \ dropped : cl[s] \in SlotRecords
  BY <1>2, <1>3 DEF SlotRecords
<1>6. \A s \in Slots : cl[s].conn = NoConn => cl[s] = FreeSlot
  <2>1. FreeSlot.kind \notin {"events", "monitor"}
    BY DEF FreeSlot
  <2> QED BY <1>4, <2>1 DEF TableOK, CleanTable
<1>7. \A s \in dropped : FullOrGone(s, 1)
  BY <1>1, <1>2, DropsForCause, SlotFields DEF FullOrGone
<1>8. dropped \subseteq Slots OBVIOUS
<1>9. close_clients(dev, cl, dropped, heard) BY <1>1
<1> HIDE DEF cl, dropped
<1>10. /\ open' \subseteq open
       /\ \A s \in Slots : clients'[s].conn = IF s \in dropped THEN NoConn ELSE cl[s].conn
       /\ \A s \in Slots \ dropped : clients'[s].kind = cl[s].kind
       /\ DOMAIN told' = Slots
       /\ \A s \in Slots : told'[s] = IF s \in dropped THEN NothingTold ELSE heard[s]
  BY <1>4, <1>5, <1>6, <1>8, <1>9, CloseClientsEnds DEF TableOK
<1>11. Follows(clients, heard) BY <1>4, <1>10 DEF Follows, Stays, Ends
<1> QED BY <1>4, <1>7, <1>10, <1>11 DEF Stays, Ends

\* An answer ends only the client that asked.
LEMMA AnswerEnds ==
  ASSUME TableOK, NEW s \in Slots, clients[s].conn # NoConn,
         NEW kind \in Kinds, NEW messages \in {1, 2}, NEW hears,
         Answer(s, kind, messages, hears)
  PROVE  /\ open' \subseteq open
         /\ \A t \in Slots : Stays(t) \/ (t = s /\ Ends(t) /\ FullOrGone(t, messages))
         /\ Follows([clients EXCEPT ![s].kind = kind], [told EXCEPT ![s] = hears])
<1> DEFINE c == clients[s].conn
           first == queue_bytes(c, clients[s].used)
           second == UNION {IF u = Dropped THEN {Dropped} ELSE queue_bytes(c, u) : u \in first}
           sizes == {Dropped} \union 0..BufferSize
<1>1. \A t \in Slots : clients[t] \in SlotRecords
  BY DEF TableOK, CleanTable
<1>2. clients[s].used \in 0..BufferSize BY <1>1, SlotFields
<1>3. first \subseteq sizes BY <1>2, QueueBytesType
<1>4. second \subseteq sizes BY <1>3, QueueBytesType
<1>5. PICK used \in IF messages = 2 THEN second ELSE first :
        close_clients(device,
          [clients EXCEPT ![s].kind = kind, ![s].used = used],
          IF used = Dropped THEN {s} ELSE {}, [told EXCEPT ![s] = hears])
  BY DEF Answer
<1>6. used = Dropped => FullOrGone(s, messages)
  <2>1. Dropped \in first => FullOrGone(s, 1)
    BY <1>2, DropsForCause DEF FullOrGone
  <2>2. Dropped \in second => FullOrGone(s, 2)
    <3> SUFFICES ASSUME Dropped \in second PROVE FullOrGone(s, 2)
      OBVIOUS
    <3>1. PICK u \in first : Dropped \in IF u = Dropped THEN {Dropped} ELSE queue_bytes(c, u)
      OBVIOUS
    <3>2. CASE u = Dropped
      BY <1>2, <2>1, <3>2, BridgeAssumption DEF FullOrGone
    <3>3. CASE u # Dropped
      <4>1. u \in 0..BufferSize /\ u \in 0..(clients[s].used + 1)
        BY <1>2, <1>3, <3>3, DropsForCause
      <4>2. c \notin open \/ u + 1 > BufferSize
        BY <3>1, <3>3, <4>1, DropsForCause
      <4> QED BY <1>2, <4>1, <4>2, BridgeAssumption DEF FullOrGone
    <3> QED BY <3>2, <3>3
  <2> QED BY <1>5, <2>1, <2>2
<1> DEFINE cl == [clients EXCEPT ![s].kind = kind, ![s].used = used]
           dropped == IF used = Dropped THEN {s} ELSE {}
           heard == [told EXCEPT ![s] = hears]
<1>7. \A t \in Slots : cl[t].conn = clients[t].conn /\ (t # s => cl[t] = clients[t])
  BY <1>1 DEF SlotRecords, TableOK, CleanTable
<1>8. used \in sizes BY <1>3, <1>4, <1>5
<1>9. \A t \in Slots \ dropped : cl[t] \in SlotRecords
  BY <1>1, <1>8 DEF SlotRecords, TableOK, CleanTable
<1>10. \A t \in Slots : cl[t].conn = NoConn => cl[t] = FreeSlot
  BY <1>7 DEF TableOK, CleanTable
<1>11. dropped \subseteq Slots /\ (\A t \in dropped : t = s /\ used = Dropped) OBVIOUS
<1>12. close_clients(device, cl, dropped, heard) BY <1>5
<1> HIDE DEF cl, dropped, heard
<1>13. /\ open' \subseteq open
       /\ \A t \in Slots : clients'[t].conn = IF t \in dropped THEN NoConn ELSE cl[t].conn
       /\ \A t \in Slots \ dropped : clients'[t].kind = cl[t].kind
       /\ DOMAIN told' = Slots
       /\ \A t \in Slots : told'[t] = IF t \in dropped THEN NothingTold
                                       ELSE heard[t]
  BY <1>7, <1>9, <1>10, <1>11, <1>12, CloseClientsEnds DEF TableOK
<1>14. \A t \in Slots : cl[t].kind = [clients EXCEPT ![s].kind = kind][t].kind
  BY <1>1 DEF cl, SlotRecords, TableOK, CleanTable
<1>15. Follows([clients EXCEPT ![s].kind = kind], heard)
  BY <1>7, <1>13, <1>14 DEF Follows, Stays, Ends
<1> QED BY <1>6, <1>7, <1>11, <1>13, <1>15 DEF Stays, Ends, heard

LEMMA CloseEnds ==
  ASSUME TableOK, NEW s \in Slots, Close(s)
  PROVE  /\ open' \subseteq open
         /\ \A t \in Slots : Stays(t) \/ (t = s /\ Ends(t))
         /\ Follows(clients, told)
<1> DEFINE dropped == {s}
           cl == clients
           heard == told
<1>1. dropped \subseteq Slots /\ close_clients(device, cl, dropped, heard)
  BY DEF Close
<1>2. \A t \in Slots : cl[t] \in SlotRecords
  BY DEF TableOK, CleanTable
<1>3. \A t \in Slots : cl[t].conn = NoConn => cl[t] = FreeSlot
  BY DEF TableOK, CleanTable
<1> HIDE DEF dropped, cl, heard
<1>4. /\ open' \subseteq open
      /\ \A t \in Slots : clients'[t].conn = IF t \in dropped THEN NoConn ELSE cl[t].conn
      /\ \A t \in Slots \ dropped : clients'[t].kind = cl[t].kind
      /\ DOMAIN told' = Slots
      /\ \A t \in Slots : told'[t] = IF t \in dropped THEN NothingTold ELSE heard[t]
  BY <1>1, <1>2, <1>3, CloseClientsEnds DEF TableOK
<1>5. Follows(clients, told) BY <1>4 DEF Follows, Stays, Ends, cl, heard
<1> QED BY <1>4, <1>5 DEF Stays, Ends, dropped, cl

\* What a step of the bridge that fills no slot may do to the clients and to
\* what poll said of them.
Spares ==
  /\ open' \subseteq open
  /\ \A s \in Slots : Stays(s) \/ (Ends(s) /\ (MayClose(s) \/ s \in fresh))
  /\ \A s \in Slots : "HUP" \in revents'.slot[s] => "HUP" \in revents.slot[s]
  /\ fresh' = fresh

LEMMA SparesIsEnough ==
  ASSUME IInv, HupOK, Spares
  PROVE  HupOK' /\ \A s \in Slots : Loses(s) => MayClose(s) \/ s \in fresh
<1>1. NoConn \notin open BY BridgeAssumption DEF IInv, TableOK
<1>2. HupOK' BY <1>1 DEF HupOK, Spares, Stays, Ends
<1>3. \A s \in Slots : Loses(s) => MayClose(s) \/ s \in fresh
  BY DEF Loses, Spares, Stays
<1> QED BY <1>2, <1>3

LEMMA FullMayClose ==
  ASSUME IInv, NEW s \in Slots
  PROVE  /\ FullOrGone(s, 1) => MayClose(s)
         /\ FullOrGone(s, 2) /\ Handles(s, {"query"}) => MayClose(s)
<1>1. clients[s].used \in 0..BufferSize BY SlotFields DEF IInv, TableOK, CleanTable
<1>2. clients[s].used + 1 > BufferSize => clients[s].used + 2 > BufferSize
  BY <1>1, BridgeAssumption
<1> QED BY <1>2 DEF FullOrGone, MayClose

\* The loop's step from slot to slot forgets what poll said.
LEMMA NextSlotSpares ==
  ASSUME IInv, cursor \in Slots, NextSlot
  PROVE  \A s \in Slots : "HUP" \in revents'.slot[s] => "HUP" \in revents.slot[s]
<1>1. revents' = [revents EXCEPT !.slot[cursor] = {}] BY DEF NextSlot
<1>2. revents \in [server : BOOLEAN, slot : [Slots -> SUBSET {"IN", "OUT", "HUP"}]]
  BY DEF IInv, LoopOK
<1> QED BY <1>1, <1>2

LEMMA PumpSpares ==
  ASSUME IInv, PumpDeviceEvent \/ PumpHierarchy \/ AddDevice
  PROVE  Spares
<1>1. UNCHANGED <<revents, fresh>>
  BY DEF PumpDeviceEvent, PumpHierarchy, AddDevice, loop
<1>2. \/ UNCHANGED table
      \/ \E dev, heard : \E kind \in {"events", "monitor"} : broadcast(dev, kind, heard)
  <2>1. CASE PumpDeviceEvent
    BY <2>1 DEF PumpDeviceEvent, table
  <2>2. CASE PumpHierarchy
    BY <2>2 DEF PumpHierarchy, table
  <2>3. CASE AddDevice
    BY <2>3 DEF AddDevice
  <2> QED BY <2>1, <2>2, <2>3
<1>3. CASE UNCHANGED table
  BY <1>1, <1>3 DEF table, Spares, Stays
<1>4. CASE \E dev, heard : \E kind \in {"events", "monitor"} : broadcast(dev, kind, heard)
  <2>1. PICK dev, heard : \E kind \in {"events", "monitor"} : broadcast(dev, kind, heard)
    BY <1>4
  <2>2. PICK kind \in {"events", "monitor"} : broadcast(dev, kind, heard) BY <2>1
  <2>3. /\ open' \subseteq open
        /\ \A s \in Slots : Stays(s) \/ (Ends(s) /\ FullOrGone(s, 1))
    BY <2>2, BroadcastEnds DEF IInv
  <2> QED BY <1>1, <2>3, FullMayClose DEF Spares
<1> QED BY <1>2, <1>3, <1>4

LEMMA ServeSpares == IInv /\ HupOK /\ Serve => Spares
<1> SUFFICES ASSUME IInv, HupOK, Serve PROVE Spares
  OBVIOUS
<1> DEFINE s == cursor
           c == clients[s].conn
           r == revents.slot[s]
<1>1. s \in Slots /\ fresh' = fresh /\ TableOK
  BY DEF IInv, CursorOK, Serve
<1>2. CASE c = NoConn
  <2>1. NextSlot /\ UNCHANGED table
    BY <1>2 DEF Serve
  <2> QED BY <1>1, <2>1, NextSlotSpares DEF table, Spares, Stays
<1>3. CASE c # NoConn
  <2>1. clients[s].used \in 0..BufferSize
    BY <1>1, SlotFields DEF TableOK, CleanTable
  <2>2. PICK used \in IF "OUT" \in r THEN flush_client(c, clients[s].used)
                                     ELSE {clients[s].used} :
          \/ /\ used = Dropped \/ "HUP" \in r \/ c \notin open
             /\ Close(s) /\ NextSlot
          \/ /\ clients' = [clients EXCEPT ![s].used = used]
             /\ UNCHANGED open
             /\ NextSlot \/ UNCHANGED revents
    BY <1>3 DEF Serve
  <2>3. used = Dropped => c \notin open
    BY <2>1, <2>2, DropsForCause DEF Dropped
  <2>4. CASE /\ used = Dropped \/ "HUP" \in r \/ c \notin open
             /\ Close(s) /\ NextSlot
    <3>1. MayClose(s) \/ s \in fresh
      BY <1>1, <2>3, <2>4 DEF HupOK, MayClose
    <3>2. open' \subseteq open /\ \A t \in Slots : Stays(t) \/ (t = s /\ Ends(t))
      BY <1>1, <2>4, CloseEnds
    <3> QED BY <1>1, <2>4, <3>1, <3>2, NextSlotSpares DEF Spares
  <2>5. CASE /\ clients' = [clients EXCEPT ![s].used = used]
             /\ UNCHANGED open
             /\ NextSlot \/ UNCHANGED revents
    <3>1. \A t \in Slots : Stays(t)
      BY <1>1, <2>5 DEF TableOK, CleanTable, SlotRecords, Stays
    <3> QED BY <1>1, <2>5, <3>1, NextSlotSpares DEF Spares
  <2> QED BY <2>2, <2>4, <2>5
<1> QED BY <1>2, <1>3

LEMMA HandleSpares == IInv /\ Handle => Spares
<1> SUFFICES ASSUME IInv, Handle PROVE Spares
  OBVIOUS
<1> DEFINE s == cursor
           m == Head(control)
<1>1. /\ s \in Slots /\ clients[s].conn # NoConn /\ TableOK /\ fresh' = fresh
      /\ pc = "serve" /\ control # <<>>
  BY DEF IInv, CursorOK, Handle
<1>2. \A t \in Slots : "HUP" \in revents'.slot[t] => "HUP" \in revents.slot[t]
  <2>1. NextSlot \/ UNCHANGED revents BY DEF Handle
  <2> QED BY <1>1, <2>1, NextSlotSpares
<1>3. SUFFICES /\ open' \subseteq open
               /\ \A t \in Slots : Stays(t) \/ (Ends(t) /\ MayClose(t))
  BY <1>1, <1>2 DEF Spares
<1>4. CASE (m.command = "rumble" /\ HandleRumble(s, m)) \/ HandleStop(s)
  <2>1. PICK low \in Levels, high \in Levels, ttl \in Ticks :
          /\ update_rumble(device, [clients EXCEPT ![s].low = low,
                             ![s].high = high, ![s].ttl = ttl], TRUE)
          /\ UNCHANGED <<open, inbox>>
    BY <1>4, RumbleHandlers
  <2> HIDE DEF s
  <2>2. \A t \in Slots : clients'[t].conn = clients[t].conn
    BY <1>1, <2>1, SetRumble
  <2> QED BY <2>1, <2>2 DEF Stays
<1>5. CASE m.command = "query" /\ HandleQuery(s)
  <2>1. PICK messages \in {1, 2} : \E hears : Answer(s, "events", messages, hears)
    BY <1>5 DEF HandleQuery
  <2>2. PICK hears : Answer(s, "events", messages, hears)
    BY <2>1
  <2>3. /\ open' \subseteq open
        /\ \A t \in Slots : Stays(t) \/ (t = s /\ Ends(t) /\ FullOrGone(t, messages))
    BY <1>1, <2>2, AnswerEnds DEF Kinds
  <2>4. Handles(s, {"query"}) BY <1>1, <1>5 DEF Handles
  <2> QED BY <1>1, <2>3, <2>4, FullMayClose
<1>6. CASE HandleMonitor(s)
  <2>1. PICK hears : Answer(s, "monitor", 1, hears) BY <1>6 DEF HandleMonitor
  <2>2. /\ open' \subseteq open
        /\ \A t \in Slots : Stays(t) \/ (t = s /\ Ends(t) /\ FullOrGone(t, 1))
    BY <1>1, <2>1, AnswerEnds DEF Kinds
  <2> QED BY <1>1, <2>2, FullMayClose
<1>7. CASE m.command = "invalid" /\ Close(s)
  <2>1. open' \subseteq open /\ \A t \in Slots : Stays(t) \/ (t = s /\ Ends(t))
    BY <1>1, <1>7, CloseEnds
  <2>2. MayClose(s) BY <1>1, <1>7 DEF Handles, MayClose
  <2> QED BY <2>1, <2>2
<1> QED BY <1>4, <1>5, <1>6, <1>7 DEF Handle

LEMMA TickSpares == IInv /\ Tick => Spares
<1> SUFFICES ASSUME IInv, Tick PROVE Spares
  OBVIOUS
<1>1. \A s \in Slots : clients'[s].conn = clients[s].conn
  BY UpdateRumble DEF IInv, TableOK, Tick
<1> QED BY <1>1 DEF Tick, NoRevents, Spares, Stays

LEMMA CloseNextSpares == IInv /\ CloseNext => Spares
<1> SUFFICES ASSUME IInv, CloseNext PROVE Spares
  OBVIOUS
<1>1. open' \subseteq open /\ \A t \in Slots : Stays(t) \/ (t = cursor /\ Ends(t))
  BY CloseEnds DEF IInv, CloseNext
<1> QED BY <1>1 DEF CloseNext, Spares, MayClose

LEMMA XErrorExitSpares == IInv /\ XErrorExit => HupOK' /\ \A s \in Slots : MayClose(s)
BY DEF XErrorExit, HupOK, MayClose

\* Other steps leave every client in its slot, or fill one.
LEMMA PollJust ==
  ASSUME IInv, Poll
  PROVE  HupOK' /\ \A s \in Slots : Stays(s)
<1>1. /\ \A s \in Slots : revents'.slot[s] \in SlotRevents(s)
      /\ UNCHANGED <<clients, open>>
  BY DEF Poll, table
<1>2. \A s \in Slots : "HUP" \in revents'.slot[s] => clients[s].conn \notin open
  <2> TAKE s \in Slots
  <2>1. PICK out \in {{}, {"OUT"}} :
          revents'.slot[s]
            = (IF clients[s].conn # NoConn /\ (inbox[clients[s].conn] # <<>> \/ clients[s].conn \notin open)
               THEN {"IN"} ELSE {})
              \union (IF clients[s].conn # NoConn /\ clients[s].conn \notin open THEN {"HUP"} ELSE {})
              \union out
    BY <1>1 DEF SlotRevents
  <2> QED BY <2>1
<1> QED BY <1>1, <1>2 DEF HupOK, Stays

LEMMA AcceptOneJust ==
  ASSUME IInv, HupOK, AcceptOne
  PROVE  HupOK' /\ \A s \in Slots : ~Loses(s)
<1>1. revents' = revents /\ open' \subseteq open BY DEF AcceptOne, loop
<1>2. CASE FreeSlots # {}
  <2> DEFINE s == CHOOSE s \in FreeSlots : \A t \in FreeSlots : s <= t
  <2>1. /\ clients' = [clients EXCEPT ![s] = [FreeSlot EXCEPT !.conn = Head(backlog)]]
        /\ fresh' = fresh \union {s} /\ UNCHANGED open
    BY <1>2 DEF AcceptOne
  <2>2. s \in FreeSlots
    BY <1>2, FirstFree
  <2> HIDE DEF s
  <2>3. \A t \in Slots : t # s => clients'[t] = clients[t]
    BY <2>1 DEF IInv, TableOK, CleanTable
  <2> QED BY <1>1, <2>1, <2>2, <2>3 DEF HupOK, Loses, FreeSlots
<1>3. CASE FreeSlots = {}
  <2>1. UNCHANGED <<clients, fresh>> BY <1>3 DEF AcceptOne
  <2> QED BY <1>1, <2>1 DEF HupOK, Loses
<1> QED BY <1>2, <1>3

LEMMA SilentJust ==
  ASSUME IInv, HupOK, Silent \/ TimePasses
  PROVE  HupOK' /\ \A s \in Slots : ~Loses(s)
<1>1. CASE Poll BY <1>1, PollJust DEF Loses, Stays
<1>2. CASE \/ PumpDone \/ AcceptDone \/ Shutdown \/ Stop
           \/ (\E c \in Conns : Send(c) \/ Hangup(c))
           \/ XHotplug \/ XInput \/ Signal \/ UNCHANGED vars
  <2>1. UNCHANGED <<clients, revents, fresh>> /\ open' \subseteq open
    BY <1>2 DEF PumpDone, AcceptDone, Shutdown, Stop, Send, Hangup,
         XHotplug, XInput, Signal, vars, table, loop, BridgeSide
  <2> QED BY <2>1 DEF HupOK, Loses
<1>3. CASE \E c \in Conns : Connect(c)
  <2>1. PICK c \in Conns : Connect(c) BY <1>3
  <2>2. /\ UNCHANGED <<clients, revents, fresh>> /\ open' = open \union {c}
        /\ \A s \in Slots : clients[s].conn # c
    BY <2>1 DEF Connect, InSlot, BridgeSide, loop
  <2>3. HupOK' BY <2>2 DEF HupOK
  <2>4. \A s \in Slots : ~Loses(s) BY <2>2 DEF Loses
  <2> QED BY <2>3, <2>4
<1>4. CASE TimePasses
  <2>1. \A s \in Slots : clients'[s].conn = clients[s].conn
    BY <1>4 DEF IInv, TableOK, CleanTable, SlotRecords, TimePasses
  <2>2. UNCHANGED <<open, revents, fresh>> BY <1>4 DEF TimePasses, loop
  <2>3. HupOK' BY <2>1, <2>2 DEF HupOK
  <2>4. \A s \in Slots : ~Loses(s) BY <2>1 DEF Loses
  <2> QED BY <2>3, <2>4
<1> QED BY <1>1, <1>2, <1>3, <1>4 DEF Silent

LEMMA NextSpares ==
  ASSUME IInv, HupOK, [Next]_vars
  PROVE  HupOK' /\ \A s \in Slots : Loses(s) => MayClose(s) \/ s \in fresh
<1>1. CASE Spares
  BY <1>1, SparesIsEnough
<1>2. CASE PumpDeviceEvent \/ PumpHierarchy \/ AddDevice
  BY <1>1, <1>2, PumpSpares
<1>3. CASE Serve
  BY <1>1, <1>3, ServeSpares
<1>4. CASE Handle
  BY <1>1, <1>4, HandleSpares
<1>5. CASE Tick
  BY <1>1, <1>5, TickSpares
<1>6. CASE CloseNext
  BY <1>1, <1>6, CloseNextSpares
<1>7. CASE XErrorExit
  BY <1>7, XErrorExitSpares
<1>8. CASE AcceptOne
  BY <1>8, AcceptOneJust
<1>9. CASE Silent \/ TimePasses
  BY <1>9, SilentJust
<1> QED
  BY <1>2, <1>3, <1>4, <1>5, <1>6, <1>7, <1>8, <1>9
  DEF Next, BridgeStep, Environment, Terminated, Silent

LEMMA HupInvariant == Spec => []HupOK
<1>1. Init => HupOK
  BY DEF Init, HupOK, NoRevents
<1>2. IInv /\ HupOK /\ [Next]_vars => HupOK'
  BY NextSpares
<1> QED BY <1>1, <1>2, Invariant, PTL DEF Spec

\* A client loses its connection because it hung up, sent rubbish, asked for
\* more than its buffer holds or let output pile up, or the process ends: never
\* because of another client, unless it was accepted since the last poll.
THEOREM ClosesAreJustified == Spec => OnlyJustifiedCloses
<1>1. IInv /\ HupOK /\ [Next]_vars =>
        [\A s \in Slots : Loses(s) => MayClose(s) \/ s \in fresh]_vars
  BY NextSpares
<1> QED BY <1>1, Invariant, HupInvariant, PTL DEF Spec, OnlyJustifiedCloses

-----------------------------------------------------------------------------
(* The bridge implements BridgeService: every step of it is a step of the    *)
(* service or none, for the sessions of BridgeRefinement.                    *)

\* A connection has one place: a slot, or a place in the backlog.
OneSlot ==
  /\ \A s, t \in Slots :
       clients[s].conn = clients[t].conn => s = t \/ clients[s].conn = NoConn
  /\ \A s \in Slots : ~Waiting(clients[s].conn)
  /\ \A i, j \in DOMAIN backlog : backlog[i] = backlog[j] => i = j

Nothing(t) == t.view = {} /\ t.live = FALSE /\ t.news = NoNews

\* What the refinement needs besides: a free slot was told nothing, and a
\* device is only added where there is none.
RefInv ==
  /\ OneSlot
  /\ \A s \in Slots : clients[s].conn = NoConn => Nothing(told[s])
  /\ adding # NoDevice => device = NoDevice

LEMMA NoConnNeverWaits == backlog \in Seq(Conns) => ~Waiting(NoConn)
BY BridgeAssumption DEF Waiting

\* Ending clients gives no connection a second place.
LEMMA EndingKeepsPlaces ==
  ASSUME OneSlot, backlog \in Seq(Conns), backlog' \in {backlog, <<>>},
         \A s \in Slots : Stays(s) \/ Ends(s)
  PROVE  OneSlot'
<1>1. \A s \in Slots : ~(\E i \in DOMAIN backlog' : backlog'[i] = clients'[s].conn)
  BY NoConnNeverWaits DEF OneSlot, Waiting, Stays, Ends
<1>2. \A s, t \in Slots :
        clients'[s].conn = clients'[t].conn => s = t \/ clients'[s].conn = NoConn
  BY DEF OneSlot, Stays, Ends
<1>3. \A i, j \in DOMAIN backlog' : backlog'[i] = backlog'[j] => i = j
  BY DEF OneSlot
<1> QED BY <1>1, <1>2, <1>3 DEF OneSlot, Waiting

\* A step that ends clients and lets the others hear something.
LEMMA FollowsKeeps ==
  ASSUME RefInv, backlog \in Seq(Conns), backlog' \in {backlog, <<>>},
         NEW kinds, NEW heard, Follows(kinds, heard),
         \A s \in Slots : clients[s].conn = NoConn => Nothing(heard[s]),
         adding' # NoDevice => device' = NoDevice
  PROVE  RefInv'
<1>1. \A s \in Slots : Stays(s) \/ Ends(s) BY DEF Follows
<1>2. OneSlot' BY <1>1, EndingKeepsPlaces DEF RefInv
<1>3. Nothing(NothingTold) BY DEF Nothing, NothingTold
<1>4. \A s \in Slots : clients'[s].conn = NoConn => Nothing(told'[s])
  BY <1>3 DEF Follows, Stays, Ends
<1> QED BY <1>2, <1>4 DEF RefInv, Nothing

\* A step that leaves connections, kinds and what they were told.
Leaves ==
  /\ \A s \in Slots : Stays(s) /\ clients'[s].kind = clients[s].kind
  /\ UNCHANGED told

LEMMA LeavesKeeps ==
  ASSUME RefInv, backlog \in Seq(Conns), backlog' \in {backlog, <<>>}, Leaves,
         UNCHANGED <<adding, device>>
  PROVE  RefInv'
<1>1. OneSlot' BY EndingKeepsPlaces DEF RefInv, Leaves
<1> QED BY <1>1 DEF RefInv, Leaves, Stays, Nothing

-----------------------------------------------------------------------------
(* Sessions of the service, from the slots of the bridge.                    *)

\* Session of BridgeRefinement, of any table.
SessionIn(cl, tl, c) ==
  IF \E s \in Slots : cl[s].conn = c
  THEN LET s == CHOOSE s \in Slots : cl[s].conn = c IN Heard(cl[s].kind, tl[s])
  ELSE Heard("closed", NothingTold)

LEMMA SessionIsIn ==
  /\ \A c : Session(c) = SessionIn(clients, told, c)
  /\ \A c : Session(c)' = SessionIn(clients', told', c)
BY DEF Session, SessionIn, SlotOf

LEMMA SessionAt ==
  ASSUME NEW cl, NEW tl, NEW s \in Slots,
         \A t \in Slots : cl[t].conn = cl[s].conn => t = s
  PROVE  SessionIn(cl, tl, cl[s].conn) = Heard(cl[s].kind, tl[s])
<1>1. (CHOOSE t \in Slots : cl[t].conn = cl[s].conn) = s
  OBVIOUS
<1> QED BY <1>1 DEF SessionIn

LEMMA SessionNone ==
  ASSUME NEW cl, NEW tl, NEW c, \A t \in Slots : cl[t].conn # c
  PROVE  SessionIn(cl, tl, c) = Service!Closed
BY DEF SessionIn, Heard, NothingTold, Service!Closed, Service!Session

\* Service!session, as it is written in the substitution of BridgeRefinement.
Sessions == [c \in Conns |-> Session(c)]

LEMMA SessionNow ==
  ASSUME OneSlot
  PROVE  /\ \A s \in Slots : clients[s].conn \in Conns =>
              Sessions[clients[s].conn] = Heard(clients[s].kind, told[s])
         /\ \A c \in Conns : ~InSlot(c) => Sessions[c] = Service!Closed
<1>1. ASSUME NEW s \in Slots, clients[s].conn \in Conns
      PROVE  Sessions[clients[s].conn] = Heard(clients[s].kind, told[s])
  <2>1. \A t \in Slots : clients[t].conn = clients[s].conn => t = s
    BY <1>1, BridgeAssumption DEF OneSlot
  <2>2. SessionIn(clients, told, clients[s].conn) = Heard(clients[s].kind, told[s])
    BY <2>1, SessionAt
  <2> QED BY <1>1, <2>2, SessionIsIn DEF Sessions
<1>2. ASSUME NEW c \in Conns, ~InSlot(c)
      PROVE  Sessions[c] = Service!Closed
  <2>1. SessionIn(clients, told, c) = Service!Closed
    BY <1>2, SessionNone DEF InSlot
  <2> QED BY <1>2, <2>1, SessionIsIn DEF Sessions
<1> QED BY <1>1, <1>2

\* The sessions that go on were told what was heard, the others are lost.
LEMMA FollowsIsKeeping ==
  ASSUME OneSlot, NEW kinds, NEW heard, Follows(kinds, heard), NEW sessions,
         \A s \in Slots : clients[s].conn \in Conns =>
           sessions[clients[s].conn] = Heard(kinds[s].kind, heard[s]),
         \A c \in Conns : ~InSlot(c) => sessions[c] = Service!Closed
  PROVE  Service!Keeping(sessions)
<1> DEFINE lost == {c \in Conns : \E s \in Slots : clients[s].conn = c /\ Ends(s)}
<1>1. \A s \in Slots : Stays(s) \/ Ends(s) BY DEF Follows
<1>2. ASSUME NEW c \in Conns
      PROVE  Session(c)' = IF c \in lost THEN Service!Closed ELSE sessions[c]
  <2>1. c # NoConn BY BridgeAssumption
  <2>2. CASE c \in lost
    <3>1. PICK s \in Slots : clients[s].conn = c /\ Ends(s) BY <2>2
    <3>2. \A t \in Slots : clients'[t].conn # c
      BY <1>1, <2>1, <3>1 DEF OneSlot, Stays, Ends
    <3>3. SessionIn(clients', told', c) = Service!Closed
      BY <3>2, SessionNone
    <3> QED BY <2>2, <3>3, SessionIsIn
  <2>3. CASE c \notin lost /\ InSlot(c)
    <3>1. PICK s \in Slots : clients[s].conn = c BY <2>3 DEF InSlot
    <3>2. ~Ends(s) BY <2>3, <3>1
    <3>3. /\ clients'[s].conn = c /\ clients'[s].kind = kinds[s].kind
          /\ told'[s] = heard[s]
      BY <3>1, <3>2 DEF Follows, Stays
    <3>4. \A t \in Slots : clients'[t].conn = clients'[s].conn => t = s
      BY <1>1, <2>1, <3>1, <3>3 DEF OneSlot, Stays, Ends
    <3>5. SessionIn(clients', told', clients'[s].conn) = Heard(clients'[s].kind, told'[s])
      BY <3>4, SessionAt
    <3>6. sessions[c] = Heard(kinds[s].kind, heard[s])
      BY <3>1
    <3> QED BY <2>3, <3>3, <3>5, <3>6, SessionIsIn
  <2>4. CASE c \notin lost /\ ~InSlot(c)
    <3>1. \A t \in Slots : clients'[t].conn # c
      BY <1>1, <2>1, <2>4 DEF InSlot, Stays, Ends
    <3>2. SessionIn(clients', told', c) = Service!Closed
      BY <3>1, SessionNone
    <3> QED BY <2>4, <3>2, SessionIsIn
  <2> QED BY <2>2, <2>3, <2>4
<1>3. lost \in SUBSET Conns OBVIOUS
<1> HIDE DEF lost
<1>4. [c \in Conns |-> Session(c)']
        = [c \in Conns |-> IF c \in lost THEN Service!Closed ELSE sessions[c]]
  BY <1>2
<1> QED BY <1>3, <1>4 DEF Service!Keeping

\* Nobody hears anything, but some may be ended.
LEMMA EndingLoses ==
  ASSUME OneSlot, Follows(clients, told), UNCHANGED <<state, device>>
  PROVE  Service!Lose
<1>1. Service!Keeping(Sessions) BY SessionNow, FollowsIsKeeping
<1> QED BY <1>1 DEF Service!Lose, Sessions

\* No session changes.
LEMMA LeavingStutters ==
  ASSUME OneSlot, Leaves, UNCHANGED device, Snapshot(state') = Snapshot(state)
  PROVE  UNCHANGED Service!vars
<1>1. ASSUME NEW c \in Conns PROVE Session(c)' = Session(c)
  <2>1. c # NoConn BY BridgeAssumption
  <2>2. CASE InSlot(c)
    <3>1. PICK s \in Slots : clients[s].conn = c BY <2>2 DEF InSlot
    <3>2. /\ \A t \in Slots : clients[t].conn = clients[s].conn => t = s
          /\ \A t \in Slots : clients'[t].conn = clients'[s].conn => t = s
      BY <2>1, <3>1 DEF OneSlot, Leaves, Stays
    <3>3. SessionIn(clients, told, clients[s].conn) = Heard(clients[s].kind, told[s])
      BY <3>2, SessionAt
    <3>4. SessionIn(clients', told', clients'[s].conn) = Heard(clients'[s].kind, told'[s])
      BY <3>2, SessionAt
    <3> QED BY <3>1, <3>3, <3>4, SessionIsIn DEF Leaves, Stays
  <2>3. CASE ~InSlot(c)
    <3>1. SessionIn(clients, told, c) = Service!Closed
      BY <2>3, SessionNone DEF InSlot
    <3>2. SessionIn(clients', told', c) = Service!Closed
      BY <2>3, SessionNone DEF InSlot, Leaves, Stays
    <3> QED BY <3>1, <3>2, SessionIsIn
  <2> QED BY <2>2, <2>3
<1> QED BY <1>1 DEF Service!vars

-----------------------------------------------------------------------------
(* The steps of the service.                                                 *)

LEMMA SnapshotIsPicture == ASSUME NEW st PROVE Service!IsPicture(Snapshot(st))
<1>1. /\ Codes(Snapshot(st)) = StreamCodes
      /\ Codes(Snapshot(ZeroState)) = StreamCodes
  BY SnapshotIsValues, CodesOfValues
<1>2. \A p, q \in Values(st, StreamCodes) : p[1] = q[1] => p = q
  BY DEF Values
<1> QED BY <1>1, <1>2, SnapshotIsValues DEF Service!IsPicture, Service!CodesIn, Codes

LEMMA UpdatedIsTold ==
  ASSUME NEW view, NEW report
  PROVE  Service!Updated(view, report) = Told(view, report)
BY DEF Service!Updated, Service!CodesIn, Told, Codes

\* A report is the difference of two snapshots.
LEMMA ReportIsDifference ==
  ASSUME NEW st, IsGamepadState(st), NEW e, IsXiEvent(e)
  PROVE  Snapshot(After(st, e)) \ Snapshot(st) = Report(st, e)
<1> DEFINE new == After(st, e)
<1>1. /\ Snapshot(st) = Values(st, StreamCodes)
      /\ Snapshot(new) = Values(new, StreamCodes)
      /\ Report(st, e) = Values(new, Changed(st, new))
  BY SnapshotIsValues, ReportIsChanged
<1> HIDE DEF new
<1>2. Values(new, StreamCodes) \ Values(st, StreamCodes) = Values(new, Changed(st, new))
  BY DEF Values, Changed
<1> QED BY <1>1, <1>2 DEF new

\* process_xi_event: the streams are told the difference.
LEMMA PumpDeviceEventServes ==
  ASSUME IInv, StreamsOK, RefInv, PumpDeviceEvent
  PROVE  RefInv' /\ [Service!Next]_(Service!vars)
<1> DEFINE e == Head(xqueue)
           report == Report(state, e.event)
           hears(t) == [t EXCEPT !.view = Told(@, report)]
           heard == Hears("events", hears)
<1>1. /\ UNCHANGED <<device, adding, backlog>> /\ backlog \in Seq(Conns)
      /\ OneSlot /\ TableOK
  BY DEF PumpDeviceEvent, loop, IInv, LoopOK, RefInv
<1>2. IsXiEvent(e.event) /\ IsGamepadState(state)
  BY XEventsType, QueueHead DEF IInv, ServerOK, PumpDeviceEvent
<1>3. Told(Snapshot(state), report) = Snapshot(After(state, e.event))
  BY <1>2, ReportCompletesSnapshot
<1>4. CASE UNCHANGED table /\ Snapshot(state') = Snapshot(state)
  <2>1. Leaves BY <1>4 DEF table, Leaves, Stays
  <2> QED BY <1>1, <1>4, <2>1, LeavesKeeps, LeavingStutters
<1>5. CASE /\ Present(device) /\ state' = After(state, e.event)
           /\ broadcast(device, "events", heard)
  <2>1. Follows(clients, heard) BY <1>1, <1>5, BroadcastEnds
  <2>2. \A s \in Slots : heard[s] = IF clients[s].kind = "events"
                                    THEN hears(told[s]) ELSE told[s]
    BY DEF Hears
  <2>3. \A s \in Slots : DOMAIN told[s] = {"view", "live", "news"}
    BY DEF StreamsOK, SlotTold
  <2>4. \A s \in Slots : clients[s].conn = NoConn => clients[s].kind = "uninitialized"
    BY <1>1 DEF TableOK, CleanTable, FreeSlot
  <2>5. \A s \in Slots : clients[s].conn = NoConn => Nothing(heard[s])
    BY <2>2, <2>4 DEF RefInv
  <2> DEFINE diff == Snapshot(state') \ Snapshot(state)
             tells(s) == Service!Session(s.role, Service!Updated(s.view, diff),
                                         s.live, s.news)
             sessions == [c \in Conns |-> IF Sessions[c].role = "events"
                                          THEN tells(Sessions[c]) ELSE Sessions[c]]
  <2>6. diff = report BY <1>2, <1>5, ReportIsDifference
  <2>7. ASSUME NEW s \in Slots, clients[s].conn \in Conns
        PROVE  sessions[clients[s].conn] = Heard(clients[s].kind, heard[s])
    <3>1. Sessions[clients[s].conn] = Heard(clients[s].kind, told[s])
      BY <1>1, <2>7, SessionNow
    <3>2. CASE clients[s].kind = "events"
      <4>1. heard[s] = hears(told[s]) BY <2>2, <3>2
      <4>2. /\ hears(told[s]).view = Told(told[s].view, report)
            /\ hears(told[s]).live = told[s].live
            /\ hears(told[s]).news = told[s].news
        BY <2>3
      <4> HIDE DEF heard, hears, diff, report
      <4>3. sessions[clients[s].conn] = tells(Heard(clients[s].kind, told[s]))
        BY <2>7, <3>1, <3>2 DEF Heard
      <4>4. tells(Heard(clients[s].kind, told[s]))
              = Service!Session(clients[s].kind, Told(told[s].view, report),
                                told[s].live, told[s].news)
        BY <2>6, UpdatedIsTold DEF Heard
      <4> QED BY <4>1, <4>2, <4>3, <4>4 DEF Heard, Service!Session
    <3>3. CASE clients[s].kind # "events"
      <4>1. heard[s] = told[s] BY <2>2, <3>3
      <4>2. Sessions[clients[s].conn].role # "events" BY <3>1, <3>3 DEF Heard
      <4> HIDE DEF heard, tells
      <4> QED BY <2>7, <3>1, <4>1, <4>2
    <3> QED BY <3>2, <3>3
  <2>8. \A c \in Conns : ~InSlot(c) => sessions[c] = Service!Closed
    <3>1. Service!Closed.role # "events" BY DEF Service!Closed, Service!Session
    <3> HIDE DEF heard, tells
    <3> QED BY <1>1, <3>1, SessionNow
  <2> HIDE DEF heard, sessions
  <2>9. Service!Keeping(sessions)
    BY <1>1, <2>1, <2>7, <2>8, FollowsIsKeeping
  <2>10. Service!Change
    <3>1. Service!IsPicture(Snapshot(state')) BY SnapshotIsPicture
    <3> QED BY <1>1, <1>5, <2>9, <3>1
        DEF Service!Change, Service!Telling, sessions, Sessions, Present
  <2>11. RefInv' BY <1>1, <2>1, <2>5, FollowsKeeps DEF RefInv
  <2> QED BY <2>10, <2>11 DEF Service!Next
<1>6. \/ UNCHANGED table /\ UNCHANGED state
      \/ /\ UNCHANGED table /\ state' = After(state, e.event) /\ report = {}
      \/ /\ Present(device) /\ state' = After(state, e.event)
         /\ broadcast(device, "events", heard)
  BY DEF PumpDeviceEvent
<1>7. CASE /\ UNCHANGED table /\ state' = After(state, e.event) /\ report = {}
  <2>1. Snapshot(state') = Snapshot(state) BY <1>3, <1>7, ToldNothing
  <2> QED BY <1>4, <1>7, <2>1
<1> QED BY <1>4, <1>5, <1>6, <1>7

\* The first half of refresh_lorie_device: streams end, monitors are told.
LEMMA PumpHierarchyServes ==
  ASSUME IInv, StreamsOK, RefInv, PumpHierarchy
  PROVE  RefInv' /\ [Service!Next]_(Service!vars)
<1> DEFINE removed(t) == [t EXCEPT !.news = NoDevice]
           hear == Hears("monitor", removed)
           heard == [s \in Slots |-> [hear[s] EXCEPT !.live = FALSE]]
<1>1. UNCHANGED backlog /\ backlog \in Seq(Conns) /\ OneSlot /\ TableOK
  BY DEF PumpHierarchy, IInv, LoopOK, RefInv
<1>2. CASE UNCHANGED <<table, state, device>> /\ (adding' # NoDevice => device = NoDevice)
  <2>1. Leaves BY <1>2 DEF table, Leaves, Stays
  <2>2. RefInv'
    BY <1>1, <1>2, <2>1, EndingKeepsPlaces DEF RefInv, Leaves, Stays, Nothing
  <2> QED BY <1>1, <1>2, <2>1, <2>2, LeavingStutters
<1>3. CASE /\ Present(device) /\ device' = NoDevice /\ state' = ZeroState
           /\ broadcast(NoDevice, "monitor", heard)
  <2>1. Follows(clients, heard) BY <1>1, <1>3, BroadcastEnds
  <2>2. \A s \in Slots : DOMAIN told[s] = {"view", "live", "news"}
    BY DEF StreamsOK, SlotTold
  <2>3. \A s \in Slots :
          /\ heard[s].view = told[s].view /\ heard[s].live = FALSE
          /\ heard[s].news = IF clients[s].kind = "monitor" THEN NoDevice ELSE told[s].news
    <3> TAKE s \in Slots
    <3>1. hear[s] = IF clients[s].kind = "monitor" THEN removed(told[s]) ELSE told[s]
      BY DEF Hears
    <3>2. /\ DOMAIN hear[s] = {"view", "live", "news"} /\ hear[s].view = told[s].view
          /\ hear[s].news = IF clients[s].kind = "monitor" THEN NoDevice ELSE told[s].news
      BY <2>2, <3>1
    <3>3. heard[s] = [hear[s] EXCEPT !.live = FALSE] OBVIOUS
    <3> HIDE DEF heard, hear
    <3> QED BY <3>2, <3>3
  <2>4. \A s \in Slots : clients[s].conn = NoConn => Nothing(heard[s])
    <3>1. \A s \in Slots : clients[s].conn = NoConn => clients[s].kind # "monitor"
      BY <1>1 DEF TableOK, CleanTable, FreeSlot
    <3> HIDE DEF heard
    <3> QED BY <2>3, <3>1 DEF RefInv, Nothing
  <2> DEFINE tells(s) == Service!Session(s.role, s.view, FALSE,
                           IF s.role = "monitor" THEN NoDevice ELSE s.news)
             sessions == [c \in Conns |-> tells(Sessions[c])]
  <2> HIDE DEF heard
  <2>5. ASSUME NEW s \in Slots, clients[s].conn \in Conns
        PROVE  sessions[clients[s].conn] = Heard(clients[s].kind, heard[s])
    <3>1. sessions[clients[s].conn] = tells(Heard(clients[s].kind, told[s]))
      BY <1>1, <2>5, SessionNow
    <3> QED BY <2>3, <3>1 DEF Heard, Service!Session
  <2>6. \A c \in Conns : ~InSlot(c) => sessions[c] = Service!Closed
    <3>1. tells(Service!Closed) = Service!Closed BY DEF Service!Closed, Service!Session
    <3> HIDE DEF tells
    <3> QED BY <1>1, <3>1, SessionNow
  <2> HIDE DEF sessions
  <2>7. Service!Keeping(sessions)
    BY <1>1, <2>1, <2>5, <2>6, FollowsIsKeeping
  <2>8. Service!Remove
    BY <1>3, <2>7 DEF Service!Remove, sessions, Sessions, Present
  <2>9. RefInv' BY <1>1, <1>3, <2>1, <2>4, FollowsKeeps
  <2> QED BY <2>8, <2>9 DEF Service!Next
<1> QED BY <1>2, <1>3 DEF PumpHierarchy, Present, RefInv

\* The second half: monitors are told of the new device.
LEMMA AddDeviceServes ==
  ASSUME IInv, StreamsOK, RefInv, AddDevice
  PROVE  RefInv' /\ [Service!Next]_(Service!vars)
<1> DEFINE added(t) == [t EXCEPT !.news = adding]
           heard == Hears("monitor", added)
<1>1. /\ UNCHANGED <<backlog, state>> /\ backlog \in Seq(Conns) /\ OneSlot /\ TableOK
      /\ device = NoDevice /\ device' = adding /\ adding \in Devices /\ adding' = NoDevice
  BY DEF AddDevice, IInv, LoopOK, ServerOK, RefInv
<1>2. Follows(clients, heard)
  BY <1>1, BroadcastEnds DEF AddDevice
<1>3. \A s \in Slots : heard[s] = IF clients[s].kind = "monitor"
                                  THEN added(told[s]) ELSE told[s]
  BY DEF Hears
<1>4. \A s \in Slots : clients[s].conn = NoConn => Nothing(heard[s])
  <2>1. \A s \in Slots : clients[s].conn = NoConn => clients[s].kind # "monitor"
    BY <1>1 DEF TableOK, CleanTable, FreeSlot
  <2> QED BY <1>3, <2>1 DEF RefInv
<1> DEFINE tells(s) == Service!Session(s.role, s.view, s.live, device')
           sessions == [c \in Conns |-> IF Sessions[c].role = "monitor"
                                        THEN tells(Sessions[c]) ELSE Sessions[c]]
<1>5. ASSUME NEW s \in Slots, clients[s].conn \in Conns
      PROVE  sessions[clients[s].conn] = Heard(clients[s].kind, heard[s])
  <2>1. Sessions[clients[s].conn] = Heard(clients[s].kind, told[s])
    BY <1>1, <1>5, SessionNow
  <2>2. CASE clients[s].kind = "monitor"
    <3>1. heard[s] = added(told[s]) BY <1>3, <2>2
    <3>2. DOMAIN told[s] = {"view", "live", "news"} BY DEF StreamsOK, SlotTold
    <3>3. /\ added(told[s]).view = told[s].view /\ added(told[s]).live = told[s].live
          /\ added(told[s]).news = device'
      BY <1>1, <3>2
    <3> HIDE DEF heard, added
    <3>4. sessions[clients[s].conn] = tells(Heard(clients[s].kind, told[s]))
      BY <1>5, <2>1, <2>2 DEF Heard
    <3> QED BY <3>1, <3>3, <3>4 DEF Heard, Service!Session
  <2>3. CASE clients[s].kind # "monitor"
    <3>1. heard[s] = told[s] BY <1>3, <2>3
    <3>2. Sessions[clients[s].conn].role # "monitor" BY <2>1, <2>3 DEF Heard
    <3> HIDE DEF heard, tells
    <3> QED BY <1>5, <2>1, <3>1, <3>2
  <2> QED BY <2>2, <2>3
<1>6. \A c \in Conns : ~InSlot(c) => sessions[c] = Service!Closed
  <2>1. Service!Closed.role # "monitor" BY DEF Service!Closed, Service!Session
  <2> HIDE DEF heard, tells
  <2> QED BY <1>1, <2>1, SessionNow
<1> HIDE DEF heard, sessions
<1>7. Service!Keeping(sessions)
  BY <1>1, <1>2, <1>5, <1>6, FollowsIsKeeping
<1>8. Service!Add
  BY <1>1, <1>7 DEF Service!Add, Service!Telling, sessions, Sessions
<1>9. RefInv' BY <1>1, <1>2, <1>4, FollowsKeeps
<1> QED BY <1>8, <1>9 DEF Service!Next

\* accept_clients: a session begins, or a connection ends that never was one.
LEMMA AcceptOneServes ==
  ASSUME IInv, RefInv, AcceptOne
  PROVE  RefInv' /\ [Service!Next]_(Service!vars)
<1> DEFINE c == Head(backlog)
<1>1. /\ UNCHANGED <<device, adding, state, told>> /\ OneSlot /\ TableOK
      /\ backlog \in Seq(Conns) /\ backlog # <<>> /\ backlog' = Tail(backlog)
  BY DEF AcceptOne, loop, IInv, LoopOK, RefInv
<1>2. /\ c \in Conns /\ c # NoConn /\ Waiting(c)
      /\ \A i \in DOMAIN backlog' : /\ i + 1 \in DOMAIN backlog /\ i + 1 # 1
                                    /\ backlog'[i] = backlog[i + 1]
      /\ 1 \in DOMAIN backlog /\ c = backlog[1]
  BY <1>1, BridgeAssumption DEF Waiting
<1>3. /\ \A i \in DOMAIN backlog' : backlog'[i] # c
      /\ \A i, j \in DOMAIN backlog' : backlog'[i] = backlog'[j] => i = j
      /\ \A d : Waiting(d)' => Waiting(d)
  <2>1. \A i \in DOMAIN backlog' : i \in Nat BY <1>1
  <2> HIDE DEF c
  <2> QED BY <1>1, <1>2, <2>1 DEF OneSlot, Waiting
<1>4. \A s \in Slots : clients[s].conn # c BY <1>1, <1>2 DEF OneSlot
<1>5. CASE FreeSlots = {}
  <2>1. clients' = clients BY <1>5 DEF AcceptOne
  <2>2. Leaves BY <1>1, <2>1 DEF Leaves, Stays
  <2>3. RefInv' BY <1>1, <1>3, <2>1 DEF RefInv, OneSlot
  <2> QED BY <1>1, <2>2, <2>3, LeavingStutters
<1>6. CASE FreeSlots # {}
  <2> DEFINE s == CHOOSE s \in FreeSlots : \A t \in FreeSlots : s <= t
  <2>1. clients' = [clients EXCEPT ![s] = [FreeSlot EXCEPT !.conn = c]]
    BY <1>6 DEF AcceptOne
  <2>2. s \in Slots /\ clients[s].conn = NoConn
    BY <1>6, FirstFree DEF FreeSlots
  <2> HIDE DEF s, c
  <2>3. /\ clients'[s].conn = c /\ clients'[s].kind = "uninitialized"
        /\ \A t \in Slots : t # s => clients'[t] = clients[t]
    BY <1>1, <2>1, <2>2 DEF TableOK, CleanTable, FreeSlot
  <2>4. RefInv'
    <3>1. OneSlot' BY <1>1, <1>2, <1>3, <1>4, <2>3 DEF OneSlot, Waiting
    <3> QED BY <1>1, <1>2, <2>3, <3>1 DEF RefInv, Nothing
  <2>5. ASSUME NEW d \in Conns
        PROVE  Session(d)' = [Sessions EXCEPT ![c] = Service!Opened][d]
    <3>1. OneSlot' BY <2>4 DEF RefInv
    <3>2. d # NoConn BY BridgeAssumption
    <3>3. DOMAIN Sessions = Conns BY DEF Sessions
    <3>4. CASE d = c
      <4>1. \A t \in Slots : clients'[t].conn = clients'[s].conn => t = s
        BY <1>4, <2>3
      <4>2. SessionIn(clients', told', clients'[s].conn) = Heard("uninitialized", told'[s])
        BY <2>2, <2>3, <4>1, SessionAt
      <4>3. Heard("uninitialized", told[s]) = Service!Opened
        BY <2>2 DEF RefInv, Nothing, Heard, Service!Opened, Service!Session
      <4> QED BY <1>1, <1>2, <2>3, <3>3, <3>4, <4>2, <4>3, SessionIsIn
    <3>5. CASE d # c
      <4>1. [Sessions EXCEPT ![c] = Service!Opened][d] = Session(d)
        BY <3>5 DEF Sessions
      <4>2. CASE InSlot(d)
        <5>1. PICK t \in Slots : clients[t].conn = d BY <4>2 DEF InSlot
        <5>2. t # s /\ clients'[t] = clients[t] BY <2>2, <2>3, <3>2, <5>1
        <5>3. \A u \in Slots : clients[u].conn = clients[t].conn => u = t
          BY <1>1, <3>2, <5>1 DEF OneSlot
        <5>4. \A u \in Slots : clients'[u].conn = clients'[t].conn => u = t
          BY <2>3, <3>5, <5>1, <5>2, <5>3
        <5>5. SessionIn(clients, told, clients[t].conn) = Heard(clients[t].kind, told[t])
          BY <5>3, SessionAt
        <5>6. SessionIn(clients', told', clients'[t].conn)
                = Heard(clients'[t].kind, told'[t])
          BY <5>4, SessionAt
        <5> QED BY <1>1, <4>1, <5>1, <5>2, <5>5, <5>6, SessionIsIn
      <4>3. CASE ~InSlot(d)
        <5>1. SessionIn(clients, told, d) = Service!Closed
          BY <4>3, SessionNone DEF InSlot
        <5>2. \A t \in Slots : clients'[t].conn # d
          BY <2>3, <3>5, <4>3 DEF InSlot
        <5>3. SessionIn(clients', told', d) = Service!Closed
          BY <5>2, SessionNone
        <5> QED BY <4>1, <5>1, <5>3, SessionIsIn
      <4> QED BY <4>2, <4>3
    <3> QED BY <3>4, <3>5
  <2>6. Service!Keeping([Sessions EXCEPT ![c] = Service!Opened])
    <3> DEFINE lost == {}
               sessions == [Sessions EXCEPT ![c] = Service!Opened]
    <3>1. lost \in SUBSET Conns OBVIOUS
    <3> HIDE DEF sessions
    <3>2. [d \in Conns |-> Session(d)']
            = [d \in Conns |-> IF d \in lost THEN Service!Closed ELSE sessions[d]]
      BY <2>5 DEF sessions
    <3> HIDE DEF lost
    <3>3. Service!Keeping(sessions) BY <3>1, <3>2 DEF Service!Keeping
    <3> QED BY <3>3 DEF sessions
  <2>7. Service!Open(c)
    BY <1>1, <2>6 DEF Service!Open, Sessions
  <2> QED BY <1>2, <2>4, <2>7 DEF Service!Next, c
<1> QED BY <1>5, <1>6

\* A step that is a loss of sessions, or no step, of the service.
LEMMA EndingServes ==
  ASSUME IInv, RefInv, Follows(clients, told), backlog' \in {backlog, <<>>},
         UNCHANGED <<state, device, adding>>
  PROVE  RefInv' /\ [Service!Next]_(Service!vars)
<1>1. backlog \in Seq(Conns) /\ OneSlot BY DEF IInv, LoopOK, RefInv
<1>2. RefInv' BY <1>1, FollowsKeeps DEF RefInv
<1> QED BY <1>1, <1>2, EndingLoses DEF Service!Next

LEMMA LeavingServes ==
  ASSUME IInv, RefInv, Leaves, backlog' \in {backlog, <<>>},
         UNCHANGED <<state, device, adding>>
  PROVE  RefInv' /\ [Service!Next]_(Service!vars)
<1>1. backlog \in Seq(Conns) /\ OneSlot BY DEF IInv, LoopOK, RefInv
<1> QED BY <1>1, LeavesKeeps, LeavingStutters

\* The client at the cursor gets an answer.
LEMMA AnswerServes ==
  ASSUME IInv, StreamsOK, RefInv, NEW s \in Slots, clients[s].conn # NoConn,
         UNCHANGED <<state, device, adding, backlog>>,
         NEW kind \in Kinds, NEW messages \in {1, 2}, NEW hears,
         Answer(s, kind, messages, hears)
  PROVE  /\ RefInv'
         /\ Service!Keeping([Sessions EXCEPT ![clients[s].conn] = Heard(kind, hears)])
         /\ clients[s].conn \in Conns
         /\ Sessions[clients[s].conn] = Heard(clients[s].kind, told[s])
         /\ Sessions[clients[s].conn].role # "closed"
<1> DEFINE kinds == [clients EXCEPT ![s].kind = kind]
           heard == [told EXCEPT ![s] = hears]
           c == clients[s].conn
           sessions == [Sessions EXCEPT ![c] = Heard(kind, hears)]
<1>1. OneSlot /\ TableOK /\ backlog \in Seq(Conns) BY DEF IInv, LoopOK, RefInv
<1>2. \A t \in Slots : clients[t] \in SlotRecords BY <1>1 DEF TableOK, CleanTable
<1>3. c \in Conns /\ clients[s].kind \in Kinds BY <1>2 DEF SlotRecords
<1>4. Follows(kinds, heard) BY <1>1, AnswerEnds
<1>5. \A t \in Slots : t # s => kinds[t] = clients[t] /\ heard[t] = told[t]
  OBVIOUS
<1>6. kinds[s].kind = kind /\ heard[s] = hears
  BY <1>1, <1>2 DEF TableOK, CleanTable, SlotRecords, StreamsOK
<1>7. Sessions[c] = Heard(clients[s].kind, told[s])
  BY <1>1, <1>3, SessionNow
<1>8. DOMAIN Sessions = Conns BY DEF Sessions
<1>9. \A t \in Slots : t # s => clients[t].conn # c BY <1>1 DEF OneSlot
<1> HIDE DEF kinds, heard
<1>10. ASSUME NEW t \in Slots, clients[t].conn \in Conns
       PROVE  sessions[clients[t].conn] = Heard(kinds[t].kind, heard[t])
  <2>1. CASE t = s BY <1>3, <1>6, <1>8, <2>1
  <2>2. CASE t # s
    <3>1. Sessions[clients[t].conn] = Heard(clients[t].kind, told[t])
      BY <1>1, <1>10, SessionNow
    <3>2. sessions[clients[t].conn] = Sessions[clients[t].conn] BY <1>9, <1>10, <2>2
    <3> QED BY <1>5, <2>2, <3>1, <3>2
  <2> QED BY <2>1, <2>2
<1>11. ASSUME NEW d \in Conns, ~InSlot(d) PROVE sessions[d] = Service!Closed
  <2>1. d # c BY <1>11 DEF InSlot
  <2>2. Sessions[d] = Service!Closed BY <1>1, <1>11, SessionNow
  <2>3. sessions[d] = Sessions[d] BY <1>11, <2>1, <1>8
  <2> QED BY <2>2, <2>3
<1> HIDE DEF sessions
<1>12. Service!Keeping(sessions)
  BY <1>1, <1>4, <1>10, <1>11, FollowsIsKeeping
<1>13. \A t \in Slots : clients[t].conn = NoConn => Nothing(heard[t])
  BY <1>5 DEF RefInv
<1>14. RefInv' BY <1>1, <1>4, <1>13, FollowsKeeps DEF RefInv
<1>15. Sessions[c].role # "closed" BY <1>3, <1>7 DEF Heard, Kinds
<1> HIDE DEF c
<1>16. sessions = [Sessions EXCEPT ![c] = Heard(kind, hears)] BY DEF sessions
<1> QED BY <1>3, <1>7, <1>12, <1>14, <1>15, <1>16 DEF c

\* receive_control_messages: a query, a monitor, or nothing a client hears.
LEMMA HandleServes ==
  ASSUME IInv, StreamsOK, RefInv, Handle
  PROVE  RefInv' /\ [Service!Next]_(Service!vars)
<1> DEFINE s == cursor
           m == Head(control)
           c == clients[s].conn
<1>1. /\ s \in Slots /\ clients[s].conn # NoConn /\ TableOK
      /\ UNCHANGED <<state, device, adding, backlog>>
      /\ DOMAIN told[s] = {"view", "live", "news"}
  BY DEF IInv, CursorOK, Handle, StreamsOK, SlotTold
<1>2. m.command = "rumble" =>
        m.low \in Levels /\ m.high \in Levels /\ m.duration \in Ticks
  BY ControlHead DEF IInv, LoopOK, Handle
<1>3. 0 \in Levels /\ 0 \in Ticks /\ DefaultDuration \in Ticks
  BY LevelRange, BridgeAssumption DEF Ticks
<1>4. CASE m.command = "rumble" /\ HandleRumble(s, m)
  <2> DEFINE ttl == IF m.duration = 0 THEN DefaultDuration ELSE m.duration
  <2>1. ttl \in Ticks /\ m.low \in Levels /\ m.high \in Levels
    BY <1>2, <1>3, <1>4
  <2>2. /\ update_rumble(device, [clients EXCEPT ![s].low = m.low,
                            ![s].high = m.high, ![s].ttl = ttl], TRUE)
        /\ UNCHANGED <<open, inbox, told>>
    BY <1>4 DEF HandleRumble
  <2> HIDE DEF ttl, m, s
  <2>3. \A t \in Slots : /\ clients'[t].conn = clients[t].conn
                           /\ clients'[t].kind = clients[t].kind
    BY <1>1, <2>1, <2>2, SetRumble
  <2>4. Leaves BY <2>2, <2>3 DEF Leaves, Stays
  <2> QED BY <1>1, <2>4, LeavingServes
<1>5. CASE HandleStop(s)
  <2>1. /\ update_rumble(device, [clients EXCEPT ![s].low = 0,
                            ![s].high = 0, ![s].ttl = 0], TRUE)
        /\ UNCHANGED <<open, inbox, told>>
    BY <1>5 DEF HandleStop
  <2> HIDE DEF s
  <2>2. \A t \in Slots : /\ clients'[t].conn = clients[t].conn
                           /\ clients'[t].kind = clients[t].kind
    BY <1>1, <1>3, <2>1, SetRumble
  <2>3. Leaves BY <2>1, <2>2 DEF Leaves, Stays
  <2> QED BY <1>1, <2>3, LeavingServes
<1>6. CASE HandleQuery(s)
  <2> DEFINE there == [told[s] EXCEPT !.view = Told(@, Snapshot(state)), !.live = TRUE]
             gone == [told[s] EXCEPT !.live = FALSE]
             hears == IF device = NoDevice THEN gone ELSE there
             session == Sessions[c]
  <2>1. \E messages \in {1, 2} : Answer(s, "events", messages, hears)
    BY <1>6 DEF HandleQuery, Present
  <2>2. PICK messages \in {1, 2} : Answer(s, "events", messages, hears) BY <2>1
  <2>3. Heard("events", hears)
          = IF device = NoDevice
            THEN Service!Session("events", told[s].view, FALSE, told[s].news)
            ELSE Service!Session("events", Service!Updated(told[s].view, Snapshot(state)),
                                 TRUE, told[s].news)
    <3>1. /\ gone.view = told[s].view /\ gone.live = FALSE /\ gone.news = told[s].news
          /\ there.view = Told(told[s].view, Snapshot(state))
          /\ there.live = TRUE /\ there.news = told[s].news
      BY <1>1
    <3> HIDE DEF gone, there
    <3> QED BY <3>1, UpdatedIsTold DEF Heard, Service!Session
  <2> HIDE DEF hears, s
  <2>4. /\ RefInv' /\ c \in Conns
        /\ Service!Keeping([Sessions EXCEPT ![c] = Heard("events", hears)])
        /\ session = Heard(clients[s].kind, told[s])
        /\ session.role # "closed"
    BY <1>1, <2>2, AnswerServes DEF Kinds
  <2>5. session.view = told[s].view /\ session.news = told[s].news
    BY <2>4 DEF Heard
  <2> HIDE DEF session, c
  <2>6. Heard("events", hears)
          = IF device = NoDevice
            THEN Service!Session("events", session.view, FALSE, session.news)
            ELSE Service!Session("events", Service!Updated(session.view, Snapshot(state)),
                                 TRUE, session.news)
    BY <2>3, <2>5
  <2>7. Service!Query(c)
    BY <1>1, <2>4, <2>6 DEF Service!Query, Sessions, session
  <2> QED BY <2>4, <2>7 DEF Service!Next
<1>7. CASE HandleMonitor(s)
  <2> DEFINE hears == [told[s] EXCEPT !.live = FALSE, !.news = device]
             session == Sessions[c]
  <2>1. Answer(s, "monitor", 1, hears) BY <1>7 DEF HandleMonitor
  <2>2. Heard("monitor", hears) = Service!Session("monitor", told[s].view, FALSE, device)
    BY <1>1 DEF Heard, Service!Session
  <2> HIDE DEF hears, s
  <2>3. /\ RefInv' /\ c \in Conns
        /\ Service!Keeping([Sessions EXCEPT ![c] = Heard("monitor", hears)])
        /\ session = Heard(clients[s].kind, told[s])
        /\ session.role # "closed"
    BY <1>1, <2>1, AnswerServes DEF Kinds
  <2>4. session.view = told[s].view BY <2>3 DEF Heard
  <2> HIDE DEF session, c
  <2>5. Service!Monitor(c)
    BY <1>1, <2>2, <2>3, <2>4 DEF Service!Monitor, Sessions, session
  <2> QED BY <2>3, <2>5 DEF Service!Next
<1>8. CASE Close(s)
  <2>1. Follows(clients, told) BY <1>1, <1>8, CloseEnds
  <2> QED BY <1>1, <2>1, EndingServes
<1> QED BY <1>4, <1>5, <1>6, <1>7, <1>8 DEF Handle

LEMMA ServeServes ==
  ASSUME IInv, RefInv, Serve
  PROVE  RefInv' /\ [Service!Next]_(Service!vars)
<1>1. cursor \in Slots /\ TableOK /\ UNCHANGED <<state, device, adding, backlog>>
  BY DEF IInv, CursorOK, Serve
<1>2. CASE Close(cursor)
  <2>1. Follows(clients, told) BY <1>1, <1>2, CloseEnds
  <2> QED BY <1>1, <2>1, EndingServes
<1>3. CASE UNCHANGED table
  <2>1. Leaves BY <1>3 DEF table, Leaves, Stays
  <2> QED BY <1>1, <2>1, LeavingServes
<1>4. CASE \E used : clients' = [clients EXCEPT ![cursor].used = used] /\ told' = told
  <2>1. Leaves
    BY <1>1, <1>4 DEF TableOK, CleanTable, SlotRecords, Leaves, Stays
  <2> QED BY <1>1, <2>1, LeavingServes
<1> QED BY <1>2, <1>3, <1>4 DEF Serve

\* The process ends, by itself or by Xlib.
LEMMA ExitServes ==
  ASSUME IInv, RefInv, XErrorExit \/ CloseNext
  PROVE  RefInv' /\ [Service!Next]_(Service!vars)
<1>1. CASE XErrorExit
  <2>1. /\ UNCHANGED <<state, device, adding>> /\ backlog' = <<>>
        /\ DOMAIN told' = Slots
        /\ \A s \in Slots : told'[s] = NothingTold /\ clients'[s].conn = NoConn
    BY <1>1 DEF XErrorExit, FreeSlot
  <2>2. Follows(clients, told) BY <2>1 DEF Follows, Ends
  <2> QED BY <2>1, <2>2, EndingServes
<1>2. CASE CloseNext
  <2>1. /\ cursor \in Slots /\ TableOK /\ Close(cursor)
        /\ UNCHANGED <<state, device, adding, backlog>>
    BY <1>2 DEF IInv, CloseNext
  <2>2. Follows(clients, told) BY <2>1, CloseEnds
  <2> QED BY <2>1, <2>2, EndingServes
<1> QED BY <1>1, <1>2

\* No client hears of a step that moves the clocks or waits.
LEMMA SilentServes ==
  ASSUME IInv, RefInv, Tick \/ TimePasses \/ Silent
  PROVE  RefInv' /\ [Service!Next]_(Service!vars)
<1>1. CASE Tick
  <2>1. \A s \in Slots : clients'[s].conn = clients[s].conn /\ clients'[s].kind = clients[s].kind
    BY <1>1, UpdateRumble DEF IInv, TableOK, Tick
  <2>2. Leaves BY <1>1, <2>1 DEF Tick, Leaves, Stays
  <2> QED BY <1>1, <2>2, LeavingServes DEF Tick
<1>2. CASE TimePasses
  <2>1. \A s \in Slots : clients'[s].conn = clients[s].conn /\ clients'[s].kind = clients[s].kind
    BY <1>2 DEF IInv, TableOK, CleanTable, SlotRecords, TimePasses
  <2>2. Leaves BY <1>2, <2>1 DEF TimePasses, Leaves, Stays
  <2> QED BY <1>2, <2>2, LeavingServes DEF TimePasses, loop
<1>3. CASE \E c \in Conns : Connect(c)
  <2>1. PICK c \in Conns : Connect(c) BY <1>3
  <2>2. /\ UNCHANGED <<clients, told, state, device, adding>>
        /\ backlog' = Append(backlog, c) /\ ~InSlot(c) /\ ~Waiting(c)
        /\ backlog \in Seq(Conns) /\ OneSlot
    BY <2>1 DEF Connect, BridgeSide, loop, IInv, LoopOK, RefInv
  <2>3. /\ \A i \in DOMAIN backlog' :
             \/ i \in DOMAIN backlog /\ backlog'[i] = backlog[i]
             \/ i = Len(backlog) + 1 /\ backlog'[i] = c
    BY <2>2
  <2>4. OneSlot' BY <2>2, <2>3 DEF OneSlot, InSlot, Waiting
  <2>5. Leaves BY <2>2 DEF Leaves, Stays
  <2>6. RefInv' BY <2>2, <2>4 DEF RefInv
  <2> QED BY <2>2, <2>5, <2>6, LeavingStutters
<1>4. CASE Silent /\ ~(\E c \in Conns : Connect(c))
  <2>1. UNCHANGED <<clients, told, state, device, adding>> /\ backlog' \in {backlog, <<>>}
    BY <1>4 DEF Silent, Poll, PumpDone, AcceptDone, Shutdown, Stop, Send, Hangup,
         XHotplug, XInput, Signal, vars, table, BridgeSide, loop
  <2>2. Leaves BY <2>1 DEF Leaves, Stays
  <2> QED BY <2>1, <2>2, LeavingServes
<1> QED BY <1>1, <1>2, <1>3, <1>4

LEMMA NextServes ==
  ASSUME IInv, StreamsOK, RefInv, [Next]_vars
  PROVE  RefInv' /\ [Service!Next]_(Service!vars)
<1>1. CASE PumpDeviceEvent BY <1>1, PumpDeviceEventServes
<1>2. CASE PumpHierarchy BY <1>2, PumpHierarchyServes
<1>3. CASE AddDevice BY <1>3, AddDeviceServes
<1>4. CASE XErrorExit \/ CloseNext BY <1>4, ExitServes
<1>5. CASE AcceptOne BY <1>5, AcceptOneServes
<1>6. CASE Serve BY <1>6, ServeServes
<1>7. CASE Handle BY <1>7, HandleServes
<1>8. CASE Tick \/ TimePasses \/ Silent BY <1>8, SilentServes
<1> QED
  BY <1>1, <1>2, <1>3, <1>4, <1>5, <1>6, <1>7, <1>8
  DEF Next, BridgeStep, Environment, Terminated, Silent

LEMMA InitServes == Init => RefInv /\ Service!Init
<1> SUFFICES ASSUME Init PROVE RefInv /\ Service!Init
  OBVIOUS
<1>1. /\ \A s \in Slots : clients[s] = FreeSlot /\ told[s] = NothingTold
      /\ backlog = <<>> /\ adding = NoDevice /\ state = ZeroState
      /\ device \in Devices \union {NoDevice} /\ FreeSlot.conn = NoConn
  BY DEF Init, FreeSlot
<1>2. RefInv
  BY <1>1 DEF RefInv, OneSlot, Nothing, NothingTold, Waiting
<1>3. \A c \in Conns : Session(c) = Service!Closed
  <2> TAKE c \in Conns
  <2>1. \A s \in Slots : clients[s].conn # c BY <1>1, BridgeAssumption
  <2> QED BY <2>1, SessionNone, SessionIsIn
<1>4. Service!Init BY <1>1, <1>3 DEF Service!Init
<1> QED BY <1>2, <1>4

LEMMA RefInvariant == Spec => []RefInv
BY Invariant, StreamsInvariant, InitServes, NextServes, PTL DEF Spec

\* Whatever the order of polls, pumps, accepts, answers, broadcasts and closes,
\* the clients are told what the service promises, for every number of slots
\* and of connections, every buffer, device, event and message.
THEOREM BridgeServes == Spec => ImplementsService
<1>1. Init => Service!Init BY InitServes
<1>2. IInv /\ StreamsOK /\ RefInv /\ [Next]_vars => [Service!Next]_(Service!vars)
  BY NextServes
<1> QED
  BY <1>1, <1>2, Invariant, StreamsInvariant, RefInvariant, PTL
  DEF Spec, Service!Spec, ImplementsService

-----------------------------------------------------------------------------
(* What the motors do.                                                       *)

\* The device whose motors are the bridge's to stop: the one it has, or the one
\* it has found and has yet to add.
Driver == IF adding = NoDevice THEN device ELSE adding

\* Motors that run do it at active_rumble, for a client of the table that asks
\* for no less time.
Driven(cl) ==
  motor # MotorOff =>
    /\ [low |-> motor.low, high |-> motor.high] = active /\ active # Quiet
    /\ motor.ttl > 0
    /\ \E s \in Slots : Rumbling(cl[s]) /\ cl[s].ttl >= motor.ttl

\* A request is only ever sent to a device it reaches.
MotorKept(dev) == motor' = motor \/ Reaches(dev)

LEMMA UpdateKept ==
  ASSUME NEW dev, NEW cl, NEW force, update_rumble(dev, cl, force)
  PROVE  MotorKept(dev)
<1>1. \A level, duration : Reaches(dev) \/ send_lorie_rumble(dev, level, duration) = motor
  BY DEF send_lorie_rumble
<1> QED BY <1>1 DEF update_rumble, MotorKept

LEMMA CloseClientsKept ==
  ASSUME NEW dev, NEW cl, NEW dropped, NEW heard,
         close_clients(dev, cl, dropped, heard)
  PROVE  MotorKept(dev)
<1>1. motor' = motor \/ \E kept : update_rumble(dev, kept, TRUE)
  BY DEF close_clients
<1> QED BY <1>1, UpdateKept DEF MotorKept

LEMMA BroadcastKept ==
  ASSUME NEW dev, NEW kind, NEW heard, broadcast(dev, kind, heard)
  PROVE  MotorKept(dev)
<1>1. \E cl, dropped : close_clients(dev, cl, dropped, heard)
  BY DEF broadcast
<1> QED BY <1>1, CloseClientsKept

LEMMA AnswerKept ==
  ASSUME NEW s, NEW kind, NEW messages, NEW hears, Answer(s, kind, messages, hears)
  PROVE  MotorKept(device)
<1>1. \E cl, dropped, heard : close_clients(device, cl, dropped, heard)
  BY DEF Answer
<1> QED BY <1>1, CloseClientsKept

\* Somebody rumbles in a table that asks for something, and whoever does is
\* asking for no more than the longest.
LEMMA LongestDrives ==
  ASSUME NEW cl \in [Slots -> SlotRecords], Demand(cl) # Quiet,
         \A s \in Slots : Rumbling(cl[s]) => cl[s].ttl > 0
  PROVE  /\ LongestRemaining(cl) > 0
         /\ \E s \in Slots : Rumbling(cl[s]) /\ cl[s].ttl >= LongestRemaining(cl)
<1> DEFINE lows == {cl[s].low : s \in Slots}
           highs == {cl[s].high : s \in Slots}
           busy == {s \in Slots : Rumbling(cl[s])}
           ttls == {cl[s].ttl : s \in busy}
<1>1. \A s \in Slots : cl[s].low \in Levels /\ cl[s].high \in Levels /\ cl[s].ttl \in Ticks
  BY SlotFields
<1>2. lows \subseteq Levels /\ highs \subseteq Levels /\ ttls \subseteq 0..MaxDuration
  BY <1>1 DEF Ticks
<1>3. Highest(lows) \in lows \union {0} /\ Highest(highs) \in highs \union {0}
  BY <1>2, LevelRange, HighestInSet
<1>4. Highest(lows) # 0 \/ Highest(highs) # 0
  BY DEF Demand, Quiet
<1>5. PICK s \in Slots : cl[s].low # 0 \/ cl[s].high # 0
  BY <1>3, <1>4
<1>6. Rumbling(cl[s])
  BY <1>1, <1>5, LevelRange DEF Rumbling
<1>7. cl[s].ttl \in ttls /\ cl[s].ttl > 0
  BY <1>6
<1>8. LongestRemaining(cl) = Highest(ttls)
  BY DEF LongestRemaining
<1> HIDE DEF ttls
<1>9. /\ LongestRemaining(cl) \in ttls \union {0}
      /\ \A t \in ttls : t <= LongestRemaining(cl)
  BY <1>2, <1>8, HighestInSet, BridgeAssumption
<1>10. LongestRemaining(cl) > 0 /\ LongestRemaining(cl) \in ttls
  <2>1. cl[s].ttl <= LongestRemaining(cl) /\ cl[s].ttl \in Nat
    BY <1>1, <1>7, <1>9 DEF Ticks
  <2>2. LongestRemaining(cl) \in Nat
    BY LongestType DEF Ticks
  <2> QED BY <1>7, <1>9, <2>1, <2>2
<1>11. \A t \in ttls : \E u \in Slots : Rumbling(cl[u]) /\ cl[u].ttl = t
  BY DEF ttls
<1>12. PICK u \in Slots : Rumbling(cl[u]) /\ cl[u].ttl = LongestRemaining(cl)
  BY <1>10, <1>11
<1>13. cl[u].ttl \in 0..MaxDuration
  BY <1>1 DEF Ticks
<1> QED BY <1>10, <1>12, <1>13

\* update_rumble leaves the motors driven: forced it needs a device it reaches,
\* if they run; otherwise that the motors were driven by the table it looks at.
LEMMA UpdateDriven ==
  ASSUME NEW dev, NEW cl, CleanTable(cl), NEW force,
         motor \in Motors, motor # MotorOff => Reaches(dev) /\ active # Quiet,
         force \/ Driven(cl),
         update_rumble(dev, cl, force)
  PROVE  Driven(clients)'
<1> DEFINE left == Expired(cl)
           level == Demand(left)
           longest == LongestRemaining(left)
<1>1. left \in [Slots -> SlotRecords]
  BY ExpiredType DEF CleanTable
<1>2. \A s \in Slots : left[s] = IF cl[s].ttl = 0
                                 THEN [cl[s] EXCEPT !.low = 0, !.high = 0] ELSE cl[s]
  BY DEF Expired
<1>3. \A s \in Slots : cl[s] \in SlotRecords /\ cl[s].ttl \in Nat
  BY SlotFields DEF CleanTable, Ticks
<1>4. \A s \in Slots : (cl[s].ttl # 0 /\ left[s] = cl[s]) \/ ~Rumbling(left[s])
  <2>1. \A c \in SlotRecords : ~Rumbling([c EXCEPT !.low = 0, !.high = 0])
    BY DEF Rumbling, SlotRecords
  <2> QED BY <1>2, <1>3, <2>1
<1>5. /\ clients' = left /\ active' = level
      /\ motor' = IF level = Quiet
                  THEN IF active # Quiet THEN send_lorie_rumble(dev, Quiet, 0)
                                         ELSE motor
                  ELSE IF force \/ level # active
                  THEN send_lorie_rumble(dev, level, longest)
                  ELSE motor
  BY DEF update_rumble
<1>6. level \in Strengths
  BY <1>1, DemandType
<1> HIDE DEF left, level, longest
<1>7. CASE level = Quiet
  <2>1. motor' = MotorOff
    BY <1>5, <1>7 DEF send_lorie_rumble
  <2> QED BY <2>1 DEF Driven
<1>8. CASE level # Quiet /\ motor' = send_lorie_rumble(dev, level, longest)
  <2>1. motor' = MotorOff \/ motor' = [low |-> level.low, high |-> level.high, ttl |-> longest]
    BY <1>8 DEF send_lorie_rumble
  <2>2. [low |-> level.low, high |-> level.high] = level
    BY <1>6 DEF Strengths
  <2>3. /\ longest > 0
        /\ \E s \in Slots : Rumbling(left[s]) /\ left[s].ttl >= longest
    <3>1. \A s \in Slots : Rumbling(left[s]) => left[s].ttl > 0
      BY <1>3, <1>4
    <3> QED BY <1>1, <1>8, <3>1, LongestDrives DEF level, longest
  <2> QED BY <1>5, <1>8, <2>1, <2>2, <2>3 DEF Driven
<1>9. CASE level # Quiet /\ ~force /\ level = active /\ motor' = motor
  <2>1. motor.ttl \in Nat
    BY DEF Motors, Ticks
  <2>2. \A s \in Slots : cl[s].ttl # 0 => left[s] = cl[s]
    BY <1>2
  <2>3. \A s \in Slots : cl[s].ttl >= motor.ttl /\ motor.ttl > 0 => left[s] = cl[s]
    BY <1>3, <2>1, <2>2
  <2> QED BY <1>5, <1>9, <2>3 DEF Driven
<1> QED BY <1>5, <1>7, <1>8, <1>9

\* A table in which only the queues and kinds differ from the clients' own, and
\* the clients in it that are to be closed.
Draft(cl, dropped) ==
  /\ dropped \subseteq Slots
  /\ \A s \in Slots \ dropped :
       cl[s] \in SlotRecords /\ (cl[s].conn = NoConn => cl[s] = FreeSlot)
  /\ \A s \in Slots : /\ cl[s].conn = clients[s].conn
                      /\ cl[s].low = clients[s].low
                      /\ cl[s].high = clients[s].high
                      /\ cl[s].ttl = clients[s].ttl

LEMMA DraftRumbles ==
  ASSUME NEW cl, NEW dropped, Draft(cl, dropped)
  PROVE  \A s \in Slots : Rumbling(cl[s]) <=> Rumbling(clients[s])
BY DEF Draft, Rumbling

\* A broadcast closes some of the clients of its kind.
LEMMA BroadcastDraft ==
  ASSUME TableOK, NEW dev, NEW kind \in {"events", "monitor"}, NEW heard,
         broadcast(dev, kind, heard)
  PROVE  \E cl, dropped :
           /\ Draft(cl, dropped) /\ close_clients(dev, cl, dropped, heard)
           /\ \A s \in Slots : cl[s].kind = clients[s].kind
           /\ \A s \in dropped : clients[s].kind = kind
<1> DEFINE targets == {s \in Slots : clients[s].kind = kind}
<1>1. PICK sent \in [targets -> Dropped..BufferSize] :
        /\ \A s \in targets : sent[s] \in queue_bytes(clients[s].conn, clients[s].used)
        /\ close_clients(dev,
             [s \in Slots |-> IF s \in targets
                              THEN [clients[s] EXCEPT !.used = sent[s]]
                              ELSE clients[s]],
             {s \in targets : sent[s] = Dropped},
             heard)
  BY DEF broadcast
<1> DEFINE cl == [s \in Slots |-> IF s \in targets
                                  THEN [clients[s] EXCEPT !.used = sent[s]]
                                  ELSE clients[s]]
           dropped == {s \in targets : sent[s] = Dropped}
<1>2. dropped \subseteq Slots /\ \A s \in dropped : clients[s].kind = kind
  OBVIOUS
<1>3. \A s \in Slots : clients[s] \in SlotRecords
  BY DEF TableOK, CleanTable
<1>4. \A s \in targets : sent[s] \in {Dropped} \union 0..BufferSize
  BY <1>1, <1>3, QueueBytesType, SlotFields
<1>5. \A s \in Slots : /\ cl[s].conn = clients[s].conn
                       /\ cl[s].kind = clients[s].kind
  BY <1>3 DEF SlotRecords
<1>6. \A s \in Slots : /\ cl[s].low = clients[s].low
                       /\ cl[s].high = clients[s].high
                       /\ cl[s].ttl = clients[s].ttl
  BY <1>3 DEF SlotRecords
<1>7. \A s \in Slots \ dropped : cl[s] \in SlotRecords
  BY <1>3, <1>4 DEF SlotRecords
<1>8. \A s \in Slots : cl[s].conn = NoConn => cl[s] = FreeSlot
  <2>1. FreeSlot.kind \notin {"events", "monitor"}
    BY DEF FreeSlot
  <2> QED BY <1>5, <2>1 DEF TableOK, CleanTable
<1>9. close_clients(dev, cl, dropped, heard)
  BY <1>1
<1> HIDE DEF cl, dropped
<1> QED BY <1>2, <1>5, <1>6, <1>7, <1>8, <1>9 DEF Draft

\* An answer closes at most the client that asked.
LEMMA AnswerDraft ==
  ASSUME TableOK, NEW s \in Slots, clients[s].conn # NoConn,
         NEW kind \in Kinds, NEW messages, NEW hears,
         Answer(s, kind, messages, hears)
  PROVE  \E cl, dropped :
           /\ Draft(cl, dropped)
           /\ close_clients(device, cl, dropped, [told EXCEPT ![s] = hears])
           /\ \A t \in Slots : cl[t].kind = IF t = s THEN kind ELSE clients[t].kind
<1> DEFINE first == queue_bytes(clients[s].conn, clients[s].used)
           second == UNION {IF u = Dropped THEN {Dropped}
                            ELSE queue_bytes(clients[s].conn, u) : u \in first}
           sizes == {Dropped} \union 0..BufferSize
           heard == [told EXCEPT ![s] = hears]
<1>1. \A t \in Slots : clients[t] \in SlotRecords
  BY DEF TableOK, CleanTable
<1>2. first \subseteq sizes
  BY <1>1, QueueBytesType, SlotFields
<1>3. second \subseteq sizes
  BY <1>2, QueueBytesType
<1>4. PICK used \in sizes :
        close_clients(device,
          [clients EXCEPT ![s].kind = kind, ![s].used = used],
          IF used = Dropped THEN {s} ELSE {}, heard)
  BY <1>2, <1>3 DEF Answer
<1> DEFINE cl == [clients EXCEPT ![s].kind = kind, ![s].used = used]
           dropped == IF used = Dropped THEN {s} ELSE {}
<1>5. dropped \subseteq Slots
  OBVIOUS
<1>6. \A t \in Slots : /\ cl[t].conn = clients[t].conn
                       /\ cl[t].kind = IF t = s THEN kind ELSE clients[t].kind
                       /\ t # s => cl[t] = clients[t]
  BY <1>1 DEF SlotRecords, TableOK, CleanTable
<1>7. \A t \in Slots : /\ cl[t].low = clients[t].low
                       /\ cl[t].high = clients[t].high
                       /\ cl[t].ttl = clients[t].ttl
  BY <1>1 DEF SlotRecords, TableOK, CleanTable
<1>8. \A t \in Slots \ dropped : cl[t] \in SlotRecords
  BY <1>1 DEF SlotRecords, TableOK, CleanTable
<1>9. \A t \in Slots : cl[t].conn = NoConn => cl[t] = FreeSlot
  BY <1>6 DEF TableOK, CleanTable
<1>10. close_clients(device, cl, dropped, heard)
  BY <1>4
<1> HIDE DEF cl, dropped, first, second, sizes
<1> QED BY <1>5, <1>6, <1>7, <1>8, <1>9, <1>10 DEF Draft

\* A closed client leaves the others as they are.
LEMMA CloseDraft ==
  ASSUME TableOK, NEW s \in Slots
  PROVE  Draft(clients, {s})
BY DEF TableOK, CleanTable, Draft

\* Closing clients leaves the motors driven, if the bridge reaches the motors
\* that run or none of the closed clients rumbles.
LEMMA CloseClientsDriven ==
  ASSUME NEW dev, NEW cl, NEW dropped, NEW heard, Draft(cl, dropped),
         motor \in Motors, Driven(clients),
         \/ motor # MotorOff => Reaches(dev)
         \/ \A s \in dropped : ~Rumbling(clients[s]),
         close_clients(dev, cl, dropped, heard)
  PROVE  Driven(clients)'
<1> DEFINE kept == [s \in Slots |-> IF s \in dropped THEN FreeSlot ELSE cl[s]]
<1>1. CleanTable(kept)
  BY FreeSlotType DEF CleanTable, Draft
<1>2. \A s \in Slots : Rumbling(cl[s]) <=> Rumbling(clients[s])
  BY DraftRumbles
<1>3. CASE (\E s \in dropped : Rumbling(cl[s])) /\ (motor # MotorOff => Reaches(dev))
  <2>1. update_rumble(dev, kept, TRUE)
    BY <1>3 DEF close_clients
  <2>2. motor # MotorOff => Reaches(dev) /\ active # Quiet
    BY <1>3 DEF Driven
  <2> HIDE DEF kept
  <2> QED BY <1>1, <2>1, <2>2, UpdateDriven
<1>4. CASE ~\E s \in dropped : Rumbling(cl[s])
  <2>1. clients' = kept /\ active' = active /\ motor' = motor
    BY <1>4 DEF close_clients
  <2>2. \A s \in Slots : Rumbling(clients[s]) => kept[s] = cl[s]
    BY <1>2, <1>4 DEF Draft
  <2>3. \A s \in Slots : Rumbling(clients[s]) =>
          Rumbling(kept[s]) /\ kept[s].ttl = clients[s].ttl
    BY <1>2, <2>2 DEF Draft
  <2> HIDE DEF kept
  <2> QED BY <2>1, <2>3 DEF Driven
<1> QED BY <1>2, <1>3, <1>4 DEF Draft

LEMMA BroadcastDriven ==
  ASSUME TableOK, NEW dev, NEW kind \in {"events", "monitor"}, NEW heard,
         Driven(clients),
         \/ motor # MotorOff => Reaches(dev)
         \/ \A s \in Slots : clients[s].kind = kind => ~Rumbling(clients[s]),
         broadcast(dev, kind, heard)
  PROVE  Driven(clients)'
<1>1. PICK cl, dropped : /\ Draft(cl, dropped) /\ close_clients(dev, cl, dropped, heard)
                         /\ \A s \in dropped : clients[s].kind = kind
  BY BroadcastDraft
<1>2. \/ motor # MotorOff => Reaches(dev)
      \/ \A s \in dropped : ~Rumbling(clients[s])
  BY <1>1 DEF Draft
<1> QED BY <1>1, <1>2, CloseClientsDriven DEF TableOK

LEMMA AnswerDriven ==
  ASSUME TableOK, NEW s \in Slots, clients[s].conn # NoConn,
         NEW kind \in Kinds, NEW messages, NEW hears,
         Driven(clients), motor # MotorOff => Reaches(device),
         Answer(s, kind, messages, hears)
  PROVE  Driven(clients)'
BY AnswerDraft, CloseClientsDriven DEF TableOK

LEMMA CloseDriven ==
  ASSUME TableOK, NEW s \in Slots, Driven(clients),
         motor # MotorOff => Reaches(device), Close(s)
  PROVE  Driven(clients)'
BY CloseDraft, CloseClientsDriven DEF TableOK, Close

\* The same for a rumble or a stop, which are forced.
LEMMA SetRumbleDriven ==
  ASSUME TableOK, NEW s \in Slots, clients[s].conn # NoConn,
         NEW low \in Levels, NEW high \in Levels, NEW ttl \in Ticks,
         Driven(clients), motor # MotorOff => Reaches(device),
         update_rumble(device,
           [clients EXCEPT ![s].low = low, ![s].high = high, ![s].ttl = ttl], TRUE)
  PROVE  Driven(clients)'
<1> DEFINE cl == [clients EXCEPT ![s].low = low, ![s].high = high, ![s].ttl = ttl]
<1>1. clients \in [Slots -> SlotRecords]
  BY DEF TableOK, CleanTable
<1>2. \A t \in Slots : /\ cl[t] \in SlotRecords
                       /\ cl[t].conn = clients[t].conn
                       /\ t # s => cl[t] = clients[t]
  BY <1>1 DEF SlotRecords
<1>3. CleanTable(cl)
  BY <1>1, <1>2 DEF TableOK, CleanTable
<1> HIDE DEF cl
<1>4. update_rumble(device, cl, TRUE)
  BY DEF cl
<1>5. motor # MotorOff => Reaches(device) /\ active # Quiet
  BY DEF Driven
<1> QED BY <1>3, <1>4, <1>5, UpdateDriven DEF TableOK

-----------------------------------------------------------------------------
(* The bridge reaches the motors that run, and leaves none running.          *)

MotorReached ==
  /\ adding # NoDevice => pc \in {"pump1", "pump2"}
  /\ pc # "stopped" /\ motor # MotorOff => Reaches(Driver)

\* A process that ends has stopped the motors; while it closes its clients they
\* only run for the ones that are left.
ClosingOK ==
  pc = "closing" => /\ Driven(clients)
                    /\ \A s \in Slots : s < cursor => clients[s] = FreeSlot

\* Steps that leave the devices alone keep the motors within reach.
LEMMA ReachedUnchanged ==
  ASSUME MotorReached, UNCHANGED <<xdev, device, adding>>,
         \/ pc' = pc /\ motor' \in {motor, MotorOff}
         \/ adding = NoDevice /\ pc # "stopped" /\ MotorKept(device)
  PROVE  MotorReached'
<1>1. CASE pc' = pc /\ motor' \in {motor, MotorOff}
  BY <1>1 DEF MotorReached, Driver, Reaches, CanSend, Present
<1>2. CASE adding = NoDevice /\ pc # "stopped" /\ MotorKept(device)
  BY <1>2 DEF MotorReached, MotorKept, Driver, Reaches, CanSend, Present
<1> QED BY <1>1, <1>2

LEMMA ShutdownMotor ==
  ASSUME Shutdown
  PROVE  MotorKept(device) /\ motor' \in {motor, MotorOff}
         /\ (Reaches(device) => motor' = MotorOff)
BY DEF Shutdown, send_lorie_rumble, MotorKept

LEMMA HandleKept ==
  ASSUME IInv, Handle
  PROVE  MotorKept(device)
<1>1. CASE Head(control).command = "rumble" /\ HandleRumble(cursor, Head(control))
  BY <1>1, UpdateKept DEF HandleRumble
<1>2. CASE HandleStop(cursor)
  BY <1>2, UpdateKept DEF HandleStop
<1>3. CASE HandleQuery(cursor)
  <2>1. PICK messages, hears : Answer(cursor, "events", messages, hears)
    BY <1>3 DEF HandleQuery
  <2> QED BY <2>1, AnswerKept
<1>4. CASE HandleMonitor(cursor)
  <2>1. PICK messages, hears : Answer(cursor, "monitor", messages, hears)
    BY <1>4 DEF HandleMonitor
  <2> QED BY <2>1, AnswerKept
<1>5. CASE Close(cursor)
  BY <1>5, CloseClientsKept DEF Close
<1> QED BY <1>1, <1>2, <1>3, <1>4, <1>5 DEF Handle

\* A closed slot, and what poll or recv said of it, leave the motors alone.
LEMMA ServeKept ==
  ASSUME Serve
  PROVE  MotorKept(device)
<1>1. motor' = motor \/ Close(cursor)
  BY DEF Serve, table
<1> QED BY <1>1, CloseClientsKept DEF Close, MotorKept

\* A hierarchy change is queried between a device the motors run on and the one
\* the server has by then: the device found is the one to stop.
LEMMA PumpHierarchyReached ==
  IInv /\ MotorReached /\ PumpHierarchy => MotorReached'
<1> SUFFICES ASSUME IInv, MotorReached, PumpHierarchy PROVE MotorReached'
  OBVIOUS
<1>1. pc' = pc /\ xdev' = xdev /\ pc \in {"pump1", "pump2"} /\ adding = NoDevice
  BY DEF PumpHierarchy, Pumping
<1>2. CASE xdev = device
  BY <1>1, <1>2, ReachedUnchanged DEF PumpHierarchy, table
<1>3. CASE xdev # device
  <2>1. ~Reaches(NoDevice)
    BY DEF Reaches, CanSend, Present
  <2>2. motor' = motor
    <3>1. UNCHANGED table \/ \E heard : broadcast(NoDevice, "monitor", heard)
      BY <1>3 DEF PumpHierarchy
    <3> QED BY <2>1, <3>1, BroadcastKept DEF table, MotorKept
  <2>3. adding' = xdev /\ device' = NoDevice
    BY <1>3 DEF PumpHierarchy
  <2> QED BY <1>1, <2>2, <2>3 DEF MotorReached, Driver, Reaches, CanSend, Present
<1> QED BY <1>2, <1>3

LEMMA AddDeviceReached ==
  MotorReached /\ AddDevice => MotorReached'
<1> SUFFICES ASSUME MotorReached, AddDevice PROVE MotorReached'
  OBVIOUS
<1>1. /\ pc \in {"pump1", "pump2"} /\ adding # NoDevice
      /\ device' = adding /\ adding' = NoDevice /\ UNCHANGED <<xdev, pc>>
  BY DEF AddDevice
<1>2. MotorKept(adding)
  <2>1. \E heard : broadcast(adding, "monitor", heard)
    BY DEF AddDevice
  <2> QED BY <2>1, BroadcastKept
<1>3. motor' # MotorOff => Reaches(adding)
  BY <1>1, <1>2 DEF MotorReached, MotorKept, Driver
<1> QED BY <1>1, <1>3 DEF MotorReached, Driver, Reaches, CanSend, Present

\* A motor keeps running only on the device it ran on, with another profile.
LEMMA XHotplugReached ==
  MotorReached /\ XHotplug => MotorReached'
<1> SUFFICES ASSUME MotorReached, XHotplug PROVE MotorReached'
  OBVIOUS
<1>1. UNCHANGED <<pc, device, adding>>
  BY DEF XHotplug, BridgeSide, loop
<1>2. \/ motor' = MotorOff
      \/ /\ motor' = motor /\ Present(xdev') /\ Present(xdev)
         /\ xdev'.id = xdev.id /\ xdev'.profile \in RumbleProfiles
  BY DEF XHotplug
<1> QED BY <1>1, <1>2 DEF MotorReached, Driver, Reaches, CanSend, Present

LEMMA PumpDeviceEventKept ==
  ASSUME PumpDeviceEvent
  PROVE  MotorKept(device)
<1>1. UNCHANGED table \/ \E heard : broadcast(device, "events", heard)
  BY DEF PumpDeviceEvent, table
<1> QED BY <1>1, BroadcastKept DEF table, MotorKept

LEMMA TimePassesMotor ==
  ASSUME IInv, TimePasses
  PROVE  \/ motor' = MotorOff
         \/ /\ motor # MotorOff /\ motor.ttl > 1
            /\ motor' = [motor EXCEPT !.ttl = @ - 1]
<1>1. motor.ttl > 1 => motor # MotorOff
  BY DEF MotorOff
<1> QED BY <1>1 DEF TimePasses

LEMMA InitReached == Init => MotorReached /\ ClosingOK
BY DEF Init, MotorReached, ClosingOK

LEMMA NextReached == IInv /\ MotorReached /\ [Next]_vars => MotorReached'
<1> SUFFICES ASSUME IInv, MotorReached, [Next]_vars PROVE MotorReached'
  OBVIOUS
<1>1. CASE Poll \/ PumpDone \/ AcceptOne \/ AcceptDone
  <2>1. /\ UNCHANGED <<xdev, device, adding, motor>>
        /\ adding = NoDevice /\ pc # "stopped"
    BY <1>1 DEF MotorReached, Poll, PumpDone, AcceptOne, AcceptDone, Pumping, xvars,
                table, loop
  <2> QED BY <2>1, ReachedUnchanged DEF MotorKept
<1>2. CASE PumpDeviceEvent \/ Serve \/ Handle \/ Tick \/ Shutdown \/ CloseNext
  <2>1. UNCHANGED <<xdev, device, adding>> /\ adding = NoDevice /\ pc # "stopped"
    BY <1>2 DEF MotorReached, PumpDeviceEvent, Serve, Handle, Tick, Shutdown,
                CloseNext, Pumping, xvars, loop
  <2>2. MotorKept(device)
    <3>1. CASE Tick
      BY <3>1, UpdateKept DEF Tick
    <3>2. CASE CloseNext
      BY <3>2, CloseClientsKept DEF CloseNext, Close
    <3> QED BY <1>2, <3>1, <3>2, PumpDeviceEventKept, ServeKept, HandleKept, ShutdownMotor
  <2> QED BY <2>1, <2>2, ReachedUnchanged
<1>3. CASE PumpHierarchy
  BY <1>3, PumpHierarchyReached
<1>4. CASE AddDevice
  BY <1>4, AddDeviceReached
<1>5. CASE XErrorExit \/ Stop
  BY <1>5 DEF MotorReached, XErrorExit, Stop, Goto, Pumping
<1>6. CASE TimePasses
  <2>1. UNCHANGED <<xdev, device, adding, pc>>
    BY <1>6 DEF TimePasses, xvars, loop
  <2>2. motor' # MotorOff => motor # MotorOff
    BY <1>6, TimePassesMotor
  <2> QED BY <2>1, <2>2 DEF MotorReached, Driver, Reaches, CanSend, Present
<1>7. CASE XHotplug
  BY <1>7, XHotplugReached
<1>8. CASE (\E c \in Conns : Connect(c) \/ Send(c) \/ Hangup(c)) \/ XInput \/ Signal
             \/ UNCHANGED vars
  <2>1. UNCHANGED <<xdev, device, adding, motor, pc>>
    BY <1>8 DEF Connect, Send, Hangup, XInput, Signal, BridgeSide, xvars, loop, vars
  <2> QED BY <2>1, ReachedUnchanged
<1> QED
  BY <1>1, <1>2, <1>3, <1>4, <1>5, <1>6, <1>7, <1>8
  DEF Next, BridgeStep, Environment, Terminated

-----------------------------------------------------------------------------
(* Every step but the loss of a rumbling monitor keeps the motors driven.    *)

\* Steps that leave the table alone, and stop the motors or leave them alone.
LEMMA DrivenUnchanged ==
  ASSUME Driven(clients), UNCHANGED <<clients, active>>, motor' \in {motor, MotorOff}
  PROVE  Driven(clients)'
BY DEF Driven

\* Time takes as much from the motors as from the client they run for.
LEMMA TimePassesDriven ==
  ASSUME IInv, Driven(clients), TimePasses
  PROVE  Driven(clients)'
<1>1. CASE motor' = MotorOff
  BY <1>1 DEF Driven
<1>2. CASE /\ motor # MotorOff /\ motor.ttl > 1
           /\ motor' = [motor EXCEPT !.ttl = @ - 1]
  <2>1. motor \in Motors /\ clients \in [Slots -> SlotRecords] /\ motor.ttl \in Nat
    BY DEF IInv, TableOK, CleanTable, Motors, Ticks
  <2>2. /\ motor'.low = motor.low /\ motor'.high = motor.high
        /\ motor'.ttl = motor.ttl - 1
    BY <1>2, <2>1 DEF Motors
  <2>3. PICK s \in Slots : Rumbling(clients[s]) /\ clients[s].ttl >= motor.ttl
    BY <1>2 DEF Driven
  <2>4. clients[s].ttl \in Nat /\ clients[s].ttl > 0
    BY <1>2, <2>1, <2>3, SlotFields DEF Ticks
  <2>5. clients'[s] = [clients[s] EXCEPT !.ttl = Less(@)]
    BY DEF TimePasses
  <2>6. clients'[s].low = clients[s].low /\ clients'[s].high = clients[s].high
        /\ clients'[s].ttl = clients[s].ttl - 1
    BY <2>1, <2>4, <2>5 DEF Less, SlotRecords
  <2>7. Rumbling(clients'[s]) /\ clients'[s].ttl >= motor'.ttl
    BY <2>1, <2>2, <2>3, <2>4, <2>6 DEF Rumbling
  <2>8. active' = active
    BY DEF TimePasses
  <2> QED BY <1>2, <2>1, <2>2, <2>7, <2>8 DEF Driven
<1> QED BY <1>1, <1>2, TimePassesMotor

\* A new client takes the place of nobody.
LEMMA AcceptOneDriven ==
  ASSUME IInv, Driven(clients), AcceptOne
  PROVE  Driven(clients)'
<1>1. UNCHANGED <<motor, active>>
  BY DEF AcceptOne
<1>2. clients' = clients \/ \E s \in FreeSlots : \E slot : clients' = [clients EXCEPT ![s] = slot]
  BY FirstFree DEF AcceptOne
<1>3. \A s \in FreeSlots : ~Rumbling(clients[s])
  BY DEF FreeSlots, FreeSlot, Rumbling, IInv, TableOK, CleanTable
<1>4. \A s \in Slots : Rumbling(clients[s]) => clients'[s] = clients[s]
  BY <1>2, <1>3 DEF IInv, TableOK, CleanTable
<1> QED BY <1>1, <1>4 DEF Driven

LEMMA ServeDriven ==
  ASSUME IInv, MotorReached, Driven(clients), Serve
  PROVE  Driven(clients)'
<1> DEFINE s == cursor
           c == clients[s].conn
           r == revents.slot[s]
<1>1. s \in Slots /\ (motor # MotorOff => Reaches(device))
  BY DEF IInv, CursorOK, Serve, MotorReached, Driver
<1>2. CASE Close(s)
  BY <1>1, <1>2, CloseDriven DEF IInv
<1>3. CASE UNCHANGED table
  BY <1>3, DrivenUnchanged DEF table
<1>4. CASE UNCHANGED <<active, motor>> /\ \E used : clients' = [clients EXCEPT ![s].used = used]
  <2>1. \A t \in Slots : /\ clients'[t].low = clients[t].low
                         /\ clients'[t].high = clients[t].high
                         /\ clients'[t].ttl = clients[t].ttl
    BY <1>1, <1>4 DEF IInv, TableOK, CleanTable, SlotRecords
  <2> QED BY <1>4, <2>1 DEF Driven, Rumbling
<1> QED BY <1>2, <1>3, <1>4 DEF Serve

LEMMA HandleDriven ==
  ASSUME IInv, MotorReached, Driven(clients), Handle
  PROVE  Driven(clients)'
<1> DEFINE s == cursor
<1>1. /\ s \in Slots /\ clients[s].conn # NoConn /\ TableOK
      /\ motor # MotorOff => Reaches(device)
  BY DEF IInv, CursorOK, Handle, MotorReached, Driver
<1>2. CASE \/ Head(control).command = "rumble" /\ HandleRumble(s, Head(control))
           \/ HandleStop(s)
  <2>1. PICK low \in Levels, high \in Levels, ttl \in Ticks :
          update_rumble(device, [clients EXCEPT ![s].low = low,
                           ![s].high = high, ![s].ttl = ttl], TRUE)
    BY <1>2, RumbleHandlers
  <2> HIDE DEF s
  <2> QED BY <1>1, <2>1, SetRumbleDriven
<1>3. CASE HandleQuery(s)
  <2>1. PICK messages, hears : Answer(s, "events", messages, hears)
    BY <1>3 DEF HandleQuery
  <2> HIDE DEF s
  <2> QED BY <1>1, <2>1, AnswerDriven DEF Kinds
<1>4. CASE HandleMonitor(s)
  <2>1. PICK messages, hears : Answer(s, "monitor", messages, hears)
    BY <1>4 DEF HandleMonitor
  <2> HIDE DEF s
  <2> QED BY <1>1, <2>1, AnswerDriven DEF Kinds
<1>5. CASE Close(s)
  BY <1>1, <1>5, CloseDriven
<1> QED BY <1>2, <1>3, <1>4, <1>5 DEF Handle

\* No rumbling client is told of hotplugs.
NoRumblingMonitor ==
  \A s \in Slots : clients[s].kind = "monitor" => ~Rumbling(clients[s])

LEMMA PumpDriven ==
  ASSUME IInv, MotorReached, Driven(clients),
         PumpDeviceEvent \/ AddDevice \/ (PumpHierarchy /\ NoRumblingMonitor)
  PROVE  Driven(clients)'
<1>1. CASE PumpDeviceEvent
  <2>1. motor # MotorOff => Reaches(device)
    BY <1>1 DEF MotorReached, Driver, PumpDeviceEvent, Pumping
  <2>2. UNCHANGED table \/ \E heard : broadcast(device, "events", heard)
    BY <1>1 DEF PumpDeviceEvent, table
  <2> QED BY <2>1, <2>2, DrivenUnchanged, BroadcastDriven DEF table, IInv
<1>2. CASE AddDevice
  <2>1. motor # MotorOff => Reaches(adding)
    BY <1>2 DEF MotorReached, Driver, AddDevice
  <2>2. \E heard : broadcast(adding, "monitor", heard)
    BY <1>2 DEF AddDevice
  <2> QED BY <2>1, <2>2, BroadcastDriven DEF IInv
<1>3. CASE PumpHierarchy /\ NoRumblingMonitor
  <2>1. UNCHANGED table \/ \E heard : broadcast(NoDevice, "monitor", heard)
    BY <1>3 DEF PumpHierarchy, table
  <2>2. \A s \in Slots : clients[s].kind = "monitor" => ~Rumbling(clients[s])
    BY <1>3 DEF NoRumblingMonitor
  <2> QED BY <2>1, <2>2, DrivenUnchanged, BroadcastDriven DEF table, IInv
<1> QED BY <1>1, <1>2, <1>3

LEMMA NextDriven ==
  ASSUME IInv, MotorReached, Driven(clients), pc # "stopped", [Next]_vars,
         PumpHierarchy => NoRumblingMonitor
  PROVE  pc' = "stopped" \/ Driven(clients)'
<1> SUFFICES ASSUME pc' # "stopped"
             PROVE  Driven(clients)'
  OBVIOUS
<1>1. CASE Poll \/ PumpDone \/ AcceptDone
           \/ (\E c \in Conns : Connect(c) \/ Send(c) \/ Hangup(c))
           \/ XHotplug \/ XInput \/ Signal \/ UNCHANGED vars
  <2>1. UNCHANGED <<clients, active>> /\ motor' \in {motor, MotorOff}
    BY <1>1 DEF Poll, PumpDone, AcceptDone, Connect, Send, Hangup, XHotplug, XInput,
                Signal, vars, table, BridgeSide
  <2> QED BY <2>1, DrivenUnchanged
<1>2. CASE Shutdown
  <2>1. UNCHANGED <<clients, active>>
    BY <1>2 DEF Shutdown
  <2> QED BY <1>2, <2>1, ShutdownMotor, DrivenUnchanged
<1>3. CASE PumpDeviceEvent \/ AddDevice \/ PumpHierarchy
  BY <1>3, PumpDriven
<1>4. CASE AcceptOne
  BY <1>4, AcceptOneDriven
<1>5. CASE Serve
  BY <1>5, ServeDriven
<1>6. CASE Handle
  BY <1>6, HandleDriven
<1>7. CASE Tick
  <2>1. motor # MotorOff => Reaches(device) /\ active # Quiet
    BY <1>7 DEF MotorReached, Driver, Driven, Tick
  <2>2. update_rumble(device, clients, FALSE) /\ CleanTable(clients) /\ motor \in Motors
    BY <1>7 DEF Tick, IInv, TableOK
  <2> QED BY <2>1, <2>2, UpdateDriven
<1>8. CASE CloseNext
  <2>1. /\ motor # MotorOff => Reaches(device)
        /\ cursor \in Slots /\ Close(cursor)
    BY <1>8 DEF MotorReached, Driver, CloseNext
  <2> QED BY <2>1, CloseDriven DEF IInv
<1>9. CASE TimePasses
  BY <1>9, TimePassesDriven
<1>10. CASE XErrorExit \/ Stop
  BY <1>10 DEF XErrorExit, Stop, Goto
<1> QED
  BY <1>1, <1>2, <1>3, <1>4, <1>5, <1>6, <1>7, <1>8, <1>9, <1>10
  DEF Next, BridgeStep, Environment, Terminated

-----------------------------------------------------------------------------
(* The end of the process.                                                   *)

\* close_client frees the slot.
LEMMA CloseFrees ==
  ASSUME TableOK, NEW s \in Slots, Close(s)
  PROVE  clients'[s].conn = NoConn
<1> DEFINE dropped == {s}
           cl == clients
           heard == told
<1>1. dropped \subseteq Slots /\ close_clients(device, cl, dropped, heard) /\ s \in dropped
  BY DEF Close
<1>2. /\ \A t \in Slots : cl[t] \in SlotRecords
      /\ \A t \in Slots : cl[t].conn = NoConn => cl[t] = FreeSlot
  BY DEF TableOK, CleanTable
<1> HIDE DEF dropped, cl, heard
<1>3. \A t \in Slots : clients'[t].conn = IF t \in dropped THEN NoConn ELSE cl[t].conn
  BY <1>1, <1>2, CloseClientsEnds DEF TableOK
<1> QED BY <1>1, <1>3

LEMMA NextClosing ==
  IInv /\ MotorReached /\ ClosingOK /\ [Next]_vars => ClosingOK'
<1> SUFFICES ASSUME IInv, MotorReached, ClosingOK, [Next]_vars, pc' = "closing"
             PROVE  ClosingOK'
  BY DEF ClosingOK
<1>1. IInv'
  BY NextInvariant
<1>2. CASE pc = "closing"
  <2>1. Driven(clients)'
    <3>1. ~PumpHierarchy
      BY <1>2 DEF PumpHierarchy, Pumping
    <3> QED BY <1>2, <3>1, NextDriven DEF ClosingOK
  <2>2. \A s \in Slots : s < cursor' => clients'[s].conn = NoConn
    <3>1. CASE CloseNext
      <4>1. cursor \in Slots /\ cursor' = cursor + 1 /\ Close(cursor) /\ TableOK
        BY <3>1 DEF CloseNext, IInv
      <4>2. clients'[cursor].conn = NoConn
        BY <4>1, CloseFrees
      <4>3. \A s \in Slots : clients'[s].conn = clients[s].conn \/ clients'[s].conn = NoConn
        BY <4>1, CloseEnds DEF Stays, Ends
      <4>4. \A s \in Slots : s < cursor + 1 => s = cursor \/ s < cursor
        BY <4>1 DEF Slots
      <4>5. \A s \in Slots : s < cursor => clients[s].conn = NoConn
        BY <1>2 DEF ClosingOK, FreeSlot
      <4> QED BY <4>1, <4>2, <4>3, <4>4, <4>5
    <3>2. CASE TimePasses
      <4>1. cursor' = cursor
        BY <3>2 DEF TimePasses, loop
      <4>2. \A s \in Slots : clients'[s].conn = clients[s].conn
        BY <3>2 DEF TimePasses, IInv, TableOK, CleanTable, SlotRecords
      <4> QED BY <1>2, <4>1, <4>2 DEF ClosingOK, FreeSlot
    <3>3. CASE (\E c \in Conns : Connect(c) \/ Send(c) \/ Hangup(c))
               \/ XHotplug \/ XInput \/ UNCHANGED vars
      <4>1. UNCHANGED <<clients, cursor>>
        BY <3>3 DEF Connect, Send, Hangup, XHotplug, XInput, BridgeSide, loop, vars
      <4> QED BY <1>2, <4>1 DEF ClosingOK, FreeSlot
    <3>4. ~(Poll \/ PumpDeviceEvent \/ PumpHierarchy \/ AddDevice \/ PumpDone
            \/ XErrorExit \/ AcceptOne \/ AcceptDone \/ Serve \/ Handle \/ Tick
            \/ Shutdown \/ Stop \/ Signal)
      BY <1>2 DEF Poll, PumpDeviceEvent, PumpHierarchy, AddDevice, PumpDone, XErrorExit,
                  AcceptOne, AcceptDone, Serve, Handle, Tick, Shutdown, Stop, Signal,
                  Pumping, Goto
    <3> QED BY <3>1, <3>2, <3>3, <3>4 DEF Next, BridgeStep, Environment, Terminated
  <2> QED BY <1>1, <2>1, <2>2 DEF ClosingOK, IInv, TableOK, CleanTable
<1>3. CASE pc # "closing"
  <2>1. Shutdown
    BY <1>3 DEF Next, BridgeStep, Environment, Terminated,
                Poll, PumpDeviceEvent, PumpHierarchy, AddDevice, PumpDone, XErrorExit,
                AcceptOne, AcceptDone, Serve, Handle, Tick, CloseNext, Stop, NextSlot,
                Connect, Send, Hangup, XHotplug, XInput, TimePasses, Signal,
                Goto, BridgeSide, loop, vars
  <2>2. motor # MotorOff => Reaches(device)
    BY <2>1 DEF MotorReached, Driver, Shutdown
  <2>3. motor' = MotorOff
    BY <2>1, <2>2, ShutdownMotor
  <2>4. cursor' = 0 /\ \A s \in Slots : ~(s < 0)
    BY <2>1 DEF Shutdown, Slots
  <2> QED BY <2>3, <2>4 DEF ClosingOK, Driven
<1> QED BY <1>2, <1>3

\* The last client is closed before the process ends.
LEMMA StopIsQuiet ==
  ASSUME IInv, ClosingOK, [Next]_vars, pc = "closing", pc' = "stopped"
  PROVE  motor' = MotorOff
<1>1. Stop
  BY DEF Next, BridgeStep, Environment, Terminated,
         Poll, PumpDeviceEvent, PumpHierarchy, AddDevice, PumpDone, XErrorExit, Pumping,
         AcceptOne, AcceptDone, Serve, Handle, Tick, CloseNext, Shutdown,
         Connect, Send, Hangup, XHotplug, XInput, TimePasses, Signal,
         BridgeSide, loop, vars
<1>2. motor' = motor /\ cursor \notin Slots
  BY <1>1 DEF Stop
<1>3. \A s \in Slots : s < cursor
  BY <1>2, BridgeAssumption DEF IInv, LoopOK, Slots
<1>4. \A s \in Slots : ~Rumbling(clients[s])
  BY <1>3 DEF ClosingOK, FreeSlot, Rumbling
<1> QED BY <1>2, <1>4 DEF ClosingOK, Driven

\* However many clients still rumble when a signal arrives, whatever they were
\* doing and whatever the controller does meanwhile, the process stops the
\* motors: closing a client may start them again for those that are left, the
\* last one leaves nobody.
THEOREM ExitIsQuiet == Spec => QuietExit
<1> DEFINE Closes == IInv /\ MotorReached /\ ClosingOK
<1>1. Init => Closes
  BY InitInvariant, InitReached
<1>2. Closes /\ [Next]_vars => Closes'
  BY NextInvariant, NextReached, NextClosing
<1>3. Closes /\ [Next]_vars => [pc = "closing" /\ pc' = "stopped" => motor' = MotorOff]_vars
  BY StopIsQuiet
<1> QED BY <1>1, <1>2, <1>3, PTL DEF Spec, QuietExit

-----------------------------------------------------------------------------
(* Clients that keep rumble and hotplug apart.                               *)

MaySend(c, command) == \E m \in Commands[c] : m.command = command

\* No client asks for hotplug messages and for rumble over the same connection.
Unmixed == \A c \in Conns : ~(MaySend(c, "monitor") /\ MaySend(c, "rumble"))

\* What the bridge received of a connection, and made of it, is what the
\* connection may send.
InboxRole == \A c \in Conns : inbox[c] \in Seq(Commands[c])
ControlRole == control # <<>> => control \in Seq(Commands[clients[cursor].conn])
SlotRole ==
  \A s \in Slots :
    /\ clients[s].kind = "monitor" => MaySend(clients[s].conn, "monitor")
    /\ Rumbling(clients[s]) => MaySend(clients[s].conn, "rumble")
Roles == InboxRole /\ ControlRole /\ SlotRole

\* A slot is freed, or keeps its connection and kind and rumbles only if it did.
KeepsRoles(kinds) ==
  \A s \in Slots :
    \/ clients'[s] = FreeSlot
    \/ /\ clients'[s].conn = clients[s].conn /\ clients'[s].kind = kinds[s].kind
       /\ Rumbling(clients'[s]) => Rumbling(clients[s])

InboxKept == \A c \in Conns : inbox'[c] = inbox[c] \/ inbox'[c] = <<>>

LEMMA FreeSlotRole == ~Rumbling(FreeSlot) /\ FreeSlot.kind # "monitor" /\ FreeSlot.conn = NoConn
BY DEF Rumbling, FreeSlot

LEMMA SlotRoleKept ==
  ASSUME SlotRole, KeepsRoles(clients)
  PROVE  SlotRole'
BY FreeSlotRole DEF SlotRole, KeepsRoles

LEMMA InboxRoleKept ==
  ASSUME InboxRole, InboxKept
  PROVE  InboxRole'
<1>1. \A c \in Conns : <<>> \in Seq(Commands[c])
  OBVIOUS
<1> QED BY <1>1 DEF InboxRole, InboxKept

\* update_rumble starts no rumble.
LEMMA UpdateRoles ==
  ASSUME NEW dev, NEW cl, CleanTable(cl), NEW force, motor \in Motors,
         update_rumble(dev, cl, force)
  PROVE  \A s \in Slots : /\ clients'[s].conn = cl[s].conn
                          /\ clients'[s].kind = cl[s].kind
                          /\ Rumbling(clients'[s]) => Rumbling(cl[s])
<1>1. \A s \in Slots : /\ clients'[s].conn = cl[s].conn
                       /\ clients'[s].kind = cl[s].kind
  BY UpdateRumble
<1>2. \A s \in Slots : clients'[s] = IF cl[s].ttl = 0
                                     THEN [cl[s] EXCEPT !.low = 0, !.high = 0] ELSE cl[s]
  BY DEF update_rumble, Expired
<1>3. \A c \in SlotRecords : ~Rumbling([c EXCEPT !.low = 0, !.high = 0])
  BY DEF Rumbling, SlotRecords
<1>4. \A s \in Slots : Rumbling(clients'[s]) => Rumbling(cl[s])
  BY <1>2, <1>3 DEF CleanTable
<1> QED BY <1>1, <1>4

LEMMA CloseClientsRoles ==
  ASSUME TableOK, NEW dev, NEW cl, NEW dropped, NEW heard, Draft(cl, dropped),
         close_clients(dev, cl, dropped, heard)
  PROVE  KeepsRoles(cl) /\ InboxKept
<1> DEFINE kept == [s \in Slots |-> IF s \in dropped THEN FreeSlot ELSE cl[s]]
<1>1. CleanTable(kept)
  BY FreeSlotType DEF CleanTable, Draft
<1>2. clients' = kept \/ update_rumble(dev, kept, TRUE)
  BY DEF close_clients
<1>3. \A s \in Slots : kept[s] = IF s \in dropped THEN FreeSlot ELSE cl[s]
  OBVIOUS
<1> HIDE DEF kept
<1>4. CleanTable(clients')
  BY <1>1, <1>2, UpdateRumble DEF TableOK
<1>5. \A s \in Slots : /\ clients'[s].conn = kept[s].conn
                       /\ clients'[s].kind = kept[s].kind
                       /\ Rumbling(clients'[s]) => Rumbling(kept[s])
  BY <1>1, <1>2, UpdateRoles DEF TableOK
<1>6. \A s \in dropped : clients'[s] = FreeSlot
  BY <1>3, <1>4, <1>5, FreeSlotRole DEF Draft, CleanTable
<1>7. \A s \in Slots \ dropped : /\ clients'[s].conn = clients[s].conn
                                 /\ clients'[s].kind = cl[s].kind
                                 /\ Rumbling(clients'[s]) => Rumbling(clients[s])
  BY <1>3, <1>5, DraftRumbles DEF Draft
<1>8. InboxKept
  BY DEF close_clients, InboxKept
<1> QED BY <1>6, <1>7, <1>8 DEF KeepsRoles

LEMMA BroadcastRoles ==
  ASSUME TableOK, NEW dev, NEW kind \in {"events", "monitor"}, NEW heard,
         broadcast(dev, kind, heard)
  PROVE  KeepsRoles(clients) /\ InboxKept
<1>1. PICK cl, dropped : /\ Draft(cl, dropped) /\ close_clients(dev, cl, dropped, heard)
                         /\ \A s \in Slots : cl[s].kind = clients[s].kind
  BY BroadcastDraft
<1> QED BY <1>1, CloseClientsRoles DEF KeepsRoles

LEMMA AnswerRoles ==
  ASSUME TableOK, NEW s \in Slots, clients[s].conn # NoConn,
         NEW kind \in Kinds, NEW messages, NEW hears, SlotRole, InboxRole,
         kind = "monitor" => MaySend(clients[s].conn, "monitor"),
         Answer(s, kind, messages, hears)
  PROVE  SlotRole' /\ InboxRole'
<1>1. PICK cl, dropped :
        /\ Draft(cl, dropped)
        /\ close_clients(device, cl, dropped, [told EXCEPT ![s] = hears])
        /\ \A t \in Slots : cl[t].kind = IF t = s THEN kind ELSE clients[t].kind
  BY AnswerDraft
<1>2. KeepsRoles(cl) /\ InboxKept
  BY <1>1, CloseClientsRoles
<1>3. SlotRole'
  BY <1>1, <1>2, FreeSlotRole DEF SlotRole, KeepsRoles
<1> QED BY <1>2, <1>3, InboxRoleKept

LEMMA CloseRoles ==
  ASSUME TableOK, NEW s \in Slots, Close(s)
  PROVE  KeepsRoles(clients) /\ InboxKept
BY CloseDraft, CloseClientsRoles DEF Close

LEMMA SetRumbleRoles ==
  ASSUME TableOK, NEW s \in Slots, clients[s].conn # NoConn, SlotRole,
         NEW low \in Levels, NEW high \in Levels, NEW ttl \in Ticks,
         low # 0 \/ high # 0 => MaySend(clients[s].conn, "rumble"),
         update_rumble(device,
           [clients EXCEPT ![s].low = low, ![s].high = high, ![s].ttl = ttl], TRUE)
  PROVE  SlotRole'
<1> DEFINE cl == [clients EXCEPT ![s].low = low, ![s].high = high, ![s].ttl = ttl]
<1>1. clients \in [Slots -> SlotRecords]
  BY DEF TableOK, CleanTable
<1>2. \A t \in Slots : /\ cl[t] \in SlotRecords
                       /\ cl[t].conn = clients[t].conn
                       /\ cl[t].kind = clients[t].kind
                       /\ t # s => cl[t] = clients[t]
  BY <1>1 DEF SlotRecords
<1>3. CleanTable(cl)
  BY <1>1, <1>2 DEF TableOK, CleanTable
<1>4. Rumbling(cl[s]) => MaySend(clients[s].conn, "rumble")
  <2>1. cl[s].low = low /\ cl[s].high = high
    BY <1>1 DEF SlotRecords
  <2> QED BY <2>1, LevelRange DEF Rumbling
<1> HIDE DEF cl
<1>5. update_rumble(device, cl, TRUE)
  BY DEF cl
<1>6. \A t \in Slots : /\ clients'[t].conn = cl[t].conn
                       /\ clients'[t].kind = cl[t].kind
                       /\ Rumbling(clients'[t]) => Rumbling(cl[t])
  BY <1>3, <1>5, UpdateRoles DEF TableOK
<1> QED BY <1>2, <1>4, <1>6 DEF SlotRole

\* Steps that leave what was received and the connection at the cursor alone.
LEMMA ControlRoleKept ==
  ASSUME ControlRole, control' = control, cursor' = cursor,
         control # <<>> => clients'[cursor].conn = clients[cursor].conn
  PROVE  ControlRole'
BY DEF ControlRole

LEMMA PumpRoles ==
  ASSUME IInv, Roles, PumpDeviceEvent \/ PumpHierarchy \/ AddDevice
  PROVE  Roles'
<1>1. UNCHANGED table
      \/ \E dev, heard : \E kind \in {"events", "monitor"} : broadcast(dev, kind, heard)
  <2>1. CASE PumpDeviceEvent
    BY <2>1 DEF PumpDeviceEvent, table
  <2>2. CASE PumpHierarchy
    BY <2>2 DEF PumpHierarchy, table
  <2>3. CASE AddDevice
    BY <2>3 DEF AddDevice
  <2> QED BY <2>1, <2>2, <2>3
<1>2. control = <<>> /\ control' = control
  BY DEF IInv, CursorOK, PumpDeviceEvent, PumpHierarchy, AddDevice, Pumping, loop
<1>3. ControlRole'
  BY <1>2 DEF ControlRole
<1>4. CASE UNCHANGED table
  BY <1>3, <1>4 DEF Roles, InboxRole, SlotRole, table
<1>5. CASE \E dev, heard : \E kind \in {"events", "monitor"} : broadcast(dev, kind, heard)
  <2>1. KeepsRoles(clients) /\ InboxKept
    BY <1>5, BroadcastRoles DEF IInv
  <2> QED BY <1>3, <2>1, SlotRoleKept, InboxRoleKept DEF Roles
<1> QED BY <1>1, <1>4, <1>5

LEMMA AcceptOneRoles ==
  ASSUME IInv, Roles, AcceptOne
  PROVE  Roles'
<1>1. control = <<>> /\ control' = control
  BY DEF IInv, CursorOK, AcceptOne, loop
<1>2. ControlRole'
  BY <1>1 DEF ControlRole
<1>3. SlotRole'
  <2> DEFINE s == CHOOSE s \in FreeSlots : \A t \in FreeSlots : s <= t
             new(c) == [FreeSlot EXCEPT !.conn = c]
  <2>1. clients' = clients \/ \E c : s \in Slots /\ clients' = [clients EXCEPT ![s] = new(c)]
    BY FirstFree DEF AcceptOne, FreeSlots
  <2>2. \A c : ~Rumbling(new(c)) /\ new(c).kind # "monitor"
    BY DEF FreeSlot, Rumbling
  <2> HIDE DEF s, new
  <2> QED BY <2>1, <2>2 DEF Roles, SlotRole, IInv, TableOK, CleanTable
<1>4. InboxRole'
  <2>1. InboxKept
    BY DEF AcceptOne, InboxKept, IInv, TableOK
  <2> QED BY <2>1, InboxRoleKept DEF Roles
<1> QED BY <1>2, <1>3, <1>4 DEF Roles

\* What recv takes of a queue and what it leaves.
LEMMA SplitType ==
  ASSUME NEW T, NEW q \in Seq(T), NEW n \in Nat, n <= Len(q)
  PROVE  SubSeq(q, 1, n) \in Seq(T) /\ SubSeq(q, n + 1, Len(q)) \in Seq(T)
OBVIOUS

LEMMA AppendType ==
  ASSUME NEW T, NEW q \in Seq(T), NEW m \in T
  PROVE  Append(q, m) \in Seq(T)
OBVIOUS

\* Control messages are received from the client at the cursor.
LEMMA ServeRoles ==
  ASSUME IInv, Roles, Serve
  PROVE  Roles'
<1> DEFINE s == cursor
           c == clients[s].conn
           n == IF Len(inbox[c]) < RecvMax THEN Len(inbox[c]) ELSE RecvMax
<1>1. s \in Slots /\ TableOK
  BY DEF IInv, CursorOK, Serve
<1>2. CASE NextSlot /\ (Close(s) \/ UNCHANGED table)
  <2>1. KeepsRoles(clients) /\ InboxKept
    BY <1>1, <1>2, CloseRoles DEF KeepsRoles, InboxKept, table
  <2>2. control' = <<>>
    BY <1>2 DEF NextSlot
  <2> QED BY <2>1, <2>2, SlotRoleKept, InboxRoleKept DEF Roles, ControlRole
<1>3. CASE /\ c # NoConn
           /\ \E used : clients' = [clients EXCEPT ![s].used = used]
           /\ \/ NextSlot /\ UNCHANGED inbox
              \/ /\ control' = SubSeq(inbox[c], 1, n)
                 /\ inbox' = [inbox EXCEPT ![c] = SubSeq(@, n + 1, Len(@))]
                 /\ cursor' = cursor
  <2>1. KeepsRoles(clients) /\ \A t \in Slots : clients'[t].conn = clients[t].conn
    BY <1>1, <1>3 DEF KeepsRoles, Rumbling, TableOK, CleanTable, SlotRecords
  <2>2. c \in Conns
    BY <1>1, <1>3, SlotFields DEF TableOK, CleanTable
  <2>3. CASE NextSlot /\ UNCHANGED inbox
    <3>1. control' = <<>>
      BY <2>3 DEF NextSlot
    <3>2. InboxKept
      BY <2>3 DEF InboxKept
    <3> QED BY <2>1, <3>1, <3>2, SlotRoleKept, InboxRoleKept DEF Roles, ControlRole
  <2>4. CASE /\ control' = SubSeq(inbox[c], 1, n)
             /\ inbox' = [inbox EXCEPT ![c] = SubSeq(@, n + 1, Len(@))]
             /\ cursor' = cursor
    <3>1. inbox[c] \in Seq(Commands[c])
      BY <2>2 DEF Roles, InboxRole
    <3>2. n \in Nat /\ n <= Len(inbox[c])
      BY <3>1, BridgeAssumption
    <3> HIDE DEF n
    <3>3. /\ SubSeq(inbox[c], 1, n) \in Seq(Commands[c])
          /\ SubSeq(inbox[c], n + 1, Len(inbox[c])) \in Seq(Commands[c])
      BY <3>1, <3>2, SplitType
    <3>4. InboxRole'
      BY <2>2, <2>4, <3>3 DEF Roles, InboxRole, TableOK
    <3>5. ControlRole'
      BY <1>1, <2>1, <2>4, <3>3 DEF ControlRole
    <3> QED BY <2>1, <3>4, <3>5, SlotRoleKept DEF Roles
  <2> QED BY <1>3, <2>3, <2>4
<1>4. \/ NextSlot /\ (Close(s) \/ UNCHANGED table)
      \/ /\ c # NoConn
         /\ \E used : clients' = [clients EXCEPT ![s].used = used]
         /\ \/ NextSlot /\ UNCHANGED inbox
            \/ /\ control' = SubSeq(inbox[c], 1, n)
               /\ inbox' = [inbox EXCEPT ![c] = SubSeq(@, n + 1, Len(@))]
               /\ cursor' = cursor
  BY DEF Serve
<1> QED BY <1>2, <1>3, <1>4

\* The message at the head of what was received is one its client may send.
LEMMA HandleRoles ==
  ASSUME IInv, Roles, Handle
  PROVE  Roles'
<1> DEFINE s == cursor
           m == Head(control)
           c == clients[s].conn
<1>1. s \in Slots /\ c # NoConn /\ TableOK /\ SlotRole /\ InboxRole
  BY DEF IInv, CursorOK, Handle, Roles
<1>2. control # <<>> /\ control \in Seq(Commands[c])
  BY DEF Handle, Roles, ControlRole
<1>3. m \in Commands[c] /\ Tail(control) \in Seq(Commands[c])
  BY <1>2
<1>4. MaySend(c, m.command)
  BY <1>3 DEF MaySend
<1>5. SlotRole' /\ InboxRole'
  <2>1. CASE \/ m.command = "rumble" /\ HandleRumble(s, m)
             \/ HandleStop(s)
    <3>1. PICK low \in Levels, high \in Levels, ttl \in Ticks :
            /\ update_rumble(device, [clients EXCEPT ![s].low = low,
                               ![s].high = high, ![s].ttl = ttl], TRUE)
            /\ UNCHANGED <<open, inbox, told>>
            /\ low # 0 \/ high # 0 => m.command = "rumble"
      BY <2>1, RumbleHandlers
    <3>2. low # 0 \/ high # 0 => MaySend(c, "rumble")
      BY <1>4, <3>1
    <3>3. InboxRole'
      BY <1>1, <3>1 DEF InboxRole
    <3> HIDE DEF s, m
    <3>4. SlotRole'
      BY <1>1, <3>1, <3>2, SetRumbleRoles
    <3> QED BY <3>3, <3>4
  <2>2. CASE HandleQuery(s)
    <3>1. PICK messages, hears : Answer(s, "events", messages, hears)
      BY <2>2 DEF HandleQuery
    <3> HIDE DEF s
    <3> QED BY <1>1, <3>1, AnswerRoles DEF Kinds
  <2>3. CASE m.command = "monitor" /\ HandleMonitor(s)
    <3>1. PICK messages, hears : Answer(s, "monitor", messages, hears)
      BY <2>3 DEF HandleMonitor
    <3>2. MaySend(c, "monitor")
      BY <1>4, <2>3
    <3> HIDE DEF s
    <3> QED BY <1>1, <3>1, <3>2, AnswerRoles DEF Kinds
  <2>4. CASE Close(s)
    <3>1. KeepsRoles(clients) /\ InboxKept
      BY <1>1, <2>4, CloseRoles
    <3> QED BY <1>1, <3>1, SlotRoleKept, InboxRoleKept
  <2> QED BY <2>1, <2>2, <2>3, <2>4 DEF Handle
<1>6. ControlRole'
  <2>1. CASE NextSlot
    BY <2>1 DEF NextSlot, ControlRole
  <2>2. CASE control' = Tail(control) /\ cursor' = cursor /\ clients'[s].conn # NoConn
    <3>1. clients'[s].conn = c \/ clients'[s].conn = NoConn
      BY <1>1, HandleSpares DEF Spares, Stays, Ends
    <3> QED BY <1>3, <2>2, <3>1 DEF ControlRole
  <2> QED BY <2>1, <2>2 DEF Handle
<1> QED BY <1>5, <1>6 DEF Roles

LEMMA InitRoles == Init => Roles
<1> SUFFICES ASSUME Init PROVE Roles
  OBVIOUS
<1>1. \A c \in Conns : inbox[c] = <<>> /\ <<>> \in Seq(Commands[c])
  BY DEF Init
<1> QED BY <1>1, FreeSlotRole DEF Init, Roles, InboxRole, ControlRole, SlotRole

LEMMA NextRoles == IInv /\ Roles /\ [Next]_vars => Roles'
<1> SUFFICES ASSUME IInv, Roles, [Next]_vars PROVE Roles'
  OBVIOUS
<1>1. CASE Poll \/ PumpDone \/ AcceptDone \/ Shutdown \/ XHotplug \/ XInput \/ Signal
           \/ UNCHANGED vars
  <2>1. UNCHANGED <<clients, inbox, control>> /\ (control # <<>> => cursor' = cursor)
    BY <1>1 DEF Poll, PumpDone, AcceptDone, Shutdown, XHotplug, XInput, Signal,
                BridgeSide, table, loop, vars, IInv, CursorOK
  <2> QED BY <2>1 DEF Roles, InboxRole, ControlRole, SlotRole
<1>2. CASE PumpDeviceEvent \/ PumpHierarchy \/ AddDevice
  BY <1>2, PumpRoles
<1>3. CASE XErrorExit \/ Stop
  <2>1. control = <<>> /\ control' = control
    BY <1>3 DEF XErrorExit, Stop, IInv, CursorOK, Pumping
  <2>2. InboxKept
    BY <1>3 DEF XErrorExit, Stop, InboxKept
  <2>3. KeepsRoles(clients)
    BY <1>3 DEF XErrorExit, Stop, KeepsRoles
  <2> QED BY <2>1, <2>2, <2>3, SlotRoleKept, InboxRoleKept DEF Roles, ControlRole
<1>4. CASE AcceptOne
  BY <1>4, AcceptOneRoles
<1>5. CASE Serve
  BY <1>5, ServeRoles
<1>6. CASE Handle
  BY <1>6, HandleRoles
<1>7. CASE Tick
  <2>1. control = <<>> /\ control' = control /\ inbox' = inbox
    BY <1>7 DEF Tick, IInv, CursorOK
  <2>2. update_rumble(device, clients, FALSE) /\ CleanTable(clients) /\ motor \in Motors
    BY <1>7 DEF Tick, IInv, TableOK
  <2>3. KeepsRoles(clients)
    BY <2>2, UpdateRoles DEF KeepsRoles
  <2> QED BY <2>1, <2>3, SlotRoleKept DEF Roles, InboxRole, ControlRole
<1>8. CASE CloseNext
  <2>1. control = <<>> /\ control' = control
    BY <1>8 DEF CloseNext, IInv, CursorOK
  <2>2. KeepsRoles(clients) /\ InboxKept
    BY <1>8, CloseRoles DEF CloseNext, IInv
  <2> QED BY <2>1, <2>2, SlotRoleKept, InboxRoleKept DEF Roles, ControlRole
<1>9. CASE TimePasses
  <2>1. UNCHANGED <<inbox, control, cursor>>
    BY <1>9 DEF TimePasses, loop
  <2>2. \A s \in Slots : /\ clients'[s].conn = clients[s].conn
                         /\ clients'[s].kind = clients[s].kind
                         /\ clients'[s].low = clients[s].low
                         /\ clients'[s].high = clients[s].high
    BY <1>9 DEF TimePasses, IInv, TableOK, CleanTable, SlotRecords
  <2>3. KeepsRoles(clients)
    BY <2>2 DEF KeepsRoles, Rumbling
  <2>4. control # <<>> => clients'[cursor].conn = clients[cursor].conn
    BY <2>2 DEF IInv, CursorOK
  <2> QED BY <2>1, <2>3, <2>4, SlotRoleKept, ControlRoleKept DEF Roles, InboxRole
<1>10. CASE \E c \in Conns : Connect(c) \/ Send(c) \/ Hangup(c)
  <2>1. UNCHANGED <<clients, control, cursor>>
    BY <1>10 DEF Connect, Send, Hangup, BridgeSide, loop
  <2>2. InboxRole'
    <3>1. CASE inbox' = inbox
      BY <3>1 DEF Roles, InboxRole
    <3>2. CASE \E c \in Conns : \E m \in Commands[c] : inbox' = [inbox EXCEPT ![c] = Append(@, m)]
      <4>1. PICK c \in Conns : \E m \in Commands[c] : inbox' = [inbox EXCEPT ![c] = Append(@, m)]
        BY <3>2
      <4>2. PICK m \in Commands[c] : inbox' = [inbox EXCEPT ![c] = Append(@, m)]
        BY <4>1
      <4>3. Append(inbox[c], m) \in Seq(Commands[c])
        <5>1. inbox[c] \in Seq(Commands[c])
          BY DEF Roles, InboxRole
        <5> QED BY <4>2, <5>1, AppendType
      <4> QED BY <4>2, <4>3 DEF Roles, InboxRole, IInv, TableOK
    <3> QED BY <1>10, <3>1, <3>2 DEF Connect, Send, Hangup
  <2> QED BY <2>1, <2>2 DEF Roles, ControlRole, SlotRole
<1> QED
  BY <1>1, <1>2, <1>3, <1>4, <1>5, <1>6, <1>7, <1>8, <1>9, <1>10
  DEF Next, BridgeStep, Environment, Terminated

LEMMA MonitorsAreSilent ==
  ASSUME Unmixed, IInv, SlotRole
  PROVE  NoRumblingMonitor
<1>1. \A s \in Slots : clients[s].kind = "monitor" => clients[s].conn \in Conns
  BY SlotFields, FreeSlotRole DEF IInv, TableOK, CleanTable
<1> QED BY <1>1 DEF Unmixed, SlotRole, NoRumblingMonitor

\* Where no connection mixes hotplug messages and rumble, the motors never run
\* at a level nobody asks for, nor longer than the client that asked longest,
\* whatever ends a rumble: a stop, an expiry, a hangup, a client dropped while
\* it is answered, a device that is replaced in the middle of all this.
THEOREM MotorsFollowDemand ==
  ASSUME Unmixed
  PROVE  Spec => []MotorFollowsDemand
<1> DEFINE Follow == IInv /\ MotorReached /\ Roles /\ (pc # "stopped" => Driven(clients))
<1>1. Init => Follow
  <2>1. Init => Driven(clients)
    BY DEF Init, Driven
  <2> QED BY <2>1, InitInvariant, InitReached, InitRoles
<1>2. Follow /\ [Next]_vars => Follow'
  <2> SUFFICES ASSUME Follow, [Next]_vars PROVE Follow'
    OBVIOUS
  <2>1. IInv' /\ MotorReached' /\ Roles'
    BY NextInvariant, NextReached, NextRoles
  <2>2. CASE pc = "stopped"
    <3>1. pc' = "stopped"
      BY <2>2 DEF Next, BridgeStep, Environment, Terminated,
             Poll, PumpDeviceEvent, PumpHierarchy, AddDevice, PumpDone, XErrorExit, Pumping,
             AcceptOne, AcceptDone, Serve, Handle, Tick, CloseNext, Shutdown, Stop,
             TimePasses, loop, vars
    <3> QED BY <2>1, <3>1
  <2>3. CASE pc # "stopped"
    <3>1. pc' = "stopped" \/ Driven(clients)'
      BY <2>3, NextDriven, MonitorsAreSilent DEF Roles
    <3> QED BY <2>1, <3>1
  <2> QED BY <2>2, <2>3
<1>3. Follow => MotorFollowsDemand
  BY DEF Driven, MotorFollowsDemand
<1> QED BY <1>1, <1>2, <1>3, PTL DEF Spec
=============================================================================
