------------------------------ MODULE EvdevShim ------------------------------
(***************************************************************************)
(* The LD_PRELOAD shim (src/src/evdev_preload.c) in one process: the table *)
(* of fake descriptors, the effect slots all of them share, and the reads  *)
(* of the joystick interface.                                              *)
(*                                                                         *)
(* Calls are atomic, but for the read of a joystick, which may wait for    *)
(* the bridge inside and keeps a pointer into the table meanwhile: with    *)
(* more than one thread, the others go on.  Calls that fail without having *)
(* changed anything are left out.  The bridge is the environment; the      *)
(* controller stays present.                                               *)
(***************************************************************************)
EXTENDS Integers, Sequences, FiniteSets

CONSTANTS
  Threads,
  MaxFd,           \* bound: descriptor numbers
  TG_MAX_FAKE_FDS, TG_MAX_EFFECTS,
  Effects,         \* what is uploaded: a type and two signed levels
  Half,            \* stands for 32767; the unsigned maximum is 2 * Half + 1
  Gains,           \* what is written as a gain
  Controls, Values, Rest,
  MaxQueue,        \* the bridge's output buffer, in halves of messages
  MaxFaults        \* bound: connections cut and messages refused

Fds == 0..MaxFd
Full == 2 * Half + 1
EffectTypes == {"rumble", "constant", "ramp", "condition"}

ASSUME ShimAssumption ==
  /\ MaxFd \in Nat
  /\ TG_MAX_FAKE_FDS \in Nat \ {0} /\ TG_MAX_EFFECTS \in Nat \ {0}
  /\ Half \in Nat \ {0} /\ Gains \subseteq Int
  /\ \A e \in Effects :
       /\ e.type \in EffectTypes
       /\ IF e.type = "rumble" THEN e.x \in 0..Full /\ e.y \in 0..Full
          ELSE e.x \in (-Half - 1)..Half /\ e.y \in (-Half - 1)..Half
  /\ IsFiniteSet(Controls) /\ Rest \in Values
  /\ MaxQueue \in Nat /\ MaxFaults \in Nat

VARIABLES
  \* The kernel and the bridge (external).
  file,        \* what each descriptor is
  val,         \* the bridge's gamepad state
  playing,     \* the rumble the bridge has from each connection
  faults,
  \* The shim.
  fake_fds, fake_count,
  effect_slots, ff_gain,
  \* The calls that wait.
  reader,      \* each thread's joystick read
  \* History.
  seen,        \* what each joystick's reader was told last
  uploaded     \* the strengths uploaded through each descriptor

service == <<val, faults>>
table == <<fake_fds, fake_count>>
effects == <<effect_slots, ff_gain>>
vars == <<file, service, playing, table, effects, reader, seen, uploaded>>

-----------------------------------------------------------------------------
(* Descriptors and messages. *)

NoFile == [kind |-> "closed", nonblock |-> FALSE, link |-> "closed", chan |-> <<>>]
Other  == [kind |-> "other", nonblock |-> FALSE, link |-> "closed", chan |-> <<>>]

\* snapshot tells the messages of send_snapshot from those of a report.
Event(c, value, snapshot) ==
  [type |-> "event", control |-> c, value |-> value, snapshot |-> snapshot]
Syn(snapshot) == [type |-> "syn", snapshot |-> snapshot]

InOrder(S) == CHOOSE f \in [1..Cardinality(S) -> S] :
                \A i, j \in 1..Cardinality(S) : f[i] = f[j] => i = j

Batch(S, values, snapshot) ==
  LET order == InOrder(S)
  IN Append([i \in 1..Cardinality(S) |->
               Event(order[i], values[order[i]], snapshot)], Syn(snapshot))

Halves(messages) ==
  [i \in 1..(2 * Len(messages)) |->
     [message |-> messages[(i + 1) \div 2], half |-> IF i % 2 = 1 THEN 1 ELSE 2]]

States == [Controls -> Values]
Neutral == [c \in Controls |-> Rest]

Unused == [fd |-> 0, joydev |-> FALSE, initializing |-> FALSE, raw |-> <<>>]
\* What is left in a slot after use is never read.
FreeSlot == [used |-> FALSE, fd |-> 0, low |-> 0, high |-> 0]
Off == [low |-> 0, high |-> 0]
Idle == [fd |-> 0, fake |-> 0, room |-> 0]

LowestFree == CHOOSE fd \in Fds : /\ file[fd].kind = "closed"
                                 /\ \A g \in 0..(fd - 1) : file[g].kind # "closed"

Waiting(t) == reader[t].room > 0
Produced(t) == IF reader[t].room = 1 THEN [reader EXCEPT ![t] = Idle]
                                     ELSE [reader EXCEPT ![t].room = @ - 1]
Unread(fd) == \A t \in Threads : Waiting(t) => reader[t].fd # fd

-----------------------------------------------------------------------------
(* The table of fake descriptors. *)

\* The index of a descriptor in the table, 0 if it is not there.
tg_find_fake_fd(fd) ==
  LET found == {i \in 1..fake_count : fake_fds[i].fd = fd}
  IN IF found = {} THEN 0 ELSE CHOOSE i \in found : \A j \in found : i <= j

Faked(fd, joydev) ==
  tg_find_fake_fd(fd) # 0 /\ fake_fds[tg_find_fake_fd(fd)].joydev = joydev

\* Variant with a bug: the slot is not cleared.
tg_add_fake_fd_dirty(fd, joydev) ==
  IF tg_find_fake_fd(fd) # 0 \/ fake_count >= TG_MAX_FAKE_FDS
    THEN UNCHANGED table
    ELSE /\ fake_count' = fake_count + 1
         /\ fake_fds' = [fake_fds EXCEPT
              ![fake_count + 1] = [@ EXCEPT !.fd = fd, !.joydev = joydev,
                                            !.initializing = joydev]]

tg_add_fake_fd(fd, joydev) ==
  IF tg_find_fake_fd(fd) # 0 \/ fake_count >= TG_MAX_FAKE_FDS
    THEN UNCHANGED table
    ELSE /\ fake_count' = fake_count + 1
         /\ fake_fds' = [fake_fds EXCEPT
              ![fake_count + 1] = [Unused EXCEPT !.fd = fd, !.joydev = joydev,
                                                 !.initializing = joydev]]

\* Variant with a bug: the last entry stays in its old place, too.
tg_del_fake_fd_no_shrink(fd) ==
  LET i == tg_find_fake_fd(fd)
  IN /\ fake_fds' = IF i = 0 THEN fake_fds
                    ELSE [fake_fds EXCEPT ![i] = fake_fds[fake_count]]
     /\ UNCHANGED fake_count

\* The last entry takes the place; what is left behind keeps its bytes.
tg_del_fake_fd(fd) ==
  LET i == tg_find_fake_fd(fd)
  IN IF i = 0 THEN UNCHANGED table
     ELSE /\ fake_fds' = [fake_fds EXCEPT ![i] = fake_fds[fake_count]]
          /\ fake_count' = fake_count - 1

\* tg_connect_device and open: a connection, whose answer to the query has
\* come and whose snapshot follows.
Open(joydev, nonblock) ==
  /\ \E fd \in Fds : file[fd].kind = "closed"
  /\ file' = [file EXCEPT ![LowestFree] =
       [kind |-> IF joydev THEN "joy" ELSE "event", nonblock |-> joydev /\ nonblock,
        link |-> "up",
        chan |-> IF joydev THEN Halves(Batch(Controls, val, TRUE)) ELSE <<>>]]
  /\ tg_add_fake_fd(LowestFree, joydev)
  /\ UNCHANGED <<service, playing, effects, reader, seen, uploaded>>

\* Any other open of the process.
OpenOther ==
  /\ \E fd \in Fds : file[fd].kind = "closed"
  /\ file' = [file EXCEPT ![LowestFree] = Other]
  /\ UNCHANGED <<service, playing, table, effects, reader, seen, uploaded>>

-----------------------------------------------------------------------------
(* Effects. *)

Abs(v) == IF v < 0 THEN -v ELSE v

\* Variant with a bug: the most negative level is not clamped.
tg_scaled_abs_unclamped(v) == 2 * Abs(v)

tg_scaled_abs(v) == 2 * (IF Abs(v) > Half THEN Half ELSE Abs(v))

Larger(a, b) == IF a > b THEN a ELSE b

\* The strengths of an effect: constant and periodic effects are alike, and a
\* condition has the larger of its two coefficients and saturations per motor.
Strength(e) ==
  LET x == tg_scaled_abs(e.x)
      y == tg_scaled_abs(e.y)
  IN CASE e.type = "rumble"    -> [low |-> e.x, high |-> e.y]
       [] e.type = "constant"  -> [low |-> x, high |-> x]
       [] e.type = "ramp"      -> [low |-> Larger(x, y), high |-> Larger(x, y)]
       [] e.type = "condition" -> [low |-> x, high |-> y]

\* Variant with a bug: whose effect it is is not looked at.
tg_find_effect_any(fd, id) ==
  id \in 0..(TG_MAX_EFFECTS - 1) /\ effect_slots[id].used

tg_find_effect(fd, id) ==
  /\ id \in 0..(TG_MAX_EFFECTS - 1)
  /\ effect_slots[id].used /\ effect_slots[id].fd = fd

FreeIds == {id \in 0..(TG_MAX_EFFECTS - 1) : ~effect_slots[id].used}

\* The slot that an upload with the number asked goes to, if any.
UploadIds(fd, asked) ==
  IF asked = -1 THEN {id \in FreeIds : \A other \in FreeIds : id <= other}
  ELSE {id \in {asked} \intersect (0..(TG_MAX_EFFECTS - 1)) :
          effect_slots[id].used => effect_slots[id].fd = fd}

tg_upload_effect(fd, asked, e) ==
  /\ Faked(fd, FALSE)
  /\ \E id \in UploadIds(fd, asked) :
       effect_slots' = [effect_slots EXCEPT
         ![id] = [used |-> TRUE, fd |-> fd,
                  low |-> Strength(e).low, high |-> Strength(e).high]]
  /\ uploaded' = [uploaded EXCEPT ![fd] = @ \union {Strength(e)}]
  /\ UNCHANGED <<file, service, playing, table, ff_gain, reader, seen>>

tg_remove_effect(fd, id) ==
  /\ Faked(fd, FALSE) /\ tg_find_effect(fd, id)
  /\ effect_slots' = [effect_slots EXCEPT ![id] = FreeSlot]
  /\ UNCHANGED <<file, service, playing, table, ff_gain, reader, seen, uploaded>>

\* The message arrives, or the socket does not take it.
tg_send_control(fd, rumble) ==
  \/ /\ file[fd].link = "up"
     /\ playing' = [playing EXCEPT ![fd] = rumble]
     /\ UNCHANGED faults
  \/ /\ file[fd].link = "up" /\ faults < MaxFaults
     /\ faults' = faults + 1 /\ UNCHANGED playing
  \/ file[fd].link = "cut" /\ UNCHANGED <<playing, faults>>

Scaled(strength, gain) == [low  |-> (strength.low * gain) \div Full,
                           high |-> (strength.high * gain) \div Full]

\* write of one event; one of several events is several writes of one, up to
\* the first that fails.
WriteGain(fd, gain) ==
  /\ Faked(fd, FALSE)
  /\ ff_gain' = IF gain < 0 THEN 0 ELSE IF gain > Full THEN Full ELSE gain
  /\ UNCHANGED <<file, service, playing, table, effect_slots, reader, seen, uploaded>>

WriteStop(fd, id) ==
  /\ Faked(fd, FALSE) /\ tg_find_effect(fd, id)
  /\ tg_send_control(fd, Off)
  /\ UNCHANGED <<file, val, table, effects, reader, seen, uploaded>>

WritePlay(fd, id) ==
  /\ Faked(fd, FALSE) /\ tg_find_effect(fd, id)
  /\ tg_send_control(fd, Scaled([low |-> effect_slots[id].low,
                                 high |-> effect_slots[id].high], ff_gain))
  /\ UNCHANGED <<file, val, table, effects, reader, seen, uploaded>>

tg_clear_effects(fd) ==
  effect_slots' = [id \in DOMAIN effect_slots |->
                     IF effect_slots[id].used /\ effect_slots[id].fd = fd
                       THEN FreeSlot ELSE effect_slots[id]]

\* close.  What the stop does to the rumble, the end of the connection does,
\* too.  A program does not close a descriptor that it is reading.
Close(fd) ==
  /\ file[fd].kind # "closed"
  /\ Unread(fd)
  /\ IF Faked(fd, FALSE) THEN tg_clear_effects(fd) ELSE UNCHANGED effect_slots
  /\ tg_del_fake_fd(fd)
  /\ file' = [file EXCEPT ![fd] = NoFile]
  /\ playing' = [playing EXCEPT ![fd] = Off]
  /\ seen' = [seen EXCEPT ![fd] = Neutral]
  /\ uploaded' = [uploaded EXCEPT ![fd] = {}]
  /\ UNCHANGED <<service, ff_gain, reader>>

-----------------------------------------------------------------------------
(* Reading a joystick. *)

\* Variant with a bug: the snapshot is not passed on.
tg_convert_joy_event_late(t, i, message) ==
  LET fd == reader[t].fd
  IN IF message.type = "syn"
       THEN /\ fake_fds' = [fake_fds EXCEPT ![i].raw = <<>>,
                                            ![i].initializing = FALSE]
            /\ UNCHANGED <<reader, seen>>
       ELSE /\ fake_fds' = [fake_fds EXCEPT ![i].raw = <<>>]
            /\ IF fake_fds[i].initializing THEN UNCHANGED <<reader, seen>>
               ELSE /\ seen' = [seen EXCEPT ![fd][message.control] = message.value]
                    /\ reader' = Produced(t)

\* Variant with a bug: the first event ends the initialization.
tg_convert_joy_event_early(t, i, message) ==
  /\ fake_fds' = [fake_fds EXCEPT ![i].raw = <<>>, ![i].initializing = FALSE]
  /\ IF message.type = "syn" THEN UNCHANGED <<reader, seen>>
     ELSE /\ seen' = [seen EXCEPT ![reader[t].fd][message.control] = message.value]
          /\ reader' = Produced(t)

\* A whole event is in the entry: SYN_REPORT ends the initialization and
\* nothing else, anything else goes to the reader's buffer.
tg_convert_joy_event(t, i, message) ==
  IF message.type = "syn"
    THEN /\ fake_fds' = [fake_fds EXCEPT ![i].raw = <<>>,
                                         ![i].initializing = FALSE]
         /\ UNCHANGED <<reader, seen>>
    ELSE /\ fake_fds' = [fake_fds EXCEPT ![i].raw = <<>>]
         /\ seen' = [seen EXCEPT ![reader[t].fd][message.control] = message.value]
         /\ reader' = Produced(t)

\* read with room for n events; the pointer to the entry is taken here.
ReadStart(t, fd, n) ==
  /\ ~Waiting(t) /\ Unread(fd)
  /\ Faked(fd, TRUE)
  /\ reader' = [reader EXCEPT ![t] =
       [fd |-> fd, fake |-> tg_find_fake_fd(fd), room |-> n]]
  /\ UNCHANGED <<file, service, playing, table, effects, seen, uploaded>>

\* One read of the socket, and the event if it is whole.  The read returns
\* when there is no room left.
ReadReceive(t) ==
  /\ Waiting(t)
  /\ LET i    == reader[t].fake
         fd   == reader[t].fd
         raw  == fake_fds[i].raw
         chan == file[fd].chan
     IN \E n \in 1..(2 - Len(raw)) :
          /\ n <= Len(chan)
          /\ file' = [file EXCEPT ![fd].chan = SubSeq(chan, n + 1, Len(chan))]
          /\ LET bytes == raw \o SubSeq(chan, 1, n)
             IN IF Len(bytes) = 2
                  THEN tg_convert_joy_event(t, i, bytes[1].message)
                  ELSE /\ fake_fds' = [fake_fds EXCEPT ![i].raw = bytes]
                       /\ UNCHANGED <<reader, seen>>
  /\ UNCHANGED <<service, playing, fake_count, effects, uploaded>>

\* EAGAIN, or the end of the stream: the read returns with what it has.
ReadReturn(t) ==
  /\ Waiting(t)
  /\ LET f == file[reader[t].fd]
     IN f.nonblock \/ (f.link = "cut" /\ f.chan = <<>>)
  /\ file[reader[t].fd].link = "cut" => file[reader[t].fd].chan = <<>>
  /\ reader' = [reader EXCEPT ![t] = Idle]
  /\ UNCHANGED <<file, service, playing, table, effects, seen, uploaded>>

-----------------------------------------------------------------------------
(* The bridge. *)

\* A report for every joystick; one that has too much waiting is dropped, with
\* what the kernel has not taken.
Input ==
  /\ val' \in States \ {val}
  /\ LET report == Halves(Batch({c \in Controls : val'[c] # val[c]}, val', FALSE))
     IN \E n \in 0..MaxQueue :
          file' = [fd \in Fds |->
            LET f == file[fd]
            IN IF f.kind # "joy" \/ f.link # "up" THEN f
               ELSE IF Len(f.chan) + Len(report) <= MaxQueue
                 THEN [f EXCEPT !.chan = @ \o report]
                 ELSE [f EXCEPT !.link = "cut",
                                !.chan = SubSeq(@, 1, IF n < Len(@) THEN n ELSE Len(@))]]
  /\ UNCHANGED <<faults, playing, table, effects, reader, seen, uploaded>>

\* The bridge closes a connection, with part of what it has sent.
Cut(fd) ==
  /\ file[fd].link = "up" /\ faults < MaxFaults
  /\ faults' = faults + 1
  /\ \E n \in 0..Len(file[fd].chan) :
       file' = [file EXCEPT ![fd].link = "cut", ![fd].chan = SubSeq(@, 1, n)]
  /\ playing' = [playing EXCEPT ![fd] = Off]
  /\ UNCHANGED <<val, table, effects, reader, seen, uploaded>>

\* A rumble is over.
Expire(fd) ==
  /\ playing[fd] # Off
  /\ playing' = [playing EXCEPT ![fd] = Off]
  /\ UNCHANGED <<file, service, table, effects, reader, seen, uploaded>>

-----------------------------------------------------------------------------

Init ==
  /\ file = [fd \in Fds |-> NoFile]
  /\ val \in States /\ faults = 0
  /\ playing = [fd \in Fds |-> Off]
  /\ fake_fds = [i \in 1..TG_MAX_FAKE_FDS |-> Unused] /\ fake_count = 0
  /\ effect_slots = [id \in 0..(TG_MAX_EFFECTS - 1) |-> FreeSlot]
  /\ ff_gain = Full
  /\ reader = [t \in Threads |-> Idle]
  /\ seen = [fd \in Fds |-> Neutral]
  /\ uploaded = [fd \in Fds |-> {}]

\* The calls of a thread that is not in a read.
Call(t) ==
  /\ ~Waiting(t)
  /\ \/ \E joydev, nonblock \in BOOLEAN : Open(joydev, nonblock)
     \/ OpenOther
     \/ \E fd \in Fds :
          \/ Close(fd)
          \/ \E asked \in -1..TG_MAX_EFFECTS, e \in Effects :
               tg_upload_effect(fd, asked, e)
          \/ \E id \in 0..TG_MAX_EFFECTS :
               tg_remove_effect(fd, id) \/ WriteStop(fd, id) \/ WritePlay(fd, id)
          \/ \E gain \in Gains : WriteGain(fd, gain)
          \/ \E n \in 1..2 : ReadStart(t, fd, n)

Next ==
  \/ \E t \in Threads : Call(t) \/ ReadReceive(t) \/ ReadReturn(t)
  \/ Input
  \/ \E fd \in Fds : Cut(fd) \/ Expire(fd)

Spec == Init /\ [][Next]_vars

-----------------------------------------------------------------------------
(* Properties. *)

Strengths == [low : 0..Full, high : 0..Full]

Messages ==
  [type : {"event"}, control : Controls, value : Values, snapshot : BOOLEAN]
    \union [type : {"syn"}, snapshot : BOOLEAN]

Bytes == Seq([message : Messages, half : {1, 2}])

\* Every variable holds a value of its type; strengths and gain stay in 16
\* bits (tg_scaled_abs and write, src/evdev_preload.c:321-325, 617-627).
TypeOK ==
  /\ file \in [Fds -> [kind : {"closed", "other", "event", "joy"},
                       nonblock : BOOLEAN, link : {"closed", "up", "cut"},
                       chan : Bytes]]
  /\ val \in States /\ faults \in 0..MaxFaults
  /\ playing \in [Fds -> Strengths]
  /\ fake_count \in 0..TG_MAX_FAKE_FDS
  /\ fake_fds \in [1..TG_MAX_FAKE_FDS ->
                   [fd : Fds, joydev : BOOLEAN, initializing : BOOLEAN, raw : Bytes]]
  /\ effect_slots \in [0..(TG_MAX_EFFECTS - 1) ->
                       [used : BOOLEAN, fd : Fds, low : 0..Full, high : 0..Full]]
  /\ ff_gain \in 0..Full
  /\ reader \in [Threads -> [fd : Fds, fake : 0..TG_MAX_FAKE_FDS, room : 0..2]]
  /\ seen \in [Fds -> States] /\ uploaded \in [Fds -> SUBSET Strengths]

\* The shim acts only for descriptors that are connections to the bridge: the
\* table names open ones, each once and for what it is, and every effect
\* belongs to one of them, however numbers are used again: "Other paths and
\* file descriptors are passed through unchanged" (README.md:16-17; tg_add_fake_fd,
\* tg_del_fake_fd and close, src/evdev_preload.c:164-178, 667-678).
FakeIsDevice ==
  /\ \A i \in 1..fake_count :
       LET f == fake_fds[i]
       IN /\ file[f.fd].kind = IF f.joydev THEN "joy" ELSE "event"
          /\ \A j \in 1..fake_count : fake_fds[j].fd = f.fd => i = j
  /\ \A id \in DOMAIN effect_slots :
       effect_slots[id].used => Faked(effect_slots[id].fd, FALSE)

\* What a connection's motors play was uploaded through that descriptor since
\* it was opened, at some gain: never an effect of another one, or of an
\* earlier one with the same number (tg_find_effect and tg_clear_effects,
\* src/evdev_preload.c:314-319, 404-409).
OwnEffectsOnly ==
  \A fd \in Fds : playing[fd] # Off =>
    \E strength \in uploaded[fd], gain \in 0..Full :
      playing[fd] = Scaled(strength, gain)

\* The bytes in an entry and those on their way to its descriptor.
Stream(i) == fake_fds[i].raw \o file[fake_fds[i].fd].chan

Joysticks == {i \in 1..fake_count : fake_fds[i].joydev}

\* Between reads: part of an event that one read has left behind is what the
\* next one of that joystick goes on from, whatever is opened and closed meanwhile
\* (raw_used, src/evdev_preload.c:57, 175-177, 587-595).
JoyFramed ==
  \A i \in Joysticks : Unread(fake_fds[i].fd) => \A k \in 1..Len(Stream(i)) :
    /\ Stream(i)[k].half = IF k % 2 = 1 THEN 1 ELSE 2
    /\ k % 2 = 0 => Stream(i)[k].message = Stream(i)[k - 1].message

\* The state after everything in a stream.
Drained(st, stream) ==
  [c \in Controls |->
     LET ends == {k \in 1..Len(stream) : /\ stream[k].half = 2
                                         /\ stream[k].message.type = "event"
                                         /\ stream[k].message.control = c}
     IN IF ends = {} THEN st[c]
        ELSE stream[CHOOSE k \in ends : \A j \in ends : j <= k].message.value]

\* A joystick's reader has been told, or will be, the state of the controller:
\* no event is lost between two reads, or between the snapshot and the first
\* report (read, src/evdev_preload.c:563-602).
JoyCatchesUp ==
  \A i \in Joysticks : LET fd == fake_fds[i].fd
                       IN file[fd].link = "up" => Drained(seen[fd], Stream(i)) = val

\* Events carry JS_EVENT_INIT as long as the snapshot's SYN_REPORT is still to
\* come, and none after it (initializing, src/evdev_preload.c:172, 541, 559).
InitMarksSnapshot ==
  \A i \in Joysticks : file[fake_fds[i].fd].link = "up" =>
    (fake_fds[i].initializing <=>
       \E k \in 1..Len(Stream(i)) : Stream(i)[k].message = Syn(TRUE))
=============================================================================
