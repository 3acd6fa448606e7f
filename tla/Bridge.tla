-------------------------------- MODULE Bridge --------------------------------
(***************************************************************************)
(* termux-gamepad-evdev-bridge (src/src/lorie_evdev_bridge.c): one thread  *)
(* that polls the X connection, a listening socket and up to MAX_CLIENTS   *)
(* client sockets.  It turns XI2 events into evdev reports for the clients *)
(* that asked for the stream, tells monitors when the controller comes and *)
(* goes, and drives the controller's motors for all of them.               *)
(*                                                                         *)
(* The X server, the kernel's sockets and the clients are the environment; *)
(* it acts between any two steps of the bridge.                            *)
(***************************************************************************)
EXTENDS XiInput, FiniteSets, Sequences

CONSTANTS
  MaxClients,       \* MAX_CLIENTS
  BufferSize,       \* CLIENT_BUFFER_SIZE, in messages the kernel did not take
  RecvMax,          \* control messages one recv of 256 bytes can return
  DefaultDuration,  \* ticks a rumble of duration 0 lasts (2500 ms)
  MaxDuration,      \* the largest duration_ms a message can carry (32 bits)
  Conns, NoConn,    \* client connections; a free slot's connection
  Commands,         \* the control messages each connection may send
  DeviceIds,        \* XI2 ids the X server gives the controller
  Profiles,         \* capabilities, mode, vendor, product and name in one
  RumbleProfiles,   \* the profiles with LORIE_CONTROLLER_CAP_RUMBLE
  DeviceEvents,     \* the XI2 events a controller may produce
  MaxXQueue,        \* bound: X events waiting at the same time
  MaxInbox,         \* bound: control messages waiting on one connection
  MayStop           \* whether SIGINT or SIGTERM may arrive

Levels == 0..65535   \* unsigned short
Ticks == 0..MaxDuration

IsRumble(m) ==
  /\ m.command = "rumble"
  /\ m.low \in Levels /\ m.high \in Levels /\ m.duration \in Ticks

ASSUME BridgeAssumption ==
  /\ MaxClients \in Nat \ {0} /\ BufferSize \in Nat \ {0}
  /\ RecvMax \in Nat \ {0}
  /\ MaxDuration \in Nat /\ DefaultDuration \in Ticks
  /\ NoConn \notin Conns
  /\ \A c \in Conns : \A m \in Commands[c] :
       IsRumble(m) \/ m.command \in {"stop", "query", "monitor", "invalid"}
  /\ DeviceIds \subseteq Nat /\ RumbleProfiles \subseteq Profiles
  /\ \A e \in DeviceEvents : IsXiEvent(e)
  /\ MaxXQueue \in Nat /\ MaxInbox \in Nat /\ MayStop \in BOOLEAN

Slots == 0..(MaxClients - 1)
Kinds == {"uninitialized", "events", "monitor"}

\* lorie_device_id and what is known of the device; id -1 is no device.
Devices == [id : DeviceIds, profile : Profiles]
NoDevice == [id |-> -1]
Present(dev) == dev # NoDevice

Quiet == [low |-> 0, high |-> 0]
MotorOff == [low |-> 0, high |-> 0, ttl |-> 0]

FreeSlot == [conn |-> NoConn, kind |-> "uninitialized", used |-> 0,
             low |-> 0, high |-> 0, ttl |-> 0]

\* What a connection's stream says so far: the values of its evdev reports,
\* whether they began with a snapshot of the device that is present now, and
\* the device of the last hotplug message.
NoNews == [id |-> -2]
NothingTold == [view |-> {}, live |-> FALSE, news |-> NoNews]

Hierarchy == [type |-> "hierarchy"]

VARIABLES
  \* The X server (external).
  xdev,       \* the controller it has
  xqueue,     \* events on their way to the bridge, Xlib's queue included
  selected,   \* ids whose device events the bridge selected
  x_error,    \* an error reply that Xlib's default handler will exit on
  motor,      \* the controller's motors: levels and ticks left
  \* The kernel and the clients (external).
  open,       \* connections whose client end is open
  backlog,    \* connections waiting for accept
  inbox,      \* control messages waiting to be received
  \* The bridge.
  running,    \* cleared by the signal handler
  pc,         \* where the main loop is
  revents,    \* what poll returned
  cursor,     \* the slot the serving loop is at
  control,    \* messages recv returned that are not yet handled
  adding,     \* the device refresh_lorie_device found and has yet to add
  clients,    \* the client table
  state,      \* struct gamepad_state
  device,     \* lorie_device_id, lorie_capabilities and device_descriptor
  active,     \* active_rumble_low and active_rumble_high
  \* History, read by the properties and by nothing else.
  told,       \* what each slot's stream says
  fresh       \* slots filled since the last poll

xvars      == <<xdev, xqueue, selected, x_error>>
table      == <<clients, open, inbox, active, motor, told>>
loop       == <<pc, revents, cursor, control, adding>>
vars == <<xvars, motor, open, backlog, inbox, running, loop, clients, state,
          device, active, told, fresh>>

-----------------------------------------------------------------------------
(* Rumble. *)

Rumbling(c) == c.low > 0 \/ c.high > 0

Highest(S) == CHOOSE x \in S \union {0} : \A y \in S \union {0} : y <= x

\* Clients whose rumble has run out lose it; the others keep theirs.
Expired(cl) ==
  [s \in Slots |-> IF cl[s].ttl = 0 THEN [cl[s] EXCEPT !.low = 0, !.high = 0]
                                    ELSE cl[s]]

Demand(cl) == [low  |-> Highest({cl[s].low : s \in Slots}),
               high |-> Highest({cl[s].high : s \in Slots})]

LongestRemaining(cl) == Highest({cl[s].ttl : s \in {s \in Slots : Rumbling(cl[s])}})

\* send_lorie_rumble: nothing without a device that can rumble; a request for
\* a device the server no longer has is an error that handle_x_error ignores.
CanSend(dev) == Present(dev) /\ dev.profile \in RumbleProfiles
Reaches(dev) ==
  CanSend(dev) /\ Present(xdev) /\ xdev.id = dev.id
               /\ xdev.profile \in RumbleProfiles

send_lorie_rumble(dev, level, duration) ==
  IF ~Reaches(dev) THEN motor
  ELSE IF level = Quiet THEN MotorOff
  ELSE [low |-> level.low, high |-> level.high, ttl |-> duration]

\* Variant with a bug: nothing is sent while the level stays the same.
update_rumble_unforced(dev, cl, force) ==
  LET left  == Expired(cl)
      level == Demand(left)
  IN /\ clients' = left
     /\ active' = level
     /\ motor' = IF level = active THEN motor
                 ELSE send_lorie_rumble(dev, level, LongestRemaining(left))

update_rumble(dev, cl, force) ==
  LET left  == Expired(cl)
      level == Demand(left)
  IN /\ clients' = left
     /\ active' = level
     /\ motor' = IF level = Quiet
                 THEN IF active # Quiet THEN send_lorie_rumble(dev, Quiet, 0)
                                        ELSE motor
                 ELSE IF force \/ level # active
                 THEN send_lorie_rumble(dev, level, LongestRemaining(left))
                 ELSE motor

-----------------------------------------------------------------------------
(* Sockets. *)

Dropped == -1     \* queue_bytes or flush_client failed

\* The kernel takes any part of what is queued, and nothing once the client is
\* gone (EPIPE).
flush_client(c, used) ==
  IF used = 0 THEN {0} ELSE IF c \in open THEN 0..used ELSE {Dropped}

\* Variants with a bug: one message too many, or one too few, fits.
queue_bytes_above(c, used) ==
  IF used > BufferSize THEN {Dropped} ELSE flush_client(c, used + 1)

queue_bytes_below(c, used) ==
  IF used + 1 >= BufferSize THEN {Dropped} ELSE flush_client(c, used + 1)

\* The check for room is made before the kernel is offered anything.
queue_bytes(c, used) ==
  IF used + 1 > BufferSize THEN {Dropped} ELSE flush_client(c, used + 1)

\* Variant with a bug: the rumble of a closed client is not taken back.
close_clients_keep_rumble(dev, cl, dropped, heard) ==
  LET conns == {cl[s].conn : s \in dropped}
  IN /\ open' = open \ conns
     /\ inbox' = [c \in Conns |-> IF c \in conns THEN <<>> ELSE inbox[c]]
     /\ told' = [s \in Slots |-> IF s \in dropped THEN NothingTold ELSE heard[s]]
     /\ clients' = [s \in Slots |-> IF s \in dropped THEN FreeSlot ELSE cl[s]]
     /\ UNCHANGED <<active, motor>>

\* Closing a connection frees its slot and ends it for the client too.
\* Several closed in one loop are one update: each forced update_rumble
\* overrides the one before it.
close_clients(dev, cl, dropped, heard) ==
  LET conns == {cl[s].conn : s \in dropped}
      kept  == [s \in Slots |-> IF s \in dropped THEN FreeSlot ELSE cl[s]]
  IN /\ open' = open \ conns
     /\ inbox' = [c \in Conns |-> IF c \in conns THEN <<>> ELSE inbox[c]]
     /\ told' = [s \in Slots |-> IF s \in dropped THEN NothingTold ELSE heard[s]]
     /\ IF \E s \in dropped : Rumbling(cl[s])
        THEN update_rumble(dev, kept, TRUE)
        ELSE clients' = kept /\ UNCHANGED <<active, motor>>

\* One message for every client of a kind; a client it does not fit is closed.
broadcast(dev, kind, heard) ==
  LET targets == {s \in Slots : clients[s].kind = kind} IN
  \E sent \in [targets -> Dropped..BufferSize] :
    /\ \A s \in targets : sent[s] \in queue_bytes(clients[s].conn, clients[s].used)
    /\ close_clients(dev,
         [s \in Slots |-> IF s \in targets
                          THEN [clients[s] EXCEPT !.used = sent[s]]
                          ELSE clients[s]],
         {s \in targets : sent[s] = Dropped},
         heard)

Hears(kind, Upd(_)) ==
  [s \in Slots |-> IF clients[s].kind = kind THEN Upd(told[s]) ELSE told[s]]

-----------------------------------------------------------------------------
(* The main loop: poll. *)

Goto(label) == pc' = label

NoRevents == [server |-> FALSE, slot |-> [s \in Slots |-> {}]]

\* What poll may say of a slot.  POLLOUT is asked for while output waits.
SlotRevents(s) ==
  LET c == clients[s].conn
      in  == IF c # NoConn /\ (inbox[c] # <<>> \/ c \notin open) THEN {"IN"} ELSE {}
      hup == IF c # NoConn /\ c \notin open THEN {"HUP"} ELSE {}
      out == IF clients[s].used > 0 THEN {{}, {"OUT"}} ELSE {{}}
  IN {in \union hup \union o : o \in out}

\* Variant with a bug: new clients are not polled for while the table is full.
Poll_when_room ==
  /\ pc = "poll" /\ running
  /\ \E slot \in [Slots -> SUBSET {"IN", "OUT", "HUP"}] :
       /\ \A s \in Slots : slot[s] \in SlotRevents(s)
       /\ revents' = [server |-> backlog # <<>> /\ \E s \in Slots : clients[s].conn = NoConn,
                      slot |-> slot]
  /\ fresh' = {}
  /\ \/ xqueue # <<>> /\ Goto("pump1")
     \/ Goto("accept")
  /\ UNCHANGED <<xvars, table, backlog, running, cursor, control, adding,
                 state, device>>

\* The X connection may be silent while Xlib's own queue is not empty.
Poll ==
  /\ pc = "poll" /\ running
  /\ \E slot \in [Slots -> SUBSET {"IN", "OUT", "HUP"}] :
       /\ \A s \in Slots : slot[s] \in SlotRevents(s)
       /\ revents' = [server |-> backlog # <<>>, slot |-> slot]
  /\ fresh' = {}
  /\ \/ xqueue # <<>> /\ Goto("pump1")
     \/ Goto("accept")
  /\ UNCHANGED <<xvars, table, backlog, running, cursor, control, adding,
                 state, device>>

-----------------------------------------------------------------------------
(* The main loop: pump_x_events, called before and after the clients. *)

Pumping == pc \in {"pump1", "pump2"} /\ adding = NoDevice

\* process_xi_event
PumpDeviceEvent ==
  /\ Pumping /\ xqueue # <<>> /\ Head(xqueue) # Hierarchy
  /\ xqueue' = Tail(xqueue)
  /\ LET e == Head(xqueue) IN
     IF Present(device) /\ e.id = device.id
     THEN LET report == Report(state, e.event)
              hears(t) == [t EXCEPT !.view = Told(@, report)]
          IN /\ state' = After(state, e.event)
             /\ IF report # {}
                THEN broadcast(device, "events", Hears("events", hears))
                ELSE UNCHANGED table
     ELSE UNCHANGED <<state, table>>
  /\ UNCHANGED <<xdev, selected, x_error, backlog, running, loop, device, fresh>>

\* The first half of refresh_lorie_device: query the devices, forget the old
\* one and tell the monitors.  The query is a round trip: an error that was on
\* its way has arrived (and ended the process) before it returns.
PumpHierarchy ==
  /\ Pumping /\ xqueue # <<>> /\ Head(xqueue) = Hierarchy /\ ~x_error
  /\ xqueue' = Tail(xqueue)
  /\ IF xdev = device
     THEN UNCHANGED <<table, adding, state, device>>
     ELSE /\ adding' = xdev
          /\ device' = NoDevice
          /\ IF Present(device)
             THEN LET removed(t) == [t EXCEPT !.news = NoDevice]
                      hear == Hears("monitor", removed)
                  IN /\ state' = ZeroState
                     /\ broadcast(NoDevice, "monitor",
                          [s \in Slots |-> [hear[s] EXCEPT !.live = FALSE]])
             ELSE UNCHANGED <<table, state>>
  /\ UNCHANGED <<xdev, selected, x_error, backlog, running, pc, revents,
                 cursor, control, fresh>>

\* Variant with a bug: monitors are only told of the removal.
AddDevice_silent ==
  /\ pc \in {"pump1", "pump2"} /\ adding # NoDevice
  /\ IF Present(xdev) /\ xdev.id = adding.id
     THEN selected' = selected \union {adding.id} /\ UNCHANGED x_error
     ELSE x_error' = TRUE /\ UNCHANGED selected
  /\ device' = adding
  /\ adding' = NoDevice
  /\ UNCHANGED <<xdev, xqueue, table, backlog, running, pc, revents, cursor,
                 control, state, fresh>>

\* The second half: select the new device's events and tell the monitors.  If
\* the device went away since the query, the server answers with an error.
AddDevice ==
  /\ pc \in {"pump1", "pump2"} /\ adding # NoDevice
  /\ IF Present(xdev) /\ xdev.id = adding.id
     THEN selected' = selected \union {adding.id} /\ UNCHANGED x_error
     ELSE x_error' = TRUE /\ UNCHANGED selected
  /\ device' = adding
  /\ adding' = NoDevice
  /\ LET added(t) == [t EXCEPT !.news = adding]
     IN broadcast(adding, "monitor", Hears("monitor", added))
  /\ UNCHANGED <<xdev, xqueue, backlog, running, pc, revents, cursor, control,
                 state, fresh>>

PumpDone ==
  /\ Pumping /\ xqueue = <<>>
  /\ Goto(IF pc = "pump1" THEN "accept" ELSE "tick")
  /\ UNCHANGED <<xvars, table, backlog, running, revents, cursor, control,
                 adding, state, device, fresh>>

\* Xlib meets the error reply: the default handler ends the process and the
\* kernel closes its sockets.
XErrorExit ==
  /\ x_error /\ Pumping
  /\ Goto("stopped")
  /\ x_error' = FALSE
  /\ clients' = [s \in Slots |-> FreeSlot]
  /\ told' = [s \in Slots |-> NothingTold]
  /\ open' = {} /\ backlog' = <<>> /\ inbox' = [c \in Conns |-> <<>>]
  /\ revents' = NoRevents /\ active' = Quiet /\ fresh' = {}
  /\ UNCHANGED <<xdev, xqueue, selected, motor, running, cursor, control,
                 adding, state, device>>

-----------------------------------------------------------------------------
(* The main loop: accept_clients. *)

FreeSlots == {s \in Slots : clients[s].conn = NoConn}

\* Variant with a bug: a new client hears reports before it asks for them.
AcceptOne_unasked ==
  /\ pc = "accept" /\ revents.server /\ backlog # <<>>
  /\ backlog' = Tail(backlog)
  /\ LET c == Head(backlog) IN
     IF FreeSlots # {}
     THEN LET s == CHOOSE s \in FreeSlots : \A t \in FreeSlots : s <= t
          IN /\ clients' = [clients EXCEPT ![s] =
                              [FreeSlot EXCEPT !.conn = c, !.kind = "events"]]
             /\ fresh' = fresh \union {s}
             /\ UNCHANGED <<open, inbox>>
     ELSE /\ open' = open \ {c}
          /\ inbox' = [inbox EXCEPT ![c] = <<>>]
          /\ UNCHANGED <<clients, fresh>>
  /\ UNCHANGED <<xvars, motor, active, told, running, loop, state, device>>

\* accept_clients fills the first free slot, or closes the connection.
AcceptOne ==
  /\ pc = "accept" /\ revents.server /\ backlog # <<>>
  /\ backlog' = Tail(backlog)
  /\ LET c == Head(backlog) IN
     IF FreeSlots # {}
     THEN LET s == CHOOSE s \in FreeSlots : \A t \in FreeSlots : s <= t
          IN /\ clients' = [clients EXCEPT ![s] = [FreeSlot EXCEPT !.conn = c]]
             /\ fresh' = fresh \union {s}
             /\ UNCHANGED <<open, inbox>>
     ELSE /\ open' = open \ {c}
          /\ inbox' = [inbox EXCEPT ![c] = <<>>]
          /\ UNCHANGED <<clients, fresh>>
  /\ UNCHANGED <<xvars, motor, active, told, running, loop, state, device>>

AcceptDone ==
  /\ pc = "accept" /\ (revents.server => backlog = <<>>)
  /\ Goto("serve") /\ cursor' = 0
  /\ UNCHANGED <<xvars, table, backlog, running, revents, control, adding,
                 state, device, fresh>>

-----------------------------------------------------------------------------
(* The main loop: serve the clients poll reported. *)

\* Variant with a bug: no second pump after the clients.
NextSlot_one_pump ==
  /\ revents' = [revents EXCEPT !.slot[cursor] = {}]
  /\ control' = <<>>
  /\ IF cursor + 1 \in Slots THEN cursor' = cursor + 1 /\ UNCHANGED pc
                             ELSE cursor' = 0 /\ Goto("tick")

\* Variant with a bug: one client that sent something is enough for a round.
NextSlot_one_sender ==
  /\ revents' = [revents EXCEPT !.slot[cursor] = {}]
  /\ control' = <<>>
  /\ IF cursor + 1 \in Slots /\ "IN" \notin revents.slot[cursor]
     THEN cursor' = cursor + 1 /\ UNCHANGED pc
     ELSE cursor' = 0 /\ Goto("pump2")

\* On to the next slot; its revents are of no use any more.
NextSlot ==
  /\ revents' = [revents EXCEPT !.slot[cursor] = {}]
  /\ control' = <<>>
  /\ IF cursor + 1 \in Slots THEN cursor' = cursor + 1 /\ UNCHANGED pc
                             ELSE cursor' = 0 /\ Goto("pump2")

Close(s) == close_clients(device, clients, {s}, told)

\* flush_client failed, POLLHUP, end of file, or nothing to do.
Serve ==
  /\ pc = "serve" /\ control = <<>>
  /\ LET s == cursor
         c == clients[s].conn
         r == revents.slot[s]
     IN IF c = NoConn THEN NextSlot /\ UNCHANGED table
        ELSE \E used \in IF "OUT" \in r THEN flush_client(c, clients[s].used)
                                        ELSE {clients[s].used} :
          LET flushed == [clients EXCEPT ![s].used = used] IN
          IF \/ used = Dropped
             \/ "HUP" \in r
             \/ "IN" \in r /\ inbox[c] = <<>> /\ c \notin open
          THEN Close(s) /\ NextSlot
          ELSE /\ clients' = flushed
               /\ IF "IN" \in r /\ inbox[c] # <<>>
                  THEN LET n == IF Len(inbox[c]) < RecvMax THEN Len(inbox[c])
                                                           ELSE RecvMax
                       IN /\ control' = SubSeq(inbox[c], 1, n)
                          /\ inbox' = [inbox EXCEPT ![c] =
                                         SubSeq(@, n + 1, Len(@))]
                          /\ UNCHANGED <<pc, revents, cursor>>
                  ELSE NextSlot /\ UNCHANGED inbox
               /\ UNCHANGED <<open, active, motor, told>>
  /\ UNCHANGED <<xvars, backlog, running, adding, state, device, fresh>>

-----------------------------------------------------------------------------
(* receive_control_messages, one message at a time. *)

HandleRumble(s, m) ==
  /\ update_rumble(device,
       [clients EXCEPT ![s].low = m.low, ![s].high = m.high,
          ![s].ttl = IF m.duration = 0 THEN DefaultDuration ELSE m.duration],
       TRUE)
  /\ UNCHANGED <<open, inbox, told>>

HandleStop(s) ==
  /\ update_rumble(device,
       [clients EXCEPT ![s].low = 0, ![s].high = 0, ![s].ttl = 0], TRUE)
  /\ UNCHANGED <<open, inbox, told>>

\* Register the client for a kind, and queue the answer: `messages` in a row.
Answer(s, kind, messages, hears) ==
  LET c == clients[s].conn
      first  == queue_bytes(c, clients[s].used)
      second == UNION {IF u = Dropped THEN {Dropped} ELSE queue_bytes(c, u) :
                         u \in first}
  IN \E used \in IF messages = 2 THEN second ELSE first :
       close_clients(device,
         [clients EXCEPT ![s].kind = kind, ![s].used = used],
         IF used = Dropped THEN {s} ELSE {},
         [told EXCEPT ![s] = hears])

\* The descriptor, and send_snapshot if there is a device.
HandleQuery(s) ==
  IF Present(device)
  THEN Answer(s, "events", 2,
         [told[s] EXCEPT !.view = Told(@, Snapshot(state)), !.live = TRUE])
  ELSE Answer(s, "events", 1, [told[s] EXCEPT !.live = FALSE])

HandleMonitor(s) ==
  Answer(s, "monitor", 1, [told[s] EXCEPT !.live = FALSE, !.news = device])

\* A message of the connection at the cursor.  A client that is closed while
\* it is handled loses the rest.
Handle ==
  /\ pc = "serve" /\ control # <<>>
  /\ LET s == cursor
         m == Head(control)
     IN /\ \/ m.command = "rumble"  /\ HandleRumble(s, m)
           \/ m.command = "stop"    /\ HandleStop(s)
           \/ m.command = "query"   /\ HandleQuery(s)
           \/ m.command = "monitor" /\ HandleMonitor(s)
           \/ m.command = "invalid" /\ Close(s)
        /\ IF Tail(control) = <<>> \/ clients'[s].conn = NoConn
           THEN NextSlot
           ELSE control' = Tail(control) /\ UNCHANGED <<pc, revents, cursor>>
  /\ UNCHANGED <<xvars, backlog, running, adding, state, device, fresh>>

-----------------------------------------------------------------------------
(* The main loop: the end of a round, and the end of the process. *)

Tick ==
  /\ pc = "tick"
  /\ update_rumble(device, clients, FALSE)
  /\ Goto("poll") /\ revents' = NoRevents
  /\ UNCHANGED <<xvars, open, backlog, inbox, told, running, cursor, control,
                 adding, state, device, fresh>>

\* The loop ends: stop the motors, then close the clients one after the other.
\* Only these two statements touch the motors: active_rumble is not reset.
Shutdown ==
  /\ pc = "poll" /\ ~running
  /\ motor' = send_lorie_rumble(device, Quiet, 0)
  /\ Goto("closing") /\ cursor' = 0
  /\ UNCHANGED <<xvars, open, backlog, inbox, running, revents, control, adding,
                 clients, state, device, active, told, fresh>>

CloseNext ==
  /\ pc = "closing" /\ cursor \in Slots
  /\ Close(cursor)
  /\ cursor' = cursor + 1
  /\ UNCHANGED <<xvars, backlog, running, pc, revents, control, adding, state,
                 device, fresh>>

\* Variant with a bug: the last client is not closed.
Stop_early ==
  /\ pc = "closing" /\ cursor + 1 \notin Slots
  /\ Goto("stopped") /\ cursor' = 0
  /\ backlog' = <<>> /\ open' = {} /\ inbox' = [c \in Conns |-> <<>>]
  /\ UNCHANGED <<xvars, motor, running, revents, control, adding, clients,
                 state, device, active, told, fresh>>

Stop ==
  /\ pc = "closing" /\ cursor \notin Slots
  /\ Goto("stopped") /\ cursor' = 0
  /\ backlog' = <<>> /\ open' = {} /\ inbox' = [c \in Conns |-> <<>>]
  /\ UNCHANGED <<xvars, motor, running, revents, control, adding, clients,
                 state, device, active, told, fresh>>

BridgeStep ==
  \/ Poll \/ PumpDeviceEvent \/ PumpHierarchy \/ AddDevice \/ PumpDone
  \/ XErrorExit \/ AcceptOne \/ AcceptDone \/ Serve \/ Handle
  \/ Tick \/ Shutdown \/ CloseNext \/ Stop

-----------------------------------------------------------------------------
(* The environment. *)

BridgeSide == <<running, loop, clients, state, device, active, told, fresh>>

InSlot(c) == \E s \in Slots : clients[s].conn = c
Waiting(c) == \E i \in DOMAIN backlog : backlog[i] = c

\* listen(fd, MAX_CLIENTS)
Connect(c) ==
  /\ Len(backlog) < MaxClients
  /\ c \notin open /\ ~InSlot(c) /\ ~Waiting(c)
  /\ open' = open \union {c}
  /\ backlog' = Append(backlog, c)
  /\ UNCHANGED <<xvars, motor, inbox, BridgeSide>>

Send(c) ==
  /\ c \in open /\ Len(inbox[c]) < MaxInbox
  /\ \E m \in Commands[c] : inbox' = [inbox EXCEPT ![c] = Append(@, m)]
  /\ UNCHANGED <<xvars, motor, open, backlog, BridgeSide>>

\* What was sent before stays to be received.
Hangup(c) ==
  /\ c \in open
  /\ open' = open \ {c}
  /\ UNCHANGED <<xvars, motor, backlog, inbox, BridgeSide>>

\* The controller comes, goes, is replaced or changes its mode.  A device that
\* goes takes its running effect with it; a server may or may not forget what
\* was selected on it.
XHotplug ==
  /\ Len(xqueue) < MaxXQueue
  /\ \E dev \in Devices \union {NoDevice} :
       /\ dev # xdev
       /\ xdev' = dev
       /\ IF Present(dev) /\ Present(xdev) /\ dev.id = xdev.id
          THEN /\ motor' \in IF dev.profile \in RumbleProfiles
                             THEN {motor, MotorOff} ELSE {MotorOff}
               /\ UNCHANGED selected
          ELSE /\ motor' = MotorOff
               /\ selected' \in {selected, selected \ {xdev.id}}
  /\ xqueue' = Append(xqueue, Hierarchy)
  /\ UNCHANGED <<x_error, open, backlog, inbox, BridgeSide>>

XInput ==
  /\ Present(xdev) /\ xdev.id \in selected /\ Len(xqueue) < MaxXQueue
  /\ \E e \in DeviceEvents :
       xqueue' = Append(xqueue, [type |-> "device", id |-> xdev.id, event |-> e])
  /\ UNCHANGED <<xdev, selected, x_error, motor, open, backlog, inbox, BridgeSide>>

Less(ttl) == IF ttl > 0 THEN ttl - 1 ELSE 0

\* One tick for every clock.  The motors' effect ends by itself.
TimePasses ==
  /\ motor.ttl > 0 \/ \E s \in Slots : clients[s].ttl > 0
  /\ motor' = IF motor.ttl > 1 THEN [motor EXCEPT !.ttl = @ - 1] ELSE MotorOff
  /\ clients' = [s \in Slots |-> [clients[s] EXCEPT !.ttl = Less(@)]]
  /\ UNCHANGED <<xvars, open, backlog, inbox, running, loop, state, device,
                 active, told, fresh>>

\* handle_signal
Signal ==
  /\ MayStop /\ running /\ pc # "closing"
  /\ running' = FALSE
  /\ UNCHANGED <<xvars, motor, open, backlog, inbox, loop, clients, state,
                 device, active, told, fresh>>

\* Once the process is gone only the motors are still of interest.
Environment ==
  \/ TimePasses
  \/ /\ pc # "stopped"
     /\ \/ \E c \in Conns : Connect(c) \/ Send(c) \/ Hangup(c)
        \/ XHotplug \/ XInput \/ Signal

Terminated == pc = "stopped" /\ UNCHANGED vars

-----------------------------------------------------------------------------
\* main has found the controller, if there is one, and listens.
Init ==
  /\ xdev \in Devices \union {NoDevice}
  /\ device = xdev
  /\ selected = IF Present(xdev) THEN {xdev.id} ELSE {}
  /\ xqueue = <<>> /\ x_error = FALSE
  /\ motor = MotorOff /\ active = Quiet
  /\ open = {} /\ backlog = <<>> /\ inbox = [c \in Conns |-> <<>>]
  /\ running = TRUE /\ pc = "poll" /\ revents = NoRevents /\ cursor = 0
  /\ control = <<>> /\ adding = NoDevice
  /\ clients = [s \in Slots |-> FreeSlot]
  /\ state = ZeroState
  /\ told = [s \in Slots |-> NothingTold]
  /\ fresh = {}

Next == BridgeStep \/ Environment \/ Terminated

Spec == Init /\ [][Next]_vars

\* The process is scheduled, poll returns after 50 ms at the latest, and no
\* call of the loop blocks.
FairSpec == Spec /\ WF_vars(BridgeStep)

-----------------------------------------------------------------------------
(* Properties. *)

XEvents == {Hierarchy} \union
           [type : {"device"}, id : DeviceIds, event : DeviceEvents]

SlotRecords ==
  [conn : Conns \union {NoConn}, kind : Kinds, used : 0..BufferSize,
   low : Levels, high : Levels, ttl : Ticks]

CleanTable(cl) ==
  /\ cl \in [Slots -> SlotRecords]
  /\ \A s \in Slots : cl[s].conn = NoConn => cl[s] = FreeSlot

Messages == UNION {Commands[c] : c \in Conns}

\* Every variable has its type; a free slot is clean.
TypeOK ==
  /\ xdev \in Devices \union {NoDevice} /\ device \in Devices \union {NoDevice}
  /\ adding \in Devices \union {NoDevice}
  /\ xqueue \in Seq(XEvents) /\ selected \subseteq DeviceIds
  /\ x_error \in BOOLEAN /\ running \in BOOLEAN
  /\ motor \in [low : Levels, high : Levels, ttl : Ticks]
  /\ active \in [low : Levels, high : Levels]
  /\ open \subseteq Conns /\ backlog \in Seq(Conns)
  /\ inbox \in [Conns -> Seq(Messages)] /\ control \in Seq(Messages)
  /\ pc \in {"poll", "pump1", "accept", "serve", "pump2", "tick", "closing",
             "stopped"}
  /\ cursor \in 0..MaxClients
  /\ revents \in [server : BOOLEAN, slot : [Slots -> SUBSET {"IN", "OUT", "HUP"}]]
  /\ CleanTable(clients)
  /\ IsGamepadState(state)
  /\ fresh \subseteq Slots

\* process_xi_event only sends what changed, send_snapshot everything: however
\* queries, reports, closes and reconnections interleave, a client that got a
\* snapshot of this device has been told exactly what a new client would be.
StreamsMatchState ==
  \A s \in Slots :
    clients[s].kind = "events" /\ told[s].live => told[s].view = Snapshot(state)

\* The last hotplug message of every monitor describes the device the bridge
\* has: after a replacement, after one the bridge saw as a single change, and
\* for a monitor that took over the slot of another client.
MonitorsCurrent ==
  \A s \in Slots : clients[s].kind = "monitor" => told[s].news = device

\* active_rumble is the maximum over the client table whatever ends a rumble:
\* a stop, its expiry, or the client being closed in the middle of a broadcast.
ActiveIsDemand == active = Demand(clients)

\* The motors never run at a level nobody asks for, nor longer than the client
\* that asked longest, up to the end of the process: an expiry, a stop or a
\* close that is not passed on to the device would leave them running.
MotorFollowsDemand ==
  pc # "stopped" /\ motor # MotorOff =>
    /\ [low |-> motor.low, high |-> motor.high] = active
    /\ \E s \in Slots : Rumbling(clients[s]) /\ clients[s].ttl >= motor.ttl

\* A process that ends by itself leaves no motor running, whatever the clients
\* it closes one by one still asked for.
QuietExit == [][pc = "closing" /\ pc' = "stopped" => motor' = MotorOff]_vars

\* A reason of its own to lose the client in a slot.
Handles(s, commands) ==
  pc = "serve" /\ cursor = s /\ control # <<>> /\ Head(control).command \in commands

MayClose(s) ==
  \/ clients[s].conn \notin open
  \/ pc = "closing" \/ x_error
  \/ Handles(s, {"invalid"})
  \/ clients[s].used + (IF Handles(s, {"query"}) THEN 2 ELSE 1) > BufferSize

Loses(s) == clients[s].conn # NoConn /\ clients'[s].conn # clients[s].conn

\* A client is closed because it hung up, sent rubbish or let its own output
\* pile up, never because of another client; the clients accepted since the
\* last poll are left out, see NoCloseForAnother.
OnlyJustifiedCloses ==
  [][\A s \in Slots : Loses(s) => MayClose(s) \/ s \in fresh]_vars

\* The same for every client, the ones just accepted too.
NoCloseForAnother == [][\A s \in Slots : Loses(s) => MayClose(s)]_vars

\* No reader of the stream believes a value of the present device that the
\* bridge does not hold.
NoStaleView ==
  Present(device) =>
    \A s \in Slots : clients[s].kind = "events" =>
      told[s].view \subseteq Snapshot(state)

\* However few of the open clients read, the bridge ends up with the controller
\* the X server ends up with: no hierarchy change is lost, neither one that
\* arrives during a refresh nor one that only Xlib's queue holds.  (The accept
\* loop has no bound: clients that reconnect for ever can keep it busy.)
DeviceSettles ==
  \A dev \in Devices \union {NoDevice} :
    <>[](xdev = dev /\ backlog = <<>>) => <>[](device = dev \/ pc = "stopped")

\* Once X is quiet, a client that waits for accept is accepted or refused.
BacklogServed ==
  <>[](xqueue = <<>>) => \A c \in Conns : []<>~Waiting(c)

\* Once X and the listening socket are quiet, what a client sent is received
\* or the client is closed: although it or another client never reads, and
\* although another client sends without end.
InboxServed ==
  <>[](xqueue = <<>> /\ backlog = <<>>) =>
    \A c \in Conns : []<>(inbox[c] = <<>>)
=============================================================================
