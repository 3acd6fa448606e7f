# A TLA+ model of termux-gamepad

The modules in this directory model the programs of this repository, check
them with TLC on small instances and prove some of their properties with TLAPS
for every instance. Paths are relative to the repository (`src/...` below is
its own `src` directory).

## The system

| part | state | operations | talks to |
|---|---|---|---|
| bridge, `src/lorie_evdev_bridge.c` | client table (socket, output buffer, rumble and its expiry, kind), gamepad state, device and descriptor, `active_rumble`, `running` | poll loop: X events, accept, control messages, periodic rumble update, shutdown | X server (XI2 and LORIE-CONTROLLER), clients over a Unix socket |
| `libtermux-gamepad`, `src/termux_gamepad.c` | monitor and event sockets, partial messages, descriptor, public state | create, destroy, refresh, update, rumble | bridge |
| evdev shim, `src/evdev_preload.c` | table of fake descriptors, effect slots, gain, joystick read buffers | open, read, write, ioctl, stat, close of one virtual device | bridge, the host program |
| fake libudev, `src/libudev_fake.c` | singletons with reference counts, cached descriptor, monitor socket | enumerate, device attributes, monitor | bridge, the host program |
| wire protocol, `src/tg_evdev_protocol.h` | | control, descriptor, hotplug messages; evdev records | all of the above |
| launchers, `tools/` | socket file, bridge process | start the bridge unless it runs | bridge |

The rest (diagnostic programs, build, packaging, installation) holds no logic
of the running system and is not modelled. `PROJECT.json` lists every part with
its status, and under `hazards` what is hard to test in each, with the line.

What is hard here:

* the bridge is one thread, but its environment acts between any two of its
  steps: clients connect, send, stall and hang up, the controller comes, goes
  and is replaced, time passes, a signal arrives;
* poll's answer, the device a refresh has queried and `active_rumble` are read
  in one step and used in a later one;
* a client may be closed in the middle of every loop over the clients, and
  closing a rumbling client recomputes the rumble of the others;
* reports are differences, snapshots are absolute, and both go to a stream that
  is cut off when it is not read;
* the clients join conversations over two connections whose messages can be
  ordered either way.

What makes each part correct, as the properties say it:

* bridge: streams and monitors say what the bridge holds; a client is lost by
  its own fault only; the motors do what the clients ask for, no longer, and
  stop with the process; nothing waits for ever because of another client;
* readers: every control of the gamepad reaches every kind of reader, inside
  the advertised range and in the right direction;
* client library: the descriptor and state it shows become those of the device
  present; nothing of one connection is taken for another's; no input outlives
  the device it came from;
* shim: a fake descriptor never acts on behalf of another; effects do
  what was uploaded;
* fake libudev: it touches its own descriptors only; what it lists becomes what
  the bridge has; it and the event device name one controller;
* launchers: one bridge at most, which can be reached when it serves; a start
  that says so has started it; starting again repairs what a crash left.

## Modules

| module | models | uses |
|---|---|---|
| `XiInput` | `process_xi_event`, `send_snapshot` and their tables: a state, an event, a report | |
| `InputPath` | one event through the bridge's report to three kinds of readers: the library's `process_event`, the shim's `tg_convert_joy_event`, DirectInput renaming | `XiInput` |
| `Bridge` | the bridge's main loop and its environment | `XiInput` |
| `BridgeService` | what the bridge promises its clients, with no loop, table, buffer or X server | |
| `BridgeRefinement` | `Bridge` implements `BridgeService` | both |
| `GamepadClient` | the library's two connections, `create`, `refresh` and `update`, against the bridge as its environment | |
| `ClientRefinement` | that environment does nothing `BridgeService` forbids | both |
| `EvdevShim` | the shim in one process: descriptor table, effect slots, `write`, the joystick `read`, `close` | |
| `UdevFake` | the fake libudev in one process, and the identity it and the shim give a controller | |
| `Launcher` | the launch scripts, the start and the end of bridge processes, the socket path | |
| `MC...` | constants for TLC, one for each module that is run and three for `Bridge` | |
| `XiInputProofs`, `InputPathProofs`, `BridgeProofs`, `BridgeServiceProofs`, `GamepadClientProofs`, `EvdevShimProofs`, `UdevFakeProofs`, `LauncherProofs` | theorems | the module of the name |

### XiInput and InputPath

A report is the set of `<<code, value>>` pairs between two `SYN_REPORT`; a code
occurs in it once, so the order tells nothing apart. `After(st, e)` is the state
after an XI2 event and `Report(st, e)` what the bridge appends for it;
`Snapshot(st)` is what `send_snapshot` sends. `Told(view, report)` is what a
reader holds afterwards. `InputPath` runs one controller through the bridge and
the readers. Its arithmetic is the code's (clamps, `* 255 + 16383`, `* 257`) and
the casts to 16 bits are `Int16`. Time stamps, the packet number and the
`JS_EVENT_INIT` flag are left out. Valuators are integers: the code casts the
doubles at once.

### Bridge

`pc` is the place in `main`'s loop: `poll`, `pump1` (line 858), `accept` (861),
`serve` (863-881, with the slot in `cursor`), `pump2` (882), `tick` (883), then
`closing` (887-889) and `stopped`. One action is one turn of the innermost loop
the code is in: one X event, one connection, one client, one control message.
`PumpHierarchy` and `AddDevice` are the two halves of `refresh_lorie_device`,
apart because the X server can change between the query and `XISelectEvents`.
The environment acts between any two of these steps, so between two control
messages of one `recv`, never inside the handling of one.

| state in the model | in the code |
|---|---|
| `clients[s].conn`, `used`, `kind` | `fd`, output bytes waiting (counted in messages), `kind` |
| `low`, `high`, `ttl` | the client's rumble, and the ticks left until `rumble_expires_ms` |
| `device` | `lorie_device_id`, `lorie_capabilities`, `device_descriptor` |
| `state`, `active`, `running` | the globals of those names |
| `revents`, `control`, `adding` | locals: poll's answer, the received messages not yet handled, the device found by the query |
| `xdev`, `xqueue`, `selected`, `motor`, `x_error` | the X server: controller, events on their way, selected ids, effect on the motors, an error reply on its way (external) |
| `open`, `backlog`, `inbox` | the kernel's sockets (external) |
| `told`, `fresh` | history: what each stream said, slots filled since the last poll; only properties read them |

Abstractions: output is counted in messages of one size, and the kernel takes
any number of them (`flush_client` chooses), so `BufferSize` messages stand for
the 16 KiB buffer. Time counts down: an expiry at `monotonic_ms() + duration`
is a number of ticks left, and `TimePasses` takes one from every clock. The
descriptor's mode, vendor, product and name and the capabilities are one
*profile*. Clients closed in one loop are closed in one step, since each forced
`update_rumble` overrides the one before and no other actor can see the table
between them.

The environment is wider than any real one: a device may lose its selection or
keep it when it returns with the same id, an effect may or may not survive a
change of mode, poll may or may not report room for output, and X events may
wait in Xlib's queue while the X socket is silent (`Poll` then skips the pump).

### GamepadClient

The library has no thread: everything happens in `refresh` and `update`, but
the bridge acts between any two of their system calls. `pc` is the place in the
call: `refresh` (in the loop of line 354, or about to open the monitor),
`wait_monitor` and `wait_stream` (in the blocking `receive_all` of
`open_monitor` and `open_event_stream`), `update` (line 397), `events` (the loop
of line 403), `idle` between calls. `back` is the return address of
`open_event_stream`, which has three callers: `update`, and `apply_hotplug` when
called from `open_monitor` or from the loop of `refresh`. `create` is a `refresh`
of a handle without a monitor, which is what `open_monitor` makes of it.

`conn` holds the two descriptors and the one being opened. A channel holds what
the bridge has queued for it, every message in two halves; `recv` takes one or
more of them, up to the end of the message it is in, or answers EAGAIN although
more is on its way. `mbuf` and `ebuf` are the two partial-message buffers. A
descriptor is `present` and everything else in one value; the XI2 id is -1
exactly when nothing is present, on both sides, so it tells nothing more. A
state maps controls to values: which control an event means is `InputPath`'s
question. `before` is the descriptor at the call of `refresh`; only
`RefreshTells` reads it.

The bridge is modelled by what the library can see of it. `Answer` is what
`Bridge` does for the first message of a connection, `Remove` and `Add` the two
halves of its refresh, `Input` a report. It may lose a connection with any part
of what it sent (`Cut`), end (`Exit`) and start again with or without a
controller. `live` marks the streams opened for the device that is present now;
only those promise the bridge's state (finding 3 is about the others).

### BridgeService and the two refinements

`BridgeService` has one record per connection: its role, what its stream has
told (`view`), whether that is complete (`live`), and the last hotplug message
(`news`). A connection is opened, asks for the stream or for hotplug messages,
is told what changes, and may be lost in any step. `Kept` is what a client may
rely on.

`BridgeRefinement` maps the slots to sessions: a connection that waits for
`accept` is not a session yet, and one whose client has hung up is one until the
bridge notices. `device` has the same name on both sides, `picture` is
`Snapshot(state)`. `ImplementsService` is the abstract specification under that
mapping, checked on every step of `bridge_streams`.

`ClientRefinement` shows that the bridge `GamepadClient` is checked against, an
environment written from the library's side, keeps to the same service: a
session has been told what its client holds and what is still on its way. It
says that this environment does nothing strange, not that it does everything
`Bridge` may do.

### EvdevShim

One process with `Threads`. A call is one action, except the joystick `read`:
`ReadStart` takes the pointer to the entry (line 568, here the index in
`reader[t].fake`), `ReadReceive` is one turn of the inner loop and the
conversion that may follow (587-597), `ReadReturn` is EAGAIN or the end of the
stream; with one thread nothing but the bridge acts in between. `file` is the
kernel's view of a descriptor number: closed, some other file, a connection of
the event or of the joystick kind. `fake_fds`, `fake_count`, `effect_slots` and
`ff_gain` are the globals of those names; `fake_fds` keeps what is left behind
`fake_count`, because a stale pointer sees it.

Abstractions: an event is two halves (`raw` is `raw.bytes` up to `raw_used`); an
effect is its type and two levels, which for a condition stand for the larger of
coefficient and saturation of each motor; `Half` stands for 32767 and
`2 * Half + 1` for 65535, so the arithmetic of `tg_scaled_abs` and of the gain
is exact, and its products, at most 65535 * 65535, fit the 32 bits of the code.
Durations are left to `Expire`. A `write` of several events is several writes
of one. `playing`, `uploaded` and `seen` are what the bridge and the reader
have got; only properties read the last two.

### UdevFake

One program with one thread, and one monitor at a time, as in the repository's
own test programs. Every object is a singleton; `descriptor`, `action` and
`monitor` are `g_descriptor`, `g_event_dev.action` and `g_monitor.pipefd[0]`.
`refs` are the references the program holds: the code counts them too, but
nothing reads the count, and `UnrefMonitor` closes the socket whatever it is.
`Scan`, `ScanAnswered` and `ScanRefused` are `refresh_descriptor`, apart because
it waits for the bridge's answer; `ReceiveDevice` is
`udev_monitor_receive_device`. The library reads with `MSG_WAITALL`, so a message
is whole. `UdevIdentity` and `EvdevIdentity` are what the two libraries say of a
device under `TERMUX_GAMEPAD_MODE`: name, vendor and product, with the casts to
16 bits of the format and of the event device.

### Launcher

A launcher is one run of `gamepad-start`, or of `ensure_bridge` in
`gamepad-run`, which is the same text; each test and each command is a step. A
bridge goes through `opening` (the X server), `unlink`, `bind`, `listen`,
`serving`, and at the end `closing` (the listening socket), `exiting` (after the
last `unlink`). `path` is the process that bound the socket file, or none: it may
name a process that is gone. `custom` says that the path is not in the pattern
the launchers remove. `pgrep` sees a bridge from the moment it is started.

The launchers test first and act later, without a lock, so two that overlap (two
login shells) may both start a bridge, or remove the socket of a bridge that has
just bound it. Nothing in the repository says they may overlap; `overlap`
remembers that they did, and the properties are about runs in which they did not.

## Runs

| run | checks | bounds |
|---|---|---|
| `input_path` | types; changes add up to the snapshot; hats; every button seen by every reader; only advertised codes and values; monotone axes in the library | one stick, one trigger, values below, at and above the range, all 16 details and one out of range, 3 held |
| `bridge_streams` | types; live streams equal the snapshot; monitors know the device; clients are closed for their own fault only; `BridgeService` is implemented | 2 slots, 2 connections (a reader, a monitor), buffer of 2, one device, a moving trigger |
| `bridge_rumble` | `active_rumble` is the maximum of the table; motors follow it, stop in time and are off when the process ends by itself | 2 clients: one asks for one level and the default duration, stops or sends what is no message, one for two levels and one tick and is dropped as it reads nothing; durations up to 2 ticks, a signal anywhere |
| `bridge_live` | three liveness properties, fair bridge | 2 slots for 3 connections: a monitor that may never read, a client that sends without end, one that never sends; 1 X event waiting beside the one in handling |
| `client` | types; framing; no input without a stream and no stream without a device; state and stream add up to the bridge's state; `refresh` reports what it takes over; the library ends up with what the bridge has; the assumed bridge keeps to `BridgeService` | 1 device, 1 control of 2 values, 3 messages waiting on a connection, 1 fault (a connection or the bridge) |
| `shim` | types; the table and the effects belong to open devices; motors play their own descriptor's effects; joystick streams stay framed, lose nothing and mark the snapshot | 1 thread, 2 descriptor numbers, a table of 2, 1 effect slot, a gain inside and one above the range, 3 messages waiting, 1 fault |
| `udev` | types; only own descriptors; the cache and what waits end in the bridge's device; one identity; the program is informed in the end | 2 devices, one DirectInput, one without a name and with a vendor above 16 bits, 3 descriptor numbers, 2 references, 2 messages waiting, 2 faults |
| `launcher` | types; one bridge; a serving bridge has the path; "started" is said of the own bridge; starting again recovers | 2 launchers, 3 process ids, 1 turn of waiting, 2 bridges that end |
| `shim_threads` | **violated**: finding 4 | 2 threads, no fault |
| `joydev_trigger` | **violated**: finding 1 | as `input_path` |
| `bridge_stale_slot` | **violated**: finding 2 | 1 slot |
| `bridge_stale_view` | **violated**: finding 3 | 1 slot |

Why the bounds are enough to be interesting: two slots are the least for one
client to be harmed by another and for a slot to be reused while the other is
served; a buffer of two messages is filled by a query's two answers; two ticks
let one rumble end while another goes on; one X event in the queue next to one
being handled gives every order of a hierarchy change and a report, a change
that arrives during a refresh and one that only Xlib's queue holds. In
`bridge_live` the second slot is what `InboxServed` needs, a client served next
to one that is stalled or always has something to say, and the third connection
is what `BacklogServed` needs, one that waits while the table is full. In `bridge_rumble` a buffer of one
message is full after the descriptor, so the client that rumbles is closed in the
middle of its query: a close inside every loop, with a rumble to recompute. The
input table runs over all button numbers because a table can be
wrong at one of them only. `MaxXQueue`, `MaxInbox`, `MaxHeld`,
`MaxFaults`, `MaxEnds`, `MaxRefs`, and `MaxQueue` in `GamepadClient` and
`UdevFake`, are guards of the environment's
actions and of nothing the programs do; in `EvdevShim`, `MaxQueue` is the
bridge's output buffer, and a report that does not fit drops the connection. In the client's runs one fault is enough for a
connection lost in any step of any call, or for a bridge that ends and comes
back; three messages waiting are a removal, an addition
and one more, so a stream can be opened for a device that is already gone. Two
messages waiting in `udev` are a removal and an addition that a scan overtakes;
three numbers are the monitor's, a scan's and another file's. In `launcher` two
ends leave a socket file behind and then stop the bridge that came after; one
turn of waiting is enough to give up on a slow bridge; three ids let a second
bridge come up while the old file is still named.

Each property of a passing run has a variant of a mapped definition with a
plausible bug (the operators commented *Variant with a bug*); the property is
violated under the same configuration if the variant takes the original's place.

Fairness: `FairSpec` has weak fairness of `BridgeStep` as a whole and none of
the environment. It is justified by the code: poll has a timeout of 50 ms, all
sockets are non-blocking and the kernel schedules the process, so whenever a
step is possible one is taken. There is no fairness among the parts of the
loop: their order is the code's. The three liveness properties say what they
need besides. `DeviceSettles` needs the listening socket to become quiet,
because `accept_clients` has no bound; `BacklogServed` and `InboxServed` need
the X server to become quiet, because `pump_x_events` has none. Without these
antecedents the properties fail, and the hazards list says so. That a client
waits or has sent something is never for good, `[]<>` of the opposite: the same
as "leads to", and cheaper to check.

`GamepadClient`'s `FairSpec` assumes of the application that it goes on calling
`update` (strong, since it may call `refresh` in between), of the kernel that
what was sent arrives and that the end of a process closes its sockets, and of
the bridge that it answers requests, which `bridge_live` checks (`InboxServed`).
The last one is needed: `open_event_stream` reads with a blocking `recv`
(line 172), so a bridge that is stopped blocks the application for ever.

`UdevFake`'s `FairSpec` assumes the same of kernel and bridge, and that the
program goes on receiving what poll reports (strong, since scans come between).
`Informed` is about a bridge and a monitor that stay: when the bridge ends no
REMOVE comes, and the device stays in the list. `Launcher`'s assumes that
processes are scheduled and that somebody starts again whenever no launcher is
active: nothing else in the repository restarts a bridge.

## Findings

1. `joydev_trigger`: `tg_joy_axis_value` (`src/evdev_preload.c:523`) maps 255 to
   `255 * 257 - 32767 = 32768`, which a `tg_s16` holds as -32768: a trigger
   pulled to the end jumps to the other end of the joystick axis. The library's
   own conversion (`src/termux_gamepad.c:264`) subtracts 32768 and is monotone.
2. `bridge_stale_slot`: poll's answer is used per slot after the pump may have
   closed the client in it and `accept_clients` may have put another one there
   (`src/lorie_evdev_bridge.c:858-875`): the new client is closed for the hangup
   of the old one. `OnlyJustifiedCloses` is the same property without the
   clients accepted since the last poll, and holds.
3. `bridge_stale_view`: a replaced controller resets the state
   (`src/lorie_evdev_bridge.c:622`) and only monitors are told. A stream reader
   that stays connected keeps the values of the controller before; the next
   reports are differences from zero. The library is safe (it reopens the
   stream on the hotplug message); the evdev shim's programs are not.
4. `shim_threads`: `tg_del_fake_fd` (`src/evdev_preload.c:176`) moves the last
   entry of the table while a `read` in another thread waits with a pointer to
   it (line 590). Half an event that was in the entry is completed in the old
   place and stays, as a stale half, in the new one: the joystick's stream is
   out of step for good. The two threads use different descriptors.

## Proofs

`tlapm` checks the following for every value of the constants that satisfies
the assumption of the module (`InputAssumption`, `BridgeAssumption`,
`ClientAssumption`, `UdevAssumption`, `LauncherAssumption`), which TLC evaluates on its runs.

* `ReportCompletesSnapshot`: `Told(Snapshot(st), Report(st, e)) =
  Snapshot(After(st, e))` for every state and event. The argument: `Report` has
  exactly the pairs of the new snapshot that the old one has not
  (`ReportIsChanged`), every code has one value in a snapshot (`CodesOfValues`),
  and the two button tables agree (`TablesAgree`).
* `ChangesAddUp`, `HatsAreDifferences`: two invariants of `InputPath`, from that
  theorem and from the type of the state. `ToldIsAdvertised` adds that every axis
  stays in the range that `EVIOCGABS` reports (`AxesOK`).
* `PathTypeCorrect`, `NoButtonLost`, `AxesNeverFallBack`: the other invariants of
  `InputPath` and its action property that holds. The strengthening is `AllInv`:
  what the library and the joystick hold is a function of the bridge's state
  (`LibInv`: each axis the converted value, the buttons the numbers of the keys
  held), and that state is the controller's, converted (`RawInv`). A report names
  each code once, so each reader takes exactly its new value (`LibReadsAxes`,
  `JoyReadsAxes`, `LibReadsButtons`, ...); the counts are equal because the three
  numberings of the keys are injective (`KeyNumbers`, `SameCount`); the order of
  the axes survives because no cast wraps in the range (`LibAxisValue`).
* `TypeCorrect` and `ActiveRumbleIsDemand`, `Spec => []TypeOK` and
  `Spec => []ActiveIsDemand`. The inductive invariant is `IInv`, four parts:
  `TableOK` (the client table's types, free slots clean, `active` the maximum),
  `ServerOK`, `LoopOK`, and `CursorOK`, which is the strengthening needed: the
  cursor is a slot while the loop serves, and messages wait in `control` only
  then and only for a slot that is taken. One lemma per operation
  (`UpdateRumble`, `CloseClients`, `Broadcast`, `AnswerClient`, ...) says what
  it does to the table, one lemma per action that it preserves `IInv`.
* `StreamsMatch` and `MonitorsAreCurrent`, `Spec => []StreamsMatchState` and
  `Spec => []MonitorsCurrent`. The strengthening, `StreamsOK`, is per slot: the
  two properties, and that a stream, live or not, carries no code that a
  snapshot would not replace; without it a query on a connection with a past
  could leave something behind. It is proved relative to `IInv`, with
  `ReportCompletesSnapshot` for the step that handles an X event and
  `SnapshotReplacesView` for a query.
* `ClosesAreJustified`: `Spec => OnlyJustifiedCloses`, a property of the steps: a
  client that was connected before the last poll loses its connection only for a
  reason of its own. The strengthening, `HupOK`, is that a slot which the last
  poll found hung up stays hung up until it is served, because `Connect` never
  reuses a connection that is in a slot. One lemma per action (`*Spares`) says
  whom it may close; a broadcast and an answer end only clients that hung up or
  have no room (`BroadcastEnds`, `AnswerEnds`).
* `ExitIsQuiet`: `Spec => QuietExit`, whatever the clients send. Two
  strengthenings: `MotorReached`, that motors that run are those of the device
  the bridge has, or has found and has yet to add (`Driver`), so that a stop
  reaches them, through every hotplug; and `ClosingOK`, that while the clients
  are closed one by one the slots below the cursor are free and the motors are
  `Driven`: at the level of `active_rumble`, for a client that still rumbles and
  asks for no less time. Nobody is left after the last slot.
* `MotorsFollowDemand`: `Spec => []MotorFollowsDemand` under the hypothesis
  `Unmixed`: no connection sends both the monitor command and a rumble. The
  repository's clients do not: the library and the fake libudev have a connection
  of its own for the hotplug messages (`src/termux_gamepad.c:216`,
  `src/libudev_fake.c:253`), the shim asks for none. The hypothesis is needed:
  the broadcast of a removal may drop a rumbler while there is no device to
  silence. The invariant adds to `MotorReached` that the motors are `Driven` and
  that what waits in a socket, what recv returned and what a slot does is what its
  connection may send (`Roles`). `UpdateDriven` is the main lemma: a new level
  has a rumbling client whose clock has not run out (`LongestDrives`), and a level
  that stays was driven by a client that an expiry leaves alone.
* `BridgeServes`: `Spec => ImplementsService`, the bridge implements
  `BridgeService`, for every number of slots and connections, every buffer,
  device, event and message. The strengthening, `RefInv`, says that a connection
  has one place, in a slot or in the backlog (`OneSlot`), that a free slot was
  told nothing, and that a device is only added where there is none. Then a step
  that ends some clients and tells the others something (`Follows`) is `Keeping`
  of the service (`FollowsIsKeeping`), a step that leaves connections, kinds and
  what was told is a stutter (`LeavingStutters`), and each action needs only to
  show what was heard: for a device event, that the report is the difference of
  two snapshots (`ReportIsDifference`). With `ServiceKept` this is the long way
  round to `StreamsMatch` and `MonitorsAreCurrent`; what it adds is that nothing
  is told which the service would not tell.
* `ServiceKept`: `BridgeService!Spec => []Kept`, so whatever implements the
  service keeps its promise. It is assumed that `Zero` gives each code one value
  (`IsPicture`); `Bridge` puts `Snapshot(ZeroState)` there, for which
  `CodesOfValues` says so.
* `GamepadClient`: `TypeOK`, `Framed`, `NoStreamNoInput`, `RefreshTells`,
  `CatchesUp`. The first four come from one invariant. Its
  `IInv` adds to them `PlaceOK` (which roles each connection may have, that a
  closed connection has an empty buffer and channel, and what each place in a
  call waits for), `StreamsOK` (buffer and channel together are whole messages,
  an even number of halves while the connection is up, so that the bridge always
  appends at a boundary; the monitor carries hotplug messages only, so that
  `apply_hotplug` has a descriptor to compare) and `TellsOK` (a refresh under way
  with nothing to tell has not changed the descriptor since it was called). The
  lemmas on streams (`GoodPut`, `GoodCut`, `Take`, `GoodDrop`) say what sending,
  cutting and receiving do to a sequence of halves.
  `CatchesUp` is proved relative to `IInv` from `LiveOK`. That invariant needs no
  maximum over the stream: for each control, either the last event of it on the
  way has the bridge's value (`Ends`), or there is none on the way and the public
  state has it (`Silent`). A stream whose answer is not read yet must meet the
  first case for every control (`Answers`), because the state is reset when it is
  taken over; this is where it matters that the bridge answers a query with the
  whole snapshot. `ReportLeads` and `EndsTake` are the two steps: a report is put
  behind a stream, and a message is taken from it.
  `LibraryReliesOnService` is the refinement `KeepsToService`: the bridge that
  the library is checked against does nothing that `BridgeService` forbids. It
  is proved from `IInv`, `LiveOK` and `HeardOK`, which adds that a connection that
  is up has a role and that a stream whose descriptor shows a device has an event
  for every control behind it. What a session has been told is what is read and what is
  on its way together, so the argument is about `Drained`: taking a message from
  the front leaves it as it is (`DrainedTake`), a report behind it is one update
  of the service (`DrainedPut`), and a snapshot is a picture of its own
  whatever was before (`BeganDrained`). Every other step of the library opens or
  loses a session, or is none of the service's. `LibraryIsTold` puts `ServiceKept` on top: a live stream says
  the bridge's state and the last hotplug message of a monitor names its device
  (`Bridge!Kept` of `ClientRefinement`).
* `UdevFake`: `TypeOK`, `OwnDescriptors`, `CacheCatchesUp`, `SameIdentity`. The
  strengthening adds that the library's connections are exactly those it names,
  each once and each of the right kind (`Own`), and that an answer
  a scan waits for is the bridge's present descriptor whenever the monitor's
  connection lasts and nothing waits in it (`AnswerIsFresh`), without which a
  scan could set the cache back.
* `EvdevShim`: `TypeOK`, `FakeIsDevice` and `OwnEffectsOnly` for every number of
  threads, `JoyFramed`, `JoyCatchesUp` and `InitMarksSnapshot` under the
  hypothesis `OneThread`. The hypothesis is needed: with two threads a close
  moves the entry that another thread's read points to, and run `shim_threads`
  shows `JoyFramed` violated then. The first invariant, `IInv` with
  `ReadersOK`, adds that every effect in use was uploaded through its
  descriptor (`TableOK`), and that a read points to some entry, if not its own.
  `JoyOK` says that the pointer of a read is right, and that every joystick is
  `Sound`: its entry holds half an event at most, entry and stream are whole
  messages (`Good`), they lead the reader to the bridge's state (`Leads`, per
  control the last event or none), and what is of the snapshot is in front
  (`Marked`). `InitMarksSnapshot` alone is not inductive: it does not say that
  nothing of a report overtakes the snapshot. The lemmas say what `Halves` and
  `Batch` are, and what putting, taking and cutting do to each of the three.
* `Launcher`: `TypeOK`, `OneBridge`, `ServingIsReachable` and the action property
  `StartedIsOwn`. The strengthening says, for runs without overlap, what each
  place in a launcher knows: from `remove` to `spawn` no process is alive, and
  while it waits only its own may be (`Alone`); and a process that listens or
  serves has the path, and a waiting launcher of the usual path finds there its
  own bridge or nothing (`Bound`).

Only model-checked: liveness (`DeviceSettles`, `BacklogServed`, `InboxServed`,
`Settles`, `Informed`, `Recovers`), since fairness and `ENABLED` are out of the
prover's reach.

## Not modelled

In the bridge: start-up failures, which are crashes in `Launcher`; a server without the LORIE-CONTROLLER
extension, or with another version; the loss of the X connection (Xlib exits);
errors of `poll`, `accept` and `fcntl`; control messages that arrive in pieces;
clients that mix the roles of monitor and rumbler on one connection in the runs
(the module allows it). In the library: `rumble`, `stop_rumble` and `destroy`,
each of which sends one message; the counts `update` returns; invalid magics and
failures of `fcntl`. In the shim: queries that change nothing, `stat`, the
renaming read (its table is in `InputPath`), messages sent in part, a table
that is full (128 entries; the model has the branch, the run does not reach
it), a controller that is absent at `open`, descriptors closed or duplicated
behind the shim's back, and races inside a table operation. In the fake libudev:
a backend that `TERMUX_GAMEPAD_BACKEND` turns off, a second monitor beside the
first, several threads, messages cut by a signal, the counts of the other
singletons, which nothing reads, and constant attributes. In the launchers: the
test for the executable, the options and environment of `gamepad-run`, the
profile script, which calls `gamepad-start`, and the window between `fork` and
`exec`. `MotorFollowsDemand` says nothing once the process has
been ended by Xlib's error handler: the effect then ends by its own duration.

## Plan

What is left, in order:

1. `EvdevShim`: partial sends and what the bridge makes of them, the renaming
   read of the event interface.
