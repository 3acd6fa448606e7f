---------------------------- MODULE GamepadClient ----------------------------
(***************************************************************************)
(* libtermux-gamepad (src/src/termux_gamepad.c): what one application      *)
(* knows of the controller.  The library has two connections to the        *)
(* bridge, one for hotplug messages and one for the event stream, and      *)
(* reads both when the application calls refresh or update.                *)
(*                                                                         *)
(* The bridge is the environment here, as module Bridge says it behaves    *)
(* towards one client: it answers the first message of a connection,       *)
(* reports what changes, and may close a connection or end at any time.    *)
(* A channel holds everything the bridge has queued; the kernel may hand   *)
(* over any part of it, so every message travels in two halves.            *)
(***************************************************************************)
EXTENDS Integers, Sequences, FiniteSets

CONSTANTS
  Devices, NoDevice,  \* mode, vendor, product, name and rumble in one
  Controls, Values,   \* what a report is about
  Rest,               \* the value of a control nobody touches
  MaxQueue,           \* bound: halves of messages waiting on a connection
  MaxFaults           \* bound: connections cut and bridges ended

ASSUME ClientAssumption ==
  /\ NoDevice \notin Devices /\ Rest \in Values
  /\ Devices # {} /\ IsFiniteSet(Controls)
  /\ MaxQueue \in Nat /\ MaxFaults \in Nat

VARIABLES
  \* The bridge (external).
  up,          \* it listens
  sdesc,       \* its device_descriptor
  sval,        \* its gamepad state
  faults,
  \* The connections: the library's two descriptors, and the one being opened.
  conn,
  \* The library.
  pc,          \* where the call is
  call,        \* the call the application made last
  back,        \* what open_event_stream returns to
  refreshed,   \* the result of refresh, so far
  descriptor,  \* gamepad->descriptor
  state,       \* gamepad->state
  mbuf, ebuf,  \* monitor_buffer and event_buffer, up to monitor_ and event_used
  \* History.
  before       \* the descriptor when the application called refresh

service == <<up, sdesc, sval, faults>>
public  == <<descriptor, state, mbuf, ebuf>>
vars == <<service, conn, pc, call, before, back, refreshed, public>>

-----------------------------------------------------------------------------
(* Messages and channels. *)

\* After a REMOVE the descriptor keeps what it says of the device; the id is
\* not modelled, it is -1 exactly when no device is present.
Descriptors == [present : BOOLEAN, device : Devices \union {NoDevice}]
Unknown == [present |-> FALSE, device |-> NoDevice]

States == [Controls -> Values]
Neutral == [c \in Controls |-> Rest]

Describe(type, desc) == [type |-> type, desc |-> desc]
Event(c, value) == [type |-> "event", control |-> c, value |-> value]
Syn == [type |-> "syn"]

InOrder(S) == CHOOSE f \in [1..Cardinality(S) -> S] :
                \A i, j \in 1..Cardinality(S) : f[i] = f[j] => i = j

\* A report of the controls in S: one event each, then SYN_REPORT.
ReportOf(S, values) ==
  LET order == InOrder(S)
  IN Append([i \in 1..Cardinality(S) |-> Event(order[i], values[order[i]])], Syn)

Halves(messages) ==
  [i \in 1..(2 * Len(messages)) |->
     [message |-> messages[(i + 1) \div 2], half |-> IF i % 2 = 1 THEN 1 ELSE 2]]

Kinds == {"monitor", "event", "new"}
Channel(link, role, live, chan) ==
  [link |-> link, role |-> role, live |-> live, chan |-> chan]
Closed == Channel("closed", "none", FALSE, <<>>)
Connected(request) == Channel("up", request, FALSE, <<>>)

Holding(c, chan) == Channel(c.link, c.role, c.live, chan)
Skip(c, n) == Holding(c, SubSeq(c.chan, n + 1, Len(c.chan)))
Put(c, messages) == Holding(c, c.chan \o Halves(messages))
Answering(role, live, messages) == Channel("up", role, live, Halves(messages))
Outdated(c) == Channel(c.link, c.role, FALSE, c.chan)

-----------------------------------------------------------------------------
(* The bridge. *)

ServiceOnly == <<pc, call, before, back, refreshed, public>>

Listening(k, role) == conn[k].link = "up" /\ conn[k].role = role

\* QUERY_DESCRIPTOR and MONITOR.
Answer(k) ==
  /\ up
  /\ \/ /\ Listening(k, "query")
        /\ conn' = [conn EXCEPT ![k] =
             Answering("events", sdesc.present,
                       <<Describe("descriptor", sdesc)>> \o
                       IF sdesc.present THEN ReportOf(Controls, sval) ELSE <<>>)]
     \/ /\ Listening(k, "ask")
        /\ conn' = [conn EXCEPT ![k] =
             Answering("hotplug", FALSE, <<Describe("hotplug", sdesc)>>)]
  /\ UNCHANGED <<service, ServiceOnly>>

\* One message, or one report, for every connection that has the role.
Tell(role, messages, Upd(_)) ==
  /\ \A k \in Kinds : Listening(k, role) =>
       Len(conn[k].chan) + 2 * Len(messages) <= MaxQueue
  /\ conn' = [k \in Kinds |-> IF Listening(k, role) THEN Put(conn[k], messages)
                                                    ELSE Upd(conn[k])]

Remove ==
  /\ up /\ sdesc.present
  /\ sdesc' = [sdesc EXCEPT !.present = FALSE]
  /\ sval' = Neutral
  /\ Tell("hotplug", <<Describe("hotplug", sdesc')>>,
          Outdated)
  /\ UNCHANGED <<up, faults, ServiceOnly>>

Add ==
  /\ up /\ ~sdesc.present
  /\ \E device \in Devices : sdesc' = [present |-> TRUE, device |-> device]
  /\ Tell("hotplug", <<Describe("hotplug", sdesc')>>, LAMBDA c : c)
  /\ UNCHANGED <<up, sval, faults, ServiceOnly>>

Input ==
  /\ up /\ sdesc.present
  /\ sval' \in States \ {sval}
  /\ Tell("events", ReportOf({c \in Controls : sval'[c] # sval[c]}, sval'),
          LAMBDA c : c)
  /\ UNCHANGED <<up, sdesc, faults, ServiceOnly>>

\* The bridge drops a connection, or is gone and the kernel closes it; what
\* the kernel has not taken by then is lost.
Cut(k) ==
  /\ conn[k].link = "up"
  /\ up => faults < MaxFaults
  /\ faults' = IF up THEN faults + 1 ELSE faults
  /\ \E n \in 0..Len(conn[k].chan) :
       conn' = [conn EXCEPT ![k] = Channel("cut", conn[k].role, conn[k].live,
                                              SubSeq(conn[k].chan, 1, n))]
  /\ UNCHANGED <<up, sdesc, sval, ServiceOnly>>

Exit ==
  /\ up /\ faults < MaxFaults
  /\ up' = FALSE /\ faults' = faults + 1
  /\ UNCHANGED <<sdesc, sval, conn, ServiceOnly>>

Start ==
  /\ ~up /\ \A k \in Kinds : conn[k].link # "up"
  /\ up' = TRUE
  /\ sdesc' \in {Unknown} \union [present : {TRUE}, device : Devices]
  /\ sval' = Neutral
  /\ UNCHANGED <<faults, conn, ServiceOnly>>

Service ==
  (\E k \in Kinds : Answer(k) \/ Cut(k))
    \/ Remove \/ Add \/ Input \/ Exit \/ Start

-----------------------------------------------------------------------------
(* The library. *)

\* Variant with a bug: half an event outlives the stream.
close_event_stream_keep_half == state' = Neutral /\ UNCHANGED ebuf

\* Descriptor and state of an event stream that is closed.
close_event_stream == state' = Neutral /\ ebuf' = <<>>

\* refresh returns; update goes on.
FinishRefresh(result) ==
  /\ pc' = IF call = "update" THEN "update" ELSE "idle"
  /\ refreshed' = result

\* What follows apply_hotplug or open_event_stream in their caller.
Continue(next, changed) ==
  CASE next = "return" -> FinishRefresh(changed)
    [] next = "refresh" -> /\ pc' = "refresh"
                           /\ refreshed' = IF changed = 1 THEN 1 ELSE refreshed
    [] next = "update" -> pc' = "events" /\ UNCHANGED refreshed

\* A new connection with a QUERY_DESCRIPTOR, whose answer is waited for.
open_event_stream(conns, next) ==
  IF up
    THEN /\ conn' = [conns EXCEPT !["new"] = Connected("query")]
         /\ pc' = "wait_stream" /\ back' = next
         /\ UNCHANGED refreshed
    ELSE conn' = conns /\ Continue(next, 1) /\ UNCHANGED back

apply_hotplug(message, conns, next) ==
  IF message.desc = descriptor
    THEN /\ UNCHANGED <<descriptor, state, ebuf, back>>
         /\ conn' = conns /\ Continue(next, 0)
    ELSE LET rest == [conns EXCEPT !["event"] = Closed]
         IN /\ descriptor' = message.desc
            /\ close_event_stream
            /\ IF message.desc.present
                 THEN open_event_stream(rest, next)
                 ELSE conn' = rest /\ Continue(next, 1) /\ UNCHANGED back

\* Variant with a bug: the release of a button is not taken over.
process_event_no_release(st, message) ==
  IF message.type = "event" /\ message.value # Rest
    THEN [st EXCEPT ![message.control] = message.value] ELSE st

process_event(st, message) ==
  IF message.type = "event" THEN [st EXCEPT ![message.control] = message.value]
                            ELSE st

-----------------------------------------------------------------------------
(* The calls. *)

Call(k) ==
  /\ pc = "idle"
  /\ call' = k /\ pc' = "refresh" /\ refreshed' = 0
  /\ before' = descriptor
  /\ UNCHANGED <<service, conn, back, public>>

OpenMonitor ==
  /\ pc = "refresh" /\ conn["monitor"].link = "closed"
  /\ UNCHANGED <<service, call, before, back, public>>
  /\ IF up
       THEN /\ conn' = [conn EXCEPT !["monitor"] = Connected("ask")]
            /\ pc' = "wait_monitor" /\ UNCHANGED refreshed
       ELSE FinishRefresh(-1) /\ UNCHANGED conn

\* receive_all has the whole message, or the end of the connection.
Answered(k) == Len(conn[k].chan) >= 2
Refused(k) == conn[k].link = "cut" /\ Len(conn[k].chan) < 2

MonitorAnswered ==
  /\ pc = "wait_monitor" /\ Answered("monitor")
  /\ mbuf' = <<>>
  /\ apply_hotplug(conn["monitor"].chan[1].message,
                   [conn EXCEPT !["monitor"] = Skip(conn["monitor"], 2)], "return")
  /\ UNCHANGED <<service, call, before>>

MonitorRefused ==
  /\ pc = "wait_monitor" /\ Refused("monitor")
  /\ UNCHANGED <<service, call, before, back, public>>
  /\ conn' = [conn EXCEPT !["monitor"] = Closed]
  /\ FinishRefresh(-1)

\* recv takes what has come, up to the end of the message it is in.
Chunks(k, buffer) == {n \in 1..(2 - Len(buffer)) : n <= Len(conn[k].chan)}

RefreshReceive ==
  /\ pc = "refresh" /\ conn["monitor"].link # "closed"
  /\ \E n \in Chunks("monitor", mbuf) :
       LET received == mbuf \o SubSeq(conn["monitor"].chan, 1, n)
           conns == [conn EXCEPT !["monitor"] = Skip(conn["monitor"], n)]
       IN IF Len(received) = 2
            THEN /\ mbuf' = <<>>
                 /\ apply_hotplug(received[1].message, conns, "refresh")
            ELSE /\ mbuf' = received /\ conn' = conns
                 /\ UNCHANGED <<pc, back, refreshed,
                               descriptor, state, ebuf>>
  /\ UNCHANGED <<service, call, before>>

\* EAGAIN: what the bridge has queued may be on its way still.
RefreshDrained ==
  /\ pc = "refresh" /\ conn["monitor"].link = "up"
  /\ UNCHANGED <<service, conn, call, before, back, public>>
  /\ FinishRefresh(refreshed)

Lost(k) == conn[k].link = "cut" /\ conn[k].chan = <<>>

\* Variant with a bug: the stream is left to end by itself.
RefreshLost_keep_stream ==
  /\ pc = "refresh" /\ Lost("monitor")
  /\ mbuf' = <<>>
  /\ descriptor' = [descriptor EXCEPT !.present = FALSE]
  /\ conn' = [conn EXCEPT !["monitor"] = Closed]
  /\ FinishRefresh(1)
  /\ UNCHANGED <<service, call, before, back, state, ebuf>>

RefreshLost ==
  /\ pc = "refresh" /\ Lost("monitor")
  /\ mbuf' = <<>>
  /\ IF descriptor.present
       THEN /\ descriptor' = [descriptor EXCEPT !.present = FALSE]
            /\ close_event_stream
            /\ conn' = [conn EXCEPT !["monitor"] = Closed, !["event"] = Closed]
            /\ FinishRefresh(1)
       ELSE /\ UNCHANGED <<descriptor, state, ebuf>>
            /\ conn' = [conn EXCEPT !["monitor"] = Closed]
            /\ \E result \in {refreshed, -1} : FinishRefresh(result)
  /\ UNCHANGED <<service, call, before, back>>

\* Variant with a bug: the result of opening the stream (0) is returned for
\* that of applying the message (1).
StreamAnswered_result ==
  /\ pc = "wait_stream" /\ Answered("new")
  /\ UNCHANGED <<service, call, before, back, descriptor, mbuf>>
  /\ IF conn["new"].chan[1].message.desc.present
       THEN /\ close_event_stream
            /\ conn' = [conn EXCEPT !["event"] = Skip(conn["new"], 2),
                                    !["new"] = Closed]
       ELSE /\ conn' = [conn EXCEPT !["new"] = Closed]
            /\ UNCHANGED <<state, ebuf>>
  /\ Continue(back, 0)

\* Variant with a bug: what came with the descriptor is thrown away as old.
StreamAnswered_flush ==
  /\ pc = "wait_stream" /\ Answered("new")
  /\ UNCHANGED <<service, call, before, back, descriptor, mbuf>>
  /\ IF conn["new"].chan[1].message.desc.present
       THEN /\ close_event_stream
            /\ conn' = [conn EXCEPT !["event"] = Holding(conn["new"], <<>>),
                                    !["new"] = Closed]
       ELSE /\ conn' = [conn EXCEPT !["new"] = Closed]
            /\ UNCHANGED <<state, ebuf>>
  /\ Continue(back, 1)

StreamAnswered ==
  /\ pc = "wait_stream" /\ Answered("new")
  /\ UNCHANGED <<service, call, before, back, descriptor, mbuf>>
  /\ IF conn["new"].chan[1].message.desc.present
       THEN /\ close_event_stream
            /\ conn' = [conn EXCEPT !["event"] = Skip(conn["new"], 2),
                                    !["new"] = Closed]
       ELSE /\ conn' = [conn EXCEPT !["new"] = Closed]
            /\ UNCHANGED <<state, ebuf>>
  /\ Continue(back, 1)

StreamRefused ==
  /\ pc = "wait_stream" /\ Refused("new")
  /\ UNCHANGED <<service, call, before, back, public>>
  /\ conn' = [conn EXCEPT !["new"] = Closed]
  /\ Continue(back, 1)

\* Variant with a bug: a stream that ended is not opened again.
Update_no_retry ==
  /\ pc = "update" /\ pc' = "events"
  /\ UNCHANGED <<service, conn, call, before, back, refreshed, public>>

\* update, after its refresh.
Update ==
  /\ pc = "update"
  /\ UNCHANGED <<service, call, before, public>>
  /\ IF conn["event"].link = "closed" /\ descriptor.present
       THEN open_event_stream(conn, "update")
       ELSE pc' = "events" /\ UNCHANGED <<conn, back, refreshed>>

\* Variant with a bug: event_used is not reset after an event.
EventsReceive_keep_bytes ==
  /\ pc = "events" /\ conn["event"].link # "closed"
  /\ \E n \in Chunks("event", ebuf) :
       /\ ebuf' = ebuf \o SubSeq(conn["event"].chan, 1, n)
       /\ conn' = [conn EXCEPT !["event"] = Skip(conn["event"], n)]
  /\ UNCHANGED <<service, pc, call, before, back, refreshed, descriptor, state, mbuf>>

EventsReceive ==
  /\ pc = "events" /\ conn["event"].link # "closed"
  /\ \E n \in Chunks("event", ebuf) :
       LET received == ebuf \o SubSeq(conn["event"].chan, 1, n)
       IN /\ conn' = [conn EXCEPT !["event"] = Skip(conn["event"], n)]
          /\ IF Len(received) = 2
               THEN /\ state' = process_event(state, received[1].message)
                    /\ ebuf' = <<>>
               ELSE ebuf' = received /\ UNCHANGED state
  /\ UNCHANGED <<service, pc, call, before, back, refreshed, descriptor, mbuf>>

\* EAGAIN, or there is no stream.
EventsDrained ==
  /\ pc = "events" /\ conn["event"].link \in {"up", "closed"}
  /\ pc' = "idle"
  /\ UNCHANGED <<service, conn, call, before, back, refreshed, public>>

EventsLost ==
  /\ pc = "events" /\ Lost("event")
  /\ close_event_stream
  /\ conn' = [conn EXCEPT !["event"] = Closed]
  /\ pc' = "idle"
  /\ UNCHANGED <<service, call, before, back, refreshed, descriptor, mbuf>>

LibStep ==
  \/ OpenMonitor \/ MonitorAnswered \/ MonitorRefused
  \/ RefreshReceive \/ RefreshDrained \/ RefreshLost
  \/ StreamAnswered \/ StreamRefused
  \/ Update \/ EventsReceive \/ EventsDrained \/ EventsLost

\* termux_gamepad_create, which goes on as a refresh does without a monitor.
Init ==
  /\ up \in BOOLEAN
  /\ sdesc \in {Unknown} \union [present : {TRUE}, device : Devices]
  /\ sval = Neutral /\ faults = 0
  /\ conn = [k \in Kinds |-> Closed]
  /\ pc = "refresh" /\ call = "create" /\ back = "return" /\ refreshed = 0
  /\ descriptor = Unknown /\ state = Neutral
  /\ mbuf = <<>> /\ ebuf = <<>>
  /\ before = Unknown

Next == Service \/ LibStep \/ \E k \in {"refresh", "update"} : Call(k)

Spec == Init /\ [][Next]_vars

\* The application goes on calling update, what the bridge has sent is
\* delivered in the end, requests are answered, and a bridge that is gone is
\* noticed.
FairSpec ==
  /\ Spec
  /\ WF_vars(LibStep) /\ SF_vars(Call("update"))
  /\ SF_vars(RefreshReceive) /\ SF_vars(EventsReceive)
  /\ \A k \in Kinds : WF_vars(Answer(k)) /\ WF_vars(~up /\ Cut(k))

-----------------------------------------------------------------------------
(* Properties. *)

Messages ==
  [type : {"descriptor", "hotplug"}, desc : Descriptors]
    \union [type : {"event"}, control : Controls, value : Values]
    \union {Syn}

Stream == Seq([message : Messages, half : {1, 2}])

\* Every variable holds a value of its type; the library's connections and
\* its place agree (src/termux_gamepad.c:18-27, the handle).
TypeOK ==
  /\ up \in BOOLEAN /\ sdesc \in Descriptors /\ sval \in States
  /\ faults \in 0..MaxFaults
  /\ conn \in [Kinds -> [link : {"closed", "up", "cut"},
                         role : {"none", "query", "events", "ask", "hotplug"},
                         live : BOOLEAN, chan : Stream]]
  /\ pc \in {"idle", "refresh", "wait_monitor", "wait_stream", "update", "events"}
  /\ call \in {"create", "refresh", "update"}
  /\ back \in {"return", "refresh", "update"} /\ refreshed \in {-1, 0, 1}
  /\ descriptor \in Descriptors /\ before \in Descriptors
  /\ state \in States
  /\ mbuf \in Stream /\ Len(mbuf) <= 1 /\ ebuf \in Stream /\ Len(ebuf) <= 1
  /\ conn["new"].link # "closed" <=> pc = "wait_stream"

WellFramed(stream) ==
  \A i \in 1..Len(stream) :
    /\ stream[i].half = IF i % 2 = 1 THEN 1 ELSE 2
    /\ i % 2 = 0 => stream[i].message = stream[i - 1].message

\* What is buffered and what is still to come are whole messages: no half of
\* a message of an earlier connection is ever put before a new one
\* (monitor_used and event_used, src/termux_gamepad.c:158, 229, 378).
Framed ==
  /\ WellFramed(mbuf \o conn["monitor"].chan)
  /\ WellFramed(ebuf \o conn["event"].chan)
  /\ WellFramed(conn["new"].chan)

\* A stream is open only while the library shows a device, and the state it
\* shows without a stream is that of an untouched gamepad: a controller that
\* went away, or a bridge that ended, leaves no button pressed
\* (close_event_stream and its callers, src/termux_gamepad.c:153-206, 380-384).
NoStreamNoInput ==
  /\ conn["event"].link # "closed" => descriptor.present
  /\ conn["event"].link = "closed" => state = Neutral

\* The state after everything in the stream.
Drained(st, stream) ==
  [c \in Controls |->
     LET ends == {i \in 1..Len(stream) : /\ stream[i].half = 2
                                         /\ stream[i].message.type = "event"
                                         /\ stream[i].message.control = c}
     IN IF ends = {} THEN st[c]
        ELSE stream[CHOOSE i \in ends : \A j \in ends : j <= i].message.value]

\* While the device that a stream was opened for is there, the public state
\* and what is on its way to it add up to the bridge's state, whatever the
\* order of hotplug messages, reads and reconnections (update and
\* process_event, src/termux_gamepad.c:252-285, 403-423).
CatchesUp ==
  conn["event"].link = "up" /\ conn["event"].live
    => Drained(state, ebuf \o conn["event"].chan) = sval

\* The library shows what the bridge has.
Settled ==
  /\ descriptor.present <=> up /\ sdesc.present
  /\ descriptor.present => /\ descriptor = sdesc
                           /\ conn["event"].link = "up"
                           /\ state = sval

\* Once the bridge and its controller stay as they are, an application that
\* goes on calling update sees them as they are, after any number of hotplug
\* messages and lost connections: the handle "reconnects"
\* (include/termux_gamepad.h:61-63).
Settles == <>[][FALSE]_service => <>[]Settled

\* A refresh that returns 0 has changed nothing the application can see of the
\* device, whatever messages it read, streams it reopened and connections it
\* lost: "Returns 1 when presence/identity/profile changed, 0 otherwise"
\* (include/termux_gamepad.h:67).  It speaks for one call: the refresh inside
\* update (src/termux_gamepad.c:396) takes changes over without telling.
RefreshTells ==
  pc = "idle" /\ call = "refresh" /\ refreshed = 0 => descriptor = before
=============================================================================
