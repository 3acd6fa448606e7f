------------------------------- MODULE UdevFake -------------------------------
(***************************************************************************)
(* The fake libudev (src/src/libudev_fake.c) in a program with one thread  *)
(* and one monitor at a time, as the programs of this repository use it:   *)
(* enumerate, then poll the monitor and receive when it is readable.       *)
(*                                                                         *)
(* Every object of the library is a singleton that is never freed, and     *)
(* what it says of the device comes from one cached descriptor, which both *)
(* a scan and a received message overwrite.  The reference counts are read *)
(* by nothing; the monitor's stands here for the program's own count.      *)
(* Calls that fail without changing anything are left out.                 *)
(*                                                                         *)
(* The bridge is the environment, as in GamepadClient; the library reads   *)
(* with MSG_WAITALL, so messages are not cut here.                         *)
(***************************************************************************)
EXTENDS Integers, Sequences

CONSTANTS
  Devices,    \* mode, vendor, product and name of a controller
  MaxFd,      \* bound: descriptor numbers
  MaxRefs,    \* bound: references the program takes to its monitor
  MaxQueue,   \* bound: messages waiting on a connection
  MaxFaults   \* bound: connections cut and bridges ended

Fds == 0..MaxFd
NoFd == -1

\* input_mode, and the name's first byte tells whether there is one.
Modes == {"none", "xinput", "dinput", "xdinput"}
IsDevice(d) == /\ d.mode \in Modes /\ d.vendor \in Nat /\ d.product \in Nat
               /\ d.name \in STRING
NoDevice == [mode |-> "none", vendor |-> 0, product |-> 0, name |-> ""]

ASSUME UdevAssumption ==
  /\ \A d \in Devices : IsDevice(d)
  /\ Devices # {} /\ NoDevice \notin Devices
  /\ MaxFd \in Nat /\ MaxRefs \in Nat \ {0}
  /\ MaxQueue \in Nat /\ MaxFaults \in Nat

Descriptors == [present : BOOLEAN, device : Devices \union {NoDevice}]
Unknown == [present |-> FALSE, device |-> NoDevice]

VARIABLES
  up, sdesc, faults,  \* the bridge: it listens, its descriptor (external)
  file,        \* what each descriptor number is (external)
  descriptor,  \* g_descriptor
  action,      \* g_event_dev.action
  monitor,     \* g_monitor.pipefd[0]
  refs,        \* references the program has to its monitor
  scan         \* the descriptor refresh_descriptor waits on, or none

service == <<up, sdesc, faults>>
library == <<descriptor, action, monitor, refs, scan>>
vars == <<service, file, library>>

-----------------------------------------------------------------------------
(* Descriptor numbers and connections. *)

File(kind, link, chan) == [kind |-> kind, link |-> link, chan |-> chan]
Unused == File("closed", "none", <<>>)
Other == File("other", "none", <<>>)
Connection(request) == File(request, "up", <<>>)

Connections == {fd \in Fds : file[fd].kind \notin {"closed", "other"}}
FreeFds == {fd \in Fds : file[fd] = Unused}
LowestFree == CHOOSE fd \in FreeFds : \A g \in FreeFds : fd <= g

Listening(fd, kind) == file[fd].kind = kind /\ file[fd].link = "up"
Readable(fd) == file[fd].chan # <<>>
Lost(fd) == file[fd].link = "cut" /\ file[fd].chan = <<>>

\* connect_bridge: a new descriptor, or -1 with nothing left open.
connect_bridge(request, Got(_)) ==
  \/ /\ up /\ FreeFds # {}
     /\ file' = [file EXCEPT ![LowestFree] = Connection(request)]
     /\ Got(LowestFree)
  \/ UNCHANGED file /\ Got(NoFd)

close(fd) == file' = [file EXCEPT ![fd] = Unused]

-----------------------------------------------------------------------------
(* The bridge and the rest of the program. *)

Answer(fd) ==
  /\ up
  /\ \/ /\ Listening(fd, "query")
        /\ file' = [file EXCEPT ![fd] = File("events", "up", <<sdesc>>)]
     \/ /\ Listening(fd, "ask")
        /\ file' = [file EXCEPT ![fd] = File("hotplug", "up", <<sdesc>>)]
  /\ UNCHANGED <<service, library>>

\* REMOVE and ADD, to every monitor.
Hotplug ==
  /\ up
  /\ sdesc' \in IF sdesc.present THEN {[sdesc EXCEPT !.present = FALSE]}
                ELSE [present : {TRUE}, device : Devices]
  /\ \A fd \in Fds : Listening(fd, "hotplug") => Len(file[fd].chan) < MaxQueue
  /\ file' = [fd \in Fds |-> IF Listening(fd, "hotplug")
                             THEN File("hotplug", "up", Append(file[fd].chan, sdesc'))
                             ELSE file[fd]]
  /\ UNCHANGED <<up, faults, library>>

Cut(fd) ==
  /\ file[fd].link = "up"
  /\ up => faults < MaxFaults
  /\ faults' = IF up THEN faults + 1 ELSE faults
  /\ \E n \in 0..Len(file[fd].chan) :
       file' = [file EXCEPT ![fd] =
                  File(file[fd].kind, "cut", SubSeq(file[fd].chan, 1, n))]
  /\ UNCHANGED <<up, sdesc, library>>

Exit ==
  /\ up /\ faults < MaxFaults
  /\ up' = FALSE /\ faults' = faults + 1
  /\ UNCHANGED <<sdesc, file, library>>

Start ==
  /\ ~up /\ \A fd \in Fds : file[fd].link # "up"
  /\ up' = TRUE
  /\ sdesc' \in {Unknown} \union [present : {TRUE}, device : Devices]
  /\ UNCHANGED <<faults, file, library>>

\* The program opens and closes other files.
OtherFile ==
  /\ scan = NoFd
  /\ \/ FreeFds # {} /\ file' = [file EXCEPT ![LowestFree] = Other]
     \/ \E fd \in Fds : file[fd] = Other /\ close(fd)
  /\ UNCHANGED <<service, library>>

-----------------------------------------------------------------------------
(* The library. *)

\* Variant with a bug: only a device that is there is taken over.
update_descriptor_present(desc) ==
  descriptor' = IF desc.present THEN desc ELSE descriptor

update_descriptor(desc) == descriptor' = desc

\* udev_enumerate_scan_devices sends its query and waits for the answer.
Scan ==
  /\ scan = NoFd
  /\ connect_bridge("query", LAMBDA fd : scan' = fd)
  /\ UNCHANGED <<service, descriptor, action, monitor, refs>>

\* The descriptor is cached whether or not a device is present.
ScanAnswered ==
  /\ scan # NoFd /\ Readable(scan)
  /\ close(scan) /\ scan' = NoFd
  /\ update_descriptor(Head(file[scan].chan))
  /\ UNCHANGED <<service, action, monitor, refs>>

\* Variant with a bug: the failed query's socket stays open.
ScanRefused_open ==
  /\ scan # NoFd /\ Lost(scan)
  /\ scan' = NoFd
  /\ UNCHANGED <<service, file, descriptor, action, monitor, refs>>

\* No answer: the cached descriptor stays, although the bridge may be gone.
ScanRefused ==
  /\ scan # NoFd /\ Lost(scan)
  /\ close(scan) /\ scan' = NoFd
  /\ UNCHANGED <<service, descriptor, action, monitor, refs>>

\* udev_monitor_new_from_netlink returns NULL if there is no connection.  A
\* second monitor would overwrite the descriptor of the first.
NewMonitor ==
  /\ scan = NoFd /\ refs = 0
  /\ connect_bridge("ask", LAMBDA fd : /\ monitor' = fd
                                       /\ refs' = IF fd = NoFd THEN 0 ELSE 1)
  /\ UNCHANGED <<service, descriptor, action, scan>>

RefMonitor ==
  /\ scan = NoFd /\ refs \in 1..(MaxRefs - 1)
  /\ refs' = refs + 1
  /\ UNCHANGED <<service, file, descriptor, action, monitor, scan>>

\* Variant with a bug: the last reference does not close the socket.
UnrefMonitor_late ==
  /\ scan = NoFd /\ refs > 0
  /\ IF monitor # NoFd /\ refs > 1 THEN close(monitor) /\ monitor' = NoFd
                                   ELSE UNCHANGED <<file, monitor>>
  /\ refs' = refs - 1
  /\ UNCHANGED <<service, descriptor, action, scan>>

\* The socket is closed whatever other references there are.
UnrefMonitor ==
  /\ scan = NoFd /\ refs > 0
  /\ IF monitor # NoFd THEN close(monitor) /\ monitor' = NoFd
                       ELSE UNCHANGED <<file, monitor>>
  /\ refs' = refs - 1
  /\ UNCHANGED <<service, descriptor, action, scan>>

\* Variant with a bug: the action of the message before stays.
ReceiveDevice_same_action ==
  /\ scan = NoFd /\ refs > 0 /\ monitor # NoFd /\ Readable(monitor)
  /\ LET desc == Head(file[monitor].chan)
     IN /\ file' = [file EXCEPT ![monitor] =
                      File(file[monitor].kind, file[monitor].link, Tail(file[monitor].chan))]
        /\ update_descriptor(desc)
        /\ action' = IF action = "none" THEN "add" ELSE action
  /\ UNCHANGED <<service, monitor, refs, scan>>

\* udev_monitor_receive_device, when poll has reported a message.  At the end
\* of the stream it returns NULL and changes nothing, not even the poll.
ReceiveDevice ==
  /\ scan = NoFd /\ refs > 0 /\ monitor # NoFd /\ Readable(monitor)
  /\ LET desc == Head(file[monitor].chan)
     IN /\ file' = [file EXCEPT ![monitor] =
                      File(file[monitor].kind, file[monitor].link, Tail(file[monitor].chan))]
        /\ update_descriptor(desc)
        /\ action' = IF desc.present THEN "add" ELSE "remove"
  /\ UNCHANGED <<service, monitor, refs, scan>>

Library ==
  \/ Scan \/ ScanAnswered \/ ScanRefused
  \/ NewMonitor \/ RefMonitor \/ UnrefMonitor \/ ReceiveDevice

Init ==
  /\ up \in BOOLEAN /\ faults = 0
  /\ sdesc \in {Unknown} \union [present : {TRUE}, device : Devices]
  /\ file = [fd \in Fds |-> Unused]
  /\ descriptor = Unknown /\ action = "none"
  /\ monitor = NoFd /\ refs = 0 /\ scan = NoFd

Next ==
  \/ \E fd \in Fds : Answer(fd) \/ Cut(fd)
  \/ Hotplug \/ Exit \/ Start \/ OtherFile
  \/ Library

Spec == Init /\ [][Next]_vars

\* The bridge answers, a process that is gone loses its sockets, and the
\* program goes on receiving, if between scans, what poll reports.
FairSpec ==
  /\ Spec
  /\ \A fd \in Fds : WF_vars(Answer(fd)) /\ WF_vars(~up /\ Cut(fd))
  /\ WF_vars(ScanAnswered) /\ WF_vars(ScanRefused) /\ SF_vars(ReceiveDevice)

-----------------------------------------------------------------------------
(* What the library and the shim say of a device. *)

Low16(n) == n % 65536

TG_XINPUT_NAME == "Termux Virtual Xbox Controller"
TG_DINPUT_NAME == "Termux Virtual DirectInput Controller"
TG_DINPUT_VENDOR == 4617    \* 1209 in hexadecimal
TG_DINPUT_PRODUCT == 1

\* Variant with a bug: the override is not looked at.
dinput_mode_device(override, device) == device.mode = "dinput"

dinput_mode(override, device) ==
  CASE override = "dinput" -> TRUE
    [] override = "xinput" -> FALSE
    [] OTHER -> device.mode = "dinput"

device_name(dinput, device) ==
  IF device.name # "" THEN device.name
  ELSE IF dinput THEN TG_DINPUT_NAME ELSE TG_XINPUT_NAME

\* NAME, ID_VENDOR_ID and ID_MODEL_ID, numbers for their four hex digits: the
\* library has its own "1209" and "0001".
UdevIdentity(override, device) ==
  LET dinput == dinput_mode(override, device)
  IN [name    |-> device_name(dinput, device),
      vendor  |-> IF dinput THEN 4617 ELSE Low16(device.vendor),
      product |-> IF dinput THEN 1 ELSE Low16(device.product)]

tg_is_dinput(mode_override, device) ==
  IF mode_override >= 0 THEN mode_override = 1 ELSE device.mode = "dinput"

\* EVIOCGNAME and EVIOCGID on a descriptor opened while this device is there.
EvdevIdentity(override, device) ==
  LET dinput == tg_is_dinput(IF override = "dinput" THEN 1
                             ELSE IF override = "xinput" THEN 0 ELSE -1, device)
  IN [name    |-> device_name(dinput, device),
      vendor  |-> IF dinput THEN TG_DINPUT_VENDOR ELSE Low16(device.vendor),
      product |-> IF dinput THEN TG_DINPUT_PRODUCT ELSE Low16(device.product)]

-----------------------------------------------------------------------------
(* Properties. *)

Files ==
  {Unused, Other}
    \union [kind : {"query", "events", "ask", "hotplug"}, link : {"up", "cut"},
            chan : Seq(Descriptors)]

\* Every variable has a value of its type; a program without a reference has
\* no monitor (udev_monitor_unref).
TypeOK ==
  /\ up \in BOOLEAN /\ sdesc \in Descriptors /\ faults \in 0..MaxFaults
  /\ file \in [Fds -> Files]
  /\ descriptor \in Descriptors /\ action \in {"none", "add", "remove"}
  /\ monitor \in Fds \union {NoFd} /\ scan \in Fds \union {NoFd}
  /\ refs \in 0..MaxRefs
  /\ refs = 0 => monitor = NoFd

\* The library's descriptor numbers are its own connections, and it has no
\* other: no call leaves a socket open, and none closes or reads a number that
\* is somebody else's by now (refresh_descriptor, udev_monitor_unref).
OwnDescriptors ==
  /\ Connections = {monitor, scan} \ {NoFd}
  /\ monitor # NoFd => file[monitor].kind \in {"ask", "hotplug"}
  /\ scan # NoFd => file[scan].kind \in {"query", "events"}

Attached == monitor # NoFd /\ file[monitor].link = "up"

\* What a program knows once it has read what waits in its monitor.
Coming == IF Readable(monitor)
          THEN file[monitor].chan[Len(file[monitor].chan)] ELSE descriptor

\* While the monitor's connection lasts, the cache and the messages on their
\* way to it end in the device the bridge has, however scans, whose answers
\* are newer than messages that wait, fall between them (update_descriptor).
CacheCatchesUp ==
  Attached /\ file[monitor].kind = "hotplug" => Coming = sdesc

\* A program that joins what udev says of the device with what the event
\* device says of itself, as SDL and Firefox do, sees one device: once the
\* messages are read, both name the same, whatever TERMUX_GAMEPAD_MODE is
\* (dinput_mode and udev_device_get_property_value, src/libudev_fake.c:92-102
\* and 188-198; tg_is_dinput and EVIOCGID, src/evdev_preload.c:131-140, 419-431).
SameIdentity ==
  Attached /\ file[monitor].kind = "hotplug" /\ ~Readable(monitor) /\ sdesc.present
    => \A override \in {"", "dinput", "xinput"} :
         UdevIdentity(override, descriptor.device)
           = EvdevIdentity(override, sdesc.device)

\* A program that keeps its monitor and receives what poll reports lists, in
\* the end, what the bridge has, and the last action it was given says so:
\* "applications with udev hotplug support receive REMOVE/ADD notifications"
\* (src/README.md:192-193).
Informed ==
  <>[](up /\ Attached) /\ <>[][FALSE]_<<service, monitor>>
    => <>[](descriptor = sdesc /\ (action = "add" <=> sdesc.present))
=============================================================================
