----------------------------- MODULE BridgeService -----------------------------
(***************************************************************************)
(* What the bridge (src/src/lorie_evdev_bridge.c) promises its clients,    *)
(* with no loop, slots, buffers or X server: a connection is asked for     *)
(* once or more, is told what changes, and may be lost at any time.        *)
(* Bridge implements this (BridgeRefinement), and the bridge that the      *)
(* client library is checked against does no more (ClientRefinement).      *)
(***************************************************************************)
EXTENDS Naturals

CONSTANTS
  Conns,              \* names of connections; a name may be used again
  Devices, NoDevice,  \* what a descriptor says, and that there is no device
  NoNews,             \* what a monitor knows before its first message
  Zero                \* the <<code, value>> pairs of an untouched controller

VARIABLES
  device,    \* the device the bridge has
  picture,   \* the pairs a stream that began now would be told
  session    \* what each connection has been told

vars == <<device, picture, session>>

Session(role, view, live, news) ==
  [role |-> role, view |-> view, live |-> live, news |-> news]
Closed == Session("closed", {}, FALSE, NoNews)
Opened == Session("uninitialized", {}, FALSE, NoNews)

CodesIn(pairs) == {p[1] : p \in pairs}

\* One value for each code of the controller.
IsPicture(pairs) ==
  /\ CodesIn(pairs) = CodesIn(Zero)
  /\ \A p, q \in pairs : p[1] = q[1] => p = q

\* A reader's values after a report.
Updated(view, report) == {p \in view : p[1] \notin CodesIn(report)} \union report

\* Any step may lose connections: the client hangs up, is dropped for not
\* reading or for a bad message, or the bridge ends.
Keeping(sessions) ==
  \E lost \in SUBSET Conns :
    session' = [c \in Conns |-> IF c \in lost THEN Closed ELSE sessions[c]]

\* The same message to every session of a role.
Telling(role, Upd(_)) ==
  Keeping([c \in Conns |-> IF session[c].role = role THEN Upd(session[c])
                                                      ELSE session[c]])

-----------------------------------------------------------------------------
Open(c) ==
  /\ UNCHANGED <<device, picture>>
  /\ Keeping([session EXCEPT ![c] = Opened])

\* QUERY_DESCRIPTOR: the descriptor, and the snapshot if there is a device.
Query(c) ==
  /\ session[c].role # "closed"
  /\ LET s == session[c]
     IN Keeping([session EXCEPT ![c] =
          IF device = NoDevice
          THEN Session("events", s.view, FALSE, s.news)
          ELSE Session("events", Updated(s.view, picture), TRUE, s.news)])
  /\ UNCHANGED <<device, picture>>

\* MONITOR: the device there is, as a hotplug message.
Monitor(c) ==
  /\ session[c].role # "closed"
  /\ Keeping([session EXCEPT ![c] =
       Session("monitor", session[c].view, FALSE, device)])
  /\ UNCHANGED <<device, picture>>

\* The controller moves: the streams are told what is different.
Change ==
  /\ device # NoDevice /\ UNCHANGED device
  /\ Telling("events", LAMBDA s :
       Session(s.role, Updated(s.view, picture' \ picture), s.live, s.news))
  /\ IsPicture(picture')

\* A stream outlives its device but says nothing of the next one's start.
Remove ==
  /\ device # NoDevice
  /\ device' = NoDevice /\ picture' = Zero
  /\ Keeping([c \in Conns |->
       LET s == session[c]
       IN Session(s.role, s.view, FALSE,
                  IF s.role = "monitor" THEN NoDevice ELSE s.news)])

Add ==
  /\ device = NoDevice
  /\ device' \in Devices
  /\ Telling("monitor", LAMBDA s : Session(s.role, s.view, s.live, device'))
  /\ UNCHANGED picture

Lose == Keeping(session) /\ UNCHANGED <<device, picture>>

\* Another bridge, when every connection to the one before has ended.
Restart ==
  /\ \A c \in Conns : session[c].role = "closed"
  /\ device' \in Devices \union {NoDevice} /\ picture' = Zero
  /\ UNCHANGED session

Init ==
  /\ device \in Devices \union {NoDevice} /\ picture = Zero
  /\ session = [c \in Conns |-> Closed]

Next ==
  \/ Lose
  \/ \E c \in Conns : Open(c) \/ Query(c) \/ Monitor(c)
  \/ Change \/ Remove \/ Add \/ Restart

Spec == Init /\ [][Next]_vars

-----------------------------------------------------------------------------
\* What a client may rely on: a live stream says what a new one would, and the
\* last message of a monitor is the device there is.
Kept ==
  \A c \in Conns :
    /\ session[c].role = "events" /\ session[c].live => session[c].view = picture
    /\ session[c].role = "monitor" => session[c].news = device
=============================================================================
