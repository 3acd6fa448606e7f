--------------------------- MODULE ClientRefinement ---------------------------
(* The bridge that GamepadClient assumes keeps to BridgeService.  The stream   *)
(* being opened and the one that is open are one session, since the library    *)
(* never has both; a session has been told what its client holds and what is   *)
(* still on its way.                                                           *)
EXTENDS GamepadClient

Sessions == {"monitor", "stream"}
Connection(c) ==
  CASE c = "monitor" -> conn["monitor"]
    [] c = "stream"  -> IF conn["new"].link # "closed" THEN conn["new"] ELSE conn["event"]

DeviceOf(desc) == IF desc.present THEN desc.device ELSE NoDevice

Role == [r \in {"query", "ask", "events", "hotplug"} |->
           CASE r = "events"  -> "events"
             [] r = "hotplug" -> "monitor"
             [] OTHER         -> "uninitialized"]

Pairs(values) == {<<c, values[c]>> : c \in DOMAIN values}

\* A stream that is open began with a value for every control; one that is
\* being opened has told those its snapshot holds.
View ==
  IF conn["new"].link = "closed"
  THEN Pairs(Drained(state, ebuf \o conn["event"].chan))
  ELSE LET chan == conn["new"].chan
           told == {chan[i].message.control :
                      i \in {i \in DOMAIN chan : chan[i].message.type = "event"}}
       IN Pairs([c \in told |-> Drained(state, chan)[c]])

News ==
  LET coming == mbuf \o conn["monitor"].chan
  IN DeviceOf(IF coming = <<>> THEN descriptor
                               ELSE coming[Len(coming)].message.desc)

NoNews == "no news"

Session(c) ==
  LET k == Connection(c) IN
  IF k.link # "up"
  THEN [role |-> "closed", view |-> {}, live |-> FALSE, news |-> NoNews]
  ELSE [role |-> Role[k.role], live |-> k.live,
        view |-> IF k.role = "events" THEN View ELSE {},
        news |-> IF k.role = "hotplug" THEN News ELSE NoNews]

Bridge == INSTANCE BridgeService WITH
             Conns   <- Sessions,
             device  <- DeviceOf(sdesc),
             picture <- Pairs(sval),
             session <- [c \in Sessions |-> Session(c)],
             Zero    <- Pairs(Neutral)

\* What the library is checked against is what the bridge promises and no
\* stranger thing; and since a session counts what its client holds, no half
\* message, reconnection or change of streams in the library loses, doubles or
\* misplaces what was told (termux_gamepad_refresh and termux_gamepad_update).
KeepsToService == Bridge!Spec
=============================================================================
