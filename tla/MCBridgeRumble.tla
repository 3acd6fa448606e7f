---------------------------- MODULE MCBridgeRumble ----------------------------
(* Rumble up to the end of the process: two clients with different levels    *)
(* and durations, one that stops or sends what is no message, one that may   *)
(* be dropped while it is answered, and a signal at any point of the loop.   *)
EXTENDS Bridge, TLC

CONSTANTS c1, c2, p1

Rumble(low, high, duration) ==
  [command |-> "rumble", low |-> low, high |-> high, duration |-> duration]

MCConns == {c1, c2}
MCCommands ==
  (c1 :> {Rumble(1, 0, 0), [command |-> "stop"], [command |-> "invalid"]}) @@
  (c2 :> {Rumble(2, 1, 1), [command |-> "query"]})
=============================================================================
