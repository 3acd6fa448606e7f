----------------------------- MODULE MCBridgeLive -----------------------------
(* Progress: three clients compete for two slots, while hierarchy changes    *)
(* arrive.  One asks for hotplug messages and may read none of them, one     *)
(* sends without end, one never sends.                                       *)
EXTENDS Bridge, TLC

CONSTANTS c1, c2, c3, p1

MCConns == {c1, c2, c3}
MCCommands ==
  (c1 :> {[command |-> "monitor"]}) @@ (c2 :> {[command |-> "stop"]}) @@ (c3 :> {})
=============================================================================
