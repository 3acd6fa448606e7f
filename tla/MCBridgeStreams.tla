--------------------------- MODULE MCBridgeStreams ---------------------------
(* Streams and monitors: two slots, no rumble. *)
EXTENDS BridgeRefinement, TLC

CONSTANTS c1, c2, p1, p2

Query == [command |-> "query"]
Monitor == [command |-> "monitor"]

MCConns == {c1, c2}
MCCommands == (c1 :> {Query}) @@ (c2 :> {Monitor})
MCDeviceEvents ==
  {[type |-> "motion", raw |-> (4 :> 32767)]}
=============================================================================
