--------------------------- MODULE BridgeRefinement ---------------------------
(* The bridge implements BridgeService: a session is what a client's slot has *)
(* been told.  A connection that waits for accept is not a session yet, and   *)
(* one whose client hung up is a session until the bridge notices.            *)
EXTENDS Bridge

Heard(role, t) == [role |-> role, view |-> t.view, live |-> t.live, news |-> t.news]

SlotOf(c) == CHOOSE s \in Slots : clients[s].conn = c

Session(c) == IF \E s \in Slots : clients[s].conn = c
              THEN Heard(clients[SlotOf(c)].kind, told[SlotOf(c)])
              ELSE Heard("closed", NothingTold)

Service == INSTANCE BridgeService WITH
             picture <- Snapshot(state),
             session <- [c \in Conns |-> Session(c)],
             Zero    <- Snapshot(ZeroState)

\* Whatever the order of polls, pumps, accepts, answers, broadcasts and closes,
\* what the clients are told is what the service promises: no report, snapshot
\* or hotplug message is lost, doubled, told to the wrong kind of client or
\* left over in a slot that is used again (broadcast_events, send_snapshot,
\* close_client and accept_clients).
ImplementsService == Service!Spec
=============================================================================
