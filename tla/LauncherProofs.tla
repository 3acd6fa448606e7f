---------------------------- MODULE LauncherProofs ----------------------------
(***************************************************************************)
(* One bridge at one path, for every number of launchers and bridges: as   *)
(* long as launchers do not overlap, no order of their tests and of the    *)
(* bridge's system calls, and no end of a bridge, leads to a second bridge *)
(* or to one that serves and cannot be reached.                            *)
(***************************************************************************)
EXTENDS Launcher, TLAPS

\* One launcher is at work, and it found no bridge before it removes the file
\* and starts one; from then on there is no bridge but its own.
Alone ==
  /\ \A s, t \in Starters : Active(s) /\ Active(t) => s = t
  /\ \A s \in Starters :
       /\ starter[s] \in {"remove", "spawn"} => \A b \in Bridges : ~Alive(b)
       /\ starter[s] \in {"wait", "confirm"} =>
            \A b \in Bridges : Alive(b) => b = own[s]
  /\ \A a, b \in Bridges : Alive(a) /\ Alive(b) => a = b

\* The path is that of the bridge that bound it, until that bridge closes; and
\* a launcher of the usual path has removed what was there before.
Bound ==
  /\ \A b \in Bridges : bridge[b] \in {"listen", "serving"} => path = b
  /\ ~custom =>
       \A s \in Starters :
         /\ starter[s] = "spawn" => path = NoBridge
         /\ starter[s] \in {"wait", "confirm"} => path \in {NoBridge, own[s]}

IInv == TypeOK /\ (~overlap => Alone /\ Bound)

LEMMA InitIInv == Init => IInv
<1> SUFFICES ASSUME Init PROVE IInv OBVIOUS
<1>1. /\ \A b \in Bridges : bridge[b] = "absent"
      /\ \A s \in Starters : starter[s] = "failed"
  BY DEF Init
<1>2. TypeOK
  <2>1. overlap \in BOOLEAN BY DEF Init
  <2> QED BY <2>1, LauncherAssumption DEF Init, TypeOK, BridgeStates, StarterStates
<1>3. Alone /\ Bound BY <1>1 DEF Alone, Bound, Active, Alive
<1> QED BY <1>2, <1>3 DEF IInv

\* A launcher that begins while another is at work makes the rest void.
LEMMA BeginIInv == ASSUME IInv, NEW s \in Starters, Begin(s) PROVE IInv'
<1>1. TypeOK' BY DEF IInv, TypeOK, Begin, Moves, StarterStates
<1>2. ASSUME ~overlap' PROVE Alone' /\ Bound'
  <2>1. ~overlap /\ \A t \in Starters : ~Active(t) BY <1>2 DEF Begin
  <2>2. /\ \A t \in Starters : starter'[t] = IF t = s THEN "test" ELSE starter[t]
        /\ UNCHANGED <<path, bridge, own, custom>>
    BY DEF Begin, Moves, IInv, TypeOK
  <2> QED BY <2>1, <2>2 DEF IInv, Alone, Bound, Active, Alive
<1> QED BY <1>1, <1>2 DEF IInv

\* Tests change nothing but the launcher's place.
LEMMA TestIInv ==
  ASSUME IInv, NEW s \in Starters,
         TestSocket(s) \/ PgrepRunning(s) \/ PgrepOther(s)
  PROVE  IInv'
<1> USE DEF TestSocket, PgrepRunning, PgrepOther, Moves, StarterOnly
<1>1. TypeOK' BY DEF IInv, TypeOK, StarterStates
<1>2. ASSUME ~overlap' PROVE Alone' /\ Bound'
  <2>1. /\ \A t \in Starters : t # s => starter'[t] = starter[t]
        /\ starter'[s] \in {"pgrep_running", "pgrep_other", "running", "failed", "remove"}
        /\ starter'[s] = "remove" => ~SomeBridge
        /\ Active(s)
        /\ UNCHANGED <<path, bridge, own, custom, overlap>>
    BY DEF IInv, TypeOK, Active
  <2> QED BY <1>2, <2>1 DEF IInv, Alone, Bound, Active, Alive, SomeBridge
<1> QED BY <1>1, <1>2 DEF IInv

LEMMA RemoveIInv == ASSUME IInv, NEW s \in Starters, Remove(s) PROVE IInv'
<1> USE DEF Remove, Moves, StarterOnly
<1>1. TypeOK' BY DEF IInv, TypeOK, StarterStates
<1>2. ASSUME ~overlap' PROVE Alone' /\ Bound'
  <2>1. /\ \A t \in Starters : starter'[t] = IF t = s THEN "spawn" ELSE starter[t]
        /\ starter[s] = "remove"
        /\ path' = IF custom THEN path ELSE NoBridge
        /\ UNCHANGED <<bridge, own, custom, overlap>>
    BY DEF IInv, TypeOK
  <2>2. \A b \in Bridges : bridge[b] = "absent"
    BY <1>2, <2>1 DEF IInv, Alone, Alive
  <2>3. \A t \in Starters : Active(t) => t = s
    BY <1>2, <2>1 DEF IInv, Alone, Active
  <2>4. Alone' BY <1>2, <2>1, <2>2, <2>3 DEF IInv, Alone, Active, Alive
  <2>5. Bound' BY <1>2, <2>1, <2>2, <2>3 DEF IInv, Bound, Active
  <2> QED BY <2>4, <2>5
<1> QED BY <1>1, <1>2 DEF IInv

LEMMA SpawnIInv == ASSUME IInv, NEW s \in Starters, Spawn(s) PROVE IInv'
<1>1. PICK b \in Bridges :
        /\ bridge' = [bridge EXCEPT ![b] = "opening"]
        /\ own' = [own EXCEPT ![s] = b]
  BY DEF Spawn
<1>2. TypeOK'
  BY <1>1, LauncherAssumption DEF IInv, TypeOK, Spawn, Moves, StarterStates, BridgeStates
<1>3. ASSUME ~overlap' PROVE Alone' /\ Bound'
  <2>1. /\ \A t \in Starters : starter'[t] = IF t = s THEN "wait" ELSE starter[t]
        /\ \A a \in Bridges : bridge'[a] = IF a = b THEN "opening" ELSE bridge[a]
        /\ own'[s] = b /\ starter[s] = "spawn"
        /\ UNCHANGED <<path, custom, overlap>>
    BY <1>1 DEF IInv, TypeOK, Spawn, Moves
  <2>2. \A a \in Bridges : bridge[a] = "absent"
    BY <1>3, <2>1 DEF IInv, Alone, Alive
  <2>3. \A t \in Starters : Active(t) => t = s
    BY <1>3, <2>1 DEF IInv, Alone, Active
  <2>4. Alone' BY <1>3, <2>1, <2>2, <2>3 DEF Alone, Active, Alive
  <2>5. Bound' BY <1>3, <2>1, <2>2, <2>3 DEF IInv, Bound, Active
  <2> QED BY <2>4, <2>5
<1> QED BY <1>2, <1>3 DEF IInv

LEMMA WaitIInv ==
  ASSUME IInv, NEW s \in Starters, Wait(s) \/ Confirm(s) PROVE IInv'
<1> USE DEF Wait, Confirm, Moves, StarterOnly
<1>1. TypeOK' BY LauncherAssumption DEF IInv, TypeOK, StarterStates
<1>2. ASSUME ~overlap' PROVE Alone' /\ Bound'
  <2>1. /\ \A t \in Starters : t # s => starter'[t] = starter[t]
        /\ starter[s] \in {"wait", "confirm"}
        /\ starter'[s] \in {"wait", "confirm", "started", "failed"}
        /\ UNCHANGED <<path, bridge, own, custom, overlap>>
    BY DEF IInv, TypeOK
  <2>2. Alone' BY <1>2, <2>1 DEF IInv, Alone, Active, Alive
  <2>3. Bound' BY <1>2, <2>1 DEF IInv, Bound
  <2> QED BY <2>2, <2>3
<1> QED BY <1>1, <1>2 DEF IInv

\* A step of a bridge moves one that is alive, and touches the path only if it
\* unlinks or binds it.
LEMMA BridgeIInv ==
  ASSUME IInv, NEW b \in Bridges, BridgeStep(b) \/ Close(b) \/ Crash(b)
  PROVE  IInv'
<1> USE DEF BridgeStep, OpenDisplay, UnlinkOld, Bind, Listen, UnlinkOwn, Leave,
            Close, Crash, Goes, BridgeOnly
<1>1. TypeOK'
  BY LauncherAssumption DEF IInv, TypeOK, BridgeStates
<1>2. ASSUME ~overlap' PROVE Alone' /\ Bound'
  <2>1. /\ Alive(b)
        /\ \A a \in Bridges : a # b => bridge'[a] = bridge[a]
        /\ UNCHANGED <<starter, own, custom, overlap>>
    BY DEF IInv, TypeOK, Alive
  <2>2. /\ bridge'[b] = "listen" => path' = b
        /\ bridge'[b] = "serving" => bridge[b] = "listen" /\ path' = path
        /\ path' \in {path, b, NoBridge}
    BY DEF IInv, TypeOK, Alive
  <2>3. Alone' BY <1>2, <2>1 DEF IInv, Alone, Active, Alive
  <2>4. \A a \in Bridges : a # b => bridge[a] = "absent"
    BY <1>2, <2>1 DEF IInv, Alone, Alive
  <2>5. Bound' BY <1>2, <2>1, <2>2, <2>4 DEF IInv, Alone, Bound
  <2> QED BY <2>3, <2>5
<1> QED BY <1>1, <1>2 DEF IInv

LEMMA NextIInv == IInv /\ [Next]_vars => IInv'
<1> SUFFICES ASSUME IInv, [Next]_vars PROVE IInv' OBVIOUS
<1>1. ASSUME NEW s \in Starters, Begin(s) \/ StarterStep(s) PROVE IInv'
  BY <1>1, BeginIInv, TestIInv, RemoveIInv, SpawnIInv, WaitIInv DEF StarterStep
<1>2. ASSUME NEW b \in Bridges, BridgeStep(b) \/ Close(b) \/ Crash(b) PROVE IInv'
  BY <1>2, BridgeIInv
<1>3. CASE UNCHANGED vars
  BY <1>3 DEF vars, IInv, TypeOK, Alone, Bound, Active, Alive
<1> QED BY <1>1, <1>2, <1>3 DEF Next

LEMMA Invariant == Spec => []IInv
  BY InitIInv, NextIInv, PTL DEF Spec

\* Every variable keeps its type, and a launcher that waits has started a
\* bridge.
THEOREM TypeCorrect == Spec => []TypeOK
<1>1. IInv => TypeOK BY DEF IInv
<1> QED BY <1>1, Invariant, PTL

\* Launchers that do not overlap never cause two bridges.
THEOREM AtMostOneBridge == Spec => []OneBridge
<1>1. IInv => OneBridge BY DEF IInv, Alone, OneBridge
<1> QED BY <1>1, Invariant, PTL

\* A bridge that serves has the path.
THEOREM Reachable == Spec => []ServingIsReachable
<1>1. IInv => ServingIsReachable BY DEF IInv, Bound, ServingIsReachable
<1> QED BY <1>1, Invariant, PTL

\* "started" is said of the launcher's own bridge.
THEOREM Started == Spec => StartedIsOwn
<1> DEFINE Own == ~overlap /\ ~custom =>
             \A s \in Starters :
               starter[s] = "confirm" /\ starter'[s] = "started" => path = own[s]
<1>1. IInv /\ [Next]_vars => [Own]_vars
  <2> SUFFICES ASSUME IInv, Next, ~overlap, ~custom, NEW s \in Starters,
                      starter[s] = "confirm", starter'[s] = "started"
               PROVE  path = own[s]
    OBVIOUS
  <2>1. path \in {NoBridge, own[s]} BY DEF IInv, Bound
  <2>2. SocketFile
    <3>1. CASE \E b \in Bridges : BridgeStep(b) \/ Close(b) \/ Crash(b)
      BY <3>1 DEF BridgeStep, OpenDisplay, UnlinkOld, Bind, Listen, UnlinkOwn,
                  Leave, Close, Crash, BridgeOnly
    <3>2. CASE \E t \in Starters : Begin(t) \/ StarterStep(t)
      <4>1. PICK t \in Starters : Begin(t) \/ StarterStep(t) BY <3>2
      <4> QED BY <4>1 DEF IInv, TypeOK, Begin, StarterStep, TestSocket, PgrepRunning,
                  PgrepOther, Remove, Spawn, Wait, Confirm, Moves
    <3> QED BY <3>1, <3>2 DEF Next
  <2> QED BY <2>1, <2>2 DEF SocketFile
<1> QED BY <1>1, Invariant, PTL DEF Spec, StartedIsOwn
=============================================================================
