-------------------------------- MODULE Launcher --------------------------------
(***************************************************************************)
(* The launchers (src/tools/gamepad-start, and ensure_bridge in            *)
(* src/tools/gamepad-run, which is the same), the start and the end of the *)
(* bridge process (create_server and main), and what they share: the       *)
(* socket's path in the file system and the process list.                  *)
(*                                                                         *)
(* Each test of a launcher and each system call of the bridge is a step.   *)
(* A bridge is in the process list from the moment it is started: fork and *)
(* exec are not told apart.  Bridges are started by launchers only.        *)
(***************************************************************************)
EXTENDS Naturals, FiniteSets

CONSTANTS
  Starters,   \* launchers
  Bridges,    \* process ids of bridges; one may be used again
  NoBridge,
  MaxWait,    \* turns of the loop that waits for the socket (40)
  MaxEnds     \* bound: bridges stopped, killed or failing

ASSUME LauncherAssumption ==
  /\ NoBridge \notin Bridges /\ MaxWait \in Nat /\ MaxEnds \in Nat

VARIABLES
  path,     \* the bridge that bound the socket file, alive or not; or none
  bridge,   \* where each process is
  starter,  \* where each launcher is
  own,      \* the bridge each launcher started last
  waited,   \* bridge_wait
  custom,   \* the path is not in the launchers' own pattern
  ends,
  overlap   \* history: two launchers have been active at the same time

vars == <<path, bridge, starter, own, waited, custom, ends, overlap>>

BridgeStates == {"absent", "opening", "unlink", "bind", "listen", "serving",
                 "closing", "exiting"}
StarterStates == {"test", "pgrep_running", "pgrep_other", "remove", "spawn",
                  "wait", "confirm", "running", "started", "failed"}

Alive(b) == bridge[b] # "absent"
Active(s) == starter[s] \notin {"running", "started", "failed"}

\* test -S, and pgrep -f
SocketFile == path # NoBridge
SomeBridge == \E b \in Bridges : Alive(b)

-----------------------------------------------------------------------------
(* The launchers. *)

StarterOnly == <<bridge, custom, ends, overlap>>

Moves(s, label) == starter' = [starter EXCEPT ![s] = label]

Begin(s) ==
  /\ ~Active(s) /\ Moves(s, "test")
  /\ overlap' = (overlap \/ \E t \in Starters : Active(t))
  /\ UNCHANGED <<path, bridge, own, waited, custom, ends>>

TestSocket(s) ==
  /\ starter[s] = "test"
  /\ Moves(s, IF SocketFile THEN "pgrep_running" ELSE "pgrep_other")
  /\ UNCHANGED <<path, own, waited, StarterOnly>>

PgrepRunning(s) ==
  /\ starter[s] = "pgrep_running"
  /\ Moves(s, IF SomeBridge THEN "running" ELSE "pgrep_other")
  /\ UNCHANGED <<path, own, waited, StarterOnly>>

\* Variant with a bug: a bridge without the socket is not looked for.
PgrepOther_never(s) ==
  /\ starter[s] = "pgrep_other"
  /\ Moves(s, "remove")
  /\ UNCHANGED <<path, own, waited, StarterOnly>>

\* Variant with a bug: the socket is removed before the process is looked for.
PgrepOther_late(s) ==
  /\ starter[s] = "pgrep_other"
  /\ Moves(s, IF SomeBridge THEN "failed" ELSE "remove")
  /\ path' = IF custom THEN path ELSE NoBridge
  /\ UNCHANGED <<own, waited, StarterOnly>>

PgrepOther(s) ==
  /\ starter[s] = "pgrep_other"
  /\ Moves(s, IF SomeBridge THEN "failed" ELSE "remove")
  /\ UNCHANGED <<path, own, waited, StarterOnly>>

\* Variant with a bug: what an earlier bridge left is not removed.
Remove_nothing(s) ==
  /\ starter[s] = "remove" /\ Moves(s, "spawn")
  /\ UNCHANGED <<path, own, waited, StarterOnly>>

\* rm -f, for a path of the launchers' own pattern
Remove(s) ==
  /\ starter[s] = "remove" /\ Moves(s, "spawn")
  /\ path' = IF custom THEN path ELSE NoBridge
  /\ UNCHANGED <<own, waited, StarterOnly>>

\* An id that is still named somewhere is not used again.
Spawn(s) ==
  /\ starter[s] = "spawn" /\ Moves(s, "wait")
  /\ \E b \in Bridges :
       /\ ~Alive(b) /\ path # b /\ \A t \in Starters \ {s} : own[t] # b
       /\ bridge' = [bridge EXCEPT ![b] = "opening"]
       /\ own' = [own EXCEPT ![s] = b]
  /\ waited' = [waited EXCEPT ![s] = 0]
  /\ UNCHANGED <<path, custom, ends, overlap>>

\* Variant with a bug: one turn too many.
Wait_more(s) ==
  /\ starter[s] = "wait"
  /\ IF waited[s] <= MaxWait /\ ~SocketFile
     THEN waited' = [waited EXCEPT ![s] = @ + 1] /\ UNCHANGED starter
     ELSE Moves(s, "confirm") /\ UNCHANGED waited
  /\ UNCHANGED <<path, own, StarterOnly>>

\* The loop ends when the file is there or after its last turn.
Wait(s) ==
  /\ starter[s] = "wait"
  /\ IF waited[s] < MaxWait /\ ~SocketFile
     THEN waited' = [waited EXCEPT ![s] = @ + 1] /\ UNCHANGED starter
     ELSE Moves(s, "confirm") /\ UNCHANGED waited
  /\ UNCHANGED <<path, own, StarterOnly>>

Confirm(s) ==
  /\ starter[s] = "confirm"
  /\ Moves(s, IF SocketFile THEN "started" ELSE "failed")
  /\ UNCHANGED <<path, own, waited, StarterOnly>>

StarterStep(s) ==
  \/ TestSocket(s) \/ PgrepRunning(s) \/ PgrepOther(s) \/ Remove(s)
  \/ Spawn(s) \/ Wait(s) \/ Confirm(s)

-----------------------------------------------------------------------------
(* The bridge. *)

BridgeOnly == <<starter, own, waited, custom, overlap>>

Goes(b, from, to) == bridge[b] = from /\ bridge' = [bridge EXCEPT ![b] = to]

\* XOpenDisplay, the extensions and refresh_lorie_device
OpenDisplay(b) ==
  /\ Goes(b, "opening", "unlink")
  /\ UNCHANGED <<path, ends, BridgeOnly>>

\* Variant with a bug: a file that is in the way stays there.
UnlinkOld_keep(b) ==
  /\ Goes(b, "unlink", "bind")
  /\ UNCHANGED <<path, ends, BridgeOnly>>

\* create_server: unlink, bind, which fails if the file exists, and listen.
UnlinkOld(b) ==
  /\ Goes(b, "unlink", "bind")
  /\ path' = NoBridge
  /\ UNCHANGED <<ends, BridgeOnly>>

Bind(b) ==
  /\ IF SocketFile THEN Goes(b, "bind", "absent") /\ UNCHANGED path
                   ELSE Goes(b, "bind", "listen") /\ path' = b
  /\ UNCHANGED <<ends, BridgeOnly>>

Listen(b) ==
  /\ Goes(b, "listen", "serving")
  /\ UNCHANGED <<path, ends, BridgeOnly>>

\* A signal ends the loop: the listening socket is closed,
Close(b) ==
  /\ ends < MaxEnds /\ ends' = ends + 1
  /\ Goes(b, "serving", "closing")
  /\ UNCHANGED <<path, BridgeOnly>>

\* then the file is removed, whoever bound it,
UnlinkOwn(b) ==
  /\ Goes(b, "closing", "exiting")
  /\ path' = NoBridge
  /\ UNCHANGED <<ends, BridgeOnly>>

\* and the process returns from main.
Leave(b) ==
  /\ Goes(b, "exiting", "absent")
  /\ UNCHANGED <<path, ends, BridgeOnly>>

\* No display, an X error, a lost X connection or a kill: the file stays.
Crash(b) ==
  /\ ends < MaxEnds /\ ends' = ends + 1
  /\ Alive(b) /\ bridge' = [bridge EXCEPT ![b] = "absent"]
  /\ UNCHANGED <<path, BridgeOnly>>

BridgeStep(b) ==
  \/ OpenDisplay(b) \/ UnlinkOld(b) \/ Bind(b) \/ Listen(b)
  \/ UnlinkOwn(b) \/ Leave(b)

-----------------------------------------------------------------------------
\* No bridge runs; one that ran before may have left its file.
Init ==
  /\ path \in {NoBridge} \union Bridges
  /\ bridge = [b \in Bridges |-> "absent"]
  /\ starter = [s \in Starters |-> "failed"]
  /\ own = [s \in Starters |-> NoBridge]
  /\ waited = [s \in Starters |-> 0]
  /\ custom \in BOOLEAN
  /\ ends = 0 /\ overlap = FALSE

Next ==
  \/ \E s \in Starters : Begin(s) \/ StarterStep(s)
  \/ \E b \in Bridges : BridgeStep(b) \/ Close(b) \/ Crash(b)

Spec == Init /\ [][Next]_vars

\* Processes are scheduled, and somebody starts again when nobody does.
FairSpec ==
  /\ Spec
  /\ \A s \in Starters : WF_vars(StarterStep(s))
  /\ \A b \in Bridges : WF_vars(BridgeStep(b))
  /\ WF_vars((\A s \in Starters : ~Active(s)) /\ \E s \in Starters : Begin(s))

-----------------------------------------------------------------------------
(* Properties. *)

\* Every variable has a value of its type; a launcher that waits has started a
\* bridge (src/tools/gamepad-start:31-38).
TypeOK ==
  /\ path \in Bridges \union {NoBridge}
  /\ bridge \in [Bridges -> BridgeStates]
  /\ starter \in [Starters -> StarterStates]
  /\ own \in [Starters -> Bridges \union {NoBridge}]
  /\ waited \in [Starters -> 0..MaxWait]
  /\ custom \in BOOLEAN /\ ends \in 0..MaxEnds /\ overlap \in BOOLEAN
  /\ \A s \in Starters : starter[s] \in {"wait", "confirm", "started"} => own[s] # NoBridge

\* As long as launchers do not overlap, a start that gave up waiting, a slow
\* bridge, a crash or a file that was left never lead to a second bridge
\* (the two pgreps, src/tools/gamepad-start:10-17).
OneBridge ==
  ~overlap => \A a, b \in Bridges : Alive(a) /\ Alive(b) => a = b

\* As long as launchers do not overlap, a bridge that serves can be reached:
\* neither a launcher's rm, nor the unlink of another bridge on its way up or
\* down, takes its path away (src/tools/gamepad-start:23-27; unlink,
\* src/lorie_evdev_bridge.c:762 and 891).
ServingIsReachable ==
  ~overlap => \A b \in Bridges : bridge[b] = "serving" => path = b

\* A launcher of the usual path that says "started" has seen the socket of the
\* bridge it started, not a file of an earlier one.  (With a path of another
\* pattern the file may be an old one, and "started" is said too early.)
StartedIsOwn ==
  [][~overlap /\ ~custom =>
       \A s \in Starters :
         starter[s] = "confirm" /\ starter'[s] = "started" => path = own[s]]_vars

\* However bridges ended and whatever they left behind, with the usual path or
\* another one, starting again ends with a bridge that can be reached.
Recovers ==
  []~overlap => <>[](\E b \in Bridges : bridge[b] = "serving" /\ path = b)
=============================================================================
