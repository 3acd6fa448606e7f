------------------------------- MODULE XiInput -------------------------------
(***************************************************************************)
(* What the bridge does with one XI2 device event: the gamepad state it    *)
(* keeps, the evdev values it reports for a change and the snapshot it     *)
(* sends to a new client.  (lorie_evdev_bridge.c, lines 46-51, 356-431     *)
(* and 655-715.)                                                           *)
(*                                                                         *)
(* The events of one report, everything up to SYN_REPORT, are a set of     *)
(* <<code, value>> pairs.  Every code occurs in it once, so the order the  *)
(* bridge appends them in tells nothing apart.                             *)
(***************************************************************************)
EXTENDS Integers

Axes == 0..5
Details == 1..16             \* XI2 button numbers the bridge looks at
HatDetails == 11..14         \* up, down, left, right

\* An XI2 event: a motion carries the valuators it has, a button its detail.
IsXiEvent(e) ==
  \/ /\ e.type = "motion"
     /\ DOMAIN e.raw \subseteq Axes
     /\ \A axis \in DOMAIN e.raw : e.raw[axis] \in Int
  \/ /\ e.type \in {"press", "release"}
     /\ e.detail \in Nat

IsGamepadState(st) ==
  st \in [axes : [Axes -> Int], buttons : SUBSET Details,
         hat_x : {-1, 0, 1}, hat_y : {-1, 0, 1}]

ZeroState ==
  [axes |-> [axis \in Axes |-> 0], buttons |-> {}, hat_x |-> 0, hat_y |-> 0]

-----------------------------------------------------------------------------
(* Tables and arithmetic. *)

clamp_int(value, minimum, maximum) ==
  IF value < minimum THEN minimum
  ELSE IF value > maximum THEN maximum ELSE value

\* Variant with a bug: the full trigger is one step too far.
convert_axis_256(axis, value) ==
  IF axis < 4 THEN clamp_int(value, -32768, 32767)
  ELSE (clamp_int(value, 0, 32767) * 256 + 16383) \div 32767

\* Sticks keep their value, triggers are scaled from 0..32767 to 0..255.
convert_axis(axis, value) ==
  IF axis < 4 THEN clamp_int(value, -32768, 32767)
  ELSE (clamp_int(value, 0, 32767) * 255 + 16383) \div 32767

axis_code == [axis \in Axes |->
  CASE axis = 0 -> "ABS_X"  [] axis = 1 -> "ABS_Y"  [] axis = 2 -> "ABS_RX"
    [] axis = 3 -> "ABS_RY" [] axis = 4 -> "ABS_Z"  [] axis = 5 -> "ABS_RZ"]

\* "" is the code 0 of a button that has no key of its own.
button_code == [detail \in Details |->
  CASE detail = 1 -> "BTN_SOUTH"   [] detail = 2 -> "BTN_EAST"
    [] detail = 3 -> "BTN_NORTH"   [] detail = 4 -> "BTN_WEST"
    [] detail = 5 -> "BTN_TL"      [] detail = 6 -> "BTN_TR"
    [] detail = 7 -> "BTN_SELECT"  [] detail = 8 -> "BTN_START"
    [] detail = 9 -> "BTN_THUMBL"  [] detail = 10 -> "BTN_THUMBR"
    [] detail = 15 -> "BTN_MODE"   [] detail = 16 -> "BTN_C"
    [] OTHER -> ""]

\* send_snapshot has its own pair of tables, buttons[] and details[].
SnapshotDetail ==
  [BTN_SOUTH |-> 1, BTN_EAST |-> 2, BTN_NORTH |-> 3, BTN_WEST |-> 4,
   BTN_TL |-> 5, BTN_TR |-> 6, BTN_SELECT |-> 7, BTN_START |-> 8,
   BTN_THUMBL |-> 9, BTN_THUMBR |-> 10, BTN_MODE |-> 15, BTN_C |-> 16]

Bit(P) == IF P THEN 1 ELSE 0

hat_value(buttons, negative, positive) ==
  Bit(positive \in buttons) - Bit(negative \in buttons)

-----------------------------------------------------------------------------
(* process_xi_event: the state after an event, and the report sent for it. *)

AfterMotion(st, raw) ==
  [st EXCEPT !.axes = [axis \in Axes |->
     IF axis \in DOMAIN raw THEN convert_axis(axis, raw[axis])
                            ELSE st.axes[axis]]]

\* A press of a pressed button, a release of a released one and a detail out
\* of range change nothing.
Flips(st, type, detail) ==
  /\ detail \in Details
  /\ (type = "press") # (detail \in st.buttons)

\* Variant with a bug: a hat follows the last event, not the buttons held.
AfterButton_last_event(st, type, detail) ==
  LET buttons == IF type = "press" THEN st.buttons \union {detail}
                                   ELSE st.buttons \ {detail}
      moved == IF type = "press" THEN {detail} ELSE {}
  IN IF ~Flips(st, type, detail) THEN st
     ELSE [st EXCEPT
             !.buttons = buttons,
             !.hat_x = IF detail \in {13, 14} THEN hat_value(moved, 13, 14) ELSE @,
             !.hat_y = IF detail \in {11, 12} THEN hat_value(moved, 11, 12) ELSE @]

AfterButton(st, type, detail) ==
  LET buttons == IF type = "press" THEN st.buttons \union {detail}
                                   ELSE st.buttons \ {detail}
      hat == detail \in HatDetails
  IN IF ~Flips(st, type, detail) THEN st
     ELSE [st EXCEPT
             !.buttons = buttons,
             !.hat_x = IF hat THEN hat_value(buttons, 13, 14) ELSE @,
             !.hat_y = IF hat THEN hat_value(buttons, 11, 12) ELSE @]

After(st, e) == IF e.type = "motion" THEN AfterMotion(st, e.raw)
                                     ELSE AfterButton(st, e.type, e.detail)

\* Variant with a bug: changes of the triggers are not reported.
AxisEvents_sticks(st, new) ==
  {<<axis_code[axis], new.axes[axis]>> :
     axis \in {axis \in 0..3 : new.axes[axis] # st.axes[axis]}}

AxisEvents(st, new) ==
  {<<axis_code[axis], new.axes[axis]>> :
     axis \in {axis \in Axes : new.axes[axis] # st.axes[axis]}}

HatEvents(st, new) ==
  (IF new.hat_x # st.hat_x THEN {<<"ABS_HAT0X", new.hat_x>>} ELSE {})
    \union
  (IF new.hat_y # st.hat_y THEN {<<"ABS_HAT0Y", new.hat_y>>} ELSE {})

KeyEvents(st, type, detail) ==
  IF Flips(st, type, detail) /\ button_code[detail] # ""
  THEN {<<button_code[detail], Bit(type = "press")>>} ELSE {}

Report(st, e) ==
  IF e.type = "motion" THEN AxisEvents(st, After(st, e))
  ELSE HatEvents(st, After(st, e)) \union KeyEvents(st, e.type, e.detail)

\* send_snapshot: every axis, both hats and the twelve keys.
Snapshot(st) ==
  {<<axis_code[axis], st.axes[axis]>> : axis \in Axes}
    \union
  {<<"ABS_HAT0X", st.hat_x>>, <<"ABS_HAT0Y", st.hat_y>>}
    \union
  {<<code, Bit(SnapshotDetail[code] \in st.buttons)>> :
       code \in DOMAIN SnapshotDetail}

-----------------------------------------------------------------------------
(* A reader of the stream: the last value it was told for every code. *)

Codes(report) == {p[1] : p \in report}

Told(view, report) == {p \in view : p[1] \notin Codes(report)} \union report
=============================================================================
