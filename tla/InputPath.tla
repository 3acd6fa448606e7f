------------------------------ MODULE InputPath ------------------------------
(***************************************************************************)
(* One controller event on its way to the programs that read it: the       *)
(* bridge's report (XiInput), then what a program holds that reads the     *)
(* stream through the client library (termux_gamepad.c, process_event),    *)
(* through the legacy joystick interface of the LD_PRELOAD shim            *)
(* (evdev_preload.c, tg_convert_joy_event) or as a DirectInput device      *)
(* (tg_dinput_button_code).  Both readers start from the snapshot.         *)
(***************************************************************************)
EXTENDS XiInput, FiniteSets

CONSTANTS
  MovedAxes,   \* the axes the controller moves
  RawValues,   \* the valuator values it sends for them
  Buttons,     \* the XI2 button numbers it sends
  MaxHeld      \* bound: buttons held at the same time

ASSUME InputAssumption ==
  /\ MovedAxes \subseteq Axes
  /\ RawValues \subseteq Int
  /\ Buttons \subseteq Nat
  /\ MaxHeld \in Nat

VARIABLES
  raw,     \* the controller's valuators, kept to compare with (external)
  state,   \* the bridge's struct gamepad_state
  view,    \* the values a reader of the evdev stream was last told
  lib,     \* gamepad->state of the client library
  js       \* what a joystick program has read: axis numbers, pressed numbers

vars == <<raw, state, view, lib, js>>

-----------------------------------------------------------------------------
(* The client library. *)

\* The numbers of an int16_t.
Int16s == -32768..32767

\* The 16 bits of a cast to int16_t.
Int16(value) == ((value + 32768) % 65536) - 32768

\* Which axis of the public state a code is for, and the value it gets.
lib_axis(code) ==
  CASE code = "ABS_X"  -> 0 [] code = "ABS_Y"  -> 1 [] code = "ABS_RX" -> 2
    [] code = "ABS_RY" -> 3 [] code = "ABS_Z"  -> 4 [] code = "ABS_RZ" -> 5
    [] OTHER -> -1

\* Variant with a bug: the offset does not fit the factor.
lib_axis_value_offset(code, value) ==
  IF code \in {"ABS_Z", "ABS_RZ"} THEN Int16(value * 257 - 32767)
                                  ELSE Int16(value)

lib_axis_value(code, value) ==
  IF code \in {"ABS_Z", "ABS_RZ"} THEN Int16(value * 257 - 32768)
                                  ELSE Int16(value)

button_index(code) ==
  CASE code = "BTN_SOUTH"  -> 0 [] code = "BTN_EAST"   -> 1
    [] code = "BTN_NORTH"  -> 2 [] code = "BTN_WEST"   -> 3
    [] code = "BTN_TL"     -> 4 [] code = "BTN_TR"     -> 5
    [] code = "BTN_SELECT" -> 6 [] code = "BTN_START"  -> 7
    [] code = "BTN_THUMBL" -> 8 [] code = "BTN_THUMBR" -> 9
    [] code = "BTN_MODE"   -> 10 [] code = "BTN_C"     -> 11
    [] OTHER -> -1

\* The last value `report` has for a control that `number` assigns to n.
Reported(report, number(_), n, P(_, _), otherwise) ==
  LET hits == {p \in report : number(p[1]) = n}
  IN IF hits = {} THEN otherwise
     ELSE LET p == CHOOSE p \in hits : TRUE IN P(p[1], p[2])

\* The buttons a report leaves set, starting from `set`.
Pressed(set, report, number(_)) ==
  LET numbers(value) == {number(p[1]) : p \in {p \in report : p[2] = value}} \ {-1}
  IN (set \union numbers(1)) \ numbers(0)

IsKey(p) == button_index(p[1]) # -1

Hats == {"ABS_HAT0X", "ABS_HAT0Y"}

\* process_event over the events of one report.
LibReads(st, report) ==
  [axes |-> [axis \in Axes |->
               Reported(report, lib_axis, axis, lib_axis_value, st.axes[axis])],
   hats |-> [code \in Hats |->
               Reported(report, LAMBDA c : c, code, LAMBDA c, value : value,
                        st.hats[code])],
   buttons |-> Pressed(st.buttons, {p \in report : IsKey(p)}, button_index)]

-----------------------------------------------------------------------------
(* The joystick interface. *)

tg_joy_axis_number(code) ==
  CASE code = "ABS_X"  -> 0 [] code = "ABS_Y"  -> 1 [] code = "ABS_Z"  -> 2
    [] code = "ABS_RX" -> 3 [] code = "ABS_RY" -> 4 [] code = "ABS_RZ" -> 5
    [] code = "ABS_HAT0X" -> 6 [] code = "ABS_HAT0Y" -> 7
    [] OTHER -> -1

\* Variant with a bug: two buttons share a number.
tg_joy_button_number_collision(code) ==
  CASE code = "BTN_SOUTH"  -> 0 [] code = "BTN_EAST"   -> 1
    [] code = "BTN_NORTH"  -> 2 [] code = "BTN_WEST"   -> 3
    [] code = "BTN_TL"     -> 4 [] code = "BTN_TR"     -> 5
    [] code = "BTN_SELECT" -> 6 [] code = "BTN_START"  -> 7
    [] code \in {"BTN_MODE", "BTN_THUMBL"} -> 8
    [] code = "BTN_THUMBR" -> 10 [] code = "BTN_C"     -> 11
    [] OTHER -> -1

tg_joy_button_number(code) ==
  CASE code = "BTN_SOUTH"  -> 0 [] code = "BTN_EAST"   -> 1
    [] code = "BTN_NORTH"  -> 2 [] code = "BTN_WEST"   -> 3
    [] code = "BTN_TL"     -> 4 [] code = "BTN_TR"     -> 5
    [] code = "BTN_SELECT" -> 6 [] code = "BTN_START"  -> 7
    [] code = "BTN_MODE"   -> 8 [] code = "BTN_THUMBL" -> 9
    [] code = "BTN_THUMBR" -> 10 [] code = "BTN_C"     -> 11
    [] OTHER -> -1

\* Variant with a bug: a hat is scaled past the 16 bits.
tg_joy_axis_value_hat(code, value) ==
  CASE code \in {"ABS_Z", "ABS_RZ"} ->
         Int16(clamp_int(value, 0, 255) * 257 - 32767)
    [] code \in {"ABS_HAT0X", "ABS_HAT0Y"} -> 32768 * clamp_int(value, -1, 1)
    [] OTHER -> clamp_int(value, -32767, 32767)

tg_joy_axis_value(code, value) ==
  CASE code \in {"ABS_Z", "ABS_RZ"} ->
         Int16(clamp_int(value, 0, 255) * 257 - 32767)
    [] code \in {"ABS_HAT0X", "ABS_HAT0Y"} -> 32767 * clamp_int(value, -1, 1)
    [] OTHER -> clamp_int(value, -32767, 32767)

JoyReads(st, report) ==
  [axes |-> [n \in 0..7 |->
               Reported(report, tg_joy_axis_number, n, tg_joy_axis_value,
                        st.axes[n])],
   buttons |-> Pressed(st.buttons, {p \in report : IsKey(p)},
                       tg_joy_button_number)]

-----------------------------------------------------------------------------
(* What the shim advertises, and the renaming for DirectInput programs. *)

tg_dinput_button_code(code) ==
  CASE code = "BTN_SOUTH"  -> "BTN_TRIGGER" [] code = "BTN_EAST"   -> "BTN_THUMB"
    [] code = "BTN_WEST"   -> "BTN_THUMB2"  [] code = "BTN_NORTH"  -> "BTN_TOP"
    [] code = "BTN_TL"     -> "BTN_TOP2"    [] code = "BTN_TR"     -> "BTN_PINKIE"
    [] code = "BTN_SELECT" -> "BTN_BASE"    [] code = "BTN_START"  -> "BTN_BASE2"
    [] code = "BTN_MODE"   -> "BTN_BASE3"   [] code = "BTN_THUMBL" -> "BTN_BASE4"
    [] code = "BTN_THUMBR" -> "BTN_BASE5"   [] code = "BTN_C"      -> "BTN_BASE6"
    [] OTHER -> code

tg_fill_bits(is_dinput) ==
  {"ABS_X", "ABS_Y", "ABS_RX", "ABS_RY", "ABS_Z", "ABS_RZ",
   "ABS_HAT0X", "ABS_HAT0Y"}
    \union
  IF is_dinput
  THEN {"BTN_TRIGGER", "BTN_THUMB", "BTN_THUMB2", "BTN_TOP", "BTN_TOP2",
        "BTN_PINKIE", "BTN_BASE", "BTN_BASE2", "BTN_BASE3", "BTN_BASE4",
        "BTN_BASE5", "BTN_BASE6"}
  ELSE {"BTN_SOUTH", "BTN_EAST", "BTN_WEST", "BTN_NORTH", "BTN_TL", "BTN_TR",
        "BTN_SELECT", "BTN_START", "BTN_MODE", "BTN_THUMBL", "BTN_THUMBR",
        "BTN_C"}

AbsRange(code) ==
  CASE code \in {"ABS_Z", "ABS_RZ"}         -> 0..255
    [] code \in {"ABS_HAT0X", "ABS_HAT0Y"}  -> -1..1
    [] OTHER                                -> -32768..32767

-----------------------------------------------------------------------------
Init ==
  /\ raw = [axis \in MovedAxes |-> 0]
  /\ state = ZeroState
  /\ view = Snapshot(ZeroState)
  /\ lib = LibReads([axes |-> ZeroState.axes, hats |-> [code \in Hats |-> 0],
                       buttons |-> {}], view)
  /\ js = JoyReads([axes |-> [n \in 0..7 |-> 0], buttons |-> {}], view)

\* The bridge handles `e` and every reader consumes the report.
Handle(e) ==
  LET report == Report(state, e) IN
  /\ state' = After(state, e)
  /\ view' = Told(view, report)
  /\ lib' = LibReads(lib, report)
  /\ js' = JoyReads(js, report)

\* One motion event may carry several valuators.
Motion ==
  \E moved \in SUBSET MovedAxes : \E values \in [moved -> RawValues] :
    /\ raw' = [axis \in MovedAxes |->
                 IF axis \in moved THEN values[axis] ELSE raw[axis]]
    /\ Handle([type |-> "motion", raw |-> values])

Button ==
  \E type \in {"press", "release"}, detail \in Buttons :
    /\ type = "press" => Cardinality(state.buttons) < MaxHeld
    /\ Handle([type |-> type, detail |-> detail])
    /\ UNCHANGED raw

Next == Motion \/ Button

Spec == Init /\ [][Next]_vars

-----------------------------------------------------------------------------
(* Properties. *)

\* The bridge's state, the library's state and the joystick's state keep
\* their C types.
TypeOK ==
  /\ IsGamepadState(state)
  /\ lib.axes \in [Axes -> Int16s] /\ lib.buttons \subseteq 0..11
  /\ lib.hats \in [Hats -> -1..1]
  /\ js.axes \in [0..7 -> Int16s] /\ js.buttons \subseteq 0..11

\* A reader that only got the changes (append_event behind a comparison with
\* the old value) holds what a snapshot taken now would tell it.
ChangesAddUpToSnapshot == view = Snapshot(state)

\* Opposite hat buttons held together cancel out and each release uncovers
\* the other: the reported hat is always the difference of the two.
HatsFollowButtons ==
  /\ state.hat_x = hat_value(state.buttons, 13, 14)
  /\ state.hat_y = hat_value(state.buttons, 11, 12)

\* No two controls collide and none is dropped on the way to a reader: as many
\* buttons are down for the library, for the joystick and for DirectInput as
\* are held on the controller, and both readers see the same hat.
EveryHeldButtonSeen ==
  LET held == Cardinality(state.buttons \ HatDetails) IN
  /\ Cardinality(lib.buttons) = held
  /\ Cardinality(js.buttons) = held
  /\ js.axes[6] = 32767 * lib.hats["ABS_HAT0X"]
  /\ js.axes[7] = 32767 * lib.hats["ABS_HAT0Y"]
  /\ Cardinality({tg_dinput_button_code(p[1]) :
                    p \in {p \in view : IsKey(p) /\ p[2] = 1}}) = held

\* A program that asked the shim with EVIOCGBIT and EVIOCGABS is never sent a
\* code that is not in the bit mask, nor a value out of the axis' range.
OnlyAdvertisedValues ==
  \A p \in view :
    /\ p[1] \in tg_fill_bits(FALSE)
    /\ tg_dinput_button_code(p[1]) \in tg_fill_bits(TRUE)
    /\ ~IsKey(p) => p[2] \in AbsRange(p[1])

\* Pushing an axis further never moves the library's axis back.
LibAxesMonotone ==
  [][\A axis \in MovedAxes :
       raw'[axis] >= raw[axis] => lib'.axes[axis] >= lib.axes[axis]]_vars

\* The same for the joystick's axes.
JoyAxesMonotone ==
  [][\A axis \in MovedAxes :
       LET n == tg_joy_axis_number(axis_code[axis])
       IN raw'[axis] >= raw[axis] => js'.axes[n] >= js.axes[n]]_vars
=============================================================================
