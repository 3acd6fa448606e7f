--------------------------- MODULE InputPathProofs ---------------------------
(* What readers are told of a controller, for any axes, values and buttons.  *)
EXTENDS InputPath, XiInputProofs, FiniteSetTheorems, FunctionTheorems

PathInv ==
  IsGamepadState(state) /\ ChangesAddUpToSnapshot /\ HatsFollowButtons

\* One event of any kind.
LEMMA HandleKeeps ==
  ASSUME PathInv, NEW e, IsXiEvent(e), Handle(e)
  PROVE  PathInv'
<1>1. state' = After(state, e) /\ view' = Told(view, Report(state, e))
  BY DEF Handle
<1>2. IsGamepadState(state')
  BY <1>1, AfterType DEF PathInv
<1>3. view' = Snapshot(state')
  BY <1>1, ReportCompletesSnapshot DEF PathInv, ChangesAddUpToSnapshot
<1>4. HatsFollowButtons'
  <2>1. CASE e.type = "motion"
    <3>1. /\ state'.buttons = state.buttons
          /\ state'.hat_x = state.hat_x /\ state'.hat_y = state.hat_y
      BY <1>1, <2>1 DEF After, AfterMotion, PathInv, IsGamepadState
    <3> QED BY <3>1 DEF PathInv, HatsFollowButtons
  <2>2. CASE e.type # "motion" /\ ~Flips(state, e.type, e.detail)
    <3>1. state' = state
      BY <1>1, <2>2 DEF After, AfterButton
    <3> QED BY <3>1 DEF PathInv, HatsFollowButtons
  <2>3. CASE e.type # "motion" /\ Flips(state, e.type, e.detail)
    <3> DEFINE new == IF e.type = "press" THEN state.buttons \union {e.detail}
                                          ELSE state.buttons \ {e.detail}
    <3>1. /\ state'.buttons = new
          /\ state'.hat_x = IF e.detail \in HatDetails
                            THEN hat_value(new, 13, 14) ELSE state.hat_x
          /\ state'.hat_y = IF e.detail \in HatDetails
                            THEN hat_value(new, 11, 12) ELSE state.hat_y
      BY <1>1, <2>3 DEF After, AfterButton, PathInv, IsGamepadState
    <3>2. CASE e.detail \in HatDetails
      BY <3>1, <3>2 DEF HatsFollowButtons
    <3>3. CASE e.detail \notin HatDetails
      <4>1. \A d \in HatDetails : (d \in new) <=> (d \in state.buttons)
        BY <3>3
      <4>2. {11, 12, 13, 14} \subseteq HatDetails
        BY DEF HatDetails
      <4> HIDE DEF new
      <4>3. /\ (13 \in new) <=> (13 \in state.buttons)
            /\ (14 \in new) <=> (14 \in state.buttons)
            /\ (11 \in new) <=> (11 \in state.buttons)
            /\ (12 \in new) <=> (12 \in state.buttons)
        BY <4>1, <4>2
      <4>4. /\ hat_value(new, 13, 14) = hat_value(state.buttons, 13, 14)
            /\ hat_value(new, 11, 12) = hat_value(state.buttons, 11, 12)
        BY <4>3 DEF hat_value, Bit
      <4> QED BY <3>1, <3>3, <4>4 DEF PathInv, HatsFollowButtons
    <3> QED BY <3>2, <3>3
  <2> QED BY <2>1, <2>2, <2>3
<1> QED BY <1>2, <1>3, <1>4 DEF PathInv, ChangesAddUpToSnapshot

LEMMA PathInit == Init => PathInv
<1> SUFFICES ASSUME Init PROVE PathInv
  OBVIOUS
<1>1. state = ZeroState /\ view = Snapshot(ZeroState)
  BY DEF Init
<1>2. IsGamepadState(ZeroState)
  BY DEF IsGamepadState, ZeroState, Axes
<1>3. /\ ZeroState.hat_x = 0 /\ ZeroState.hat_y = 0 /\ ZeroState.buttons = {}
      /\ hat_value({}, 13, 14) = 0 /\ hat_value({}, 11, 12) = 0
  BY DEF ZeroState, hat_value, Bit
<1> QED BY <1>1, <1>2, <1>3 DEF PathInv, ChangesAddUpToSnapshot, HatsFollowButtons

LEMMA PathNext == PathInv /\ [Next]_vars => PathInv'
<1> SUFFICES ASSUME PathInv, [Next]_vars PROVE PathInv'
  OBVIOUS
<1>1. CASE Motion
  <2>1. PICK moved \in SUBSET MovedAxes : \E values \in [moved -> RawValues] :
          Handle([type |-> "motion", raw |-> values])
    BY <1>1 DEF Motion
  <2>2. PICK values \in [moved -> RawValues] :
          Handle([type |-> "motion", raw |-> values])
    BY <2>1
  <2>3. IsXiEvent([type |-> "motion", raw |-> values])
    BY InputAssumption DEF IsXiEvent
  <2> QED BY <2>2, <2>3, HandleKeeps
<1>2. CASE Button
  <2>1. PICK type \in {"press", "release"}, detail \in Buttons :
          Handle([type |-> type, detail |-> detail])
    BY <1>2 DEF Button
  <2>2. IsXiEvent([type |-> type, detail |-> detail])
    BY InputAssumption DEF IsXiEvent
  <2> QED BY <2>1, <2>2, HandleKeeps
<1>3. CASE UNCHANGED vars
  BY <1>3 DEF vars, PathInv, ChangesAddUpToSnapshot, HatsFollowButtons
<1> QED BY <1>1, <1>2, <1>3 DEF Next

LEMMA PathInvariant == Spec => []PathInv
BY PathInit, PathNext, PTL DEF Spec

\* However axes move and buttons bounce, a reader that only ever got the
\* changes holds what a snapshot would tell it.
THEOREM ChangesAddUp == Spec => []ChangesAddUpToSnapshot
<1>1. PathInv => ChangesAddUpToSnapshot
  BY DEF PathInv
<1> QED BY <1>1, PathInvariant, PTL

\* The two hats are the difference of the opposite buttons in every state.
THEOREM HatsAreDifferences == Spec => []HatsFollowButtons
<1>1. PathInv => HatsFollowButtons
  BY DEF PathInv
<1> QED BY <1>1, PathInvariant, PTL

-----------------------------------------------------------------------------
(* The values programs are told, against the ranges they were told of. *)

InRange(axis, value) ==
  IF axis < 4 THEN -32768 <= value /\ value <= 32767
              ELSE 0 <= value /\ value <= 255

AxesOK == \A axis \in Axes : InRange(axis, state.axes[axis])

\* A stick keeps its 16 bits; a trigger at its end is 255, not 256.
LEMMA ConvertAxisRange ==
  ASSUME NEW axis \in Axes, NEW value \in Int
  PROVE  InRange(axis, convert_axis(axis, value))
<1>1. CASE axis < 4
  <2>1. convert_axis(axis, value) = clamp_int(value, -32768, 32767)
    BY <1>1 DEF convert_axis
  <2>2. -32768 <= clamp_int(value, -32768, 32767) /\ clamp_int(value, -32768, 32767) <= 32767
    BY DEF clamp_int
  <2> QED BY <1>1, <2>1, <2>2 DEF InRange
<1>2. CASE ~(axis < 4)
  <2> DEFINE level == clamp_int(value, 0, 32767)
  <2>1. level \in Int /\ 0 <= level /\ level <= 32767 BY DEF clamp_int
  <2>2. convert_axis(axis, value) = (level * 255 + 16383) \div 32767
    BY <1>2 DEF convert_axis
  <2> HIDE DEF level
  <2>3. 0 <= (level * 255 + 16383) \div 32767 /\ (level * 255 + 16383) \div 32767 <= 255
    BY <2>1
  <2> QED BY <1>2, <2>2, <2>3 DEF InRange
<1> QED BY <1>1, <1>2

LEMMA HandleAxes ==
  ASSUME PathInv, AxesOK, NEW e, IsXiEvent(e), Handle(e)
  PROVE  AxesOK'
<1>1. state' = After(state, e) BY DEF Handle
<1>2. CASE e.type = "motion"
  <2>1. \A axis \in Axes :
          state'.axes[axis] = IF axis \in DOMAIN e.raw THEN convert_axis(axis, e.raw[axis])
                                                       ELSE state.axes[axis]
    BY <1>1, <1>2 DEF After, AfterMotion, PathInv, IsGamepadState
  <2>2. \A axis \in DOMAIN e.raw : e.raw[axis] \in Int BY <1>2 DEF IsXiEvent
  <2> QED BY <2>1, <2>2, ConvertAxisRange DEF AxesOK
<1>3. CASE e.type # "motion"
  <2>1. state'.axes = state.axes
    BY <1>1, <1>3 DEF After, AfterButton, PathInv, IsGamepadState
  <2> QED BY <2>1 DEF AxesOK
<1> QED BY <1>2, <1>3

LEMMA NextAxes == PathInv /\ AxesOK /\ [Next]_vars => AxesOK'
<1> SUFFICES ASSUME PathInv, AxesOK, [Next]_vars PROVE AxesOK'
  OBVIOUS
<1>1. CASE Motion
  <2>1. PICK moved \in SUBSET MovedAxes : \E values \in [moved -> RawValues] :
          Handle([type |-> "motion", raw |-> values])
    BY <1>1 DEF Motion
  <2>2. PICK values \in [moved -> RawValues] :
          Handle([type |-> "motion", raw |-> values])
    BY <2>1
  <2>3. IsXiEvent([type |-> "motion", raw |-> values])
    BY InputAssumption DEF IsXiEvent
  <2> QED BY <2>2, <2>3, HandleAxes
<1>2. CASE Button
  <2>1. PICK type \in {"press", "release"}, detail \in Buttons :
          Handle([type |-> type, detail |-> detail])
    BY <1>2 DEF Button
  <2>2. IsXiEvent([type |-> type, detail |-> detail])
    BY InputAssumption DEF IsXiEvent
  <2> QED BY <2>1, <2>2, HandleAxes
<1>3. CASE UNCHANGED vars
  BY <1>3 DEF vars, AxesOK
<1> QED BY <1>1, <1>2, <1>3 DEF Next

\* What the shim advertises, code by code.
LEMMA AdvertisedCodes ==
  ASSUME NEW code \in StreamCodes
  PROVE  code \in tg_fill_bits(FALSE) /\ tg_dinput_button_code(code) \in tg_fill_bits(TRUE)
<1>1. code \in tg_fill_bits(FALSE) BY DEF StreamCodes, tg_fill_bits
<1>2. tg_dinput_button_code(code) \in tg_fill_bits(TRUE)
  BY DEF StreamCodes, tg_fill_bits, tg_dinput_button_code
<1> QED BY <1>1, <1>2

LEMMA AdvertisedRanges ==
  ASSUME NEW code, NEW value \in Int
  PROVE  /\ code \in {"ABS_X", "ABS_Y", "ABS_RX", "ABS_RY"} /\ InRange(0, value)
              => value \in AbsRange(code)
         /\ code \in {"ABS_Z", "ABS_RZ"} /\ InRange(4, value) => value \in AbsRange(code)
         /\ code \in {"ABS_HAT0X", "ABS_HAT0Y"} /\ value \in {-1, 0, 1}
              => value \in AbsRange(code)
<1>1. ASSUME code \in {"ABS_X", "ABS_Y", "ABS_RX", "ABS_RY"}, InRange(0, value)
      PROVE  value \in AbsRange(code)
  <2> DEFINE low == -32768
             high == 32767
  <2>1. code \notin {"ABS_Z", "ABS_RZ"} /\ code \notin {"ABS_HAT0X", "ABS_HAT0Y"} BY <1>1
  <2>2. AbsRange(code) = low..high BY <2>1, SMT DEF AbsRange
  <2>3. low \in Int /\ high \in Int /\ low <= value /\ value <= high BY <1>1 DEF InRange
  <2> HIDE DEF low, high
  <2> QED BY <2>2, <2>3
<1>2. ASSUME code \in {"ABS_Z", "ABS_RZ"}, InRange(4, value)
      PROVE  value \in AbsRange(code)
  <2>1. code \notin {"ABS_HAT0X", "ABS_HAT0Y"} BY <1>2
  <2>2. AbsRange(code) = 0..255 BY <1>2, <2>1, SMT DEF AbsRange
  <2> QED BY <1>2, <2>2 DEF InRange
<1>3. ASSUME code \in {"ABS_HAT0X", "ABS_HAT0Y"}, value \in {-1, 0, 1}
      PROVE  value \in AbsRange(code)
  <2>1. code \notin {"ABS_Z", "ABS_RZ"} BY <1>3
  <2>2. AbsRange(code) = (-1)..1 BY <1>3, <2>1, SMT DEF AbsRange
  <2> QED BY <1>3, <2>2
<1> QED BY <1>1, <1>2, <1>3

LEMMA AdvertisedValues == PathInv /\ AxesOK => OnlyAdvertisedValues
<1> SUFFICES ASSUME PathInv, AxesOK, NEW p \in view
             PROVE  /\ p[1] \in tg_fill_bits(FALSE)
                    /\ tg_dinput_button_code(p[1]) \in tg_fill_bits(TRUE)
                    /\ ~IsKey(p) => p[2] \in AbsRange(p[1])
  BY DEF OnlyAdvertisedValues
<1>1. p \in Values(state, StreamCodes)
  BY SnapshotIsValues DEF PathInv, ChangesAddUpToSnapshot
<1>2. PICK code \in StreamCodes : p = <<code, Value(state, code)>> BY <1>1 DEF Values
<1>3. p[1] = code /\ p[2] = Value(state, code) BY <1>2
<1>4. ASSUME ~IsKey(p) PROVE p[2] \in AbsRange(p[1])
  <2>1. button_index(code) = -1 BY <1>3, <1>4 DEF IsKey
  <2>2. \/ code \in {"ABS_X", "ABS_Y", "ABS_RX", "ABS_RY"}
        \/ code \in {"ABS_Z", "ABS_RZ"}
        \/ code \in {"ABS_HAT0X", "ABS_HAT0Y"}
    BY <2>1 DEF StreamCodes, button_index
  <2>3. /\ Value(state, "ABS_X") = state.axes[0] /\ Value(state, "ABS_Y") = state.axes[1]
        /\ Value(state, "ABS_RX") = state.axes[2] /\ Value(state, "ABS_RY") = state.axes[3]
        /\ Value(state, "ABS_Z") = state.axes[4] /\ Value(state, "ABS_RZ") = state.axes[5]
        /\ Value(state, "ABS_HAT0X") = state.hat_x /\ Value(state, "ABS_HAT0Y") = state.hat_y
    BY DEF Value
  <2>4. /\ \A axis \in {0, 1, 2, 3} : InRange(0, state.axes[axis])
        /\ \A axis \in {4, 5} : InRange(4, state.axes[axis])
        /\ \A axis \in {0, 1, 2, 3, 4, 5} : state.axes[axis] \in Int
    BY DEF AxesOK, Axes, InRange, PathInv, IsGamepadState
  <2>5. state.hat_x \in {-1, 0, 1} /\ state.hat_y \in {-1, 0, 1}
    BY DEF PathInv, IsGamepadState
  <2>6. CASE code \in {"ABS_X", "ABS_Y", "ABS_RX", "ABS_RY"}
    <3>1. InRange(0, p[2]) /\ p[2] \in Int BY <1>3, <2>3, <2>4, <2>6
    <3> QED BY <1>3, <2>6, <3>1, AdvertisedRanges
  <2>7. CASE code \in {"ABS_Z", "ABS_RZ"}
    <3>1. InRange(4, p[2]) /\ p[2] \in Int BY <1>3, <2>3, <2>4, <2>7
    <3> QED BY <1>3, <2>7, <3>1, AdvertisedRanges
  <2>8. CASE code \in {"ABS_HAT0X", "ABS_HAT0Y"}
    <3>1. p[2] \in {-1, 0, 1} /\ p[2] \in Int BY <1>3, <2>3, <2>5, <2>8
    <3> QED BY <1>3, <2>8, <3>1, AdvertisedRanges
  <2> QED BY <2>2, <2>6, <2>7, <2>8
<1> QED BY <1>3, <1>4, AdvertisedCodes

\* Whatever numbers the controller's valuators send, a program that asked the
\* shim with EVIOCGBIT and EVIOCGABS is never told a code that is not in the bit
\* mask nor a value out of range (convert_axis, tg_fill_bits).
THEOREM ToldIsAdvertised == Spec => []OnlyAdvertisedValues
<1>1. Init => AxesOK
  <2>1. \A axis \in Axes : ZeroState.axes[axis] = 0 BY DEF ZeroState, Axes
  <2>2. \A axis \in Axes : InRange(axis, 0) BY DEF InRange
  <2>3. \A axis \in Axes : InRange(axis, ZeroState.axes[axis]) BY <2>1, <2>2
  <2>4. ASSUME Init PROVE AxesOK
    <3>1. state = ZeroState BY <2>4 DEF Init
    <3> QED BY <2>3, <3>1 DEF AxesOK
  <2> QED BY <2>4
<1>2. PathInv /\ AxesOK /\ [Next]_vars => (PathInv /\ AxesOK)' BY PathNext, NextAxes
<1> QED BY <1>1, <1>2, PathInit, AdvertisedValues, PTL DEF Spec

-----------------------------------------------------------------------------
(* What the readers hold, value by value. *)

\* The values of a report are integers, and those of its keys bits.
LEMMA ValueTypes ==
  ASSUME NEW st, IsGamepadState(st)
  PROVE  /\ \A code \in StreamCodes : Value(st, code) \in Int
         /\ \A code \in KeyCodes : Value(st, code) \in {0, 1}
         /\ \A code \in Hats : Value(st, code) \in {-1, 0, 1}
<1>1. \A code \in KeyCodes : Value(st, code) \in {0, 1} BY DEF KeyCodes, Value, Bit
<1>2. \A code \in Hats : Value(st, code) \in {-1, 0, 1}
  BY DEF Hats, Value, IsGamepadState
<1>3. \A axis \in Axes : st.axes[axis] \in Int BY DEF IsGamepadState
<1>4. \A code \in {"ABS_X", "ABS_Y", "ABS_RX", "ABS_RY", "ABS_Z", "ABS_RZ"} :
        Value(st, code) \in Int
  BY <1>3 DEF Value, Axes
<1>5. \A code \in StreamCodes :
        \/ code \in KeyCodes \/ code \in Hats
        \/ code \in {"ABS_X", "ABS_Y", "ABS_RX", "ABS_RY", "ABS_Z", "ABS_RZ"}
  BY DEF StreamCodes, KeyCodes, Hats
<1> QED BY <1>1, <1>2, <1>4, <1>5

\* The entries of a report for one code.
LEMMA OneHit ==
  ASSUME NEW st, NEW changed, NEW code
  PROVE  {p \in Values(st, changed) : p[1] = code}
           = IF code \in changed THEN {<<code, Value(st, code)>>} ELSE {}
BY DEF Values

LEMMA ChooseOnly ==
  ASSUME NEW x
  PROVE  (CHOOSE y \in {x} : TRUE) = x
OBVIOUS

\* Each axis of the library's state is for one code and each code but the hats
\* and the keys for one axis.
LEMMA LibAxisCodes ==
  /\ \A code \in StreamCodes, axis \in Axes : lib_axis(code) = axis <=> code = axis_code[axis]
  /\ \A axis \in Axes : axis_code[axis] \in StreamCodes
<1>1. \A code \in StreamCodes, axis \in Axes : lib_axis(code) = axis <=> code = axis_code[axis]
  BY AxisCodes DEF StreamCodes, Axes, lib_axis
<1> QED BY <1>1, AxisValue

\* Reading a set of values: what is named in it is replaced, the rest is kept.
LEMMA LibReadsAxes ==
  ASSUME NEW new, NEW changed \in SUBSET StreamCodes, NEW st, NEW axis \in Axes
  PROVE  LibReads(st, Values(new, changed)).axes[axis]
           = IF axis_code[axis] \in changed
             THEN lib_axis_value(axis_code[axis], Value(new, axis_code[axis]))
             ELSE st.axes[axis]
<1> DEFINE code == axis_code[axis]
           report == Values(new, changed)
           hits == {p \in report : lib_axis(p[1]) = axis}
<1>1. hits = {p \in report : p[1] = code}
  BY LibAxisCodes DEF Values
<1>2. hits = IF code \in changed THEN {<<code, Value(new, code)>>} ELSE {}
  BY <1>1, OneHit
<1>3. LibReads(st, report).axes[axis]
        = IF hits = {} THEN st.axes[axis]
          ELSE LET p == CHOOSE p \in hits : TRUE IN lib_axis_value(p[1], p[2])
  BY DEF LibReads, Reported
<1> HIDE DEF code, hits, report
<1>4. CASE code \in changed
  <2>1. hits = {<<code, Value(new, code)>>} BY <1>2, <1>4
  <2>2. (CHOOSE p \in hits : TRUE) = <<code, Value(new, code)>> BY <2>1, ChooseOnly
  <2> QED BY <1>3, <1>4, <2>1, <2>2 DEF code, report
<1>5. CASE code \notin changed
  BY <1>2, <1>3, <1>5 DEF code, report
<1> QED BY <1>4, <1>5

LEMMA LibReadsHats ==
  ASSUME NEW new, NEW changed \in SUBSET StreamCodes, NEW st, NEW code \in Hats
  PROVE  LibReads(st, Values(new, changed)).hats[code]
           = IF code \in changed THEN Value(new, code) ELSE st.hats[code]
<1> DEFINE report == Values(new, changed)
           hits == {p \in report : p[1] = code}
<1>1. hits = IF code \in changed THEN {<<code, Value(new, code)>>} ELSE {}
  BY OneHit
<1>2. LibReads(st, report).hats[code]
        = IF hits = {} THEN st.hats[code] ELSE LET p == CHOOSE p \in hits : TRUE IN p[2]
  BY DEF LibReads, Reported
<1> HIDE DEF hits, report
<1>3. CASE code \in changed
  <2>1. hits = {<<code, Value(new, code)>>} BY <1>1, <1>3
  <2>2. (CHOOSE p \in hits : TRUE) = <<code, Value(new, code)>> BY <2>1, ChooseOnly
  <2> QED BY <1>2, <1>3, <2>1, <2>2 DEF report
<1>4. CASE code \notin changed
  BY <1>1, <1>2, <1>4 DEF report
<1> QED BY <1>3, <1>4

\* The code a joystick axis is for.
joy_code ==
  [n \in 0..7 |->
     CASE n = 0 -> "ABS_X"  [] n = 1 -> "ABS_Y"  [] n = 2 -> "ABS_Z"
       [] n = 3 -> "ABS_RX" [] n = 4 -> "ABS_RY" [] n = 5 -> "ABS_RZ"
       [] n = 6 -> "ABS_HAT0X" [] n = 7 -> "ABS_HAT0Y"]

LEMMA JoyAxisCodes ==
  /\ \A code \in StreamCodes, n \in 0..7 : tg_joy_axis_number(code) = n <=> code = joy_code[n]
  /\ \A n \in 0..7 : joy_code[n] \in StreamCodes
  /\ joy_code[6] = "ABS_HAT0X" /\ joy_code[7] = "ABS_HAT0Y"
<1>1. /\ joy_code[0] = "ABS_X"  /\ joy_code[1] = "ABS_Y"  /\ joy_code[2] = "ABS_Z"
      /\ joy_code[3] = "ABS_RX" /\ joy_code[4] = "ABS_RY" /\ joy_code[5] = "ABS_RZ"
      /\ joy_code[6] = "ABS_HAT0X" /\ joy_code[7] = "ABS_HAT0Y"
  BY DEF joy_code
<1>2. \A n \in 0..7 : n \in {0, 1, 2, 3, 4, 5, 6, 7}
  OBVIOUS
<1>3. \A code \in StreamCodes, n \in 0..7 : tg_joy_axis_number(code) = n <=> code = joy_code[n]
  BY <1>1, <1>2 DEF StreamCodes, tg_joy_axis_number
<1>4. \A n \in 0..7 : joy_code[n] \in StreamCodes
  BY <1>1, <1>2 DEF StreamCodes
<1> QED BY <1>1, <1>3, <1>4

LEMMA JoyReadsAxes ==
  ASSUME NEW new, NEW changed \in SUBSET StreamCodes, NEW st, NEW n \in 0..7
  PROVE  JoyReads(st, Values(new, changed)).axes[n]
           = IF joy_code[n] \in changed
             THEN tg_joy_axis_value(joy_code[n], Value(new, joy_code[n]))
             ELSE st.axes[n]
<1> DEFINE code == joy_code[n]
           report == Values(new, changed)
           hits == {p \in report : tg_joy_axis_number(p[1]) = n}
<1>1. hits = {p \in report : p[1] = code}
  BY JoyAxisCodes DEF Values
<1>2. hits = IF code \in changed THEN {<<code, Value(new, code)>>} ELSE {}
  BY <1>1, OneHit
<1>3. JoyReads(st, report).axes[n]
        = IF hits = {} THEN st.axes[n]
          ELSE LET p == CHOOSE p \in hits : TRUE IN tg_joy_axis_value(p[1], p[2])
  BY DEF JoyReads, Reported
<1> HIDE DEF code, hits, report
<1>4. CASE code \in changed
  <2>1. hits = {<<code, Value(new, code)>>} BY <1>2, <1>4
  <2>2. (CHOOSE p \in hits : TRUE) = <<code, Value(new, code)>> BY <2>1, ChooseOnly
  <2> QED BY <1>3, <1>4, <2>1, <2>2 DEF code, report
<1>5. CASE code \notin changed
  BY <1>2, <1>3, <1>5 DEF code, report
<1> QED BY <1>4, <1>5

\* The keys a state holds down.
Held(st) == {code \in KeyCodes : Value(st, code) = 1}

\* The number an interface gives the key of a button.
LEMMA KeyNumbers ==
  /\ \A code \in StreamCodes : button_index(code) # -1 <=> code \in KeyCodes
  /\ \A code \in KeyCodes : /\ button_index(code) \in 0..11
                            /\ tg_joy_button_number(code) \in 0..11
  /\ \A c, d \in KeyCodes : /\ button_index(c) = button_index(d) => c = d
                            /\ tg_joy_button_number(c) = tg_joy_button_number(d) => c = d
                            /\ tg_dinput_button_code(c) = tg_dinput_button_code(d) => c = d
<1>1. \A code \in StreamCodes : button_index(code) # -1 <=> code \in KeyCodes
  BY DEF StreamCodes, KeyCodes, button_index
<1>2. \A code \in KeyCodes : /\ button_index(code) \in 0..11
                             /\ tg_joy_button_number(code) \in 0..11
  BY DEF KeyCodes, button_index, tg_joy_button_number
<1>3. \A c, d \in KeyCodes : button_index(c) = button_index(d) => c = d
  BY DEF KeyCodes, button_index
<1>4. \A c, d \in KeyCodes : tg_joy_button_number(c) = tg_joy_button_number(d) => c = d
  BY DEF KeyCodes, tg_joy_button_number
<1>5. \A c, d \in KeyCodes : tg_dinput_button_code(c) = tg_dinput_button_code(d) => c = d
  BY DEF KeyCodes, tg_dinput_button_code
<1> QED BY <1>1, <1>2, <1>3, <1>4, <1>5

\* The keys a report names.
LEMMA KeysOf ==
  ASSUME NEW new, NEW changed \in SUBSET StreamCodes
  PROVE  {p \in Values(new, changed) : IsKey(p)} = Values(new, changed \intersect KeyCodes)
BY KeyNumbers DEF Values, IsKey

\* A reader that holds the keys `down` and reads what changed holds the keys
\* of the new state, whatever else the report names.
LEMMA LibReadsButtons ==
  ASSUME NEW new, IsGamepadState(new), NEW changed \in SUBSET StreamCodes,
         NEW down \in SUBSET KeyCodes,
         \A code \in KeyCodes \ changed : code \in down <=> code \in Held(new),
         NEW st, st.buttons = {button_index(code) : code \in down}
  PROVE  LibReads(st, Values(new, changed)).buttons
           = {button_index(code) : code \in Held(new)}
<1> DEFINE keys == changed \intersect KeyCodes
           numbers(v) == {button_index(p[1]) : p \in {p \in Values(new, keys) : p[2] = v}} \ {-1}
<1>1. LibReads(st, Values(new, changed)).buttons = (st.buttons \union numbers(1)) \ numbers(0)
  BY KeysOf DEF LibReads, Pressed
<1>2. ASSUME NEW v
      PROVE  numbers(v) = {button_index(code) : code \in {c \in keys : Value(new, c) = v}}
  <2> DEFINE codes == {c \in keys : Value(new, c) = v}
  <2>1. {p \in Values(new, keys) : p[2] = v} = Values(new, codes) BY DEF Values
  <2>2. {button_index(p[1]) : p \in Values(new, codes)} = {button_index(code) : code \in codes}
    <3> HIDE DEF codes
    <3>1. \A code \in codes : <<code, Value(new, code)>> \in Values(new, codes)
      BY DEF Values
    <3>2. \A p \in Values(new, codes) : p[1] \in codes BY DEF Values
    <3>3. \A code \in codes : \E p \in Values(new, codes) : p[1] = code BY <3>1
    <3> QED BY <3>2, <3>3
  <2>3. -1 \notin {button_index(code) : code \in codes} BY KeyNumbers
  <2> HIDE DEF codes
  <2> QED BY <2>1, <2>2, <2>3 DEF codes
<1>3. \A code \in KeyCodes : Value(new, code) = 0 \/ Value(new, code) = 1
  BY ValueTypes
<1> HIDE DEF numbers
<1>4. ASSUME NEW n, n \in (st.buttons \union numbers(1)) \ numbers(0)
      PROVE  n \in {button_index(code) : code \in Held(new)}
  BY <1>2, <1>3, <1>4 DEF Held
<1>5. ASSUME NEW code \in Held(new)
      PROVE  button_index(code) \in (st.buttons \union numbers(1)) \ numbers(0)
  <2>1. code \in KeyCodes /\ Value(new, code) = 1 BY DEF Held
  <2>2. button_index(code) \in st.buttons \union numbers(1) BY <1>2, <2>1
  <2>3. button_index(code) \notin numbers(0) BY <1>2, <2>1, KeyNumbers
  <2> QED BY <2>2, <2>3
<1> QED BY <1>1, <1>4, <1>5

LEMMA JoyReadsButtons ==
  ASSUME NEW new, IsGamepadState(new), NEW changed \in SUBSET StreamCodes,
         NEW down \in SUBSET KeyCodes,
         \A code \in KeyCodes \ changed : code \in down <=> code \in Held(new),
         NEW st, st.buttons = {tg_joy_button_number(code) : code \in down}
  PROVE  JoyReads(st, Values(new, changed)).buttons
           = {tg_joy_button_number(code) : code \in Held(new)}
<1> DEFINE keys == changed \intersect KeyCodes
           numbers(v) == {tg_joy_button_number(p[1]) : p \in {p \in Values(new, keys) : p[2] = v}} \ {-1}
<1>1. JoyReads(st, Values(new, changed)).buttons = (st.buttons \union numbers(1)) \ numbers(0)
  BY KeysOf DEF JoyReads, Pressed
<1>2. ASSUME NEW v
      PROVE  numbers(v) = {tg_joy_button_number(code) : code \in {c \in keys : Value(new, c) = v}}
  <2> DEFINE codes == {c \in keys : Value(new, c) = v}
  <2>1. {p \in Values(new, keys) : p[2] = v} = Values(new, codes) BY DEF Values
  <2>2. {tg_joy_button_number(p[1]) : p \in Values(new, codes)} = {tg_joy_button_number(code) : code \in codes}
    <3> HIDE DEF codes
    <3>1. \A code \in codes : <<code, Value(new, code)>> \in Values(new, codes)
      BY DEF Values
    <3>2. \A p \in Values(new, codes) : p[1] \in codes BY DEF Values
    <3>3. \A code \in codes : \E p \in Values(new, codes) : p[1] = code BY <3>1
    <3> QED BY <3>2, <3>3
  <2>3. -1 \notin {tg_joy_button_number(code) : code \in codes} BY KeyNumbers
  <2> HIDE DEF codes
  <2> QED BY <2>1, <2>2, <2>3 DEF codes
<1>3. \A code \in KeyCodes : Value(new, code) = 0 \/ Value(new, code) = 1
  BY ValueTypes
<1> HIDE DEF numbers
<1>4. ASSUME NEW n, n \in (st.buttons \union numbers(1)) \ numbers(0)
      PROVE  n \in {tg_joy_button_number(code) : code \in Held(new)}
  BY <1>2, <1>3, <1>4 DEF Held
<1>5. ASSUME NEW code \in Held(new)
      PROVE  tg_joy_button_number(code) \in (st.buttons \union numbers(1)) \ numbers(0)
  <2>1. code \in KeyCodes /\ Value(new, code) = 1 BY DEF Held
  <2>2. tg_joy_button_number(code) \in st.buttons \union numbers(1) BY <1>2, <2>1
  <2>3. tg_joy_button_number(code) \notin numbers(0) BY <1>2, <2>1, KeyNumbers
  <2> QED BY <2>2, <2>3
<1> QED BY <1>1, <1>4, <1>5

\* What the two readers hold is a function of the bridge's state alone.
LibInv ==
  /\ lib = [axes |-> [axis \in Axes |-> lib_axis_value(axis_code[axis], state.axes[axis])],
            hats |-> [code \in Hats |-> Value(state, code)],
            buttons |-> {button_index(code) : code \in Held(state)}]
  /\ js = [axes |-> [n \in 0..7 |-> tg_joy_axis_value(joy_code[n], Value(state, joy_code[n]))],
           buttons |-> {tg_joy_button_number(code) : code \in Held(state)}]

LEMMA Shapes ==
  ASSUME NEW st, NEW report
  PROVE  /\ LibReads(st, report) = [axes |-> LibReads(st, report).axes,
                                    hats |-> LibReads(st, report).hats,
                                    buttons |-> LibReads(st, report).buttons]
         /\ LibReads(st, report).axes
              = [axis \in Axes |-> LibReads(st, report).axes[axis]]
         /\ LibReads(st, report).hats = [code \in Hats |-> LibReads(st, report).hats[code]]
         /\ JoyReads(st, report) = [axes |-> JoyReads(st, report).axes,
                                    buttons |-> JoyReads(st, report).buttons]
         /\ JoyReads(st, report).axes = [n \in 0..7 |-> JoyReads(st, report).axes[n]]
BY Zenon DEF LibReads, JoyReads

\* One event keeps that, whatever it is.
LEMMA HandleReaders ==
  ASSUME PathInv, LibInv, NEW e, IsXiEvent(e), Handle(e)
  PROVE  LibInv'
<1> DEFINE new == After(state, e)
           changed == Changed(state, new)
<1>1. /\ state' = new
      /\ lib' = LibReads(lib, Values(new, changed))
      /\ js' = JoyReads(js, Values(new, changed))
  BY ReportIsChanged DEF Handle, PathInv
<1>2. IsGamepadState(new) BY AfterType DEF PathInv
<1>3. changed \in SUBSET StreamCodes BY DEF Changed
<1>4. \A code \in StreamCodes \ changed : Value(new, code) = Value(state, code)
  BY DEF Changed
<1>5. KeyCodes \subseteq StreamCodes BY DEF KeyCodes, StreamCodes
<1>6. Hats \subseteq StreamCodes BY DEF Hats, StreamCodes
<1> HIDE DEF new, changed
<1>7. \A axis \in Axes :
        lib'.axes[axis] = lib_axis_value(axis_code[axis], new.axes[axis])
  <2> TAKE axis \in Axes
  <2>1. lib.axes[axis] = lib_axis_value(axis_code[axis], state.axes[axis])
    BY DEF LibInv
  <2>2. axis_code[axis] \in StreamCodes /\ Value(new, axis_code[axis]) = new.axes[axis]
        /\ Value(state, axis_code[axis]) = state.axes[axis]
    BY AxisValue
  <2> QED BY <1>1, <1>3, <1>4, <2>1, <2>2, LibReadsAxes
<1>8. \A code \in Hats : lib'.hats[code] = Value(new, code)
  BY <1>1, <1>3, <1>4, <1>6, LibReadsHats DEF LibInv
<1>9. \A n \in 0..7 : js'.axes[n] = tg_joy_axis_value(joy_code[n], Value(new, joy_code[n]))
  <2> TAKE n \in 0..7
  <2>1. js.axes[n] = tg_joy_axis_value(joy_code[n], Value(state, joy_code[n]))
    BY DEF LibInv
  <2> QED BY <1>1, <1>3, <1>4, <2>1, JoyAxisCodes, JoyReadsAxes
<1>10. \A code \in KeyCodes \ changed : code \in Held(state) <=> code \in Held(new)
  BY <1>4, <1>5 DEF Held
<1>11. Held(state) \in SUBSET KeyCodes BY DEF Held
<1>12. lib'.buttons = {button_index(code) : code \in Held(new)}
  BY <1>1, <1>2, <1>3, <1>10, <1>11, LibReadsButtons DEF LibInv
<1>13. js'.buttons = {tg_joy_button_number(code) : code \in Held(new)}
  BY <1>1, <1>2, <1>3, <1>10, <1>11, JoyReadsButtons DEF LibInv
<1>14. lib' = [axes |-> [axis \in Axes |-> lib_axis_value(axis_code[axis], new.axes[axis])],
               hats |-> [code \in Hats |-> Value(new, code)],
               buttons |-> {button_index(code) : code \in Held(new)}]
  <2>1. lib'.axes = [axis \in Axes |-> lib'.axes[axis]]
    BY <1>1, Zenon DEF LibReads
  <2>2. lib'.axes = [axis \in Axes |-> lib_axis_value(axis_code[axis], new.axes[axis])]
    BY <1>7, <2>1, Zenon
  <2>3. lib'.hats = [code \in Hats |-> lib'.hats[code]]
    BY <1>1, Zenon DEF LibReads
  <2>4. lib'.hats = [code \in Hats |-> Value(new, code)] BY <1>8, <2>3, Zenon
  <2>5. lib' = [axes |-> lib'.axes, hats |-> lib'.hats, buttons |-> lib'.buttons]
    BY <1>1, Shapes
  <2> QED BY <1>12, <2>2, <2>4, <2>5, Zenon
<1>15. js' = [axes |-> [n \in 0..7 |-> tg_joy_axis_value(joy_code[n], Value(new, joy_code[n]))],
              buttons |-> {tg_joy_button_number(code) : code \in Held(new)}]
  <2>1. js'.axes = [n \in 0..7 |-> js'.axes[n]]
    BY <1>1, Zenon DEF JoyReads
  <2>2. js'.axes = [n \in 0..7 |-> tg_joy_axis_value(joy_code[n], Value(new, joy_code[n]))]
    BY <1>9, <2>1, Zenon
  <2>3. js' = [axes |-> js'.axes, buttons |-> js'.buttons] BY <1>1, Shapes
  <2> QED BY <1>13, <2>2, <2>3, Zenon
<1> QED BY <1>1, <1>14, <1>15 DEF LibInv, Held

\* A reader that starts with the snapshot starts with the bridge's state.
LEMMA ReadersInit == Init => LibInv
<1> SUFFICES ASSUME Init PROVE LibInv
  OBVIOUS
<1> DEFINE lib0 == [axes |-> ZeroState.axes, hats |-> [code \in Hats |-> 0], buttons |-> {}]
           js0 == [axes |-> [n \in 0..7 |-> 0], buttons |-> {}]
<1>1. /\ state = ZeroState
      /\ lib = LibReads(lib0, Values(state, StreamCodes))
      /\ js = JoyReads(js0, Values(state, StreamCodes))
  BY SnapshotIsValues DEF Init
<1>2. IsGamepadState(state) BY <1>1, PathInit DEF PathInv
<1>3. \A code \in KeyCodes : code \in StreamCodes BY DEF KeyCodes, StreamCodes
<1>4. \A code \in Hats : code \in StreamCodes BY DEF Hats, StreamCodes
<1>5. lib0.buttons = {button_index(code) : code \in {}}
      /\ js0.buttons = {tg_joy_button_number(code) : code \in {}}
  OBVIOUS
<1> HIDE DEF lib0, js0
<1>6. \A axis \in Axes :
        lib.axes[axis] = lib_axis_value(axis_code[axis], state.axes[axis])
  BY <1>1, AxisValue, LibReadsAxes
<1>7. \A code \in Hats : lib.hats[code] = Value(state, code)
  BY <1>1, <1>4, LibReadsHats
<1>8. \A n \in 0..7 : js.axes[n] = tg_joy_axis_value(joy_code[n], Value(state, joy_code[n]))
  BY <1>1, JoyAxisCodes, JoyReadsAxes
<1>9. /\ lib.buttons = {button_index(code) : code \in Held(state)}
      /\ js.buttons = {tg_joy_button_number(code) : code \in Held(state)}
  BY <1>1, <1>2, <1>3, <1>5, LibReadsButtons, JoyReadsButtons
<1>10. lib = [axes |-> [axis \in Axes |-> lib_axis_value(axis_code[axis], state.axes[axis])],
              hats |-> [code \in Hats |-> Value(state, code)],
              buttons |-> {button_index(code) : code \in Held(state)}]
  <2>1. lib.axes = [axis \in Axes |-> lib.axes[axis]]
    BY <1>1, Zenon DEF LibReads
  <2>2. lib.axes = [axis \in Axes |-> lib_axis_value(axis_code[axis], state.axes[axis])]
    BY <1>6, <2>1, Zenon
  <2>3. lib.hats = [code \in Hats |-> lib.hats[code]]
    BY <1>1, Zenon DEF LibReads
  <2>4. lib.hats = [code \in Hats |-> Value(state, code)] BY <1>7, <2>3, Zenon
  <2>5. lib = [axes |-> lib.axes, hats |-> lib.hats, buttons |-> lib.buttons]
    BY <1>1, Shapes
  <2> QED BY <1>9, <2>2, <2>4, <2>5, Zenon
<1>11. js = [axes |-> [n \in 0..7 |-> tg_joy_axis_value(joy_code[n], Value(state, joy_code[n]))],
             buttons |-> {tg_joy_button_number(code) : code \in Held(state)}]
  <2>1. js.axes = [n \in 0..7 |-> js.axes[n]]
    BY <1>1, Zenon DEF JoyReads
  <2>2. js.axes = [n \in 0..7 |-> tg_joy_axis_value(joy_code[n], Value(state, joy_code[n]))]
    BY <1>8, <2>1, Zenon
  <2>3. js = [axes |-> js.axes, buttons |-> js.buttons] BY <1>1, Shapes
  <2> QED BY <1>9, <2>2, <2>3, Zenon
<1> QED BY <1>10, <1>11 DEF LibInv

\* The bridge's axes are the controller's, converted.
RawInv ==
  /\ DOMAIN raw = MovedAxes
  /\ \A axis \in MovedAxes : /\ raw[axis] \in Int
                             /\ state.axes[axis] = convert_axis(axis, raw[axis])

AllInv == PathInv /\ AxesOK /\ LibInv /\ RawInv

LEMMA AllInit == Init => AllInv
<1> SUFFICES ASSUME Init PROVE AllInv
  OBVIOUS
<1>1. PathInv /\ LibInv BY PathInit, ReadersInit
<1>2. state = ZeroState /\ raw = [axis \in MovedAxes |-> 0] BY DEF Init
<1>3. \A axis \in Axes : state.axes[axis] = 0 BY <1>2 DEF ZeroState, Axes
<1>4. \A axis \in Axes : convert_axis(axis, 0) = 0
  <2>1. clamp_int(0, -32768, 32767) = 0 /\ clamp_int(0, 0, 32767) = 0 BY DEF clamp_int
  <2>2. (0 * 255 + 16383) \div 32767 = 0 OBVIOUS
  <2> QED BY <2>1, <2>2 DEF convert_axis
<1>5. AxesOK
  <2>1. \A axis \in Axes : InRange(axis, 0) BY DEF InRange
  <2> QED BY <1>3, <2>1 DEF AxesOK
<1>6. RawInv BY <1>2, <1>3, <1>4, InputAssumption DEF RawInv
<1> QED BY <1>1, <1>5, <1>6 DEF AllInv

LEMMA AllNext == AllInv /\ [Next]_vars => AllInv'
<1> SUFFICES ASSUME AllInv, [Next]_vars PROVE AllInv'
  OBVIOUS
<1>1. PathInv' /\ AxesOK' BY PathNext, NextAxes DEF AllInv
<1>2. LibInv' /\ RawInv'
  <2>1. CASE Motion
    <3>1. PICK moved \in SUBSET MovedAxes : \E values \in [moved -> RawValues] :
            /\ raw' = [axis \in MovedAxes |->
                         IF axis \in moved THEN values[axis] ELSE raw[axis]]
            /\ Handle([type |-> "motion", raw |-> values])
      BY <2>1 DEF Motion
    <3>2. PICK values \in [moved -> RawValues] :
            /\ raw' = [axis \in MovedAxes |->
                         IF axis \in moved THEN values[axis] ELSE raw[axis]]
            /\ Handle([type |-> "motion", raw |-> values])
      BY <3>1
    <3> DEFINE e == [type |-> "motion", raw |-> values]
    <3>3. IsXiEvent(e)
      BY InputAssumption DEF IsXiEvent
    <3>4. LibInv' BY <3>2, <3>3, HandleReaders DEF AllInv
    <3>5. \A axis \in Axes :
            state'.axes[axis] = IF axis \in moved THEN convert_axis(axis, values[axis])
                                                  ELSE state.axes[axis]
      <4>1. state' = After(state, e) BY <3>2 DEF Handle
      <4> QED BY <4>1 DEF After, AfterMotion, AllInv, PathInv, IsGamepadState
    <3>6. RawInv'
      BY <3>2, <3>5, InputAssumption DEF AllInv, RawInv
    <3> QED BY <3>4, <3>6
  <2>2. CASE Button
    <3>1. PICK type \in {"press", "release"}, detail \in Buttons :
            Handle([type |-> type, detail |-> detail]) /\ UNCHANGED raw
      BY <2>2 DEF Button
    <3> DEFINE e == [type |-> type, detail |-> detail]
    <3>2. IsXiEvent(e) BY InputAssumption DEF IsXiEvent
    <3>3. LibInv' BY <3>1, <3>2, HandleReaders DEF AllInv
    <3>4. state'.axes = state.axes
      <4>1. state' = After(state, e) BY <3>1 DEF Handle
      <4> QED BY <4>1 DEF After, AfterButton, AllInv, PathInv, IsGamepadState
    <3>5. RawInv' BY <3>1, <3>4 DEF AllInv, RawInv
    <3> QED BY <3>3, <3>5
  <2>3. CASE UNCHANGED vars
    BY <2>3 DEF vars, AllInv, LibInv, RawInv, Held
  <2> QED BY <2>1, <2>2, <2>3 DEF Next
<1> QED BY <1>1, <1>2 DEF AllInv

LEMMA AllInvariant == Spec => []AllInv
BY AllInit, AllNext, PTL DEF Spec

\* Sixteen bits hold what is in their range.
LEMMA Int16Keeps ==
  /\ \A value \in Int : Int16(value) \in Int /\ -32768 <= Int16(value) /\ Int16(value) <= 32767
  /\ \A value \in Int : -32768 <= value /\ value <= 32767 => Int16(value) = value
<1>1. \A n \in Int : n % 65536 \in Int /\ 0 <= n % 65536 /\ n % 65536 <= 65535
  OBVIOUS
<1>2. \A n \in Int : 0 <= n /\ n <= 65535 => n % 65536 = n
  OBVIOUS
<1> QED BY <1>1, <1>2 DEF Int16

LEMMA ConvertMonotone ==
  ASSUME NEW axis \in Axes, NEW low \in Int, NEW high \in Int, low <= high
  PROVE  convert_axis(axis, low) <= convert_axis(axis, high)
<1>1. clamp_int(low, -32768, 32767) <= clamp_int(high, -32768, 32767)
  BY DEF clamp_int
<1>2. CASE axis < 4 BY <1>1, <1>2 DEF convert_axis
<1>3. CASE ~(axis < 4)
  <2> DEFINE l == clamp_int(low, 0, 32767)
             h == clamp_int(high, 0, 32767)
  <2>1. l \in Nat /\ h \in Nat /\ l <= h BY DEF clamp_int
  <2>2. /\ convert_axis(axis, low) = (l * 255 + 16383) \div 32767
        /\ convert_axis(axis, high) = (h * 255 + 16383) \div 32767
    BY <1>3 DEF convert_axis
  <2> HIDE DEF l, h
  <2>3. (l * 255 + 16383) \div 32767 <= (h * 255 + 16383) \div 32767 BY <2>1
  <2> QED BY <2>2, <2>3
<1> QED BY <1>2, <1>3

\* In range, the library's axes are what the cast was given: it never wraps.
LEMMA LibAxisValue ==
  ASSUME NEW axis \in Axes, NEW value \in Int, InRange(axis, value)
  PROVE  lib_axis_value(axis_code[axis], value)
           = IF axis < 4 THEN value ELSE value * 257 - 32768
<1>1. CASE axis < 4
  <2>1. axis_code[axis] \notin {"ABS_Z", "ABS_RZ"} BY <1>1, AxisCodes DEF Axes
  <2>2. Int16(value) = value BY <1>1, Int16Keeps DEF InRange
  <2> QED BY <1>1, <2>1, <2>2 DEF lib_axis_value
<1>2. CASE ~(axis < 4)
  <2>1. axis_code[axis] \in {"ABS_Z", "ABS_RZ"} BY <1>2, AxisCodes DEF Axes
  <2>2. -32768 <= value * 257 - 32768 /\ value * 257 - 32768 <= 32767
    BY <1>2 DEF InRange
  <2>3. Int16(value * 257 - 32768) = value * 257 - 32768
    <3>1. value * 257 - 32768 \in Int OBVIOUS
    <3> QED BY <2>2, <3>1, Int16Keeps
  <2> QED BY <1>2, <2>1, <2>3 DEF lib_axis_value
<1> QED BY <1>1, <1>2

LEMMA LibMonotoneStep ==
  AllInv /\ AllInv' =>
    \A axis \in MovedAxes : raw'[axis] >= raw[axis] => lib'.axes[axis] >= lib.axes[axis]
<1> SUFFICES ASSUME AllInv, AllInv', NEW axis \in MovedAxes, raw'[axis] >= raw[axis]
             PROVE  lib'.axes[axis] >= lib.axes[axis]
  OBVIOUS
<1>1. axis \in Axes BY InputAssumption
<1>2. raw[axis] \in Int /\ raw'[axis] \in Int BY DEF AllInv, RawInv
<1>3. /\ state.axes[axis] = convert_axis(axis, raw[axis])
      /\ state'.axes[axis] = convert_axis(axis, raw'[axis])
  BY DEF AllInv, RawInv
<1>4. state.axes[axis] <= state'.axes[axis] BY <1>1, <1>2, <1>3, ConvertMonotone
<1>5. /\ state.axes[axis] \in Int /\ InRange(axis, state.axes[axis])
      /\ state'.axes[axis] \in Int /\ InRange(axis, state'.axes[axis])
  BY <1>1 DEF AllInv, AxesOK, PathInv, IsGamepadState
<1>6. /\ lib.axes[axis] = lib_axis_value(axis_code[axis], state.axes[axis])
      /\ lib'.axes[axis] = lib_axis_value(axis_code[axis], state'.axes[axis])
  BY <1>1 DEF AllInv, LibInv
<1>7. axis \in Int BY <1>1 DEF Axes
<1>8. /\ lib.axes[axis] = IF axis < 4 THEN state.axes[axis] ELSE state.axes[axis] * 257 - 32768
      /\ lib'.axes[axis] = IF axis < 4 THEN state'.axes[axis] ELSE state'.axes[axis] * 257 - 32768
  BY <1>1, <1>5, <1>6, LibAxisValue
<1> QED BY <1>4, <1>5, <1>7, <1>8

\* Pushing a stick or a trigger further never moves the library's axis back: the
\* scaling of convert_axis and the casts of process_event keep the order.
THEOREM AxesNeverFallBack == Spec => LibAxesMonotone
<1>1. AllInv /\ AllInv' =>
        [\A axis \in MovedAxes :
           raw'[axis] >= raw[axis] => lib'.axes[axis] >= lib.axes[axis]]_vars
  BY LibMonotoneStep
<1> QED BY <1>1, AllInvariant, PTL DEF LibAxesMonotone

\* Numbers of sixteen bits, from bounds.
LEMMA InInt16 ==
  ASSUME NEW value \in Int, -32768 <= value, value <= 32767
  PROVE  value \in Int16s
<1> DEFINE low == -32768
           high == 32767
<1>1. low \in Int /\ high \in Int /\ low <= value /\ value <= high OBVIOUS
<1>2. Int16s = low..high BY DEF Int16s
<1> HIDE DEF low, high
<1> QED BY <1>1, <1>2

LEMMA LibAxisInt16 ==
  ASSUME NEW code, NEW value \in Int
  PROVE  lib_axis_value(code, value) \in Int16s
<1>1. value * 257 - 32768 \in Int OBVIOUS
<1>2. \A n \in Int : Int16(n) \in Int16s BY Int16Keeps, InInt16
<1>3. CASE code \in {"ABS_Z", "ABS_RZ"} BY <1>1, <1>2, <1>3 DEF lib_axis_value
<1>4. CASE code \notin {"ABS_Z", "ABS_RZ"} BY <1>2, <1>4 DEF lib_axis_value
<1> QED BY <1>3, <1>4

LEMMA JoyAxisInt16 ==
  ASSUME NEW code, NEW value \in Int
  PROVE  tg_joy_axis_value(code, value) \in Int16s
<1>1. clamp_int(value, 0, 255) * 257 - 32767 \in Int BY DEF clamp_int
<1>2. \A n \in Int : Int16(n) \in Int16s BY Int16Keeps, InInt16
<1>3. 32767 * clamp_int(value, -1, 1) \in Int16s
  <2>1. clamp_int(value, -1, 1) \in {-1, 0, 1} BY DEF clamp_int
  <2> HIDE DEF clamp_int
  <2>2. 32767 * clamp_int(value, -1, 1) \in {-32767, 0, 32767} BY <2>1
  <2>3. 32767 * clamp_int(value, -1, 1) \in Int /\ -32768 <= 32767 * clamp_int(value, -1, 1)
        /\ 32767 * clamp_int(value, -1, 1) <= 32767
    BY <2>2
  <2> QED BY <2>3, InInt16
<1>4. clamp_int(value, -32767, 32767) \in Int16s
  <2>1. clamp_int(value, -32767, 32767) \in Int /\ -32768 <= clamp_int(value, -32767, 32767)
        /\ clamp_int(value, -32767, 32767) <= 32767
    BY DEF clamp_int
  <2> QED BY <2>1, InInt16
<1>5. CASE code \in {"ABS_Z", "ABS_RZ"}
  <2>1. code \notin {"ABS_HAT0X", "ABS_HAT0Y"} BY <1>5
  <2>2. tg_joy_axis_value(code, value) = Int16(clamp_int(value, 0, 255) * 257 - 32767)
    BY <1>5, <2>1, SMT DEF tg_joy_axis_value
  <2> QED BY <1>1, <1>2, <2>2
<1>6. CASE code \in {"ABS_HAT0X", "ABS_HAT0Y"}
  <2>1. code \notin {"ABS_Z", "ABS_RZ"} BY <1>6
  <2>2. tg_joy_axis_value(code, value) = 32767 * clamp_int(value, -1, 1)
    BY <1>6, <2>1, SMT DEF tg_joy_axis_value
  <2> QED BY <1>3, <2>2
<1>7. CASE code \notin {"ABS_Z", "ABS_RZ"} /\ code \notin {"ABS_HAT0X", "ABS_HAT0Y"}
  <2>1. tg_joy_axis_value(code, value) = clamp_int(value, -32767, 32767)
    BY <1>7, SMT DEF tg_joy_axis_value
  <2> QED BY <1>4, <2>1
<1> QED BY <1>5, <1>6, <1>7

LEMMA AllTypeOK == AllInv => TypeOK
<1> SUFFICES ASSUME AllInv PROVE TypeOK
  OBVIOUS
<1>1. IsGamepadState(state) BY DEF AllInv, PathInv
<1>2. \A axis \in Axes : state.axes[axis] \in Int BY <1>1 DEF IsGamepadState
<1>3. lib.axes \in [Axes -> Int16s]
  BY <1>2, LibAxisInt16, Zenon DEF AllInv, LibInv
<1>4. lib.hats \in [Hats -> -1..1]
  <2>1. \A code \in Hats : Value(state, code) \in -1..1 BY <1>1, ValueTypes
  <2>2. lib.hats = [code \in Hats |-> Value(state, code)] BY DEF AllInv, LibInv
  <2> QED BY <2>1, <2>2
<1>5. js.axes \in [0..7 -> Int16s]
  <2>1. \A n \in 0..7 : Value(state, joy_code[n]) \in Int BY <1>1, ValueTypes, JoyAxisCodes
  <2>2. \A n \in 0..7 :
          tg_joy_axis_value(joy_code[n], Value(state, joy_code[n])) \in Int16s
    BY <2>1, JoyAxisInt16
  <2>3. js.axes = [n \in 0..7 |-> tg_joy_axis_value(joy_code[n], Value(state, joy_code[n]))]
    BY DEF AllInv, LibInv
  <2> QED BY <2>2, <2>3, Zenon
<1>6. lib.buttons \subseteq 0..11 /\ js.buttons \subseteq 0..11
  BY KeyNumbers DEF AllInv, LibInv, Held
<1> QED BY <1>1, <1>3, <1>4, <1>5, <1>6 DEF TypeOK

\* The bridge's, the library's and the joystick's state keep their C types.
THEOREM PathTypeCorrect == Spec => []TypeOK
BY AllInvariant, AllTypeOK, PTL

\* As many values as keys: an injective numbering does not change a count.
LEMMA SameCount ==
  ASSUME NEW S, IsFiniteSet(S), NEW f, f = [s \in S |-> f[s]],
         \A s, t \in S : f[s] = f[t] => s = t
  PROVE  /\ IsFiniteSet({f[s] : s \in S})
         /\ Cardinality({f[s] : s \in S}) = Cardinality(S)
<1> DEFINE T == {f[s] : s \in S}
<1>1. f \in [S -> T] OBVIOUS
<1>2. \A t \in T : \E s \in S : f[s] = t OBVIOUS
<1> HIDE DEF T
<1>3. f \in Bijection(S, T) BY <1>1, <1>2, Fun_IsBij
<1>4. ExistsBijection(S, T) BY <1>3 DEF ExistsBijection
<1> QED BY <1>4, FS_Bijection DEF T

\* The keys held are the buttons held that are not a hat's.
LEMMA HeldIsButtons ==
  ASSUME NEW st, IsGamepadState(st)
  PROVE  /\ IsFiniteSet(Held(st))
         /\ Cardinality(Held(st)) = Cardinality(st.buttons \ HatDetails)
<1> DEFINE D == st.buttons \ HatDetails
           K == {1, 2, 3, 4, 5, 6, 7, 8, 9, 10, 15, 16}
           f == [d \in D |-> button_code[d]]
<1>1. D \subseteq K
  BY DEF IsGamepadState, Details, HatDetails
<1>2. IsFiniteSet(D)
  <2>1. IsFiniteSet(1..16)
    <3>1. 1 \in Int /\ 16 \in Int OBVIOUS
    <3> QED BY <3>1, FS_Interval, Zenon
  <2>2. D \in SUBSET (1..16) BY <1>1
  <2> QED BY <2>1, <2>2, FS_Subset
<1>3. \A d, e \in K : button_code[d] = button_code[e] => d = e
  <2>1. \A d \in K : SnapshotDetail[button_code[d]] = d
    BY ButtonCodes, SnapshotDetails, ZenonT(40)
  <2> HIDE DEF K
  <2> QED BY <2>1
<1>4. \A d \in K : button_code[d] \in KeyCodes /\ (Value(st, button_code[d]) = 1 <=> d \in st.buttons)
  <2>1. \A d \in K : button_code[d] \in KeyCodes BY ButtonCodes DEF KeyCodes
  <2>2. \A d \in K : Value(st, button_code[d]) = Bit(d \in st.buttons)
    BY ButtonCodes, ZenonT(40) DEF Value
  <2> QED BY <2>1, <2>2 DEF Bit
<1>5. \A code \in KeyCodes : \E d \in K : button_code[d] = code
  BY ButtonCodes DEF KeyCodes
<1>6. \A d \in K : d \notin HatDetails BY DEF HatDetails
<1> HIDE DEF D, K
<1>7. Held(st) = {button_code[d] : d \in D}
  <2>1. ASSUME NEW code \in Held(st) PROVE \E d \in D : code = button_code[d]
    BY <1>4, <1>5, <1>6 DEF Held, D
  <2>2. ASSUME NEW d \in D PROVE button_code[d] \in Held(st)
    <3>1. d \in K /\ d \in st.buttons BY <1>1 DEF D
    <3> QED BY <1>4, <3>1 DEF Held
  <2> QED BY <2>1, <2>2
<1>8. Held(st) = {f[d] : d \in D} BY <1>7
<1>9. IsFiniteSet({f[d] : d \in D}) /\ Cardinality({f[d] : d \in D}) = Cardinality(D)
  <2>1. \A d, e \in D : f[d] = f[e] => d = e BY <1>1, <1>3
  <2>2. f = [d \in D |-> f[d]] OBVIOUS
  <2> HIDE DEF f
  <2> QED BY <1>2, <2>1, <2>2, SameCount
<1> QED BY <1>8, <1>9 DEF D

LEMMA EveryNumberingCounts ==
  ASSUME NEW H \in SUBSET KeyCodes, IsFiniteSet(H)
  PROVE  /\ Cardinality({button_index(code) : code \in H}) = Cardinality(H)
         /\ Cardinality({tg_joy_button_number(code) : code \in H}) = Cardinality(H)
         /\ Cardinality({tg_dinput_button_code(code) : code \in H}) = Cardinality(H)
<1>1. Cardinality({button_index(code) : code \in H}) = Cardinality(H)
  <2> DEFINE f == [code \in H |-> button_index(code)]
  <2>1. f = [code \in H |-> f[code]] OBVIOUS
  <2>2. \A c, d \in H : f[c] = f[d] => c = d BY KeyNumbers
  <2>3. {f[code] : code \in H} = {button_index(code) : code \in H} OBVIOUS
  <2> HIDE DEF f
  <2>4. Cardinality({f[code] : code \in H}) = Cardinality(H) BY <2>1, <2>2, SameCount
  <2> QED BY <2>3, <2>4
<1>2. Cardinality({tg_joy_button_number(code) : code \in H}) = Cardinality(H)
  <2> DEFINE f == [code \in H |-> tg_joy_button_number(code)]
  <2>1. f = [code \in H |-> f[code]] OBVIOUS
  <2>2. \A c, d \in H : f[c] = f[d] => c = d BY KeyNumbers
  <2>3. {f[code] : code \in H} = {tg_joy_button_number(code) : code \in H} OBVIOUS
  <2> HIDE DEF f
  <2>4. Cardinality({f[code] : code \in H}) = Cardinality(H) BY <2>1, <2>2, SameCount
  <2> QED BY <2>3, <2>4
<1>3. Cardinality({tg_dinput_button_code(code) : code \in H}) = Cardinality(H)
  <2> DEFINE f == [code \in H |-> tg_dinput_button_code(code)]
  <2>1. f = [code \in H |-> f[code]] OBVIOUS
  <2>2. \A c, d \in H : f[c] = f[d] => c = d BY KeyNumbers
  <2>3. {f[code] : code \in H} = {tg_dinput_button_code(code) : code \in H} OBVIOUS
  <2> HIDE DEF f
  <2>4. Cardinality({f[code] : code \in H}) = Cardinality(H) BY <2>1, <2>2, SameCount
  <2> QED BY <2>3, <2>4
<1> QED BY <1>1, <1>2, <1>3

LEMMA AllSeen == AllInv => EveryHeldButtonSeen
<1> SUFFICES ASSUME AllInv PROVE EveryHeldButtonSeen
  OBVIOUS
<1> DEFINE H == Held(state)
           held == Cardinality(state.buttons \ HatDetails)
           shown == {tg_dinput_button_code(p[1]) : p \in {p \in view : IsKey(p) /\ p[2] = 1}}
<1>1. IsGamepadState(state) /\ view = Values(state, StreamCodes)
  BY SnapshotIsValues DEF AllInv, PathInv, ChangesAddUpToSnapshot
<1>2. H \in SUBSET KeyCodes /\ IsFiniteSet(H) /\ Cardinality(H) = held
  BY <1>1, HeldIsButtons DEF Held
<1>3. /\ lib.buttons = {button_index(code) : code \in H}
      /\ js.buttons = {tg_joy_button_number(code) : code \in H}
  BY DEF AllInv, LibInv
<1>4. shown = {tg_dinput_button_code(code) : code \in H}
  <2>1. {p \in view : IsKey(p) /\ p[2] = 1} = Values(state, H)
    BY <1>1, KeyNumbers DEF IsKey, Values, Held, KeyCodes, StreamCodes
  <2> HIDE DEF H
  <2>2. \A code \in H : \E p \in Values(state, H) : p[1] = code
    <3>1. \A code \in H : <<code, Value(state, code)>> \in Values(state, H) BY DEF Values
    <3> QED BY <3>1
  <2>3. \A p \in Values(state, H) : p[1] \in H BY DEF Values
  <2>4. {tg_dinput_button_code(p[1]) : p \in Values(state, H)}
          = {tg_dinput_button_code(code) : code \in H}
    BY <2>2, <2>3
  <2> QED BY <2>1, <2>4
<1>5. /\ js.axes[6] = tg_joy_axis_value("ABS_HAT0X", state.hat_x)
      /\ js.axes[7] = tg_joy_axis_value("ABS_HAT0Y", state.hat_y)
      /\ lib.hats["ABS_HAT0X"] = state.hat_x /\ lib.hats["ABS_HAT0Y"] = state.hat_y
  <2>1. Value(state, "ABS_HAT0X") = state.hat_x /\ Value(state, "ABS_HAT0Y") = state.hat_y
    BY DEF Value
  <2>2. "ABS_HAT0X" \in Hats /\ "ABS_HAT0Y" \in Hats BY DEF Hats
  <2>3. 6 \in 0..7 /\ 7 \in 0..7 OBVIOUS
  <2> QED BY <2>1, <2>2, <2>3, JoyAxisCodes DEF AllInv, LibInv
<1>6. \A value \in {-1, 0, 1} :
        /\ tg_joy_axis_value("ABS_HAT0X", value) = 32767 * value
        /\ tg_joy_axis_value("ABS_HAT0Y", value) = 32767 * value
  BY DEF tg_joy_axis_value, clamp_int
<1>7. state.hat_x \in {-1, 0, 1} /\ state.hat_y \in {-1, 0, 1}
  BY <1>1 DEF IsGamepadState
<1>8. js.axes[6] = 32767 * lib.hats["ABS_HAT0X"] /\ js.axes[7] = 32767 * lib.hats["ABS_HAT0Y"]
  BY <1>5, <1>6, <1>7
<1>9. Cardinality(lib.buttons) = held /\ Cardinality(js.buttons) = held
        /\ Cardinality(shown) = held
  <2> HIDE DEF H, held, shown
  <2> QED BY <1>2, <1>3, <1>4, EveryNumberingCounts
<1> QED BY <1>8, <1>9 DEF EveryHeldButtonSeen

\* No two buttons share a number and none is dropped, in the library, on the
\* joystick and on the DirectInput device: each shows as many buttons as the
\* controller holds, and both readers see the same hats.
THEOREM NoButtonLost == Spec => []EveryHeldButtonSeen
BY AllInvariant, AllSeen, PTL
=============================================================================
