---------------------------- MODULE XiInputProofs ----------------------------
(* What XiInput promises to the bridge, for every state and every event.     *)
EXTENDS XiInput, TLAPS

\* The codes a stream may carry.
StreamCodes ==
  {"ABS_X", "ABS_Y", "ABS_RX", "ABS_RY", "ABS_Z", "ABS_RZ",
   "ABS_HAT0X", "ABS_HAT0Y",
   "BTN_SOUTH", "BTN_EAST", "BTN_NORTH", "BTN_WEST", "BTN_TL", "BTN_TR",
   "BTN_SELECT", "BTN_START", "BTN_THUMBL", "BTN_THUMBR", "BTN_MODE", "BTN_C"}

\* convert_axis yields an integer for every valuator value.
LEMMA ConvertAxisType ==
  ASSUME NEW axis \in Axes, NEW value \in Int
  PROVE  convert_axis(axis, value) \in Int
BY DEF convert_axis, clamp_int, Axes

\* An event leaves the bridge with a well-formed gamepad state: the buttons
\* stay in the 16 bits that have a detail, the hats in -1..1.
LEMMA AfterType ==
  ASSUME NEW st, IsGamepadState(st), NEW e, IsXiEvent(e)
  PROVE  IsGamepadState(After(st, e))
<1>1. CASE e.type = "motion"
  <2>1. DOMAIN e.raw \subseteq Axes /\ \A axis \in DOMAIN e.raw : e.raw[axis] \in Int
    BY <1>1 DEF IsXiEvent
  <2>2. \A axis \in Axes : (IF axis \in DOMAIN e.raw
                            THEN convert_axis(axis, e.raw[axis])
                            ELSE st.axes[axis]) \in Int
    BY <2>1, ConvertAxisType DEF IsGamepadState
  <2> QED BY <1>1, <2>2 DEF After, AfterMotion, IsGamepadState
<1>2. CASE e.type # "motion"
  <2>1. \A B, n, p : hat_value(B, n, p) \in {-1, 0, 1}
    BY DEF hat_value, Bit
  <2> QED BY <1>2, <2>1 DEF After, AfterButton, Flips, IsGamepadState
<1> QED BY <1>1, <1>2

\* axis_code, entry by entry.
LEMMA AxisCodes ==
  /\ axis_code[0] = "ABS_X" /\ axis_code[1] = "ABS_Y"
  /\ axis_code[2] = "ABS_RX" /\ axis_code[3] = "ABS_RY"
  /\ axis_code[4] = "ABS_Z" /\ axis_code[5] = "ABS_RZ"
BY DEF axis_code, Axes

\* The value the gamepad state has for a code.
Value(st, code) ==
  CASE code = "ABS_X"  -> st.axes[0] [] code = "ABS_Y"  -> st.axes[1]
    [] code = "ABS_RX" -> st.axes[2] [] code = "ABS_RY" -> st.axes[3]
    [] code = "ABS_Z"  -> st.axes[4] [] code = "ABS_RZ" -> st.axes[5]
    [] code = "ABS_HAT0X" -> st.hat_x [] code = "ABS_HAT0Y" -> st.hat_y
    [] code = "BTN_SOUTH"  -> Bit(1 \in st.buttons)
    [] code = "BTN_EAST"   -> Bit(2 \in st.buttons)
    [] code = "BTN_NORTH"  -> Bit(3 \in st.buttons)
    [] code = "BTN_WEST"   -> Bit(4 \in st.buttons)
    [] code = "BTN_TL"     -> Bit(5 \in st.buttons)
    [] code = "BTN_TR"     -> Bit(6 \in st.buttons)
    [] code = "BTN_SELECT" -> Bit(7 \in st.buttons)
    [] code = "BTN_START"  -> Bit(8 \in st.buttons)
    [] code = "BTN_THUMBL" -> Bit(9 \in st.buttons)
    [] code = "BTN_THUMBR" -> Bit(10 \in st.buttons)
    [] code = "BTN_MODE"   -> Bit(15 \in st.buttons)
    [] code = "BTN_C"      -> Bit(16 \in st.buttons)

Values(st, codes) == {<<code, Value(st, code)>> : code \in codes}

\* The codes of a set of values are the codes it was built from.
LEMMA CodesOfValues ==
  ASSUME NEW st, NEW codes
  PROVE  Codes(Values(st, codes)) = codes
<1>1. ASSUME NEW p \in Values(st, codes)
      PROVE  p[1] \in codes
  <2>1. PICK code \in codes : p = <<code, Value(st, code)>>
    BY <1>1 DEF Values
  <2> QED BY <2>1
<1>2. ASSUME NEW code \in codes
      PROVE  \E p \in Values(st, codes) : p[1] = code
  <2>1. <<code, Value(st, code)>> \in Values(st, codes)
    BY DEF Values
  <2>2. <<code, Value(st, code)>>[1] = code
    OBVIOUS
  <2> QED BY <2>1, <2>2
<1>3. Codes(Values(st, codes)) \subseteq codes
  BY <1>1 DEF Codes
<1>4. codes \subseteq Codes(Values(st, codes))
  BY <1>2 DEF Codes
<1> QED BY <1>3, <1>4

\* Every axis has a code of the stream, and that code its value.
LEMMA AxisValue ==
  ASSUME NEW st
  PROVE  \A axis \in Axes : /\ axis_code[axis] \in StreamCodes
                            /\ Value(st, axis_code[axis]) = st.axes[axis]
<1>1. /\ Value(st, "ABS_X") = st.axes[0] /\ Value(st, "ABS_Y") = st.axes[1]
      /\ Value(st, "ABS_RX") = st.axes[2] /\ Value(st, "ABS_RY") = st.axes[3]
      /\ Value(st, "ABS_Z") = st.axes[4] /\ Value(st, "ABS_RZ") = st.axes[5]
  BY DEF Value
<1> QED BY <1>1, AxisCodes DEF Axes, StreamCodes

\* button_code, entry by entry.
LEMMA ButtonCodes ==
  /\ button_code[1] = "BTN_SOUTH" /\ button_code[2] = "BTN_EAST"
  /\ button_code[3] = "BTN_NORTH" /\ button_code[4] = "BTN_WEST"
  /\ button_code[5] = "BTN_TL" /\ button_code[6] = "BTN_TR"
  /\ button_code[7] = "BTN_SELECT" /\ button_code[8] = "BTN_START"
  /\ button_code[9] = "BTN_THUMBL" /\ button_code[10] = "BTN_THUMBR"
  /\ button_code[11] = "" /\ button_code[12] = ""
  /\ button_code[13] = "" /\ button_code[14] = ""
  /\ button_code[15] = "BTN_MODE" /\ button_code[16] = "BTN_C"
BY DEF button_code, Details

KeyCodes ==
  {"BTN_SOUTH", "BTN_EAST", "BTN_NORTH", "BTN_WEST", "BTN_TL", "BTN_TR",
   "BTN_SELECT", "BTN_START", "BTN_THUMBL", "BTN_THUMBR", "BTN_MODE", "BTN_C"}

\* SnapshotDetail, entry by entry.
LEMMA SnapshotDetails ==
  /\ DOMAIN SnapshotDetail = KeyCodes
  /\ SnapshotDetail["BTN_SOUTH"] = 1 /\ SnapshotDetail["BTN_EAST"] = 2
  /\ SnapshotDetail["BTN_NORTH"] = 3 /\ SnapshotDetail["BTN_WEST"] = 4
  /\ SnapshotDetail["BTN_TL"] = 5 /\ SnapshotDetail["BTN_TR"] = 6
  /\ SnapshotDetail["BTN_SELECT"] = 7 /\ SnapshotDetail["BTN_START"] = 8
  /\ SnapshotDetail["BTN_THUMBL"] = 9 /\ SnapshotDetail["BTN_THUMBR"] = 10
  /\ SnapshotDetail["BTN_MODE"] = 15 /\ SnapshotDetail["BTN_C"] = 16
BY DEF SnapshotDetail, KeyCodes

\* The table the reports use and the table of send_snapshot agree.
LEMMA TablesAgree ==
  /\ \A detail \in Details : button_code[detail] # "" =>
       /\ button_code[detail] \in KeyCodes
       /\ SnapshotDetail[button_code[detail]] = detail
  /\ \A code \in KeyCodes : /\ SnapshotDetail[code] \in Details \ HatDetails
                            /\ button_code[SnapshotDetail[code]] = code
                            /\ code # ""
<1>1. \A detail \in Details :
        \/ detail \in {1, 2, 3, 4, 5, 6, 7, 8}
        \/ detail \in {9, 10, 11, 12, 13, 14, 15, 16}
  BY DEF Details
<1>2. \A detail \in {1, 2, 3, 4, 5, 6, 7, 8} :
        /\ button_code[detail] \in KeyCodes
        /\ SnapshotDetail[button_code[detail]] = detail
  BY ButtonCodes, SnapshotDetails, ZenonT(40) DEF KeyCodes
<1>3. \A detail \in {9, 10, 11, 12, 13, 14, 15, 16} :
        button_code[detail] # "" =>
          /\ button_code[detail] \in KeyCodes
          /\ SnapshotDetail[button_code[detail]] = detail
  BY ButtonCodes, SnapshotDetails, ZenonT(40) DEF KeyCodes
<1>4. \A code \in KeyCodes :
        /\ SnapshotDetail[code] \in {1, 2, 3, 4, 5, 6, 7, 8, 9, 10, 15, 16}
        /\ button_code[SnapshotDetail[code]] = code
        /\ code # ""
  BY ButtonCodes, SnapshotDetails, ZenonT(40) DEF KeyCodes
<1>5. {1, 2, 3, 4, 5, 6, 7, 8, 9, 10, 15, 16} \subseteq Details \ HatDetails
  BY DEF Details, HatDetails
<1>6. \A detail \in Details : button_code[detail] # "" =>
        /\ button_code[detail] \in KeyCodes
        /\ SnapshotDetail[button_code[detail]] = detail
  <2>1. TAKE detail \in Details
  <2>2. CASE detail \in {1, 2, 3, 4, 5, 6, 7, 8}
    BY <1>2, <2>2
  <2>3. CASE detail \in {9, 10, 11, 12, 13, 14, 15, 16}
    BY <1>3, <2>3
  <2> QED BY <1>1, <2>2, <2>3
<1>7. \A code \in KeyCodes : /\ SnapshotDetail[code] \in Details \ HatDetails
                              /\ button_code[SnapshotDetail[code]] = code
                              /\ code # ""
  BY <1>4, <1>5
<1> QED BY <1>6, <1>7

\* Every key has a code of the stream, and that code its value.
LEMMA KeyValue ==
  ASSUME NEW st
  PROVE  \A code \in KeyCodes :
           /\ code \in StreamCodes
           /\ Value(st, code) = Bit(SnapshotDetail[code] \in st.buttons)
<1>1. /\ Value(st, "BTN_SOUTH") = Bit(1 \in st.buttons)
      /\ Value(st, "BTN_EAST") = Bit(2 \in st.buttons)
      /\ Value(st, "BTN_NORTH") = Bit(3 \in st.buttons)
      /\ Value(st, "BTN_WEST") = Bit(4 \in st.buttons)
      /\ Value(st, "BTN_TL") = Bit(5 \in st.buttons)
      /\ Value(st, "BTN_TR") = Bit(6 \in st.buttons)
      /\ Value(st, "BTN_SELECT") = Bit(7 \in st.buttons)
      /\ Value(st, "BTN_START") = Bit(8 \in st.buttons)
      /\ Value(st, "BTN_THUMBL") = Bit(9 \in st.buttons)
      /\ Value(st, "BTN_THUMBR") = Bit(10 \in st.buttons)
      /\ Value(st, "BTN_MODE") = Bit(15 \in st.buttons)
      /\ Value(st, "BTN_C") = Bit(16 \in st.buttons)
  BY DEF Value
<1>2. KeyCodes \subseteq StreamCodes
  BY DEF KeyCodes, StreamCodes
<1> QED BY <1>1, <1>2, SnapshotDetails DEF KeyCodes

\* send_snapshot's tables name every code of the stream once, with its value.
LEMMA SnapshotIsValues ==
  ASSUME NEW st
  PROVE  Snapshot(st) = Values(st, StreamCodes)
<1>1. \A axis \in Axes : /\ axis_code[axis] \in StreamCodes
                         /\ Value(st, axis_code[axis]) = st.axes[axis]
  BY AxisValue
<1>3. /\ {"ABS_HAT0X", "ABS_HAT0Y"} \subseteq StreamCodes
      /\ Value(st, "ABS_HAT0X") = st.hat_x /\ Value(st, "ABS_HAT0Y") = st.hat_y
  BY DEF StreamCodes, Value
<1>4. Snapshot(st) \subseteq Values(st, StreamCodes)
  BY <1>1, <1>3, KeyValue, SnapshotDetails DEF Snapshot, Values
<1>5. \A code \in StreamCodes :
         \/ \E axis \in Axes : axis_code[axis] = code
         \/ code \in {"ABS_HAT0X", "ABS_HAT0Y"}
         \/ code \in KeyCodes
  <2>1. \A code \in {"ABS_X", "ABS_Y", "ABS_RX", "ABS_RY", "ABS_Z", "ABS_RZ"} :
           \E axis \in Axes : axis_code[axis] = code
    BY AxisCodes DEF Axes
  <2> QED BY <2>1 DEF StreamCodes, KeyCodes
<1>6. Values(st, StreamCodes) \subseteq Snapshot(st)
  BY <1>1, <1>3, <1>5, KeyValue, SnapshotDetails DEF Snapshot, Values
<1> QED BY <1>4, <1>6

\* The codes at which two states differ.
Changed(st, new) == {code \in StreamCodes : Value(new, code) # Value(st, code)}

\* A report names exactly the codes whose values the event changes, each with
\* its new value.
LEMMA ReportIsChanged ==
  ASSUME NEW st, IsGamepadState(st), NEW e, IsXiEvent(e)
  PROVE  Report(st, e) = Values(After(st, e), Changed(st, After(st, e)))
<1> DEFINE new == After(st, e)
<1>0. IsGamepadState(new)
  BY AfterType
<1>1. CASE e.type = "motion"
  <2>1. new.buttons = st.buttons /\ new.hat_x = st.hat_x /\ new.hat_y = st.hat_y
    BY <1>1 DEF After, AfterMotion, IsGamepadState
  <2>2. \A code \in StreamCodes :
          Value(new, code) # Value(st, code) =>
            \E axis \in Axes : axis_code[axis] = code /\ new.axes[axis] # st.axes[axis]
    BY <2>1, AxisCodes DEF StreamCodes, Value, Axes
  <2>3. \A axis \in Axes : new.axes[axis] # st.axes[axis] =>
          /\ axis_code[axis] \in Changed(st, new)
          /\ Value(new, axis_code[axis]) = new.axes[axis]
    BY AxisValue DEF Changed
  <2>4. Report(st, e) = AxisEvents(st, new)
    BY <1>1 DEF Report
  <2> HIDE DEF new
  <2>5. AxisEvents(st, new) \subseteq Values(new, Changed(st, new))
    BY <2>3 DEF AxisEvents, Values
  <2>6. Values(new, Changed(st, new)) \subseteq AxisEvents(st, new)
    BY <2>2, <2>3 DEF AxisEvents, Values, Changed
  <2> QED BY <2>4, <2>5, <2>6 DEF new
<1>2. CASE e.type # "motion"
  <2> DEFINE type == e.type  detail == e.detail
  <2>1. type \in {"press", "release"} /\ detail \in Nat
    BY <1>2 DEF IsXiEvent
  <2>2. Report(st, e) = HatEvents(st, new) \union KeyEvents(st, type, detail)
    BY <1>2 DEF Report
  <2>3. new.axes = st.axes
    BY <1>2 DEF After, AfterButton, IsGamepadState
  <2>4. CASE ~Flips(st, type, detail)
    <3>1. new = st
      BY <1>2, <2>4 DEF After, AfterButton
    <3> QED BY <2>2, <2>4, <3>1 DEF HatEvents, KeyEvents, Values, Changed
  <2>5. CASE Flips(st, type, detail)
    <3>1. detail \in Details
      BY <2>5 DEF Flips
    <3>2. /\ \A d \in Details \ {detail} : (d \in new.buttons) <=> (d \in st.buttons)
          /\ (detail \in new.buttons) <=> (type = "press")
          /\ (detail \in st.buttons) <=> (type # "press")
      BY <1>2, <2>5 DEF After, AfterButton, Flips, IsGamepadState
    <3>3. \A code \in KeyCodes :
            Value(new, code) # Value(st, code) <=> SnapshotDetail[code] = detail
      <4>1. TAKE code \in KeyCodes
      <4> DEFINE d == SnapshotDetail[code]
      <4>2. d \in Details
        BY TablesAgree
      <4>3. /\ Value(new, code) = Bit(d \in new.buttons)
            /\ Value(st, code) = Bit(d \in st.buttons)
        BY KeyValue
      <4> HIDE DEF d, new, type, detail
      <4>4. CASE d = detail
        <5>1. (d \in new.buttons) # (d \in st.buttons)
          BY <3>2, <4>4
        <5>2. Bit(d \in new.buttons) # Bit(d \in st.buttons)
          BY <5>1 DEF Bit
        <5> QED BY <4>3, <4>4, <5>2 DEF d
      <4>5. CASE d # detail
        <5>1. (d \in new.buttons) <=> (d \in st.buttons)
          BY <3>2, <4>2, <4>5
        <5>2. Bit(d \in new.buttons) = Bit(d \in st.buttons)
          BY <5>1 DEF Bit
        <5> QED BY <4>3, <4>5, <5>2 DEF d
      <4> QED BY <4>4, <4>5 DEF d
    <3>4. \A code \in KeyCodes :
            SnapshotDetail[code] = detail =>
              Value(new, code) = Bit(type = "press")
      BY <3>2, KeyValue
    <3>5. \A code \in StreamCodes \ KeyCodes :
            Value(new, code) # Value(st, code) =>
              \/ code = "ABS_HAT0X" /\ new.hat_x # st.hat_x
              \/ code = "ABS_HAT0Y" /\ new.hat_y # st.hat_y
      BY <2>3 DEF StreamCodes, KeyCodes, Value
    <3>6. /\ "ABS_HAT0X" \in StreamCodes /\ "ABS_HAT0Y" \in StreamCodes
          /\ Value(new, "ABS_HAT0X") = new.hat_x
          /\ Value(new, "ABS_HAT0Y") = new.hat_y
          /\ Value(st, "ABS_HAT0X") = st.hat_x
          /\ Value(st, "ABS_HAT0Y") = st.hat_y
      BY DEF StreamCodes, Value
    <3>7. KeyEvents(st, type, detail) = {<<code, Value(new, code)>> :
            code \in {code \in KeyCodes : SnapshotDetail[code] = detail}}
      <4> HIDE DEF new, type, detail
      <4>1. CASE button_code[detail] = ""
        <5>1. \A code \in KeyCodes : SnapshotDetail[code] # detail
          BY <4>1, TablesAgree
        <5>2. KeyEvents(st, type, detail) = {}
          BY <4>1 DEF KeyEvents
        <5> QED BY <5>1, <5>2
      <4>2. CASE button_code[detail] # ""
        <5>1. {code \in KeyCodes : SnapshotDetail[code] = detail}
                = {button_code[detail]}
          BY <3>1, <4>2, TablesAgree
        <5>2. Value(new, button_code[detail]) = Bit(type = "press")
          BY <3>1, <3>4, <4>2, TablesAgree
        <5>3. KeyEvents(st, type, detail)
                = {<<button_code[detail], Value(new, button_code[detail])>>}
          BY <2>5, <4>2, <5>2 DEF KeyEvents
        <5> QED BY <5>1, <5>3
      <4> QED BY <4>1, <4>2
    <3> HIDE DEF new
    <3>8. Report(st, e) \subseteq Values(new, Changed(st, new))
      BY <2>2, <3>3, <3>6, <3>7, KeyValue DEF HatEvents, Values, Changed
    <3>9. Values(new, Changed(st, new)) \subseteq Report(st, e)
      BY <2>2, <3>3, <3>5, <3>6, <3>7 DEF HatEvents, Values, Changed
    <3> QED BY <3>8, <3>9 DEF new
  <2> QED BY <2>4, <2>5
<1> QED BY <1>1, <1>2

\* The changes complete what a reader was told to a snapshot of the new state.
\* This is why process_xi_event may leave out what did not change.
THEOREM ReportCompletesSnapshot ==
  ASSUME NEW st, IsGamepadState(st), NEW e, IsXiEvent(e)
  PROVE  Told(Snapshot(st), Report(st, e)) = Snapshot(After(st, e))
<1> DEFINE new == After(st, e)
           changed == Changed(st, new)
<1>1. /\ Snapshot(st) = Values(st, StreamCodes)
      /\ Snapshot(new) = Values(new, StreamCodes)
      /\ Report(st, e) = Values(new, changed)
  BY SnapshotIsValues, ReportIsChanged
<1>2. \A code \in StreamCodes \ changed : Value(new, code) = Value(st, code)
  BY DEF Changed
<1>3. changed \subseteq StreamCodes
  BY DEF Changed
<1> HIDE DEF new, changed
<1>4. Codes(Values(new, changed)) = changed
  BY CodesOfValues
<1>5. Told(Values(st, StreamCodes), Values(new, changed))
        = Values(new, StreamCodes)
  BY <1>2, <1>3, <1>4 DEF Told, Values
<1> QED BY <1>1, <1>5 DEF new

\* A reader whose view has codes of the stream only, and then gets a snapshot,
\* holds the snapshot and nothing else.
LEMMA SnapshotReplacesView ==
  ASSUME NEW st, NEW view, Codes(view) \subseteq StreamCodes
  PROVE  Told(view, Snapshot(st)) = Snapshot(st)
<1>1. Codes(Snapshot(st)) = StreamCodes
  BY SnapshotIsValues, CodesOfValues
<1> QED BY <1>1 DEF Told, Codes

\* No report and no snapshot takes a view beyond the codes of the stream.
LEMMA ViewStaysInCodes ==
  ASSUME NEW st, IsGamepadState(st), NEW e, IsXiEvent(e),
         NEW view, Codes(view) \subseteq StreamCodes
  PROVE  /\ Codes(Told(view, Report(st, e))) \subseteq StreamCodes
         /\ Codes(Told(view, Snapshot(st))) \subseteq StreamCodes
<1>1. Codes(Report(st, e)) \subseteq StreamCodes
  <2>1. Codes(Report(st, e)) = Changed(st, After(st, e))
    BY ReportIsChanged, CodesOfValues
  <2> QED BY <2>1 DEF Changed
<1>2. Codes(Snapshot(st)) \subseteq StreamCodes
  BY SnapshotIsValues, CodesOfValues
<1> QED BY <1>1, <1>2 DEF Told, Codes
=============================================================================
