------------------------- MODULE BridgeServiceProofs -------------------------
(***************************************************************************)
(* What a client of BridgeService may rely on, for every set of            *)
(* connections and devices: Spec => []Kept, if an untouched controller has *)
(* one value for each code.                                                *)
(***************************************************************************)
EXTENDS BridgeService, TLAPS

\* Kept for one session; and what a session was told, live or not, is about
\* codes that a snapshot replaces.
Good(s, dev, pic) ==
  /\ CodesIn(s.view) \subseteq CodesIn(Zero)
  /\ s.role = "events" /\ s.live => s.view = pic
  /\ s.role = "monitor" => s.news = dev

IInv ==
  /\ IsPicture(picture)
  /\ session = [c \in Conns |-> session[c]]
  /\ \A c \in Conns : Good(session[c], device, picture)

\* A connection that was lost owes nothing.
LEMMA ClosedIsGood == ASSUME NEW dev, NEW pic PROVE Good(Closed, dev, pic)
  BY DEF Good, Closed, Session, CodesIn

\* A snapshot leaves nothing of an earlier view (send_snapshot).
LEMMA SnapshotReplaces ==
  ASSUME NEW view, NEW pic, CodesIn(view) \subseteq CodesIn(Zero), IsPicture(pic)
  PROVE  Updated(view, pic) = pic
  BY Zenon DEF Updated, IsPicture, CodesIn

\* The differences make the new picture of the old one (process_xi_event).
LEMMA DifferencesAddUp ==
  ASSUME NEW old, NEW new, IsPicture(old), IsPicture(new)
  PROVE  Updated(old, new \ old) = new
<1>1. ASSUME NEW p \in Updated(old, new \ old) PROVE p \in new
  <2>1. CASE p \in new \ old BY <2>1
  <2>2. CASE p \in old /\ p[1] \notin CodesIn(new \ old)
    <3>1. PICK q \in new : q[1] = p[1] BY <2>2 DEF IsPicture, CodesIn
    <3>2. q \in old BY <2>2, <3>1 DEF CodesIn
    <3> QED BY <2>2, <3>1, <3>2 DEF IsPicture
  <2> QED BY <1>1, <2>1, <2>2 DEF Updated
<1>2. ASSUME NEW p \in new PROVE p \in Updated(old, new \ old)
  <2>1. CASE p \in old
    <3>1. p[1] \notin CodesIn(new \ old) BY <2>1, <1>2 DEF IsPicture, CodesIn
    <3> QED BY <2>1, <3>1 DEF Updated
  <2>2. CASE p \notin old BY <1>2, <2>2 DEF Updated
  <2> QED BY <2>1, <2>2
<1> QED BY <1>1, <1>2

\* No report names a code the controller does not have.
LEMMA CodesStay ==
  ASSUME NEW view, NEW report, NEW pic, IsPicture(pic), report \subseteq pic,
         CodesIn(view) \subseteq CodesIn(Zero)
  PROVE  CodesIn(Updated(view, report)) \subseteq CodesIn(Zero)
  BY Zenon DEF Updated, IsPicture, CodesIn

\* Losing connections does no harm to the others (close_client).
LEMMA KeepingGood ==
  ASSUME NEW sessions, Keeping(sessions), IsPicture(picture'),
         \A c \in Conns : Good(sessions[c], device', picture')
  PROVE  IInv'
<1>1. PICK lost \in SUBSET Conns :
        session' = [c \in Conns |-> IF c \in lost THEN Closed ELSE sessions[c]]
  BY DEF Keeping
<1>2. \A c \in Conns : Good(session'[c], device', picture')
  BY <1>1, ClosedIsGood
<1>3. session' = [c \in Conns |-> session'[c]]
  BY <1>1
<1> QED BY <1>2, <1>3 DEF IInv

LEMMA InitIInv == IsPicture(Zero) /\ Init => IInv
  BY ClosedIsGood DEF Init, IInv

\* A step of each kind keeps the invariant.
LEMMA OpenIInv == ASSUME IInv, NEW c \in Conns, Open(c) PROVE IInv'
<1>1. \A k \in Conns : Good([session EXCEPT ![c] = Opened][k], device', picture')
  <2>1. Good(Opened, device', picture') BY DEF Opened, Session, Good, CodesIn
  <2> QED BY <2>1 DEF IInv, Open
<1>2. IsPicture(picture') BY DEF IInv, Open
<1> QED BY <1>1, <1>2, KeepingGood DEF Open

LEMMA QueryIInv == ASSUME IInv, NEW c \in Conns, Query(c) PROVE IInv'
<1> DEFINE s == session[c]
           told == IF device = NoDevice
                   THEN Session("events", s.view, FALSE, s.news)
                   ELSE Session("events", Updated(s.view, picture), TRUE, s.news)
<1>1. Good(s, device, picture) /\ IsPicture(picture) BY DEF IInv
<1>2. Good(told, device, picture)
  <2>1. CASE device = NoDevice
    BY <1>1, <2>1 DEF Good, Session
  <2>2. CASE device # NoDevice
    <3>1. Updated(s.view, picture) = picture BY <1>1, SnapshotReplaces DEF Good
    <3> QED BY <1>1, <2>2, <3>1 DEF Good, Session, IsPicture
  <2> QED BY <2>1, <2>2
<1>3. Keeping([session EXCEPT ![c] = told]) BY DEF Query
<1> HIDE DEF told
<1>4. \A k \in Conns : Good([session EXCEPT ![c] = told][k], device', picture')
  BY <1>2 DEF IInv, Query
<1> QED BY <1>1, <1>3, <1>4, KeepingGood DEF Query

LEMMA MonitorIInv == ASSUME IInv, NEW c \in Conns, Monitor(c) PROVE IInv'
<1> DEFINE told == Session("monitor", session[c].view, FALSE, device)
<1>1. Good(session[c], device, picture) /\ IsPicture(picture) BY DEF IInv
<1>2. Good(told, device, picture) BY <1>1 DEF Good, Session
<1>3. Keeping([session EXCEPT ![c] = told]) BY DEF Monitor
<1> HIDE DEF told
<1>4. \A k \in Conns : Good([session EXCEPT ![c] = told][k], device', picture')
  BY <1>2 DEF IInv, Monitor
<1> QED BY <1>1, <1>3, <1>4, KeepingGood DEF Monitor

LEMMA ChangeIInv == ASSUME IInv, Change PROVE IInv'
<1> DEFINE report == picture' \ picture
           Upd(s) == Session(s.role, Updated(s.view, report), s.live, s.news)
           told == [c \in Conns |-> IF session[c].role = "events"
                                    THEN Upd(session[c]) ELSE session[c]]
<1>1. IsPicture(picture) /\ IsPicture(picture') /\ device' = device
  BY DEF IInv, Change
<1>2. ASSUME NEW c \in Conns PROVE Good(told[c], device', picture')
  <2>1. Good(session[c], device, picture) BY DEF IInv
  <2>2. CASE session[c].role = "events"
    <3>1. CodesIn(Updated(session[c].view, report)) \subseteq CodesIn(Zero)
      BY <1>1, <2>1, CodesStay DEF Good
    <3>2. session[c].live => Updated(session[c].view, report) = picture'
      BY <1>1, <2>1, <2>2, DifferencesAddUp DEF Good
    <3> QED BY <2>2, <3>1, <3>2 DEF Good, Session
  <2>3. CASE session[c].role # "events"
    BY <1>1, <2>1, <2>3 DEF Good
  <2> QED BY <2>2, <2>3
<1>3. Keeping(told) BY DEF Change, Telling
<1> HIDE DEF told
<1> QED BY <1>1, <1>2, <1>3, KeepingGood

LEMMA RemoveIInv == ASSUME IsPicture(Zero), IInv, Remove PROVE IInv'
<1> DEFINE told == [c \in Conns |->
             LET s == session[c]
             IN Session(s.role, s.view, FALSE,
                        IF s.role = "monitor" THEN NoDevice ELSE s.news)]
<1>1. ASSUME NEW c \in Conns PROVE Good(told[c], device', picture')
  <2>1. Good(session[c], device, picture) BY DEF IInv
  <2> QED BY <2>1 DEF Good, Session, Remove
<1>2. Keeping(told) /\ IsPicture(picture') BY DEF Remove
<1> HIDE DEF told
<1> QED BY <1>1, <1>2, KeepingGood

LEMMA AddIInv == ASSUME IInv, Add PROVE IInv'
<1> DEFINE Upd(s) == Session(s.role, s.view, s.live, device')
           told == [c \in Conns |-> IF session[c].role = "monitor"
                                    THEN Upd(session[c]) ELSE session[c]]
<1>1. ASSUME NEW c \in Conns PROVE Good(told[c], device', picture')
  <2>1. Good(session[c], device, picture) /\ picture' = picture BY DEF IInv, Add
  <2> QED BY <2>1 DEF Good, Session
<1>2. Keeping(told) /\ IsPicture(picture') BY DEF Add, Telling, IInv
<1> HIDE DEF told
<1> QED BY <1>1, <1>2, KeepingGood

LEMMA RestartIInv == ASSUME IsPicture(Zero), IInv, Restart PROVE IInv'
  BY DEF IInv, Restart, Good

LEMMA NextIInv == IsPicture(Zero) /\ IInv /\ [Next]_vars => IInv'
<1> SUFFICES ASSUME IsPicture(Zero), IInv, [Next]_vars PROVE IInv' OBVIOUS
<1>1. CASE Lose
  <2>1. Keeping(session) /\ UNCHANGED <<device, picture>> BY <1>1 DEF Lose
  <2> QED BY <2>1, KeepingGood DEF IInv
<1>2. CASE \E c \in Conns : Open(c) \/ Query(c) \/ Monitor(c)
  BY <1>2, OpenIInv, QueryIInv, MonitorIInv
<1>3. CASE Change BY <1>3, ChangeIInv
<1>4. CASE Remove BY <1>4, RemoveIInv
<1>5. CASE Add BY <1>5, AddIInv
<1>6. CASE Restart BY <1>6, RestartIInv
<1>7. CASE UNCHANGED vars BY <1>7 DEF vars, IInv
<1> QED BY <1>1, <1>2, <1>3, <1>4, <1>5, <1>6, <1>7 DEF Next

\* A live stream has told exactly what a new one would be told, and the last
\* message of every monitor describes the device there is.
THEOREM ServiceKept == ASSUME IsPicture(Zero) PROVE Spec => []Kept
<1>1. Init => IInv BY InitIInv
<1>2. IInv /\ [Next]_vars => IInv' BY NextIInv
<1>3. IInv => Kept BY DEF IInv, Good, Kept
<1> QED BY <1>1, <1>2, <1>3, PTL DEF Spec
=============================================================================
