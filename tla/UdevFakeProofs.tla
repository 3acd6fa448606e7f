---------------------------- MODULE UdevFakeProofs ----------------------------
(***************************************************************************)
(* The fake libudev touches its own descriptors only, its cache follows    *)
(* the bridge, and what it says of the controller is what the event device *)
(* says, for every set of controllers and every number of descriptors.     *)
(***************************************************************************)
EXTENDS UdevFake, WellFoundedInduction, TLAPS

LEMMA Numbers == NoFd \notin Fds /\ Fds \subseteq Nat
  BY UdevAssumption DEF NoFd, Fds

\* A descriptor number is free before it is given out.
LEMMA LowestIsFree == FreeFds # {} => LowestFree \in FreeFds
<1> SUFFICES ASSUME FreeFds # {} PROVE LowestFree \in FreeFds OBVIOUS
<1>1. FreeFds \subseteq Nat BY Numbers DEF FreeFds
<1>2. PICK fd \in FreeFds : \A g \in FreeFds : ~(<<g, fd>> \in OpToRel(<, Nat))
  BY <1>1, NatLessThanWellFounded, WFMin
<1>3. ASSUME NEW g \in FreeFds PROVE fd <= g
  <2>1. fd \in Nat /\ g \in Nat BY <1>1
  <2>2. CASE g < fd
    <3>1. <<g, fd>> \in Nat \X Nat /\ <<g, fd>>[1] < <<g, fd>>[2]
      BY <2>1, <2>2
    <3>2. <<g, fd>> \in OpToRel(<, Nat) BY <3>1, Zenon DEF OpToRel
    <3> QED BY <1>2, <3>2
  <2> QED BY <2>1, <2>2
<1> QED BY <1>2, <1>3 DEF LowestFree

LEMMA DescriptorTypes ==
  Unknown \in Descriptors /\ [present : {TRUE}, device : Devices] \subseteq Descriptors
<1>1. Unknown \in Descriptors BY DEF Unknown, Descriptors
<1>2. ASSUME NEW d \in [present : {TRUE}, device : Devices] PROVE d \in Descriptors
  BY DEF Descriptors
<1> QED BY <1>1, <1>2

\* A message that is alone in its channel.
LEMMA Alone ==
  ASSUME NEW d \in Descriptors
  PROVE  /\ <<d>> \in Seq(Descriptors) /\ <<d>> # <<>>
         /\ Head(<<d>>) = d /\ Len(<<d>>) = 1 /\ <<d>>[1] = d
  OBVIOUS

\* Receiving takes the first message and leaves the last one the last.
LEMMA LastStays ==
  ASSUME NEW c \in Seq(Descriptors), c # <<>>
  PROVE  /\ Tail(c) \in Seq(Descriptors) /\ Head(c) \in Descriptors
         /\ Tail(c) = <<>> => Head(c) = c[Len(c)]
         /\ Tail(c) # <<>> => Tail(c)[Len(Tail(c))] = c[Len(c)]
<1>1. Len(c) \in Nat \ {0} OBVIOUS
<1>2. /\ Tail(c) \in Seq(Descriptors) /\ Len(Tail(c)) = Len(c) - 1
      /\ \A i \in 1..(Len(c) - 1) : Tail(c)[i] = c[i + 1]
  BY <1>1
<1>3. Head(c) = c[1] /\ c[1] \in Descriptors BY <1>1
<1>4. CASE Tail(c) = <<>>
  <2>1. Len(c) = 1 BY <1>1, <1>2, <1>4
  <2> QED BY <1>2, <1>3, <1>4, <2>1
<1>5. CASE Tail(c) # <<>>
  <2>1. Len(Tail(c)) \in 1..(Len(c) - 1) BY <1>1, <1>2, <1>5
  <2> QED BY <1>1, <1>2, <1>3, <1>5, <2>1
<1> QED BY <1>4, <1>5

\* A connection is of one kind, and has a channel of descriptors.
Kinds == {"query", "events", "ask", "hotplug"}

LEMMA Fields ==
  ASSUME NEW kind, NEW link, NEW chan
  PROVE  /\ File(kind, link, chan).kind = kind
         /\ File(kind, link, chan).link = link
         /\ File(kind, link, chan).chan = chan
         /\ kind \in Kinds /\ link \in {"up", "cut"} /\ chan \in Seq(Descriptors)
              => File(kind, link, chan) \in Files
  BY DEF File, Files, Kinds

LEMMA Plain ==
  /\ Unused \in Files /\ Other \in Files /\ Unused # Other
  /\ Unused.kind = "closed" /\ Other.kind = "other"
  BY DEF Unused, Other, File, Files

LEMMA FileIs ==
  ASSUME NEW f \in Files
  PROVE  \/ f = Unused \/ f = Other
         \/ /\ f.kind \in Kinds /\ f.link \in {"up", "cut"}
            /\ f.chan \in Seq(Descriptors)
  BY DEF Files, Kinds

-----------------------------------------------------------------------------
(* The inductive invariant. *)

\* OwnDescriptors, number by number.
Own ==
  /\ \A fd \in Fds : file[fd].kind \in Kinds <=> fd = monitor \/ fd = scan
  /\ monitor # NoFd => file[monitor].kind \in {"ask", "hotplug"}
  /\ scan # NoFd => file[scan].kind \in {"query", "events"}

\* An answer that waits while the monitor is empty is not out of date.
AnswerIsFresh ==
  scan # NoFd /\ Attached /\ file[monitor].kind = "hotplug" =>
    (Readable(scan) /\ ~Readable(monitor) => Head(file[scan].chan) = sdesc)

IInv == TypeOK /\ Own /\ CacheCatchesUp /\ AnswerIsFresh

LEMMA OwnIsOwnDescriptors == TypeOK /\ Own => OwnDescriptors
<1> SUFFICES ASSUME TypeOK, Own PROVE OwnDescriptors OBVIOUS
<1>1. \A fd \in Fds : file[fd].kind \in Kinds <=> file[fd].kind \notin {"closed", "other"}
  BY FileIs, Plain DEF TypeOK, Kinds
<1>2. \A fd \in Fds : fd \in Connections <=> fd \in {monitor, scan} \ {NoFd}
  BY <1>1, Numbers DEF Own, Connections
<1>3. Connections \subseteq Fds /\ {monitor, scan} \ {NoFd} \subseteq Fds
  BY DEF Connections, TypeOK
<1> QED BY <1>2, <1>3 DEF Own, OwnDescriptors

\* How a connection changes when one entry of file does.
LEMMA FileChange ==
  ASSUME TypeOK, NEW fd \in Fds, NEW f, file' = [file EXCEPT ![fd] = f]
  PROVE  /\ file'[fd] = f
         /\ \A g \in Fds : g # fd => file'[g] = file[g]
         /\ f \in Files => file' \in [Fds -> Files]
  BY DEF TypeOK

LEMMA InitIInv == Init => IInv
<1> SUFFICES ASSUME Init PROVE IInv OBVIOUS
<1>1. \A fd \in Fds : file[fd] = Unused BY DEF Init
<1>2. Unknown \in Descriptors /\ sdesc \in Descriptors
  BY DescriptorTypes DEF Init
<1>3. TypeOK
  <2>1. file \in [Fds -> Files] BY Plain DEF Init
  <2>2. up \in BOOLEAN BY DEF Init
  <2> QED BY <1>2, <2>1, <2>2, UdevAssumption DEF Init, TypeOK
<1>4. Own BY <1>1, Plain, Numbers DEF Init, Own, Kinds
<1>5. monitor = NoFd BY DEF Init
<1>6. CacheCatchesUp /\ AnswerIsFresh
  BY <1>5 DEF CacheCatchesUp, AnswerIsFresh, Attached
<1> QED BY <1>3, <1>4, <1>6 DEF IInv

-----------------------------------------------------------------------------
(* The bridge and the program's other files. *)

LEMMA AnswerIInv == ASSUME IInv, NEW fd \in Fds, Answer(fd) PROVE IInv'
<1>1. TypeOK /\ Own /\ CacheCatchesUp /\ AnswerIsFresh BY DEF IInv
<1>2. /\ <<sdesc>> \in Seq(Descriptors) /\ <<sdesc>> # <<>>
      /\ Head(<<sdesc>>) = sdesc /\ Len(<<sdesc>>) = 1 /\ <<sdesc>>[1] = sdesc
  BY <1>1, Alone DEF TypeOK
<1>3. UNCHANGED <<service, library>> BY DEF Answer
<1>4. CASE Listening(fd, "query") /\ file' = [file EXCEPT ![fd] = File("events", "up", <<sdesc>>)]
  <2>1. fd = scan /\ fd # monitor
    BY <1>1, <1>4, Numbers DEF Own, Listening, Kinds
  <2>2. /\ file'[scan] = File("events", "up", <<sdesc>>)
        /\ \A g \in Fds : g # scan => file'[g] = file[g]
        /\ file' \in [Fds -> Files]
    BY <1>1, <1>2, <1>4, <2>1, Fields, FileChange DEF Kinds
  <2>3. TypeOK' BY <1>1, <1>3, <2>2 DEF TypeOK, service, library
  <2>4. Own' BY <1>1, <1>3, <2>1, <2>2, Fields, Numbers DEF TypeOK, Own, library, Kinds
  <2>5. monitor # NoFd => file'[monitor] = file[monitor]
    BY <1>1, <2>1, <2>2 DEF TypeOK
  <2>6. CacheCatchesUp'
    BY <1>1, <1>3, <2>5 DEF CacheCatchesUp, Attached, Coming, Readable, service, library
  <2>7. AnswerIsFresh'
    <3>1. Head(file'[scan].chan) = sdesc BY <1>2, <2>2, Fields
    <3> QED BY <1>3, <3>1 DEF AnswerIsFresh, service, library
  <2> QED BY <2>3, <2>4, <2>6, <2>7 DEF IInv
<1>5. CASE Listening(fd, "ask") /\ file' = [file EXCEPT ![fd] = File("hotplug", "up", <<sdesc>>)]
  <2>1. fd = monitor /\ fd # scan
    BY <1>1, <1>5, Numbers DEF Own, Listening, Kinds
  <2>2. /\ file'[monitor] = File("hotplug", "up", <<sdesc>>)
        /\ \A g \in Fds : g # monitor => file'[g] = file[g]
        /\ file' \in [Fds -> Files]
    BY <1>1, <1>2, <1>5, <2>1, Fields, FileChange DEF Kinds
  <2>3. TypeOK' BY <1>1, <1>3, <2>2 DEF TypeOK, service, library
  <2>4. Own' BY <1>1, <1>3, <2>1, <2>2, Fields, Numbers DEF TypeOK, Own, library, Kinds
  <2>5. file'[monitor].chan = <<sdesc>> BY <2>2, Fields
  <2>6. CacheCatchesUp'
    BY <1>2, <1>3, <2>5 DEF CacheCatchesUp, Coming, Readable, service, library
  <2>7. AnswerIsFresh'
    <3>1. file'[monitor].chan # <<>> BY <1>2, <2>5
    <3> QED BY <1>3, <3>1 DEF AnswerIsFresh, Readable, service, library
  <2> QED BY <2>3, <2>4, <2>6, <2>7 DEF IInv
<1> QED BY <1>4, <1>5 DEF Answer

LEMMA HotplugIInv == ASSUME IInv, Hotplug PROVE IInv'
<1>1. TypeOK /\ Own /\ CacheCatchesUp /\ AnswerIsFresh BY DEF IInv
<1>2. UNCHANGED <<up, faults, library>> BY DEF Hotplug
<1>3. sdesc' \in Descriptors
  BY <1>1 DEF Hotplug, TypeOK, Descriptors
<1>4. \A fd \in Fds :
        file'[fd] = IF Listening(fd, "hotplug")
                    THEN File("hotplug", "up", Append(file[fd].chan, sdesc'))
                    ELSE file[fd]
  BY DEF Hotplug
<1>5. \A fd \in Fds : file'[fd] \in Files
  <2> TAKE fd \in Fds
  <2>1. CASE Listening(fd, "hotplug")
    <3>1. file[fd].chan \in Seq(Descriptors)
      BY <1>1, <2>1, FileIs, Plain DEF TypeOK, Listening
    <3>2. Append(file[fd].chan, sdesc') \in Seq(Descriptors) BY <1>3, <3>1
    <3>3. "hotplug" \in Kinds BY DEF Kinds
    <3>4. File("hotplug", "up", Append(file[fd].chan, sdesc')) \in Files
      BY <3>2, <3>3, Fields
    <3> QED BY <1>4, <2>1, <3>4
  <2>2. CASE ~Listening(fd, "hotplug")
    BY <1>1, <1>4, <2>2 DEF TypeOK
  <2> QED BY <2>1, <2>2
<1>6. TypeOK'
  <2>1. file' \in [Fds -> Files] BY <1>5 DEF Hotplug
  <2> QED BY <1>1, <1>2, <1>3, <2>1 DEF TypeOK, library
<1>7. \A fd \in Fds : file'[fd].kind = file[fd].kind /\ file'[fd].link = file[fd].link
  BY <1>4, Fields DEF Listening
<1>8. Own' BY <1>1, <1>2, <1>7 DEF Own, TypeOK, library
<1>9. Attached' /\ file'[monitor].kind = "hotplug" =>
        /\ Readable(monitor)'
        /\ file'[monitor].chan[Len(file'[monitor].chan)] = sdesc'
  <2> SUFFICES ASSUME Attached', file'[monitor].kind = "hotplug"
               PROVE  /\ Readable(monitor)'
                      /\ file'[monitor].chan[Len(file'[monitor].chan)] = sdesc'
    OBVIOUS
  <2>1. monitor \in Fds /\ Listening(monitor, "hotplug")
    BY <1>1, <1>2, <1>7 DEF Attached, Listening, TypeOK, library
  <2>2. file[monitor].chan \in Seq(Descriptors)
    BY <1>1, <2>1, FileIs, Plain DEF TypeOK, Listening
  <2> DEFINE c == file[monitor].chan
  <2>3. file'[monitor].chan = Append(c, sdesc')
    <3>1. file'[monitor] = File("hotplug", "up", Append(c, sdesc'))
      BY <1>4, <2>1
    <3>2. \A x : File("hotplug", "up", x).chan = x BY Fields
    <3> QED BY <3>1, <3>2
  <2>4. Append(c, sdesc') # <<>> /\ Append(c, sdesc')[Len(Append(c, sdesc'))] = sdesc'
    BY <2>2
  <2> QED BY <1>2, <2>3, <2>4 DEF Readable, library
<1>10. CacheCatchesUp' /\ AnswerIsFresh'
  BY <1>2, <1>9 DEF CacheCatchesUp, AnswerIsFresh, Coming, library
<1> QED BY <1>6, <1>8, <1>10 DEF IInv

LEMMA CutIInv == ASSUME IInv, NEW fd \in Fds, Cut(fd) PROVE IInv'
<1>1. TypeOK /\ Own /\ CacheCatchesUp /\ AnswerIsFresh BY DEF IInv
<1>2. UNCHANGED <<up, sdesc, library>> /\ faults' \in 0..MaxFaults
  BY <1>1, UdevAssumption DEF Cut, TypeOK
<1>3. file[fd].kind \in Kinds /\ file[fd].chan \in Seq(Descriptors)
  BY <1>1, FileIs DEF Cut, TypeOK, Unused, Other, File
<1>4. PICK n \in 0..Len(file[fd].chan) :
        file' = [file EXCEPT ![fd] =
                   File(file[fd].kind, "cut", SubSeq(file[fd].chan, 1, n))]
  BY DEF Cut
<1> DEFINE left == SubSeq(file[fd].chan, 1, n)
<1>5. left \in Seq(Descriptors) /\ (left # <<>> => Head(left) = Head(file[fd].chan)
                                                   /\ file[fd].chan # <<>>)
  BY <1>3
<1>6. file' = [file EXCEPT ![fd] = File(file[fd].kind, "cut", left)]
  BY <1>4
<1> HIDE DEF left
<1>7. File(file[fd].kind, "cut", left) \in Files
  BY <1>3, <1>5, Fields
<1>8. /\ file'[fd] = File(file[fd].kind, "cut", left)
      /\ \A g \in Fds : g # fd => file'[g] = file[g]
      /\ file' \in [Fds -> Files]
  BY <1>1, <1>6, <1>7, FileChange
<1>9. TypeOK' BY <1>1, <1>2, <1>8 DEF TypeOK, library
<1>10. \A g \in Fds : file'[g].kind = file[g].kind BY <1>8, Fields
<1>11. Own' BY <1>1, <1>2, <1>10 DEF Own, TypeOK, library
<1>12. Attached' => Attached /\ monitor \in Fds /\ file'[monitor] = file[monitor]
  BY <1>1, <1>2, <1>8, Fields DEF Attached, TypeOK, library
<1>13. CacheCatchesUp'
  BY <1>1, <1>2, <1>12 DEF CacheCatchesUp, Coming, Readable, library
<1>14. scan # NoFd /\ Readable(scan)' =>
         Readable(scan) /\ Head(file'[scan].chan) = Head(file[scan].chan)
  BY <1>1, <1>2, <1>5, <1>8, Fields DEF Readable, TypeOK, library
<1>15. AnswerIsFresh'
  BY <1>1, <1>2, <1>12, <1>14 DEF AnswerIsFresh, Readable, library
<1> QED BY <1>9, <1>11, <1>13, <1>15 DEF IInv

LEMMA ExitIInv == ASSUME IInv, Exit PROVE IInv'
<1>1. TypeOK'
  <2>1. up' \in BOOLEAN BY DEF Exit
  <2>2. faults' \in 0..MaxFaults BY UdevAssumption DEF IInv, TypeOK, Exit
  <2> QED BY <2>1, <2>2 DEF IInv, TypeOK, Exit, library
<1> QED BY <1>1 DEF IInv, Exit, library, Own, CacheCatchesUp, AnswerIsFresh,
                    Attached, Coming, Readable

LEMMA StartIInv == ASSUME IInv, Start PROVE IInv'
<1>1. sdesc' \in Descriptors BY DescriptorTypes DEF Start
<1>2. TypeOK' BY <1>1 DEF IInv, TypeOK, Start, library
<1>3. ~Attached' BY DEF IInv, TypeOK, Start, library, Attached
<1> QED BY <1>2, <1>3 DEF IInv, Start, library, Own, CacheCatchesUp, AnswerIsFresh

LEMMA OtherFileIInv == ASSUME IInv, OtherFile PROVE IInv'
<1>1. TypeOK /\ Own /\ CacheCatchesUp BY DEF IInv
<1>2. UNCHANGED <<service, library>> /\ scan = NoFd BY DEF OtherFile
<1>3. PICK fd \in Fds, f \in {Unused, Other} :
        file[fd].kind \notin Kinds /\ file' = [file EXCEPT ![fd] = f]
  <2>1. CASE FreeFds # {} /\ file' = [file EXCEPT ![LowestFree] = Other]
    BY <2>1, LowestIsFree, Plain DEF FreeFds, Kinds
  <2>2. CASE \E fd \in Fds : file[fd] = Other /\ close(fd)
    BY <2>2, Plain DEF close, Kinds
  <2> QED BY <2>1, <2>2 DEF OtherFile
<1>4. /\ file'[fd] = f /\ file' \in [Fds -> Files]
      /\ \A g \in Fds : g # fd => file'[g] = file[g]
  BY <1>1, <1>3, Plain, FileChange
<1>5. TypeOK' BY <1>1, <1>2, <1>4 DEF TypeOK, service, library
<1>6. fd # monitor /\ fd # scan BY <1>1, <1>3 DEF Own
<1>7. Own' BY <1>1, <1>2, <1>3, <1>4, <1>6, Plain DEF Own, TypeOK, library, Kinds
<1>8. monitor # NoFd => file'[monitor] = file[monitor]
  BY <1>1, <1>4, <1>6 DEF TypeOK
<1>9. CacheCatchesUp' /\ AnswerIsFresh'
  BY <1>1, <1>2, <1>8
  DEF CacheCatchesUp, AnswerIsFresh, Attached, Coming, Readable, service, library
<1> QED BY <1>5, <1>7, <1>9 DEF IInv

-----------------------------------------------------------------------------
(* The library. *)

\* connect_bridge fails and changes nothing, or opens a number nobody has.
LEMMA NewConnection ==
  ASSUME IInv, FreeFds # {}, NEW request \in {"query", "ask"},
         file' = [file EXCEPT ![LowestFree] = Connection(request)]
  PROVE  /\ LowestFree \in Fds /\ LowestFree # NoFd
         /\ LowestFree # monitor /\ LowestFree # scan
         /\ file' \in [Fds -> Files]
         /\ file'[LowestFree].kind = request
         /\ file'[LowestFree].chan = <<>>
         /\ \A g \in Fds : g # LowestFree => file'[g] = file[g]
<1>1. LowestFree \in Fds /\ file[LowestFree] = Unused
  BY LowestIsFree DEF FreeFds
<1>2. <<>> \in Seq(Descriptors) OBVIOUS
<1>3. Connection(request) \in Files
  BY <1>2, Fields DEF Connection, Kinds
<1>4. Connection(request).kind = request /\ Connection(request).chan = <<>>
  BY Fields DEF Connection
<1>5. LowestFree # monitor /\ LowestFree # scan
  BY <1>1, Plain DEF IInv, Own, Kinds
<1> QED BY <1>1, <1>3, <1>4, <1>5, FileChange, Numbers DEF IInv

LEMMA ScanIInv == ASSUME IInv, Scan PROVE IInv'
<1>1. TypeOK /\ Own /\ CacheCatchesUp BY DEF IInv
<1>2. UNCHANGED <<service, descriptor, action, monitor, refs>> /\ scan = NoFd
  BY DEF Scan
<1>3. CASE UNCHANGED file /\ scan' = NoFd
  <2>1. UNCHANGED <<service, file, library>> BY <1>2, <1>3 DEF library
  <2> QED BY <2>1 DEF IInv, TypeOK, Own, CacheCatchesUp, AnswerIsFresh, Attached,
                      Coming, Readable, service, library
<1>4. CASE /\ FreeFds # {} /\ scan' = LowestFree
           /\ file' = [file EXCEPT ![LowestFree] = Connection("query")]
  <2> DEFINE new == LowestFree
  <2>1. /\ new \in Fds /\ new # NoFd /\ new # monitor
        /\ file' \in [Fds -> Files]
        /\ file'[new].kind = "query" /\ file'[new].chan = <<>>
        /\ \A g \in Fds : g # new => file'[g] = file[g]
    BY <1>4, NewConnection
  <2> HIDE DEF new
  <2>2. scan' = new BY <1>4 DEF new
  <2>3. TypeOK' BY <1>1, <1>2, <2>1, <2>2 DEF TypeOK, service
  <2>4. Own' BY <1>1, <1>2, <2>1, <2>2, Numbers DEF TypeOK, Own, Kinds
  <2>5. monitor # NoFd => file'[monitor] = file[monitor]
    BY <1>1, <2>1 DEF TypeOK
  <2>6. CacheCatchesUp'
    BY <1>1, <1>2, <2>5 DEF CacheCatchesUp, Attached, Coming, Readable, service
  <2>7. AnswerIsFresh' BY <2>1, <2>2 DEF AnswerIsFresh, Readable
  <2> QED BY <2>3, <2>4, <2>6, <2>7 DEF IInv
<1> QED BY <1>3, <1>4 DEF Scan, connect_bridge

\* The monitor is not touched when the scan's descriptor is closed.
LEMMA ScanClosed ==
  ASSUME IInv, scan # NoFd, close(scan), scan' = NoFd, UNCHANGED monitor
  PROVE  /\ file' \in [Fds -> Files] /\ Own' /\ AnswerIsFresh'
         /\ monitor # NoFd => file'[monitor] = file[monitor]
<1>1. TypeOK /\ Own BY DEF IInv
<1>2. scan \in Fds /\ scan # monitor BY <1>1 DEF TypeOK, Own
<1>3. /\ file'[scan] = Unused /\ file' \in [Fds -> Files]
      /\ \A g \in Fds : g # scan => file'[g] = file[g]
  BY <1>1, <1>2, FileChange, Plain DEF close
<1>4. Own' BY <1>1, <1>2, <1>3, Plain, Numbers DEF TypeOK, Own, Kinds
<1>5. AnswerIsFresh' BY DEF AnswerIsFresh
<1> QED BY <1>1, <1>2, <1>3, <1>4, <1>5 DEF TypeOK

LEMMA ScanAnsweredIInv == ASSUME IInv, ScanAnswered PROVE IInv'
<1>1. TypeOK /\ Own /\ CacheCatchesUp /\ AnswerIsFresh BY DEF IInv
<1>2. /\ scan # NoFd /\ Readable(scan) /\ close(scan) /\ scan' = NoFd
      /\ descriptor' = Head(file[scan].chan)
      /\ UNCHANGED <<service, action, monitor, refs>>
  BY DEF ScanAnswered, update_descriptor
<1>3. /\ file' \in [Fds -> Files] /\ Own' /\ AnswerIsFresh'
      /\ monitor # NoFd => file'[monitor] = file[monitor]
  BY <1>2, ScanClosed
<1>4. descriptor' \in Descriptors
  <2>1. file[scan] \in Files /\ file[scan].kind \in Kinds
    BY <1>1, <1>2 DEF TypeOK, Own, Kinds
  <2>2. file[scan].chan \in Seq(Descriptors)
    BY <2>1, FileIs, Plain DEF Kinds
  <2> QED BY <1>2, <2>2 DEF Readable
<1>5. TypeOK' BY <1>1, <1>2, <1>3, <1>4 DEF TypeOK, service
<1>6. CacheCatchesUp'
  BY <1>1, <1>2, <1>3
  DEF CacheCatchesUp, AnswerIsFresh, Attached, Coming, Readable, service
<1> QED BY <1>3, <1>5, <1>6 DEF IInv

LEMMA ScanRefusedIInv == ASSUME IInv, ScanRefused PROVE IInv'
<1>1. TypeOK /\ Own /\ CacheCatchesUp BY DEF IInv
<1>2. /\ scan # NoFd /\ close(scan) /\ scan' = NoFd
      /\ UNCHANGED <<service, descriptor, action, monitor, refs>>
  BY DEF ScanRefused
<1>3. /\ file' \in [Fds -> Files] /\ Own' /\ AnswerIsFresh'
      /\ monitor # NoFd => file'[monitor] = file[monitor]
  BY <1>2, ScanClosed
<1>4. TypeOK' BY <1>1, <1>2, <1>3 DEF TypeOK, service
<1>5. CacheCatchesUp'
  BY <1>1, <1>2, <1>3 DEF CacheCatchesUp, Attached, Coming, Readable, service
<1> QED BY <1>3, <1>4, <1>5 DEF IInv

LEMMA NewMonitorIInv == ASSUME IInv, NewMonitor PROVE IInv'
<1>1. TypeOK /\ Own BY DEF IInv
<1>2. /\ UNCHANGED <<service, descriptor, action, scan>>
      /\ scan = NoFd /\ monitor = NoFd
  BY <1>1 DEF NewMonitor, TypeOK
<1>3. CASE UNCHANGED file /\ monitor' = NoFd /\ refs' = 0
  <2>1. UNCHANGED <<service, file, descriptor, action, scan, monitor>>
    BY <1>2, <1>3
  <2> QED BY <1>3, <2>1, UdevAssumption
          DEF IInv, TypeOK, Own, CacheCatchesUp, AnswerIsFresh, Attached, service
<1>4. CASE /\ FreeFds # {} /\ monitor' = LowestFree
           /\ refs' = IF LowestFree = NoFd THEN 0 ELSE 1
           /\ file' = [file EXCEPT ![LowestFree] = Connection("ask")]
  <2> DEFINE new == LowestFree
  <2>1. /\ new \in Fds /\ new # NoFd
        /\ file' \in [Fds -> Files] /\ file'[new].kind = "ask"
        /\ \A g \in Fds : g # new => file'[g] = file[g]
    BY <1>4, NewConnection
  <2> HIDE DEF new
  <2>2. monitor' = new /\ refs' = 1 BY <1>4, <2>1 DEF new
  <2>3. TypeOK' BY <1>1, <1>2, <2>1, <2>2, UdevAssumption DEF TypeOK, service
  <2>4. Own' BY <1>1, <1>2, <2>1, <2>2, Numbers DEF TypeOK, Own, Kinds
  <2>5. CacheCatchesUp' /\ AnswerIsFresh'
    BY <2>1, <2>2 DEF CacheCatchesUp, AnswerIsFresh
  <2> QED BY <2>3, <2>4, <2>5 DEF IInv
<1> QED BY <1>3, <1>4 DEF NewMonitor, connect_bridge

LEMMA RefMonitorIInv == ASSUME IInv, RefMonitor PROVE IInv'
  BY UdevAssumption DEF IInv, RefMonitor, TypeOK, Own, CacheCatchesUp, AnswerIsFresh,
                        Attached, Coming, Readable, service

LEMMA UnrefMonitorIInv == ASSUME IInv, UnrefMonitor PROVE IInv'
<1>1. TypeOK /\ Own BY DEF IInv
<1>2. /\ UNCHANGED <<service, descriptor, action, scan>> /\ scan = NoFd
      /\ monitor' = NoFd /\ refs' \in 0..MaxRefs
  <2>1. refs' = refs - 1 /\ refs \in 0..MaxRefs /\ refs > 0
    BY <1>1 DEF UnrefMonitor, TypeOK
  <2>2. refs' \in 0..MaxRefs BY <2>1, UdevAssumption
  <2>3. monitor' = NoFd BY DEF UnrefMonitor
  <2> QED BY <2>2, <2>3 DEF UnrefMonitor
<1>3. file' \in [Fds -> Files] /\ Own'
  <2>1. CASE monitor = NoFd
    BY <1>1, <1>2, <2>1 DEF UnrefMonitor, Own, TypeOK
  <2>2. CASE monitor # NoFd
    <3>1. monitor \in Fds /\ file' = [file EXCEPT ![monitor] = Unused]
      BY <1>1, <2>2 DEF UnrefMonitor, TypeOK, close
    <3>2. /\ file'[monitor] = Unused /\ file' \in [Fds -> Files]
          /\ \A g \in Fds : g # monitor => file'[g] = file[g]
      BY <1>1, <3>1, FileChange, Plain
    <3> QED BY <1>1, <1>2, <3>1, <3>2, Plain, Numbers DEF Own, Kinds
  <2> QED BY <2>1, <2>2
<1>4. TypeOK' BY <1>1, <1>2, <1>3 DEF TypeOK, service
<1>5. CacheCatchesUp' /\ AnswerIsFresh'
  BY <1>2 DEF CacheCatchesUp, AnswerIsFresh, Attached
<1> QED BY <1>3, <1>4, <1>5 DEF IInv

LEMMA ReceiveDeviceIInv == ASSUME IInv, ReceiveDevice PROVE IInv'
<1>1. TypeOK /\ Own /\ CacheCatchesUp BY DEF IInv
<1> DEFINE c == file[monitor].chan
<1>2. /\ UNCHANGED <<service, monitor, refs, scan>>
      /\ scan = NoFd /\ monitor # NoFd /\ c # <<>>
      /\ descriptor' = Head(c) /\ action' \in {"add", "remove"}
      /\ file' = [file EXCEPT ![monitor] =
                    File(file[monitor].kind, file[monitor].link, Tail(c))]
  BY DEF ReceiveDevice, update_descriptor, Readable
<1>3. /\ monitor \in Fds /\ file[monitor].kind \in Kinds
      /\ file[monitor].link \in {"up", "cut"} /\ c \in Seq(Descriptors)
  BY <1>1, <1>2, FileIs, Plain DEF TypeOK, Own, Kinds
<1>4. /\ Tail(c) \in Seq(Descriptors) /\ Head(c) \in Descriptors
      /\ Tail(c) = <<>> => Head(c) = c[Len(c)]
      /\ Tail(c) # <<>> => Tail(c)[Len(Tail(c))] = c[Len(c)]
  BY <1>2, <1>3, LastStays
<1> DEFINE rest == Tail(c)
<1>5. File(file[monitor].kind, file[monitor].link, rest) \in Files
  <2> HIDE DEF rest
  <2> QED BY <1>3, <1>4, Fields DEF rest
<1>6. /\ file'[monitor] = File(file[monitor].kind, file[monitor].link, rest)
      /\ file' \in [Fds -> Files]
      /\ \A g \in Fds : g # monitor => file'[g] = file[g]
  BY <1>1, <1>2, <1>3, <1>5, FileChange
<1>7. /\ file'[monitor].kind = file[monitor].kind
      /\ file'[monitor].link = file[monitor].link
      /\ file'[monitor].chan = rest
  <2> HIDE DEF rest
  <2> QED BY <1>6, Fields
<1>8. TypeOK' BY <1>1, <1>2, <1>4, <1>6 DEF TypeOK, service
<1>9. Own' BY <1>1, <1>2, <1>3, <1>6, <1>7 DEF Own
<1>10. CacheCatchesUp'
  <2> SUFFICES ASSUME Attached', file'[monitor].kind = "hotplug" PROVE Coming' = sdesc
    BY <1>2 DEF CacheCatchesUp, service
  <2>1. Coming = sdesc /\ Coming = c[Len(c)]
    BY <1>1, <1>2, <1>7 DEF CacheCatchesUp, Attached, Coming, Readable
  <2>2. Coming' = c[Len(c)]
    BY <1>2, <1>4, <1>7 DEF Coming, Readable
  <2> QED BY <2>1, <2>2
<1>11. AnswerIsFresh' BY <1>2 DEF AnswerIsFresh
<1> QED BY <1>8, <1>9, <1>10, <1>11 DEF IInv

-----------------------------------------------------------------------------
LEMMA NextIInv == IInv /\ [Next]_vars => IInv'
<1> SUFFICES ASSUME IInv, [Next]_vars PROVE IInv' OBVIOUS
<1>1. CASE Library
  BY <1>1, ScanIInv, ScanAnsweredIInv, ScanRefusedIInv, NewMonitorIInv, RefMonitorIInv,
     UnrefMonitorIInv, ReceiveDeviceIInv DEF Library
<1>2. CASE \E fd \in Fds : Answer(fd) \/ Cut(fd)
  BY <1>2, AnswerIInv, CutIInv
<1>3. CASE Hotplug \/ Exit \/ Start \/ OtherFile
  BY <1>3, HotplugIInv, ExitIInv, StartIInv, OtherFileIInv
<1>4. CASE UNCHANGED vars
  BY <1>4 DEF vars, service, library, IInv, TypeOK, Own, CacheCatchesUp,
              AnswerIsFresh, Attached, Coming, Readable
<1> QED BY <1>1, <1>2, <1>3, <1>4 DEF Next

LEMMA Invariant == Spec => []IInv
  BY InitIInv, NextIInv, PTL DEF Spec

\* Every variable keeps its type; a program without a reference has no monitor.
THEOREM TypeCorrect == Spec => []TypeOK
<1>1. IInv => TypeOK BY DEF IInv
<1> QED BY <1>1, Invariant, PTL

\* The library has the connections it knows of and no other.
THEOREM DescriptorsAreOwn == Spec => []OwnDescriptors
<1>1. IInv => OwnDescriptors BY OwnIsOwnDescriptors DEF IInv
<1> QED BY <1>1, Invariant, PTL

\* The cache and what waits in the monitor end in the bridge's device.
THEOREM CacheIsCurrent == Spec => []CacheCatchesUp
<1>1. IInv => CacheCatchesUp BY DEF IInv
<1> QED BY <1>1, Invariant, PTL

\* Both libraries compute the same identity from the same descriptor.
LEMMA IdentitiesAgree ==
  ASSUME NEW override, NEW device
  PROVE  UdevIdentity(override, device) = EvdevIdentity(override, device)
<1> DEFINE number == IF override = "dinput" THEN 1
                     ELSE IF override = "xinput" THEN 0 ELSE -1
<1>1. dinput_mode(override, device) <=> tg_is_dinput(number, device)
  <2>1. CASE override = "dinput" BY <2>1 DEF dinput_mode, tg_is_dinput
  <2>2. CASE override = "xinput"
    <3>1. number = 0 BY <2>2
    <3>2. ~dinput_mode(override, device) BY <2>2 DEF dinput_mode
    <3> QED BY <3>1, <3>2 DEF tg_is_dinput
  <2>3. CASE override # "dinput" /\ override # "xinput"
    <3>1. number = -1 BY <2>3
    <3>2. dinput_mode(override, device) <=> device.mode = "dinput"
      BY <2>3 DEF dinput_mode
    <3> QED BY <3>1, <3>2 DEF tg_is_dinput
  <2> QED BY <2>1, <2>2, <2>3
<1> DEFINE d1 == dinput_mode(override, device)
           d2 == tg_is_dinput(number, device)
<1>2. device_name(d1, device) = device_name(d2, device)
  BY <1>1 DEF device_name
<1>3. (IF d1 THEN 4617 ELSE Low16(device.vendor)) = (IF d2 THEN 4617 ELSE Low16(device.vendor))
  BY <1>1
<1>4. (IF d1 THEN 1 ELSE Low16(device.product)) = (IF d2 THEN 1 ELSE Low16(device.product))
  BY <1>1
<1> QED BY <1>2, <1>3, <1>4, Zenon
        DEF UdevIdentity, EvdevIdentity, TG_DINPUT_VENDOR, TG_DINPUT_PRODUCT

\* udev and the event device name one controller.
THEOREM IdentityIsSame == Spec => []SameIdentity
<1>1. IInv => SameIdentity
  <2> SUFFICES ASSUME IInv, Attached, file[monitor].kind = "hotplug", ~Readable(monitor),
                      NEW override
               PROVE  UdevIdentity(override, descriptor.device)
                        = EvdevIdentity(override, sdesc.device)
    BY DEF SameIdentity
  <2>1. descriptor = sdesc BY DEF IInv, CacheCatchesUp, Coming
  <2> QED BY <2>1, IdentitiesAgree
<1> QED BY <1>1, Invariant, PTL
=============================================================================
