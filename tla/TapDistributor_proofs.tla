----------------------- MODULE TapDistributor_proofs -----------------------
(***************************************************************************)
(* Proofs about TapDistributor, for every set of addresses and frames,     *)
(* every number of units and descriptors, with or without failing commands *)
(* and whatever the other processes do to the devices.                     *)
(***************************************************************************)
EXTENDS TapDistributor, Arithmetic_proofs

\* Entry i of the list is for tap<i-1>, through the i-th descriptor.
TableShape ==
    /\ \A i \in 1 .. Len(list_top) :
          /\ list_top[i].tap_name = i - 1
          /\ list_top[i].tap_fd_num = FirstFd + i - 1
    /\ \A i, j \in 1 .. Len(list_top) :
          list_top[i].mac_add = list_top[j].mac_add => i = j
    /\ \A i \in 1 .. Len(list_top) : list_top[i].mac_add # Broadcast

\* The open descriptors are the first ones, one for each entry, and nobody
\* else is attached to their devices.
FdShape ==
    /\ Len(list_top) = 0 \/ FirstFd + Len(list_top) <= MaxFd
    /\ \A d \in Fds : fds[d] = IF d < FirstFd + Len(list_top)
                               THEN d - FirstFd ELSE NoTap
    /\ \A k \in 0 .. Len(list_top) - 1 : k \in present /\ k \notin foreign

\* What the control state of main says of the list and the frame.
ControlShape ==
    /\ pc \in {"mktun", "linkup", "alloc"} => ~Listed(Item)
    /\ pc = "write" => Listed(Item)
    /\ pc \in {"leg", "mktun", "linkup", "alloc", "write"} =>
          Broadcast \notin {msg.dst, msg.src}
    /\ pc = "dead" => list_top = <<>>

IInv == TypeOK /\ TableShape /\ FdShape /\ ControlShape

-----------------------------------------------------------------------------

\* FdShape says which devices are held.
LEMMA HeldIs ==
    ASSUME TypeOK, FdShape
    PROVE  Held = 0 .. Len(list_top) - 1
<1>1. Len(list_top) \in Nat
  BY DEF TypeOK
<1>2. ASSUME NEW n \in Held PROVE n \in 0 .. Len(list_top) - 1
  BY <1>1, <1>2, DeviceAssumption DEF FdShape, Held, Fds
<1>3. ASSUME NEW n \in 0 .. Len(list_top) - 1 PROVE n \in Held
  <2>1. FirstFd + n \in Fds
    BY <1>1, DeviceAssumption DEF FdShape, Fds
  <2>2. fds[FirstFd + n] = n
    BY <1>1, <2>1, DeviceAssumption DEF FdShape
  <2> QED BY <2>1, <2>2, DeviceAssumption DEF Held
<1> QED BY <1>2, <1>3

\* The initial states satisfy the invariant.
LEMMA InitInv == Init => IInv
<1> SUFFICES ASSUME Init PROVE IInv
  OBVIOUS
<1> USE DeviceAssumption
<1>1. Len(list_top) = 0
  BY DEF Init
<1>2. TypeOK
  BY DEF Init, TypeOK, DevicesInit, DevicesTypeOK, Units, Word, Entry, Copy
<1>3. TableShape /\ FdShape /\ ControlShape
  BY <1>1 DEF Init, DevicesInit, TableShape, FdShape, ControlShape, Fds
<1> QED BY <1>2, <1>3 DEF IInv

\* A step that changes no device, and of the program no more than the control
\* state, the frame and the writes made, keeps the list and the descriptors.
LEMMA SameTable ==
    ASSUME TableShape, FdShape, UNCHANGED <<list_top, fds, present, foreign>>
    PROVE  TableShape' /\ FdShape'
BY DEF TableShape, FdShape

\* The end of the process.
LEMMA DieInv ==
    ASSUME IInv, Die
    PROVE  IInv'
<1> USE DeviceAssumption
<1>1. Held \cap foreign = {}
  BY HeldIs DEF IInv, FdShape
<1>2. TypeOK'
  <2>1. DevicesTypeOK'
    BY <1>1 DEF IInv, TypeOK, DevicesTypeOK, Die, ReleaseAll, Held
  <2> QED BY <2>1 DEF Die, TypeOK, Word, Entry, Copy
<1>3. TableShape' /\ FdShape' /\ ControlShape'
  <2>1. Len(list_top') = 0
    BY DEF Die
  <2> QED BY <2>1 DEF Die, ReleaseAll, TableShape, FdShape, ControlShape, Fds
<1> QED BY <1>2, <1>3 DEF IInv

\* A copy made through the descriptor of an entry.
LEMMA CopyToType ==
    ASSUME TypeOK, NEW i \in 1 .. Len(list_top), NEW n \in Word
    PROVE  CopyTo(list_top[i].tap_fd_num, n) \in Copy
<1>1. list_top[i] \in Entry
  BY DEF TypeOK
<1>2. fds[list_top[i].tap_fd_num] \in Nat \cup {NoTap}
  BY <1>1 DEF Entry, TypeOK, DevicesTypeOK
<1> QED BY <1>2 DEF CopyTo, Copy

\* A new unit is a number.
LEMMA CreateUnitType ==
    ASSUME DevicesTypeOK, CreateUnit
    PROVE  DevicesTypeOK' /\ present \subseteq present'
<1>1. PICK n \in Units : /\ present' = present \cup {n}
                         /\ persistent' = persistent \cup {n}
                         /\ UNCHANGED <<up, foreign, fds>>
  BY DEF CreateUnit
<1>2. n \in Nat
  BY DeviceAssumption DEF Units
<1> QED BY <1>1, <1>2 DEF DevicesTypeOK

\* The steps that touch neither the list nor the devices.
LEMMA LocalInv ==
    ASSUME IInv,
           \/ Start
           \/ \E f \in Frames : Receive(f)
           \/ \E item \in Mac : MulticastAdd(item)
           \/ BroadcastMac \/ BroadcastAdd \/ NoFlood \/ FloodWrite \/ FloodEnd
           \/ OtherPort \/ AlreadyListed \/ NotListed \/ CommandFails \/ Write
    PROVE  IInv'
<1> USE DeviceAssumption, FrameAssumption DEF IInv
<1>1. UNCHANGED <<list_top, devices>>
  BY DEF Start, Receive, MulticastAdd, BroadcastMac, BroadcastAdd, StartFlood,
         NoFlood, FloodWrite, FloodEnd, OtherPort, AlreadyListed, NotListed,
         CommandFails, Write
<1>2. TableShape' /\ FdShape'
  BY <1>1, SameTable DEF devices
<1>3. DevicesTypeOK' /\ list_top' \in Seq(Entry)
  BY <1>1 DEF TypeOK, DevicesTypeOK, devices
<1>4. msg \in Frames => IpLenCount(msg.tot_len) \in Word
                        /\ PlenCount(LowWord[msg.dst]) \in Word
  BY SwapWord DEF Frame, IpLenCount, PlenCount
<1>5. CASE Start
  BY <1>1, <1>2, <1>3, <1>5 DEF Start, TypeOK, ControlShape
<1>6. CASE \E f \in Frames : Receive(f)
  BY <1>1, <1>2, <1>3, <1>6 DEF Receive, TypeOK, ControlShape
<1>7. CASE \E item \in Mac : MulticastAdd(item)
  BY <1>1, <1>2, <1>3, <1>4, <1>7
     DEF MulticastAdd, StartFlood, TypeOK, ControlShape
<1>8. CASE BroadcastMac \/ BroadcastAdd
  BY <1>1, <1>2, <1>3, <1>4, <1>8
     DEF BroadcastMac, BroadcastAdd, StartFlood, TypeOK, ControlShape
<1>9. CASE NoFlood
  BY <1>1, <1>2, <1>3, <1>9 DEF NoFlood, TypeOK, ControlShape
<1>10. CASE FloodWrite
  <2>1. sent' \in Seq(Copy)
    <3>1. p \in 1 .. Len(list_top)
      BY <1>10 DEF FloodWrite, TypeOK, mac_list_count
    <3> QED BY <1>10, <3>1, CopyToType DEF FloodWrite, TypeOK
  <2> QED BY <1>1, <1>2, <1>3, <1>10, <2>1
          DEF FloodWrite, TypeOK, ControlShape
<1>11. CASE FloodEnd
  <2>1. 0 \in Word
    BY DEF Word
  <2> QED BY <1>1, <1>2, <1>3, <1>11, <2>1 DEF FloodEnd, TypeOK, ControlShape
<1>12. CASE OtherPort
  BY <1>1, <1>2, <1>3, <1>12 DEF OtherPort, HalfDone, TypeOK, ControlShape
<1>13. CASE AlreadyListed \/ NotListed
  BY <1>1, <1>2, <1>3, <1>13
     DEF AlreadyListed, NotListed, TypeOK, ControlShape, Listed, Item
<1>14. CASE CommandFails
  BY <1>1, <1>2, <1>3, <1>14
     DEF CommandFails, TypeOK, ControlShape, Listed, Item
<1>15. CASE Write
  <2>1. msg \in Frames
    BY <1>15 DEF Write, TypeOK
  <2>2. sent' \in Seq(Copy)
    BY <1>4, <1>15, <2>1, CopyToType DEF Write, TypeOK, mac_list_count
  <2> QED BY <1>1, <1>2, <1>3, <1>15, <2>2
          DEF Write, HalfDone, TypeOK, ControlShape
<1> QED BY <1>5, <1>6, <1>7, <1>8, <1>9, <1>10, <1>11, <1>12, <1>13, <1>14,
           <1>15

\* The two commands: devices are added or brought up, never taken away.
LEMMA CommandInv ==
    ASSUME IInv, Mktun \/ SetLinkUp
    PROVE  IInv'
<1> USE DeviceAssumption DEF IInv
<1>1. UNCHANGED <<list_top, fds, foreign>> /\ present \subseteq present'
  BY DEF Mktun, SetLinkUp, CreateUnit, NoFreeUnit, LinkUp, devices
<1>2. TableShape' /\ FdShape'
  BY <1>1 DEF TableShape, FdShape
<1>3. DevicesTypeOK'
  <2>1. CASE CreateUnit
    BY <2>1, CreateUnitType DEF TypeOK
  <2>2. CASE NoFreeUnit
    BY <2>2 DEF NoFreeUnit, devices, TypeOK, DevicesTypeOK
  <2>3. CASE LinkUp(mac_list_count)
    BY <2>3 DEF LinkUp, TypeOK, DevicesTypeOK
  <2> QED BY <2>1, <2>2, <2>3 DEF Mktun, SetLinkUp
<1>4. TypeOK'
  BY <1>1, <1>3 DEF TypeOK, Mktun, SetLinkUp
<1>5. ControlShape'
  BY <1>1 DEF ControlShape, Mktun, SetLinkUp, Listed, Item
<1> QED BY <1>2, <1>4, <1>5

\* The new entry is the last one, for the next device and the next descriptor.
LEMMA TunAllocInv ==
    ASSUME IInv, TunAlloc
    PROVE  IInv'
<1> USE DeviceAssumption, FrameAssumption DEF IInv
<1> DEFINE n == Len(list_top)
<1>1. n \in Nat
  BY DEF TypeOK
<1>2. PICK d \in Fds :
          /\ Attach(n, d)
          /\ list_top' = Append(list_top, [mac_add |-> Item, tap_name |-> n,
                                           tap_fd_num |-> d])
  BY DEF TunAlloc, mac_list_count
<1>3. d = FirstFd + n
  <2>1. fds[d] = NoTap /\ \A e \in FirstFd .. d - 1 : fds[e] # NoTap
    BY <1>2 DEF Attach, LowestFreeFd
  <2>2. d >= FirstFd + n
    BY <1>1, <2>1 DEF FdShape, Fds
  <2>3. ~(d > FirstFd + n)
    <3> SUFFICES ASSUME d > FirstFd + n PROVE FALSE
      OBVIOUS
    <3>1. FirstFd + n \in FirstFd .. d - 1 /\ FirstFd + n \in Fds
      BY <1>1 DEF Fds
    <3>2. fds[FirstFd + n] = NoTap
      BY <1>1, <3>1 DEF FdShape
    <3> QED BY <2>1, <3>1, <3>2
  <2> QED BY <1>1, <2>2, <2>3 DEF Fds
<1>4. msg \in Frames /\ Item \in Mac
  BY DEF TunAlloc, TypeOK, Item, Frame
<1>5. /\ Len(list_top') = n + 1
      /\ \A i \in 1 .. n : list_top'[i] = list_top[i]
      /\ list_top'[n + 1].mac_add = Item
      /\ list_top'[n + 1].tap_name = n
      /\ list_top'[n + 1].tap_fd_num = d
      /\ list_top' \in Seq(Entry)
  BY <1>1, <1>2, <1>4 DEF TypeOK, Entry
<1>6. n \notin foreign /\ n \notin Held
  BY <1>2 DEF Attach, AllocRefused
<1>7. TypeOK'
  <2>1. DevicesTypeOK'
    BY <1>1, <1>2 DEF Attach, TypeOK, DevicesTypeOK
  <2> QED BY <1>5, <2>1 DEF TunAlloc, TypeOK
<1>8. TableShape'
  <2>1. ~Listed(Item) /\ Item # Broadcast
    BY <1>4 DEF TunAlloc, ControlShape, Item
  <2>2. \A i \in 1 .. n : list_top[i].mac_add # Item
    BY <2>1 DEF Listed
  <2>3. \A i \in 1 .. n + 1 : i \in 1 .. n \/ i = n + 1
    BY <1>1
  <2> HIDE DEF n
  <2>4. \A i \in 1 .. n + 1 :
            /\ list_top'[i].tap_name = i - 1
            /\ list_top'[i].tap_fd_num = FirstFd + i - 1
            /\ list_top'[i].mac_add # Broadcast
    <3> TAKE i \in 1 .. n + 1
    <3>1. CASE i \in 1 .. n
      BY <1>5, <3>1 DEF TableShape, n
    <3>2. CASE i = n + 1
      BY <1>1, <1>3, <1>5, <2>1, <3>2
    <3> QED BY <2>3, <3>1, <3>2
  <2>5. \A i, j \in 1 .. n + 1 :
            list_top'[i].mac_add = list_top'[j].mac_add => i = j
    BY <1>5, <2>2, <2>3 DEF TableShape, n
  <2> QED BY <1>5, <2>4, <2>5 DEF TableShape
<1>9. FdShape'
  <2>1. fds' = [fds EXCEPT ![d] = n] /\ fds \in [Fds -> Nat \cup {NoTap}]
    BY <1>2 DEF Attach, TypeOK, DevicesTypeOK
  <2>2. present' = present \cup {n} /\ foreign' = foreign
    BY <1>2 DEF Attach
  <2> QED BY <1>1, <1>3, <1>5, <1>6, <2>1, <2>2 DEF FdShape, Fds
<1>10. ControlShape'
  BY <1>1, <1>5 DEF TunAlloc, ControlShape, Listed, Item
<1> QED BY <1>7, <1>8, <1>9, <1>10

\* Other processes cannot take away a device the program holds.
LEMMA ForeignInv ==
    ASSUME IInv, Foreign
    PROVE  IInv'
<1> USE DeviceAssumption DEF IInv
<1>1. Held = 0 .. Len(list_top) - 1
  BY HeldIs
<1>2. UNCHANGED <<program, fds>>
  BY DEF Foreign, ForeignAttach, ForeignDetach, CreateUnit, ForeignRmtun
<1>3. /\ \A k \in Held : k \in present' /\ k \notin foreign'
      /\ DevicesTypeOK'
  <2>1. \A k \in Held : k \in present /\ k \notin foreign
    BY <1>1 DEF FdShape
  <2>2. CASE \E k \in persistent : ForeignAttach(k)
    BY <2>1, <2>2 DEF ForeignAttach, TypeOK, DevicesTypeOK
  <2>3. CASE \E k \in foreign : ForeignDetach(k)
    BY <2>1, <2>3 DEF ForeignDetach, TypeOK, DevicesTypeOK
  <2>4. CASE CreateUnit
    BY <2>1, <2>4, CreateUnitType DEF TypeOK, CreateUnit
  <2>5. CASE \E k \in persistent : ForeignRmtun(k)
    BY <2>1, <2>5 DEF ForeignRmtun, TypeOK, DevicesTypeOK
  <2> QED BY <2>2, <2>3, <2>4, <2>5 DEF Foreign
<1>4. TableShape' /\ FdShape'
  BY <1>1, <1>2, <1>3 DEF TableShape, FdShape, program
<1>5. TypeOK' /\ ControlShape'
  BY <1>2, <1>3 DEF TypeOK, ControlShape, program, Listed, Item
<1> QED BY <1>4, <1>5

\* Every step preserves the invariant.
LEMMA NextInv == IInv /\ [Next]_vars => IInv'
<1> SUFFICES ASSUME IInv, [Next]_vars PROVE IInv'
  OBVIOUS
<1>1. CASE UNCHANGED vars
  BY <1>1 DEF vars, devices, IInv, TypeOK, DevicesTypeOK, TableShape, FdShape,
              ControlShape, Listed, Item
<1>2. CASE AllocError \/ Killed
  BY <1>2, DieInv DEF AllocError, Killed
<1>3. CASE Foreign
  BY <1>3, ForeignInv
<1>4. CASE TunAlloc
  BY <1>4, TunAllocInv
<1>5. CASE Mktun \/ SetLinkUp
  BY <1>5, CommandInv
<1> QED BY <1>1, <1>2, <1>3, <1>4, <1>5, LocalInv DEF Next, Distribute

\* The invariant holds in every reachable state.
THEOREM Invariance == Spec => []IInv
<1> QED BY InitInv, NextInv, PTL DEF Spec

-----------------------------------------------------------------------------
\* Type correctness of the distributor.
THEOREM TypeCorrect == Spec => []TypeOK
<1>1. IInv => TypeOK
  BY DEF IInv
<1> QED BY <1>1, Invariance, PTL

\* The list is an injection from stations to the devices the process holds
\* (write_tap_v5.c's mac_list_add, with mac_list_count naming the device and
\* openvpn choosing it), in every run and against every neighbour.
THEOREM TableIsSound == Spec => []TableSound
<1>1. IInv => TableSound
  <2> SUFFICES ASSUME IInv PROVE TableSound
    OBVIOUS
  <2>1. Held = 0 .. Len(list_top) - 1
    BY HeldIs DEF IInv
  <2>2. \A i \in 1 .. Len(list_top) : fds[list_top[i].tap_fd_num] = i - 1
    <3> TAKE i \in 1 .. Len(list_top)
    <3>1. list_top[i].tap_fd_num = FirstFd + i - 1 /\ FirstFd + i - 1 \in Fds
      BY DeviceAssumption DEF IInv, TypeOK, TableShape, FdShape, Fds
    <3> QED BY <3>1, DeviceAssumption DEF IInv, TypeOK, FdShape
  <2> QED BY <2>1, <2>2 DEF IInv, TableShape, FdShape, TableSound
<1> QED BY <1>1, Invariance, PTL

\* No device name has a number beyond the descriptor limit (the bytes of
\* tap_name that write_tap_v5.c:120 sets aside hold one digit).
THEOREM NumbersAreBounded == Spec => []NumbersBounded
<1>1. IInv => NumbersBounded
  BY DeviceAssumption DEF IInv, TypeOK, TableShape, FdShape, NumbersBounded
<1> QED BY <1>1, Invariance, PTL

\* No station is ever listed under the broadcast address, whatever the
\* unterminated comparisons give.
THEOREM BroadcastIsNotLearned == Spec => []BroadcastNotLearned
<1>1. IInv => BroadcastNotLearned
  BY DEF IInv, TableShape, BroadcastNotLearned
<1> QED BY <1>1, Invariance, PTL

-----------------------------------------------------------------------------
(* The implementation of StationTaps *)

\* A flood is of a frame for everybody, and the unicast part works on the
\* address of a port that is watched.
FrameShape ==
    /\ pc = "flood" => FloodFrame(msg)
    /\ pc \in {"mktun", "linkup", "alloc", "write"} => OnVif

LEMMA InitFrame == Init => FrameShape
BY DEF Init, FrameShape

LEMMA NextFrame ==
    ASSUME FrameShape, [Next]_vars
    PROVE  FrameShape'
<1> USE DEF FrameShape
<1>1. CASE UNCHANGED vars
  BY <1>1 DEF vars, FloodFrame, OnVif
<1>2. CASE Start \/ \E f \in Frames : Receive(f)
  BY <1>2 DEF Start, Receive
<1>3. CASE \E item \in Mac : MulticastAdd(item)
  BY <1>3 DEF MulticastAdd, StartFlood, FloodFrame
<1>4. CASE BroadcastMac \/ BroadcastAdd
  BY <1>4 DEF BroadcastMac, BroadcastAdd, StartFlood, FloodFrame
<1>5. CASE NoFlood \/ FloodEnd \/ OtherPort
  BY <1>5 DEF NoFlood, FloodEnd, OtherPort, HalfDone
<1>6. CASE FloodWrite
  BY <1>6 DEF FloodWrite, FloodFrame
<1>7. CASE AlreadyListed \/ NotListed
  BY <1>7 DEF AlreadyListed, NotListed, OnVif
<1>8. CASE Mktun \/ SetLinkUp \/ CommandFails
  BY <1>8 DEF Mktun, SetLinkUp, CommandFails, OnVif
<1>9. CASE TunAlloc
  BY <1>9 DEF TunAlloc, OnVif
<1>10. CASE Write
  BY <1>10 DEF Write, HalfDone
<1>11. CASE AllocError \/ Killed
  BY <1>11 DEF AllocError, Killed, Die
<1>12. CASE Foreign
  BY <1>12 DEF Foreign, program, FloodFrame, OnVif
<1> QED BY <1>1, <1>2, <1>3, <1>4, <1>5, <1>6, <1>7, <1>8, <1>9, <1>10, <1>11,
           <1>12 DEF Next, Distribute

\* The abstract state that the list stands for.
Taps == {<<list_top[i].mac_add, list_top[i].tap_name>> :
            i \in 1 .. Len(list_top)}

Copies == [k \in 1 .. Len(sent) |-> sent[k].tap]

\* The initial states are those of the promise.
LEMMA InitPromise == Init => Promise!StInit
BY DEF Init, Promise!StInit

\* A write through the descriptor of entry i is a copy for its device.
LEMMA CopyReaches ==
    ASSUME IInv, NEW i \in 1 .. Len(list_top), NEW n
    PROVE  CopyTo(list_top[i].tap_fd_num, n) = [tap |-> i - 1, count |-> n]
<1>1. list_top[i].tap_fd_num = FirstFd + i - 1
  BY DEF IInv, TableShape
<1>2. FirstFd + i - 1 \in Fds
  BY DeviceAssumption DEF IInv, TypeOK, FdShape, Fds
<1>3. fds[FirstFd + i - 1] = i - 1
  BY <1>2, DeviceAssumption DEF IInv, TypeOK, FdShape
<1> QED BY <1>1, <1>3 DEF CopyTo

\* A copy appended to sent is one appended to the copies of the promise.
LEMMA CopiesAppend ==
    ASSUME sent \in Seq(Copy), NEW x \in Copy, sent' = Append(sent, x)
    PROVE  Copies' = Append(Copies, x.tap)
<1>1. /\ Len(sent') = Len(sent) + 1
      /\ \A k \in 1 .. Len(sent) : sent'[k] = sent[k]
      /\ sent'[Len(sent) + 1] = x
      /\ Len(sent) \in Nat
  OBVIOUS
<1>2. Len(Copies) = Len(sent) /\ Copies \in Seq(Nat \cup {NoTap})
  <2>1. \A k \in 1 .. Len(sent) : sent[k].tap \in Nat \cup {NoTap}
    <3> TAKE k \in 1 .. Len(sent)
    <3>1. sent[k] \in Copy
      OBVIOUS
    <3> QED BY <3>1 DEF Copy
  <2>2. Copies \in [1 .. Len(sent) -> Nat \cup {NoTap}]
    BY <2>1 DEF Copies
  <2> QED BY <1>1, <2>2
<1>3. Append(Copies, x.tap) =
          [k \in 1 .. Len(sent) + 1 |->
              IF k = Len(sent) + 1 THEN x.tap ELSE Copies[k]]
  BY <1>1, <1>2
<1> QED BY <1>1, <1>3 DEF Copies

\* The steps that the promise does not see.
LEMMA HiddenSteps ==
    ASSUME \/ UNCHANGED vars \/ Foreign
           \/ \E item \in Mac : MulticastAdd(item)
           \/ BroadcastMac \/ BroadcastAdd \/ NoFlood \/ FloodEnd \/ OtherPort
           \/ AlreadyListed \/ NotListed \/ Mktun \/ SetLinkUp \/ CommandFails,
           pc # "dead" \/ UNCHANGED vars \/ Foreign
    PROVE  UNCHANGED Promise!stVars
<1>1. UNCHANGED <<list_top, msg, sent>> /\ (pc' # "dead" <=> pc # "dead")
  BY DEF vars, Foreign, program, MulticastAdd, BroadcastMac, BroadcastAdd,
         StartFlood, NoFlood, FloodEnd, OtherPort, HalfDone, AlreadyListed,
         NotListed, Mktun, SetLinkUp, CommandFails
<1> QED BY <1>1 DEF Promise!stVars

\* A write, of a flood or of the unicast part, is a copy for a station.
LEMMA WriteDelivers ==
    ASSUME IInv, FrameShape, FloodWrite \/ Write
    PROVE  \E m \in Mac, t \in 0 .. MaxFd - FirstFd - 1 : Promise!Deliver(m, t)
<1> USE DeviceAssumption, FrameAssumption
<1>1. msg \in Frames /\ msg \in Frame
  BY DEF IInv, TypeOK, FloodWrite, Write
<1>2. PICK i \in 1 .. Len(list_top), n \in Word :
          /\ sent' = Append(sent, CopyTo(list_top[i].tap_fd_num, n))
          /\ FloodFrame(msg) \/ (list_top[i].mac_add = Item /\ OnVif
                                 /\ Item # Broadcast)
  <2>1. CASE FloodWrite
    BY <2>1 DEF FloodWrite, FrameShape, IInv, TypeOK, mac_list_count
  <2>2. CASE Write
    <3>1. IpLenCount(msg.tot_len) \in Word
      BY <1>1, SwapWord DEF Frame, IpLenCount
    <3>2. OnVif /\ Item # Broadcast
      BY <2>2 DEF Write, FrameShape, IInv, ControlShape, Item
    <3> QED BY <2>2, <3>1, <3>2 DEF Write, mac_list_count, mac_list_check
  <2> QED BY <2>1, <2>2
<1>3. CopyTo(list_top[i].tap_fd_num, n) = [tap |-> i - 1, count |-> n]
  BY <1>2, CopyReaches
<1>4. Copies' = Append(Copies, i - 1)
  <2>1. [tap |-> i - 1, count |-> n] \in Copy
    BY DEF Copy
  <2> QED BY <1>2, <1>3, <2>1, CopiesAppend DEF IInv, TypeOK
<1>5. <<list_top[i].mac_add, i - 1>> \in Taps
  BY DEF Taps, IInv, TableShape
<1>6. list_top[i].mac_add \in Mac /\ i - 1 \in 0 .. MaxFd - FirstFd - 1
  <2>1. list_top[i] \in Entry /\ i \in Nat /\ i <= Len(list_top)
    BY DEF IInv, TypeOK
  <2>2. FirstFd + Len(list_top) <= MaxFd /\ Len(list_top) \in Nat
    BY DEF IInv, TypeOK, FdShape
  <2> QED BY <2>1, <2>2, DeviceAssumption DEF Entry
<1>7. /\ pc # "dead" /\ pc' # "dead"
      /\ UNCHANGED <<list_top, msg>>
  BY DEF FloodWrite, Write, HalfDone
<1>8. \/ list_top[i].mac_add \in ({m \in {msg.dst} : msg.physout}
                                  \cup {m \in {msg.src} : msg.physin})
                                 \ {Broadcast}
      \/ msg \in {f \in Frames : FloodFrame(f)}
  BY <1>1, <1>2 DEF Item, OnVif
<1>9. Promise!Deliver(list_top[i].mac_add, i - 1)
  BY <1>1, <1>4, <1>5, <1>7, <1>8 DEF Promise!Deliver, Taps, Copies
<1> QED BY <1>6, <1>9

\* The new entry of the list is a station learnt.
LEMMA TunAllocLearns ==
    ASSUME IInv, FrameShape, TunAlloc, IInv'
    PROVE  \E m \in Mac, t \in 0 .. MaxFd - FirstFd - 1 : Promise!Learn(m, t)
<1> USE DeviceAssumption, FrameAssumption
<1>1. PICK n \in Nat : n = Len(list_top)
  BY DEF IInv, TypeOK
<1>2. msg \in Frames /\ msg \in Frame /\ Item \in Mac
  BY DEF TunAlloc, IInv, TypeOK, Item, Frame
<1>3. PICK m \in Mac : m = Item
  BY <1>2
<1>4. PICK d \in Fds :
          list_top' = Append(list_top, [mac_add |-> m, tap_name |-> n,
                                        tap_fd_num |-> d])
  BY <1>3, <1>1 DEF TunAlloc, mac_list_count
<1>5. /\ Len(list_top') = n + 1
      /\ \A i \in 1 .. n : list_top'[i] = list_top[i]
      /\ list_top'[n + 1].mac_add = m
      /\ list_top'[n + 1].tap_name = n
  BY <1>1, <1>2, <1>3, <1>4 DEF IInv, TypeOK, Entry
<1>6. n \in 0 .. MaxFd - FirstFd - 1
  BY <1>1, <1>5 DEF IInv, FdShape
<1>7. Taps' = Taps \cup {<<m, n>>}
  <2>1. 1 .. n + 1 = (1 .. n) \cup {n + 1}
    BY <1>1
  <2>2. Taps' = {<<list_top'[i].mac_add, list_top'[i].tap_name>> :
                    i \in 1 .. n + 1}
    BY <1>1, <1>5 DEF Taps
  <2>3. Taps = {<<list_top'[i].mac_add, list_top'[i].tap_name>> :
                   i \in 1 .. n}
    BY <1>1, <1>5 DEF Taps
  <2> QED BY <1>5, <2>1, <2>2, <2>3
<1>8. \A x \in Taps : x[1] # m /\ x[2] # n
  BY <1>3, <1>1 DEF Taps, TunAlloc, IInv, ControlShape, Listed, TableShape
<1>9. m \in ({x \in {msg.dst} : msg.physout}
             \cup {x \in {msg.src} : msg.physin}) \ {Broadcast}
  BY <1>3, <1>2 DEF TunAlloc, FrameShape, IInv, ControlShape, Item, OnVif
<1>10. UNCHANGED <<msg, sent>> /\ pc # "dead" /\ pc' # "dead"
  BY DEF TunAlloc
<1>11. Promise!Learn(m, n)
  BY <1>1, <1>2, <1>7, <1>8, <1>9, <1>10 DEF Promise!Learn, Taps
<1> QED BY <1>6, <1>11

\* Every step of the distributor is a step of the promise or hidden from it.
LEMMA NextPromise ==
    ASSUME IInv, IInv', FrameShape, [Next]_vars
    PROVE  [Promise!StNext]_(Promise!stVars)
<1>1. CASE Start
  BY <1>1 DEF Start, Promise!StNext, Promise!Begin
<1>2. CASE \E f \in Frames : Receive(f)
  <2>1. PICK f \in Frames : Receive(f)
    BY <1>2
  <2>2. Copies' = <<>>
    BY <2>1 DEF Receive, Copies
  <2>3. pc' # "dead"
    BY <2>1 DEF Receive
  <2>4. Promise!Take(f)
    BY <2>1, <2>2, <2>3 DEF Receive, Promise!Take, Copies
  <2> QED BY <2>4 DEF Promise!StNext
<1>3. CASE FloodWrite \/ Write
  BY <1>3, WriteDelivers DEF Promise!StNext
<1>4. CASE TunAlloc
  BY <1>4, TunAllocLearns DEF Promise!StNext
<1>5. CASE AllocError \/ Killed
  <2>1. pc # "dead" /\ Die
    BY <1>5 DEF AllocError, Killed
  <2>2. Taps' = {} /\ Copies' = <<>>
    BY <2>1 DEF Die, Taps, Copies
  <2>3. Promise!End
    BY <2>1, <2>2 DEF Die, Promise!End, Taps, Copies
  <2> QED BY <2>3 DEF Promise!StNext
<1>6. CASE \/ UNCHANGED vars \/ Foreign
           \/ \E item \in Mac : MulticastAdd(item)
           \/ BroadcastMac \/ BroadcastAdd \/ NoFlood \/ FloodEnd \/ OtherPort
           \/ AlreadyListed \/ NotListed \/ Mktun \/ SetLinkUp \/ CommandFails
  <2>1. pc # "dead" \/ UNCHANGED vars \/ Foreign
    BY <1>6 DEF MulticastAdd, BroadcastMac, BroadcastAdd, NoFlood, FloodEnd,
                OtherPort, AlreadyListed, NotListed, Mktun, SetLinkUp,
                CommandFails
  <2> QED BY <1>6, <2>1, HiddenSteps
<1> QED BY <1>1, <1>2, <1>3, <1>4, <1>5, <1>6 DEF Next, Distribute

\* write_tap_v5.c's main loop keeps the promise of StationTaps, whatever the
\* frames, faults and neighbours.
THEOREM Implementation == Spec => ImplementsPromise
<1>1. Spec => []FrameShape
  BY InitFrame, NextFrame, PTL DEF Spec
<1> QED BY <1>1, InitPromise, NextPromise, Invariance, PTL
        DEF Spec, ImplementsPromise, Promise!StSpec

-----------------------------------------------------------------------------
(* The devices of listed stations are up *)

\* No command fails for reasons of its own and nobody removes devices.
Quiet == ~CmdFaults /\ "rmtun" \notin ForeignOps

\* Every unit that exists is persistent, and those before the next entry's
\* exist; so the lowest free one is the next entry's, unless that exists too.
\* In both cases it is the one SetLinkUp brings up and TunAlloc enters.
UpShape ==
    /\ present \cap Units \subseteq persistent
    /\ \A k \in Units : k < Len(list_top) => k \in up \cap persistent
    /\ pc \in {"linkup", "alloc"} /\ Len(list_top) \in Units =>
          Len(list_top) \in persistent
    /\ pc = "alloc" /\ Len(list_top) \in Units => Len(list_top) \in up

LEMMA InitUp == Init => UpShape
BY DeviceAssumption DEF Init, DevicesInit, UpShape, Units

\* A new unit is the device of the next entry or leaves it as it is.
LEMMA MktunUp ==
    ASSUME IInv, UpShape, Mktun
    PROVE  UpShape'
<1> USE DeviceAssumption
<1>1. Len(list_top) \in Nat /\ UNCHANGED <<list_top, up>> /\ pc' = "linkup"
  BY DEF IInv, TypeOK, Mktun, CreateUnit, NoFreeUnit, devices
<1>2. \A k \in 0 .. Len(list_top) - 1 : k \in present
  BY DEF IInv, FdShape
<1>3. CASE CreateUnit
  <2>1. PICK n \in Units : /\ LowestFreeUnit(n)
                           /\ present' = present \cup {n}
                           /\ persistent' = persistent \cup {n}
    BY <1>3 DEF CreateUnit
  <2>2. Len(list_top) \in Units => Len(list_top) \in persistent'
    <3> SUFFICES ASSUME Len(list_top) \in Units, Len(list_top) \notin persistent
                 PROVE  n = Len(list_top)
      BY <2>1
    <3>1. Len(list_top) \notin present
      BY DEF UpShape
    <3>2. n \notin present /\ \A k \in 0 .. n - 1 : k \in present
      BY <2>1 DEF LowestFreeUnit
    <3> QED BY <1>1, <1>2, <3>1, <3>2 DEF Units
  <2> QED BY <1>1, <2>1, <2>2 DEF UpShape
<1>4. CASE NoFreeUnit
  BY <1>1, <1>4 DEF NoFreeUnit, devices, UpShape
<1> QED BY <1>3, <1>4 DEF Mktun

\* The entry is added once its device is up.
LEMMA TunAllocUp ==
    ASSUME IInv, UpShape, TunAlloc
    PROVE  UpShape'
<1> USE DeviceAssumption
<1>1. PICK n \in Nat : n = Len(list_top)
  BY DEF IInv, TypeOK
<1>2. /\ present' = present \cup {n}
      /\ UNCHANGED <<persistent, up>>
  BY <1>1 DEF TunAlloc, Attach, mac_list_count
<1>3. Len(list_top') = n + 1
  BY <1>1 DEF TunAlloc, IInv, TypeOK
<1>4. n \in Units => n \in up \cap persistent
  BY <1>1 DEF TunAlloc, UpShape
<1>5. \A k \in Units : k < n + 1 => k < n \/ k = n
  BY <1>1 DEF Units
<1> QED BY <1>1, <1>2, <1>3, <1>4, <1>5 DEF TunAlloc, UpShape

LEMMA NextUp ==
    ASSUME Quiet, IInv, UpShape, [Next]_vars
    PROVE  UpShape'
<1> USE DeviceAssumption
<1>1. CASE Mktun
  BY <1>1, MktunUp
<1>2. CASE TunAlloc
  BY <1>2, TunAllocUp
<1>3. CASE SetLinkUp
  BY <1>3 DEF SetLinkUp, LinkUp, UpShape, IInv, TypeOK, DevicesTypeOK,
              mac_list_count
<1>4. CASE AllocError \/ Killed
  <2>1. Len(list_top') = 0 /\ pc' = "dead"
        /\ present' \subseteq present /\ persistent' = persistent
    BY <1>4 DEF AllocError, Killed, Die, ReleaseAll
  <2> QED BY <2>1 DEF UpShape, Units
<1>5. CASE Foreign
  <2>1. UNCHANGED <<list_top, pc, up>>
    BY <1>5 DEF Foreign, program, Quiet, ForeignAttach, ForeignDetach,
                CreateUnit
  <2>2. persistent \subseteq persistent'
        /\ present' \cap Units \subseteq persistent'
    BY <1>5 DEF Foreign, Quiet, ForeignAttach, ForeignDetach, CreateUnit,
                UpShape
  <2> QED BY <2>1, <2>2 DEF UpShape
<1>6. CASE \/ UNCHANGED vars \/ Start
           \/ \E f \in Frames : Receive(f)
           \/ \E item \in Mac : MulticastAdd(item)
           \/ BroadcastMac \/ BroadcastAdd \/ NoFlood \/ FloodWrite \/ FloodEnd
           \/ OtherPort \/ AlreadyListed \/ NotListed \/ Write
  <2>1. UNCHANGED <<list_top, devices>>
        /\ (pc' \in {"linkup", "alloc"} => pc' = pc)
    BY <1>6 DEF vars, Start, Receive, MulticastAdd, BroadcastMac, BroadcastAdd,
                StartFlood, NoFlood, FloodWrite, FloodEnd, OtherPort,
                AlreadyListed, NotListed, Write, HalfDone
  <2> QED BY <2>1 DEF UpShape, devices
<1>7. CASE CommandFails
  BY <1>7 DEF CommandFails, Quiet
<1> QED BY <1>1, <1>2, <1>3, <1>4, <1>5, <1>6, <1>7 DEF Next, Distribute

\* mac_list_add brings up the device it then attaches to, although it only
\* guesses which unit openvpn created: whatever devices there were and whoever
\* creates others between its commands, if none fails and none is removed.
THEOREM ListedAreUp == Spec => []ListedDevicesUp
<1>1. CASE Quiet
  <2>1. Spec => [](IInv /\ UpShape)
    BY <1>1, InitUp, NextUp, Invariance, PTL DEF Spec
  <2>2. IInv /\ UpShape => ListedDevicesUp
    BY DeviceAssumption DEF IInv, TypeOK, UpShape, ListedDevicesUp, Units
  <2> QED BY <2>1, <2>2, PTL
<1>2. CASE ~Quiet
  <2>1. ListedDevicesUp
    BY <1>2 DEF Quiet, ListedDevicesUp
  <2> QED BY <2>1, PTL
<1> QED BY <1>1, <1>2

\* The unicast part starts with its first half, and a process that has ended
\* has no frame.
IdleShape ==
    /\ pc \in {"recv", "match", "flood", "dead"} => leg = "out"
    /\ pc = "dead" => msg = NoFrame

LEMMA InitIdle == Init => IdleShape
BY DEF Init, IdleShape

LEMMA NextIdle ==
    ASSUME IInv, IdleShape, [Next]_vars
    PROVE  IdleShape'
<1> USE DEF IdleShape
<1>1. CASE \/ \E f \in Frames : Receive(f)
           \/ \E item \in Mac : MulticastAdd(item)
           \/ BroadcastMac \/ BroadcastAdd \/ NoFlood \/ FloodWrite \/ FloodEnd
           \/ Start
  BY <1>1 DEF Start, Receive, MulticastAdd, BroadcastMac, BroadcastAdd,
              StartFlood, NoFlood, FloodWrite, FloodEnd
<1>2. CASE OtherPort \/ Write
  BY <1>2 DEF OtherPort, Write, HalfDone, IInv, TypeOK
<1>3. CASE AlreadyListed \/ NotListed \/ Mktun \/ SetLinkUp \/ CommandFails
           \/ TunAlloc
  BY <1>3 DEF AlreadyListed, NotListed, Mktun, SetLinkUp, CommandFails, TunAlloc
<1>4. CASE AllocError \/ Killed
  BY <1>4 DEF AllocError, Killed, Die
<1>5. CASE UNCHANGED vars \/ Foreign
  BY <1>5 DEF vars, Foreign, program
<1> QED BY <1>1, <1>2, <1>3, <1>4, <1>5 DEF Next, Distribute

-----------------------------------------------------------------------------
(* The fate of the copies *)

\* Every count is that of IpLenCount, unless the frame may be taken for an IPv6
\* multicast.
CountShape ==
    msg \in Frames /\ {msg.dst, msg.src} \cap V6Group = {} =>
        /\ pc = "flood" => count = IpLenCount(msg.tot_len)
        /\ \A k \in 1 .. Len(sent) : sent[k].count = IpLenCount(msg.tot_len)

LEMMA InitCount == Init => CountShape
BY DEF Init, CountShape

\* A write appends a copy to sent.
LEMMA WriteAppends ==
    ASSUME IInv, FloodWrite \/ Write
    PROVE  \E i \in 1 .. Len(list_top), n \in Word :
              /\ sent' = Append(sent, [tap |-> i - 1, count |-> n])
              /\ list_top[i].tap_name = i - 1
              /\ FloodWrite => i = p /\ n = count
              /\ Write => /\ n = IpLenCount(msg.tot_len)
                          /\ list_top[i].mac_add = Item
<1>1. CASE FloodWrite
  <2>1. p \in 1 .. Len(list_top) /\ count \in Word /\ ~Write
    BY <1>1 DEF FloodWrite, Write, IInv, TypeOK, mac_list_count
  <2>2. CopyTo(list_top[p].tap_fd_num, count) = [tap |-> p - 1, count |-> count]
    BY <2>1, CopyReaches
  <2>3. list_top[p].tap_name = p - 1
    BY <2>1 DEF IInv, TableShape
  <2> QED BY <1>1, <2>1, <2>2, <2>3 DEF FloodWrite
<1>2. CASE Write
  <2>1. IpLenCount(msg.tot_len) \in Word /\ ~FloodWrite
    BY <1>2, SwapWord, FrameAssumption
       DEF FloodWrite, Write, IInv, TypeOK, Frame, IpLenCount
  <2>2. PICK i \in 1 .. Len(list_top) :
            /\ list_top[i].mac_add = Item
            /\ sent' = Append(sent, CopyTo(list_top[i].tap_fd_num,
                                           IpLenCount(msg.tot_len)))
    BY <1>2 DEF Write, mac_list_check, mac_list_count
  <2>3. CopyTo(list_top[i].tap_fd_num, IpLenCount(msg.tot_len)) =
            [tap |-> i - 1, count |-> IpLenCount(msg.tot_len)]
    BY CopyReaches
  <2>4. list_top[i].tap_name = i - 1
    BY DEF IInv, TableShape
  <2> QED BY <2>1, <2>2, <2>3, <2>4
<1> QED BY <1>1, <1>2

LEMMA NextCount ==
    ASSUME IInv, CountShape, [Next]_vars
    PROVE  CountShape'
<1> USE FrameAssumption DEF CountShape
<1>1. CASE \E item \in Mac : MulticastAdd(item)
  BY <1>1 DEF MulticastAdd, StartFlood
<1>2. CASE BroadcastMac \/ BroadcastAdd
  BY <1>2 DEF BroadcastMac, BroadcastAdd, StartFlood
<1>3. CASE FloodWrite \/ Write
  <2>1. PICK i \in 1 .. Len(list_top), n \in Word :
            /\ sent' = Append(sent, [tap |-> i - 1, count |-> n])
            /\ FloodWrite => n = count
            /\ Write => n = IpLenCount(msg.tot_len)
    BY <1>3, WriteAppends
  <2>2. UNCHANGED <<msg, count>> /\ (pc' = "flood" => pc = "flood")
        /\ (FloodWrite => pc = "flood")
    BY <1>3 DEF FloodWrite, Write, HalfDone
  <2>3. sent \in Seq(Copy)
    BY DEF IInv, TypeOK
  <2>4. /\ Len(sent') = Len(sent) + 1 /\ Len(sent) \in Nat
        /\ \A k \in 1 .. Len(sent) : sent'[k] = sent[k]
        /\ sent'[Len(sent) + 1].count = n
    BY <2>1, <2>3
  <2> QED BY <1>3, <2>1, <2>2, <2>4
<1>4. CASE \E f \in Frames : Receive(f)
  BY <1>4 DEF Receive
<1>5. CASE AllocError \/ Killed
  BY <1>5 DEF AllocError, Killed, Die
<1>6. CASE \/ UNCHANGED vars \/ Foreign \/ Start \/ NoFlood \/ FloodEnd
           \/ OtherPort \/ AlreadyListed \/ NotListed \/ Mktun \/ SetLinkUp
           \/ CommandFails \/ TunAlloc
  <2>1. UNCHANGED <<msg, sent>>
        /\ (pc' = "flood" => UNCHANGED <<pc, count>>)
    BY <1>6 DEF vars, Foreign, program, Start, NoFlood, FloodEnd, OtherPort,
                HalfDone, AlreadyListed, NotListed, Mktun, SetLinkUp,
                CommandFails, TunAlloc
  <2> QED BY <2>1
<1> QED BY <1>1, <1>2, <1>3, <1>4, <1>5, <1>6 DEF Next, Distribute

\* Which copies of write_tap_v5.c are whole and which the driver refuses, of any
\* frame and in any run: the arithmetic of FrameLength at every write.
THEOREM FateOfCopies == Spec => []CopyFate
<1>1. IInv /\ CountShape => CopyFate
  <2> SUFFICES ASSUME IInv, CountShape, msg \in Frames,
                      {msg.dst, msg.src} \cap V6Group = {},
                      NEW k \in 1 .. Len(sent)
               PROVE  /\ Whole(sent[k].count, msg.tot_len) <=>
                            msg.tot_len % 256 > msg.tot_len \div 256
                      /\ Taken(sent[k].count) <=>
                            msg.tot_len % 256 > 0 \/ msg.tot_len \div 256 >= 14
                      /\ ~Exact(sent[k].count, msg.tot_len)
    BY DEF CopyFate
  <2>1. msg.tot_len \in Word
    BY FrameAssumption DEF Frame
  <2>2. sent[k].count = IpLenCount(msg.tot_len)
    BY DEF CountShape
  <2> QED BY <2>1, <2>2, WholeExactly, TakenExactly, NeverExact
<1>2. Spec => []CountShape
  BY InitCount, NextCount, Invariance, PTL DEF Spec
<1> QED BY <1>1, <1>2, Invariance, PTL

-----------------------------------------------------------------------------
(* Broadcast frames *)

\* While a broadcast frame is dealt with, its copies are for the entries the
\* flood has passed.
BroadcastShape ==
    msg \in Frames /\ msg.version /\ Broadcast \in {msg.dst, msg.src} =>
        /\ pc = "match" => sent = <<>>
        /\ pc = "flood" => p = Len(sent) + 1
        /\ pc = "recv" => Len(sent) = Len(list_top)
        /\ pc \in {"flood", "recv"} =>
              /\ Len(sent) <= Len(list_top)
              /\ \A k \in 1 .. Len(sent) : sent[k].tap = list_top[k].tap_name

LEMMA InitBroadcast == Init => BroadcastShape
BY FrameAssumption DEF Init, BroadcastShape

LEMMA NextBroadcast ==
    ASSUME IInv, IdleShape, BroadcastShape, [Next]_vars
    PROVE  BroadcastShape'
<1> USE FrameAssumption DEF BroadcastShape
<1>1. Len(list_top) \in Nat /\ Len(sent) \in Nat /\ sent \in Seq(Copy)
  BY DEF IInv, TypeOK
<1>2. CASE \/ \E item \in Mac : MulticastAdd(item)
           \/ BroadcastMac \/ BroadcastAdd
  <2>1. /\ UNCHANGED <<list_top, msg, sent>>
        /\ pc = "match" /\ pc' = "flood" /\ p' = 1
    BY <1>2 DEF MulticastAdd, BroadcastMac, BroadcastAdd, StartFlood
  <2> QED BY <1>1, <2>1
<1>3. CASE FloodWrite
  <2>1. PICK i \in 1 .. Len(list_top), n \in Word :
            /\ sent' = Append(sent, [tap |-> i - 1, count |-> n])
            /\ list_top[i].tap_name = i - 1
            /\ i = p
    BY <1>3, WriteAppends
  <2>2. /\ UNCHANGED <<list_top, msg, pc>> /\ pc = "flood" /\ p' = p + 1
        /\ p <= Len(list_top)
    BY <1>3 DEF FloodWrite, mac_list_count
  <2>3. /\ Len(sent') = Len(sent) + 1
        /\ \A k \in 1 .. Len(sent) : sent'[k] = sent[k]
        /\ sent'[Len(sent) + 1].tap = i - 1
    BY <1>1, <2>1
  <2> QED BY <1>1, <2>1, <2>2, <2>3
<1>4. CASE FloodEnd
  BY <1>1, <1>4 DEF FloodEnd, mac_list_count
<1>5. CASE \E f \in Frames : Receive(f)
  BY <1>5 DEF Receive
<1>6. CASE AllocError \/ Killed
  BY <1>6 DEF AllocError, Killed, Die
<1>7. CASE \/ OtherPort \/ AlreadyListed \/ NotListed \/ Mktun \/ SetLinkUp
           \/ CommandFails \/ TunAlloc \/ Write \/ NoFlood
  <2>1. Broadcast \notin {msg'.dst, msg'.src}
    BY <1>7 DEF OtherPort, AlreadyListed, NotListed, Mktun, SetLinkUp, NoFlood,
                CommandFails, TunAlloc, Write, IInv, ControlShape
  <2> QED BY <2>1
<1>8. CASE Start
  BY <1>8 DEF Start, IdleShape
<1>9. CASE UNCHANGED vars \/ Foreign
  BY <1>9 DEF vars, Foreign, program
<1> QED BY <1>2, <1>3, <1>4, <1>5, <1>6, <1>7, <1>8, <1>9 DEF Next, Distribute

\* Every broadcast frame of main's loop reaches every listed station's device
\* exactly once, however many stations there are.
THEOREM BroadcastIsComplete == Spec => []BroadcastComplete
<1>1. BroadcastShape => BroadcastComplete
  BY DEF BroadcastShape, BroadcastComplete
<1>2. Spec => []BroadcastShape
  BY InitIdle, NextIdle, InitBroadcast, NextBroadcast, Invariance, PTL DEF Spec
<1> QED BY <1>1, <1>2, PTL

-----------------------------------------------------------------------------
(* Unicast frames *)

\* Copy k of the frame is for entry i.
CopyFor(k, i) ==
    /\ sent[k].tap = list_top[i].tap_name
    /\ list_top[i].mac_add = IF k = 1 /\ msg.physout THEN msg.dst ELSE msg.src

\* The first half writes once if the frame leaves by the watched port, the
\* second if it comes in there.
UnicastShape ==
    msg \in Frames /\ msg.version /\ ~FloodFrame(msg) =>
        /\ leg = "out" /\ pc # "recv" => sent = <<>>
        /\ leg = "in" => Len(sent) = IF msg.physout THEN 1 ELSE 0
        /\ pc = "recv" => Len(sent) = (IF msg.physout THEN 1 ELSE 0) +
                                      (IF msg.physin THEN 1 ELSE 0)
        /\ \A k \in 1 .. Len(sent) : \E i \in 1 .. Len(list_top) : CopyFor(k, i)

LEMMA InitUnicast == Init => UnicastShape
BY FrameAssumption DEF Init, UnicastShape

\* The write of a half.
LEMMA WriteUnicast ==
    ASSUME IInv, FrameShape, UnicastShape, Write
    PROVE  UnicastShape'
<1> SUFFICES ASSUME msg \in Frames, msg.version, ~FloodFrame(msg)
             PROVE  UnicastShape'
  BY DEF UnicastShape, Write
<1>1. PICK i \in 1 .. Len(list_top), n \in Word :
          /\ sent' = Append(sent, [tap |-> i - 1, count |-> n])
          /\ list_top[i].tap_name = i - 1
          /\ list_top[i].mac_add = Item
  BY WriteAppends
<1>2. sent \in Seq(Copy) /\ leg \in {"out", "in"} /\ OnVif
  BY DEF Write, FrameShape, IInv, TypeOK
<1>3. /\ Len(sent') = Len(sent) + 1 /\ Len(sent) \in Nat
      /\ \A k \in 1 .. Len(sent) : sent'[k] = sent[k]
      /\ sent'[Len(sent) + 1].tap = i - 1
  BY <1>1, <1>2
<1>4. /\ UNCHANGED <<list_top, msg>> /\ pc = "write"
      /\ leg' = IF leg = "out" THEN "in" ELSE "out"
      /\ pc' = IF leg = "out" THEN "leg" ELSE "recv"
  BY DEF Write, HalfDone
<1>5. Len(sent) = IF leg = "in" /\ msg.physout THEN 1 ELSE 0
  BY <1>2, <1>4 DEF UnicastShape
<1>6. msg.physout \in BOOLEAN /\ msg.physin \in BOOLEAN
  BY FrameAssumption DEF Frame
<1>7. ASSUME NEW k \in Nat, k = Len(sent) + 1
      PROVE  CopyFor(k, i)'
  <2>1. sent'[k].tap = list_top'[i].tap_name
    BY <1>1, <1>3, <1>4, <1>7
  <2>2. Item = IF k = 1 /\ msg.physout THEN msg.dst ELSE msg.src
    BY <1>2, <1>3, <1>5, <1>6, <1>7 DEF Item, OnVif
  <2> QED BY <1>1, <1>4, <2>1, <2>2 DEF CopyFor
<1>8. \A k \in 1 .. Len(sent) : \E j \in 1 .. Len(list_top) : CopyFor(k, j)'
  <2> TAKE k \in 1 .. Len(sent)
  <2>1. PICK j \in 1 .. Len(list_top) : CopyFor(k, j)
    BY DEF UnicastShape
  <2>2. CopyFor(k, j)'
    BY <1>3, <1>4, <2>1 DEF CopyFor
  <2> QED BY <2>2
<1>9. \A k \in 1 .. Len(sent') :
          \E j \in 1 .. Len(list_top') : CopyFor(k, j)'
  <2> TAKE k \in 1 .. Len(sent')
  <2>1. k \in Nat /\ (k \in 1 .. Len(sent) \/ k = Len(sent) + 1)
    BY <1>3
  <2> QED BY <1>4, <1>7, <1>8, <2>1
<1>10. /\ leg' = "in" => Len(sent') = IF msg.physout THEN 1 ELSE 0
       /\ pc' = "recv" => Len(sent') = (IF msg.physout THEN 1 ELSE 0) +
                                       (IF msg.physin THEN 1 ELSE 0)
       /\ leg' = "out" => pc' = "recv"
  BY <1>2, <1>3, <1>4, <1>5, <1>6 DEF OnVif
<1> QED BY <1>4, <1>9, <1>10 DEF UnicastShape

\* A new entry leaves the others where they are.
LEMMA TunAllocUnicast ==
    ASSUME IInv, UnicastShape, TunAlloc
    PROVE  UnicastShape'
<1>1. /\ Len(list_top') = Len(list_top) + 1 /\ Len(list_top) \in Nat
      /\ \A i \in 1 .. Len(list_top) : list_top'[i] = list_top[i]
  BY DEF TunAlloc, IInv, TypeOK
<1>2. UNCHANGED <<msg, sent, leg>> /\ pc = "alloc" /\ pc' = "write"
  BY DEF TunAlloc
<1>3. \A k, i : i \in 1 .. Len(list_top) /\ CopyFor(k, i) =>
                i \in 1 .. Len(list_top') /\ CopyFor(k, i)'
  BY <1>1, <1>2 DEF CopyFor
<1> QED BY <1>2, <1>3 DEF UnicastShape, FloodFrame

LEMMA NextUnicast ==
    ASSUME IInv, FrameShape, FrameShape', IdleShape, UnicastShape, [Next]_vars
    PROVE  UnicastShape'
<1> USE FrameAssumption
<1>1. CASE Write
  BY <1>1, WriteUnicast
<1>2. CASE TunAlloc
  BY <1>2, TunAllocUnicast
<1>3. CASE FloodWrite \/ FloodEnd
  <2>1. FloodFrame(msg) /\ msg' = msg
    BY <1>3 DEF FloodWrite, FloodEnd, FrameShape
  <2> QED BY <2>1 DEF UnicastShape, FloodFrame
<1>4. CASE \/ \E item \in Mac : MulticastAdd(item)
           \/ BroadcastMac \/ BroadcastAdd
  <2>1. pc' = "flood"
    BY <1>4 DEF MulticastAdd, BroadcastMac, BroadcastAdd, StartFlood
  <2> QED BY <2>1 DEF UnicastShape, FrameShape
<1>5. CASE \E f \in Frames : Receive(f)
  BY <1>5 DEF Receive, UnicastShape, IdleShape
<1>6. CASE AllocError \/ Killed
  BY <1>6 DEF AllocError, Killed, Die, UnicastShape
<1>7. CASE OtherPort
  <2>1. /\ UNCHANGED <<list_top, msg, sent>> /\ pc = "leg" /\ ~OnVif
        /\ leg' = IF leg = "out" THEN "in" ELSE "out"
        /\ pc' = IF leg = "out" THEN "leg" ELSE "recv"
        /\ leg \in {"out", "in"}
    BY <1>7 DEF OtherPort, HalfDone, IInv, TypeOK
  <2>2. \A k, i : CopyFor(k, i) => CopyFor(k, i)'
    BY <2>1 DEF CopyFor
  <2>3. FloodFrame(msg)' <=> FloodFrame(msg)
    BY <2>1 DEF FloodFrame
  <2>4. CASE leg = "out"
    <3>1. leg' = "in" /\ pc' = "leg" /\ ~msg.physout
      BY <2>1, <2>4 DEF OnVif
    <3> QED BY <2>1, <2>2, <2>3, <2>4, <3>1 DEF UnicastShape
  <2>5. CASE leg = "in"
    <3>1. leg' = "out" /\ pc' = "recv" /\ ~msg.physin
      BY <2>1, <2>5 DEF OnVif
    <3>2. msg \in Frames => msg.physout \in BOOLEAN
      BY DEF Frame
    <3> QED BY <2>1, <2>2, <2>3, <2>5, <3>1, <3>2 DEF UnicastShape
  <2> QED BY <2>1, <2>4, <2>5
<1>8. CASE Start
  BY <1>8 DEF Start, IdleShape, UnicastShape
<1>9. CASE \/ NoFlood \/ AlreadyListed \/ NotListed \/ Mktun \/ SetLinkUp
           \/ CommandFails \/ UNCHANGED vars \/ Foreign
  <2>1. /\ UNCHANGED <<list_top, msg, sent, leg>>
        /\ (pc' # "recv" => pc # "recv") /\ (pc' = "recv" => pc = "recv")
    BY <1>9 DEF NoFlood, AlreadyListed, NotListed, Mktun, SetLinkUp,
                CommandFails, vars, Foreign, program
  <2>2. \A k, i : CopyFor(k, i) => CopyFor(k, i)'
    BY <2>1 DEF CopyFor
  <2> QED BY <2>1, <2>2 DEF UnicastShape, FloodFrame
<1> QED BY <1>1, <1>2, <1>3, <1>4, <1>5, <1>6, <1>7, <1>8, <1>9
        DEF Next, Distribute

\* A frame of two stations goes to the devices of these two and no other, in
\* every run, with any number of stations.
THEOREM UnicastIsIsolated == Spec => []UnicastIsolation
<1>1. UnicastShape => UnicastIsolation
  BY DEF UnicastShape, CopyFor, UnicastIsolation
<1>2. Spec => [](FrameShape /\ IdleShape)
  BY InitFrame, NextFrame, InitIdle, NextIdle, Invariance, PTL DEF Spec
<1>3. Spec => []UnicastShape
  BY <1>2, InitUnicast, NextUnicast, Invariance, PTL DEF Spec
<1> QED BY <1>1, <1>3, PTL

-----------------------------------------------------------------------------
(* A tap gets a frame once *)

\* The one kind of frame that is written to a tap twice: from a station to
\* itself, leaving by the watched port and coming in there.
FrameToItself(f) == f.physout /\ f.physin /\ f.dst = f.src

\* Copy k is the one of the first half: for the destination.
FirstCopy(k) ==
    /\ k = 1
    /\ msg.physout
    /\ \E i \in 1 .. Len(list_top) :
          sent[k].tap = i - 1 /\ list_top[i].mac_add = msg.dst

\* A flood has written to the entries it has passed, the first half of the
\* unicast part to nobody but the destination's tap; so no tap is written to
\* twice, whichever of the tests a frame has passed.
OnceShape ==
    /\ pc \in {"match", "dead"} => sent = <<>>
    /\ pc = "flood" => /\ p = Len(sent) + 1
                       /\ \A k \in 1 .. Len(sent) : sent[k].tap = k - 1
    /\ pc \in {"leg", "mktun", "linkup", "alloc", "write"} /\ leg = "out" =>
          sent = <<>>
    /\ leg = "in" => \A k \in 1 .. Len(sent) : FirstCopy(k)
    /\ pc = "recv" =>
          \A j, k \in 1 .. Len(sent) :
             j < k /\ sent[j].tap = sent[k].tap => FrameToItself(msg)

LEMMA InitOnce == Init => OnceShape
BY DEF Init, OnceShape

\* The copy of the second half is for the source, whose entry is another one
\* than the destination's unless they are the same station.
LEMMA WriteOnce ==
    ASSUME IInv, FrameShape, OnceShape, Write
    PROVE  OnceShape'
<1>1. PICK i \in 1 .. Len(list_top), n \in Word :
          /\ sent' = Append(sent, [tap |-> i - 1, count |-> n])
          /\ list_top[i].tap_name = i - 1
          /\ list_top[i].mac_add = Item
  BY WriteAppends
<1>2. /\ sent \in Seq(Copy) /\ leg \in {"out", "in"} /\ OnVif /\ pc = "write"
      /\ UNCHANGED <<list_top, msg, p>>
      /\ leg' = IF leg = "out" THEN "in" ELSE "out"
      /\ pc' = IF leg = "out" THEN "leg" ELSE "recv"
  BY DEF Write, HalfDone, FrameShape, IInv, TypeOK
<1>3. /\ Len(sent') = Len(sent) + 1 /\ Len(sent) \in Nat
      /\ \A k \in 1 .. Len(sent) : sent'[k] = sent[k]
      /\ sent'[Len(sent) + 1].tap = i - 1
  BY <1>1, <1>2
<1>4. CASE leg = "out"
  <2>1. sent = <<>> /\ Len(sent) = 0
    BY <1>2, <1>4 DEF OnceShape
  <2>2. Item = msg.dst /\ msg.physout
    BY <1>2, <1>4 DEF Item, OnVif
  <2>3. \A k \in 1 .. Len(sent') : k = 1 /\ sent'[k].tap = i - 1
    BY <1>3, <2>1
  <2>4. \A k \in 1 .. Len(sent') : FirstCopy(k)'
    BY <1>1, <1>2, <2>2, <2>3 DEF FirstCopy
  <2> QED BY <1>2, <1>4, <2>4 DEF OnceShape
<1>5. CASE leg = "in"
  <2>1. Item = msg.src /\ msg.physin
    BY <1>2, <1>5 DEF Item, OnVif
  <2>2. \A k \in 1 .. Len(sent) : FirstCopy(k)
    BY <1>5 DEF OnceShape
  <2>3. ASSUME NEW j \in 1 .. Len(sent'), NEW k \in 1 .. Len(sent'), j < k,
               sent'[j].tap = sent'[k].tap
        PROVE  FrameToItself(msg)
    <3>1. FirstCopy(j) /\ j \in 1 .. Len(sent)
      BY <1>3, <2>2, <2>3
    <3>2. k = Len(sent) + 1
      <4>1. k \notin 1 .. Len(sent)
        BY <2>2, <2>3, <3>1 DEF FirstCopy
      <4> QED BY <1>3, <4>1
    <3>3. PICK h \in 1 .. Len(list_top) :
              sent[j].tap = h - 1 /\ list_top[h].mac_add = msg.dst
      BY <3>1 DEF FirstCopy
    <3>4. h = i
      BY <1>3, <2>3, <3>1, <3>2, <3>3
    <3> QED BY <1>1, <2>1, <3>1, <3>3, <3>4 DEF FrameToItself, FirstCopy
  <2> QED BY <1>2, <1>5, <2>3 DEF OnceShape, FrameToItself
<1> QED BY <1>2, <1>4, <1>5

LEMMA NextOnce ==
    ASSUME IInv, IdleShape, FrameShape, OnceShape, [Next]_vars
    PROVE  OnceShape'
<1>1. Len(list_top) \in Nat /\ Len(sent) \in Nat /\ sent \in Seq(Copy)
  BY DEF IInv, TypeOK
<1>2. CASE Write
  BY <1>2, WriteOnce
<1>3. CASE FloodWrite
  <2>1. PICK n \in Word : sent' = Append(sent, [tap |-> p - 1, count |-> n])
    BY <1>3, WriteAppends
  <2>2. /\ pc = "flood" /\ pc' = "flood" /\ p' = p + 1 /\ leg' = leg
        /\ leg = "out"
    BY <1>3 DEF FloodWrite, IdleShape
  <2>3. /\ Len(sent') = Len(sent) + 1 /\ p = Len(sent) + 1
        /\ \A k \in 1 .. Len(sent) : sent'[k] = sent[k]
        /\ sent'[Len(sent) + 1].tap = p - 1
    BY <1>1, <2>1, <2>2 DEF OnceShape
  <2>4. \A k \in 1 .. Len(sent') : k \in 1 .. Len(sent) \/ k = Len(sent) + 1
    BY <1>1, <2>3
  <2>5. \A k \in 1 .. Len(sent') : sent'[k].tap = k - 1
    BY <2>2, <2>3, <2>4 DEF OnceShape
  <2> QED BY <1>1, <2>2, <2>3, <2>5 DEF OnceShape
<1>4. CASE FloodEnd
  <2>1. /\ pc = "flood" /\ pc' = "recv" /\ UNCHANGED <<sent, msg, leg>>
        /\ leg = "out"
    BY <1>4 DEF FloodEnd, IdleShape
  <2>2. \A j, k \in 1 .. Len(sent) : j < k => sent[j].tap # sent[k].tap
    BY <2>1 DEF OnceShape
  <2> QED BY <2>1, <2>2 DEF OnceShape
<1>5. CASE \/ \E item \in Mac : MulticastAdd(item)
           \/ BroadcastMac \/ BroadcastAdd \/ NoFlood
  <2>1. /\ pc = "match" /\ pc' \in {"flood", "leg"} /\ sent' = sent
        /\ pc' = "flood" => p' = 1
        /\ leg' = leg /\ leg = "out"
    BY <1>5 DEF MulticastAdd, BroadcastMac, BroadcastAdd, NoFlood, StartFlood,
                IdleShape
  <2>2. sent = <<>> /\ Len(sent) = 0
    BY <2>1 DEF OnceShape
  <2> QED BY <2>1, <2>2 DEF OnceShape
<1>6. CASE \E f \in Frames : Receive(f)
  <2>1. sent' = <<>> /\ Len(sent') = 0 /\ leg' = leg /\ leg = "out"
        /\ pc' \in {"match", "recv"}
    BY <1>6 DEF Receive, IdleShape
  <2> QED BY <2>1 DEF OnceShape
<1>7. CASE AllocError \/ Killed
  <2>1. sent' = <<>> /\ Len(sent') = 0 /\ pc' = "dead" /\ leg' = "out"
    BY <1>7 DEF AllocError, Killed, Die
  <2> QED BY <2>1 DEF OnceShape
<1>8. CASE Start
  <2>1. /\ sent' = sent /\ pc = "dead" /\ pc' = "recv" /\ leg' = leg
        /\ leg = "out"
    BY <1>8 DEF Start, IdleShape
  <2>2. sent = <<>> /\ Len(sent) = 0
    BY <2>1 DEF OnceShape
  <2> QED BY <2>1, <2>2 DEF OnceShape
<1>9. CASE OtherPort
  <2>1. /\ UNCHANGED <<list_top, msg, sent>> /\ pc = "leg" /\ ~OnVif
        /\ leg' = IF leg = "out" THEN "in" ELSE "out"
        /\ pc' = IF leg = "out" THEN "leg" ELSE "recv"
        /\ leg \in {"out", "in"}
    BY <1>9 DEF OtherPort, HalfDone, IInv, TypeOK
  <2>2. CASE leg = "out"
    <3>1. sent = <<>> /\ Len(sent) = 0
      BY <2>1, <2>2 DEF OnceShape
    <3> QED BY <2>1, <2>2, <3>1 DEF OnceShape
  <2>3. CASE leg = "in"
    <3>1. \A k \in 1 .. Len(sent) : k = 1
      BY <2>3 DEF OnceShape, FirstCopy
    <3> QED BY <2>1, <2>3, <3>1 DEF OnceShape
  <2> QED BY <2>1, <2>2, <2>3
<1>10. CASE TunAlloc
  <2>1. /\ UNCHANGED <<msg, sent, leg>> /\ pc = "alloc" /\ pc' = "write"
        /\ Len(list_top') = Len(list_top) + 1
        /\ \A i \in 1 .. Len(list_top) : list_top'[i] = list_top[i]
    BY <1>1, <1>10 DEF TunAlloc, IInv, TypeOK
  <2>2. \A k : FirstCopy(k) => FirstCopy(k)'
    BY <1>1, <2>1 DEF FirstCopy
  <2> QED BY <2>1, <2>2 DEF OnceShape
<1>11. CASE \/ AlreadyListed \/ NotListed \/ Mktun \/ SetLinkUp
            \/ CommandFails
  <2>1. /\ UNCHANGED <<list_top, msg, sent, leg>>
        /\ {pc, pc'} \subseteq {"leg", "mktun", "linkup", "alloc", "write"}
    BY <1>11 DEF AlreadyListed, NotListed, Mktun, SetLinkUp, CommandFails
  <2>2. \A k : FirstCopy(k) => FirstCopy(k)'
    BY <2>1 DEF FirstCopy
  <2> QED BY <2>1, <2>2 DEF OnceShape
<1>12. CASE UNCHANGED vars \/ Foreign
  <2>1. UNCHANGED <<list_top, msg, sent, leg, pc, p>>
    BY <1>12 DEF vars, Foreign, program
  <2>2. \A k : FirstCopy(k) => FirstCopy(k)'
    BY <2>1 DEF FirstCopy
  <2> QED BY <2>1, <2>2 DEF OnceShape
<1> QED BY <1>2, <1>3, <1>4, <1>5, <1>6, <1>7, <1>8, <1>9, <1>10, <1>11, <1>12
        DEF Next, Distribute

\* No two copies of a frame are for the same tap, but of one from a station to
\* itself.
CopiesApart ==
    \A j, k \in 1 .. Len(sent) :
        j < k /\ sent[j].tap = sent[k].tap => FrameToItself(msg)

LEMMA OnceApart ==
    ASSUME IInv, IdleShape, OnceShape
    PROVE  CopiesApart
<1>1. CASE \/ pc \in {"match", "dead"}
           \/ pc \notin {"recv", "flood"} /\ leg = "out"
  <2>1. Len(sent) = 0
    BY <1>1 DEF OnceShape, IInv, TypeOK
  <2> QED BY <2>1 DEF CopiesApart
<1>2. CASE pc = "flood"
  <2>1. \A j, k \in 1 .. Len(sent) : j < k => sent[j].tap # sent[k].tap
    BY <1>2 DEF OnceShape
  <2> QED BY <2>1 DEF CopiesApart
<1>3. CASE leg = "in"
  <2>1. \A k \in 1 .. Len(sent) : k = 1
    BY <1>3 DEF OnceShape, FirstCopy
  <2> QED BY <2>1 DEF CopiesApart
<1>4. CASE pc = "recv"
  BY <1>4 DEF OnceShape, CopiesApart
<1> QED BY <1>1, <1>2, <1>3, <1>4 DEF IInv, TypeOK

\* What the pipeline needs of the distribution.
DistInv ==
    /\ IInv
    /\ FrameShape
    /\ IdleShape
    /\ OnceShape
    /\ CopiesApart
    /\ UnicastShape

\* The frame in hand, the copies made of it and the list agree at every step.
THEOREM Distribution == Spec => []DistInv
<1>1. IInv /\ IdleShape /\ OnceShape => CopiesApart
  BY OnceApart
<1>2. Spec => [](IInv /\ FrameShape /\ IdleShape)
  BY InitInv, NextInv, InitFrame, NextFrame, InitIdle, NextIdle, PTL DEF Spec
<1>3. Spec => [](OnceShape /\ UnicastShape)
  BY <1>2, InitOnce, NextOnce, InitUnicast, NextUnicast, PTL DEF Spec
<1> QED BY <1>1, <1>2, <1>3, PTL DEF DistInv
=============================================================================
