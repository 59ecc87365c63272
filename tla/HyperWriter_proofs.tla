------------------------- MODULE HyperWriter_proofs -------------------------
(***************************************************************************)
(* Proofs about HyperWriter, for buffers and batches of any size, any      *)
(* devices left behind, failing commands and restarts.                     *)
(***************************************************************************)
EXTENDS HyperWriter, Arithmetic_proofs

\* The hypervisor has put the packets one behind the other, all inside data.
BatchShape ==
    /\ Len(start) = Len(sizes)
    /\ Len(sizes) <= MAX_PKT
    /\ \A k \in 1 .. Len(sizes) : start[k] + sizes[k] <= MAX_SIZE
    /\ \A k \in 1 .. Len(sizes) - 1 : start[k + 1] = start[k] + sizes[k]

\* Where main is in the batch.
LoopShape ==
    /\ i \in 1 .. Len(sizes) + 1
    /\ pc = "dump" => i <= Len(sizes)
    /\ pc \notin {"write", "dump"} => i = Len(sizes) + 1
    /\ pc \in {"write", "dump"} /\ i <= Len(sizes) => msg = start[i]

\* What it has written so far.
WrittenShape ==
    /\ Len(written) = IF pc = "dump" THEN i ELSE i - 1
    /\ \A k \in 1 .. Len(written) :
          written[k] = [tap |-> 0, at |-> start[k], len |-> sizes[k]]

\* The one descriptor, and the devices: others than tap0 are persistent, so
\* openvpn's unit is tap0 unless that is there and persistent already.
DeviceShape ==
    /\ foreign \subseteq persistent
    /\ IF pc \in {"get", "write", "dump"}
       THEN /\ tap_fd_num \in Fds
            /\ fds[tap_fd_num] = 0
            /\ Held = {0}
            /\ present = persistent \cup {0}
       ELSE /\ Held = {}
            /\ present = persistent

UpShape ==
    ~disturbed /\ NDev > 0 =>
        /\ pc \in {"linkup", "alloc", "get", "write", "dump"} =>
              0 \in persistent
        /\ pc \in {"alloc", "get", "write", "dump"} => 0 \in up

HyperInv ==
    /\ HyperTypeOK
    /\ BatchShape
    /\ LoopShape
    /\ WrittenShape
    /\ DeviceShape
    /\ UpShape

-----------------------------------------------------------------------------
\* A batch is a sequence of packet sizes, no longer than the array sizes.
LEMMA BatchType ==
    ASSUME NEW b \in Batches
    PROVE  /\ b \in Seq(Sizes) /\ Len(b) \in Nat /\ Len(b) <= MAX_PKT
           /\ \A k \in 1 .. Len(b) : b[k] \in Nat
           /\ b # <<>> => Layout(b)[Len(b)] + b[Len(b)] <= MAX_SIZE
<1>1. b \in UNION {[1 .. n -> Sizes] : n \in 0 .. MAX_PKT}
  BY DEF Batches
<1>2. PICK n \in 0 .. MAX_PKT : b \in [1 .. n -> Sizes]
  BY <1>1
<1>3. n \in Nat /\ n <= MAX_PKT
  BY HyperAssumption
<1>4. b \in Seq(Sizes) /\ Len(b) = n
  BY <1>2, <1>3
<1>5. \A k \in 1 .. Len(b) : b[k] \in Nat
  BY <1>2, <1>4, HyperAssumption
<1>6. b # <<>> => Layout(b)[Len(b)] + b[Len(b)] <= MAX_SIZE
  BY DEF Batches
<1> QED BY <1>3, <1>4, <1>5, <1>6

\* Layout is what its recursive definition says: the first packet is at the
\* beginning of data, and each of the others behind the one before it.
LEMMA LayoutUnfolds ==
    ASSUME NEW b \in Batches
    PROVE  /\ Layout(b) \in [1 .. Len(b) -> Nat]
           /\ b # <<>> => Layout(b)[1] = 0
           /\ \A k \in 1 .. Len(b) - 1 : Layout(b)[k + 1] = Layout(b)[k] + b[k]
<1>1. /\ Len(b) \in Nat /\ b \in Seq(Sizes)
      /\ \A k \in 1 .. Len(b) : b[k] \in Nat
  BY BatchType
<1> DEFINE G == [k \in 1 .. Len(b) |-> [v \in Nat |-> v + b[k]]]
<1>2. 0 \in Nat /\ G \in [1 .. Len(b) -> [Nat -> Nat]]
  BY <1>1
<1>3. \E f : Unfolds(f, Len(b), Nat, 0, G)
  <2> HIDE DEF G
  <2> QED BY <1>1, <1>2, Recursion, Zenon
<1>4. PICK f : Unfolds(f, Len(b), Nat, 0, G)
  BY <1>3
<1>5. /\ f \in [0 .. Len(b) -> Nat] /\ f[0] = 0
      /\ \A k \in 1 .. Len(b) : f[k] = G[k][f[k - 1]]
  BY <1>4 DEF Unfolds
<1>6. \A k \in 1 .. Len(b) : f[k] = f[k - 1] + b[k]
  <2> SUFFICES ASSUME NEW k \in 1 .. Len(b) PROVE f[k] = f[k - 1] + b[k]
    OBVIOUS
  <2>1. k - 1 \in 0 .. Len(b)
    BY <1>1
  <2>2. f[k - 1] \in Nat
    BY <1>5, <2>1
  <2> QED BY <1>5, <2>2
\* f[k] is where packet k ends, so packet k begins at f[k - 1].
<1> DEFINE g == [k \in 1 .. Len(b) |-> f[k - 1]]
<1>7. g = [k \in 1 .. Len(b) |-> IF k = 1 THEN 0 ELSE g[k - 1] + b[k - 1]]
  BY <1>1, <1>5, <1>6
<1>8. \E h : h = [k \in 1 .. Len(b) |->
                    IF k = 1 THEN 0 ELSE h[k - 1] + b[k - 1]]
  BY <1>7
<1>9. Layout(b) = [k \in 1 .. Len(b) |->
                     IF k = 1 THEN 0 ELSE Layout(b)[k - 1] + b[k - 1]]
  BY <1>8, Zenon DEF Layout
<1> HIDE DEF g, G
<1>10. b # <<>> => 1 \in 1 .. Len(b) /\ Layout(b)[1] = 0
  <2>1. b # <<>> => 1 \in 1 .. Len(b)
    BY <1>1
  <2> QED BY <1>9, <2>1
<1>11. \A k \in 1 .. Len(b) - 1 : Layout(b)[k + 1] = Layout(b)[k] + b[k]
  <2> SUFFICES ASSUME NEW k \in 1 .. Len(b) - 1
               PROVE  Layout(b)[k + 1] = Layout(b)[k] + b[k]
    OBVIOUS
  <2>1. k + 1 \in 1 .. Len(b) /\ k + 1 # 1 /\ (k + 1) - 1 = k
    BY <1>1
  <2> QED BY <1>9, <2>1
<1>12. \A k \in 1 .. Len(b) : Layout(b)[k] \in Nat
  <2> DEFINE T == {m \in Nat : m + 1 <= Len(b) => Layout(b)[m + 1] \in Nat}
  <2>1. 0 \in T
    BY <1>1, <1>10
  <2>2. ASSUME NEW m \in T PROVE m + 1 \in T
    <3> SUFFICES ASSUME (m + 1) + 1 <= Len(b)
                 PROVE  Layout(b)[(m + 1) + 1] \in Nat
      OBVIOUS
    <3>1. m + 1 \in 1 .. Len(b) - 1 /\ Layout(b)[m + 1] \in Nat
      BY <1>1
    <3>2. b[m + 1] \in Nat
      BY <1>1, <3>1
    <3> QED BY <1>11, <3>1, <3>2
  <2> HIDE DEF T
  <2>3. T = Nat
    <3>1. T \in SUBSET Nat
      BY DEF T
    <3> QED BY <2>1, <2>2, <3>1, SetInduction
  <2> SUFFICES ASSUME NEW k \in 1 .. Len(b) PROVE Layout(b)[k] \in Nat
    OBVIOUS
  <2>4. k - 1 \in T /\ (k - 1) + 1 = k /\ k <= Len(b)
    BY <1>1, <2>3
  <2> QED BY <2>4 DEF T
<1>13. Layout(b) \in [1 .. Len(b) -> Nat]
  BY <1>9, <1>12
<1> QED BY <1>10, <1>11, <1>13

\* So each packet of a batch lies inside data if the last does.
LEMMA LayoutInside ==
    ASSUME NEW b \in Batches
    PROVE  /\ Layout(b) \in Seq(0 .. MAX_SIZE)
           /\ Len(Layout(b)) = Len(b)
           /\ \A k \in 1 .. Len(b) : Layout(b)[k] + b[k] <= MAX_SIZE
<1>1. /\ Len(b) \in Nat /\ b \in Seq(Sizes)
      /\ \A k \in 1 .. Len(b) : b[k] \in Nat
      /\ b # <<>> => Layout(b)[Len(b)] + b[Len(b)] <= MAX_SIZE
  BY BatchType
<1>2. /\ Layout(b) \in [1 .. Len(b) -> Nat]
      /\ \A k \in 1 .. Len(b) - 1 : Layout(b)[k + 1] = Layout(b)[k] + b[k]
  BY LayoutUnfolds
\* Packet Len(b) - m ends inside data: induction from the last to the first.
<1> DEFINE T == {m \in Nat : m < Len(b) =>
                     Layout(b)[Len(b) - m] + b[Len(b) - m] <= MAX_SIZE}
<1>3. 0 \in T
  BY <1>1
<1>4. ASSUME NEW m \in T PROVE m + 1 \in T
  <2> SUFFICES ASSUME m + 1 < Len(b)
               PROVE  Layout(b)[Len(b) - (m + 1)] + b[Len(b) - (m + 1)]
                          <= MAX_SIZE
    OBVIOUS
  <2> DEFINE k == Len(b) - (m + 1)
  <2>1. k \in 1 .. Len(b) - 1 /\ k + 1 = Len(b) - m /\ k + 1 \in 1 .. Len(b)
    BY <1>1
  <2>2. Layout(b)[k + 1] + b[k + 1] <= MAX_SIZE
    BY <1>1, <2>1
  <2> HIDE DEF k
  <2>3. Layout(b)[k + 1] = Layout(b)[k] + b[k] /\ Layout(b)[k + 1] \in Nat
    BY <1>2, <2>1
  <2>4. b[k + 1] \in Nat
    BY <1>1, <2>1
  <2>5. Layout(b)[k] + b[k] <= MAX_SIZE
    BY <2>2, <2>3, <2>4, HyperAssumption
  <2> QED BY <2>5 DEF k
<1> HIDE DEF T
<1>5. T = Nat
  <2>1. T \in SUBSET Nat
    BY DEF T
  <2> QED BY <1>3, <1>4, <2>1, SetInduction
<1>6. \A k \in 1 .. Len(b) : Layout(b)[k] + b[k] <= MAX_SIZE
  <2> SUFFICES ASSUME NEW k \in 1 .. Len(b)
               PROVE  Layout(b)[k] + b[k] <= MAX_SIZE
    OBVIOUS
  <2>1. Len(b) - k \in T /\ Len(b) - k < Len(b) /\ Len(b) - (Len(b) - k) = k
    BY <1>1, <1>5
  <2> QED BY <2>1 DEF T
<1>7. Layout(b) \in [1 .. Len(b) -> 0 .. MAX_SIZE]
  <2> SUFFICES ASSUME NEW k \in 1 .. Len(b)
               PROVE  Layout(b)[k] \in 0 .. MAX_SIZE
    BY <1>2
  <2> QED BY <1>1, <1>2, <1>6, HyperAssumption
<1>8. Layout(b) \in Seq(0 .. MAX_SIZE) /\ Len(Layout(b)) = Len(b)
  BY <1>1, <1>7, FunctionIsSeq
<1> QED BY <1>6, <1>8

-----------------------------------------------------------------------------
\* The initial states satisfy the invariant.
LEMMA HyperInitInv == HyperInit => HyperInv
<1> SUFFICES ASSUME HyperInit PROVE HyperInv
  OBVIOUS
<1> USE DeviceAssumption, HyperAssumption
<1>1. Held = {} /\ foreign \subseteq persistent /\ present = persistent
  BY DEF HyperInit, DevicesInit, Held
<1>2. disturbed \in BOOLEAN
  BY Zenon DEF HyperInit
<1>3. HyperTypeOK
  BY <1>2 DEF HyperInit, HyperTypeOK, DevicesInit, DevicesTypeOK, Units
<1>4. BatchShape /\ LoopShape /\ WrittenShape
  BY DEF HyperInit, BatchShape, LoopShape, WrittenShape
<1>5. DeviceShape /\ UpShape
  BY <1>1 DEF HyperInit, DeviceShape, UpShape
<1> QED BY <1>3, <1>4, <1>5 DEF HyperInv

\* The end of the process: what it held and is not persistent disappears.
LEMMA HyperDieInv ==
    ASSUME HyperInv, HyperDie
    PROVE  HyperInv'
<1> USE DeviceAssumption, HyperAssumption
<1>1. Held' = {}
  BY DEF HyperDie, ReleaseAll, Held
<1>2. /\ foreign' = foreign /\ persistent' = persistent
      /\ present' = persistent /\ foreign \subseteq persistent
      /\ up' \subseteq present'
  BY DEF HyperInv, HyperTypeOK, DevicesTypeOK, DeviceShape, HyperDie, ReleaseAll
<1>3. disturbed' \in BOOLEAN
  BY Zenon DEF HyperDie
<1>4. DevicesTypeOK'
  BY <1>2 DEF HyperInv, HyperTypeOK, DevicesTypeOK, HyperDie, ReleaseAll
<1>5. HyperTypeOK'
  BY <1>3, <1>4 DEF HyperDie, HyperTypeOK
<1>6. (BatchShape /\ LoopShape /\ WrittenShape)'
  BY DEF HyperDie, BatchShape, LoopShape, WrittenShape
<1>7. (DeviceShape /\ UpShape)'
  BY <1>1, <1>2 DEF HyperDie, DeviceShape, UpShape
<1> QED BY <1>5, <1>6, <1>7 DEF HyperInv

\* Outside the loop: the batch stays what it was, and the step is one of the
\* start, the devices or the socket.
LEMMA OutsideLoop ==
    ASSUME HyperInv, HyperTypeOK', DeviceShape', UpShape', UNCHANGED batch,
           \/ pc' = pc
           \/ pc \notin {"write", "dump"} /\ pc' \notin {"write", "dump"}
           \/ pc = "write" /\ i > Len(sizes) /\ pc' \notin {"write", "dump"}
    PROVE  HyperInv'
<1>1. BatchShape' /\ WrittenShape'
  BY DEF HyperInv, BatchShape, WrittenShape, batch
<1>2. i' \in Nat /\ Len(sizes') \in Nat
  BY HyperAssumption DEF HyperTypeOK
<1>3. LoopShape'
  BY <1>2 DEF HyperInv, LoopShape, batch
<1> QED BY <1>1, <1>3 DEF HyperInv

\* The steps of the start.  openvpn creates tap0 unless it is there, and then
\* it is persistent, because all that is there is.
LEMMA StartInv ==
    ASSUME HyperInv,
           HyperStart \/ HyperMktun \/ HyperLinkUp \/ HyperCommandFails
    PROVE  HyperInv'
<1> USE DeviceAssumption, HyperAssumption
<1>1. UNCHANGED <<batch, tap_fd_num, ulogQueue>>
  BY DEF HyperStart, HyperMktun, HyperLinkUp, HyperCommandFails
<1>2. /\ DevicesTypeOK /\ DevicesTypeOK'
      /\ UNCHANGED <<fds, foreign>>
      /\ persistent \subseteq persistent' /\ up \subseteq up'
      /\ present = persistent => present' = persistent'
  <2>1. DevicesTypeOK
    BY DEF HyperInv, HyperTypeOK
  <2>2. CASE UNCHANGED devices
    BY <2>1, <2>2 DEF DevicesTypeOK, devices
  <2>3. CASE CreateUnit
    BY <2>1, <2>3 DEF DevicesTypeOK, CreateUnit, Units
  <2>4. CASE LinkUp(0)
    BY <2>1, <2>4 DEF DevicesTypeOK, LinkUp
  <2> QED BY <2>2, <2>3, <2>4 DEF HyperStart, HyperMktun, HyperLinkUp,
                                 HyperCommandFails, NoFreeUnit
<1>3. /\ pc \in {"dead", "mktun", "linkup"}
      /\ pc' \in {"mktun", "linkup", "alloc"}
  BY DEF HyperStart, HyperMktun, HyperLinkUp, HyperCommandFails
<1>4. disturbed' \in BOOLEAN
  BY Zenon DEF HyperInv, HyperTypeOK, HyperStart, HyperMktun, HyperLinkUp,
               HyperCommandFails
<1>5. HyperTypeOK'
  BY <1>1, <1>2, <1>3, <1>4 DEF HyperInv, HyperTypeOK, batch
<1>6. DeviceShape'
  BY <1>2, <1>3 DEF HyperInv, DeviceShape, Held
<1>7. UpShape'
  <2> SUFFICES ASSUME ~disturbed', NDev > 0
               PROVE  /\ pc' \in {"linkup", "alloc"} => 0 \in persistent'
                      /\ pc' = "alloc" => 0 \in up'
    BY <1>3 DEF UpShape
  <2>1. ~disturbed /\ ~HyperCommandFails
    <3>1. HyperCommandFails => disturbed'
      BY Zenon DEF HyperCommandFails
    <3>2. HyperStart \/ HyperMktun \/ HyperLinkUp => disturbed' = disturbed
      BY DEF HyperStart, HyperMktun, HyperLinkUp
    <3> QED BY <3>1, <3>2
  <2>2. CASE HyperStart
    BY <2>2 DEF HyperStart
  <2>3. CASE HyperMktun
    <3>1. present = persistent /\ 0 \in Units
      BY <2>3 DEF HyperInv, DeviceShape, HyperMktun, Units
    <3>2. CASE NoFreeUnit
      BY <2>3, <3>1, <3>2 DEF NoFreeUnit, HyperMktun, devices
    <3>3. CASE CreateUnit
      <4>1. PICK n \in Units : LowestFreeUnit(n)
                               /\ persistent' = persistent \cup {n}
        BY <3>3 DEF CreateUnit
      <4>2. 0 \in persistent \/ n = 0
        BY <3>1, <4>1 DEF LowestFreeUnit, Units
      <4> QED BY <2>3, <4>1, <4>2 DEF HyperMktun
    <3> QED BY <2>3, <3>2, <3>3 DEF HyperMktun
  <2>4. CASE HyperLinkUp
    <3>1. 0 \in persistent /\ persistent \subseteq present
      BY <2>1, <2>4 DEF HyperInv, UpShape, HyperLinkUp, HyperTypeOK,
                        DevicesTypeOK
    <3> QED BY <2>4, <3>1 DEF HyperLinkUp, LinkUp
  <2> QED BY <2>1, <2>2, <2>3, <2>4
<1> QED BY <1>1, <1>3, <1>5, <1>6, <1>7, OutsideLoop

\* tun_alloc attaches the one descriptor to tap0.
LEMMA AllocInv ==
    ASSUME HyperInv, HyperAlloc
    PROVE  HyperInv'
<1> USE DeviceAssumption, HyperAssumption
<1>1. PICK d \in Fds : Attach(0, d) /\ tap_fd_num' = d
  BY DEF HyperAlloc
<1>2. /\ pc = "alloc" /\ pc' = "get"
      /\ UNCHANGED <<batch, ulogQueue, persistent, up, foreign>>
      /\ fds' = [fds EXCEPT ![d] = 0]
      /\ present' = present \cup {0}
      /\ fds \in [Fds -> Nat \cup {NoTap}]
  BY <1>1 DEF HyperInv, HyperTypeOK, DevicesTypeOK, HyperAlloc, Attach
<1>3. disturbed' \in BOOLEAN /\ (~disturbed' => ~disturbed)
  BY Zenon DEF HyperInv, HyperTypeOK, HyperAlloc
<1>4. HyperTypeOK'
  <2>1. DevicesTypeOK'
    BY <1>2 DEF HyperInv, HyperTypeOK, DevicesTypeOK
  <2> QED BY <1>1, <1>2, <1>3, <2>1 DEF HyperInv, HyperTypeOK, batch
<1>5. DeviceShape'
  <2>1. /\ Held = {} /\ present = persistent /\ foreign \subseteq persistent
    BY <1>2 DEF HyperInv, DeviceShape
  <2>2. \A e \in Fds : fds[e] = NoTap
    BY <2>1 DEF Held
  <2>3. \A e \in Fds : fds'[e] = IF e = d THEN 0 ELSE NoTap
    BY <1>2, <2>2
  <2>4. Held' = {0}
    BY <2>3 DEF Held
  <2> QED BY <1>1, <1>2, <2>1, <2>3, <2>4 DEF DeviceShape
<1>6. UpShape'
  BY <1>2, <1>3 DEF HyperInv, UpShape
<1> QED BY <1>2, <1>4, <1>5, <1>6, OutsideLoop

\* The hypervisor delivers a batch.
LEMMA GetPacketsInv ==
    ASSUME HyperInv, NEW b \in Batches, GetPackets(b)
    PROVE  HyperInv'
<1> USE HyperAssumption
<1>1. /\ pc = "get" /\ pc' = "write"
      /\ sizes' = b /\ start' = Layout(b) /\ i' = 1 /\ msg' = 0
      /\ written' = <<>>
      /\ UNCHANGED <<tap_fd_num, ulogQueue, devices>>
  BY DEF GetPackets
<1>2. disturbed' \in BOOLEAN /\ (~disturbed' => ~disturbed)
  BY Zenon DEF HyperInv, HyperTypeOK, GetPackets
<1>3. /\ Layout(b) \in Seq(0 .. MAX_SIZE)
      /\ Len(Layout(b)) = Len(b)
      /\ \A k \in 1 .. Len(b) : Layout(b)[k] + b[k] <= MAX_SIZE
      /\ \A k \in 1 .. Len(b) - 1 : Layout(b)[k + 1] = Layout(b)[k] + b[k]
      /\ b # <<>> => Layout(b)[1] = 0
      /\ b \in Seq(Sizes) /\ Len(b) \in Nat /\ Len(b) <= MAX_PKT
  BY BatchType, LayoutUnfolds, LayoutInside
<1>4. HyperTypeOK'
  <2>1. written' \in Seq([tap : Nat, at : 0 .. MAX_SIZE, len : Sizes])
    BY <1>1
  <2> QED BY <1>1, <1>2, <1>3, <2>1
          DEF HyperInv, HyperTypeOK, DevicesTypeOK, devices
<1>5. BatchShape'
  BY <1>1, <1>3 DEF BatchShape
<1>6. LoopShape' /\ WrittenShape'
  BY <1>1, <1>3 DEF LoopShape, WrittenShape
<1>7. DeviceShape' /\ UpShape'
  BY <1>1, <1>2 DEF HyperInv, DeviceShape, UpShape, Held, devices
<1> QED BY <1>4, <1>5, <1>6, <1>7 DEF HyperInv

\* A packet is written from where the hypervisor has put it.
LEMMA WritePacketInv ==
    ASSUME HyperInv, WritePacket
    PROVE  HyperInv'
<1> USE HyperAssumption
<1> DEFINE w == [tap |-> fds[tap_fd_num], at |-> msg, len |-> sizes[i]]
<1>1. /\ pc = "write" /\ pc' = "dump" /\ i <= Len(sizes)
      /\ written' = Append(written, w)
      /\ UNCHANGED <<tap_fd_num, sizes, start, i, msg, ulogQueue, devices>>
  BY DEF WritePacket
<1>2. disturbed' \in BOOLEAN /\ (~disturbed' => ~disturbed)
  BY Zenon DEF HyperInv, HyperTypeOK, WritePacket
<1>3. /\ i \in 1 .. Len(sizes) /\ i \in Nat /\ Len(sizes) \in Nat
      /\ sizes[i] \in Sizes /\ msg \in 0 .. MAX_SIZE
      /\ written \in Seq([tap : Nat, at : 0 .. MAX_SIZE, len : Sizes])
  BY <1>1 DEF HyperInv, HyperTypeOK, LoopShape
<1>4. w = [tap |-> 0, at |-> start[i], len |-> sizes[i]]
  BY <1>1, <1>3 DEF HyperInv, DeviceShape, LoopShape
<1>5. w \in [tap : Nat, at : 0 .. MAX_SIZE, len : Sizes]
  <2>1. fds[tap_fd_num] = 0
    BY <1>1 DEF HyperInv, DeviceShape
  <2> QED BY <1>3, <2>1
<1> HIDE DEF w
<1>6. /\ written' \in Seq([tap : Nat, at : 0 .. MAX_SIZE, len : Sizes])
      /\ Len(written') = Len(written) + 1
      /\ \A k \in 1 .. Len(written) : written'[k] = written[k]
      /\ written'[Len(written) + 1] = w
      /\ \A k \in 1 .. Len(written') :
            k \in 1 .. Len(written) \/ k = Len(written) + 1
  BY <1>1, <1>3, <1>5, Appending
<1>7. Len(written) = i - 1 /\ Len(written') = i
  BY <1>1, <1>3, <1>6 DEF HyperInv, WrittenShape
<1>8. HyperTypeOK'
  BY <1>1, <1>2, <1>6 DEF HyperInv, HyperTypeOK, DevicesTypeOK, devices
<1>9. BatchShape' /\ LoopShape'
  BY <1>1, <1>3 DEF HyperInv, BatchShape, LoopShape
<1>10. WrittenShape'
  <2>1. \A k \in 1 .. Len(written') :
           written'[k] = [tap |-> 0, at |-> start[k], len |-> sizes[k]]
    <3> SUFFICES ASSUME NEW k \in 1 .. Len(written')
                 PROVE  written'[k] = [tap |-> 0, at |-> start[k],
                                       len |-> sizes[k]]
      OBVIOUS
    <3>1. CASE k \in 1 .. Len(written)
      BY <1>6, <3>1 DEF HyperInv, WrittenShape
    <3>2. CASE k = i
      BY <1>3, <1>4, <1>6, <1>7, <3>2
    <3> QED BY <1>3, <1>6, <1>7, <3>1, <3>2
  <2> QED BY <1>1, <1>7, <2>1 DEF WrittenShape
<1>11. DeviceShape' /\ UpShape'
  BY <1>1, <1>2 DEF HyperInv, DeviceShape, UpShape, Held, devices
<1> QED BY <1>8, <1>9, <1>10, <1>11 DEF HyperInv

\* msg moves to where the next packet is, or behind the last.
LEMMA DumpHeaderInv ==
    ASSUME HyperInv, DumpHeader
    PROVE  HyperInv'
<1> USE HyperAssumption
<1>1. /\ pc = "dump" /\ pc' = "write"
      /\ msg' = msg + sizes[i] /\ i' = i + 1
      /\ UNCHANGED <<tap_fd_num, sizes, start, written, ulogQueue, devices>>
  BY DEF DumpHeader
<1>2. disturbed' \in BOOLEAN /\ (~disturbed' => ~disturbed)
  BY Zenon DEF HyperInv, HyperTypeOK, DumpHeader
<1>3. /\ i \in 1 .. Len(sizes) /\ i \in Nat /\ Len(sizes) \in Nat
      /\ sizes[i] \in Sizes /\ msg \in 0 .. MAX_SIZE
  BY <1>1 DEF HyperInv, HyperTypeOK, LoopShape
<1>4. sizes[i] \in Nat
  BY <1>3
<1>5. msg = start[i] /\ start[i] + sizes[i] <= MAX_SIZE
  BY <1>1, <1>3 DEF HyperInv, LoopShape, BatchShape
<1>6. msg' \in 0 .. MAX_SIZE
  BY <1>1, <1>3, <1>4, <1>5
<1>7. i' \in 1 .. MAX_PKT + 1
  BY <1>1, <1>3 DEF HyperInv, BatchShape
<1>8. HyperTypeOK'
  BY <1>1, <1>2, <1>6, <1>7 DEF HyperInv, HyperTypeOK, DevicesTypeOK, devices
<1>9. BatchShape'
  BY <1>1 DEF HyperInv, BatchShape
<1>10. LoopShape'
  <2>1. i + 1 <= Len(sizes) => start[i + 1] = start[i] + sizes[i]
    BY <1>3 DEF HyperInv, BatchShape
  <2> QED BY <1>1, <1>3, <1>5, <2>1 DEF LoopShape
<1>11. WrittenShape'
  BY <1>1, <1>3 DEF HyperInv, WrittenShape
<1>12. DeviceShape' /\ UpShape'
  BY <1>1, <1>2 DEF HyperInv, DeviceShape, UpShape, Held, devices
<1> QED BY <1>8, <1>9, <1>10, <1>11, <1>12 DEF HyperInv

\* The end of the loop, the socket, and the other users of the taps.
LEMMA OthersInv ==
    ASSUME HyperInv,
           \/ BatchDone
           \/ UlogDatagram
           \/ HyperForeign
           \/ UNCHANGED hyperVars
    PROVE  HyperInv'
<1> USE DeviceAssumption, HyperAssumption
<1>1. /\ UNCHANGED <<batch, tap_fd_num, fds>>
      /\ ulogQueue' \in 0 .. SockRoom
      /\ \/ pc' = pc
         \/ pc = "write" /\ i > Len(sizes) /\ pc' = "get"
  BY DEF HyperInv, HyperTypeOK, BatchDone, UlogDatagram, HyperForeign, main,
         hyperVars, devices, ForeignAttach, ForeignDetach, ForeignRmtun,
         CreateUnit
<1>2. /\ DevicesTypeOK'
      /\ foreign \subseteq persistent => foreign' \subseteq persistent'
      /\ present = persistent => present' = persistent'
      /\ Held = {0} /\ present = persistent \cup {0} =>
            present' = persistent' \cup {0}
  <2>1. CASE UNCHANGED devices
    BY <2>1 DEF HyperInv, HyperTypeOK, DevicesTypeOK, devices
  <2>2. CASE \E n \in persistent : ForeignAttach(n)
    BY <2>2 DEF HyperInv, HyperTypeOK, DevicesTypeOK, ForeignAttach
  <2>3. CASE \E n \in foreign : ForeignDetach(n)
    BY <2>3 DEF HyperInv, HyperTypeOK, DevicesTypeOK, ForeignDetach
  <2>4. CASE CreateUnit
    BY <2>4 DEF HyperInv, HyperTypeOK, DevicesTypeOK, CreateUnit, Units
  <2>5. CASE \E n \in persistent : ForeignRmtun(n)
    BY <2>5 DEF HyperInv, HyperTypeOK, DevicesTypeOK, ForeignRmtun
  <2> QED BY <2>1, <2>2, <2>3, <2>4, <2>5
          DEF BatchDone, UlogDatagram, HyperForeign, hyperVars
<1>3. \/ disturbed' = disturbed
      \/ \E n \in persistent :
            disturbed' = (disturbed \/ (n = 0 /\ pc \in {"linkup", "alloc"}))
  BY Zenon DEF BatchDone, UlogDatagram, HyperForeign, main, hyperVars
<1>7. disturbed' \in BOOLEAN /\ (~disturbed' => ~disturbed)
  BY <1>3, Zenon DEF HyperInv, HyperTypeOK
<1>4. HyperTypeOK'
  BY <1>1, <1>2, <1>7 DEF HyperInv, HyperTypeOK, batch
<1>5. DeviceShape'
  BY <1>1, <1>2 DEF HyperInv, DeviceShape, Held
\* tap0 stays from openvpn to tun_alloc, as the run is not disturbed, and from
\* there on because it is held.
<1>8. ~disturbed' /\ pc \in {"linkup", "alloc", "get", "write", "dump"} =>
         /\ 0 \in persistent => 0 \in persistent'
         /\ 0 \in up => 0 \in up'
  <2>1. CASE UNCHANGED devices
    BY <2>1 DEF devices
  <2>2. CASE (\E n \in persistent : ForeignAttach(n))
             \/ (\E n \in foreign : ForeignDetach(n)) \/ CreateUnit
    BY <2>2 DEF ForeignAttach, ForeignDetach, CreateUnit
  <2>3. ASSUME NEW n \in persistent, ForeignRmtun(n),
               disturbed' =
                  (disturbed \/ (n = 0 /\ pc \in {"linkup", "alloc"})),
               ~disturbed', pc \in {"linkup", "alloc", "get", "write", "dump"}
        PROVE  n # 0
    <3>1. CASE pc \in {"linkup", "alloc"}
      BY <2>3, <3>1, Zenon
    <3>2. CASE pc \in {"get", "write", "dump"}
      BY <2>3, <3>2 DEF HyperInv, DeviceShape, ForeignRmtun
    <3> QED BY <2>3, <3>1, <3>2, Zenon
  <2>4. CASE \E n \in persistent :
                /\ ForeignRmtun(n)
                /\ disturbed' =
                      (disturbed \/ (n = 0 /\ pc \in {"linkup", "alloc"}))
    <3> SUFFICES ASSUME ~disturbed',
                        pc \in {"linkup", "alloc", "get", "write", "dump"}
                 PROVE  /\ 0 \in persistent => 0 \in persistent'
                        /\ 0 \in up => 0 \in up'
      OBVIOUS
    <3>1. \E n \in persistent : ForeignRmtun(n) /\ n # 0
      BY <2>3, <2>4, Zenon
    <3> QED BY <3>1 DEF ForeignRmtun
  <2> QED BY <2>1, <2>2, <2>4
          DEF BatchDone, UlogDatagram, HyperForeign, hyperVars
<1>6. UpShape'
  BY <1>1, <1>7, <1>8 DEF HyperInv, UpShape
<1> QED BY <1>1, <1>4, <1>5, <1>6, OutsideLoop

-----------------------------------------------------------------------------
\* Batch, loop and device agree at every moment.
THEOREM HyperInvariance == HyperSpec => []HyperInv
<1>1. HyperInit => HyperInv
  BY HyperInitInv
<1>2. HyperInv /\ [HyperNext]_hyperVars => HyperInv'
  <2> SUFFICES ASSUME HyperInv, [HyperNext]_hyperVars
               PROVE  HyperInv'
    OBVIOUS
  <2>1. CASE HyperStart \/ HyperMktun \/ HyperLinkUp \/ HyperCommandFails
    BY <2>1, StartInv
  <2>2. CASE HyperAlloc
    BY <2>2, AllocInv
  <2>3. CASE HyperAllocError \/ HyperKilled
    BY <2>3, HyperDieInv DEF HyperAllocError, HyperKilled
  <2>4. CASE \E b \in Batches : GetPackets(b)
    BY <2>4, GetPacketsInv
  <2>5. CASE WritePacket
    BY <2>5, WritePacketInv
  <2>6. CASE DumpHeader
    BY <2>6, DumpHeaderInv
  <2>7. CASE BatchDone \/ UlogDatagram \/ HyperForeign \/ UNCHANGED hyperVars
    BY <2>7, OthersInv
  <2> QED BY <2>1, <2>2, <2>3, <2>4, <2>5, <2>6, <2>7 DEF HyperNext, HyperStep
<1> QED BY <1>1, <1>2, PTL DEF HyperSpec

\* The variables keep their types: i stays in the array sizes or just behind
\* it, msg in data or just behind it.
THEOREM HyperTypes == HyperSpec => []HyperTypeOK
<1>1. HyperInv => HyperTypeOK
  BY DEF HyperInv
<1> QED BY <1>1, HyperInvariance, PTL

\* What is written is the packets of the batch, in order and entire, all of
\* them to tap0.
THEOREM HyperPacketsWritten == HyperSpec => []PacketsWritten
<1>1. HyperInv => PacketsWritten
  BY HyperAssumption
     DEF HyperInv, HyperTypeOK, WrittenShape, LoopShape, PacketsWritten
<1> QED BY <1>1, HyperInvariance, PTL

\* The fifteen bytes printed of a packet lie outside data only where the packet
\* itself ends before them, and by no more than it lacks: whatever its size,
\* each packet lies in data entire, and msg is where it begins.
THEOREM HyperDumpOverrun == HyperSpec => []DumpOverrun
<1>1. HyperInv => DumpOverrun
  <2> SUFFICES ASSUME HyperInv, pc = "dump", msg + 15 > MAX_SIZE
               PROVE  /\ sizes[i] < 15
                      /\ msg + 15 - MAX_SIZE <= 15 - sizes[i]
    BY DEF DumpOverrun
  <2>1. i \in 1 .. Len(sizes) /\ sizes[i] \in Sizes
    BY HyperAssumption DEF HyperInv, HyperTypeOK, LoopShape
  <2>2. msg = start[i] /\ start[i] + sizes[i] <= MAX_SIZE
    BY <2>1, HyperAssumption DEF HyperInv, LoopShape, BatchShape
  <2>3. sizes[i] \in Nat
    BY <2>1, HyperAssumption
  <2>4. msg \in Nat
    BY DEF HyperInv, HyperTypeOK
  <2> QED BY <2>2, <2>3, <2>4, HyperAssumption
<1> QED BY <1>1, HyperInvariance, PTL

\* tap0 is up and persistent once main has it, whatever other processes attach,
\* create and remove, unless a command of the run failed or tap0 was removed
\* between openvpn and tun_alloc.
THEOREM HyperTap0Up == HyperSpec => []Tap0Up
<1>1. HyperInv => Tap0Up
  BY DEF HyperInv, UpShape, Tap0Up
<1> QED BY <1>1, HyperInvariance, PTL
=============================================================================
