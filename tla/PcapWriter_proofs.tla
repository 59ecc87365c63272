-------------------------- MODULE PcapWriter_proofs --------------------------
(***************************************************************************)
(* Proofs about PcapWriter, for any frames on br0, any stations compiled   *)
(* in, any order of the programs, and writes that are refused at will.     *)
(***************************************************************************)
EXTENDS PcapWriter, Arithmetic_proofs

\* The writes the callback makes of its frame, done or not.
Writes == IF packet \in PcapFrames THEN Callback(packet) ELSE <<>>

\* A program with a tap has it while it captures; nobody else is attached.
TapShape ==
    /\ Held \cap foreign = {}
    /\ tap_fd \in Fds => fds[tap_fd] \in Nat
    /\ pc \in {"open", "loop", "callback"} /\ MainOf[program].tap =>
          tap_fd \in Fds

\* Only a program that captures has a frame.
CaptureShape ==
    /\ pc \in {"loop", "callback"} => program # "v4"
    /\ pc = "callback" => packet \in PcapFrames
    /\ pc \notin {"loop", "callback"} =>
          packet = NoFrame /\ todo = <<>> /\ written = <<>>
    /\ pc = "loop" => todo = <<>>

\* The writes done and those to do are those the callback makes.
WriteShape ==
    /\ Len(written) + Len(todo) = Len(Writes)
    /\ \A k \in 1 .. Len(todo) : todo[k] = Writes[Len(written) + k]

\* Write k and what it returned, which is the count of the next one if that
\* writes what was written.
ResultShape ==
    \A k \in 1 .. Len(written) :
        /\ written[k].tap = fds[tap_fd]
        /\ written[k].count = IF Writes[k] = "ip_len"
                              THEN IpLenCount(packet.tot_len)
                              ELSE written[k - 1].ret
        /\ written[k].ret \in {written[k].count, -1}
        /\ written[k].ret # -1 => Taken(written[k].count)

PcapInv ==
    /\ PcapTypeOK
    /\ TapShape
    /\ CaptureShape
    /\ WriteShape
    /\ ResultShape

-----------------------------------------------------------------------------
\* The three kinds of callback.
LEMMA WritesAre ==
    ASSUME program \in Programs, program # "v4" \/ packet \notin PcapFrames
    PROVE  /\ Writes \in Seq({"ip_len", "written"})
           /\ Len(Writes) \in 0 .. 3
           /\ \A k \in 1 .. Len(Writes) :
                 Writes[k] = IF k < 3 THEN "ip_len" ELSE "written"
           /\ Len(Writes) > 0 => MainOf[program].tap
<1> USE DEF Writes, Callback, pcap_test_start_pktfunc, v1_start_pktfunc,
            v2_start_pktfunc, v3_start_pktfunc, Passes
<1>1. CASE packet \notin PcapFrames \/ program \in {"pcap_test", "v1"}
  BY <1>1
<1>2. CASE packet \in PcapFrames /\ program = "v2"
  <2>1. MainOf[program].tap
    BY <1>2 DEF MainOf, Main, v2_main
  <2>2. CASE packet.dst = StationC1
    <3>1. Writes = <<"ip_len", "ip_len", "written">>
      BY <1>2, <2>2
    <3> HIDE DEF Writes
    <3>2. Len(Writes) = 3 /\ Writes \in Seq({"ip_len", "written"})
          /\ \A k \in 1 .. 3 : Writes[k] = IF k < 3 THEN "ip_len" ELSE "written"
      BY <3>1
    <3> QED BY <1>2, <2>1, <2>2, <3>2
  <2>3. CASE packet.dst # StationC1
    BY <1>2, <2>1, <2>3
  <2> QED BY <2>2, <2>3
<1>3. CASE packet \in PcapFrames /\ program = "v3"
  <2>1. MainOf[program].tap
    BY <1>3 DEF MainOf, Main, v3_main
  <2>2. CASE packet.dst = Station00
    <3>1. Writes = <<"ip_len">>
      BY <1>3, <2>2
    <3> HIDE DEF Writes
    <3>2. Len(Writes) = 1 /\ Writes \in Seq({"ip_len", "written"})
          /\ \A k \in 1 .. 1 : Writes[k] = IF k < 3 THEN "ip_len" ELSE "written"
      BY <3>1
    <3> QED BY <1>3, <2>1, <2>2, <3>2
  <2>3. CASE packet.dst # Station00
    BY <1>3, <2>1, <2>3
  <2> QED BY <2>2, <2>3
<1> QED BY <1>1, <1>2, <1>3 DEF Programs

\* What the callback is going to do does not change while it runs.
LEMMA SameWrites ==
    ASSUME UNCHANGED <<program, packet>>
    PROVE  Writes' = Writes
BY DEF Writes, Callback, pcap_test_start_pktfunc, v1_start_pktfunc,
       v2_start_pktfunc, v3_start_pktfunc, Passes

LEMMA CallbackType ==
    ASSUME program \in Programs, program # "v4", NEW f \in PcapFrames
    PROVE  Callback(f) \in Seq({"ip_len", "written"})
<1>1. <<>> \in Seq({"ip_len", "written"})
  OBVIOUS
<1>2. <<"ip_len">> \in Seq({"ip_len", "written"})
  OBVIOUS
<1>3. <<"ip_len", "ip_len", "written">> \in Seq({"ip_len", "written"})
  OBVIOUS
<1>4. \/ Callback(f) = <<>>
      \/ Callback(f) = <<"ip_len">>
      \/ Callback(f) = <<"ip_len", "ip_len", "written">>
  BY DEF Callback, Programs, pcap_test_start_pktfunc, v1_start_pktfunc,
         v2_start_pktfunc, v3_start_pktfunc
<1> QED BY <1>1, <1>2, <1>3, <1>4

LEMMA PcapInitInv == PcapInit => PcapInv
<1> SUFFICES ASSUME PcapInit PROVE PcapInv
  OBVIOUS
<1> USE DeviceAssumption, PcapAssumption
<1>1. PcapTypeOK
  BY DEF PcapInit, PcapTypeOK, DevicesInit, DevicesTypeOK, Units
<1>2. TapShape
  BY DEF PcapInit, DevicesInit, TapShape, Held, Fds
<1>3. CaptureShape /\ WriteShape /\ ResultShape
  BY DEF PcapInit, CaptureShape, WriteShape, ResultShape, Writes
<1> QED BY <1>1, <1>2, <1>3 DEF PcapInv

\* The end of a program: what it held is released.
LEMMA PcapDieInv ==
    ASSUME PcapInv, PcapDie
    PROVE  PcapInv'
<1> USE DeviceAssumption, PcapAssumption
<1>1. DevicesTypeOK'
  BY DEF PcapInv, PcapTypeOK, TapShape, PcapDie, ReleaseAll, DevicesTypeOK,
         Held
<1>2. PcapTypeOK'
  BY <1>1 DEF PcapInv, PcapTypeOK, PcapDie
<1>3. TapShape'
  BY DEF PcapDie, ReleaseAll, TapShape, Held, Fds
<1>4. (CaptureShape /\ WriteShape /\ ResultShape)'
  BY DEF PcapDie, CaptureShape, WriteShape, ResultShape, Writes
<1> QED BY <1>2, <1>3, <1>4 DEF PcapInv

\* A program starts, or opens br0: it has no frame yet.
LEMMA StartInv ==
    ASSUME PcapInv, (\E prog \in Programs : Run(prog)) \/ OpenCapture
    PROVE  PcapInv'
<1> USE DeviceAssumption, PcapAssumption
<1>1. /\ pc \in {"dead", "open"} /\ packet = NoFrame
      /\ UNCHANGED <<tap_fd, packet, todo, written, setup, devices>>
      /\ program' \in Programs /\ pc' \in {"alloc", "open", "loop"}
  BY DEF PcapInv, PcapTypeOK, Run, OpenCapture, CaptureShape
<1>2. PcapTypeOK'
  BY <1>1 DEF PcapInv, PcapTypeOK, devices, DevicesTypeOK
<1>3. TapShape'
  BY <1>1 DEF PcapInv, TapShape, devices, Held, Run, OpenCapture
<1>4. CaptureShape'
  BY <1>1 DEF PcapInv, CaptureShape, Run, OpenCapture, MainOf, Main, v4_main,
              PcapTypeOK, Programs
<1>5. todo = <<>> /\ written = <<>>
  BY <1>1 DEF PcapInv, CaptureShape
<1>6. (WriteShape /\ ResultShape)'
  BY <1>1, <1>5 DEF WriteShape, ResultShape, Writes
<1> QED BY <1>2, <1>3, <1>4, <1>6 DEF PcapInv

\* tun_alloc succeeds.
LEMMA OpenTapInv ==
    ASSUME PcapInv, OpenTap
    PROVE  PcapInv'
<1> USE DeviceAssumption, PcapAssumption
<1>1. PICK n \in Units, d \in Fds : Attach(n, d) /\ tap_fd' = d
  BY DEF OpenTap
<1>2. /\ pc = "alloc" /\ pc' = "open" /\ packet = NoFrame
      /\ UNCHANGED <<program, packet, todo, written, setup>>
      /\ todo = <<>> /\ written = <<>>
  BY DEF OpenTap, PcapInv, CaptureShape
<1>3. /\ n \in Nat /\ n \notin foreign
      /\ fds' = [fds EXCEPT ![d] = n]
      /\ present' = present \cup {n}
      /\ UNCHANGED <<persistent, up, foreign>>
  BY <1>1 DEF Attach, AllocRefused, Units
<1>4. fds \in [Fds -> Nat \cup {NoTap}] /\ fds' \in [Fds -> Nat \cup {NoTap}]
      /\ fds'[d] = n
  BY <1>3 DEF PcapInv, PcapTypeOK, DevicesTypeOK
<1>5. PcapTypeOK'
  <2>1. DevicesTypeOK'
    BY <1>3, <1>4 DEF PcapInv, PcapTypeOK, DevicesTypeOK
  <2> QED BY <1>1, <1>2, <2>1 DEF PcapInv, PcapTypeOK
<1>6. TapShape'
  <2>1. Held' \subseteq Held \cup {n}
    BY <1>3, <1>4 DEF Held
  <2> QED BY <1>1, <1>3, <1>4, <2>1 DEF PcapInv, TapShape
<1>7. (CaptureShape /\ WriteShape /\ ResultShape)'
  BY <1>2 DEF CaptureShape, WriteShape, ResultShape, Writes
<1> QED BY <1>5, <1>6, <1>7 DEF PcapInv

\* The commands of cmd_test: devices are added or brought up.
LEMMA CmdTestInv ==
    ASSUME PcapInv, CmdTest
    PROVE  PcapInv'
<1> USE DeviceAssumption, PcapAssumption
<1>1. UNCHANGED <<program, pc, tap_fd, packet, todo, written, foreign, fds>>
      /\ setup' \in {"linkup", "done"}
  BY DEF CmdTest, pcap, CreateUnit, NoFreeUnit, LinkUp, devices
<1>2. DevicesTypeOK'
  <2>1. CASE CreateUnit
    BY <2>1 DEF CreateUnit, Units, PcapInv, PcapTypeOK, DevicesTypeOK
  <2>2. CASE NoFreeUnit \/ LinkUp(0)
    BY <2>2 DEF NoFreeUnit, LinkUp, devices, PcapInv, PcapTypeOK, DevicesTypeOK
  <2> QED BY <2>1, <2>2 DEF CmdTest
<1>3. PcapTypeOK'
  BY <1>1, <1>2 DEF PcapInv, PcapTypeOK
<1>4. TapShape' /\ CaptureShape'
  BY <1>1 DEF PcapInv, TapShape, CaptureShape, Held
<1>5. Writes' = Writes
  BY <1>1, SameWrites
<1>6. WriteShape' /\ ResultShape'
  BY <1>1, <1>5 DEF PcapInv, WriteShape, ResultShape
<1> QED BY <1>3, <1>4, <1>6 DEF PcapInv

\* pcap_loop hands over the next frame.
LEMMA CapturedInv ==
    ASSUME PcapInv, NEW f \in PcapFrames, Captured(f)
    PROVE  PcapInv'
<1> USE DeviceAssumption, PcapAssumption
<1>1. /\ pc = "loop" /\ pc' = "callback" /\ packet' = f /\ written' = <<>>
      /\ UNCHANGED <<program, tap_fd, setup, devices>>
      /\ program \in Programs /\ program # "v4"
  BY DEF Captured, PcapInv, PcapTypeOK, CaptureShape
<1>2. todo' = Callback(f)
  BY DEF Captured
<1>3. Writes' = todo' /\ todo' \in Seq({"ip_len", "written"})
  <2>1. Writes' = Callback(f)
    BY <1>1 DEF Writes, Callback, Passes, pcap_test_start_pktfunc,
                v1_start_pktfunc, v2_start_pktfunc, v3_start_pktfunc
  <2> QED BY <1>1, <1>2, <2>1, CallbackType
<1>4. PcapTypeOK'
  BY <1>1, <1>3 DEF PcapInv, PcapTypeOK, devices, DevicesTypeOK
<1>5. TapShape' /\ CaptureShape'
  BY <1>1 DEF PcapInv, TapShape, CaptureShape, devices, Held
<1>6. WriteShape' /\ ResultShape'
  BY <1>1, <1>3 DEF WriteShape, ResultShape
<1> QED BY <1>4, <1>5, <1>6 DEF PcapInv

\* A write, taken or refused.
LEMMA WriteCopyInv ==
    ASSUME PcapInv, WriteCopy
    PROVE  PcapInv'
<1> USE DeviceAssumption, PcapAssumption
<1> DEFINE d == Len(written) + 1
<1>1. /\ pc = "callback" /\ todo # <<>> /\ todo' = Tail(todo)
      /\ UNCHANGED <<program, pc, tap_fd, packet, setup, devices>>
      /\ packet \in PcapFrames /\ program \in Programs /\ program # "v4"
      /\ todo \in Seq({"ip_len", "written"})
  BY DEF WriteCopy, PcapInv, PcapTypeOK, CaptureShape
<1>2. PICK ret \in {Count, -1} :
          /\ ret # -1 => Taken(Count)
          /\ written' = Append(written, [tap |-> fds[tap_fd], count |-> Count,
                                         ret |-> ret])
  BY DEF WriteCopy
<1>3. /\ Len(written) \in Nat /\ Len(todo) \in Nat
      /\ Len(todo') = Len(todo) - 1 /\ Len(todo) > 0
      /\ todo' \in Seq({"ip_len", "written"})
      /\ Head(todo) = todo[1]
      /\ \A k \in 1 .. Len(todo') : todo'[k] = todo[k + 1]
  BY <1>1 DEF PcapInv, PcapTypeOK
<1>4. /\ Head(todo) = Writes[d] /\ d \in 1 .. Len(Writes)
      /\ Writes' = Writes
  <2>1. 1 \in 1 .. Len(todo)
    BY <1>3
  <2>2. Head(todo) = Writes[d] /\ d \in 1 .. Len(Writes)
    BY <1>3, <2>1 DEF PcapInv, WriteShape
  <2> QED BY <1>1, <2>2, SameWrites
<1>5. /\ Writes[d] = IF d < 3 THEN "ip_len" ELSE "written"
      /\ MainOf[program].tap
  BY <1>1, <1>3, <1>4, WritesAre
<1>6. tap_fd \in Fds /\ fds[tap_fd] \in Nat
  BY <1>1, <1>5 DEF PcapInv, TapShape
<1>7. Count \in Word \cup {-1}
  <2>1. IpLenCount(packet.tot_len) \in Word
    BY <1>1, SwapWord DEF IpLenCount
  <2>2. CASE Head(todo) = "ip_len"
    BY <2>1, <2>2 DEF Count
  <2>3. CASE Head(todo) # "ip_len"
    <3>1. Len(written) \in 1 .. Len(written)
      BY <1>3, <1>4, <1>5, <2>3
    <3> DEFINE Result == [tap : Nat, count : Word \cup {-1},
                          ret : Word \cup {-1}]
    <3>2. written \in Seq(Result)
      BY DEF PcapInv, PcapTypeOK
    <3>3. \A r \in Result : r.ret \in Word \cup {-1}
      OBVIOUS
    <3> HIDE DEF Result
    <3>4. written[Len(written)] \in Result
      BY <3>1, <3>2
    <3> QED BY <2>3, <3>3, <3>4 DEF Count
  <2> QED BY <2>2, <2>3
<1>8. /\ Len(written') = d
      /\ \A k \in 1 .. Len(written) : written'[k] = written[k]
      /\ written'[d] = [tap |-> fds[tap_fd], count |-> Count, ret |-> ret]
      /\ written' \in Seq([tap : Nat, count : Word \cup {-1},
                           ret : Word \cup {-1}])
  BY <1>2, <1>6, <1>7 DEF PcapInv, PcapTypeOK
<1>9. PcapTypeOK'
  BY <1>1, <1>3, <1>8 DEF PcapInv, PcapTypeOK, devices, DevicesTypeOK
<1>10. TapShape' /\ CaptureShape'
  BY <1>1 DEF PcapInv, TapShape, CaptureShape, devices, Held
<1>11. WriteShape'
  <2>1. \A k \in 1 .. Len(todo') : k + 1 \in 1 .. Len(todo)
    BY <1>3
  <2>2. \A k \in 1 .. Len(todo') : Len(written) + (k + 1) = Len(written') + k
    BY <1>3, <1>8
  <2>3. Len(written) + Len(todo) = Len(Writes)
    BY DEF PcapInv, WriteShape
  <2>4. Len(written') + Len(todo') = Len(written) + Len(todo)
    BY <1>3, <1>8
  <2> QED BY <1>3, <1>4, <2>1, <2>2, <2>3, <2>4 DEF PcapInv, WriteShape
<1>12. ASSUME NEW k \in 1 .. Len(written')
       PROVE  /\ written'[k].tap = fds[tap_fd]
              /\ written'[k].count = IF Writes[k] = "ip_len"
                                     THEN IpLenCount(packet.tot_len)
                                     ELSE written'[k - 1].ret
              /\ written'[k].ret \in {written'[k].count, -1}
              /\ written'[k].ret # -1 => Taken(written'[k].count)
  <2>1. CASE k \in 1 .. Len(written)
    <3>1. Writes[k] # "ip_len" => k - 1 \in 1 .. Len(written)
      <4>1. k \in 1 .. Len(Writes)
        BY <1>3, <1>4, <2>1 DEF PcapInv, WriteShape
      <4>2. Writes[k] = IF k < 3 THEN "ip_len" ELSE "written"
        BY <1>1, <4>1, WritesAre
      <4> QED BY <1>3, <2>1, <4>2
    <3>2. Writes[k] # "ip_len" => written'[k - 1] = written[k - 1]
      BY <1>8, <3>1
    <3> QED BY <1>8, <2>1, <3>2 DEF PcapInv, ResultShape
  <2>2. CASE k = d
    <3>1. Writes[d] # "ip_len" => Len(written) \in 1 .. Len(written)
      BY <1>3, <1>5
    <3>2. Writes[d] # "ip_len" => written'[d - 1] = written[Len(written)]
      BY <1>3, <1>8, <3>1
    <3>3. Count = IF Writes[d] = "ip_len" THEN IpLenCount(packet.tot_len)
                  ELSE written'[d - 1].ret
      BY <1>4, <3>2 DEF Count
    <3>4. /\ written'[d].tap = fds[tap_fd] /\ written'[d].count = Count
          /\ written'[d].ret = ret
      BY <1>8
    <3> HIDE DEF d
    <3> QED BY <1>2, <2>2, <3>3, <3>4
  <2> QED BY <1>3, <1>8, <2>1, <2>2
<1>13. ResultShape'
  BY <1>1, <1>4, <1>12 DEF ResultShape, devices
<1> QED BY <1>9, <1>10, <1>11, <1>13 DEF PcapInv

\* The callback returns.
LEMMA CallbackDoneInv ==
    ASSUME PcapInv, CallbackDone
    PROVE  PcapInv'
<1>1. /\ pc = "callback" /\ pc' = "loop" /\ todo = <<>>
      /\ UNCHANGED <<program, tap_fd, packet, todo, written, setup, devices>>
  BY DEF CallbackDone
<1>2. PcapTypeOK' /\ TapShape' /\ CaptureShape'
  BY <1>1 DEF PcapInv, PcapTypeOK, DevicesTypeOK, TapShape, CaptureShape,
              devices, Held
<1>3. Writes' = Writes
  BY <1>1, SameWrites
<1>4. WriteShape' /\ ResultShape'
  BY <1>1, <1>3 DEF PcapInv, WriteShape, ResultShape, devices
<1> QED BY <1>2, <1>4 DEF PcapInv

THEOREM PcapInvariance == PcapSpec => []PcapInv
<1>1. PcapInv /\ [PcapNext]_pcapVars => PcapInv'
  <2> SUFFICES ASSUME PcapInv, [PcapNext]_pcapVars PROVE PcapInv'
    OBVIOUS
  <2>1. CASE (\E prog \in Programs : Run(prog)) \/ OpenCapture
    BY <2>1, StartInv
  <2>2. CASE OpenTap
    BY <2>2, OpenTapInv
  <2>3. CASE OpenTapEnds \/ PcapEnds
    BY <2>3, PcapDieInv DEF OpenTapEnds, PcapEnds
  <2>4. CASE \E f \in PcapFrames : Captured(f)
    BY <2>4, CapturedInv
  <2>5. CASE WriteCopy
    BY <2>5, WriteCopyInv
  <2>6. CASE CallbackDone
    BY <2>6, CallbackDoneInv
  <2>7. CASE CmdTest
    BY <2>7, CmdTestInv
  <2>8. CASE UNCHANGED pcapVars
    <3>1. UNCHANGED <<program, pc, tap_fd, packet, todo, written, setup,
                      present, persistent, up, foreign, fds>>
      BY <2>8 DEF pcapVars, pcap, devices
    <3>2. Writes' = Writes
      BY <3>1, SameWrites
    <3> QED BY <3>1, <3>2 DEF PcapInv, PcapTypeOK, DevicesTypeOK, TapShape,
                              CaptureShape, WriteShape, ResultShape, Held
  <2> QED BY <2>1, <2>2, <2>3, <2>4, <2>5, <2>6, <2>7, <2>8
          DEF PcapNext, PcapStep
<1> QED BY <1>1, PcapInitInv, PTL DEF PcapSpec

-----------------------------------------------------------------------------
\* Type correctness of the earlier programs.
THEOREM PcapTypes == PcapSpec => []PcapTypeOK
<1>1. PcapInv => PcapTypeOK
  BY DEF PcapInv
<1> QED BY <1>1, PcapInvariance, PTL

\* What is known of each write: its count is that of the frame, unless it is
\* the third one, which has what the second returned.
LEMMA ResultIs ==
    ASSUME PcapInv, packet \in PcapFrames, NEW k \in 1 .. Len(written)
    PROVE  /\ k \in 1 .. 3
           /\ k < 3 => written[k].count = IpLenCount(packet.tot_len)
           /\ k = 3 => written[k].count = written[2].ret
           /\ written[k].ret \in {written[k].count, -1}
           /\ written[k].ret # -1 => Taken(written[k].count)
<1>1. /\ written \in Seq([tap : Nat, count : Word \cup {-1},
                          ret : Word \cup {-1}])
      /\ Len(written) \in Nat /\ Len(todo) \in Nat /\ program \in Programs
      /\ pc \in {"loop", "callback"}
  BY PcapAssumption DEF PcapInv, PcapTypeOK, CaptureShape
<1>2. k \in 1 .. Len(Writes) /\ program # "v4"
  BY <1>1 DEF PcapInv, WriteShape, CaptureShape
<1>3. Writes[k] = (IF k < 3 THEN "ip_len" ELSE "written") /\ k \in 1 .. 3
  BY <1>1, <1>2, WritesAre
<1> QED BY <1>3 DEF PcapInv, ResultShape

\* The third write of v2 repeats the second, or is refused with it.
THEOREM PcapThirdRepeats == PcapSpec => []ThirdRepeatsSecond
<1>1. PcapInv => ThirdRepeatsSecond
  <2> SUFFICES ASSUME PcapInv, 3 \in 1 .. Len(written), written[3].ret # -1
               PROVE  /\ written[3] = written[2]
                      /\ written[3].count = written[1].count
    BY DEF ThirdRepeatsSecond
  <2> DEFINE Result == [tap : Nat, count : Word \cup {-1},
                        ret : Word \cup {-1}]
  <2>1. written \in Seq(Result) /\ Len(written) \in Nat
    BY DEF PcapInv, PcapTypeOK
  <2>2. \A r, s \in Result :
            r.tap = s.tap /\ r.count = s.count /\ r.ret = s.ret => r = s
    OBVIOUS
  <2> HIDE DEF Result
  <2>3. /\ 1 \in 1 .. Len(written) /\ 2 \in 1 .. Len(written)
        /\ written[2] \in Result /\ written[3] \in Result
    BY <2>1
  <2>4. packet \in PcapFrames
    <3>1. Len(Writes) # 0
      BY <2>1 DEF PcapInv, PcapTypeOK, WriteShape
    <3> QED BY <3>1 DEF Writes
  <2>5. /\ written[1].count = IpLenCount(packet.tot_len)
        /\ written[2].count = IpLenCount(packet.tot_len)
        /\ written[3].count = written[2].ret
        /\ written[2].ret \in {written[2].count, -1}
        /\ written[3].ret = written[3].count
    BY <2>3, <2>4, ResultIs
  <2>6. written[3].tap = written[2].tap
    BY <2>3 DEF PcapInv, ResultShape
  <2> QED BY <2>2, <2>3, <2>5, <2>6
<1> QED BY <1>1, PcapInvariance, PTL

\* A count the driver takes is never the length of the packet's frame, and
\* within the capture only when the length has a low byte of 0.
LEMMA TakenCount ==
    ASSUME NEW w \in Word, w >= 20, NEW n,
           n = IF w < 46 THEN 60 ELSE w + SIZE_ETHERNET,
           Taken(IpLenCount(w))
    PROVE  /\ IpLenCount(w) # n
           /\ IpLenCount(w) <= (IF n < 68 THEN n ELSE 68) <=>
                 w % 256 = 0 /\ w \div 256 <= 68
BY DEF Word, Swap16, IpLenCount, Taken, SIZE_ETHERNET

\* No copy the driver takes is of just the frame, for every length field.
THEOREM PcapCopiesNeverExact == PcapSpec => []CopiesNeverExact
<1>1. PcapInv => CopiesNeverExact
  <2> SUFFICES ASSUME PcapInv, packet \in PcapFrames, packet.ip,
                      NEW k \in 1 .. Len(written), written[k].ret # -1
               PROVE  /\ written[k].ret # packet.len
                      /\ written[k].ret <= Caplen(packet) <=>
                            packet.tot_len % 256 = 0
                            /\ packet.tot_len \div 256 <= 68
    BY DEF CopiesNeverExact
  <2>1. /\ packet.tot_len \in Word /\ packet.tot_len >= 20
        /\ packet.len = IF packet.tot_len < 46 THEN 60
                        ELSE packet.tot_len + SIZE_ETHERNET
    BY PcapAssumption
  <2>2. /\ written[k].ret = IpLenCount(packet.tot_len)
        /\ Taken(IpLenCount(packet.tot_len))
    <3>1. CASE k < 3
      BY <3>1, ResultIs
    <3>2. CASE k = 3
      <4>1. 2 \in 1 .. Len(written)
        BY <3>2 DEF PcapInv, PcapTypeOK
      <4> QED BY <3>2, <4>1, ResultIs
    <3> QED BY <3>1, <3>2, ResultIs
  <2> QED BY <2>1, <2>2, TakenCount DEF Caplen
<1> QED BY <1>1, PcapInvariance, PTL
=============================================================================
