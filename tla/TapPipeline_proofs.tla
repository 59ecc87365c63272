------------------------- MODULE TapPipeline_proofs -------------------------
(***************************************************************************)
(* Proofs about TapPipeline: its steps are steps of its two parts, so what *)
(* is proved of these by themselves (UlogReader_proofs and                 *)
(* TapDistributor_proofs) holds of them in the one process; and from there *)
(* what is promised from the capture of a packet to its copies.            *)
(***************************************************************************)
EXTENDS TapPipeline, TapDistributor_proofs

\* What is proved of the reader, with the reader of this process in its place.
RP == INSTANCE UlogReader_proofs WITH pc <- at

-----------------------------------------------------------------------------
(* The parts *)

\* The reader of RP is the reader.
LEMMA SameInit == Reader!UlogInit => RP!UlogInit
BY DEF Reader!UlogInit, RP!UlogInit, Reader!Stray, RP!Stray

LEMMA SameNext ==
    [Reader!UlogNext]_(Reader!ulogVars) => [RP!UlogNext]_(RP!ulogVars)
<1> USE DEF Reader!kernelVars, RP!kernelVars, Reader!readerVars, RP!readerVars
<1>1. Reader!Capture => RP!Capture
  BY DEF Reader!Capture, RP!Capture
<1>2. Reader!Flush => RP!Flush
  BY DEF Reader!Flush, RP!Flush, Reader!NetlinkBroadcast, RP!NetlinkBroadcast,
         Reader!GroupOf, RP!GroupOf
<1>3. Reader!StrayArrives => RP!StrayArrives
  BY DEF Reader!StrayArrives, RP!StrayArrives, Reader!NetlinkBroadcast,
         RP!NetlinkBroadcast, Reader!GroupOf, RP!GroupOf, Reader!Stray, RP!Stray
<1>4. \A i \in Arguments \cup {1} : Reader!Bind(i) => RP!Bind(i)
  BY DEF Reader!Bind, RP!Bind
<1>5. Reader!Call => RP!Call
  BY DEF Reader!Call, RP!Call
<1>6. Reader!Leftover => RP!Leftover
  BY DEF Reader!Leftover, RP!Leftover, Reader!After, RP!After, Reader!Multi,
         RP!Multi, Reader!Done, RP!Done
<1>7. Reader!Received => RP!Received
  BY DEF Reader!Received, RP!Received, Reader!After, RP!After, Reader!Multi,
         RP!Multi, Reader!Done, RP!Done
<1>8. Reader!ParseError => RP!ParseError
  BY DEF Reader!ParseError, RP!ParseError
<1>9. Reader!Exit => RP!Exit
  BY DEF Reader!Exit, RP!Exit, Reader!Stray, RP!Stray
<1>10. Reader!RecvError => RP!RecvError
  BY <1>9 DEF Reader!RecvError, RP!RecvError
<1>11. Reader!Kill => RP!Kill
  BY <1>9 DEF Reader!Kill, RP!Kill
<1>12. Reader!UlogNext => RP!UlogNext
  BY <1>1, <1>2, <1>3, <1>4, <1>5, <1>6, <1>7, <1>8, <1>10, <1>11
     DEF Reader!UlogNext, RP!UlogNext
<1> QED BY <1>12 DEF Reader!ulogVars, RP!ulogVars


\* Every step of the pipeline is one of the reader, or leaves it alone.
LEMMA ReaderStep == [PipeNext]_pipeVars => [Reader!UlogNext]_(Reader!ulogVars)
<1> USE DEF Reader!UlogNext
<1>1. CASE Boot
  BY <1>1 DEF Boot
<1>2. CASE Kernel
  BY <1>2 DEF Kernel
<1>3. CASE GetPacket
  BY <1>3 DEF GetPacket
<1>4. CASE Hand
  BY <1>4 DEF Hand
<1>5. CASE Skip
  BY <1>5 DEF Skip
<1>6. CASE Stop
  BY <1>6 DEF Stop
<1>7. CASE Step \/ PipeForeign \/ UNCHANGED pipeVars
  BY <1>7 DEF Step, PipeForeign, pipeVars, reader, Reader!ulogVars,
              Reader!kernelVars, Reader!readerVars
<1> QED BY <1>1, <1>2, <1>3, <1>4, <1>5, <1>6, <1>7 DEF PipeNext

\* The reader of the pipeline keeps the specification of the reader, of whose
\* calls main makes no more than it allows.
THEOREM ReaderKept == PipeSpec => Reader!UlogSpec
<1>1. PipeInit => Reader!UlogInit
  BY DEF PipeInit
<1> QED BY <1>1, ReaderStep, PTL DEF PipeSpec, Reader!UlogSpec

\* The constants are as the reader assumes.
LEMMA ReaderConstants == RP!UlogAssumption
BY PipelineAssumption DEF RP!UlogAssumption

\* What is proved of the reader holds in the pipeline.
LEMMA ReaderInv == PipeSpec => []RP!UlogInv
<1>1. Reader!UlogSpec => RP!UlogSpec
  BY SameInit, SameNext, PTL DEF Reader!UlogSpec, RP!UlogSpec
<1>2. RP!UlogSpec => []RP!UlogInv
  BY ReaderConstants, RP!UlogInvariance
<1> QED BY <1>1, <1>2, ReaderKept, PTL

\* The packets handed over are ones that have been captured.
HandedShape ==
    /\ captured <= MaxCaptured
    /\ \A k \in 1 .. Len(handed) : handed[k] <= captured

\* The fields of the reader that are used here.
LEMMA ReaderTypes ==
    ASSUME RP!UlogInv
    PROVE  /\ captured \in Nat /\ sentUpTo \in Nat /\ sentUpTo <= captured
           /\ handed \in Seq(Nat) /\ Len(handed) \in Nat
           /\ \A k \in 1 .. Len(handed) : handed[k] \in Nat
           /\ at \in {"main", "get", "dead"}
           /\ nlh # NULL => nlh \in Nat /\ nlh <= captured
           /\ queue # <<>> => /\ Head(queue).first \in Nat
                              /\ Head(queue).first <= captured
<1>1. RP!UlogTypeOK /\ RP!DatagramShape
  BY DEF RP!UlogInv
<1>2. /\ captured \in Nat /\ sentUpTo \in Nat /\ sentUpTo <= captured
      /\ handed \in Seq(Nat) /\ at \in {"main", "get", "dead"}
      /\ nlh \in Nat \cup {NULL} /\ buf \in RP!Datagram
      /\ queue \in Seq(RP!Datagram)
  BY <1>1 DEF RP!UlogTypeOK
<1>3. \A d \in RP!Datagram : /\ d.first \in Nat /\ d.last \in Nat
                             /\ RP!Shape(d) => d.first <= captured
                                               /\ d.last <= captured
  BY <1>2 DEF RP!Datagram, RP!Shape, RP!Real
<1>4. RP!Shape(buf) /\ RP!CursorInBuf
      /\ \A j \in 1 .. Len(queue) : RP!Shape(queue[j])
  BY <1>1 DEF RP!DatagramShape
<1>5. ASSUME nlh # NULL PROVE nlh \in Nat /\ nlh <= captured
  BY <1>2, <1>3, <1>4, <1>5 DEF RP!CursorInBuf
<1>6. ASSUME queue # <<>>
      PROVE  Head(queue).first \in Nat /\ Head(queue).first <= captured
  <2>1. 1 \in 1 .. Len(queue) /\ Head(queue) = queue[1]
    BY <1>2, <1>6
  <2>2. queue[1] \in RP!Datagram
    BY <1>2, <2>1
  <2> QED BY <1>2, <1>3, <1>4, <2>1, <2>2
<1>7. Len(handed) \in Nat /\ \A k \in 1 .. Len(handed) : handed[k] \in Nat
  BY <1>2
<1> QED BY <1>2, <1>5, <1>6, <1>7

LEMMA InitHanded == PipeInit => HandedShape
BY PipelineAssumption DEF PipeInit, HandedShape, Reader!UlogInit

LEMMA NextHanded ==
    ASSUME RP!UlogInv, RP!UlogInv', HandedShape, [PipeNext]_pipeVars
    PROVE  HandedShape'
<1> USE PipelineAssumption
<1>1. /\ captured \in Nat
      /\ handed \in Seq(Nat)
      /\ \A k \in 1 .. Len(handed) : handed[k] <= captured
      /\ \A k \in 1 .. Len(handed) : handed[k] \in Nat
  BY ReaderTypes DEF HandedShape
<1>2. [Reader!UlogNext]_(Reader!ulogVars)
  BY ReaderStep
<1>3. CASE Reader!Capture
  BY <1>1, <1>3 DEF Reader!Capture, Reader!readerVars, HandedShape
<1>4. CASE Reader!Leftover
  <2>1. handed' = Append(handed, nlh) /\ captured' = captured /\ nlh # NULL
    BY <1>4 DEF Reader!Leftover, Reader!kernelVars
  <2> QED BY <1>1, <2>1, ReaderTypes DEF HandedShape
<1>5. CASE Reader!Received
  <2>1. handed' = Append(handed, Head(queue).first) /\ captured' = captured
        /\ queue # <<>>
    BY <1>5 DEF Reader!Received
  <2> QED BY <1>1, <2>1, ReaderTypes DEF HandedShape
<1>6. CASE Reader!RecvError \/ Reader!Kill
  BY <1>6 DEF Reader!RecvError, Reader!Kill, Reader!Exit, HandedShape
<1>7. CASE \/ Reader!Flush \/ Reader!StrayArrives \/ Reader!Call
           \/ Reader!ParseError \/ UNCHANGED Reader!ulogVars
           \/ \E i \in Arguments \cup {1} : Reader!Bind(i)
  <2>1. UNCHANGED <<captured, handed>>
    BY <1>7 DEF Reader!Flush, Reader!StrayArrives, Reader!Call, Reader!Bind,
                Reader!ParseError, Reader!ulogVars, Reader!kernelVars,
                Reader!readerVars
  <2> QED BY <2>1 DEF HandedShape
<1> QED BY <1>2, <1>3, <1>4, <1>5, <1>6, <1>7 DEF Reader!UlogNext

\* What is returned to main is a packet, and its frame one of Frames.
LEMMA HandFrame ==
    ASSUME HandedShape', RP!UlogInv, RP!UlogInv', Hand
    PROVE  /\ Len(handed') = Len(handed) + 1
           /\ \A k \in 1 .. Len(handed) : handed'[k] = handed[k]
           /\ handed'[Len(handed')] \in 0 .. MaxCaptured
           /\ Contents[handed'[Len(handed')]] \in Frames
<1> USE PipelineAssumption
<1>1. PICK n \in Nat : handed' = Append(handed, n)
  <2>1. CASE Reader!Leftover
    BY <2>1, ReaderTypes DEF Reader!Leftover
  <2>2. CASE Reader!Received
    <3>1. handed' = Append(handed, Head(queue).first) /\ queue # <<>>
      BY <2>2 DEF Reader!Received
    <3> QED BY <3>1, ReaderTypes
  <2> QED BY <2>1, <2>2 DEF Hand
<1>2. handed \in Seq(Nat) /\ Len(handed) \in Nat /\ captured' \in Nat
  BY ReaderTypes DEF RP!UlogInv, RP!UlogTypeOK
<1>3. /\ Len(handed') = Len(handed) + 1
      /\ \A k \in 1 .. Len(handed) : handed'[k] = handed[k]
      /\ handed'[Len(handed')] = n
  BY <1>1, <1>2
<1>4. n <= captured' /\ captured' <= MaxCaptured
  <2>1. Len(handed') \in 1 .. Len(handed')
    BY <1>2, <1>3
  <2> QED BY <1>3, <2>1 DEF HandedShape
<1>5. n \in 0 .. MaxCaptured
  BY <1>2, <1>4
<1> QED BY <1>3, <1>5

\* Every step of the pipeline is one of the distributor, or leaves it alone.
LEMMA DistributorStep ==
    ASSUME HandedShape', RP!UlogInv, RP!UlogInv', [PipeNext]_pipeVars
    PROVE  [Next]_vars
<1> USE DEF Next
<1>1. CASE Boot
  BY <1>1 DEF Boot
<1>2. CASE Kernel \/ GetPacket \/ Skip \/ UNCHANGED pipeVars
  BY <1>2 DEF Kernel, GetPacket, Skip, pipeVars
<1>3. CASE Hand
  BY <1>3, HandFrame DEF Hand
<1>4. CASE Step
  BY <1>4 DEF Step
<1>5. CASE Stop
  BY <1>5 DEF Stop, Distribute
<1>6. CASE PipeForeign
  BY <1>6 DEF PipeForeign
<1> QED BY <1>1, <1>2, <1>3, <1>4, <1>5, <1>6 DEF PipeNext

LEMMA AlwaysHanded == PipeSpec => []HandedShape
BY ReaderInv, InitHanded, NextHanded, PTL DEF PipeSpec

\* The distribution in the pipeline is the distributor: what ulog_get_packet
\* returns to it are frames it knows.
THEOREM DistributorKept == PipeSpec => Spec
<1>1. PipeInit => Init
  BY DEF PipeInit
<1> QED BY <1>1, ReaderInv, AlwaysHanded, DistributorStep, PTL
        DEF PipeSpec, Spec

-----------------------------------------------------------------------------
(* From the packets handed over to the copies *)

\* main is in ulog_get_packet only between two frames, and the two components
\* are in one process.
MeetShape ==
    /\ at = "get" => pc = "recv"
    /\ at = "dead" <=> pc = "dead"

\* The copies of the packets before the current one.
Old == Len(copied) - Len(sent)

\* The history of copies: those of earlier packets, then those main has made
\* of the frame of the current one.
CopiedShape ==
    /\ copied \in Seq((0 .. MaxCaptured) \X (Nat \cup {NoTap}))
    /\ Len(sent) <= Len(copied)
    /\ handed = <<>> => pc \in {"recv", "dead"} /\ copied = <<>>
    /\ handed # <<>> => msg = Contents[Current] /\ Current \in 0 .. MaxCaptured
    /\ \A i \in 1 .. Old : \E k \in 1 .. Len(handed) - 1 :
          copied[i][1] = handed[k]
    /\ \A k \in 1 .. Len(sent) : copied[Old + k] = <<Current, sent[k].tap>>

\* Packet n has been copied to the taps of all stations it is handed over for.
Served(n) ==
    Unicast(n) =>
        \A m \in Parties(n) :
            \E k \in 1 .. Len(list_top) :
                /\ list_top[k].mac_add = m
                /\ \E l \in 1 .. Len(copied) :
                      copied[l] = <<n, list_top[k].tap_name>>

\* main is done with packet n: one before the current one, or that.
Done(n) ==
    \E k \in 1 .. Len(handed) :
        handed[k] = n /\ (k < Len(handed) \/ pc = "recv")

ServedShape == \A n : Done(n) => Served(n)

PipeInv ==
    /\ MeetShape
    /\ CopiedShape
    /\ TapInOrder
    /\ ServedShape

LEMMA InitPipe == PipeInit => PipeInv
<1> SUFFICES ASSUME PipeInit PROVE PipeInv
  OBVIOUS
<1>1. /\ handed = <<>> /\ copied = <<>> /\ sent = <<>>
      /\ at = "dead" /\ pc = "dead"
  BY DEF PipeInit, Init, Reader!UlogInit
<1> QED BY <1>1 DEF PipeInv, MeetShape, CopiedShape, TapInOrder, ServedShape,
                    Old, Done

\* The steps that change neither the packets nor the copies.
LEMMA SamePackets ==
    ASSUME PipeInv, MeetShape',
           UNCHANGED <<handed, copied, sent, msg, pc, list_top>>
    PROVE  PipeInv'
<1>1. \A n : Served(n) => Served(n)'
  BY DEF Served
<1>2. Current' = Current /\ Old' = Old
  BY DEF Current, Old
<1>3. CopiedShape'
  BY <1>2 DEF PipeInv, CopiedShape
<1>4. TapInOrder'
  BY DEF PipeInv, TapInOrder
<1>5. \A n : Done(n)' => Done(n)
  BY DEF Done
<1>6. ServedShape'
  BY <1>1, <1>5 DEF PipeInv, ServedShape
<1> QED BY <1>3, <1>4, <1>6 DEF PipeInv

\* The process starts, and main makes its first call.
LEMMA BootPipe ==
    ASSUME DistInv, PipeInv, RP!UlogInv, Boot
    PROVE  PipeInv'
<1>1. /\ pc = "dead" /\ pc' = "recv" /\ at' = "main"
      /\ UNCHANGED <<list_top, msg, sent, copied, handed>>
  BY DEF Boot, Start, Reader!Bind
<1>2. handed = <<>>
  BY <1>1 DEF PipeInv, MeetShape, RP!UlogInv, RP!DeadShape
<1>3. MeetShape'
  BY <1>1 DEF MeetShape
<1>4. Current' = Current /\ Old' = Old
  BY <1>1 DEF Current, Old
<1> QED BY <1>1, <1>2, <1>3, <1>4
        DEF PipeInv, CopiedShape, TapInOrder, ServedShape, Done

\* The process ends, and what was handed over and copied in this run with it.
LEMMA StopPipe ==
    ASSUME Stop
    PROVE  PipeInv'
<1>1. /\ handed' = <<>> /\ copied' = <<>> /\ sent' = <<>>
      /\ at' = "dead" /\ pc' = "dead"
  BY DEF Stop, Killed, AllocError, Die, Reader!Kill, Reader!RecvError,
         Reader!Exit
<1> QED BY <1>1 DEF PipeInv, MeetShape, CopiedShape, TapInOrder, ServedShape,
                    Old, Done

\* The next packet becomes the current one, with no copies yet.
LEMMA HandPipe ==
    ASSUME DistInv, PipeInv, HandedShape', RP!UlogInv, RP!UlogInv', Hand
    PROVE  PipeInv'
<1>1. /\ pc = "recv" /\ sent' = <<>> /\ UNCHANGED <<list_top, copied>>
      /\ msg' = Contents[handed'[Len(handed')]]
      /\ pc' = IF msg'.version THEN "match" ELSE "recv"
  BY DEF Hand, Receive
<1>2. /\ Len(handed') = Len(handed) + 1 /\ Len(handed) \in Nat
      /\ \A k \in 1 .. Len(handed) : handed'[k] = handed[k]
      /\ handed'[Len(handed')] \in 0 .. MaxCaptured
  BY HandFrame, ReaderTypes
<1>3. Len(sent') = 0 /\ Len(sent) \in Nat /\ Len(copied) \in Nat
  BY <1>1 DEF DistInv, IInv, TypeOK, PipeInv, CopiedShape
<1>4. MeetShape'
  BY <1>1 DEF MeetShape, Hand, Reader!Leftover, Reader!Received
<1>5. CopiedShape'
  <2>1. Old' = Len(copied)
    BY <1>1, <1>3 DEF Old
  <2>2. ASSUME NEW i \in 1 .. Len(copied)
        PROVE  \E k \in 1 .. Len(handed) : copied[i][1] = handed[k]
    <3>1. CASE i \in 1 .. Old
      BY <1>2, <3>1 DEF PipeInv, CopiedShape
    <3>2. CASE i \notin 1 .. Old
      <4>1. i - Old \in 1 .. Len(sent) /\ Old + (i - Old) = i
        BY <1>3, <3>2 DEF Old
      <4>2. copied[i] = <<Current, sent[i - Old].tap>>
        BY <4>1 DEF PipeInv, CopiedShape
      <4>3. handed # <<>>
        BY <1>3, <2>2 DEF PipeInv, CopiedShape
      <4>4. Len(handed) \in 1 .. Len(handed)
        BY <1>2, <4>3, ReaderTypes
      <4> QED BY <4>2, <4>4 DEF Current
    <3> QED BY <3>1, <3>2
  <2>3. \A i \in 1 .. Len(copied) : \E k \in 1 .. Len(handed') - 1 :
            copied[i][1] = handed'[k]
    BY <1>2, <2>2
  <2>4. handed' # <<>> /\ Current' = handed'[Len(handed')]
    BY <1>2 DEF Current
  <2> QED BY <1>1, <1>2, <1>3, <2>1, <2>3, <2>4 DEF PipeInv, CopiedShape
<1>6. TapInOrder'
  BY <1>1 DEF PipeInv, TapInOrder
<1>7. ServedShape'
  <2>1. \A n : Served(n) => Served(n)'
    BY <1>1 DEF Served
  <2>2. pc' = "recv" => ~Unicast(handed'[Len(handed')])
    BY <1>1 DEF Unicast
  <2>3. ASSUME NEW n, Done(n)'
        PROVE  Served(n)'
    <3>1. PICK k \in 1 .. Len(handed') :
              handed'[k] = n /\ (k < Len(handed') \/ pc' = "recv")
      BY <2>3 DEF Done
    <3>2. CASE k = Len(handed')
      BY <1>2, <2>2, <3>1, <3>2 DEF Served, Unicast
    <3>3. CASE k # Len(handed')
      <4>1. k \in 1 .. Len(handed) /\ handed[k] = n
        BY <1>2, <3>1, <3>3
      <4>2. Served(n)
        BY <1>1, <4>1 DEF PipeInv, ServedShape, Done
      <4> QED BY <2>1, <4>2
    <3> QED BY <3>2, <3>3
  <2> QED BY <2>3 DEF ServedShape
<1> QED BY <1>4, <1>5, <1>6, <1>7 DEF PipeInv

\* A step of the distribution adds at most one entry to the list, at its end,
\* and at most one copy.
LEMMA StepFacts ==
    ASSUME DistInv, DistInv', PipeInv, RP!UlogInv, Step
    PROVE  /\ UNCHANGED <<handed, at, msg>>
           /\ pc \notin {"recv", "dead"} /\ pc' # "dead"
           /\ at = "main" /\ handed # <<>>
           /\ Len(list_top) \in Nat /\ Len(list_top') \in Nat
           /\ Len(list_top) <= Len(list_top')
           /\ \A i \in 1 .. Len(list_top) : list_top'[i] = list_top[i]
           /\ \/ UNCHANGED <<sent, copied>>
              \/ \E t \in Nat, n \in Word :
                    /\ sent' = Append(sent, [tap |-> t, count |-> n])
                    /\ copied' = Append(copied, <<Current, t>>)
<1>1. UNCHANGED <<handed, at>> /\ Distribute /\ pc' # "dead"
  BY DEF Step, reader
<1>2. /\ sent \in Seq(Copy) /\ Len(sent) \in Nat /\ list_top \in Seq(Entry)
      /\ Len(list_top) \in Nat /\ Len(list_top') \in Nat
  BY DEF DistInv, IInv, TypeOK
<1>3. msg' = msg /\ pc \notin {"recv", "dead"}
  BY <1>1 DEF Distribute, MulticastAdd, BroadcastMac, BroadcastAdd, StartFlood,
              NoFlood, FloodWrite, FloodEnd, OtherPort, AlreadyListed,
              NotListed, Mktun, SetLinkUp, CommandFails, TunAlloc, AllocError,
              Die, Write
<1>4. at = "main" /\ handed # <<>>
  <2>1. at \in {"main", "get", "dead"}
    BY ReaderTypes
  <2> QED BY <1>3, <2>1 DEF PipeInv, MeetShape, CopiedShape
<1>5. CASE FloodWrite \/ Write
  <2>1. PICK i \in 1 .. Len(list_top), n \in Word :
            sent' = Append(sent, [tap |-> i - 1, count |-> n])
    BY <1>5, WriteAppends DEF DistInv
  <2>2. /\ i - 1 \in Nat /\ Len(sent') = Len(sent) + 1
        /\ sent'[Len(sent')].tap = i - 1
    BY <1>2, <2>1
  <2>3. copied' = Append(copied, <<Current, i - 1>>)
    BY <1>2, <2>2 DEF Step
  <2>4. list_top' = list_top
    BY <1>5 DEF FloodWrite, Write
  <2>5. /\ Len(list_top) <= Len(list_top')
        /\ \A h \in 1 .. Len(list_top) : list_top'[h] = list_top[h]
    BY <1>2, <2>4
  <2>6. \E t \in Nat, m \in Word :
           /\ sent' = Append(sent, [tap |-> t, count |-> m])
           /\ copied' = Append(copied, <<Current, t>>)
    BY <2>1, <2>2, <2>3
  <2> QED BY <1>1, <1>2, <1>3, <1>4, <2>5, <2>6, Zenon
<1>6. CASE ~(FloodWrite \/ Write)
  <2>1. /\ sent' = sent
        /\ list_top' = list_top \/ \E e : list_top' = Append(list_top, e)
    BY <1>1, <1>6 DEF Distribute, MulticastAdd, BroadcastMac, BroadcastAdd,
              StartFlood, NoFlood, FloodEnd, OtherPort, AlreadyListed,
              NotListed, Mktun, SetLinkUp, CommandFails, TunAlloc, AllocError,
              Die
  <2>2. copied' = copied
    BY <1>2, <2>1 DEF Step
  <2>3. /\ Len(list_top) <= Len(list_top')
        /\ \A i \in 1 .. Len(list_top) : list_top'[i] = list_top[i]
    BY <1>2, <2>1
  <2> QED BY <1>1, <1>2, <1>3, <1>4, <2>1, <2>2, <2>3
<1> QED BY <1>5, <1>6

\* The frame main is busy with is a frame.
LEMMA CurrentFrame ==
    ASSUME PipeInv, handed # <<>>
    PROVE  /\ msg = Contents[Current] /\ msg \in Frames /\ msg \in Frame
           /\ Current \in Nat
           /\ FrameToItself(msg) <=> ToItself(Current)
<1> USE PipelineAssumption, FrameAssumption
<1>1. msg = Contents[Current] /\ Current \in 0 .. MaxCaptured
  BY DEF PipeInv, CopiedShape
<1> QED BY <1>1 DEF FrameToItself, ToItself

\* A new copy in the history.
LEMMA StepCopied ==
    ASSUME DistInv, DistInv', PipeInv, RP!UlogInv, Step
    PROVE  /\ CopiedShape'
           /\ \A l \in 1 .. Len(copied) :
                 l \in 1 .. Len(copied') /\ copied'[l] = copied[l]
<1>1. /\ UNCHANGED <<handed, msg>> /\ handed # <<>>
      /\ copied \in Seq((0 .. MaxCaptured) \X (Nat \cup {NoTap}))
      /\ sent \in Seq(Copy)
      /\ Len(sent) \in Nat /\ Len(copied) \in Nat /\ Len(sent) <= Len(copied)
      /\ Current \in 0 .. MaxCaptured
  BY StepFacts DEF DistInv, IInv, TypeOK, PipeInv, CopiedShape
<1>2. Current' = Current
  BY <1>1 DEF Current
<1>3. Len(sent) \in Nat /\ Len(copied) \in Nat
  BY <1>1
<1>4. CASE UNCHANGED <<sent, copied>>
  BY <1>1, <1>2, <1>4 DEF PipeInv, CopiedShape, Old
<1>5. ASSUME NEW t \in Nat, NEW n \in Word,
             sent' = Append(sent, [tap |-> t, count |-> n]),
             copied' = Append(copied, <<Current, t>>)
      PROVE  /\ CopiedShape'
             /\ \A l \in 1 .. Len(copied) :
                   l \in 1 .. Len(copied') /\ copied'[l] = copied[l]
  <2>1. /\ Len(sent') = Len(sent) + 1 /\ sent'[Len(sent) + 1].tap = t
        /\ \A k \in 1 .. Len(sent) : sent'[k] = sent[k]
    BY <1>1, <1>5
  <2>2. /\ Len(copied') = Len(copied) + 1
        /\ copied'[Len(copied) + 1] = <<Current, t>>
        /\ \A l \in 1 .. Len(copied) : copied'[l] = copied[l]
        /\ copied' \in Seq((0 .. MaxCaptured) \X (Nat \cup {NoTap}))
    BY <1>1, <1>5
  <2>3. Old' = Old /\ Old \in Nat /\ Old + Len(sent) = Len(copied)
    BY <1>1, <2>1, <2>2 DEF Old
  <2>4. \A i \in 1 .. Old : \E k \in 1 .. Len(handed) - 1 :
            copied'[i][1] = handed[k]
    <3> TAKE i \in 1 .. Old
    <3>1. i \in 1 .. Len(copied)
      BY <1>1, <2>3
    <3> QED BY <2>2, <3>1 DEF PipeInv, CopiedShape
  <2>5. ASSUME NEW k \in 1 .. Len(sent')
        PROVE  copied'[Old + k] = <<Current, sent'[k].tap>>
    <3>1. CASE k \in 1 .. Len(sent)
      <4>1. Old + k \in 1 .. Len(copied)
        BY <1>1, <2>3, <3>1
      <4>2. copied[Old + k] = <<Current, sent[k].tap>>
        BY <3>1 DEF PipeInv, CopiedShape
      <4> QED BY <2>1, <2>2, <3>1, <4>1, <4>2
    <3>2. CASE k = Len(sent) + 1
      <4>1. Old + k = Len(copied) + 1
        BY <2>3, <3>2, <1>3
      <4> QED BY <2>1, <2>2, <3>2, <4>1
    <3> QED BY <1>1, <2>1, <3>1, <3>2
  <2>6. CopiedShape'
    BY <1>1, <1>2, <2>1, <2>2, <2>3, <2>4, <2>5 DEF PipeInv, CopiedShape
  <2>7. \A l \in 1 .. Len(copied) : l \in 1 .. Len(copied')
    BY <1>1, <2>2
  <2> QED BY <2>2, <2>6, <2>7
<1> QED BY <1>4, <1>5, StepFacts

\* The new copy is of a later packet than those before it, or for another tap.
LEMMA StepOrder ==
    ASSUME DistInv, DistInv', PipeInv, RP!UlogInv, Step
    PROVE  TapInOrder'
<1>1. /\ UNCHANGED <<handed, msg>> /\ handed # <<>>
      /\ copied \in Seq((0 .. MaxCaptured) \X (Nat \cup {NoTap}))
      /\ sent \in Seq(Copy)
      /\ Len(sent) \in Nat /\ Len(copied) \in Nat /\ Len(sent) <= Len(copied)
  BY StepFacts DEF DistInv, IInv, TypeOK, PipeInv, CopiedShape
<1>2. CASE UNCHANGED <<sent, copied>>
  BY <1>2 DEF PipeInv, TapInOrder
<1>3. ASSUME NEW t \in Nat, NEW n \in Word,
             sent' = Append(sent, [tap |-> t, count |-> n]),
             copied' = Append(copied, <<Current, t>>)
      PROVE  TapInOrder'
  <2>1. /\ Len(sent') = Len(sent) + 1 /\ sent'[Len(sent) + 1].tap = t
        /\ \A k \in 1 .. Len(sent) : sent'[k] = sent[k]
    BY <1>1, <1>3
  <2>2. /\ Len(copied') = Len(copied) + 1
        /\ copied'[Len(copied) + 1] = <<Current, t>>
        /\ \A l \in 1 .. Len(copied) : copied'[l] = copied[l]
    BY <1>1, <1>3
  <2>3. Current \in Nat /\ (FrameToItself(msg) <=> ToItself(Current))
    BY <1>1, CurrentFrame
  <2>4. ASSUME NEW i \in 1 .. Len(copied), copied[i][2] = t,
               copied[i][1] # 0, Current # 0
        PROVE  \/ copied[i][1] < Current
               \/ copied[i][1] = Current /\ ToItself(Current)
    <3>1. CASE i \in 1 .. Old
      <4>1. PICK k \in 1 .. Len(handed) - 1 : copied[i][1] = handed[k]
        BY <3>1 DEF PipeInv, CopiedShape
      <4>2. /\ Len(handed) \in Nat /\ handed \in Seq(Nat)
            /\ k \in 1 .. Len(handed) /\ k < Len(handed)
            /\ Len(handed) \in 1 .. Len(handed)
        BY ReaderTypes, <4>1
      <4>3. RP!Unbroken
        BY DEF RP!UlogInv
      <4>4. \A h, j \in 1 .. Len(handed) :
                h < j /\ handed[h] # 0 /\ handed[j] # 0 =>
                    handed[h] < handed[j]
        BY <4>2, <4>3, ReaderConstants, RP!HandedInOrder
      <4>5. handed[k] < handed[Len(handed)]
        BY <2>4, <4>1, <4>2, <4>4 DEF Current
      <4> QED BY <4>1, <4>5 DEF Current
    <3>2. CASE i \notin 1 .. Old
      <4>1. i - Old \in 1 .. Len(sent) /\ Old + (i - Old) = i
        BY <1>1, <3>2 DEF Old
      <4>2. copied[i] = <<Current, sent[i - Old].tap>>
        BY <4>1 DEF PipeInv, CopiedShape
      <4>3. /\ i - Old \in 1 .. Len(sent') /\ Len(sent) + 1 \in 1 .. Len(sent')
            /\ i - Old < Len(sent) + 1
            /\ sent'[i - Old].tap = sent'[Len(sent) + 1].tap
        BY <1>1, <2>1, <2>4, <4>1, <4>2
      <4>4. CopiesApart'
        BY DEF DistInv
      <4>5. FrameToItself(msg)
        BY <1>1, <4>3, <4>4 DEF CopiesApart, FrameToItself
      <4> QED BY <2>3, <4>2, <4>5
    <3> QED BY <3>1, <3>2
  <2>5. ASSUME NEW i \in 1 .. Len(copied'), NEW j \in 1 .. Len(copied'),
               i < j, copied'[i][2] = copied'[j][2],
               0 \notin {copied'[i][1], copied'[j][1]}
        PROVE  \/ copied'[i][1] < copied'[j][1]
               \/ copied'[i][1] = copied'[j][1] /\ ToItself(copied'[i][1])
    <3>1. i \in 1 .. Len(copied)
      BY <1>1, <2>2, <2>5
    <3>2. CASE j \in 1 .. Len(copied)
      BY <2>2, <2>5, <3>1, <3>2 DEF PipeInv, TapInOrder
    <3>3. CASE j = Len(copied) + 1
      BY <2>2, <2>4, <2>5, <3>1, <3>3
    <3>4. j \in 1 .. Len(copied) \/ j = Len(copied) + 1
      BY <2>2, <2>5
    <3> QED BY <3>2, <3>3, <3>4
  <2> QED BY <2>5 DEF TapInOrder, ToItself
<1> QED BY <1>2, <1>3, StepFacts

\* When main is done with a frame its copies have been made: those of a unicast
\* frame are for the entries of its stations.
LEMMA StepServed ==
    ASSUME DistInv, DistInv', PipeInv, RP!UlogInv, Step
    PROVE  ServedShape'
<1>1. /\ UNCHANGED <<handed, msg>> /\ handed # <<>>
      /\ pc \notin {"recv", "dead"}
      /\ Len(list_top) <= Len(list_top')
      /\ Len(list_top) \in Nat /\ Len(list_top') \in Nat
      /\ \A i \in 1 .. Len(list_top) : list_top'[i] = list_top[i]
  BY StepFacts
<1>2. \A l \in 1 .. Len(copied) :
          l \in 1 .. Len(copied') /\ copied'[l] = copied[l]
  BY StepCopied
<1>3. ASSUME NEW n, Served(n) PROVE Served(n)'
  <2> SUFFICES ASSUME Unicast(n), NEW m \in Parties(n)
               PROVE  \E k \in 1 .. Len(list_top') :
                          /\ list_top'[k].mac_add = m
                          /\ \E l \in 1 .. Len(copied') :
                                copied'[l] = <<n, list_top'[k].tap_name>>
    BY DEF Served, Unicast, Parties, FloodFrame
  <2>1. PICK k \in 1 .. Len(list_top), l \in 1 .. Len(copied) :
            /\ list_top[k].mac_add = m
            /\ copied[l] = <<n, list_top[k].tap_name>>
    BY <1>3 DEF Served
  <2>2. k \in 1 .. Len(list_top') /\ list_top'[k] = list_top[k]
    BY <1>1
  <2> QED BY <1>2, <2>1, <2>2
<1>4. ASSUME NEW n, n = Current, pc' = "recv" PROVE Served(n)'
  <2>1. /\ msg = Contents[n] /\ Current' = n
        /\ msg \in Frames /\ msg \in Frame
    BY <1>1, <1>4, CurrentFrame DEF Current
  <2> SUFFICES ASSUME Unicast(n), NEW m \in Parties(n)
               PROVE  \E k \in 1 .. Len(list_top') :
                          /\ list_top'[k].mac_add = m
                          /\ \E l \in 1 .. Len(copied') :
                                copied'[l] = <<n, list_top'[k].tap_name>>
    BY DEF Served, Unicast, Parties, FloodFrame
  <2>2. /\ msg.version /\ ~FloodFrame(msg)
        /\ msg.physout \in BOOLEAN /\ msg.physin \in BOOLEAN
    BY <2>1 DEF Unicast, Frame
  <2>3. /\ Len(sent') = (IF msg.physout THEN 1 ELSE 0) +
                        (IF msg.physin THEN 1 ELSE 0)
        /\ \A k \in 1 .. Len(sent') : \E i \in 1 .. Len(list_top') :
              /\ sent'[k].tap = list_top'[i].tap_name
              /\ list_top'[i].mac_add =
                    IF k = 1 /\ msg.physout THEN msg.dst ELSE msg.src
    BY <1>1, <1>4, <2>1, <2>2 DEF DistInv, UnicastShape, CopyFor, FloodFrame
  <2>4. \E k \in 1 .. Len(sent') :
            m = IF k = 1 /\ msg.physout THEN msg.dst ELSE msg.src
    <3>1. CASE msg.physout /\ m = msg.dst
      <4>1. 1 \in 1 .. Len(sent')
        BY <2>2, <2>3, <3>1
      <4> QED BY <3>1, <4>1
    <3>2. CASE msg.physin /\ m = msg.src
      <4>1. /\ Len(sent') \in 1 .. Len(sent')
            /\ Len(sent') = 1 => ~msg.physout
        BY <2>2, <2>3, <3>2
      <4> QED BY <3>2, <4>1
    <3> QED BY <2>1, <3>1, <3>2 DEF Parties
  <2>5. PICK k \in 1 .. Len(sent'), i \in 1 .. Len(list_top') :
            /\ sent'[k].tap = list_top'[i].tap_name
            /\ list_top'[i].mac_add = m
    BY <2>3, <2>4
  <2>6. copied'[Old' + k] = <<n, sent'[k].tap>>
    BY <2>1, StepCopied DEF CopiedShape
  <2>7. Old' + k \in 1 .. Len(copied')
    <3>1. Len(sent') \in Nat /\ Len(copied') \in Nat
          /\ Len(sent') <= Len(copied')
      BY StepCopied DEF CopiedShape, DistInv, IInv, TypeOK
    <3> QED BY <3>1 DEF Old
  <2> QED BY <2>5, <2>6, <2>7
<1>5. ASSUME NEW n, Done(n)'
      PROVE  Served(n)'
  <2>1. PICK k \in 1 .. Len(handed) :
            handed[k] = n /\ (k < Len(handed) \/ pc' = "recv")
    BY <1>1, <1>5 DEF Done
  <2>2. CASE k < Len(handed)
    <3>1. Served(n)
      BY <2>1, <2>2 DEF PipeInv, ServedShape, Done
    <3> QED BY <1>3, <3>1
  <2>3. CASE k = Len(handed)
    <3>1. n = Current /\ pc' = "recv"
      BY <2>1, <2>3 DEF Current
    <3> QED BY <1>4, <3>1
  <2>4. Len(handed) \in Nat
    BY ReaderTypes
  <2> QED BY <2>1, <2>2, <2>3, <2>4
<1> QED BY <1>5 DEF ServedShape

LEMMA StepPipe ==
    ASSUME DistInv, DistInv', PipeInv, RP!UlogInv, Step
    PROVE  PipeInv'
<1>1. MeetShape'
  BY StepFacts DEF MeetShape
<1> QED BY <1>1, StepCopied, StepOrder, StepServed DEF PipeInv

LEMMA NextPipe ==
    ASSUME DistInv, DistInv', HandedShape', RP!UlogInv, RP!UlogInv',
           PipeInv, [PipeNext]_pipeVars
    PROVE  PipeInv'
<1>1. CASE Boot
  BY <1>1, BootPipe
<1>2. CASE Hand
  BY <1>2, HandPipe
<1>3. CASE Step
  BY <1>3, StepPipe
<1>4. CASE Stop
  BY <1>4, StopPipe
<1>5. CASE Kernel \/ GetPacket \/ Skip \/ PipeForeign \/ UNCHANGED pipeVars
  <2>1. UNCHANGED <<handed, copied, sent, msg, pc, list_top>>
    BY <1>5 DEF Kernel, GetPacket, Skip, PipeForeign, Foreign, program,
                pipeVars, vars, reader, Reader!Capture, Reader!Flush,
                Reader!StrayArrives, Reader!Call, Reader!ParseError,
                Reader!readerVars
  <2>2. MeetShape'
    <3>1. CASE UNCHANGED at
      BY <2>1, <3>1 DEF PipeInv, MeetShape
    <3>2. CASE GetPacket \/ Skip
      BY <2>1, <3>2 DEF GetPacket, Skip, Reader!Call, Reader!ParseError,
                        PipeInv, MeetShape
    <3> QED BY <1>5, <3>1, <3>2 DEF Kernel, PipeForeign, pipeVars, reader,
               Reader!Capture, Reader!Flush, Reader!StrayArrives,
               Reader!readerVars
  <2> QED BY <2>1, <2>2, SamePackets
<1> QED BY <1>1, <1>2, <1>3, <1>4, <1>5 DEF PipeNext

\* Reader, distribution and what links them agree at every step of the program.
THEOREM PipeInvariance ==
    PipeSpec => [](DistInv /\ RP!UlogInv /\ HandedShape /\ PipeInv)
<1>1. PipeSpec => []DistInv
  BY DistributorKept, Distribution, PTL
<1> QED BY <1>1, ReaderInv, AlwaysHanded, InitPipe, NextPipe, PTL DEF PipeSpec

\* Type correctness, with where main is in its two parts.
THEOREM PipeTypes == PipeSpec => []PipeTypeOK
<1>1. DistInv /\ RP!UlogInv /\ PipeInv => PipeTypeOK
  <2>1. RP!UlogTypeOK => Reader!UlogTypeOK
    BY DEF RP!UlogTypeOK, Reader!UlogTypeOK, RP!Datagram, Reader!Datagram
  <2> QED BY <2>1 DEF DistInv, IInv, RP!UlogInv, PipeInv, MeetShape,
                      CopiedShape, PipeTypeOK
<1> QED BY <1>1, PipeInvariance, PTL

\* A tap gets the packets in the order of their capture and none twice.
THEOREM TapsInOrder == PipeSpec => []TapInOrder
<1>1. PipeInv => TapInOrder
  BY DEF PipeInv
<1> QED BY <1>1, PipeInvariance, PTL

\* No unicast packet is missing from the taps of its stations between two that
\* main was given.
THEOREM TapsWithoutGap == PipeSpec => []NoGap
<1>1. RP!UlogInv /\ PipeInv => NoGap
  <2> SUFFICES ASSUME RP!UlogInv, PipeInv,
                      NEW i \in 1 .. Len(handed), NEW j \in 1 .. Len(handed),
                      NEW n \in handed[i] + 1 .. handed[j] - 1,
                      handed[i] # 0, Unicast(n)
               PROVE  Served(n)
    BY DEF NoGap, Served
  <2>1. /\ handed \in Seq(Nat) /\ Len(handed) \in Nat
        /\ handed[i] \in Nat /\ handed[j] \in Nat
    BY ReaderTypes
  <2>2. n \in Nat /\ handed[i] < n /\ n < handed[j] /\ handed[j] # 0
    BY <2>1
  <2>3. RP!Unbroken
    BY DEF RP!UlogInv
  <2>4. \A h, k \in 1 .. Len(handed) :
            h < k /\ handed[h] # 0 /\ handed[k] # 0 =>
                /\ handed[h] < handed[k]
                /\ \A x \in handed[h] + 1 .. handed[k] - 1 :
                      \E g \in h + 1 .. k - 1 : handed[g] = x
    BY <2>1, <2>3, ReaderConstants, RP!HandedInOrder
  <2>5. i < j
    <3>1. ~(j < i) /\ i # j
      BY <2>1, <2>2, <2>4
    <3> QED BY <2>1, <3>1
  <2>6. PICK g \in i + 1 .. j - 1 : handed[g] = n
    BY <2>2, <2>4, <2>5
  <2>7. g \in 1 .. Len(handed) /\ g < Len(handed)
    BY <2>1
  <2>8. Done(n)
    BY <2>6, <2>7 DEF Done
  <2> QED BY <2>8 DEF PipeInv, ServedShape
<1> QED BY <1>1, PipeInvariance, PTL
=============================================================================
