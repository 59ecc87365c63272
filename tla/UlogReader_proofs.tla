-------------------------- MODULE UlogReader_proofs --------------------------
(***************************************************************************)
(* Proofs about UlogReader, for any number of packets, any batches and     *)
(* socket buffer, any arguments, stray datagrams and restarts.             *)
(***************************************************************************)
EXTENDS UlogReader, Arithmetic_proofs

\* The packets on their way to main are in four places: those handed over, the
\* rest of buf from nlh on, the datagrams in the socket, and the batch of the
\* kernel, which begins after sentUpTo.  Unbroken is about the first place
\* alone; that it is kept takes that each place goes on where the one before
\* it ends, with strays between them anywhere.

\* A datagram of ebt_ulog.
Real(d) == d.first # 0

\* The message nlh stands on is one of ebt_ulog.
Reading == nlh \in Nat \ {0}

LastHanded(i) ==
    /\ handed[i] # 0
    /\ \A k \in i + 1 .. Len(handed) : handed[k] = 0

FirstQueued(j) ==
    /\ Real(queue[j])
    /\ \A k \in 1 .. j - 1 : ~Real(queue[k])

LastQueued(j) ==
    /\ Real(queue[j])
    /\ \A k \in j + 1 .. Len(queue) : ~Real(queue[k])

NoneQueued == \A k \in 1 .. Len(queue) : ~Real(queue[k])

\* What a datagram is.  What fails NLMSG_OK is not of ebt_ulog; what passes may
\* be anyone's.
Shape(d) ==
    /\ Real(d) => /\ 1 <= d.first /\ d.first <= d.last /\ d.last <= sentUpTo
                  /\ d.ok
    /\ ~Real(d) => d.last = 0

\* CursorInside, and that 0 is all the cursor meets in what is not of ebt_ulog.
CursorInBuf == nlh # NULL => nlh \in buf.first .. buf.last

DatagramShape ==
    /\ Shape(buf)
    /\ \A j \in 1 .. Len(queue) : Shape(queue[j])
    /\ CursorInBuf

\* Between the datagrams of the socket.
QueueGoesOn ==
    \A i, j \in 1 .. Len(queue) :
        /\ i < j
        /\ Real(queue[i]) /\ Real(queue[j])
        /\ \A k \in i + 1 .. j - 1 : ~Real(queue[k])
        => queue[j].first = queue[i].last + 1

\* From the packets handed over to buf, or to the socket.
HandedGoesOn ==
    \A i \in 1 .. Len(handed) : LastHanded(i) =>
        /\ Reading => nlh = handed[i] + 1
        /\ ~Reading => \A j \in 1 .. Len(queue) :
                          FirstQueued(j) => queue[j].first = handed[i] + 1

\* From buf to the socket.
BufGoesOn ==
    Reading => \A j \in 1 .. Len(queue) :
                  FirstQueued(j) => queue[j].first = buf.last + 1

\* To the batch of the kernel, unless a datagram has been lost.
BatchGoesOn ==
    ~overrun =>
        /\ \A j \in 1 .. Len(queue) : LastQueued(j) => queue[j].last = sentUpTo
        /\ NoneQueued /\ Reading => buf.last = sentUpTo
        /\ NoneQueued /\ ~Reading =>
              \A i \in 1 .. Len(handed) : LastHanded(i) => handed[i] = sentUpTo

\* A process that listens to another group, or none, has nothing of all this.
NothingHeard ==
    pc = "dead" \/ GroupOf(arg) # RuleGroup =>
        /\ NoneQueued
        /\ ~Reading
        /\ \A i \in 1 .. Len(handed) : handed[i] = 0

DeadShape ==
    pc = "dead" => queue = <<>> /\ ~overrun /\ nlh = NULL /\ handed = <<>>

UlogInv ==
    /\ UlogTypeOK
    /\ DatagramShape
    /\ Unbroken
    /\ QueueGoesOn
    /\ HandedGoesOn
    /\ BufGoesOn
    /\ BatchGoesOn
    /\ NothingHeard
    /\ DeadShape

-----------------------------------------------------------------------------
\* What another process writes to the group is a datagram too.
LEMMA StrayType == \A ok \in BOOLEAN : Stray(ok) \in Datagram
BY DEF Stray, Datagram

\* The initial states satisfy the invariant.
LEMMA UlogInitInv == UlogInit => UlogInv
<1> SUFFICES ASSUME UlogInit PROVE UlogInv
  OBVIOUS
<1> USE UlogAssumption
<1>1. UlogTypeOK
  <2>1. overrun \in BOOLEAN
    BY Zenon DEF UlogInit
  <2>2. buf \in Datagram
    BY DEF UlogInit, Stray, Datagram
  <2> QED BY <2>1, <2>2 DEF UlogInit, UlogTypeOK, Stray
<1>2. DatagramShape
  BY DEF UlogInit, DatagramShape, Shape, Stray, Real, CursorInBuf
<1>3. Unbroken /\ QueueGoesOn /\ HandedGoesOn /\ BufGoesOn /\ BatchGoesOn
  <2>1. sentUpTo = 0 /\ queue = <<>> /\ handed = <<>> /\ ~Reading
    BY DEF UlogInit, Reading
  <2> QED BY <2>1 DEF Unbroken, QueueGoesOn, HandedGoesOn, BufGoesOn,
                      BatchGoesOn
<1>4. NothingHeard /\ DeadShape
  BY DEF UlogInit, NothingHeard, DeadShape, NoneQueued, Reading
<1> QED BY <1>1, <1>2, <1>3, <1>4 DEF UlogInv

\* The end of the process: the four places of a run are empty.
LEMMA ExitInv ==
    ASSUME UlogInv, Exit
    PROVE  UlogInv'
<1> USE UlogAssumption
<1>1. UlogTypeOK'
  <2>1. overrun' \in BOOLEAN
    BY Zenon DEF Exit
  <2>2. buf' \in Datagram
    BY DEF Exit, Stray, Datagram
  <2>3. UNCHANGED <<captured, sentUpTo, strays>>
    BY DEF Exit
  <2> QED BY <2>1, <2>2, <2>3 DEF UlogInv, UlogTypeOK, Exit, Stray
<1>2. DatagramShape'
  BY DEF Exit, DatagramShape, Shape, Stray, Real, CursorInBuf
<1>3. (Unbroken /\ QueueGoesOn /\ HandedGoesOn /\ BufGoesOn /\ BatchGoesOn)'
  <2>1. queue' = <<>> /\ handed' = <<>> /\ ~Reading'
    BY DEF Exit, Reading
  <2> QED BY <2>1 DEF Unbroken, QueueGoesOn, HandedGoesOn, BufGoesOn,
                      BatchGoesOn
<1>4. (NothingHeard /\ DeadShape)'
  BY DEF Exit, NothingHeard, DeadShape, NoneQueued, Reading
<1> QED BY <1>1, <1>2, <1>3, <1>4 DEF UlogInv

\* The steps that move nothing from one place to another.
LEMMA StayInv ==
    ASSUME UlogInv,
           \/ Capture
           \/ Call
           \/ UNCHANGED ulogVars
    PROVE  UlogInv'
<1>1. /\ UNCHANGED <<queue, overrun, arg, buf, nlh, handed, sentUpTo>>
      /\ pc' = "dead" <=> pc = "dead"
  BY DEF Capture, Call, ulogVars, kernelVars, readerVars
<1>2. UlogTypeOK'
  BY DEF UlogInv, UlogTypeOK, Capture, Call, ulogVars, kernelVars, readerVars
<1>3. DatagramShape' /\ Unbroken' /\ QueueGoesOn'
  BY <1>1 DEF UlogInv, DatagramShape, Shape, Real, CursorInBuf, Unbroken,
              QueueGoesOn
<1>4. HandedGoesOn' /\ BufGoesOn' /\ BatchGoesOn'
  BY <1>1 DEF UlogInv, HandedGoesOn, BufGoesOn, BatchGoesOn, LastHanded,
              FirstQueued, LastQueued, NoneQueued, Reading, Real
<1>5. NothingHeard' /\ DeadShape'
  BY <1>1 DEF UlogInv, NothingHeard, DeadShape, NoneQueued, Reading, Real
<1> QED BY <1>2, <1>3, <1>4, <1>5 DEF UlogInv

\* A new process: its socket is empty.
LEMMA BindInv ==
    ASSUME UlogInv, NEW i \in Arguments \cup {1}, Bind(i)
    PROVE  UlogInv'
<1> USE UlogAssumption
<1>1. /\ queue' = <<>> /\ ~overrun' /\ nlh' = NULL /\ handed' = <<>>
      /\ buf' = buf /\ sentUpTo' = sentUpTo /\ pc' = "main"
  BY DEF UlogInv, DeadShape, Bind, kernelVars
<1>2. UlogTypeOK'
  BY DEF UlogInv, UlogTypeOK, Bind, kernelVars
<1>3. DatagramShape' /\ Unbroken' /\ QueueGoesOn'
  BY <1>1 DEF UlogInv, DatagramShape, Shape, Real, CursorInBuf, Unbroken,
              QueueGoesOn
<1>4. HandedGoesOn' /\ BufGoesOn' /\ BatchGoesOn'
  BY <1>1 DEF HandedGoesOn, BufGoesOn, BatchGoesOn, Reading
<1>5. NothingHeard' /\ DeadShape'
  BY <1>1 DEF NothingHeard, DeadShape, NoneQueued, Reading
<1> QED BY <1>2, <1>3, <1>4, <1>5 DEF UlogInv

-----------------------------------------------------------------------------
\* What the type invariant says of the datagrams at hand.
LEMMA Fields ==
    ASSUME UlogTypeOK
    PROVE  /\ queue \in Seq(Datagram)
           /\ Len(queue) \in Nat
           /\ \A k \in 1 .. Len(queue) :
                 queue[k].first \in Nat /\ queue[k].last \in Nat
           /\ buf.first \in Nat /\ buf.last \in Nat
           /\ handed \in Seq(Nat)
           /\ Len(handed) \in Nat
           /\ \A k \in 1 .. Len(handed) : handed[k] \in Nat
           /\ sentUpTo \in Nat
<1>1. /\ queue \in Seq(Datagram) /\ buf \in Datagram
      /\ handed \in Seq(Nat) /\ sentUpTo \in Nat
  BY UlogAssumption DEF UlogTypeOK
<1>2. \A k \in 1 .. Len(queue) : queue[k] \in Datagram
  BY <1>1
<1>3. \A e \in Datagram : e.first \in Nat /\ e.last \in Nat
  BY DEF Datagram
<1> QED BY <1>1, <1>2, <1>3

\* The kernel sends its batch: it follows what was sent before, or the socket
\* keeps the error.
LEMMA FlushInv ==
    ASSUME UlogInv, Flush
    PROVE  UlogInv'
<1> USE UlogAssumption
<1> DEFINE d == [first |-> sentUpTo + 1, last |-> captured, ok |-> TRUE]
           bound == pc # "dead" /\ GroupOf(arg) = RuleGroup
           full == overrun \/ Len(queue) >= SockRoom
<1>1. /\ captured \in Nat /\ sentUpTo \in Nat /\ sentUpTo < captured
      /\ sentUpTo' = captured /\ captured' = captured
      /\ UNCHANGED <<strays, arg, buf, nlh, pc, handed>>
  BY DEF UlogInv, UlogTypeOK, Flush, readerVars
<1>2. /\ queue' = IF bound /\ ~full THEN Append(queue, d) ELSE queue
      /\ overrun' = (overrun \/ (bound /\ full))
  BY Zenon DEF Flush, NetlinkBroadcast
<1>3. /\ d \in Datagram
      /\ d.first = sentUpTo + 1 /\ d.last = captured /\ d.ok
  BY <1>1 DEF Datagram
<1>4. /\ queue \in Seq(Datagram) /\ Len(queue) \in Nat
      /\ \A k \in 1 .. Len(queue) :
            queue[k].first \in Nat /\ queue[k].last \in Nat
      /\ buf.first \in Nat /\ buf.last \in Nat
  BY Fields DEF UlogInv
<1>5. Unbroken'
  BY <1>1 DEF UlogInv, Unbroken
<1> HIDE DEF d, bound, full
<1>6. overrun' \in BOOLEAN
  BY <1>2, Zenon DEF bound, full
<1>7. CASE bound /\ ~full
  <2>1. bound /\ ~overrun /\ ~overrun'
    BY <1>2, <1>7, Zenon DEF full
  <2>2. queue' = Append(queue, d)
    BY <1>2, <1>7
  <2>3. /\ queue' \in Seq(Datagram)
        /\ Len(queue') = Len(queue) + 1
        /\ \A k \in 1 .. Len(queue) : queue'[k] = queue[k]
        /\ queue'[Len(queue) + 1] = d
        /\ \A k \in 1 .. Len(queue') :
              k \in 1 .. Len(queue) \/ k = Len(queue) + 1
    BY <1>3, <1>4, <2>2, Appending
  <2>4. UlogTypeOK'
    BY <1>1, <1>6, <2>3 DEF UlogInv, UlogTypeOK
  <2>5. DatagramShape'
    <3>1. d.ok /\ 1 <= d.first /\ d.first <= d.last /\ d.last <= sentUpTo'
      BY <1>1, <1>3
    <3>2. Shape(buf)' /\ CursorInBuf'
      BY <1>1, <1>4 DEF UlogInv, DatagramShape, Shape, Real, CursorInBuf
    <3>3. \A k \in 1 .. Len(queue) : Shape(queue[k])'
      BY <1>1, <1>4, <2>3 DEF UlogInv, DatagramShape, Shape, Real
    <3> QED BY <1>4, <2>3, <3>1, <3>2, <3>3 DEF DatagramShape, Shape, Real
  \* The datagram is the first of ebt_ulog only where there was none.
  <2>6. \A j \in 1 .. Len(queue') : FirstQueued(j)' =>
           \/ j \in 1 .. Len(queue) /\ FirstQueued(j)
           \/ j = Len(queue) + 1 /\ NoneQueued
    <3> SUFFICES ASSUME NEW j \in 1 .. Len(queue'), Real(queue'[j]),
                        \A k \in 1 .. j - 1 : ~Real(queue'[k])
                 PROVE  \/ j \in 1 .. Len(queue) /\ FirstQueued(j)
                        \/ j = Len(queue) + 1 /\ NoneQueued
      BY DEF FirstQueued, Real
    <3>1. CASE j \in 1 .. Len(queue)
      BY <1>4, <2>3, <3>1 DEF FirstQueued
    <3>2. CASE j = Len(queue) + 1
      BY <1>4, <2>3, <3>2 DEF NoneQueued
    <3> QED BY <2>3, <3>1, <3>2
  <2>7. /\ \A j \in 1 .. Len(queue) : LastQueued(j) => queue[j].last = sentUpTo
        /\ NoneQueued /\ Reading => buf.last = sentUpTo
        /\ NoneQueued /\ ~Reading =>
              \A i \in 1 .. Len(handed) : LastHanded(i) => handed[i] = sentUpTo
    BY <2>1, Zenon DEF UlogInv, BatchGoesOn
  <2>8. QueueGoesOn'
    <3> SUFFICES ASSUME NEW i \in 1 .. Len(queue'), NEW j \in 1 .. Len(queue'),
                        i < j, Real(queue[i])', Real(queue[j])',
                        \A k \in i + 1 .. j - 1 : ~Real(queue[k])'
                 PROVE  (queue[j].first = queue[i].last + 1)'
      BY Zenon DEF QueueGoesOn
    <3>1. i \in 1 .. Len(queue) /\ queue'[i] = queue[i]
      BY <1>4, <2>3
    <3>2. CASE j \in 1 .. Len(queue)
      <4>0. \A k \in i + 1 .. j - 1 : k \in 1 .. Len(queue)
        BY <1>4, <3>1, <3>2
      <4>1. \A k \in i + 1 .. j - 1 : ~Real(queue[k])
        BY <2>3, <4>0 DEF Real
      <4>2. queue'[j] = queue[j]
        BY <2>3, <3>2
      <4> QED BY <3>1, <3>2, <4>1, <4>2 DEF UlogInv, QueueGoesOn, Real
    <3>3. CASE j = Len(queue) + 1
      <4>1. LastQueued(i)
        BY <1>4, <2>3, <3>1, <3>3 DEF LastQueued, Real
      <4> QED BY <1>3, <2>3, <2>7, <3>1, <3>3, <4>1
    <3> QED BY <2>3, <3>2, <3>3
  <2>9. HandedGoesOn' /\ BufGoesOn'
    <3>1. HandedGoesOn'
      <4> SUFFICES ASSUME NEW i \in 1 .. Len(handed), LastHanded(i)
                   PROVE  /\ Reading => nlh = handed[i] + 1
                          /\ ~Reading => \A j \in 1 .. Len(queue') :
                                FirstQueued(j)' =>
                                   queue'[j].first = handed[i] + 1
        BY <1>1 DEF HandedGoesOn, LastHanded, Reading
      <4>1. Reading => nlh = handed[i] + 1
        BY DEF UlogInv, HandedGoesOn
      <4>2. ASSUME ~Reading, NEW j \in 1 .. Len(queue'), FirstQueued(j)'
            PROVE  queue'[j].first = handed[i] + 1
        <5>1. CASE j \in 1 .. Len(queue) /\ FirstQueued(j)
          BY <2>3, <4>2, <5>1 DEF UlogInv, HandedGoesOn
        <5>2. CASE j = Len(queue) + 1 /\ NoneQueued
          BY <1>3, <2>3, <2>7, <4>2, <5>2
        <5> QED BY <2>6, <4>2, <5>1, <5>2
      <4> QED BY <4>1, <4>2
    <3>2. BufGoesOn'
      <4> SUFFICES ASSUME Reading, NEW j \in 1 .. Len(queue'), FirstQueued(j)'
                   PROVE  queue'[j].first = buf.last + 1
        BY <1>1 DEF BufGoesOn, Reading
      <4> QED BY <1>1, <1>3, <1>4, <2>3, <2>6, <2>7 DEF UlogInv, BufGoesOn
    <3> QED BY <3>1, <3>2
  <2>10. BatchGoesOn'
    BY <1>1, <1>3, <1>4, <2>3 DEF BatchGoesOn, LastQueued, NoneQueued, Real
  <2>11. NothingHeard' /\ DeadShape'
    BY <1>1, <2>1 DEF bound, NothingHeard, DeadShape, GroupOf
  <2> QED BY <1>5, <2>4, <2>5, <2>8, <2>9, <2>10, <2>11 DEF UlogInv
<1>8. CASE ~(bound /\ ~full)
  <2>1. queue' = queue
    BY <1>2, <1>8
  <2>2. ~overrun' => ~overrun /\ ~bound
    BY <1>2, <1>8, Zenon DEF full
  <2>3. UlogTypeOK'
    BY <1>1, <1>6, <2>1 DEF UlogInv, UlogTypeOK
  <2>4. DatagramShape' /\ QueueGoesOn'
    BY <1>1, <1>4, <2>1 DEF UlogInv, DatagramShape, Shape, Real, CursorInBuf,
                           QueueGoesOn
  <2>5. HandedGoesOn' /\ BufGoesOn'
    BY <1>1, <2>1 DEF UlogInv, HandedGoesOn, BufGoesOn, LastHanded,
                     FirstQueued, Reading, Real
  \* Who does not listen has nothing that the batch would have to go on from.
  <2>6. BatchGoesOn'
    BY <1>1, <2>1, <2>2 DEF UlogInv, BatchGoesOn, NothingHeard, bound,
       LastHanded, LastQueued, NoneQueued, Reading, Real
  <2>7. NothingHeard'
    BY <1>1, <2>1 DEF UlogInv, NothingHeard, NoneQueued, Reading, Real, GroupOf
  <2>8. DeadShape'
    <3>1. pc = "dead" => ~overrun /\ ~bound
      BY Zenon DEF UlogInv, DeadShape, bound
    <3>2. pc = "dead" => ~overrun'
      BY <1>2, <3>1, Zenon
    <3> QED BY <1>1, <2>1, <3>2 DEF UlogInv, DeadShape
  <2> QED BY <1>5, <2>3, <2>4, <2>5, <2>6, <2>7, <2>8 DEF UlogInv
<1> QED BY <1>7, <1>8

\* Another process writes to the group: no place of a packet of ebt_ulog
\* changes, but the socket may keep the error.
LEMMA StrayInv ==
    ASSUME UlogInv, StrayArrives
    PROVE  UlogInv'
<1> USE UlogAssumption
<1> DEFINE full == overrun \/ Len(queue) >= SockRoom
<1>1. /\ pc # "dead" /\ strays \in Nat /\ strays < MaxStrays
      /\ strays' = strays + 1
      /\ UNCHANGED <<captured, sentUpTo, arg, buf, nlh, pc, handed>>
  BY DEF UlogInv, UlogTypeOK, StrayArrives, readerVars
<1>0. PICK ok \in StrayOk : NetlinkBroadcast(Stray(ok), GroupOf(arg))
  BY Zenon DEF StrayArrives
<1> DEFINE d == Stray(ok)
<1>2. /\ queue' = IF ~full THEN Append(queue, d) ELSE queue
      /\ overrun' = (overrun \/ full)
  <2>1. /\ queue' = IF pc # "dead" /\ ~full
                   THEN Append(queue, d) ELSE queue
        /\ overrun' = (overrun \/ (pc # "dead" /\ full))
    BY <1>0, Zenon DEF NetlinkBroadcast
  <2>2. overrun' = (overrun \/ full)
    BY <1>1, <2>1, Zenon
  <2> QED BY <1>1, <2>1, <2>2
<1>3. /\ queue \in Seq(Datagram) /\ Len(queue) \in Nat
      /\ d \in Datagram /\ ~Real(d) /\ d.last = 0
  <2>1. ok \in BOOLEAN
    OBVIOUS
  <2> QED BY <2>1, Fields, StrayType DEF UlogInv, Stray, Real
<1> HIDE DEF full, d
<1>4. /\ overrun' \in BOOLEAN
      /\ ~overrun' => ~overrun
  BY <1>2, Zenon DEF full
<1>5. /\ queue' \in Seq(Datagram)
      /\ Len(queue') \in {Len(queue), Len(queue) + 1}
      /\ \A k \in 1 .. Len(queue) : queue'[k] = queue[k]
      /\ \A k \in 1 .. Len(queue') : k \notin 1 .. Len(queue) =>
            queue'[k] = d
  <2>1. CASE full
    BY <1>2, <1>3, <2>1
  <2>2. CASE ~full
    <3>1. queue' = Append(queue, d)
      BY <1>2, <2>2
    <3> QED BY <1>3, <3>1, Appending
  <2> QED BY <2>1, <2>2
<1>6. UlogTypeOK'
  BY <1>1, <1>4, <1>5 DEF UlogInv, UlogTypeOK
<1>7. DatagramShape'
  <2>1. \A k \in 1 .. Len(queue') : Shape(queue'[k])
    BY <1>3, <1>5 DEF UlogInv, DatagramShape, Shape, Real
  <2> QED BY <1>1, <2>1 DEF UlogInv, DatagramShape, Shape, CursorInBuf
\* The real datagrams are where they were.
<1>8. \A k \in 1 .. Len(queue') :
         Real(queue'[k]) => k \in 1 .. Len(queue) /\ Real(queue[k])
  BY <1>3, <1>5
<1>9. \A j \in 1 .. Len(queue') :
         /\ FirstQueued(j)' => j \in 1 .. Len(queue) /\ FirstQueued(j)
         /\ LastQueued(j)' => j \in 1 .. Len(queue) /\ LastQueued(j)
  <2>2. ASSUME NEW j \in 1 .. Len(queue'), FirstQueued(j)'
        PROVE  j \in 1 .. Len(queue) /\ FirstQueued(j)
    <3>1. j \in 1 .. Len(queue) /\ Real(queue[j])
      BY <1>8, <2>2 DEF FirstQueued, Real
    <3>2. \A k \in 1 .. j - 1 : k \in 1 .. Len(queue)
      BY <1>3, <3>1
    <3> QED BY <1>5, <2>2, <3>1, <3>2 DEF FirstQueued, Real
  <2>3. ASSUME NEW j \in 1 .. Len(queue'), LastQueued(j)'
        PROVE  j \in 1 .. Len(queue) /\ LastQueued(j)
    <3>1. j \in 1 .. Len(queue) /\ Real(queue[j])
      BY <1>8, <2>3 DEF LastQueued, Real
    <3>2. \A k \in j + 1 .. Len(queue) :
             k \in 1 .. Len(queue) /\ k \in j + 1 .. Len(queue')
      BY <1>3, <1>5, <3>1
    <3> QED BY <1>5, <2>3, <3>1, <3>2 DEF LastQueued, Real
  <2> QED BY <2>2, <2>3
<1>10. NoneQueued' <=> NoneQueued
  BY <1>3, <1>5, <1>8 DEF NoneQueued, Real
<1>11. Unbroken'
  BY <1>1 DEF UlogInv, Unbroken
<1>12. QueueGoesOn'
  <2> SUFFICES ASSUME NEW i \in 1 .. Len(queue'), NEW j \in 1 .. Len(queue'),
                      i < j, Real(queue'[i]), Real(queue'[j]),
                      \A k \in i + 1 .. j - 1 : ~Real(queue'[k])
               PROVE  queue'[j].first = queue'[i].last + 1
    BY Zenon DEF QueueGoesOn, Real
  <2>1. /\ i \in 1 .. Len(queue) /\ queue'[i] = queue[i]
        /\ j \in 1 .. Len(queue) /\ queue'[j] = queue[j]
    BY <1>5, <1>8
  <2>2. \A k \in i + 1 .. j - 1 : ~Real(queue[k])
    BY <1>3, <1>5, <2>1
  <2> QED BY <2>1, <2>2 DEF UlogInv, QueueGoesOn
<1>13. HandedGoesOn'
  <2> SUFFICES ASSUME NEW i \in 1 .. Len(handed), LastHanded(i)
               PROVE  /\ Reading => nlh = handed[i] + 1
                      /\ ~Reading => \A j \in 1 .. Len(queue') :
                            FirstQueued(j)' => queue'[j].first = handed[i] + 1
    BY <1>1 DEF HandedGoesOn, LastHanded, Reading
  <2> QED BY <1>5, <1>9 DEF UlogInv, HandedGoesOn
<1>14. BufGoesOn'
  <2> SUFFICES ASSUME Reading, NEW j \in 1 .. Len(queue'), FirstQueued(j)'
               PROVE  queue'[j].first = buf.last + 1
    BY <1>1 DEF BufGoesOn, Reading
  <2> QED BY <1>5, <1>9 DEF UlogInv, BufGoesOn
<1>15. BatchGoesOn'
  <2> SUFFICES ASSUME ~overrun'
               PROVE  /\ \A j \in 1 .. Len(queue') :
                            LastQueued(j)' => queue'[j].last = sentUpTo
                      /\ NoneQueued /\ Reading => buf.last = sentUpTo
                      /\ NoneQueued /\ ~Reading =>
                            \A i \in 1 .. Len(handed) :
                               LastHanded(i) => handed[i] = sentUpTo
    BY <1>1, <1>10 DEF BatchGoesOn, LastHanded, Reading
  <2> QED BY <1>4, <1>5, <1>9 DEF UlogInv, BatchGoesOn
<1>16. NothingHeard' /\ DeadShape'
  BY <1>1, <1>10 DEF UlogInv, NothingHeard, DeadShape, Reading, GroupOf
<1> QED BY <1>6, <1>7, <1>11, <1>12, <1>13, <1>14, <1>15, <1>16 DEF UlogInv

\* What is handed over stays unbroken when the next packet follows the last.
LEMMA HandOver ==
    ASSUME UlogInv, NEW n \in Nat, handed' = Append(handed, n),
           \A i \in 1 .. Len(handed) :
              LastHanded(i) => n = 0 \/ n = handed[i] + 1
    PROVE  Unbroken'
<1>1. handed \in Seq(Nat)
  BY Fields DEF UlogInv
<1>2. /\ Len(handed) \in Nat
      /\ \A k \in 1 .. Len(handed) : handed'[k] = handed[k]
      /\ handed'[Len(handed) + 1] = n
      /\ \A k \in 1 .. Len(handed') :
            k \in 1 .. Len(handed) \/ k = Len(handed) + 1
  BY <1>1, Appending
<1> SUFFICES ASSUME NEW i \in 1 .. Len(handed'), NEW j \in 1 .. Len(handed'),
                    i < j, handed'[i] # 0, handed'[j] # 0,
                    \A k \in i + 1 .. j - 1 : handed'[k] = 0
             PROVE  handed'[j] = handed'[i] + 1
  BY Zenon DEF Unbroken
<1>3. j \in 1 .. Len(handed) + 1
  BY <1>2
<1>4. \A k \in i + 1 .. j - 1 : k \in 1 .. Len(handed)
  BY <1>2, <1>3
<1>5. i \in 1 .. Len(handed) /\ handed'[i] = handed[i]
  BY <1>2, <1>3
<1>6. \A k \in i + 1 .. j - 1 : handed[k] = 0
  BY <1>2, <1>4
<1>7. CASE j \in 1 .. Len(handed)
  <2>1. handed'[j] = handed[j]
    BY <1>2, <1>7
  <2> QED BY <1>5, <1>6, <1>7, <2>1 DEF UlogInv, Unbroken
<1>8. CASE j = Len(handed) + 1
  <2>1. (Len(handed) + 1) - 1 = Len(handed)
    BY <1>2
  <2>2. LastHanded(i)
    BY <1>5, <1>6, <1>8, <2>1 DEF LastHanded
  <2> QED BY <1>2, <1>5, <1>8, <2>2
<1> QED BY <1>2, <1>7, <1>8

\* A message left over in buf is handed over, and the cursor moves on in it or
\* leaves it for the socket.
LEMMA LeftoverInv ==
    ASSUME UlogInv, Leftover
    PROVE  UlogInv'
<1> USE UlogAssumption
<1>1. /\ pc = "get" /\ pc' = "main" /\ nlh # NULL
      /\ handed' = Append(handed, nlh)
      /\ nlh' \in After(buf, nlh)
      /\ UNCHANGED <<captured, sentUpTo, queue, strays, overrun, arg, buf>>
  BY DEF Leftover, kernelVars
<1>2. /\ nlh \in Nat /\ nlh \in buf.first .. buf.last
      /\ buf.first \in Nat /\ buf.last \in Nat
      /\ handed \in Seq(Nat)
      /\ UlogTypeOK
  BY <1>1, Fields DEF UlogInv, UlogTypeOK, DatagramShape, CursorInBuf
<1>3. /\ handed' \in Seq(Nat)
      /\ Len(handed) \in Nat
      /\ Len(handed') = Len(handed) + 1
      /\ \A k \in 1 .. Len(handed) : handed'[k] = handed[k]
      /\ handed'[Len(handed) + 1] = nlh
      /\ \A k \in 1 .. Len(handed') :
            k \in 1 .. Len(handed) \/ k = Len(handed) + 1
  BY <1>1, <1>2, Appending
\* The message is of ebt_ulog exactly when its datagram is.
<1>5. Reading <=> Real(buf)
  BY <1>2 DEF UlogInv, DatagramShape, Shape, Real, Reading
<1>4. Reading => nlh' = IF nlh < buf.last THEN nlh + 1 ELSE NULL
  BY <1>1, <1>2 DEF After, Multi, Done, Reading
<1>6. ~Reading => nlh = 0 /\ nlh' \in {NULL, 0}
  BY <1>1, <1>2 DEF After, Reading
<1>7. Reading' <=> Reading /\ nlh < buf.last
  BY <1>2, <1>4, <1>6 DEF Reading
<1>8. UlogTypeOK'
  <2>1. nlh' \in Nat \cup {NULL}
    BY <1>2, <1>4, <1>6
  <2> QED BY <1>1, <1>2, <1>3, <2>1 DEF UlogTypeOK
<1>9. DatagramShape'
  BY <1>1, <1>2, <1>4, <1>5, <1>6
     DEF UlogInv, DatagramShape, Shape, Real, CursorInBuf
\* The packet last handed over is this one, unless it was of a stray.
<1>10. \A i \in 1 .. Len(handed') : LastHanded(i)' =>
          \/ Reading /\ i = Len(handed) + 1
          \/ ~Reading /\ i \in 1 .. Len(handed) /\ LastHanded(i)
  <2> SUFFICES ASSUME NEW i \in 1 .. Len(handed'),
                      handed'[i] # 0,
                      \A k \in i + 1 .. Len(handed') : handed'[k] = 0
               PROVE  \/ Reading /\ i = Len(handed) + 1
                      \/ ~Reading /\ i \in 1 .. Len(handed) /\ LastHanded(i)
    BY DEF LastHanded
  <2>1. CASE i = Len(handed) + 1
    BY <1>2, <1>3, <2>1 DEF Reading
  <2>2. CASE i \in 1 .. Len(handed)
    <3>1. handed'[Len(handed) + 1] = 0
      BY <1>3, <2>2
    <3>2. \A k \in i + 1 .. Len(handed) : handed[k] = 0
      BY <1>3, <2>2
    <3> QED BY <1>3, <2>2, <3>1, <3>2 DEF LastHanded, Reading
  <2> QED BY <1>3, <2>1, <2>2
<1>11. Unbroken'
  BY <1>1, <1>2, <1>5, <1>6, HandOver DEF UlogInv, HandedGoesOn
<1>12. QueueGoesOn'
  BY <1>1 DEF UlogInv, QueueGoesOn, Real
<1>13. HandedGoesOn'
  <2> SUFFICES ASSUME NEW i \in 1 .. Len(handed'), LastHanded(i)'
               PROVE  /\ Reading' => nlh' = handed'[i] + 1
                      /\ ~Reading' => \A j \in 1 .. Len(queue) :
                            FirstQueued(j) => queue[j].first = handed'[i] + 1
    BY <1>1 DEF HandedGoesOn, FirstQueued, Real
  <2>1. CASE Reading /\ i = Len(handed) + 1
    BY <1>2, <1>3, <1>4, <1>7, <2>1 DEF UlogInv, BufGoesOn
  <2>2. CASE ~Reading /\ i \in 1 .. Len(handed) /\ LastHanded(i)
    BY <1>3, <1>7, <2>2 DEF UlogInv, HandedGoesOn
  <2> QED BY <1>10, <2>1, <2>2
<1>14. BufGoesOn'
  BY <1>1, <1>7 DEF UlogInv, BufGoesOn, FirstQueued, Real
<1>15. BatchGoesOn'
  <2> SUFFICES ASSUME ~overrun
               PROVE  /\ \A j \in 1 .. Len(queue) :
                            LastQueued(j) => queue[j].last = sentUpTo
                      /\ NoneQueued /\ Reading' => buf.last = sentUpTo
                      /\ NoneQueued /\ ~Reading' =>
                            \A i \in 1 .. Len(handed') :
                               LastHanded(i)' => handed'[i] = sentUpTo
    BY <1>1 DEF BatchGoesOn, LastQueued, NoneQueued, Real
  <2>1. /\ \A j \in 1 .. Len(queue) : LastQueued(j) => queue[j].last = sentUpTo
        /\ NoneQueued /\ Reading => buf.last = sentUpTo
        /\ NoneQueued /\ ~Reading =>
              \A i \in 1 .. Len(handed) : LastHanded(i) => handed[i] = sentUpTo
    BY Zenon DEF UlogInv, BatchGoesOn
  <2>2. ASSUME NoneQueued, ~Reading', NEW i \in 1 .. Len(handed'),
               LastHanded(i)'
        PROVE  handed'[i] = sentUpTo
    <3>1. CASE Reading /\ i = Len(handed) + 1
      BY <1>2, <1>3, <1>7, <2>1, <2>2, <3>1
    <3>2. CASE ~Reading /\ i \in 1 .. Len(handed) /\ LastHanded(i)
      BY <1>3, <2>1, <2>2, <3>2
    <3> QED BY <1>10, <2>2, <3>1, <3>2
  <2> QED BY <1>7, <2>1, <2>2
<1>16. NothingHeard' /\ DeadShape'
  <2> SUFFICES ASSUME GroupOf(arg) # RuleGroup
               PROVE  /\ NoneQueued
                      /\ ~Reading'
                      /\ \A i \in 1 .. Len(handed') : handed'[i] = 0
    BY <1>1 DEF NothingHeard, DeadShape, NoneQueued, Real, GroupOf
  <2>1. NoneQueued /\ ~Reading /\ \A i \in 1 .. Len(handed) : handed[i] = 0
    BY DEF UlogInv, NothingHeard
  <2> QED BY <1>3, <1>6, <1>7, <2>1
<1> QED BY <1>8, <1>9, <1>11, <1>12, <1>13, <1>14, <1>15, <1>16 DEF UlogInv

\* What becomes of the rest of the socket when recvfrom takes a datagram.
LEMMA Dequeued ==
    ASSUME UlogInv, queue # <<>>, queue' = Tail(queue)
    PROVE  /\ queue' \in Seq(Datagram)
           /\ Len(queue') \in Nat
           /\ 1 \in 1 .. Len(queue)
           /\ Head(queue) = queue[1] /\ queue[1] \in Datagram
           /\ queue[1].first \in Nat /\ queue[1].last \in Nat
           /\ \A j \in 1 .. Len(queue') :
                 j + 1 \in 1 .. Len(queue) /\ queue'[j] = queue[j + 1]
           /\ \A j \in 1 .. Len(queue') : LastQueued(j)' => LastQueued(j + 1)
           /\ Real(queue[1]) =>
                 /\ FirstQueued(1)
                 /\ NoneQueued' => LastQueued(1)
                 /\ \A j \in 1 .. Len(queue') : FirstQueued(j)' =>
                       queue'[j].first = queue[1].last + 1
           /\ ~Real(queue[1]) =>
                 /\ NoneQueued' => NoneQueued
                 /\ \A j \in 1 .. Len(queue') :
                       FirstQueued(j)' => FirstQueued(j + 1)
           /\ QueueGoesOn'
<1>1. queue \in Seq(Datagram)
  BY Fields DEF UlogInv
<1>2. /\ queue' \in Seq(Datagram)
      /\ Len(queue) \in Nat \ {0}
      /\ Len(queue') = Len(queue) - 1
      /\ \A k \in 1 .. Len(queue) - 1 : queue'[k] = queue[k + 1]
      /\ Head(queue) = queue[1] /\ queue[1] \in Datagram
  BY <1>1, Dequeuing
<1>3. 1 \in 1 .. Len(queue)
  BY <1>2
<1>4. queue[1].first \in Nat /\ queue[1].last \in Nat
  BY <1>3, Fields DEF UlogInv
<1>5. \A j \in 1 .. Len(queue') :
         j + 1 \in 1 .. Len(queue) /\ queue'[j] = queue[j + 1]
  BY <1>2
<1>6. ASSUME NEW j \in 1 .. Len(queue'), LastQueued(j)'
      PROVE  LastQueued(j + 1)
  <2>1. Real(queue[j + 1]) /\ j + 1 \in 1 .. Len(queue)
    BY <1>5, <1>6 DEF LastQueued, Real
  <2>2. ASSUME NEW k \in j + 2 .. Len(queue)
        PROVE  ~Real(queue[k])
    <3>1. k - 1 \in j + 1 .. Len(queue') /\ (k - 1) + 1 = k
      BY <1>2
    <3>2. queue'[k - 1] = queue[k]
      BY <1>2, <1>5, <3>1
    <3> QED BY <1>6, <3>1, <3>2 DEF LastQueued, Real
  <2> QED BY <1>2, <2>1, <2>2 DEF LastQueued
\* A datagram whose predecessors in the rest are strays.
<1>7. ASSUME NEW j \in 1 .. Len(queue'), FirstQueued(j)'
      PROVE  Real(queue[j + 1]) /\ \A k \in 2 .. j : ~Real(queue[k])
  <2>1. ASSUME NEW k \in 2 .. j
        PROVE  ~Real(queue[k])
    <3>1. k - 1 \in 1 .. j - 1 /\ k - 1 \in 1 .. Len(queue')
          /\ (k - 1) + 1 = k
      BY <1>2
    <3>2. queue'[k - 1] = queue[k]
      BY <1>5, <3>1
    <3> QED BY <1>7, <3>1, <3>2 DEF FirstQueued, Real
  <2> QED BY <1>5, <1>7, <2>1 DEF FirstQueued, Real
<1>8. ASSUME NoneQueued'
      PROVE  \A k \in 2 .. Len(queue) : ~Real(queue[k])
  <2> SUFFICES ASSUME NEW k \in 2 .. Len(queue)
               PROVE  ~Real(queue[k])
    OBVIOUS
  <2>1. k - 1 \in 1 .. Len(queue') /\ (k - 1) + 1 = k
    BY <1>2
  <2> QED BY <1>5, <1>8, <2>1 DEF NoneQueued, Real
<1>9. ASSUME Real(queue[1])
      PROVE  /\ FirstQueued(1)
             /\ NoneQueued' => LastQueued(1)
             /\ \A j \in 1 .. Len(queue') : FirstQueued(j)' =>
                   queue'[j].first = queue[1].last + 1
  <2>1. FirstQueued(1)
    BY <1>9 DEF FirstQueued
  <2>2. NoneQueued' => LastQueued(1)
    BY <1>8, <1>9 DEF LastQueued
  <2>3. ASSUME NEW j \in 1 .. Len(queue'), FirstQueued(j)'
        PROVE  queue'[j].first = queue[1].last + 1
    <3>1. Real(queue[j + 1]) /\ \A k \in 1 + 1 .. (j + 1) - 1 : ~Real(queue[k])
      BY <1>2, <1>7, <2>3
    <3> QED BY <1>3, <1>5, <1>9, <3>1 DEF UlogInv, QueueGoesOn
  <2> QED BY <2>1, <2>2, <2>3
<1>10. ASSUME ~Real(queue[1])
       PROVE  /\ NoneQueued' => NoneQueued
              /\ \A j \in 1 .. Len(queue') :
                    FirstQueued(j)' => FirstQueued(j + 1)
  <2>1. NoneQueued' => NoneQueued
    BY <1>2, <1>8, <1>10 DEF NoneQueued
  <2>2. ASSUME NEW j \in 1 .. Len(queue'), FirstQueued(j)'
        PROVE  FirstQueued(j + 1)
    BY <1>7, <1>10, <2>2 DEF FirstQueued
  <2> QED BY <2>1, <2>2
<1>11. QueueGoesOn'
  <2> SUFFICES ASSUME NEW i \in 1 .. Len(queue'), NEW j \in 1 .. Len(queue'),
                      i < j, Real(queue'[i]), Real(queue'[j]),
                      \A k \in i + 1 .. j - 1 : ~Real(queue'[k])
               PROVE  queue'[j].first = queue'[i].last + 1
    BY Zenon DEF QueueGoesOn, Real
  <2>1. ASSUME NEW k \in (i + 1) + 1 .. (j + 1) - 1
        PROVE  ~Real(queue[k])
    <3>1. k - 1 \in i + 1 .. j - 1 /\ k - 1 \in 1 .. Len(queue')
          /\ (k - 1) + 1 = k
      BY <1>2
    <3> QED BY <1>5, <3>1
  <2>2. /\ i + 1 \in 1 .. Len(queue) /\ j + 1 \in 1 .. Len(queue)
        /\ i + 1 < j + 1
    BY <1>5
  <2>3. queue[j + 1].first = queue[i + 1].last + 1
    <3>1. Real(queue[i + 1]) /\ Real(queue[j + 1])
      BY <1>5
    <3> QED BY <2>1, <2>2, <3>1 DEF UlogInv, QueueGoesOn
  <2> QED BY <1>5, <2>3
<1> QED BY <1>2, <1>3, <1>4, <1>5, <1>6, <1>9, <1>10, <1>11

\* A datagram of ebt_ulog is received and its first message handed over.
LEMMA ReceivedInv ==
    ASSUME UlogInv, Received, Real(Head(queue))
    PROVE  UlogInv'
<1> USE UlogAssumption
<1>1. /\ pc = "get" /\ pc' = "main" /\ nlh = NULL /\ queue # <<>>
      /\ queue' = Tail(queue) /\ buf' = Head(queue) /\ Real(Head(queue))
      /\ handed' = Append(handed, buf'.first)
      /\ nlh' \in After(buf', buf'.first)
      /\ UNCHANGED <<captured, sentUpTo, strays, arg>>
  BY DEF Received
<1>2. ~overrun /\ ~overrun' /\ overrun' = overrun
  BY Zenon DEF Received
<1>3. /\ queue' \in Seq(Datagram)
      /\ Len(queue') \in Nat
      /\ 1 \in 1 .. Len(queue)
      /\ buf' = queue[1] /\ buf' \in Datagram /\ Real(queue[1])
      /\ queue[1].first \in Nat /\ queue[1].last \in Nat
      /\ \A j \in 1 .. Len(queue') :
            j + 1 \in 1 .. Len(queue) /\ queue'[j] = queue[j + 1]
      /\ \A j \in 1 .. Len(queue') : LastQueued(j)' => LastQueued(j + 1)
      /\ FirstQueued(1)
      /\ NoneQueued' => LastQueued(1)
      /\ \A j \in 1 .. Len(queue') : FirstQueued(j)' =>
            queue'[j].first = queue[1].last + 1
      /\ QueueGoesOn'
  BY <1>1, Dequeued
<1>4. handed \in Seq(Nat) /\ sentUpTo \in Nat /\ UlogTypeOK
  BY Fields DEF UlogInv
<1>5. /\ 1 <= queue[1].first /\ queue[1].first <= queue[1].last
      /\ queue[1].last <= sentUpTo /\ queue[1].ok
  BY <1>3 DEF UlogInv, DatagramShape, Shape
<1>6. /\ handed' \in Seq(Nat)
      /\ Len(handed) \in Nat
      /\ Len(handed') = Len(handed) + 1
      /\ \A k \in 1 .. Len(handed) : handed'[k] = handed[k]
      /\ handed'[Len(handed) + 1] = queue[1].first
      /\ \A k \in 1 .. Len(handed') :
            k \in 1 .. Len(handed) \/ k = Len(handed) + 1
  BY <1>1, <1>3, <1>4, Appending
<1>7. /\ nlh' = IF queue[1].first < queue[1].last
               THEN queue[1].first + 1 ELSE NULL
      /\ ~Reading
      /\ Reading' <=> queue[1].first < queue[1].last
  BY <1>1, <1>3, <1>5 DEF After, Multi, Done, Reading
<1>8. UlogTypeOK'
  BY <1>1, <1>2, <1>3, <1>4, <1>6, <1>7 DEF UlogTypeOK
<1>9. DatagramShape'
  <2>1. \A j \in 1 .. Len(queue') : Shape(queue'[j])
    BY <1>3 DEF UlogInv, DatagramShape
  <2>2. Shape(buf')
    BY <1>1, <1>3, <1>5 DEF Shape, Real
  <2>3. CursorInBuf'
    BY <1>3, <1>5, <1>7 DEF CursorInBuf
  <2> QED BY <1>1, <2>1, <2>2, <2>3
          DEF DatagramShape, Shape, Real, CursorInBuf
<1>10. \A i \in 1 .. Len(handed') : LastHanded(i)' => i = Len(handed) + 1
  <2>1. ASSUME NEW i \in 1 .. Len(handed)
        PROVE  Len(handed) + 1 \in i + 1 .. Len(handed')
    BY <1>6
  <2>2. handed'[Len(handed) + 1] # 0
    BY <1>3, <1>5, <1>6
  <2> QED BY <1>6, <2>1, <2>2 DEF LastHanded
<1>11. Unbroken'
  <2>1. \A i \in 1 .. Len(handed) :
           LastHanded(i) => queue[1].first = handed[i] + 1
    BY <1>3, <1>7 DEF UlogInv, HandedGoesOn
  <2> QED BY <1>1, <1>3, <2>1, HandOver
<1>12. HandedGoesOn'
  <2> SUFFICES ASSUME NEW i \in 1 .. Len(handed'), LastHanded(i)'
               PROVE  /\ Reading' => nlh' = handed'[i] + 1
                      /\ ~Reading' => \A j \in 1 .. Len(queue') :
                            FirstQueued(j)' =>
                               queue'[j].first = handed'[i] + 1
    BY DEF HandedGoesOn
  <2>1. handed'[i] = queue[1].first
    BY <1>6, <1>10
  <2>2. ~Reading' => queue[1].first = queue[1].last
    BY <1>3, <1>5, <1>7
  <2> QED BY <1>3, <1>7, <2>1, <2>2
<1>13. BufGoesOn'
  BY <1>3 DEF BufGoesOn
<1>14. BatchGoesOn'
  <2>1. \A j \in 1 .. Len(queue) : LastQueued(j) => queue[j].last = sentUpTo
    BY <1>2, Zenon DEF UlogInv, BatchGoesOn
  <2>2. \A j \in 1 .. Len(queue') : LastQueued(j)' => queue'[j].last = sentUpTo
    BY <1>3, <2>1
  <2>3. NoneQueued' => buf'.last = sentUpTo
    BY <1>3, <2>1
  <2>4. ASSUME NoneQueued', ~Reading', NEW i \in 1 .. Len(handed'),
               LastHanded(i)'
        PROVE  handed'[i] = sentUpTo
    BY <1>3, <1>5, <1>6, <1>7, <1>10, <2>3, <2>4
  <2> QED BY <1>1, <2>2, <2>3, <2>4 DEF BatchGoesOn
\* Who does not listen has received nothing.
<1>15. NothingHeard' /\ DeadShape'
  <2>1. GroupOf(arg) = RuleGroup
    BY <1>3 DEF UlogInv, NothingHeard, NoneQueued
  <2> QED BY <1>1, <2>1 DEF NothingHeard, DeadShape, GroupOf
<1> QED BY <1>3, <1>8, <1>9, <1>11, <1>12, <1>13, <1>14, <1>15 DEF UlogInv

\* Another sender's datagram is received: refused, though the cursor has been
\* set to it, or taken for a packet.
LEMMA ForeignInv ==
    ASSUME UlogInv, Received \/ ParseError, ~Real(Head(queue))
    PROVE  UlogInv'
<1> USE UlogAssumption
<1>1. /\ pc = "get" /\ pc' = "main" /\ nlh = NULL /\ queue # <<>>
      /\ queue' = Tail(queue) /\ buf' = Head(queue)
      /\ nlh' \in {NULL, 0}
      /\ handed' = handed \/ handed' = Append(handed, 0)
      /\ UNCHANGED <<captured, sentUpTo, strays, arg>>
  BY DEF Received, ParseError, After, Real
<1>2. ~overrun /\ ~overrun' /\ overrun' = overrun
  <2>1. CASE Received
    BY <2>1, Zenon DEF Received
  <2>2. CASE ParseError
    BY <2>2, Zenon DEF ParseError
  <2> QED BY <2>1, <2>2, Zenon
<1>3. /\ queue' \in Seq(Datagram)
      /\ Len(queue') \in Nat
      /\ 1 \in 1 .. Len(queue)
      /\ buf' = queue[1] /\ buf' \in Datagram /\ ~Real(queue[1])
      /\ \A j \in 1 .. Len(queue') :
            j + 1 \in 1 .. Len(queue) /\ queue'[j] = queue[j + 1]
      /\ \A j \in 1 .. Len(queue') : LastQueued(j)' => LastQueued(j + 1)
      /\ NoneQueued' => NoneQueued
      /\ \A j \in 1 .. Len(queue') : FirstQueued(j)' => FirstQueued(j + 1)
      /\ QueueGoesOn'
  BY <1>1, Dequeued
<1>4. queue[1].first = 0 /\ queue[1].last = 0
  BY <1>3 DEF UlogInv, DatagramShape, Shape, Real
<1>5. ~Reading /\ ~Reading'
  BY <1>1 DEF Reading
<1>6. /\ handed \in Seq(Nat) /\ handed' \in Seq(Nat)
      /\ Len(handed) \in Nat /\ Len(handed') \in Nat
      /\ Len(handed) <= Len(handed')
      /\ \A k \in 1 .. Len(handed) : handed'[k] = handed[k]
      /\ \A k \in 1 .. Len(handed') :
            k \in 1 .. Len(handed) \/ handed'[k] = 0
  <2>1. handed \in Seq(Nat) /\ Len(handed) \in Nat
    BY Fields DEF UlogInv
  <2>2. CASE handed' = handed
    BY <2>1, <2>2
  <2>3. CASE handed' = Append(handed, 0)
    BY <2>1, <2>3, Appending
  <2> QED BY <1>1, <2>2, <2>3
<1>7. UlogTypeOK'
  BY <1>1, <1>2, <1>3, <1>6 DEF UlogInv, UlogTypeOK
<1>8. DatagramShape'
  <2>1. \A j \in 1 .. Len(queue') : Shape(queue'[j])
    BY <1>3 DEF UlogInv, DatagramShape
  <2>2. buf'.first = 0 /\ buf'.last = 0 /\ ~Real(buf')
    BY <1>3, <1>4
  <2> QED BY <1>1, <2>1, <2>2 DEF DatagramShape, Shape, Real, CursorInBuf
\* Of the packets of ebt_ulog the last handed over is the same.
<1>9. \A i \in 1 .. Len(handed') :
         LastHanded(i)' => i \in 1 .. Len(handed) /\ LastHanded(i)
  <2> SUFFICES ASSUME NEW i \in 1 .. Len(handed'), handed'[i] # 0,
                      \A k \in i + 1 .. Len(handed') : handed'[k] = 0
               PROVE  i \in 1 .. Len(handed) /\ LastHanded(i)
    BY DEF LastHanded
  <2>1. i \in 1 .. Len(handed)
    BY <1>6
  <2>2. \A k \in i + 1 .. Len(handed) :
           k \in 1 .. Len(handed) /\ k \in i + 1 .. Len(handed')
    BY <1>6, <2>1
  <2> QED BY <1>6, <2>1, <2>2 DEF LastHanded
<1>10. Unbroken'
  <2>1. CASE handed' = handed
    BY <2>1 DEF UlogInv, Unbroken
  <2>2. CASE handed' = Append(handed, 0)
    BY <2>2, HandOver
  <2> QED BY <1>1, <2>1, <2>2
<1>11. HandedGoesOn'
  <2> SUFFICES ASSUME NEW i \in 1 .. Len(handed'), LastHanded(i)',
                      NEW j \in 1 .. Len(queue'), FirstQueued(j)'
               PROVE  queue'[j].first = handed'[i] + 1
    BY <1>5 DEF HandedGoesOn
  <2>1. i \in 1 .. Len(handed) /\ LastHanded(i) /\ handed'[i] = handed[i]
    BY <1>6, <1>9
  <2>2. \A k \in 1 .. Len(queue) :
           FirstQueued(k) => queue[k].first = handed[i] + 1
    BY <1>5, <2>1 DEF UlogInv, HandedGoesOn
  <2>3. /\ j + 1 \in 1 .. Len(queue) /\ FirstQueued(j + 1)
        /\ queue'[j] = queue[j + 1]
    BY <1>3
  <2> QED BY <2>1, <2>2, <2>3
<1>12. BufGoesOn'
  BY <1>5 DEF BufGoesOn
<1>13. BatchGoesOn'
  <2>1. /\ \A j \in 1 .. Len(queue) : LastQueued(j) => queue[j].last = sentUpTo
        /\ NoneQueued =>
              \A i \in 1 .. Len(handed) : LastHanded(i) => handed[i] = sentUpTo
    BY <1>2, <1>5, Zenon DEF UlogInv, BatchGoesOn
  <2>2. \A j \in 1 .. Len(queue') : LastQueued(j)' => queue'[j].last = sentUpTo
    BY <1>3, <2>1
  <2>3. ASSUME NoneQueued', NEW i \in 1 .. Len(handed'), LastHanded(i)'
        PROVE  handed'[i] = sentUpTo
    BY <1>3, <1>6, <1>9, <2>1, <2>3
  <2> QED BY <1>1, <1>5, <2>2, <2>3 DEF BatchGoesOn
<1>14. NothingHeard' /\ DeadShape'
  <2> SUFFICES ASSUME GroupOf(arg) # RuleGroup
               PROVE  /\ NoneQueued'
                      /\ \A i \in 1 .. Len(handed') : handed'[i] = 0
    BY <1>1, <1>5 DEF NothingHeard, DeadShape, GroupOf
  <2>1. NoneQueued /\ \A i \in 1 .. Len(handed) : handed[i] = 0
    BY DEF UlogInv, NothingHeard
  <2>2. NoneQueued'
    BY <1>3, <2>1 DEF NoneQueued, Real
  <2> QED BY <1>6, <2>1, <2>2
<1> QED BY <1>3, <1>7, <1>8, <1>10, <1>11, <1>12, <1>13, <1>14 DEF UlogInv

-----------------------------------------------------------------------------
\* The packets on their way to main follow each other at every moment.
THEOREM UlogInvariance == UlogSpec => []UlogInv
<1>1. UlogInit => UlogInv
  BY UlogInitInv
<1>2. UlogInv /\ [UlogNext]_ulogVars => UlogInv'
  <2> SUFFICES ASSUME UlogInv, [UlogNext]_ulogVars
               PROVE  UlogInv'
    OBVIOUS
  <2>1. CASE Capture \/ Call \/ UNCHANGED ulogVars
    BY <2>1, StayInv
  <2>2. CASE Flush
    BY <2>2, FlushInv
  <2>3. CASE StrayArrives
    BY <2>3, StrayInv
  <2>4. CASE \E i \in Arguments \cup {1} : Bind(i)
    BY <2>4, BindInv
  <2>5. CASE Leftover
    BY <2>5, LeftoverInv
  <2>6. CASE Received /\ Real(Head(queue))
    BY <2>6, ReceivedInv
  <2>7. CASE (Received \/ ParseError) /\ ~Real(Head(queue))
    BY <2>7, ForeignInv
  <2>9. ASSUME ParseError, Real(Head(queue))
        PROVE  FALSE
    <3>1. queue # <<>> /\ queue \in Seq(Datagram) /\ ~Head(queue).ok
      BY <2>9, Fields DEF UlogInv, ParseError
    <3>2. 1 \in 1 .. Len(queue) /\ Head(queue) = queue[1]
      BY <3>1
    <3> QED BY <2>9, <3>1, <3>2 DEF UlogInv, DatagramShape, Shape, Real
  <2>8. CASE RecvError \/ Kill
    BY <2>8, ExitInv DEF RecvError, Kill
  <2> QED BY <2>1, <2>2, <2>3, <2>4, <2>5, <2>6, <2>7, <2>8,
             <2>9 DEF UlogNext
<1> QED BY <1>1, <1>2, PTL DEF UlogSpec

\* The variables of the reader and of the kernel keep their types.
THEOREM UlogTypes == UlogSpec => []UlogTypeOK
<1>1. UlogInv => UlogTypeOK
  BY DEF UlogInv
<1> QED BY <1>1, UlogInvariance, PTL

\* What ulog_get_packet has returned in a run is an unbroken stretch of what
\* was captured, whatever the batches, the socket's room, and the strays.
THEOREM UlogUnbroken == UlogSpec => []Unbroken
<1>1. UlogInv => Unbroken
  BY DEF UlogInv
<1> QED BY <1>1, UlogInvariance, PTL

\* On a datagram of ebt_ulog nlh stays inside it, though nothing compares it
\* with the datagram's length, whatever other senders' headers are: on theirs
\* nothing is claimed of it.
THEOREM UlogCursorInside == UlogSpec => []CursorInside
<1>1. UlogInv => CursorInside
  BY DEF UlogInv, DatagramShape, CursorInBuf, CursorInside
<1> QED BY <1>1, UlogInvariance, PTL

\* A number is heard by the group it is congruent to modulo 32, and by no
\* other: of the numbers of groups, 1 to 32, each by its own.
THEOREM UlogOthersUnheard == UlogSpec => []OthersUnheard
<1>1. UlogInv => OthersUnheard
  <2> SUFFICES ASSUME UlogInv, NEW i \in 1 .. Len(handed), handed[i] # 0
               PROVE  (arg - RuleGroup) % 32 = 0
    BY DEF OthersUnheard
  <2>1. GroupOf(arg) = RuleGroup
    BY DEF UlogInv, NothingHeard
  <2>2. arg \in Int
    BY UlogAssumption DEF UlogInv, UlogTypeOK
  <2> QED BY <2>1, <2>2, UlogAssumption DEF GroupOf
<1> QED BY <1>1, UlogInvariance, PTL

\* Unbroken says it of neighbours: of any two packets the later one has the
\* higher number, and all between them have been handed over between them.
LEMMA HandedInOrder ==
    ASSUME handed \in Seq(Nat), Unbroken
    PROVE  \A i, j \in 1 .. Len(handed) :
              i < j /\ handed[i] # 0 /\ handed[j] # 0 =>
                 /\ handed[i] < handed[j]
                 /\ \A n \in handed[i] + 1 .. handed[j] - 1 :
                       \E k \in i + 1 .. j - 1 : handed[k] = n
<1> DEFINE Between(i, j) ==
              /\ handed[i] < handed[j]
              /\ \A n \in handed[i] + 1 .. handed[j] - 1 :
                    \E k \in i + 1 .. j - 1 : handed[k] = n
           T == {m \in Nat : \A i, j \in 1 .. Len(handed) :
                    i < j /\ j - i <= m /\ handed[i] # 0 /\ handed[j] # 0
                       => Between(i, j)}
<1>1. Len(handed) \in Nat /\ \A i \in 1 .. Len(handed) : handed[i] \in Nat
  OBVIOUS
<1>2. 0 \in T
  BY <1>1
<1>3. ASSUME NEW m \in T
      PROVE  m + 1 \in T
  <2> SUFFICES ASSUME NEW i \in 1 .. Len(handed), NEW j \in 1 .. Len(handed),
                      i < j, j - i <= m + 1, handed[i] # 0, handed[j] # 0
               PROVE  Between(i, j)
    BY <1>1
  <2>1. /\ i \in Nat /\ j \in Nat /\ m \in Nat
        /\ handed[i] \in Nat /\ handed[j] \in Nat
    BY <1>1
  <2>2. CASE \A k \in i + 1 .. j - 1 : handed[k] = 0
    <3>1. handed[j] = handed[i] + 1
      BY <2>2 DEF Unbroken
    <3> QED BY <2>1, <3>1
  <2>3. CASE \E k \in i + 1 .. j - 1 : handed[k] # 0
    <3>1. PICK k \in i + 1 .. j - 1 : handed[k] # 0
      BY <2>3
    <3>2. /\ k \in 1 .. Len(handed) /\ handed[k] \in Nat /\ k \in Nat
          /\ i < k /\ k < j /\ k - i <= m /\ j - k <= m
      BY <1>1, <2>1, <3>1
    <3>3. Between(i, k) /\ Between(k, j)
      BY <3>1, <3>2
    <3>4. ASSUME NEW n \in handed[i] + 1 .. handed[j] - 1
          PROVE  \E h \in i + 1 .. j - 1 : handed[h] = n
      <4>1. CASE n < handed[k]
        <5>1. n \in handed[i] + 1 .. handed[k] - 1
          BY <2>1, <3>2, <4>1
        <5>2. PICK h \in i + 1 .. k - 1 : handed[h] = n
          BY <3>3, <5>1
        <5>3. h \in i + 1 .. j - 1
          BY <2>1, <3>2
        <5> QED BY <5>2, <5>3
      <4>2. CASE n = handed[k]
        BY <3>1, <4>2
      <4>3. CASE n > handed[k]
        <5>1. n \in handed[k] + 1 .. handed[j] - 1
          BY <2>1, <3>2, <4>3
        <5>2. PICK h \in k + 1 .. j - 1 : handed[h] = n
          BY <3>3, <5>1
        <5>3. h \in i + 1 .. j - 1
          BY <2>1, <3>2
        <5> QED BY <5>2, <5>3
      <4> QED BY <2>1, <3>2, <4>1, <4>2, <4>3
    <3> QED BY <2>1, <3>2, <3>3, <3>4
  <2> QED BY <2>2, <2>3
<1>4. T = Nat
  <2> HIDE DEF T
  <2>1. T \in SUBSET Nat
    BY DEF T
  <2> QED BY <1>2, <1>3, <2>1, SetInduction
<1>5. ASSUME NEW i \in 1 .. Len(handed), NEW j \in 1 .. Len(handed),
             i < j, handed[i] # 0, handed[j] # 0
      PROVE  Between(i, j)
  <2>1. j - i \in Nat
    BY <1>5
  <2>2. j - i \in T
    BY <1>4, <2>1, Zenon
  <2> QED BY <1>5, <2>1, <2>2
<1> QED BY <1>5
=============================================================================
