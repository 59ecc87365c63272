----------------------------- MODULE UlogReader -----------------------------
(***************************************************************************)
(* ulog_get_packet of write_tap_v5.c, with its static cursor nlh into the  *)
(* static buffer buf, reading the netlink socket that the kernel's         *)
(* ebt_ulog fills with batches of captured packets.                        *)
(*                                                                         *)
(* Packets are numbered from 1 in the order they are captured.  A datagram *)
(* of ebt_ulog holds the packets first .. last, one netlink message each;  *)
(* ok says that its first header passes NLMSG_OK.  0 is the number of any  *)
(* other bytes that are taken for a message: those of another sender's     *)
(* datagram, and wherever its header may lead the cursor, in buf or not.   *)
(* The start of main is modelled for the argument, which names the netlink *)
(* group the program listens to.                                           *)
(***************************************************************************)
EXTENDS Integers, Sequences

CONSTANTS
    Threshold,  \* ebt_ulog sends a batch when it holds this many packets
    SockRoom,   \* datagrams that fit in the socket's receive buffer
    NULL,       \* nlh between datagrams
    RuleGroup,  \* the --ulog-nlgroup of the rule, counted from 1
    Arguments,  \* the numbers the program may be started with
    StrayOk,    \* whether other senders' headers pass NLMSG_OK: TRUE, FALSE
    MaxCaptured,  \* bound: packets captured in all
    MaxStrays,    \* bound: datagrams that are not ebt_ulog's
    MaxHanded     \* bound: messages returned before one that is not ebt_ulog's

ASSUME UlogAssumption ==
    /\ Threshold \in Nat \ {0}
    /\ SockRoom \in Nat
    /\ NULL \notin Nat
    /\ RuleGroup \in 1 .. 32
    /\ Arguments \subseteq Int
    /\ MaxCaptured \in Nat
    /\ StrayOk \subseteq BOOLEAN
    /\ MaxStrays \in Nat
    /\ MaxHanded \in Nat

VARIABLES
    captured,  \* packets captured so far
    sentUpTo,  \* packets the kernel has sent or dropped; the rest is its batch
    queue,     \* the datagrams in the socket, oldest first
    strays,    \* datagrams of other senders so far
    overrun,   \* a datagram found no room: the socket's error is ENOBUFS
    arg,       \* the argument of this run
    buf,       \* the datagram last received
    nlh,       \* the message of buf that the next call returns, or NULL
    pc,        \* "main": main is busy with a packet; "get": in ulog_get_packet
    handed     \* the packets ulog_get_packet has returned in this run

kernelVars == <<captured, sentUpTo, queue, strays, overrun>>
readerVars == <<arg, buf, nlh, pc, handed>>
ulogVars == <<kernelVars, readerVars>>

Datagram == [first : Nat, last : Nat, ok : BOOLEAN]
Stray(ok) == [first |-> 0, last |-> 0, ok |-> ok]

UlogTypeOK ==
    /\ captured \in Nat
    /\ sentUpTo \in 0 .. captured
    /\ queue \in Seq(Datagram)
    /\ strays \in 0 .. MaxStrays
    /\ overrun \in BOOLEAN
    /\ arg \in Arguments \cup {1}
    /\ buf \in Datagram
    /\ nlh \in Nat \cup {NULL}
    /\ pc \in {"main", "get", "dead"}
    /\ handed \in Seq(Nat)

\* Before the first run; buf and nlh are zero-initialised statics.
UlogInit ==
    /\ captured = 0
    /\ sentUpTo = 0
    /\ queue = <<>>
    /\ strays = 0
    /\ overrun = FALSE
    /\ arg = 1
    /\ buf = Stray(FALSE)
    /\ nlh = NULL
    /\ pc = "dead"
    /\ handed = <<>>

-----------------------------------------------------------------------------
(* The kernel *)

\* The --ulog rule logs a packet into the batch being built.
Capture ==
    /\ captured < MaxCaptured
    /\ captured - sentUpTo < Threshold
    /\ captured' = captured + 1
    /\ UNCHANGED <<sentUpTo, queue, strays, overrun, readerVars>>

\* Mutant of GroupOf: the bit of the mask is not counted from 0.
GroupOfBit(i) == (i % 32) + 1

\* The group of the mask 1 << (i - 1).  The range test before it has no effect
\* (its body needs PRINTF), and the build's shift counts modulo 32.
GroupOf(i) == ((i - 1) % 32) + 1

\* netlink_broadcast of a datagram to group g: nothing for a socket that is
\* not bound to it, lost with an error for the reader when the socket is full.
NetlinkBroadcast(d, g) ==
    LET bound == pc # "dead" /\ GroupOf(arg) = g
        full == overrun \/ Len(queue) >= SockRoom
    IN  /\ queue' = IF bound /\ ~full THEN Append(queue, d) ELSE queue
        /\ overrun' = (overrun \/ (bound /\ full))

\* The batch is full, or ebt_ulog's timer runs out.
Flush ==
    /\ sentUpTo < captured
    /\ NetlinkBroadcast(
           [first |-> sentUpTo + 1, last |-> captured, ok |-> TRUE], RuleGroup)
    /\ sentUpTo' = captured
    /\ UNCHANGED <<captured, strays, readerVars>>

\* Another process writes to the program's group; recvfrom's sender is not
\* looked at.
StrayArrives ==
    /\ strays < MaxStrays
    /\ pc # "dead"
    /\ \E ok \in StrayOk : NetlinkBroadcast(Stray(ok), GroupOf(arg))
    /\ strays' = strays + 1
    /\ UNCHANGED <<captured, sentUpTo, readerVars>>

\* How ebt_ulog marks the message of packet n: NLM_F_MULTI on all but the last
\* of a batch, type NLMSG_DONE on the last of a batch of several.
Multi(d, n) == n < d.last
Done(d, n) == n = d.last /\ d.first < d.last

-----------------------------------------------------------------------------
(* The reader *)

\* The process starts with argument i: a new socket, bound to its group.
\* Without an argument the mask is as for 1.
Bind(i) ==
    /\ pc = "dead"
    /\ pc' = "main"
    /\ arg' = i
    /\ UNCHANGED <<kernelVars, buf, nlh, handed>>

Call ==
    /\ pc = "main"
    /\ pc' = "get"
    /\ UNCHANGED <<kernelVars, arg, buf, nlh, handed>>

\* Mutant of After: the cursor always moves on.
AlwaysNext(d, n) == {n + 1}

\* Where the cursor goes from message n of d.  NLM_F_MULTI and the type decide
\* between NLMSG_NEXT and the end of the datagram.  In another sender's header
\* they are any, and so is nlmsg_len, after a parse error too: NLMSG_NEXT then
\* stays where it is (nlmsg_len = 0) or goes to whatever bytes it meets.
After(d, n) ==
    IF n = 0 THEN {NULL, 0}
    ELSE IF Multi(d, n) /\ ~Done(d, n) THEN {n + 1}
    ELSE {NULL}

\* Mutant of Leftover: the cursor is moved before the message is returned.
LeftoverMoved ==
    /\ pc = "get"
    /\ nlh # NULL
    /\ nlh' \in After(buf, nlh)
    /\ handed' = Append(handed, nlh')
    /\ pc' = "main"
    /\ UNCHANGED <<kernelVars, arg, buf>>

\* A message is left over from the last datagram: it is returned.
Leftover ==
    /\ pc = "get"
    /\ nlh # NULL
    /\ nlh = 0 => Len(handed) < MaxHanded
    /\ handed' = Append(handed, nlh)
    /\ nlh' \in After(buf, nlh)
    /\ pc' = "main"
    /\ UNCHANGED <<kernelVars, arg, buf>>

\* Mutant of Received: a datagram is taken to hold one message.
ReceivedOne ==
    /\ pc = "get"
    /\ nlh = NULL
    /\ ~overrun
    /\ queue # <<>>
    /\ Head(queue).ok
    /\ buf' = Head(queue)
    /\ queue' = Tail(queue)
    /\ handed' = Append(handed, Head(queue).first)
    /\ pc' = "main"
    /\ UNCHANGED <<captured, sentUpTo, strays, overrun, arg, nlh>>

\* recvfrom gets the oldest datagram; its first message is returned.  EINTR
\* goes back to recv_new and changes nothing.
Received ==
    /\ pc = "get"
    /\ nlh = NULL
    /\ ~overrun
    /\ queue # <<>>
    /\ Head(queue).ok
    /\ buf' = Head(queue)
    /\ queue' = Tail(queue)
    /\ handed' = Append(handed, buf'.first)
    /\ nlh' \in After(buf', buf'.first)
    /\ pc' = "main"
    /\ UNCHANGED <<captured, sentUpTo, strays, overrun, arg>>

\* "Netlink message parse error": NULL is returned, which main skips, but nlh
\* has been set to the message that was refused.
ParseError ==
    /\ pc = "get"
    /\ nlh = NULL
    /\ ~overrun
    /\ queue # <<>>
    /\ ~Head(queue).ok
    /\ buf' = Head(queue)
    /\ queue' = Tail(queue)
    /\ nlh' = buf'.first
    /\ pc' = "main"
    /\ UNCHANGED <<captured, sentUpTo, strays, overrun, arg, handed>>

\* The socket closes with the process.
Exit ==
    /\ pc' = "dead"
    /\ arg' = 1
    /\ buf' = Stray(FALSE)
    /\ nlh' = NULL
    /\ handed' = <<>>
    /\ queue' = <<>>
    /\ overrun' = FALSE
    /\ UNCHANGED <<captured, sentUpTo, strays>>

\* Mutant of RecvError: ENOBUFS is ignored, as EINTR is.
RecvAgain ==
    /\ pc = "get"
    /\ nlh = NULL
    /\ overrun
    /\ overrun' = FALSE
    /\ UNCHANGED <<captured, sentUpTo, queue, strays, readerVars>>

\* recvfrom fails with ENOBUFS, whatever is still queued: exit(-1).
RecvError ==
    /\ pc = "get"
    /\ nlh = NULL
    /\ overrun
    /\ Exit

\* A signal, or an exit in main.
Kill ==
    /\ pc # "dead"
    /\ Exit

UlogNext ==
    \/ Capture \/ Flush \/ StrayArrives
    \/ \E i \in Arguments \cup {1} : Bind(i)
    \/ Call \/ Leftover \/ Received \/ ParseError \/ RecvError \/ Kill

UlogSpec == UlogInit /\ [][UlogNext]_ulogVars

\* ebt_ulog's timer always ends, main always calls again, and recvfrom returns
\* when there is something to receive.
UlogFairSpec ==
    /\ UlogSpec
    /\ WF_ulogVars(Flush)
    /\ WF_ulogVars(Call)
    /\ WF_ulogVars(Leftover \/ Received \/ ParseError \/ RecvError)

-----------------------------------------------------------------------------
(* Properties *)

\* What one run of the program is given is an unbroken stretch of what was
\* captured: no packet is skipped, repeated or out of order, whatever other
\* bytes come in between; what another sender's header leads the cursor to is
\* such bytes, be it what is left in buf of an older datagram.  A lost datagram
\* is not passed over in silence, for it ends the program first.
Unbroken ==
    \A i, j \in 1 .. Len(handed) :
        /\ i < j
        /\ handed[i] # 0 /\ handed[j] # 0
        /\ \A k \in i + 1 .. j - 1 : handed[k] = 0
        => handed[j] = handed[i] + 1

\* The cursor stays inside a datagram of ebt_ulog, whose length the code does
\* not compare it with: it relies on how ebt_ulog marks the last message.  On
\* another sender's datagram, refused or not, it relies on that sender's flags
\* and lengths, of which nothing can be said; from it the cursor comes back
\* only by NULL.
CursorInside == nlh # NULL /\ buf.first # 0 => nlh \in buf.first .. buf.last

\* Every packet captured while the program runs is returned by
\* ulog_get_packet, unless the run ends before, or never gets off the bytes of
\* another sender; if the argument is the number of the rule's group.
AllHanded ==
    \A n \in 1 .. MaxCaptured :
        (captured >= n /\ sentUpTo < n /\ pc # "dead" /\ arg = RuleGroup)
            ~> \/ pc = "dead"
               \/ \E i \in 1 .. Len(handed) : handed[i] = n
               \/ [](nlh = 0)

\* A program started with another group's number is given none of the packets;
\* but one started with a number that is no group's is given them when the
\* number differs from the group's by a multiple of 32.
OthersUnheard ==
    (\E i \in 1 .. Len(handed) : handed[i] # 0) => (arg - RuleGroup) % 32 = 0

\* "Get the next ebt_ulog packet" (write_tap_v5.c:442): what ulog_get_packet
\* returns is a packet of ebt_ulog.
OnlyUlogPackets == \A i \in 1 .. Len(handed) : handed[i] # 0
=============================================================================
