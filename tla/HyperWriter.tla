----------------------------- MODULE HyperWriter -----------------------------
(***************************************************************************)
(* write_tap_v5_hyper.c: the variant that gets its packets from the        *)
(* hypervisor, a batch at a time in one buffer, and writes all of them to  *)
(* tap0.  It still binds a netlink socket to the ulog group of its         *)
(* argument, as write_tap_v5.c does.                                       *)
(***************************************************************************)
EXTENDS TapDevices, Sequences

CONSTANTS
    MAX_SIZE,   \* the size of the buffer data, in bytes
    MAX_PKT,    \* the entries of the array sizes
    Sizes,      \* the packet sizes the hypervisor delivers
    SockRoom    \* bound: datagrams that fit in the netlink socket

ASSUME HyperAssumption ==
    /\ MAX_SIZE \in Nat
    /\ MAX_PKT \in Nat
    /\ Sizes \subseteq Nat
    /\ SockRoom \in Nat

VARIABLES
    pc,          \* where main is
    tap_fd_num,  \* the descriptor of tap0, or NoTap
    sizes,       \* the packet sizes of the batch
    start,       \* where the hypervisor put each packet of the batch in data
    i,           \* the packet of the batch being written
    msg,         \* the offset of msg in data
    written,     \* the writes for this batch: device, offset and size of each
    disturbed,   \* history: in this run a command has failed, or another
                 \* process has removed tap0 before tun_alloc
    ulogQueue    \* datagrams waiting in the netlink socket

batch == <<sizes, start, i, msg, written>>
main == <<pc, tap_fd_num, batch, disturbed>>
hyperVars == <<main, ulogQueue, devices>>

\* The buffer and the arrays of a batch.
HyperTypeOK ==
    /\ DevicesTypeOK
    /\ pc \in {"mktun", "linkup", "alloc", "get", "write", "dump", "dead"}
    /\ tap_fd_num \in Fds \cup {NoTap}
    /\ sizes \in Seq(Sizes)
    /\ start \in Seq(0 .. MAX_SIZE)
    /\ i \in 1 .. MAX_PKT + 1
    /\ msg \in 0 .. MAX_SIZE
    /\ written \in Seq([tap : Nat, at : 0 .. MAX_SIZE, len : Sizes])
    /\ disturbed \in BOOLEAN
    /\ ulogQueue \in 0 .. SockRoom

HyperInit ==
    /\ DevicesInit
    /\ pc = "dead"
    /\ tap_fd_num = NoTap
    /\ sizes = <<>>
    /\ start = <<>>
    /\ i = 1
    /\ msg = 0
    /\ written = <<>>
    /\ disturbed = FALSE
    /\ ulogQueue = 0

-----------------------------------------------------------------------------
\* main up to the socket: mac_list_init has no list to free and brings no
\* device down; socket and bind join the group.
HyperStart ==
    /\ pc = "dead"
    /\ pc' = "mktun"
    /\ UNCHANGED <<tap_fd_num, batch, disturbed, ulogQueue, devices>>

HyperMktun ==
    /\ pc = "mktun"
    /\ CreateUnit \/ NoFreeUnit
    /\ pc' = "linkup"
    /\ UNCHANGED <<tap_fd_num, batch, disturbed, ulogQueue>>

\* Mutant of HyperLinkUp: the unit openvpn would create next is brought up.
LinkUpNext ==
    /\ pc = "linkup"
    /\ LinkUp(1)
    /\ pc' = "alloc"
    /\ UNCHANGED <<tap_fd_num, batch, disturbed, ulogQueue>>

\* ip link set tap0 up
HyperLinkUp ==
    /\ pc = "linkup"
    /\ LinkUp(0)
    /\ pc' = "alloc"
    /\ UNCHANGED <<tap_fd_num, batch, disturbed, ulogQueue>>

\* Either command fails; the program does not look at the status.
HyperCommandFails ==
    /\ pc \in {"mktun", "linkup"}
    /\ pc' = IF pc = "mktun" THEN "linkup" ELSE "alloc"
    /\ disturbed' = TRUE
    /\ UNCHANGED <<tap_fd_num, batch, ulogQueue, devices>>

\* tun_alloc("tap0")
HyperAlloc ==
    /\ pc = "alloc"
    /\ \E d \in Fds : Attach(0, d) /\ tap_fd_num' = d
    /\ pc' = "get"
    /\ UNCHANGED <<batch, disturbed, ulogQueue>>

-----------------------------------------------------------------------------
\* Where the hypervisor puts packet k of a batch: after the ones before it.
Layout(b) ==
    LET at[k \in 1 .. Len(b)] ==
            IF k = 1 THEN 0 ELSE at[k - 1] + b[k - 1]
    IN  at

\* The batches it may deliver: no more packets than sizes has entries, no more
\* bytes than data has.
Batches ==
    {b \in UNION {[1 .. n -> Sizes] : n \in 0 .. MAX_PKT} :
        b # <<>> => Layout(b)[Len(b)] + b[Len(b)] <= MAX_SIZE}

\* Mutant of GetPackets: msg is not set back to data.
GetPacketsOnwards(b) ==
    /\ pc = "get"
    /\ sizes' = b
    /\ start' = Layout(b)
    /\ i' = 1
    /\ written' = <<>>
    /\ pc' = "write"
    /\ UNCHANGED <<tap_fd_num, msg, disturbed, ulogQueue, devices>>

\* xc_get_packets returns the number of packets of batch b.
GetPackets(b) ==
    /\ pc = "get"
    /\ sizes' = b
    /\ start' = Layout(b)
    /\ i' = 1
    /\ msg' = 0
    /\ written' = <<>>
    /\ pc' = "write"
    /\ UNCHANGED <<tap_fd_num, disturbed, ulogQueue, devices>>

\* The write of packet i.
WritePacket ==
    /\ pc = "write"
    /\ i <= Len(sizes)
    /\ written' = Append(written, [tap |-> fds[tap_fd_num], at |-> msg,
                                   len |-> sizes[i]])
    /\ pc' = "dump"
    /\ UNCHANGED <<tap_fd_num, sizes, start, i, msg, disturbed, ulogQueue,
                   devices>>

\* Mutant of DumpHeader: the end of the packet is taken for its last byte.
DumpAndStayBehind ==
    /\ pc = "dump"
    /\ msg' = msg + sizes[i] - 1
    /\ i' = i + 1
    /\ pc' = "write"
    /\ UNCHANGED <<tap_fd_num, sizes, start, written, disturbed, ulogQueue,
                   devices>>

\* The bytes msg[0] .. msg[14] are printed and msg moves on by sizes[i].
DumpHeader ==
    /\ pc = "dump"
    /\ msg' = msg + sizes[i]
    /\ i' = i + 1
    /\ pc' = "write"
    /\ UNCHANGED <<tap_fd_num, sizes, start, written, disturbed, ulogQueue,
                   devices>>

\* Mutant of BatchDone: the loop runs over the whole array sizes.
ArrayDone ==
    /\ pc = "write"
    /\ i > MAX_PKT
    /\ pc' = "get"
    /\ UNCHANGED <<tap_fd_num, batch, disturbed, ulogQueue, devices>>

\* The loop is done; data is handed to the hypervisor again.
BatchDone ==
    /\ pc = "write"
    /\ i > Len(sizes)
    /\ pc' = "get"
    /\ UNCHANGED <<tap_fd_num, batch, disturbed, ulogQueue, devices>>

-----------------------------------------------------------------------------
HyperDie ==
    /\ pc' = "dead"
    /\ tap_fd_num' = NoTap
    /\ sizes' = <<>>
    /\ start' = <<>>
    /\ i' = 1
    /\ msg' = 0
    /\ written' = <<>>
    /\ disturbed' = FALSE
    /\ ulogQueue' = 0
    /\ ReleaseAll

\* exit(1) when tun_alloc fails.
HyperAllocError ==
    /\ pc = "alloc"
    /\ AllocRefused(0)
    /\ HyperDie

\* exit(1) when xc_get_packets fails, or a signal.
HyperKilled ==
    /\ pc # "dead"
    /\ HyperDie

\* The kernel sends the group of the socket a datagram.
UlogDatagram ==
    /\ pc # "dead"
    /\ ulogQueue < SockRoom
    /\ ulogQueue' = ulogQueue + 1
    /\ UNCHANGED <<main, devices>>

\* Others use the taps: a reader of tap0, write_tap_v5.c, whose first station
\* gets tap0 too, and an operator with openvpn.
HyperForeign ==
    /\ UNCHANGED <<pc, tap_fd_num, batch, ulogQueue>>
    /\ \/ /\ \/ \E n \in persistent : ForeignAttach(n)
             \/ \E n \in foreign : ForeignDetach(n)
             \/ CreateUnit
          /\ UNCHANGED disturbed
       \/ \E n \in persistent :
             /\ ForeignRmtun(n)
             /\ disturbed' =
                   (disturbed \/ (n = 0 /\ pc \in {"linkup", "alloc"}))

\* What main does by itself, xc_get_packets returning at once.
HyperStep ==
    \/ HyperMktun \/ HyperLinkUp \/ HyperCommandFails
    \/ HyperAlloc \/ HyperAllocError
    \/ \E b \in Batches : GetPackets(b)
    \/ WritePacket \/ DumpHeader \/ BatchDone

HyperNext ==
    HyperStart \/ HyperStep \/ HyperKilled \/ UlogDatagram \/ HyperForeign

HyperSpec == HyperInit /\ [][HyperNext]_hyperVars

HyperFairSpec == HyperSpec /\ WF_hyperVars(HyperStep)

-----------------------------------------------------------------------------
(* Properties *)

\* The pointer main moves through data meets every packet where the hypervisor
\* put it: what is written is the packets of the batch, in order and entire,
\* and all of them go to tap0.
PacketsWritten ==
    /\ \A k \in 1 .. Len(written) :
          written[k] = [tap |-> 0, at |-> start[k], len |-> sizes[k]]
    /\ pc = "get" => Len(written) = Len(sizes)

\* The fifteen bytes printed of a packet may lie outside data, for no length is
\* looked at; but only of a packet shorter than fifteen bytes at the end of
\* data, and by no more bytes than it is shorter.
DumpOverrun ==
    pc = "dump" /\ msg + 15 > MAX_SIZE =>
        /\ sizes[i] < 15
        /\ msg + 15 - MAX_SIZE <= 15 - sizes[i]

\* Unless a command fails, or another process removes tap0 after openvpn has
\* run and before tun_alloc holds it, tap0 is up and survives the program,
\* though openvpn may have created another device because tap0 was there
\* already.  (A removal in between has TUNSETIFF create it again, down and not
\* persistent, and nothing fails.)
Tap0Up ==
    ~disturbed /\ NDev > 0 /\ pc \in {"get", "write", "dump"} =>
        0 \in up \cap persistent

\* A batch is worked through, or the program ends.
BatchEnds == (pc = "write") ~> (pc \in {"get", "dead"})

\* README.md:79-91 has the user add the ebtables --ulog rule and run
\* write_tap_v5_hyper with the group's number: what the rule sends to the group
\* is read.
UlogRead == (ulogQueue > 0) ~> (ulogQueue = 0)
=============================================================================
