--------------------------- MODULE TapDistributor ---------------------------
(***************************************************************************)
(* write_tap_v5.c: the process that reads captured Ethernet frames and     *)
(* hands each to the tap device of the station it belongs to, creating the *)
(* device the first time the station is seen, and floods group and         *)
(* broadcast frames to every tap it has.                                   *)
(*                                                                         *)
(* One behaviour is the life of the host: the process runs, may exit or be *)
(* killed between any two system calls, and is started again; other        *)
(* processes use the same tap devices meanwhile.  Where the frames come    *)
(* from (ulog_get_packet) is the subject of UlogReader.                    *)
(***************************************************************************)
EXTENDS TapDevices, FrameLength, Sequences

CONSTANTS
    Mac,         \* station, group and broadcast addresses, as printed
    V4Group,     \* those that start with "1:0:5e"
    V6Group,     \* those that start with "33:33:"
    Broadcast,   \* "ff:ff:ff:ff:ff:ff"
    LowWord,     \* the last two bytes of an address, as a 16-bit word
    Frames,      \* the frames that may be captured
    NoFrame,     \* msg before the first frame
    CmdFaults,   \* whether openvpn and ip may fail for reasons of their own
    ForeignOps   \* what other processes do: subset of AllForeignOps

AllForeignOps == {"attach", "mktun", "rmtun"}

\* What the program reads of an ebt_ulog_packet_msg_t.  version: it is
\* EBT_ULOG_VERSION; physout, physin: the bridge port is "vif1.0-emu"; ip_ff:
\* one of the 32-bit words at the place of the IPv4 addresses prints, in
\* hexadecimal, with a leading "ff"; tot_len: the 16 bits at the place of the
\* IPv4 total length.
Frame == [version : BOOLEAN, dst : Mac, src : Mac, physout : BOOLEAN,
          physin : BOOLEAN, ip_ff : BOOLEAN, tot_len : Word]

ASSUME FrameAssumption ==
    /\ Frames \subseteq Frame
    /\ NoFrame \notin Frame
    /\ LowWord \in [Mac -> Word]
    /\ Broadcast \in Mac
    /\ V4Group \subseteq Mac \ {Broadcast}
    /\ V6Group \subseteq Mac \ ({Broadcast} \cup V4Group)
    /\ CmdFaults \in BOOLEAN
    /\ ForeignOps \subseteq AllForeignOps

VARIABLES
    list_top,  \* the list of struct mac_list, from list_top on
    pc,        \* where main is
    leg,       \* the half of main's unicast part: "out", then "in"
    msg,       \* the frame being distributed
    p,         \* the position of a flood in the list
    count,     \* the byte count of a flood
    sent       \* the writes made for msg: the tap and the byte count of each

program == <<list_top, pc, leg, msg, p, count, sent>>
vars == <<list_top, pc, leg, msg, p, count, sent, devices>>

Entry == [mac_add : Mac, tap_name : Nat, tap_fd_num : Fds]
Copy == [tap : Nat \cup {NoTap}, count : Word]

TypeOK ==
    /\ DevicesTypeOK
    /\ list_top \in Seq(Entry)
    /\ pc \in {"recv", "match", "flood", "leg", "mktun", "linkup", "alloc",
               "write", "dead"}
    /\ leg \in {"out", "in"}
    /\ msg \in Frames \cup {NoFrame}
    /\ p \in Nat \ {0}
    /\ count \in Word
    /\ sent \in Seq(Copy)
    /\ pc \notin {"recv", "dead"} => msg \in Frames

Init ==
    /\ DevicesInit
    /\ list_top = <<>>
    /\ pc = "dead"
    /\ leg = "out"
    /\ msg = NoFrame
    /\ p = 1
    /\ count = 0
    /\ sent = <<>>

-----------------------------------------------------------------------------
mac_list_count == Len(list_top)

\* Mutant of Listed: the comparison with the last entry, which mac_list_add
\* makes after its loop, is left out.
ListedButLast(item) ==
    \E i \in 1 .. Len(list_top) - 1 : list_top[i].mac_add = item

\* mac_list_add's and mac_list_check's strcmp loop finds item.
Listed(item) == \E i \in 1 .. Len(list_top) : list_top[i].mac_add = item

\* Mutant of mac_list_check: the entry last linked is returned.
LastEntry(item, i) == i = Len(list_top)

\* mac_list_check returns entry i: the first one with that address.
mac_list_check(item, i) ==
    /\ i \in 1 .. Len(list_top)
    /\ list_top[i].mac_add = item
    /\ \A j \in 1 .. i - 1 : list_top[j].mac_add # item

\* write(fd, msg->data, n): the copy goes to whatever fd is attached to.
CopyTo(fd, n) == [tap |-> fds[fd], count |-> n]

\* Mutant of Item: source and destination exchanged.
OtherItem == IF leg = "out" THEN msg.src ELSE msg.dst

\* The address and the bridge port of the current half of the unicast part.
Item == IF leg = "out" THEN msg.dst ELSE msg.src
OnVif == IF leg = "out" THEN msg.physout ELSE msg.physin

-----------------------------------------------------------------------------
\* The process starts: list_top is NULL, and mac_list_init's delete_tap only
\* composes its commands, so the devices of an earlier run stay as they are.
Start ==
    /\ pc = "dead"
    /\ pc' = "recv"
    /\ UNCHANGED <<list_top, leg, msg, p, count, sent, devices>>

\* ulog_get_packet returns frame f; one of another version is dropped.
Receive(f) ==
    /\ pc = "recv"
    /\ msg' = f
    /\ sent' = <<>>
    /\ pc' = IF f.version THEN "match" ELSE "recv"
    /\ UNCHANGED <<list_top, leg, p, count, devices>>

(* The address prefixes are compared with strcmp on char[6] and char[2]      *)
(* arrays that have no terminator: unequal prefixes never match, equal ones *)
(* match or not depending on what follows the arrays on the stack.  So each *)
(* of these tests may let a frame it is meant for pass on to the next one.  *)

StartFlood(n) ==
    /\ pc' = "flood"
    /\ p' = 1
    /\ count' = n
    /\ UNCHANGED <<list_top, leg, msg, sent, devices>>

\* write_packet_for_multicastadd of the destination or the source: the flood
\* takes its count from the field of the protocol the prefix stands for.
MulticastAdd(item) ==
    /\ pc = "match"
    /\ item \in {msg.dst, msg.src} \cap (V4Group \cup V6Group)
    /\ StartFlood(IF item \in V4Group THEN IpLenCount(msg.tot_len)
                                      ELSE PlenCount(LowWord[msg.dst]))

\* The comparison with "ff:ff:ff:ff:ff:ff" is between proper strings.
BroadcastMac ==
    /\ pc = "match"
    /\ Broadcast \in {msg.dst, msg.src}
    /\ StartFlood(IpLenCount(msg.tot_len))

\* write_packet_for_broadcastadd
BroadcastAdd ==
    /\ pc = "match"
    /\ Broadcast \notin {msg.dst, msg.src}
    /\ msg.ip_ff
    /\ StartFlood(IpLenCount(msg.tot_len))

\* Mutant of NoFlood: only the source is compared with the broadcast address.
NoFloodBySource ==
    /\ pc = "match"
    /\ Broadcast # msg.src
    /\ pc' = "leg"
    /\ UNCHANGED <<list_top, leg, msg, p, count, sent, devices>>

NoFlood ==
    /\ pc = "match"
    /\ Broadcast \notin {msg.dst, msg.src}
    /\ pc' = "leg"
    /\ UNCHANGED <<list_top, leg, msg, p, count, sent, devices>>

\* One turn of the loop of a flood; main then goes to label.
FloodWrite ==
    /\ pc = "flood"
    /\ p <= mac_list_count
    /\ sent' = Append(sent, CopyTo(list_top[p].tap_fd_num, count))
    /\ p' = p + 1
    /\ UNCHANGED <<list_top, pc, leg, msg, count, devices>>

\* Mutant of FloodEnd: the loop may stop at the last entry.
FloodEndEarly ==
    /\ pc = "flood"
    /\ p >= mac_list_count
    /\ pc' = "recv"
    /\ p' = 1
    /\ count' = 0
    /\ UNCHANGED <<list_top, leg, msg, sent, devices>>

\* Mutant of FloodEnd: the flood is not followed by "goto label".
FloodEndFalls ==
    /\ pc = "flood"
    /\ p > mac_list_count
    /\ pc' = "leg"
    /\ p' = 1
    /\ count' = 0
    /\ UNCHANGED <<list_top, leg, msg, sent, devices>>

FloodEnd ==
    /\ pc = "flood"
    /\ p > mac_list_count
    /\ pc' = "recv"
    /\ p' = 1
    /\ count' = 0
    /\ UNCHANGED <<list_top, leg, msg, sent, devices>>

-----------------------------------------------------------------------------
\* The first half of the unicast part (physoutdev) is followed by the second
\* (physindev), the second by label and the next frame.
HalfDone ==
    /\ leg' = IF leg = "out" THEN "in" ELSE "out"
    /\ pc' = IF leg = "out" THEN "leg" ELSE "recv"

OtherPort ==
    /\ pc = "leg"
    /\ ~OnVif
    /\ HalfDone
    /\ UNCHANGED <<list_top, msg, p, count, sent, devices>>

\* mac_list_add finds the address and returns.
AlreadyListed ==
    /\ pc = "leg"
    /\ OnVif
    /\ Listed(Item)
    /\ pc' = "write"
    /\ UNCHANGED <<list_top, leg, msg, p, count, sent, devices>>

NotListed ==
    /\ pc = "leg"
    /\ OnVif
    /\ ~Listed(Item)
    /\ pc' = "mktun"
    /\ UNCHANGED <<list_top, leg, msg, p, count, sent, devices>>

\* system("openvpn --mktun --dev tap --user shohei"), whatever its outcome.
Mktun ==
    /\ pc = "mktun"
    /\ CreateUnit \/ NoFreeUnit
    /\ pc' = "linkup"
    /\ UNCHANGED <<list_top, leg, msg, p, count, sent>>

\* Mutant of SetLinkUp: the number of the device after the next one.
SetNextLinkUp ==
    /\ pc = "linkup"
    /\ LinkUp(mac_list_count + 1)
    /\ pc' = "alloc"
    /\ UNCHANGED <<list_top, leg, msg, p, count, sent>>

\* system("ip link set tap<count> up"), whatever its outcome.
SetLinkUp ==
    /\ pc = "linkup"
    /\ LinkUp(mac_list_count)
    /\ pc' = "alloc"
    /\ UNCHANGED <<list_top, leg, msg, p, count, sent>>

\* Either command fails; the program does not look at the status.
CommandFails ==
    /\ CmdFaults
    /\ pc \in {"mktun", "linkup"}
    /\ pc' = IF pc = "mktun" THEN "linkup" ELSE "alloc"
    /\ UNCHANGED <<list_top, leg, msg, p, count, sent, devices>>

\* tun_alloc succeeds and the new entry is linked at the end of the list.
TunAlloc ==
    /\ pc = "alloc"
    /\ \E d \in Fds :
        /\ Attach(mac_list_count, d)
        /\ list_top' = Append(list_top, [mac_add |-> Item,
                                         tap_name |-> mac_list_count,
                                         tap_fd_num |-> d])
    /\ pc' = "write"
    /\ UNCHANGED <<leg, msg, p, count, sent>>

\* mac_list_check and the write to the descriptor of the entry it returns.
\* There is no test for NULL: were the address not listed, no step is possible.
Write ==
    /\ pc = "write"
    /\ \E i \in 1 .. mac_list_count :
        /\ mac_list_check(Item, i)
        /\ sent' = Append(sent, CopyTo(list_top[i].tap_fd_num,
                                       IpLenCount(msg.tot_len)))
    /\ HalfDone
    /\ UNCHANGED <<list_top, msg, p, count, devices>>

-----------------------------------------------------------------------------
\* The end of the process: its memory is gone and the kernel closes its files.
Die ==
    /\ pc' = "dead"
    /\ list_top' = <<>>
    /\ leg' = "out"
    /\ msg' = NoFrame
    /\ p' = 1
    /\ count' = 0
    /\ sent' = <<>>
    /\ ReleaseAll

\* Mutant of AllocError: tun_alloc is tried again until it succeeds.
AllocRetry ==
    /\ pc = "alloc"
    /\ AllocRefused(mac_list_count)
    /\ UNCHANGED vars

\* exit(1) in mac_list_add.
AllocError ==
    /\ pc = "alloc"
    /\ AllocRefused(mac_list_count)
    /\ Die

\* A signal, or exit(-1) in ulog_get_packet.  A child running a command of
\* system() is not modelled as outliving the process.
Killed ==
    /\ pc # "dead"
    /\ Die

Foreign ==
    /\ UNCHANGED program
    /\ \/ \E n \in persistent : "attach" \in ForeignOps /\ ForeignAttach(n)
       \/ \E n \in foreign : ForeignDetach(n)
       \/ "mktun" \in ForeignOps /\ CreateUnit
       \/ \E n \in persistent : "rmtun" \in ForeignOps /\ ForeignRmtun(n)

\* The steps the process takes by itself once it has a frame.
Distribute ==
    \/ \E item \in Mac : MulticastAdd(item)
    \/ BroadcastMac
    \/ BroadcastAdd
    \/ NoFlood
    \/ FloodWrite
    \/ FloodEnd
    \/ OtherPort
    \/ AlreadyListed
    \/ NotListed
    \/ Mktun
    \/ SetLinkUp
    \/ CommandFails
    \/ TunAlloc
    \/ AllocError
    \/ Write

Next ==
    \/ Start
    \/ \E f \in Frames : Receive(f)
    \/ Distribute
    \/ Killed
    \/ Foreign

Spec == Init /\ [][Next]_vars

\* The scheduler runs a process that is not waiting for a frame, and openvpn
\* and ip end.  Nothing makes frames arrive or an operator restart the process.
FairSpec == Spec /\ WF_vars(Distribute)

-----------------------------------------------------------------------------
(* Properties *)

\* The list is an injection from stations to the devices the process holds:
\* no address is listed twice (although mac_list_add compares the last entry
\* outside its loop), entry i is for tap<i-1> (the name comes from
\* mac_list_count, while openvpn chooses the unit it creates), its descriptor is
\* attached to that very device, and the process holds no other device and
\* shares none.
TableSound ==
    /\ \A i, j \in 1 .. Len(list_top) :
          list_top[i].mac_add = list_top[j].mac_add => i = j
    /\ \A i \in 1 .. Len(list_top) :
          /\ list_top[i].tap_name = i - 1
          /\ fds[list_top[i].tap_fd_num] = i - 1
    /\ Held = 0 .. Len(list_top) - 1
    /\ Held \cap foreign = {}

\* tap_name has room for "tap9" (write_tap_v5.c:120) and nothing in the program
\* bounds the stations.  The descriptors do: a station keeps one for good, at
\* the limit the next station ends the process, and the restart counts from 0.
\* So no name has a higher number than the limit leaves room for, whatever
\* numbers openvpn and other processes have used meanwhile.
NumbersBounded ==
    \A i \in 1 .. Len(list_top) : list_top[i].tap_name < MaxFd - FirstFd

\* When no command fails and nobody removes devices, tap<mac_list_count> is the
\* device to bring up although the program never learns which unit openvpn
\* created: every listed station whose number openvpn can create has a device
\* that is up and persistent, whatever devices earlier runs left and whoever
\* creates others meanwhile.
ListedDevicesUp ==
    ~CmdFaults /\ "rmtun" \notin ForeignOps =>
        \A i \in 1 .. Len(list_top) : i <= NDev => i - 1 \in up \cap persistent

\* The frames some test of main takes for a group or broadcast frame, if only
\* by the bytes at the place of IPv4 addresses.
FloodFrame(f) ==
    \/ {f.dst, f.src} \cap (V4Group \cup V6Group \cup {Broadcast}) # {}
    \/ f.ip_ff

\* Isolation: the copies of a frame that no test takes for a group frame go to
\* the device of its destination, if it leaves by vif1.0-emu, and to that of
\* its source, if it comes in there, in this order; when the frame is done
\* both have been written exactly once.
UnicastIsolation ==
    msg \in Frames /\ msg.version /\ ~FloodFrame(msg) =>
        /\ \A k \in 1 .. Len(sent) : \E i \in 1 .. Len(list_top) :
              /\ sent[k].tap = list_top[i].tap_name
              /\ list_top[i].mac_add =
                    IF k = 1 /\ msg.physout THEN msg.dst ELSE msg.src
        /\ pc = "recv" =>
              Len(sent) = (IF msg.physout THEN 1 ELSE 0) +
                          (IF msg.physin THEN 1 ELSE 0)

\* A broadcast frame is copied exactly once to every listed station's device,
\* and nothing else happens to it, however the tests before its own turn out.
BroadcastComplete ==
    pc = "recv" /\ msg \in Frames =>
        (msg.version /\ Broadcast \in {msg.dst, msg.src} =>
            /\ Len(sent) = Len(list_top)
            /\ \A k \in 1 .. Len(sent) : sent[k].tap = list_top[k].tap_name)

\* The broadcast address never gets a device, even though every other test for
\* group frames may let its frames pass.
BroadcastNotLearned ==
    \A i \in 1 .. Len(list_top) : list_top[i].mac_add # Broadcast

\* The distributor implements StationTaps: an entry's device stands for the
\* station's tap, and a copy for the device that received it, which the kernel
\* finds through a descriptor.
Promise == INSTANCE StationTaps WITH
    Station <- Mac,
    Tap <- 0 .. MaxFd - FirstFd - 1,
    FrameSet <- Frames,
    Parties <- [f \in Frames |->
                   ({m \in {f.dst} : f.physout} \cup {m \in {f.src} : f.physin})
                       \ {Broadcast}],
    ForAll <- {f \in Frames : FloodFrame(f)},
    Nothing <- NoFrame,
    running <- pc # "dead",
    tapOf <- {<<list_top[i].mac_add, list_top[i].tap_name>> :
                 i \in 1 .. Len(list_top)},
    frame <- msg,
    copies <- [k \in 1 .. Len(sent) |-> sent[k].tap]

ImplementsPromise == Promise!StSpec

\* Every frame is dealt with, or the process ends.
FrameDone == (pc = "match") ~> (pc \in {"recv", "dead"})

\* Which copies are whole frames, and which the driver takes at all, is decided
\* by the two bytes of the IPv4 total length: the program loads them in host
\* order.  Copies of IPv6 multicast frames apart, a copy is whole exactly when
\* the low byte is the greater one, and refused exactly when the low byte is 0
\* and the high one below 14, as it is for every ARP frame (0x0800 there).  None
\* is exact: one that is whole goes on into what lies behind the frame in buf.
CopyFate ==
    msg \in Frames /\ {msg.dst, msg.src} \cap V6Group = {} =>
        \A k \in 1 .. Len(sent) :
            /\ Whole(sent[k].count, msg.tot_len) <=>
                  msg.tot_len % 256 > msg.tot_len \div 256
            /\ Taken(sent[k].count) <=>
                  msg.tot_len % 256 > 0 \/ msg.tot_len \div 256 >= 14
            /\ ~Exact(sent[k].count, msg.tot_len)

\* The counterpart of "Packet size %d byte" (tap_bak/write_to_tap_v2.c:114),
\* printed of ip_len: the length the program writes is the size of the packet.
CopiesWhole ==
    \A k \in 1 .. Len(sent) : Whole(sent[k].count, msg.tot_len)

\* "//fpr multicastaddress" (write_tap_v5.c:601) and the comparison tried in
\* write_packet_multicast_test.c:18: an address with a group prefix is a
\* group address, so no station is listed under one.
GroupNotLearned ==
    \A i \in 1 .. Len(list_top) :
        list_top[i].mac_add \notin V4Group \cup V6Group
=============================================================================
