# Verification of tap_project: TLA+ models, TLC runs and TLAPS proofs

The repository distributes Ethernet frames captured on a Linux bridge to tap
devices, one tap for each station (MAC address). Its current programs are
`write_tap_v5.c`, which reads the frames from the netlink group of an
`ebtables --ulog` rule, and `write_tap_v5_hyper.c`, which gets them from the
hypervisor and writes all of them to `tap0`. Beside them it keeps the programs
they grew out of: a list library, pcap programs that copy the frames of one
station, and a program that prints the host's interfaces. This directory models
them.

## 1. Inventory

### The components

| Component | Source | State | Operations | Module |
|---|---|---|---|---|
| frame distributor | `write_tap_v5.c` `main`, `mac_list_*`, `write_packet_for_*` | the list `list_top` (station, tap name, descriptor), the frame `msg` in hand | receive, the four tests for group and broadcast frames, flood, learn a station, write, exit, restart | `TapDistributor`, `FrameLength`, `StationTaps` |
| tap devices | `tun_alloc`; `openvpn --mktun` and `ip link set` through `system()` | devices that exist, are persistent, are up, are held; the program's descriptors | create the lowest free unit, bring up, attach, release at exit; other processes attach, detach, create, remove | `TapDevices` |
| ulog reader | `ulog_get_packet` | static cursor `nlh` into static `buf`, the socket | return a message left over, receive a datagram, parse error, ENOBUFS | `UlogReader` |
| hypercall variant | `write_tap_v5_hyper.c` `main` | the batch (`sizes`, `data`, `msg`, `i`), one tap, a netlink socket it binds | create `tap0`, get a batch, write and print each packet | `HyperWriter` |
| start-up | `write_tap_v5.c:524-563` | the group mask | take the argument, range-test it (to no effect), shift, bind | `UlogReader` (`Bind`, `GroupOf`) |
| the whole of `write_tap_v5.c` | `main` | reader and distributor in one process | | `TapPipeline` |
| list library | `mac_list.c`, and its descendant in `write_tap_v5.c:85-242` | a linked list of addresses, pointer by pointer | init, add, count, check, print | `MacList`, `AddressList` |
| link dump | `ebtables_test.c` | one buffer, two cursors, two rests | one request, one `recv`, parse | `LinkDump` |
| earlier writers | `tap_bak/`, `write_to_tap_v4.c`, `cmd_test/` | one tap, the frame of the callback | open tap, open capture, callback with its writes | `PcapWriter` |
| trials, vendored headers | `cmd_line_arg.c`, `*_test.c`, `ebtables_u.h`, `ethernetdb.h` | none | | not modelled |

### How they interact

The kernel's `ebt_ulog` collects packets in a batch and broadcasts it as one
datagram of several netlink messages; `ulog_get_packet` returns them one by one
to `main`. `main` decides by the addresses whether a frame is for everybody; if
so it writes a copy to each tap of the list. Otherwise, when the frame leaves by
the bridge port `vif1.0-emu` its destination, and when it comes in there its
source, is added to the list if it is new, and the frame is written to that
station's tap. Adding a station runs two shell commands (`openvpn --mktun --dev
tap`, which chooses the unit itself, and `ip link set tap<count> up`) and then
attaches to `tap<count>`, where `<count>` is the length of the list. The devices
are shared by all processes of the host and survive the program.

The pcap programs get their frames from libpcap, which calls `start_pktfunc` for
each, and write them to a tap named on the command line. `ebtables_test.c` talks
to the kernel only.

### What is hard about it

* The unit openvpn creates and the unit the program names are chosen apart;
  devices of earlier runs, other processes and failing commands come between.
* Nothing is cleaned up: `delete_tap` composes its command lines and does not
  run them, so each run starts among the devices of the runs before.
* The cursor of `ulog_get_packet` lives across calls, and only the flags the
  kernel sets keep it inside the datagram; after a parse error, or on another
  sender's datagram, nothing does. Datagrams are lost when the socket is full,
  while `main` is in `system()`.
* The tests for group frames compare unterminated arrays and the bytes at the
  place of IPv4 addresses, in any frame.
* Lengths are used in network byte order.
* The number of a new tap is counted by a walk of its own, before its node is
  linked.
* An argument that is no group's number selects some group all the same.
* A dump may take several datagrams, of which the link dump receives one.
* Descriptors, units and socket room run out; the process may end anywhere.

`hazards` in `PROJECT.json` has each of these at its line.

### What makes each part correct

* distributor: each station has one tap and each tap one station; a unicast
  frame reaches its stations' taps and no others; a broadcast frame reaches
  every tap once; no broadcast or group address becomes a station; every frame
  is dealt with.
* devices: what the list says of a device is what the kernel has; a listed
  device is up and persistent.
* reader: the packets of one run are an unbroken stretch of those captured, and
  none waits for ever.
* whole pipeline: a packet captured for a station reaches its tap, in order and
  without a gap, unless the program ends; the parts do not disturb each other.
* list: nodes, chain and cursors agree at every step; a call does what a list of
  addresses promises, and returns.
* earlier writers: with which counts frames are copied; every callback ends.
* link dump: of the kinds and families it prints, what is printed is a beginning
  of what there is, and all of it when the answer fits.
* hypercall variant: every packet is written entire, in order, from its place
  in the buffer; every batch ends.

## 2. Modules

| Module | Models |
|---|---|
| `FrameLength` | the 16-bit length arithmetic of the writes |
| `TapDevices` | the host's tap devices; actions used by the two writers |
| `StationTaps` | the abstract specification: what the distributor promises to the readers of the taps |
| `TapDistributor` | `write_tap_v5.c` after `ulog_get_packet`; `EXTENDS TapDevices, FrameLength` |
| `UlogReader` | `ulog_get_packet`, with `ebt_ulog` and the socket around it |
| `HyperWriter` | `write_tap_v5_hyper.c`; `EXTENDS TapDevices` |
| `TapPipeline` | `write_tap_v5.c` as a whole; `EXTENDS TapDistributor`, instantiates `UlogReader` |
| `AddressList` | the abstract specification of both lists |
| `MacList` | `mac_list.c` and the list of `write_tap_v5.c` with their pointers |
| `PcapWriter` | `pcap_test.c`, `write_to_tap_v1.c` to `v4.c`, `cmd_test.c`; `EXTENDS TapDevices, FrameLength` |
| `LinkDump` | `ebtables_test.c` |
| `MCTapDistributor`, `MCUlogReader`, `MCHyperWriter`, `MCTapPipeline`, `MCMacList`, `MCPcapWriter`, `MCLinkDump` | instances for TLC |
| `Arithmetic_proofs` | lemmas: the fate of a write's count, induction, recursion and sequences |
| `TapDistributor_proofs`, `UlogReader_proofs`, `HyperWriter_proofs`, `TapPipeline_proofs`, `PcapWriter_proofs`, `LinkDump_proofs`, `MacList_proofs` | the theorems about each module |

### TapDistributor and the code

`list_top` is a sequence of the C structs. `pc` is the place in `main`:

| `pc` | place | actions |
|---|---|---|
| `recv` | `ulog_get_packet` (566) | `Receive` |
| `match` | the tests at 602, 608, 617 | `MulticastAdd`, `BroadcastMac`, `BroadcastAdd`, `NoFlood` |
| `flood` | the loops of the `write_packet_for_*` functions | `FloodWrite`, `FloodEnd` |
| `leg` | the `strcmp` at 623 (`leg = "out"`) or 632 (`"in"`), and `mac_list_add`'s search | `OtherPort`, `AlreadyListed`, `NotListed` |
| `mktun`, `linkup`, `alloc` | the two `system()` calls and `tun_alloc` | `Mktun`, `SetLinkUp`, `CommandFails`, `TunAlloc`, `AllocError` |
| `write` | `mac_list_check` and the `write` | `Write` |
| `dead` | no process | `Start` |

Each system call is a step of its own, so other processes (`Foreign`) and the
end of the process (`Killed`) come between any two. A restart (`Start`) begins
with an empty list; `DevicesInit` and the devices left by `ReleaseAll` are what
it meets. A device the process holds that `openvpn` did not create disappears
with it; the others stay.

Undefined behaviour: the prefix comparisons of `write_packet_for_multicastadd`
(270, 284) use `strcmp` on `char[6]` arrays without terminator, and that of
`write_packet_for_broadcastadd` on `char[2]` arrays. Equal prefixes may or may
not compare equal, so `MulticastAdd` and `BroadcastAdd` are possible, never
forced, and `NoFlood` is possible for any frame without the broadcast address.
Unequal prefixes never compare equal. The overruns of `sprintf` (`buf_src`,
`buf_dst` at 312-320, `tap_name` at 120) are taken to reach nothing: in the build
kept beside the source (`write_to_tap`) these arrays are sixteen and eight bytes
apart. A build that ends the process there is covered by `Killed`.
`write_packet_for_multicastadd` is called for the destination and the source;
`MulticastAdd(item)` is the call that matches.

Data abstracted: a frame is its addresses, the two port comparisons, whether
one of the words at the place of the IPv4 addresses prints with a leading `ff`,
and the 16 bits at the place of the IPv4 total length. `mac_list_print` and the
other printing are left out. `malloc` is taken to succeed.

### UlogReader and the code

Packets are numbers in order of capture, a datagram of `ebt_ulog` is an interval
of them, and 0 is the number of any other bytes that are taken for a message.
`nlh` is the static cursor, `NULL` between datagrams. `Leftover` is line 443
onwards with a message in hand; `Received`, `ParseError` and `RecvError` are the
outcomes of `recvfrom`; `After` is what lines 487-493 do with the cursor. In a
message of `ebt_ulog` they find the flags as it sets them (`Multi`, `Done`).
`EINTR` returns to `recv_new` and is a stutter. `pc = "main"` covers all of
`main` for one packet, which may take arbitrarily long.

A datagram of another sender (`Stray`) may have any header: it may pass
`NLMSG_OK` or fail it (`StrayOk`), and its flags, its type and its `nlmsg_len`
may be anything. Lines 490-491 go by them, also after a parse error, when the
next call finds `nlh` on the message that was refused. So from a message 0 the
cursor goes to `NULL` or to bytes of which nothing is known, in `buf` or beyond
it: 0 again. With an `nlmsg_len` of 0 it stays where it is for ever, and the
program never calls `recvfrom` again. Where a header leads the cursor to what is
left in `buf` of an older, longer datagram of `ebt_ulog`, the packets met there
count as 0 too. Reading beyond `buf` may also end the process (`Kill`).
`MaxHanded` bounds how many messages may have been returned before one that is
not `ebt_ulog`'s.

`Bind(i)` is a start with argument `i`. The range test at 534 runs its body only
when `PRINTF` is defined, so every number goes on to `1 << (i - 1)`, whose count
the processor takes modulo 32: `GroupOf`. An argument that is no number is 0 for
`strtoul`. `NetlinkBroadcast` reaches the socket only if it is bound to the
datagram's group, `RuleGroup` for those of `ebt_ulog`.

### TapPipeline

The two components share a process and nothing else. `at` is the reader's place
(`UlogReader`'s `pc`). `GetPacket` is the call at 566, possible when `main` is
at `label`; `Hand` is its return with a message, which is `Receive` of the frame
`Contents` gives for that packet; `Skip` its return with `NULL`; `Stop` the end
of both. `copied` is history: which packet went to which tap. The reader's
fairness of `Call` was an assumption; here it is part of what is checked
(`PartsKept`).

### MacList and the code

`version` tells the two lists apart; they share their walks. A step is one
pointer followed. In v5 `mac_list_add` compares (`Listed`), counts (`pc =
"count"`, with `item` set), links the node with its `mac_list_next` unset
(`WILD`), runs `tun_alloc` (`pc = "alloc"`), sets the pointer and prints. In
`mac_list.c` it does not compare, and `mac_list_check` calls it: `back` is the
place it returns to. `CheckReturns` then answers `list_top` for a list that was
empty and else the cursor of the search, which has become `NULL`. The names of
commands and devices are the distributor's subject and left out here, but for
the number in the tap's name.

`AddressList` has only a sequence of addresses and the last answers. Both lists
implement it (`ImplementsList`): v5's the strict kind, which enters an address
once; `mac_list.c`'s the other, whose check may answer none of an address that
it has just entered. `found` is reset by `mac_list_init`, because a pointer
found before points to freed memory then.

### PcapWriter and the code

Each program is what its `main` does (`Main`: does it open a tap, does it
capture) and the list of writes its callback makes of a frame. v1 clears
`size[]` before the loop that runs while `size[0]` is not 0, so it writes
nothing. v2 writes `ip_len` bytes, then again, then as many as the second write
returned; the refused write returns -1. v4 is compiled without `mac_check`: it
opens its tap and ends. `WriteCopy` lets the driver refuse any write (a tap that
is down) and take those of at least an Ethernet header. Which frames the filters
of v2 and v3 let pass (`Passes`: by their destination only, for what is compared
as the source is the destination again) is in the model and in no property.
`CmdTest` runs beside them and brings up `tap0`, whichever device openvpn
created.

### LinkDump and the code

The answer is one message for each interface and a last one; the kernel fills
the first datagram with as many as fit (`FirstDatagram`). `n` and `rtalist_len`
are the two rests the macros count down. An interface is its family and its
attributes, an attribute its kind and the length of its payload. `Accepted` is
the tests at 101 and 108, after which a message is passed over (`PassOver`) or
looked into (`StartLink`); `Prints` is the switch: names, MTU and link always,
addresses only with six bytes (140), statistics only with the size of `struct
net_device_stats` (151), other kinds not at all (161). All attributes are passed,
those printed are noted in `printed`. The texts are left out.

### HyperWriter and the code

The commands and `tun_alloc` for `tap0` are as in the distributor. `GetPackets`
is `xc_get_packets`, which the repository does not contain: it delivers up to
`MAX_PKT` packets of any sizes one after another in `data`. `WritePacket` and
`DumpHeader` are the two halves of the loop's body (601-618). The loop prints
fifteen bytes of a packet of any size: `DumpOverrun` says when, and how far, it
reads beyond `data`. `UlogDatagram` fills the socket the program binds.
`HyperForeign` is other processes, which may also remove `tap0`. If one does after
`openvpn --mktun` and before `tun_alloc` has the device, `TUNSETIFF` creates it
again, down and not persistent, and no command has failed: the history variable
`disturbed` notes this as it notes a failing command, and `Tap0Up` excludes both.

### StationTaps

The abstract state is: whether the distributor runs, the relation of stations to
taps, the frame last taken, and the taps it was copied to. `Learn` gives a
station of the current frame a tap no other station has; `Deliver` copies the
frame to the tap of a station that is a party to it, or of any station when the
frame is for everybody; pairs are never removed while the distributor runs.
`TapDistributor!Promise` gives the refinement mapping; in it a copy counts for
the device that the kernel finds behind the descriptor, not for the entry's
name, so the mapping fails if the two come apart.

## 3. Runs

| Run | Configuration | Shows |
|---|---|---|
| `distributor` | `Distributor.cfg` | `TypeOK`, `TableSound`, `NumbersBounded`, `UnicastIsolation`, `BroadcastComplete`, `BroadcastNotLearned`, `ImplementsPromise`, `FrameDone`, with every fault and neighbour |
| `distributor_quiet` | `DistributorQuiet.cfg` | `ListedDevicesUp` without failing commands and removals; `CopyFate` over lengths of every byte order |
| `ulog` | `Ulog.cfg` | `Unbroken`, `CursorInside`, `AllHanded`, against other senders' datagrams with any header; `OthersUnheard` over arguments that name the rule's group, its neighbour, and none |
| `pipeline` | `Pipeline.cfg` | `TapInOrder`, `NoGap`, `ReachesTap` from capture to tap; `PartsKept`: both components' specifications, with their fairness, hold in the whole |
| `mac_list` | `MacList.cfg` | `ChainSound`, `NumbersInOrder`, `ImplementsList`, `CallsReturn`, for every sequence of calls |
| `pcap` | `Pcap.cfg` | `ThirdRepeatsSecond`, `CopiesNeverExact`, `CallbackReturns` |
| `link_dump` | `LinkDump.cfg` | `PrintedComplete`, `RestRight`, `MainEnds`, with families that are refused and attributes that are not printed |
| `hyper` | `Hyper.cfg` | `PacketsWritten`, `DumpOverrun`, `Tap0Up` (but for failing commands and removals of `tap0` before it is held), `BatchEnds` |
| `group_learned` | `GroupLearned.cfg` | a violation: a group address gets a tap of its own |
| `copies_whole` | `CopiesWhole.cfg` | a violation: the count written is not the frame's size |
| `ulog_stray` | `UlogStray.cfg` | a violation: a refused message is returned by the next call |
| `hyper_ulog` | `HyperUlog.cfg` | a violation: the ulog group is never read |

Bounds, and why they are enough:

* `distributor`: two stations, a group address of each kind and the broadcast
  address; two units and three descriptors (`MaxFd - FirstFd`), so that units
  run out before descriptors and, a group address taken for a station included,
  descriptors run out too. A third station adds nothing to isolation, which
  relates two.
* `distributor_quiet`: three stations, three units and four descriptors, every
  initial set of devices. A broadcast frame of each length checks the count.
* `ulog`: batches of up to three messages (first, middle, last), room for two
  datagrams, five packets (`MaxCaptured`): a batch is being read while one waits
  and a third overruns the socket. One datagram of another sender (`MaxStrays`),
  which passes `NLMSG_OK` or fails it; what its header leads to is returned while
  fewer than four messages have been (`MaxHanded`), so that the cursor may be
  kept several times, in between or for ever.

  The group of the rule is 32, the highest; the arguments are 32, 31, 0 (which
  wraps to it) and -1, and 1 when there is none.
* `hyper`: packets of 5, 15 and 20 bytes in a buffer of 45, so that a batch may
  fill it to the last byte with its last packet longer than the fifteen bytes
  printed, as long, or shorter; two units, one descriptor.
* `pipeline`: two stations, four packets in batches of two (a frame, a hairpin
  frame, a broadcast and a late frame from a station to itself), room for two
  datagrams and one datagram of another sender (`MaxHanded` 3), two descriptors
  and one unit. Batches wait while a station is added, and the socket overruns.
* `mac_list`: three nodes (first, middle, last) and three addresses, so that
  `mac_list.c` lists an address twice and v5 fills the nodes.
* `pcap`: frames whose IPv4 lengths have their bytes in every order, on both
  sides of the 68 bytes of the capture, padded frames, ARP; two units, one
  descriptor.
* `link_dump`: up to three interfaces of up to two attributes, with lengths that
  make the answer fit, not fit, or begin with a message longer than the buffer;
  one family that is looked into and one that is refused; a name, addresses of
  six and of twenty bytes, and statistics of another size than the program's, as
  the kernel's 32-bit counters are on a 64-bit machine.
  Lengths are scaled down: 10 words to a datagram and 12 to the buffer stand for
  somewhat less than 4096 bytes and 4096. `CHECK_DEADLOCK FALSE`, since `main`
  ends.

No symmetry is used: the runs are small, and liveness and symmetry do not go
together.

### Fairness

* `FairSpec`: weak fairness of `Distribute`, the steps the process takes by
  itself. The scheduler runs a process that is not waiting, and openvpn and ip
  end. Nothing is assumed of frames, restarts or other processes.
* `UlogFairSpec`: weak fairness of `Flush` (`ebt_ulog`'s timer sends a partial
  batch), of `Call` (`main` calls again after each packet: justified by
  `FrameDone`) and of the outcomes of the call once there is a datagram.
* `PipeFairSpec`: weak fairness of `Flush` and of `Running`, the steps of the
  process. Nothing is assumed of `Call`: `PartsKept` checks that it follows.
* `ListFairSpec`, `PcapFairSpec`, `LinkDumpFairSpec`: weak fairness of the
  steps of the one thread; for the last also that the kernel answers a dump.
* `HyperFairSpec`: weak fairness of `HyperStep`. That `xc_get_packets` returns
  is an assumption about the hypervisor, which `BatchEnds` does not need.

## 4. Proofs

The theorems hold for any values of the constants: any sets of addresses, frames
and nodes, any numbers of units, descriptors, packets and interfaces, any
arguments, and any devices left behind. Every safety invariant the passing runs
check is a theorem, and so are the two refinements.

### Assumptions

They are the `ASSUME`s of the modules, evaluated by TLC on every run:

* `DeviceAssumption`, `FrameAssumption`: the numbers are natural numbers, the
  frames have the fields the code reads, the broadcast and group addresses are
  different.
* `UlogAssumption`, and `PipelineAssumption` with the same for the reader inside
  the pipeline: a batch has at least one packet, the rule's group is one of
  1..32, arguments are integers, the bounds are natural numbers. Of other
  senders nothing is assumed.
* `HyperAssumption`: sizes are natural numbers. That a batch fits `data` and the
  array `sizes` is part of `Batches`, as an assumption about the hypervisor.
* `PcapAssumption`: the captured length follows from the IPv4 length of the
  frame, with Ethernet's padding.
* `LinkDumpAssumption`: what the kernel puts in one datagram fits the buffer
  unless it is a single message; attributes have a kind and a length; a header
  is no shorter than the last message.
* `MacListAssumption`: there are finitely many nodes, the null pointer and the
  unset pointer are not among them, and the null pointer is no address.

### Arithmetic_proofs

`WholeExactly`, `TakenExactly` and `NeverExact` say what becomes of a write for
all 65536 lengths. The rest serves the other modules. What a recursive function
computes for every length is shown by `SetInduction`, an induction stated of a
*set* of numbers, and `Recursion`, which unfolds a function recursive on an
interval; both come from `LeastNat`, and that from the library's fact that `<`
is well-founded on the natural numbers. The library's induction theorems
themselves take an operator and cannot be used. `Appending`, `Dequeuing` and
their neighbours say what `Append`, `Tail` and `\o` do to each element.

### TapDistributor_proofs

The inductive invariant is

    IInv == TypeOK /\ TableShape /\ FdShape /\ ControlShape

`TableSound` alone is not inductive. That `tap<count>` is not held yet when a
station is added needs the exact form of the descriptor table: descriptor
`FirstFd + k` is attached to device `k` for each `k` below the length of the
list, and the others are closed (`FdShape`), which holds because the program
closes none; with it the lowest free descriptor is that of the new entry. That
no address is listed twice needs `ControlShape`: between the search of
`mac_list_add` and the new entry the address is still not in the list. `DieInv`,
`LocalInv`, `CommandInv`, `TunAllocInv` and `ForeignInv` are the steps.

Further parts carry one result each: `FrameShape`, `IdleShape`, `UnicastShape`
(how many copies each half of the unicast part has made), `BroadcastShape` (the
copies are for the entries the flood has passed), `CountShape`, `UpShape`
(existing units are persistent, so the unit openvpn creates is the next entry's
unless that is there already) and `OnceShape` (no tap is written to twice for a
frame, whichever tests it passed). `Distribution` states together those that
the pipeline needs.

### UlogReader_proofs

`Unbroken` is about the packets `main` was given. On their way to it packets are
in four places: handed over, in `buf` behind `nlh`, in the socket's queue, and
in the kernel's batch. `UlogInv` says that each place goes on where the one
before ends (`HandedGoesOn`, `BufGoesOn`, `QueueGoesOn`, `BatchGoesOn`), with
other senders' bytes (0) anywhere between. Only the last link breaks at an
overrun, and the next `recvfrom` then ends the program. A program bound to
another group has none of this (`NothingHeard`). `CursorInside` needs that a
datagram of `ebt_ulog` ends with the message marked as the last; it is about
those datagrams only, since nothing holds the cursor on another sender's. From
there it comes back only by `NULL`, which is why no packet of `ebt_ulog` can be
skipped or repeated on the way.

### HyperWriter_proofs

`HyperInv` says how the hypervisor lays a batch out (`BatchShape`), that `msg`
is `start[i]` while there is a packet `i` (`LoopShape`), that each packet before
`i` was written from its place with its size (`WrittenShape`), and for `Tap0Up`
that no device other than `tap0` is there without being persistent
(`DeviceShape`) and that an undisturbed `tap0` is up (`UpShape`). `DumpOverrun`
is what `BatchShape` leaves: a packet is inside `data`, the fifteen bytes need
not be. `LayoutUnfolds` and `LayoutInside` are the induction:
the places of any batch are sums of sizes, the last of them inside the buffer.

### TapPipeline_proofs

`ReaderKept` maps every step of the whole to a step of the reader or a stutter,
`DistributorKept` the same for the distributor. For the second, `HandedShape` is
needed: the packets handed over are ones captured, so the frame received is one
of `Frames`. The theorems about the parts then hold of the whole, and `PipeInv`
adds what relates the two: where `main` can be in both at once (`MeetShape`),
that the copies of the packet in hand are those of the distributor's frame
(`CopiedShape`), and that every unicast packet `main` is done with has been
copied for each of its stations (`ServedShape`). `TapInOrder` follows from the
order of `handed` and `OnceShape`. The proof showed an exception that the runs'
frames had not: a frame on the watched port from a station to itself is written
to that station's tap twice, once by each half of the unicast part. `TapInOrder`
states it (`ToItself`), and the run has such a frame.

### PcapWriter_proofs

`PcapInv` says that the writes done and to do are those the callback makes of
its frame (`WriteShape`), and what each returned (`ResultShape`). The third write
of v2 takes its count from the second's return value; `ThirdRepeatsSecond`
follows, and `CopiesNeverExact` with `NeverExact`.

### LinkDump_proofs

The rests `n` and `rtalist_len` are counted down from the length of a datagram
and of a message; that they stay the length of what is left (`BytesShape`,
`PlaceShape`), for any number of interfaces and attributes, needs that sums of
lengths split (`PartTotal`, `RestTotal`, `BeginningTotal`). So `NLMSG_OK` and
`RTA_OK` fail only at the end. What has been printed is, in order, what there
was to print of what has been passed (`Shows`, `PrintedShape`): passing a
refused message or an attribute of another kind passes nothing to print
(`PassInterface`, `PassAttribute`), and an attribute that is printed comes after
all that were (`ShowAttribute`). A datagram longer than the buffer is a single
message, of which `NLMSG_OK` fails. `FirstLongest` shows that the kernel's first
datagram is the longest beginning that fits.

### MacList_proofs

    ListInv == ListTypeOK /\ Pointers /\ \E s \in Seq(Node) : Shape(s)

There is a sequence of different nodes that the pointers run through from
`list_top` to `NULL`, or to the unset pointer while `tun_alloc` runs, and these
are the nodes allocated (`Chained`). A walk's cursor is on one of them with nodes
of other addresses behind it (`Passed`); `mac_list_count` has counted those it
passed, and its result still holds when the node is linked (`Counting`, from
which the tap's number is the node's place). `Checking` is the state in which
`mac_list_check` of `mac_list.c` calls `mac_list_add` and resumes. `ChainRuns`
shows that the recursive function `Chain`, which follows the pointers, gives the
places of that sequence; with it every pointer step is a step of `AddressList`
or a stutter (`ListStepsMap`), for both lists.

### The theorems

| Theorem | Statement | From |
|---|---|---|
| `TypeCorrect`, `TableIsSound`, `NumbersAreBounded`, `BroadcastIsNotLearned` | `Spec => []...` | `IInv` |
| `Implementation` | `Spec => ImplementsPromise` | `IInv`, `FrameShape` |
| `ListedAreUp` | `Spec => []ListedDevicesUp` | `IInv`, `UpShape` |
| `UnicastIsIsolated` | `Spec => []UnicastIsolation` | `IInv`, `FrameShape`, `IdleShape`, `UnicastShape` |
| `BroadcastIsComplete` | `Spec => []BroadcastComplete` | `IInv`, `IdleShape`, `BroadcastShape` |
| `FateOfCopies` | `Spec => []CopyFate` | `IInv`, `CountShape`, `WholeExactly`, `TakenExactly`, `NeverExact` |
| `Distribution` | `Spec => []DistInv` | `IInv`, `FrameShape`, `IdleShape`, `UnicastShape`, `OnceShape` |
| `UlogTypes`, `UlogUnbroken`, `UlogCursorInside`, `UlogOthersUnheard` | `UlogSpec => []...` | `UlogInvariance` |
| `HyperTypes`, `HyperPacketsWritten`, `HyperDumpOverrun`, `HyperTap0Up` | `HyperSpec => []...` | `HyperInvariance` |
| `ReaderKept`, `DistributorKept` | `PipeSpec => Reader!UlogSpec`, `PipeSpec => Spec` | `HandedShape` |
| `PipeTypes`, `TapsInOrder`, `TapsWithoutGap` | `PipeSpec => []...` | `PipeInvariance`, `Distribution`, `UlogInvariance` |
| `PcapTypes`, `PcapThirdRepeats`, `PcapCopiesNeverExact` | `PcapSpec => []...` | `PcapInvariance`, `NeverExact` |
| `DumpTypes`, `DumpRestRight`, `DumpPrintedComplete` | `LinkDumpSpec => []...` | `DumpInvariance` |
| `ListTypes`, `ListChainSound`, `ListNumbers` | `ListSpec => []...` | `ListInvariance`, `ChainRuns` |
| `ListImplementation` | `ListSpec => ImplementsList` | `ListInvariance`, `ListStepsMap` |

### Only model-checked

The liveness properties `FrameDone`, `AllHanded`, `BatchEnds`, `ReachesTap`,
`CallsReturn`, `CallbackReturns` and `MainEnds`, because fairness and ENABLED are
out of the prover's reach; for the same reason `PartsKept`, whose part without
fairness is `ReaderKept` and `DistributorKept`. The four violations are traces
that TLC finds.

## 5. Not modelled

* Printing, `localtime`, and the code under `#ifdef etype_print` and `#if 0`.
* `tap_name`'s and `cmd_str`'s bytes: `NumbersBounded` says how far the numbers
  go. With the usual 1024 descriptors the longest name takes eight bytes.
* Tap devices refuse writes while they are down, and the queue of a tap drops
  frames: `sent` is the writes made, not the frames its reader gets.
* A child of `system()` that outlives the program.
* In the distributor, `malloc` failing (its result is used unchecked); in
  `MacList` it ends the process.
* In `UlogReader`, messages cut short by a too small buffer, and `socket` or
  `bind` failing before the first packet.
* In `write_tap_v5_hyper.c`, the copies of the list, the floods and
  `ulog_get_packet`: they are under `#if 0`, run on an empty list, or are never
  called.
* In `write_to_tap_v4.c` the list and the callback (`#ifdef mac_check`, not
  defined), and the socket loop of v2 (`#ifdef check`, not defined).
* The trials (`cmd_line_arg.c`, `system_func_test.c`,
  `write_packet_multicast_test.c`) call one library function each, and
  `ebtables_u.h` and `ethernetdb.h` are headers of ebtables: none has state.

## 6. Plan

Every safety invariant and both refinements are proved. What is left:

1. From `StationTaps` and `AddressList` alone: what a reader of a tap, and a
   caller of a list, may conclude (for `StationTaps`, that a tap gets only
   frames of its station or for everybody). With the two refinements these
   hold of the code.
2. The four lists of `UlogReader` as one: that packets handed over, in `buf`,
   queued and batched are the packets captured since the start, as a refinement
   of a reader that loses nothing until it ends.
3. The safety half of the liveness arguments: the ranks that go down (rests of
   `LinkDump`, nodes ahead of a cursor in `MacList`, entries ahead in a flood).
