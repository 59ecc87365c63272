----------------------------- MODULE PcapWriter -----------------------------
(***************************************************************************)
(* The earlier programs of the repository: pcap_test.c, which prints the   *)
(* frames of br0, write_to_tap_v1.c, v2 and v3, in which this grew into    *)
(* copying the frames of one station to a tap, and write_to_tap_v4.c as it *)
(* is compiled, which opens its tap and ends.  They run on one host, one   *)
(* after the other, beside cmd_test.c, which creates a tap.                *)
(***************************************************************************)
EXTENDS TapDevices, FrameLength, Sequences

CONSTANTS
    PcapFrames,  \* the frames that pass br0
    NoFrame,     \* before the first frame
    StationC1,   \* 00:16:3e:0d:58:c1, for which v2 is compiled
    Station00    \* 00:16:3e:0d:58:00, for which v3 is compiled

\* ip: it is IPv4; tot_len: the 16 bits at the place of the IPv4 total length.
ASSUME PcapAssumption ==
    /\ NoFrame \notin PcapFrames
    /\ \A f \in PcapFrames :
          /\ f.len \in Nat
          /\ f.tot_len \in Word
          /\ f.ip => f.tot_len >= 20
          /\ f.ip => f.len = IF f.tot_len < 46 THEN 60
                             ELSE f.tot_len + SIZE_ETHERNET

VARIABLES
    program,   \* the program that runs, or ran last
    pc,        \* where its main is, or "callback": in start_pktfunc
    tap_fd,    \* the descriptor of its tap, or NoTap
    packet,    \* the frame of the callback
    todo,      \* the writes the callback has still to do
    written,   \* those it has done: the tap, the count and what write returned
    setup      \* the next command of cmd_test

pcap == <<program, pc, tap_fd, packet, todo, written>>
pcapVars == <<pcap, setup, devices>>

Programs == {"pcap_test", "v1", "v2", "v3", "v4"}

PcapTypeOK ==
    /\ DevicesTypeOK
    /\ program \in Programs
    /\ pc \in {"alloc", "open", "loop", "callback", "dead"}
    /\ tap_fd \in Fds \cup {NoTap}
    /\ packet \in PcapFrames \cup {NoFrame}
    /\ todo \in Seq({"ip_len", "written"})
    /\ written \in Seq([tap : Nat, count : Word \cup {-1},
                        ret : Word \cup {-1}])
    /\ setup \in {"mktun", "linkup", "done"}

PcapInit ==
    /\ DevicesInit
    /\ program \in Programs
    /\ pc = "dead"
    /\ tap_fd = NoTap
    /\ packet = NoFrame
    /\ todo = <<>>
    /\ written = <<>>
    /\ setup = "mktun"

-----------------------------------------------------------------------------
(* The programs: what main does, and which writes start_pktfunc makes of f *)

Main(tap, capture) == [tap |-> tap, capture |-> capture]

pcap_test_main == Main(FALSE, TRUE)
v1_main == Main(FALSE, TRUE)
v2_main == Main(TRUE, TRUE)
v3_main == Main(TRUE, TRUE)
v4_main == Main(TRUE, FALSE)

MainOf ==
    [pcap_test |-> pcap_test_main, v1 |-> v1_main, v2 |-> v2_main,
     v3 |-> v3_main, v4 |-> v4_main]

\* The filter of v2, v3 and pcap_test compares ether_dhost twice, the second
\* time as smac: it never sees the source.
Passes(f, filter) == f.dst = filter

\* It prints the headers of the frames that pass.
pcap_test_start_pktfunc(f) == <<>>

\* The loop of writes ends at once: size[] has just been cleared.
v1_start_pktfunc(f) == <<>>

\* write(ip_len), then write(write(ip_len)), whose result is printed.
v2_start_pktfunc(f) ==
    IF Passes(f, StationC1) THEN <<"ip_len", "ip_len", "written">> ELSE <<>>

v3_start_pktfunc(f) == IF Passes(f, Station00) THEN <<"ip_len">> ELSE <<>>

Callback(f) ==
    CASE program = "pcap_test" -> pcap_test_start_pktfunc(f)
      [] program = "v1" -> v1_start_pktfunc(f)
      [] program = "v2" -> v2_start_pktfunc(f)
      [] program = "v3" -> v3_start_pktfunc(f)

\* The bytes of a frame that pcap hands over (DPCP_RCV_MAXSIZE).
Caplen(f) == IF f.len < 68 THEN f.len ELSE 68

-----------------------------------------------------------------------------
\* A program is started.  v2 and v3 exit, and v4 ends in strncpy, when there
\* is no argument.
Run(prog) ==
    /\ pc = "dead"
    /\ program' = prog
    /\ pc' = IF MainOf[prog].tap THEN "alloc" ELSE "open"
    /\ UNCHANGED <<tap_fd, packet, todo, written, setup, devices>>

PcapDie ==
    /\ pc' = "dead"
    /\ tap_fd' = NoTap
    /\ packet' = NoFrame
    /\ todo' = <<>>
    /\ written' = <<>>
    /\ ReleaseAll
    /\ UNCHANGED <<program, setup>>

\* tun_alloc(argv[1]) succeeds.  An empty name (*dev is 0) leaves the choice to
\* the kernel: the lowest number there is no device of.
OpenTap ==
    /\ pc = "alloc"
    /\ \E n \in Units, d \in Fds : Attach(n, d) /\ tap_fd' = d
    /\ pc' = "open"
    /\ UNCHANGED <<program, packet, todo, written, setup>>

\* tun_alloc fails: exit(1).
OpenTapEnds ==
    /\ pc = "alloc"
    /\ \E n \in Units : AllocRefused(n)
    /\ PcapDie

\* pcap_open_live("br0") succeeds.
OpenCapture ==
    /\ pc = "open"
    /\ MainOf[program].capture
    /\ pc' = "loop"
    /\ UNCHANGED <<program, tap_fd, packet, todo, written, setup, devices>>

\* pcap_loop calls start_pktfunc with frame f.
Captured(f) ==
    /\ pc = "loop"
    /\ packet' = f
    /\ todo' = Callback(f)
    /\ written' = <<>>
    /\ pc' = "callback"
    /\ UNCHANGED <<program, tap_fd, setup, devices>>

\* Mutants of Count: the length of the frame; the length field every time.
FrameCount == packet.len
LengthCount == IpLenCount(packet.tot_len)

\* The count of the next write: ip_len, or what the last write returned.
Count ==
    IF Head(todo) = "ip_len" THEN IpLenCount(packet.tot_len)
    ELSE written[Len(written)].ret

\* Mutant of WriteCopy: a write that fails is tried again.
WriteUntilTaken ==
    /\ pc = "callback"
    /\ todo # <<>>
    /\ \E ret \in {Count} :
          /\ Count # -1 /\ Taken(Count)
          /\ written' = Append(written, [tap |-> fds[tap_fd], count |-> Count,
                                         ret |-> ret])
    /\ todo' = Tail(todo)
    /\ UNCHANGED <<program, pc, tap_fd, packet, setup, devices>>

\* write(tap_fd, packet, Count): the driver may refuse it for reasons of its
\* own, and -1 is no count it takes.
WriteCopy ==
    /\ pc = "callback"
    /\ todo # <<>>
    /\ \E ret \in {Count, -1} :
          /\ ret # -1 => Taken(Count)
          /\ written' = Append(written, [tap |-> fds[tap_fd], count |-> Count,
                                         ret |-> ret])
    /\ todo' = Tail(todo)
    /\ UNCHANGED <<program, pc, tap_fd, packet, setup, devices>>

\* start_pktfunc returns to pcap_loop.
CallbackDone ==
    /\ pc = "callback"
    /\ todo = <<>>
    /\ pc' = "loop"
    /\ UNCHANGED <<program, tap_fd, packet, todo, written, setup, devices>>

\* pcap_open_live fails, its NULL is ignored and pcap_loop does not survive it;
\* pcap_loop fails; a signal comes; or v4, which captures nothing, returns.
PcapEnds ==
    /\ pc \in {"open", "loop", "callback"}
    /\ PcapDie

\* The two commands of cmd_test, whatever their outcome; tap0 is brought up,
\* though openvpn may have created another device.
CmdTest ==
    /\ \/ /\ setup = "mktun"
          /\ CreateUnit \/ NoFreeUnit
          /\ setup' = "linkup"
       \/ /\ setup = "linkup"
          /\ LinkUp(0)
          /\ setup' = "done"
    /\ UNCHANGED pcap

PcapStep ==
    OpenTap \/ OpenTapEnds \/ OpenCapture \/ WriteCopy \/ CallbackDone

PcapNext ==
    \/ \E prog \in Programs : Run(prog)
    \/ \E f \in PcapFrames : Captured(f)
    \/ PcapStep \/ PcapEnds \/ CmdTest

PcapSpec == PcapInit /\ [][PcapNext]_pcapVars

\* The scheduler runs a program that is not waiting for a frame.
PcapFairSpec == PcapSpec /\ WF_pcapVars(PcapStep)

-----------------------------------------------------------------------------
(* Properties *)

\* v2's third write, whose count is what its second returned, is made with a
\* count of -1 when the second is refused: it is taken only if the second was,
\* and is then the same copy again.
ThirdRepeatsSecond ==
    \A k \in 1 .. Len(written) :
        k = 3 /\ written[3].ret # -1 =>
            written[3] = written[2] /\ written[3].count = written[1].count

\* A copy of an IPv4 packet the driver takes is never the packet's frame, and
\* all but those whose length has a low byte of 0 (and a high one of at most
\* 68) go on past the captured bytes into what happens to follow them.
CopiesNeverExact ==
    packet \in PcapFrames /\ packet.ip =>
        \A k \in 1 .. Len(written) : written[k].ret # -1 =>
            /\ written[k].ret # packet.len
            /\ written[k].ret <= Caplen(packet) <=>
                  packet.tot_len % 256 = 0 /\ packet.tot_len \div 256 <= 68

\* A callback comes to its end.
CallbackReturns == (pc = "callback") ~> (pc \in {"loop", "dead"})
=============================================================================
