----------------------------- MODULE TapPipeline -----------------------------
(***************************************************************************)
(* write_tap_v5.c as a whole: the packets the kernel captures, the socket, *)
(* ulog_get_packet (UlogReader), main's distribution of what it returns    *)
(* (TapDistributor), and the taps.  The two components meet in one         *)
(* process: main calls ulog_get_packet when it is at label, a packet is    *)
(* returned to it in the same step, and whatever ends one ends the other.  *)
(***************************************************************************)
EXTENDS TapDistributor

CONSTANTS
    Contents,   \* Contents[n]: the frame captured as packet n; [0] a stray's
    Threshold, SockRoom, NULL, RuleGroup, Arguments, StrayOk, MaxCaptured,
    MaxStrays, MaxHanded

ASSUME PipelineAssumption ==
    /\ MaxCaptured \in Nat
    /\ Contents \in [0 .. MaxCaptured -> Frames]
    /\ Threshold \in Nat \ {0}
    /\ SockRoom \in Nat
    /\ NULL \notin Nat
    /\ RuleGroup \in 1 .. 32
    /\ Arguments \subseteq Int
    /\ StrayOk \subseteq BOOLEAN
    /\ MaxStrays \in Nat
    /\ MaxHanded \in Nat

VARIABLES
    captured, sentUpTo, queue, strays, overrun, arg, buf, nlh, handed,
    at,      \* where the process is with regard to ulog_get_packet
    copied   \* history: the packet and the tap of each copy of this run

Reader == INSTANCE UlogReader WITH pc <- at

reader == <<captured, sentUpTo, queue, strays, overrun, arg, buf, nlh, at,
            handed>>
pipeVars == <<vars, reader, copied>>

PipeTypeOK ==
    /\ TypeOK
    /\ Reader!UlogTypeOK
    /\ at = "get" => pc = "recv"
    /\ at = "dead" <=> pc = "dead"
    /\ copied \in Seq((0 .. MaxCaptured) \X (Nat \cup {NoTap}))

PipeInit ==
    /\ Init
    /\ Reader!UlogInit
    /\ copied = <<>>

\* The packet that main is busy with.
Current == handed[Len(handed)]

-----------------------------------------------------------------------------
Boot ==
    /\ Start
    /\ \E i \in Arguments \cup {1} : Reader!Bind(i)
    /\ UNCHANGED copied

Kernel ==
    /\ Reader!Capture \/ Reader!Flush \/ Reader!StrayArrives
    /\ UNCHANGED <<vars, copied>>

\* Mutants of GetPacket: main calls while it is busy with a packet; it calls
\* again only after a packet that was copied.
GetPacketEarly ==
    /\ Reader!Call
    /\ UNCHANGED <<vars, copied>>

GetPacketOnce ==
    /\ pc = "recv"
    /\ msg = NoFrame \/ sent # <<>>
    /\ Reader!Call
    /\ UNCHANGED <<vars, copied>>

\* main calls ulog_get_packet again, done with the last packet.
GetPacket ==
    /\ pc = "recv"
    /\ Reader!Call
    /\ UNCHANGED <<vars, copied>>

\* Mutant of Hand: the frame distributed is that of the cursor, which has
\* moved on already.
HandNext ==
    /\ Reader!Leftover \/ Reader!Received
    /\ Receive(Contents[IF nlh' = NULL THEN handed'[Len(handed')] ELSE nlh'])
    /\ UNCHANGED copied

\* ulog_get_packet returns a message, whose frame main takes.
Hand ==
    /\ Reader!Leftover \/ Reader!Received
    /\ Receive(Contents[handed'[Len(handed')]])
    /\ UNCHANGED copied

\* It returns NULL, and main continues.
Skip ==
    /\ Reader!ParseError
    /\ UNCHANGED <<vars, copied>>

\* A step of the distribution, which writes at most one copy.
Step ==
    /\ Distribute
    /\ pc' # "dead"
    /\ copied' = IF Len(sent') > Len(sent)
                 THEN Append(copied, <<Current, sent'[Len(sent')].tap>>)
                 ELSE copied
    /\ UNCHANGED reader

\* The process ends: recvfrom's error, tun_alloc's, or a signal.
Stop ==
    /\ \/ Reader!RecvError /\ Killed
       \/ AllocError /\ Reader!Kill
       \/ Killed /\ Reader!Kill
    /\ copied' = <<>>

PipeForeign ==
    /\ Foreign
    /\ UNCHANGED <<reader, copied>>

PipeNext ==
    \/ Boot \/ Kernel \/ GetPacket \/ Hand \/ Skip \/ Step \/ Stop
    \/ PipeForeign

PipeSpec == PipeInit /\ [][PipeNext]_pipeVars

\* What the process does by itself.
Running ==
    \/ GetPacket \/ Hand \/ Skip \/ Step
    \/ Reader!RecvError /\ Killed /\ copied' = <<>>
    \/ AllocError /\ Reader!Kill /\ copied' = <<>>

\* The scheduler runs the process whenever it is not waiting in recvfrom for
\* an empty socket, commands end, and ebt_ulog's timer runs out.
PipeFairSpec ==
    /\ PipeSpec
    /\ WF_pipeVars(Reader!Flush /\ UNCHANGED <<vars, copied>>)
    /\ WF_pipeVars(Running)

-----------------------------------------------------------------------------
(* Properties *)

\* The two components keep, in one process, what each was shown to do by
\* itself: the reader's assumption that main always calls again is met by the
\* distribution, which always ends.
PartsKept == FairSpec /\ Reader!UlogFairSpec

\* Frames that no test takes for a group frame.
Unicast(n) == Contents[n].version /\ ~FloodFrame(Contents[n])

\* The stations packet n is handed over for.
Parties(n) ==
    {m \in {Contents[n].dst} : Contents[n].physout} \cup
    {m \in {Contents[n].src} : Contents[n].physin}

\* A packet from a station to itself, by the watched port both ways.
ToItself(n) ==
    /\ Contents[n].physout
    /\ Contents[n].physin
    /\ Contents[n].dst = Contents[n].src

\* A tap gets the packets of a run in the order of their capture, and none of
\* them twice, whether as flood or as unicast, but for one from a station to
\* itself: that is written to its tap as sent and as received.
TapInOrder ==
    \A i, j \in 1 .. Len(copied) :
        /\ i < j
        /\ copied[i][2] = copied[j][2]
        /\ 0 \notin {copied[i][1], copied[j][1]}
        => \/ copied[i][1] < copied[j][1]
           \/ copied[i][1] = copied[j][1] /\ ToItself(copied[i][1])

\* No gap either: between two packets that were handed to main in this run,
\* every unicast packet captured that leaves by or comes from vif1.0-emu has
\* been copied to the tap of its station.
NoGap ==
    \A i, j \in 1 .. Len(handed) : \A n \in handed[i] + 1 .. handed[j] - 1 :
        handed[i] # 0 /\ Unicast(n) =>
            \A m \in Parties(n) :
                \E k \in 1 .. Len(list_top) :
                    /\ list_top[k].mac_add = m
                    /\ \E l \in 1 .. Len(copied) :
                          copied[l] = <<n, list_top[k].tap_name>>

\* From capture to tap: a unicast packet of a watched port that is captured
\* while the program runs with the rule's group is copied to a tap, or the run
\* ends before, or never gets off the bytes of another sender.
ReachesTap ==
    \A n \in 1 .. MaxCaptured :
        Unicast(n) /\ Parties(n) # {} =>
            ((captured >= n /\ sentUpTo < n /\ at # "dead" /\ arg = RuleGroup)
                ~> \/ at = "dead"
                   \/ \E l \in 1 .. Len(copied) : copied[l][1] = n
                   \/ [](nlh = 0))
=============================================================================
