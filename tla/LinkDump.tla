------------------------------ MODULE LinkDump ------------------------------
(***************************************************************************)
(* ebtables_test.c: asks the kernel for its network interfaces with an     *)
(* RTM_GETLINK dump, receives once, and prints what it received.  The      *)
(* kernel answers with one message per interface, as many to a datagram as *)
(* fit, and a last one of type NLMSG_DONE, which some kernels send apart.  *)
(* Only interfaces of two address families are looked into, and only some  *)
(* kinds of attributes are printed, and those only if of the right size.   *)
(*                                                                         *)
(* Lengths are in words of four bytes, the netlink alignment; payloads in  *)
(* bytes.                                                                  *)
(***************************************************************************)
EXTENDS Integers, Sequences

CONSTANTS
    Good,       \* the kernel ends a datagram before a message beyond this,
                \* which is less than a page
    BufLen,     \* sizeof(buf)
    HdrLen,     \* the headers of a link message, up to its attributes
    DoneLen,    \* the length of the last message
    Families,   \* the values of ifi_family
    Attrs,      \* attributes, by their kind and the bytes of their payload
    StatsLen,   \* sizeof(struct net_device_stats)
    MaxAttrs,   \* bound: attributes of an interface
    MaxLinks    \* bound: interfaces of the host

ASSUME LinkDumpAssumption ==
    /\ {Good, BufLen, HdrLen, DoneLen, StatsLen} \subseteq Nat
    /\ {MaxAttrs, MaxLinks} \subseteq Nat
    /\ Attrs \subseteq [type : STRING, payload : Nat]
    /\ 0 < DoneLen
    /\ DoneLen <= HdrLen
    /\ HdrLen <= BufLen
    /\ Good <= BufLen

\* An interface.
Links == [family : Families,
          attrs : UNION {[1 .. m -> Attrs] : m \in 0 .. MaxAttrs}]

\* rta_len, aligned: the header of an attribute has four bytes.
RtaLen(a) == (a.payload + 7) \div 4

\* The lengths of the attributes of interface l.
Lens(l) == [j \in DOMAIN l.attrs |-> RtaLen(l.attrs[j])]

VARIABLES
    links,     \* the interfaces of the host, in the order of their index
    pc,        \* where main is; "failed": return 1
    dgram,     \* the messages of the datagram received: indices, 0 for DONE
    nlhdr,     \* the message looked at, a position in dgram
    n,         \* the bytes of buf from nlhdr on
    rta,       \* the attribute looked at
    rtalist_len,
    printed    \* the attributes printed: index of the interface, attribute

dumpVars == <<links, pc, dgram, nlhdr, n, rta, rtalist_len, printed>>

\* A sum over a sequence.
Total(s) ==
    LET to[k \in 0 .. Len(s)] == IF k = 0 THEN 0 ELSE to[k - 1] + s[k]
    IN  to[Len(s)]

\* nlmsg_len of the message about interface i, or of the last one.
Length(i) == IF i = 0 THEN DoneLen ELSE HdrLen + Total(Lens(links[i]))

LengthOf(d) == Total([k \in DOMAIN d |-> Length(d[k])])

LinkDumpTypeOK ==
    /\ links \in Seq(Links)
    /\ pc \in {"send", "recv", "message", "attribute", "printed", "failed"}
    /\ dgram \in Seq(0 .. Len(links))
    /\ nlhdr \in Nat \ {0}
    /\ n \in 0 .. BufLen
    /\ rta \in Nat \ {0}
    /\ rtalist_len \in Nat
    /\ printed \in Seq((1 .. Len(links)) \X (1 .. MaxAttrs))

LinkDumpInit ==
    /\ links \in UNION {[1 .. k -> Links] : k \in 1 .. MaxLinks}
    /\ pc = "send"
    /\ dgram = <<>>
    /\ nlhdr = 1
    /\ n = 0
    /\ rta = 1
    /\ rtalist_len = 0
    /\ printed = <<>>

-----------------------------------------------------------------------------
\* The whole answer, and the kernel's first datagram of it: its longest prefix
\* that fits, but at least one message, and with or without the last one.
Answer == [k \in 1 .. Len(links) + 1 |-> IF k > Len(links) THEN 0 ELSE k]

FirstDatagram(d) ==
    \E k \in 1 .. Len(Answer) :
        /\ d = SubSeq(Answer, 1, k)
        /\ k > 1 => LengthOf(d) <= Good
        /\ k < Len(links) => LengthOf(SubSeq(Answer, 1, k + 1)) > Good

Quit(label) ==
    /\ pc' = label
    /\ UNCHANGED <<links, dgram, nlhdr, n, rta, rtalist_len, printed>>

SendRequest == pc = "send" /\ Quit("recv")

\* sendto or recv fails: return 1.
SocketFails == pc \in {"send", "recv"} /\ Quit("failed")

\* The one recv: a datagram longer than buf is cut off.
Receive ==
    /\ pc = "recv"
    /\ FirstDatagram(dgram')
    /\ n' = IF LengthOf(dgram') > BufLen THEN BufLen ELSE LengthOf(dgram')
    /\ pc' = "message"
    /\ UNCHANGED <<links, nlhdr, rta, rtalist_len, printed>>

\* Mutant of NlmsgOk: only the header has to be inside the buffer.
HeaderInside == nlhdr <= Len(dgram) /\ n >= HdrLen

\* NLMSG_OK: the message is inside the bytes that are left.
NlmsgOk == nlhdr <= Len(dgram) /\ n >= Length(dgram[nlhdr])

\* Mutant of NextMessage: the rest is not shortened.
NextOnly ==
    /\ nlhdr' = nlhdr + 1
    /\ UNCHANGED n

\* NLMSG_NEXT moves nlhdr on and takes the message from n.
NextMessage ==
    /\ nlhdr' = nlhdr + 1
    /\ n' = n - Length(dgram[nlhdr])

\* Mutant of Accepted: an interface of any family is looked into.
AnyFamily(i) == i # 0

\* A message that is looked into: a link, of one of two families.
Accepted(i) == i # 0 /\ links[i].family \in {"AF_UNSPEC", "AF_INET6"}

\* Mutant of PassOver: "continue" skips NLMSG_NEXT.
PassOverStays ==
    /\ pc = "message"
    /\ NlmsgOk
    /\ ~Accepted(dgram[nlhdr])
    /\ UNCHANGED dumpVars

\* Another message is reported as an error and passed over.
PassOver ==
    /\ pc = "message"
    /\ NlmsgOk
    /\ ~Accepted(dgram[nlhdr])
    /\ NextMessage
    /\ UNCHANGED <<links, pc, dgram, rta, rtalist_len, printed>>

StartLink ==
    /\ pc = "message"
    /\ NlmsgOk
    /\ Accepted(dgram[nlhdr])
    /\ rta' = 1
    /\ rtalist_len' = Length(dgram[nlhdr]) - HdrLen
    /\ pc' = "attribute"
    /\ UNCHANGED <<links, dgram, nlhdr, n, printed>>

\* The attribute rta points to, while RTA_OK.
Attributes == links[dgram[nlhdr]].attrs
RtaOk == rta <= Len(Attributes) /\ rtalist_len >= RtaLen(Attributes[rta])

\* The switch: the kinds that are printed, addresses and statistics only if
\* their payload is of the size expected.
Prints(a) ==
    \/ a.type \in {"IFLA_IFNAME", "IFLA_MTU", "IFLA_LINK"}
    \/ a.type \in {"IFLA_ADDRESS", "IFLA_BROADCAST"} /\ a.payload = 6
    \/ a.type = "IFLA_STATS" /\ a.payload = StatsLen

\* The switch and RTA_NEXT.
PrintAttribute ==
    /\ pc = "attribute"
    /\ RtaOk
    /\ printed' = IF Prints(Attributes[rta])
                  THEN Append(printed, <<dgram[nlhdr], rta>>) ELSE printed
    /\ rta' = rta + 1
    /\ rtalist_len' = rtalist_len - RtaLen(Attributes[rta])
    /\ UNCHANGED <<links, pc, dgram, nlhdr, n>>

LinkDone ==
    /\ pc = "attribute"
    /\ ~RtaOk
    /\ NextMessage
    /\ pc' = "message"
    /\ UNCHANGED <<links, dgram, rta, rtalist_len, printed>>

\* close, return 0
Close == pc = "message" /\ ~NlmsgOk /\ Quit("printed")

LinkDumpStep ==
    \/ SendRequest \/ Receive \/ SocketFails
    \/ PassOver \/ StartLink \/ PrintAttribute \/ LinkDone \/ Close

LinkDumpSpec == LinkDumpInit /\ [][LinkDumpStep]_dumpVars

\* The scheduler runs the process, and the kernel answers a dump.
LinkDumpFairSpec == LinkDumpSpec /\ WF_dumpVars(LinkDumpStep)

-----------------------------------------------------------------------------
(* Properties *)

\* What there is to print: of the interfaces of the two families, the
\* attributes the switch prints.
ToPrint ==
    {e \in (1 .. Len(links)) \X (1 .. MaxAttrs) :
        /\ links[e[1]].family \in {"AF_UNSPEC", "AF_INET6"}
        /\ e[2] <= Len(links[e[1]].attrs)
        /\ Prints(links[e[1]].attrs[e[2]])}

Earlier(d, e) == d[1] < e[1] \/ (d[1] = e[1] /\ d[2] < e[2])

\* What is printed is in the order of the answer, nothing twice, and complete
\* for the first interfaces: for all of them if the whole answer fits into
\* one datagram and that into buf, else for those of the first datagram, and
\* for none if that is longer than buf.  The exit status is 0 in each of these
\* cases.
PrintedComplete ==
    pc = "printed" =>
        LET fits(k) == LengthOf(SubSeq(Answer, 1, k)) <= Good
            whole == {k \in 1 .. Len(links) : k = 1 \/ fits(k)}
            last == CHOOSE k \in whole : \A j \in whole : j <= k
        IN  /\ {printed[k] : k \in DOMAIN printed} =
                  IF LengthOf(dgram) > BufLen THEN {}
                  ELSE {e \in ToPrint : e[1] <= last}
            /\ \A k \in DOMAIN printed : \A j \in 1 .. k - 1 :
                  Earlier(printed[j], printed[k])

\* The bytes that NLMSG_OK and RTA_OK go by are those that are left: of buf
\* behind the messages passed, and of the message behind the attributes passed.
RestRight ==
    /\ /\ pc \in {"message", "attribute", "printed"}
       /\ LengthOf(dgram) <= BufLen
       => n = LengthOf(SubSeq(dgram, nlhdr, Len(dgram)))
    /\ pc = "attribute" =>
          LET lens == Lens(links[dgram[nlhdr]])
          IN  rtalist_len = Total(SubSeq(lens, rta, Len(lens)))

\* main ends.
MainEnds == <>(pc \in {"printed", "failed"})
=============================================================================
