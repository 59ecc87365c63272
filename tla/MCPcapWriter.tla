---------------------------- MODULE MCPcapWriter ----------------------------
(***************************************************************************)
(* PcapWriter for TLC: frames to the stations of v2 and v3 and to another; *)
(* IPv4 packets of 40 bytes (padded), 46, 84, 256, 5120 and 17408 (whose   *)
(* counts of 20 and 68 lie within the capture), 17664 (69, just beyond it) *)
(* and 65280; and ARP, with 0x0800 in the place of the length.             *)
(***************************************************************************)
EXTENDS PcapWriter

CONSTANTS c1, c0, other

Ip(dst, n) ==
    [dst |-> dst, ip |-> TRUE, tot_len |-> n,
     len |-> IF n < 46 THEN 60 ELSE n + 14]

MCFrames ==
    { Ip(c1, n) :
          n \in {40, 46, 84, 256, 5120, 17408, 17664, 65280} } \cup
    { Ip(c0, n) : n \in {84, 5120} } \cup
    { Ip(other, 84) } \cup
    { [dst |-> c1, ip |-> FALSE, tot_len |-> 2048, len |-> 60] }
=============================================================================
