-------------------------- MODULE MCTapDistributor --------------------------
(***************************************************************************)
(* Instances of TapDistributor for TLC: two or three stations, one group   *)
(* address of each kind and the broadcast address.                         *)
(***************************************************************************)
EXTENDS TapDistributor

CONSTANTS a, b, c, g4, g6, bc

MCMac == {a, b, c, g4, g6, bc}
MCV4Group == {g4}
MCV6Group == {g6}

\* The word of 33:33:0:0:0:1 is 1.
MCLowWord == [m \in MCMac |-> 1]

F(dst, src, physout, physin, ip_ff, tot_len) ==
    [version |-> TRUE, dst |-> dst, src |-> src, physout |-> physout,
     physin |-> physin, ip_ff |-> ip_ff, tot_len |-> tot_len]

\* A frame to and one from each of two stations, one between bridge ports the
\* program does not watch, group and broadcast frames of a station, one whose
\* address bytes print as "ff...", and one of another ulog version.
TwoStationFrames ==
    { F(a, b, TRUE, FALSE, FALSE, 84),
      F(a, b, FALSE, TRUE, FALSE, 84),
      F(a, b, FALSE, FALSE, FALSE, 84),
      F(b, a, TRUE, FALSE, TRUE, 84),
      F(g4, a, FALSE, TRUE, FALSE, 84),
      F(g4, b, TRUE, FALSE, FALSE, 84),
      F(g6, b, TRUE, FALSE, FALSE, 84),
      F(bc, a, FALSE, TRUE, FALSE, 2048),
      F(bc, b, TRUE, FALSE, FALSE, 2048),
      [F(b, a, FALSE, TRUE, FALSE, 84) EXCEPT !.version = FALSE] }

\* Frames between three stations: with a port in hairpin mode a frame leaves by
\* the port it came in.  The IPv4 lengths have their bytes in every order: the
\* extremes, 0x0054 of a ping, 0x0101, 0x0800 of ARP, 0x0E00 and 0xFF00.
HairpinFrames ==
    { F(a, b, TRUE, TRUE, FALSE, 84),
      F(b, c, TRUE, TRUE, FALSE, 257),
      F(c, a, FALSE, TRUE, FALSE, 256),
      F(g6, a, TRUE, FALSE, FALSE, 84) } \cup
    { F(bc, a, FALSE, TRUE, FALSE, n) : n \in {0, 2048, 3584, 65280, 65535} }
=============================================================================
