--------------------------- MODULE MCTapPipeline ---------------------------
(***************************************************************************)
(* TapPipeline for TLC: a frame to a station, one between two stations on  *)
(* the watched port (hairpin), a broadcast and a frame from the first      *)
(* station to itself, sent in batches of up to two; a stray message that   *)
(* looks like a frame of the second station.                               *)
(***************************************************************************)
EXTENDS TapPipeline

CONSTANTS a, b, bc

MCMac == {a, b, bc}
MCLowWord == [m \in MCMac |-> 1]

F(dst, src, physout, physin) ==
    [version |-> TRUE, dst |-> dst, src |-> src, physout |-> physout,
     physin |-> physin, ip_ff |-> FALSE, tot_len |-> 84]

MCContents ==
    [n \in 0 .. MaxCaptured |->
        CASE n = 0 -> F(a, b, FALSE, TRUE)
          [] n = 1 -> F(a, b, TRUE, FALSE)
          [] n = 2 -> F(b, a, TRUE, TRUE)
          [] n = 3 -> F(bc, b, FALSE, TRUE)
          [] OTHER -> F(a, a, TRUE, TRUE)]

MCFrames == {MCContents[n] : n \in 0 .. MaxCaptured}
=============================================================================
