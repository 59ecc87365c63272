--------------------------- MODULE MCHyperWriter ---------------------------
(***************************************************************************)
(* HyperWriter for TLC: packets of 5, 15 and 20 bytes in a buffer of 45,   *)
(* so that a batch may fill it exactly and its last packet end with it, be *)
(* it longer than the fifteen bytes printed, as long, or shorter.          *)
(***************************************************************************)
EXTENDS HyperWriter

MCSizes == {5, 15, 20}
=============================================================================
