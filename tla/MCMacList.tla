----------------------------- MODULE MCMacList -----------------------------
(***************************************************************************)
(* MacList for TLC.  Three nodes give the list a first, a middle and a     *)
(* last one; two addresses make an address occur twice in mac_list.c, and  *)
(* a third lets v5 fill the three nodes.                                   *)
(***************************************************************************)
EXTENDS MacList
=============================================================================
