----------------------------- MODULE MCLinkDump -----------------------------
(***************************************************************************)
(* LinkDump for TLC: up to three interfaces of up to two attributes.  Two  *)
(* short ones and the end fit into a datagram, three long ones do not, and *)
(* one alone may be longer than the kernel's datagrams or than buf.  An    *)
(* address of twenty bytes is one of an Infiniband interface, AF_BRIDGE    *)
(* the family of a bridge's port.                                          *)
(***************************************************************************)
EXTENDS LinkDump

MCFamilies == {"AF_UNSPEC", "AF_BRIDGE"}

MCAttrs == {[type |-> "IFLA_IFNAME", payload |-> 2],
            [type |-> "IFLA_ADDRESS", payload |-> 6],
            [type |-> "IFLA_ADDRESS", payload |-> 20],
            [type |-> "IFLA_STATS", payload |-> 8]}
=============================================================================
