---------------------------- MODULE FrameLength ----------------------------
(***************************************************************************)
(* The length arithmetic of the tap writers.  Every write() of             *)
(* write_tap_v5.c takes its byte count straight from a 16-bit header field *)
(* of the captured frame, loaded as a host (little-endian) short and never *)
(* passed through ntohs().  A value of this module is what the field says  *)
(* in network order; Swap16 is what the program gets when it loads it.     *)
(***************************************************************************)
EXTENDS Integers

\* Written as a predicate on Nat: nothing enumerates the words.
Word == {n \in Nat : n <= 65535}

\* SIZE_ETHERNET, and the least count the tap driver accepts (it refuses a
\* buffer shorter than an Ethernet header with EINVAL).
SIZE_ETHERNET == 14

\* A 16-bit field in network order, loaded as a little-endian short.
Swap16(w) == (w % 256) * 256 + (w \div 256)

\* Mutant of IpLenCount: the field in network order, as ntohs() would give it.
NetworkLen(tot_len) == tot_len

\* The count of a write whose length is msg->data + SIZE_ETHERNET -> ip_len.
IpLenCount(tot_len) == Swap16(tot_len)

\* The count of an IPv6 multicast write.  ipv6_addr_temp is set to msg->data,
\* without SIZE_ETHERNET, so the "payload length" is bytes 4 and 5 of the
\* frame: the last two bytes of its destination address.
PlenCount(dst_low) == Swap16(dst_low)

\* The tap driver takes the buffer: at least an Ethernet header of it.
Taken(count) == count >= SIZE_ETHERNET

\* The write hands over the whole frame of an IPv4 datagram of tot_len bytes.
Whole(count, tot_len) == count >= tot_len + SIZE_ETHERNET

\* It hands over the frame and nothing beyond its end.
Exact(count, tot_len) == count = tot_len + SIZE_ETHERNET
=============================================================================
