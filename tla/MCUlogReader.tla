---------------------------- MODULE MCUlogReader ----------------------------
(***************************************************************************)
(* UlogReader for TLC.  The constants are small numbers, given by the      *)
(* configurations: batches of up to three messages, so that a datagram has *)
(* a first, a middle and a last one; room for one or two datagrams, so     *)
(* that the socket overruns; and packets enough for several batches.       *)
(***************************************************************************)
EXTENDS UlogReader

\* The number of the rule's group, the highest there is; its neighbour; and two
\* that are not the number of a group: 0, which strtoul makes of a word, and -1.
MCArguments == {32, 31, 0, -1}
=============================================================================
