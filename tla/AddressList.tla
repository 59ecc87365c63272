----------------------------- MODULE AddressList -----------------------------
(***************************************************************************)
(* What the list of addresses promises its callers, whatever it is made    *)
(* of: entries are added at the end, a check finds the first entry of an   *)
(* address, a count gives the number of entries.  A strict list enters an  *)
(* address only once and a check adds nothing to it; in the other kind a   *)
(* check enters an address it does not find, and may then answer none.     *)
(***************************************************************************)
EXTENDS Integers, Sequences

CONSTANTS Address, None

VARIABLES
    strict,
    entries,   \* the addresses listed, oldest first
    asked,     \* the address of the last check, or None
    found,     \* the entry the last check answered; 0 is none
    counted    \* the number the last count answered

alVars == <<strict, entries, asked, found, counted>>

Positions(a) == {k \in 1 .. Len(entries) : entries[k] = a}

AlInit ==
    /\ strict \in BOOLEAN
    /\ entries = <<>>
    /\ asked = None
    /\ found = 0
    /\ counted = 0

\* The oldest entry is freed; entries found before are not to be used again.
Drop ==
    /\ entries # <<>>
    /\ entries' = Tail(entries)
    /\ asked' = None
    /\ found' = 0
    /\ UNCHANGED <<strict, counted>>

Enter(a) ==
    /\ strict => Positions(a) = {}
    /\ entries' = Append(entries, a)
    /\ UNCHANGED <<strict, asked, found, counted>>

\* A check of a finds entry k.
Found(a, k) ==
    /\ k \in Positions(a)
    /\ \A j \in Positions(a) : k <= j
    /\ asked' = a
    /\ found' = k
    /\ UNCHANGED <<strict, entries, counted>>

\* A check of a finds none: in a list that is not strict it has entered a just
\* now, after others.
FoundNone(a) ==
    /\ IF strict THEN Positions(a) = {}
                 ELSE Positions(a) = {Len(entries)} /\ Len(entries) > 1
    /\ asked' = a
    /\ found' = 0
    /\ UNCHANGED <<strict, entries, counted>>

Counted ==
    /\ counted' = Len(entries)
    /\ UNCHANGED <<strict, entries, asked, found>>

\* The process ends.
Lost ==
    /\ entries' = <<>>
    /\ asked' = None
    /\ found' = 0
    /\ counted' = 0
    /\ UNCHANGED strict

AlNext ==
    \/ Drop
    \/ \E a \in Address : Enter(a)
    \/ \E a \in Address, k \in 1 .. Len(entries) : Found(a, k)
    \/ \E a \in Address : FoundNone(a)
    \/ Counted
    \/ Lost

AlSpec == AlInit /\ [][AlNext]_alVars
=============================================================================
