------------------------------- MODULE MacList -------------------------------
(***************************************************************************)
(* The list of struct mac_list at the level of its pointers, in the two    *)
(* versions of the repository: the library mac_list.c, and the list of     *)
(* write_tap_v5.c, which enters an address once and opens a tap for it     *)
(* between linking the new node and setting the node's mac_list_next.      *)
(* A caller may make any call at any time; a call takes a step for each    *)
(* pointer it follows.                                                     *)
(***************************************************************************)
EXTENDS Integers, FiniteSets, Sequences

CONSTANTS
    Mac,    \* addresses
    Node,   \* the places malloc may return: a bound on the list's length
    NULL,   \* MAC_LIST_TAIL
    WILD    \* the content of a pointer that malloc left uninitialised

ASSUME MacListAssumption ==
    /\ IsFiniteSet(Node)
    /\ NULL \notin Node
    /\ WILD \notin Node \cup {NULL}
    /\ NULL \notin Mac

VARIABLES
    version,        \* the list compiled in: "mac_list.c" or "v5"
    list_top,
    mac_add,        \* the fields of the nodes
    tap_name,       \* v5: the number in the name of the node's tap
    mac_list_next,
    allocated,      \* the nodes malloc'ed and not freed
    pc,             \* the function and the place in it
    back,           \* where mac_list_add returns to
    item,           \* the address the call is about, or NULL
    p,              \* the cursor of mac_list_add, then of mac_list_print
    c,              \* the cursor of mac_list_check
    q,              \* the cursor of mac_list_count
    cnt,            \* the counter of mac_list_count
    counted,        \* what mac_list_count last returned
    found,          \* what mac_list_check last returned
    asked           \* history: the address it was asked for

heap == <<list_top, mac_add, tap_name, mac_list_next, allocated>>
checked == <<found, asked>>
answers == <<counted, checked>>
call == <<back, item>>
listVars == <<version, heap, pc, call, p, c, q, cnt, answers>>

Pointer == Node \cup {NULL}

ListTypeOK ==
    /\ version \in {"mac_list.c", "v5"}
    /\ list_top \in Pointer
    /\ mac_add \in [Node -> Mac \cup {NULL}]
    /\ tap_name \in [Node -> Nat]
    /\ mac_list_next \in [Node -> Pointer \cup {WILD}]
    /\ allocated \subseteq Node
    /\ pc \in {"idle", "init", "add", "count", "link", "alloc", "print",
               "check", "top", "end"}
    /\ back \in {"idle", "top", "end"}
    /\ {item, asked} \subseteq Mac \cup {NULL}
    /\ {p, c, q, found} \subseteq Pointer
    /\ {cnt, counted} \subseteq Nat

\* No call is going on: its local variables are gone.
NoCall ==
    /\ pc = "idle"
    /\ back = "idle"
    /\ item = NULL
    /\ p = NULL
    /\ c = NULL
    /\ q = NULL
    /\ cnt = 0

Return ==
    /\ pc' = "idle"
    /\ back' = "idle"
    /\ item' = NULL
    /\ p' = NULL
    /\ c' = NULL
    /\ q' = NULL
    /\ cnt' = 0

ListInit ==
    /\ version \in {"mac_list.c", "v5"}
    /\ list_top = NULL
    /\ mac_add = [n \in Node |-> NULL]
    /\ tap_name = [n \in Node |-> 0]
    /\ mac_list_next = [n \in Node |-> WILD]
    /\ allocated = {}
    /\ NoCall
    /\ counted = 0
    /\ found = NULL
    /\ asked = NULL

-----------------------------------------------------------------------------
CallInit ==
    /\ pc = "idle"
    /\ pc' = "init"
    /\ UNCHANGED <<version, heap, call, p, c, q, cnt, answers>>

\* What was in the node is lost.
Free(n) ==
    /\ allocated' = allocated \ {n}
    /\ mac_add' = [mac_add EXCEPT ![n] = NULL]
    /\ tap_name' = [tap_name EXCEPT ![n] = 0]
    /\ mac_list_next' = [mac_list_next EXCEPT ![n] = WILD]

\* Mutant of FreeTop: mac_list_next is read after the node has been freed.
FreeTopFirst ==
    /\ pc = "init"
    /\ list_top # NULL
    /\ Free(list_top)
    /\ list_top' = mac_list_next'[list_top]
    /\ found' = NULL
    /\ asked' = NULL
    /\ UNCHANGED <<version, pc, call, p, c, q, cnt, counted>>

\* A turn of the loop of mac_list_init.  What mac_list_check returned before
\* is of no use any more.
FreeTop ==
    /\ pc = "init"
    /\ list_top # NULL
    /\ list_top' = mac_list_next[list_top]
    /\ Free(list_top)
    /\ found' = NULL
    /\ asked' = NULL
    /\ UNCHANGED <<version, pc, call, p, c, q, cnt, counted>>

InitDone ==
    /\ pc = "init"
    /\ list_top = NULL
    /\ Return
    /\ UNCHANGED <<version, heap, answers>>

-----------------------------------------------------------------------------
CallAdd(m) ==
    /\ pc = "idle"
    /\ pc' = "add"
    /\ item' = m
    /\ p' = list_top
    /\ UNCHANGED <<version, heap, back, c, q, cnt, answers>>

\* The comparison only v5 makes, with every node and with the last one.
Listed == version = "v5" /\ p # NULL /\ mac_add[p] = item

AtEnd == p # NULL => mac_list_next[p] = NULL

AddFinds ==
    /\ pc = "add"
    /\ Listed
    /\ Return
    /\ UNCHANGED <<version, heap, answers>>

\* Mutant of AddWalks: the loop moves on from the top, not from the cursor.
AddWalksFromTop ==
    /\ pc = "add"
    /\ ~Listed /\ ~AtEnd
    /\ p' = mac_list_next[list_top]
    /\ UNCHANGED <<version, heap, pc, call, c, q, cnt, answers>>

AddWalks ==
    /\ pc = "add"
    /\ ~Listed /\ ~AtEnd
    /\ p' = mac_list_next[p]
    /\ UNCHANGED <<version, heap, pc, call, c, q, cnt, answers>>

\* The list is empty or p its last node.  v5 calls mac_list_count() to number
\* the new tap.
AddReachesEnd ==
    /\ pc = "add"
    /\ ~Listed /\ AtEnd
    /\ IF version = "v5" THEN pc' = "count" /\ q' = list_top
                         ELSE pc' = "link" /\ UNCHANGED q
    /\ UNCHANGED <<version, heap, call, p, c, cnt, answers>>

\* malloc returns n, which becomes the first node or is linked to the last.
\* v5 leaves its mac_list_next as it is for now.
Link(n) ==
    /\ pc = "link"
    /\ n \in Node \ allocated
    /\ allocated' = allocated \cup {n}
    /\ mac_add' = [mac_add EXCEPT ![n] = item]
    /\ tap_name' = [tap_name EXCEPT ![n] =
                        IF version = "v5" THEN counted ELSE 0]
    /\ list_top' = IF p = NULL THEN n ELSE list_top
    /\ mac_list_next' = [m \in Node |->
            IF m = n THEN IF version = "v5" THEN WILD ELSE NULL
            ELSE IF m = p THEN n ELSE mac_list_next[m]]
    /\ pc' = IF version = "v5" THEN "alloc" ELSE back
    /\ p' = IF version = "v5" THEN n ELSE NULL
    /\ item' = IF pc' = "idle" THEN NULL ELSE item
    /\ UNCHANGED <<version, back, c, q, cnt, answers>>

\* Mutant of Allocated: mac_list_next of the new node is never set.
AllocatedOnly ==
    /\ pc = "alloc"
    /\ p' = list_top
    /\ pc' = "print"
    /\ UNCHANGED <<version, heap, call, c, q, cnt, answers>>

\* v5: tun_alloc succeeds, the new node ends the list, which is then printed.
Allocated ==
    /\ pc = "alloc"
    /\ mac_list_next' = [mac_list_next EXCEPT ![p] = NULL]
    /\ p' = list_top
    /\ pc' = "print"
    /\ UNCHANGED <<version, list_top, mac_add, tap_name, allocated, call,
                   c, q, cnt, answers>>

\* malloc's NULL is written through, or (v5) tun_alloc fails and exit(1): the
\* process ends.
AddDies ==
    /\ pc \in {"link", "alloc"}
    /\ list_top' = NULL
    /\ allocated' = {}
    /\ mac_add' = [n \in Node |-> NULL]
    /\ tap_name' = [n \in Node |-> 0]
    /\ mac_list_next' = [n \in Node |-> WILD]
    /\ counted' = 0
    /\ found' = NULL
    /\ asked' = NULL
    /\ Return
    /\ UNCHANGED version

PrintWalks ==
    /\ pc = "print"
    /\ p # NULL
    /\ p' = mac_list_next[p]
    /\ UNCHANGED <<version, heap, pc, call, c, q, cnt, answers>>

PrintDone ==
    /\ pc = "print"
    /\ p = NULL
    /\ Return
    /\ UNCHANGED <<version, heap, answers>>

-----------------------------------------------------------------------------
CallCount ==
    /\ pc = "idle"
    /\ pc' = "count"
    /\ q' = list_top
    /\ UNCHANGED <<version, heap, call, p, c, cnt, answers>>

\* Mutant of CountWalks: the last node is not counted.
CountWalksShort ==
    /\ pc = "count"
    /\ q # NULL
    /\ cnt' = IF mac_list_next[q] = NULL THEN cnt ELSE cnt + 1
    /\ q' = mac_list_next[q]
    /\ UNCHANGED <<version, heap, pc, call, p, c, answers>>

CountWalks ==
    /\ pc = "count"
    /\ q # NULL
    /\ cnt' = cnt + 1
    /\ q' = mac_list_next[q]
    /\ UNCHANGED <<version, heap, pc, call, p, c, answers>>

\* mac_list_count returns, to its caller or to mac_list_add.
CountReturns ==
    /\ pc = "count"
    /\ q = NULL
    /\ counted' = cnt
    /\ IF item = NULL THEN Return
       ELSE pc' = "link" /\ cnt' = 0 /\ UNCHANGED <<call, p, c, q>>
    /\ UNCHANGED <<version, heap, checked>>

-----------------------------------------------------------------------------
CallCheck(m) ==
    /\ pc = "idle"
    /\ pc' = "check"
    /\ item' = m
    /\ c' = list_top
    /\ UNCHANGED <<version, heap, back, p, q, cnt, answers>>

CheckFinds ==
    /\ pc = "check"
    /\ c # NULL
    /\ mac_add[c] = item
    /\ found' = c
    /\ asked' = item
    /\ Return
    /\ UNCHANGED <<version, heap, counted>>

CheckWalks ==
    /\ pc = "check"
    /\ c # NULL
    /\ mac_add[c] # item
    /\ c' = mac_list_next[c]
    /\ UNCHANGED <<version, heap, pc, call, p, q, cnt, answers>>

\* v5 returns NULL.
CheckFails ==
    /\ pc = "check"
    /\ c = NULL
    /\ version = "v5"
    /\ found' = NULL
    /\ asked' = item
    /\ Return
    /\ UNCHANGED <<version, heap, counted>>

\* mac_list.c calls mac_list_add.
CheckAdds ==
    /\ pc = "check"
    /\ c = NULL
    /\ version = "mac_list.c"
    /\ pc' = "add"
    /\ back' = IF list_top = NULL THEN "top" ELSE "end"
    /\ p' = list_top
    /\ UNCHANGED <<version, heap, item, c, q, cnt, answers>>

\* Mutant of CheckReturns: the top of the list is returned in either case.
CheckReturnsTop ==
    /\ pc \in {"top", "end"}
    /\ found' = list_top
    /\ asked' = item
    /\ Return
    /\ UNCHANGED <<version, heap, counted>>

\* It then returns list_top if the list was empty, else its own cursor p.
CheckReturns ==
    /\ pc \in {"top", "end"}
    /\ found' = IF pc = "top" THEN list_top ELSE c
    /\ asked' = item
    /\ Return
    /\ UNCHANGED <<version, heap, counted>>

-----------------------------------------------------------------------------
\* What a call does by itself, on the one thread there is.
ListStep ==
    \/ FreeTop \/ InitDone
    \/ AddFinds \/ AddWalks \/ AddReachesEnd
    \/ \E n \in Node : Link(n)
    \/ Allocated \/ AddDies \/ PrintWalks \/ PrintDone
    \/ CountWalks \/ CountReturns
    \/ CheckFinds \/ CheckWalks \/ CheckFails \/ CheckAdds \/ CheckReturns

ListNext ==
    \/ CallInit \/ CallCount
    \/ \E m \in Mac : CallAdd(m) \/ CallCheck(m)
    \/ ListStep

ListSpec == ListInit /\ [][ListNext]_listVars

\* The scheduler runs the thread, and tun_alloc returns.
ListFairSpec == ListSpec /\ WF_listVars(ListStep)

-----------------------------------------------------------------------------
(* Properties *)

\* The pointers from list_top on.
Chain ==
    LET at[k \in 0 .. Cardinality(Node)] ==
            IF k = 0 THEN list_top
            ELSE IF at[k - 1] \in Node THEN mac_list_next[at[k - 1]] ELSE NULL
    IN  at

ChainLength == Cardinality({k \in DOMAIN Chain : Chain[k] \in Node})

\* At every step of every call, the nodes allocated are exactly the nodes on
\* the chain (none is lost, freed and still linked, or met twice), the chain
\* ends with MAC_LIST_TAIL, or while tun_alloc runs with the pointer that has
\* not been set yet, and no cursor or answer points anywhere else.
ChainSound ==
    /\ {Chain[k] : k \in DOMAIN Chain} \cap Node = allocated
    /\ ChainLength = Cardinality(allocated)
    /\ Chain[ChainLength] = IF pc = "alloc" THEN WILD ELSE NULL
    /\ {p, c, q, found} \subseteq allocated \cup {NULL}

\* The number v5 gives a tap, counted before its node is linked, is the
\* position of the node, so no two nodes name the same tap.
NumbersInOrder ==
    version = "v5" /\ pc # "init" =>
        \A k \in 0 .. ChainLength - 1 : tap_name[Chain[k]] = k

\* Both lists implement AddressList: v5's the strict one, mac_list.c's the
\* other, whose check answers none of an address it has itself just added to a
\* list that was not empty.
List == INSTANCE AddressList WITH
    Address <- Mac,
    strict <- version = "v5",
    entries <- [i \in 1 .. ChainLength |-> mac_add[Chain[i - 1]]],
    found <- IF found = NULL THEN 0
             ELSE 1 + CHOOSE i \in DOMAIN Chain : Chain[i] = found,
    asked <- asked,
    None <- NULL,
    counted <- counted

ImplementsList == List!AlSpec

\* Every call returns, or the process ends.
CallsReturn == (pc # "idle") ~> (pc = "idle")
=============================================================================
