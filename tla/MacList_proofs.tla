---------------------------- MODULE MacList_proofs ----------------------------
(***************************************************************************)
(* Proofs about MacList, for lists of any length and any addresses.        *)
(***************************************************************************)
EXTENDS MacList, FiniteSetTheorems, Arithmetic_proofs

(* The invariant, about the sequence s of the nodes on the chain.          *)

\* The nodes s are linked from top on, the last of them to last.
Chained(s, top, next, last, nodes) ==
    /\ \A i, j \in 1 .. Len(s) : s[i] = s[j] => i = j
    /\ nodes = {s[i] : i \in 1 .. Len(s)}
    /\ top = IF s = <<>> THEN NULL ELSE s[1]
    /\ \A i \in 1 .. Len(s) :
          next[s[i]] = IF i = Len(s) THEN last ELSE s[i + 1]

\* What the last node points to.
Last == IF pc = "alloc" THEN WILD ELSE NULL

End(s) == IF s = <<>> THEN NULL ELSE s[Len(s)]

\* The address of the call is not in the first k nodes.
Unlisted(s, k) == \A i \in 1 .. k : mac_add[s[i]] # item

\* Cursor x has passed only nodes of other addresses.
Passed(s, x) ==
    IF x = NULL THEN Unlisted(s, Len(s))
    ELSE \E j \in 1 .. Len(s) : x = s[j] /\ Unlisted(s, j - 1)

Pointers == {p, c, q, found} \subseteq allocated \cup {NULL}

Numbers(s) ==
    version = "v5" /\ pc # "init" =>
        \A k \in 1 .. Len(s) : tap_name[s[k]] = k - 1

\* mac_list_count has counted the nodes before its cursor, and what it returned
\* to mac_list_add is still right when the new node is linked.
Counting(s) ==
    /\ pc # "count" => cnt = 0 /\ q = NULL
    /\ pc = "count" =>
          /\ cnt \in 0 .. Len(s)
          /\ q = IF cnt = Len(s) THEN NULL ELSE s[cnt + 1]
          /\ item # NULL => version = "v5"
    /\ pc = "link" /\ version = "v5" => counted = Len(s)

\* A node is about to be linked.
Entering == pc = "link" \/ (pc = "count" /\ item # NULL)

\* mac_list_add enters at the end, in v5 only an address that is not listed.
Adding(s) ==
    /\ pc = "idle" => NoCall
    /\ pc = "init" => p = NULL
    /\ pc \in {"add", "link", "check", "top", "end"} => item \in Mac
    /\ pc = "count" /\ item # NULL => item \in Mac
    /\ pc = "add" /\ p = NULL => s = <<>>
    /\ pc = "add" /\ version = "v5" => Passed(s, p)
    /\ Entering => p = End(s)
    /\ Entering /\ version = "v5" => Unlisted(s, Len(s))
    /\ pc = "alloc" => version = "v5" /\ s # <<>> /\ p = End(s)

\* mac_list_check has passed nodes of other addresses only, those that
\* mac_list.c then adds the address behind.
Checking(s) ==
    /\ IF pc = "check" THEN Passed(s, c) ELSE c = NULL
    /\ back # "idle" =>
          /\ version = "mac_list.c"
          /\ pc \in {"add", "link", "top", "end"}
    /\ back # "idle" /\ pc \in {"add", "link"} =>
          Unlisted(s, Len(s)) /\ (back = "top" <=> s = <<>>)
    /\ pc \in {"top", "end"} =>
          /\ back = pc /\ s # <<>>
          /\ mac_add[End(s)] = item
          /\ Unlisted(s, Len(s) - 1)
          /\ pc = "top" <=> Len(s) = 1

Shape(s) ==
    /\ Chained(s, list_top, mac_list_next, Last, allocated)
    /\ Numbers(s)
    /\ Counting(s)
    /\ Adding(s)
    /\ Checking(s)

ListInv ==
    /\ ListTypeOK
    /\ Pointers
    /\ \E s \in Seq(Node) : Shape(s)

-----------------------------------------------------------------------------
\* What the nodes on the chain are.
LEMMA OnChain ==
    ASSUME ListTypeOK, NEW s \in Seq(Node), Shape(s)
    PROVE  /\ Len(s) \in Nat /\ (s = <<>> <=> Len(s) = 0)
           /\ \A i \in 1 .. Len(s) : s[i] \in allocated /\ s[i] \in Node
           /\ \A i \in 1 .. Len(s) : s[i] # NULL /\ s[i] # WILD
           /\ allocated \subseteq Node /\ NULL \notin allocated
           /\ \A x \in allocated : \E i \in 1 .. Len(s) : x = s[i]
           /\ list_top \in allocated \cup {NULL}
           /\ list_top = NULL <=> s = <<>>
           /\ s # <<>> => list_top = s[1] /\ 1 \in 1 .. Len(s)
<1>1. /\ Len(s) \in Nat /\ (s = <<>> <=> Len(s) = 0)
      /\ \A i \in 1 .. Len(s) : s[i] \in Node
      /\ allocated = {s[i] : i \in 1 .. Len(s)}
      /\ list_top = IF s = <<>> THEN NULL ELSE s[1]
  BY DEF Shape, Chained
<1>2. s # <<>> => 1 \in 1 .. Len(s)
  BY <1>1
<1>3. allocated \subseteq Node /\ NULL \notin Node /\ WILD \notin Node
  BY MacListAssumption DEF ListTypeOK
<1> QED BY <1>1, <1>2, <1>3

\* What the pointers of the nodes are while tun_alloc does not run.
LEMMA NextOnChain ==
    ASSUME ListTypeOK, NEW s \in Seq(Node), Shape(s), pc # "alloc",
           NEW i \in 1 .. Len(s)
    PROVE  /\ mac_list_next[s[i]] \in allocated \cup {NULL}
           /\ mac_list_next[s[i]] = NULL <=> i = Len(s)
           /\ i # Len(s) => /\ mac_list_next[s[i]] = s[i + 1]
                            /\ i + 1 \in 1 .. Len(s)
<1>1. /\ Len(s) \in Nat
      /\ \A j \in 1 .. Len(s) : s[j] \in allocated /\ s[j] # NULL
  BY OnChain
<1>2. mac_list_next[s[i]] = IF i = Len(s) THEN NULL ELSE s[i + 1]
  BY DEF Shape, Chained, Last
<1>3. i # Len(s) => i + 1 \in 1 .. Len(s)
  BY <1>1
<1> QED BY <1>1, <1>2, <1>3

\* A pointer that a call follows leads to a node or to the end.
LEMMA NextOfNode ==
    ASSUME ListInv, pc # "alloc", NEW x \in allocated
    PROVE  mac_list_next[x] \in allocated \cup {NULL}
<1>1. PICK s \in Seq(Node) : Shape(s)
  BY DEF ListInv
<1>2. PICK i \in 1 .. Len(s) : x = s[i]
  BY <1>1, OnChain DEF ListInv
<1> QED BY <1>1, <1>2, NextOnChain DEF ListInv

LEMMA ListStarts == ListInit => ListInv
<1> SUFFICES ASSUME ListInit PROVE ListInv
  OBVIOUS
<1>1. ListTypeOK
  BY DEF ListInit, NoCall, ListTypeOK, Pointer
<1>2. Pointers
  BY DEF ListInit, NoCall, Pointers
<1>3. <<>> \in Seq(Node) /\ Len(<<>>) = 0 /\ 1 .. Len(<<>>) = {}
  OBVIOUS
<1>4. Shape(<<>>)
  <2>1. Chained(<<>>, list_top, mac_list_next, Last, allocated)
    BY <1>3 DEF Chained, ListInit
  <2>2. Numbers(<<>>)
    BY <1>3 DEF Numbers
  <2>3. Counting(<<>>)
    BY DEF Counting, ListInit, NoCall
  <2>4. Adding(<<>>)
    BY DEF Adding, Entering, ListInit, NoCall
  <2>5. Checking(<<>>)
    BY DEF Checking, ListInit, NoCall
  <2> QED BY <2>1, <2>2, <2>3, <2>4, <2>5 DEF Shape
<1> QED BY <1>1, <1>2, <1>3, <1>4 DEF ListInv

\* A call that returns leaves no local variables.
LEMMA ReturnKeeps ==
    ASSUME ListInv, pc # "alloc", pc = "init" => list_top = NULL,
           Return, UNCHANGED <<version, heap>>,
           found' \in allocated \cup {NULL}, asked' \in Mac \cup {NULL},
           counted' \in Nat
    PROVE  ListInv'
<1>1. PICK s \in Seq(Node) : Shape(s)
  BY DEF ListInv
<1>2. /\ pc' = "idle" /\ back' = "idle" /\ item' = NULL /\ p' = NULL
      /\ c' = NULL /\ q' = NULL /\ cnt' = 0
      /\ UNCHANGED <<version, list_top, mac_add, tap_name, mac_list_next,
                     allocated>>
  BY DEF Return, heap
<1>3. ListTypeOK
  BY DEF ListInv
<1>4. ListTypeOK'
  <2>1. allocated \subseteq Node
    BY <1>3 DEF ListTypeOK
  <2> QED BY <1>2, <1>3, <2>1 DEF ListTypeOK, Pointer
<1>5. Pointers'
  BY <1>2 DEF Pointers
<1>6. Shape(s)'
  <2>1. Chained(s, list_top, mac_list_next, Last, allocated)'
    <3>1. Last' = Last
      BY <1>2 DEF Last
    <3> QED BY <1>1, <1>2, <3>1 DEF Shape, Chained
  <2>2. Numbers(s)'
    <3>1. CASE pc = "init"
      <4>1. s = <<>>
        BY <1>1, <1>3, <3>1, OnChain
      <4>2. \A k \in 1 .. Len(s) : FALSE
        BY <4>1
      <4> QED BY <4>2 DEF Numbers
    <3>2. CASE pc # "init"
      BY <1>1, <1>2, <3>2 DEF Shape, Numbers
    <3> QED BY <3>1, <3>2
  <2>3. Counting(s)'
    BY <1>2 DEF Counting
  <2>4. Adding(s)'
    BY <1>2 DEF Adding, Entering, NoCall
  <2>5. Checking(s)'
    BY <1>2 DEF Checking
  <2> QED BY <2>1, <2>2, <2>3, <2>4, <2>5 DEF Shape
<1> QED BY <1>4, <1>5, <1>6 DEF ListInv

\* A step of a call that leaves the nodes as they are keeps what is known of
\* them.
LEMMA HeapKeeps ==
    ASSUME ListTypeOK, NEW s \in Seq(Node), Shape(s),
           pc # "alloc", pc' # "alloc", pc # "init" \/ pc' = "init",
           UNCHANGED <<version, heap>>
    PROVE  /\ Chained(s, list_top, mac_list_next, Last, allocated)'
           /\ Numbers(s)'
           /\ UNCHANGED <<version, list_top, mac_add, tap_name,
                          mac_list_next, allocated>>
<1>1. UNCHANGED <<version, list_top, mac_add, tap_name, mac_list_next,
                  allocated>>
  BY DEF heap
<1>2. Last' = Last
  BY DEF Last
<1> QED BY <1>1, <1>2 DEF Shape, Chained, Numbers

\* A cursor that has passed only nodes of other addresses still has.
LEMMA PassedKeeps ==
    ASSUME NEW s \in Seq(Node), NEW x, NEW x2, x2 = x, Passed(s, x),
           UNCHANGED <<mac_add, item>>
    PROVE  Passed(s, x2)'
BY DEF Passed, Unlisted

LEMMA CallInitKeeps == ListInv /\ CallInit => ListInv'
<1> SUFFICES ASSUME ListInv, CallInit PROVE ListInv'
  OBVIOUS
<1>1. PICK s \in Seq(Node) : Shape(s)
  BY DEF ListInv
<1>2. ListTypeOK /\ Pointers /\ Counting(s) /\ Adding(s) /\ Checking(s)
  BY <1>1 DEF ListInv, Shape
<1>3. /\ pc = "idle" /\ pc' = "init"
      /\ UNCHANGED <<version, heap, back, item, p, c, q, cnt, counted, found,
                     asked>>
  BY DEF CallInit, call, answers, checked
<1>4. /\ Chained(s, list_top, mac_list_next, Last, allocated)' /\ Numbers(s)'
      /\ UNCHANGED <<version, list_top, mac_add, tap_name, mac_list_next,
                     allocated>>
  BY <1>1, <1>2, <1>3, HeapKeeps
<1>5. ListTypeOK'
  BY <1>2, <1>3, <1>4 DEF ListTypeOK, Pointer
<1>6. Pointers'
  BY <1>2, <1>3, <1>4 DEF Pointers
<1>7. Counting(s)'
  BY <1>2, <1>3, <1>4 DEF Counting
<1>8. Adding(s)'
  BY <1>2, <1>3, <1>4 DEF Adding, Entering, NoCall
<1>9. Checking(s)'
  BY <1>2, <1>3, <1>4 DEF Checking, Adding, NoCall
<1> QED BY <1>4, <1>5, <1>6, <1>7, <1>8, <1>9 DEF ListInv, Shape

\* A cursor at the top has passed no node.
LEMMA TopPassed ==
    ASSUME ListTypeOK, NEW s \in Seq(Node), Shape(s)
    PROVE  /\ p' = list_top => Passed(s, p)'
           /\ c' = list_top => Passed(s, c)'
<1>1. /\ Len(s) \in Nat /\ (s = <<>> <=> Len(s) = 0)
      /\ list_top = NULL <=> s = <<>>
      /\ s # <<>> => list_top = s[1] /\ 1 \in 1 .. Len(s)
  BY OnChain
<1>2. \A k \in 1 .. 0 : FALSE
  OBVIOUS
<1>3. Unlisted(s, 0)'
  BY <1>2 DEF Unlisted
<1>4. CASE s = <<>>
  BY <1>1, <1>3, <1>4 DEF Passed
<1>5. CASE s # <<>>
  <2>1. list_top = s[1] /\ 1 \in 1 .. Len(s) /\ 1 - 1 = 0 /\ list_top # NULL
    BY <1>1, <1>5
  <2> QED BY <1>3, <2>1 DEF Passed
<1> QED BY <1>4, <1>5

\* A cursor that passes a node of another address has passed only such nodes.
LEMMA NextPassed ==
    ASSUME ListTypeOK, NEW s \in Seq(Node), Shape(s), pc # "alloc",
           NEW x, x # NULL, Passed(s, x), mac_add[x] # item,
           UNCHANGED <<mac_add, item>>
    PROVE  /\ p' = mac_list_next[x] => Passed(s, p)'
           /\ c' = mac_list_next[x] => Passed(s, c)'
<1>1. PICK j \in 1 .. Len(s) : x = s[j] /\ Unlisted(s, j - 1)
  BY DEF Passed
<1>2. /\ mac_list_next[s[j]] = NULL <=> j = Len(s)
      /\ j # Len(s) => mac_list_next[s[j]] = s[j + 1] /\ j + 1 \in 1 .. Len(s)
  BY NextOnChain
<1>3. Unlisted(s, j)
  <2>1. \A k \in 1 .. j : k \in 1 .. j - 1 \/ k = j
    OBVIOUS
  <2> QED BY <1>1, <2>1 DEF Unlisted
<1>4. Unlisted(s, j)'
  BY <1>3 DEF Unlisted
<1>5. CASE j = Len(s)
  <2>1. mac_list_next[x] = NULL
    BY <1>1, <1>2, <1>5
  <2> QED BY <1>4, <1>5, <2>1 DEF Passed
<1>6. CASE j # Len(s)
  <2> DEFINE y == mac_list_next[x]
  <2>1. y = s[j + 1] /\ j + 1 \in 1 .. Len(s) /\ y # NULL /\ (j + 1) - 1 = j
    BY <1>1, <1>2, <1>6
  <2> HIDE DEF y
  <2>2. p' = y => Passed(s, p)'
    BY <1>4, <2>1 DEF Passed
  <2>3. c' = y => Passed(s, c)'
    BY <1>4, <2>1 DEF Passed
  <2> QED BY <2>2, <2>3 DEF y
<1> QED BY <1>5, <1>6

\* When mac_list_add stops it is at the last node, and v5 has compared all.
LEMMA AddAtEnd ==
    ASSUME ListTypeOK, Pointers, NEW s \in Seq(Node), Shape(s),
           pc = "add", AtEnd
    PROVE  /\ p = End(s)
           /\ version = "v5" /\ ~Listed => Unlisted(s, Len(s))
<1>1. /\ Len(s) \in Nat /\ Adding(s)
      /\ \A x \in allocated : \E i \in 1 .. Len(s) : x = s[i]
      /\ \A i \in 1 .. Len(s) : s[i] # NULL
  BY OnChain DEF Shape
<1>2. CASE p = NULL
  <2>1. s = <<>>
    BY <1>1, <1>2 DEF Adding
  <2>2. version = "v5" => Unlisted(s, Len(s))
    BY <1>1, <1>2 DEF Adding, Passed
  <2> QED BY <1>2, <2>1, <2>2 DEF End
<1>3. CASE p # NULL
  <2>1. p \in allocated /\ mac_list_next[p] = NULL
    BY <1>3 DEF Pointers, AtEnd
  <2>2. \A j \in 1 .. Len(s) : p = s[j] => j = Len(s)
    BY <2>1, NextOnChain
  <2>3. p = s[Len(s)] /\ Len(s) \in 1 .. Len(s) /\ s # <<>>
    BY <1>1, <2>1, <2>2
  <2>4. ASSUME version = "v5", ~Listed PROVE Unlisted(s, Len(s))
    <3>1. PICK j \in 1 .. Len(s) : p = s[j] /\ Unlisted(s, j - 1)
      BY <1>1, <1>3, <2>4 DEF Adding, Passed
    <3>2. j = Len(s) /\ Unlisted(s, Len(s) - 1) /\ mac_add[s[Len(s)]] # item
      BY <1>3, <2>2, <2>3, <2>4, <3>1 DEF Listed
    <3>3. \A k \in 1 .. Len(s) : k \in 1 .. Len(s) - 1 \/ k = Len(s)
      BY <1>1
    <3> QED BY <3>2, <3>3 DEF Unlisted
  <2> QED BY <2>3, <2>4 DEF End
<1> QED BY <1>2, <1>3

LEMMA CallAddKeeps ==
    ASSUME ListInv, NEW m \in Mac, CallAdd(m)
    PROVE  ListInv'
<1>1. PICK s \in Seq(Node) : Shape(s)
  BY DEF ListInv
<1>2. ListTypeOK /\ Pointers /\ Counting(s) /\ Adding(s) /\ Checking(s)
  BY <1>1 DEF ListInv, Shape
<1>3. /\ pc = "idle" /\ pc' = "add" /\ item' = m /\ p' = list_top
      /\ UNCHANGED <<version, heap, back, c, q, cnt, counted, found, asked>>
  BY DEF CallAdd, call, answers, checked
<1>4. /\ Chained(s, list_top, mac_list_next, Last, allocated)' /\ Numbers(s)'
      /\ UNCHANGED <<version, list_top, mac_add, tap_name, mac_list_next,
                     allocated>>
  BY <1>1, <1>2, <1>3, HeapKeeps
<1>10. /\ list_top \in allocated \cup {NULL} /\ (list_top = NULL <=> s = <<>>)
       /\ Passed(s, p)' /\ m # NULL
  BY <1>1, <1>2, <1>3, OnChain, TopPassed, MacListAssumption
<1>5. ListTypeOK'
  BY <1>2, <1>3, <1>4 DEF ListTypeOK, Pointer
<1>6. Pointers'
  BY <1>10, <1>2, <1>3, <1>4 DEF Pointers
<1>7. Counting(s)'
  BY <1>2, <1>3, <1>4 DEF Counting
<1>8. Adding(s)'
  BY <1>10, <1>2, <1>3, <1>4 DEF Adding, Entering
<1>9. Checking(s)'
  BY <1>2, <1>3, <1>4 DEF Checking, Adding, NoCall
<1> QED BY <1>4, <1>5, <1>6, <1>7, <1>8, <1>9 DEF ListInv, Shape

LEMMA AddWalksKeeps == ListInv /\ AddWalks => ListInv'
<1> SUFFICES ASSUME ListInv, AddWalks PROVE ListInv'
  OBVIOUS
<1>1. PICK s \in Seq(Node) : Shape(s)
  BY DEF ListInv
<1>2. ListTypeOK /\ Pointers /\ Counting(s) /\ Adding(s) /\ Checking(s)
  BY <1>1 DEF ListInv, Shape
<1>3. /\ pc = "add" /\ pc' = "add" /\ ~Listed /\ ~AtEnd
      /\ p' = mac_list_next[p]
      /\ UNCHANGED <<version, heap, back, item, c, q, cnt, counted, found,
                     asked>>
  BY DEF AddWalks, call, answers, checked
<1>4. /\ Chained(s, list_top, mac_list_next, Last, allocated)' /\ Numbers(s)'
      /\ UNCHANGED <<version, list_top, mac_add, tap_name, mac_list_next,
                     allocated>>
  BY <1>1, <1>2, <1>3, HeapKeeps
<1>10. p # NULL /\ p' # NULL
  BY <1>3 DEF AtEnd
<1>11. p' \in allocated \cup {NULL}
  BY <1>2, <1>3, <1>10, NextOfNode DEF Pointers
<1>12. version = "v5" => Passed(s, p)
  BY <1>2, <1>3 DEF Adding
<1>13. version = "v5" => mac_add[p] # item
  BY <1>3, <1>10 DEF Listed
<1>14. version = "v5" => Passed(s, p)'
  BY <1>1, <1>2, <1>3, <1>4, <1>10, <1>12, <1>13, NextPassed
<1>15. \A k : Unlisted(s, k) => Unlisted(s, k)'
  BY <1>3, <1>4 DEF Unlisted
<1>5. ListTypeOK'
  BY <1>11, <1>2, <1>3, <1>4 DEF ListTypeOK, Pointer
<1>6. Pointers'
  BY <1>11, <1>2, <1>3, <1>4 DEF Pointers
<1>7. Counting(s)'
  BY <1>2, <1>3, <1>4 DEF Counting
<1>8. Adding(s)'
  BY <1>10, <1>14, <1>2, <1>3, <1>4 DEF Adding, Entering
<1>9. Checking(s)'
  BY <1>15, <1>2, <1>3, <1>4 DEF Checking
<1> QED BY <1>4, <1>5, <1>6, <1>7, <1>8, <1>9 DEF ListInv, Shape

LEMMA AddReachesEndKeeps == ListInv /\ AddReachesEnd => ListInv'
<1> SUFFICES ASSUME ListInv, AddReachesEnd PROVE ListInv'
  OBVIOUS
<1>1. PICK s \in Seq(Node) : Shape(s)
  BY DEF ListInv
<1>2. ListTypeOK /\ Pointers /\ Counting(s) /\ Adding(s) /\ Checking(s)
  BY <1>1 DEF ListInv, Shape
<1>3. /\ pc = "add" /\ ~Listed /\ AtEnd
      /\ IF version = "v5" THEN pc' = "count" /\ q' = list_top
                           ELSE pc' = "link" /\ q' = q
      /\ UNCHANGED <<version, heap, back, item, p, c, cnt, counted, found,
                     asked>>
  BY DEF AddReachesEnd, call, answers, checked
<1>4. /\ Chained(s, list_top, mac_list_next, Last, allocated)' /\ Numbers(s)'
      /\ UNCHANGED <<version, list_top, mac_add, tap_name, mac_list_next,
                     allocated>>
  BY <1>1, <1>2, <1>3, HeapKeeps
<1>10. p = End(s) /\ (version = "v5" => Unlisted(s, Len(s)))
  BY <1>1, <1>2, <1>3, AddAtEnd
<1>11. /\ list_top \in allocated \cup {NULL} /\ (list_top = NULL <=> s = <<>>)
       /\ Len(s) \in Nat /\ (s = <<>> <=> Len(s) = 0)
       /\ s # <<>> => list_top = s[1]
  BY <1>1, <1>2, OnChain
<1>12. item \in Mac /\ item # NULL /\ cnt = 0
  BY <1>2, <1>3, MacListAssumption DEF Adding, Counting
<1>13. \A k : Unlisted(s, k) => Unlisted(s, k)'
  BY <1>3, <1>4 DEF Unlisted
<1>5. ListTypeOK'
  BY <1>2, <1>3, <1>4 DEF ListTypeOK, Pointer
<1>6. Pointers'
  BY <1>11, <1>2, <1>3, <1>4 DEF Pointers
<1>7. Counting(s)'
  BY <1>11, <1>12, <1>2, <1>3, <1>4 DEF Counting
<1>8. Adding(s)'
  BY <1>10, <1>12, <1>13, <1>2, <1>3, <1>4 DEF Adding, Entering
<1>9. Checking(s)'
  BY <1>13, <1>2, <1>3, <1>4 DEF Checking
<1> QED BY <1>4, <1>5, <1>6, <1>7, <1>8, <1>9 DEF ListInv, Shape

LEMMA PrintWalksKeeps == ListInv /\ PrintWalks => ListInv'
<1> SUFFICES ASSUME ListInv, PrintWalks PROVE ListInv'
  OBVIOUS
<1>1. PICK s \in Seq(Node) : Shape(s)
  BY DEF ListInv
<1>2. ListTypeOK /\ Pointers /\ Counting(s) /\ Adding(s) /\ Checking(s)
  BY <1>1 DEF ListInv, Shape
<1>3. /\ pc = "print" /\ pc' = "print" /\ p # NULL
      /\ p' = mac_list_next[p]
      /\ UNCHANGED <<version, heap, back, item, c, q, cnt, counted, found,
                     asked>>
  BY DEF PrintWalks, call, answers, checked
<1>4. /\ Chained(s, list_top, mac_list_next, Last, allocated)' /\ Numbers(s)'
      /\ UNCHANGED <<version, list_top, mac_add, tap_name, mac_list_next,
                     allocated>>
  BY <1>1, <1>2, <1>3, HeapKeeps
<1>10. p' \in allocated \cup {NULL}
  BY <1>2, <1>3, NextOfNode DEF Pointers
<1>5. ListTypeOK'
  BY <1>10, <1>2, <1>3, <1>4 DEF ListTypeOK, Pointer
<1>6. Pointers'
  BY <1>10, <1>2, <1>3, <1>4 DEF Pointers
<1>7. Counting(s)'
  BY <1>2, <1>3, <1>4 DEF Counting
<1>8. Adding(s)'
  BY <1>2, <1>3, <1>4 DEF Adding, Entering
<1>9. Checking(s)'
  BY <1>2, <1>3, <1>4 DEF Checking
<1> QED BY <1>4, <1>5, <1>6, <1>7, <1>8, <1>9 DEF ListInv, Shape

LEMMA CallCountKeeps == ListInv /\ CallCount => ListInv'
<1> SUFFICES ASSUME ListInv, CallCount PROVE ListInv'
  OBVIOUS
<1>1. PICK s \in Seq(Node) : Shape(s)
  BY DEF ListInv
<1>2. ListTypeOK /\ Pointers /\ Counting(s) /\ Adding(s) /\ Checking(s)
  BY <1>1 DEF ListInv, Shape
<1>3. /\ pc = "idle" /\ pc' = "count" /\ q' = list_top
      /\ UNCHANGED <<version, heap, back, item, p, c, cnt, counted, found,
                     asked>>
  BY DEF CallCount, call, answers, checked
<1>4. /\ Chained(s, list_top, mac_list_next, Last, allocated)' /\ Numbers(s)'
      /\ UNCHANGED <<version, list_top, mac_add, tap_name, mac_list_next,
                     allocated>>
  BY <1>1, <1>2, <1>3, HeapKeeps
<1>10. /\ list_top \in allocated \cup {NULL} /\ (list_top = NULL <=> s = <<>>)
       /\ Len(s) \in Nat /\ (s = <<>> <=> Len(s) = 0)
       /\ s # <<>> => list_top = s[1]
  BY <1>1, <1>2, OnChain
<1>11. item = NULL /\ back = "idle" /\ cnt = 0
  BY <1>2, <1>3 DEF Adding, NoCall
<1>5. ListTypeOK'
  BY <1>2, <1>3, <1>4 DEF ListTypeOK, Pointer
<1>6. Pointers'
  BY <1>10, <1>2, <1>3, <1>4 DEF Pointers
<1>7. Counting(s)'
  BY <1>10, <1>11, <1>2, <1>3, <1>4 DEF Counting
<1>8. Adding(s)'
  BY <1>11, <1>2, <1>3, <1>4 DEF Adding, Entering
<1>9. Checking(s)'
  BY <1>11, <1>2, <1>3, <1>4 DEF Checking
<1> QED BY <1>4, <1>5, <1>6, <1>7, <1>8, <1>9 DEF ListInv, Shape

LEMMA CountWalksKeeps == ListInv /\ CountWalks => ListInv'
<1> SUFFICES ASSUME ListInv, CountWalks PROVE ListInv'
  OBVIOUS
<1>1. PICK s \in Seq(Node) : Shape(s)
  BY DEF ListInv
<1>2. ListTypeOK /\ Pointers /\ Counting(s) /\ Adding(s) /\ Checking(s)
  BY <1>1 DEF ListInv, Shape
<1>3. /\ pc = "count" /\ pc' = "count" /\ q # NULL /\ cnt' = cnt + 1
      /\ q' = mac_list_next[q]
      /\ UNCHANGED <<version, heap, back, item, p, c, counted, found, asked>>
  BY DEF CountWalks, call, answers, checked
<1>4. /\ Chained(s, list_top, mac_list_next, Last, allocated)' /\ Numbers(s)'
      /\ UNCHANGED <<version, list_top, mac_add, tap_name, mac_list_next,
                     allocated>>
  BY <1>1, <1>2, <1>3, HeapKeeps
<1>10. q' \in allocated \cup {NULL}
  BY <1>2, <1>3, NextOfNode DEF Pointers
<1>11. cnt \in Nat /\ cnt # Len(s) /\ cnt \in 0 .. Len(s) /\ q = s[cnt + 1]
  BY <1>2, <1>3 DEF Counting
<1>12. Len(s) \in Nat
  BY <1>1, <1>2, OnChain
<1>13. cnt + 1 \in 1 .. Len(s) /\ cnt' \in 0 .. Len(s) /\ cnt' = cnt + 1
  BY <1>3, <1>11, <1>12
<1>14. q' = IF cnt' = Len(s) THEN NULL ELSE s[cnt' + 1]
  BY <1>1, <1>2, <1>3, <1>11, <1>13, NextOnChain
<1>15. \A k : Unlisted(s, k) => Unlisted(s, k)'
  BY <1>3, <1>4 DEF Unlisted
<1>5. ListTypeOK'
  BY <1>10, <1>11, <1>2, <1>3, <1>4 DEF ListTypeOK, Pointer
<1>6. Pointers'
  BY <1>10, <1>2, <1>3, <1>4 DEF Pointers
<1>7. Counting(s)'
  BY <1>13, <1>14, <1>2, <1>3, <1>4 DEF Counting
<1>8. Adding(s)'
  BY <1>15, <1>2, <1>3, <1>4 DEF Adding, Entering
<1>9. Checking(s)'
  BY <1>15, <1>2, <1>3, <1>4 DEF Checking
<1> QED BY <1>4, <1>5, <1>6, <1>7, <1>8, <1>9 DEF ListInv, Shape

LEMMA CallCheckKeeps ==
    ASSUME ListInv, NEW m \in Mac, CallCheck(m)
    PROVE  ListInv'
<1>1. PICK s \in Seq(Node) : Shape(s)
  BY DEF ListInv
<1>2. ListTypeOK /\ Pointers /\ Counting(s) /\ Adding(s) /\ Checking(s)
  BY <1>1 DEF ListInv, Shape
<1>3. /\ pc = "idle" /\ pc' = "check" /\ item' = m /\ c' = list_top
      /\ UNCHANGED <<version, heap, back, p, q, cnt, counted, found, asked>>
  BY DEF CallCheck, call, answers, checked
<1>4. /\ Chained(s, list_top, mac_list_next, Last, allocated)' /\ Numbers(s)'
      /\ UNCHANGED <<version, list_top, mac_add, tap_name, mac_list_next,
                     allocated>>
  BY <1>1, <1>2, <1>3, HeapKeeps
<1>10. list_top \in allocated \cup {NULL} /\ Passed(s, c)'
  BY <1>1, <1>2, <1>3, OnChain, TopPassed
<1>5. ListTypeOK'
  BY <1>2, <1>3, <1>4 DEF ListTypeOK, Pointer
<1>6. Pointers'
  BY <1>10, <1>2, <1>3, <1>4 DEF Pointers
<1>7. Counting(s)'
  BY <1>2, <1>3, <1>4 DEF Counting
<1>8. Adding(s)'
  BY <1>2, <1>3, <1>4 DEF Adding, Entering
<1>9. Checking(s)'
  BY <1>10, <1>2, <1>3, <1>4 DEF Checking, Adding, NoCall
<1> QED BY <1>4, <1>5, <1>6, <1>7, <1>8, <1>9 DEF ListInv, Shape

LEMMA CheckWalksKeeps == ListInv /\ CheckWalks => ListInv'
<1> SUFFICES ASSUME ListInv, CheckWalks PROVE ListInv'
  OBVIOUS
<1>1. PICK s \in Seq(Node) : Shape(s)
  BY DEF ListInv
<1>2. ListTypeOK /\ Pointers /\ Counting(s) /\ Adding(s) /\ Checking(s)
  BY <1>1 DEF ListInv, Shape
<1>3. /\ pc = "check" /\ pc' = "check" /\ c # NULL /\ mac_add[c] # item
      /\ c' = mac_list_next[c]
      /\ UNCHANGED <<version, heap, back, item, p, q, cnt, counted, found,
                     asked>>
  BY DEF CheckWalks, call, answers, checked
<1>4. /\ Chained(s, list_top, mac_list_next, Last, allocated)' /\ Numbers(s)'
      /\ UNCHANGED <<version, list_top, mac_add, tap_name, mac_list_next,
                     allocated>>
  BY <1>1, <1>2, <1>3, HeapKeeps
<1>10. c' \in allocated \cup {NULL}
  BY <1>2, <1>3, NextOfNode DEF Pointers
<1>11. Passed(s, c)
  BY <1>2, <1>3 DEF Checking
<1>12. Passed(s, c)'
  BY <1>1, <1>2, <1>3, <1>4, <1>11, NextPassed
<1>5. ListTypeOK'
  BY <1>10, <1>2, <1>3, <1>4 DEF ListTypeOK, Pointer
<1>6. Pointers'
  BY <1>10, <1>2, <1>3, <1>4 DEF Pointers
<1>7. Counting(s)'
  BY <1>2, <1>3, <1>4 DEF Counting
<1>8. Adding(s)'
  BY <1>2, <1>3, <1>4 DEF Adding, Entering
<1>9. Checking(s)'
  BY <1>12, <1>2, <1>3, <1>4 DEF Checking
<1> QED BY <1>4, <1>5, <1>6, <1>7, <1>8, <1>9 DEF ListInv, Shape

LEMMA CheckAddsKeeps == ListInv /\ CheckAdds => ListInv'
<1> SUFFICES ASSUME ListInv, CheckAdds PROVE ListInv'
  OBVIOUS
<1>1. PICK s \in Seq(Node) : Shape(s)
  BY DEF ListInv
<1>2. ListTypeOK /\ Pointers /\ Counting(s) /\ Adding(s) /\ Checking(s)
  BY <1>1 DEF ListInv, Shape
<1>3. /\ pc = "check" /\ pc' = "add" /\ c = NULL /\ version = "mac_list.c"
      /\ back' = IF list_top = NULL THEN "top" ELSE "end"
      /\ p' = list_top
      /\ UNCHANGED <<version, heap, item, c, q, cnt, counted, found, asked>>
  BY DEF CheckAdds, call, answers, checked
<1>4. /\ Chained(s, list_top, mac_list_next, Last, allocated)' /\ Numbers(s)'
      /\ UNCHANGED <<version, list_top, mac_add, tap_name, mac_list_next,
                     allocated>>
  BY <1>1, <1>2, <1>3, HeapKeeps
<1>10. list_top \in allocated \cup {NULL} /\ (list_top = NULL <=> s = <<>>)
  BY <1>1, <1>2, OnChain
<1>11. Unlisted(s, Len(s))
  BY <1>2, <1>3 DEF Checking, Passed
<1>12. Unlisted(s, Len(s))'
  BY <1>3, <1>4, <1>11 DEF Unlisted
<1>5. ListTypeOK'
  BY <1>2, <1>3, <1>4 DEF ListTypeOK, Pointer
<1>6. Pointers'
  BY <1>10, <1>2, <1>3, <1>4 DEF Pointers
<1>7. Counting(s)'
  BY <1>2, <1>3, <1>4 DEF Counting
<1>8. Adding(s)'
  BY <1>10, <1>2, <1>3, <1>4 DEF Adding, Entering
<1>9. Checking(s)'
  BY <1>10, <1>12, <1>2, <1>3, <1>4 DEF Checking
<1> QED BY <1>4, <1>5, <1>6, <1>7, <1>8, <1>9 DEF ListInv, Shape

\* mac_list_count returns the length of the list, to its caller or to
\* mac_list_add.
LEMMA CountReturnsKeeps == ListInv /\ CountReturns => ListInv'
<1> SUFFICES ASSUME ListInv, CountReturns PROVE ListInv'
  OBVIOUS
<1>1. PICK s \in Seq(Node) : Shape(s)
  BY DEF ListInv
<1>2. ListTypeOK /\ Pointers /\ Counting(s) /\ Adding(s) /\ Checking(s)
  BY <1>1 DEF ListInv, Shape
<1>3. /\ pc = "count" /\ q = NULL /\ counted' = cnt
      /\ UNCHANGED <<version, heap, found, asked>>
  BY DEF CountReturns, checked
<1>4. cnt = Len(s)
  <2>1. /\ cnt \in 0 .. Len(s) /\ Len(s) \in Nat
        /\ NULL = IF cnt = Len(s) THEN NULL ELSE s[cnt + 1]
    BY <1>1, <1>2, <1>3, OnChain DEF Counting
  <2>2. cnt # Len(s) => cnt + 1 \in 1 .. Len(s)
    BY <2>1
  <2>3. \A i \in 1 .. Len(s) : s[i] # NULL
    BY <1>1, <1>2, OnChain
  <2> QED BY <2>1, <2>2, <2>3
<1>5. CASE item = NULL
  <2>1. Return
    BY <1>5 DEF CountReturns
  <2>2. /\ found' \in allocated \cup {NULL} /\ asked' \in Mac \cup {NULL}
        /\ counted' \in Nat
    BY <1>2, <1>3 DEF Pointers, ListTypeOK
  <2> QED BY <1>3, <2>1, <2>2, ReturnKeeps
<1>6. CASE item # NULL
  <2>1. /\ pc' = "link" /\ cnt' = 0
        /\ UNCHANGED <<back, item, p, c, q>>
    BY <1>6 DEF CountReturns, call
  <2>2. /\ Chained(s, list_top, mac_list_next, Last, allocated)'
        /\ Numbers(s)'
        /\ UNCHANGED <<version, list_top, mac_add, tap_name, mac_list_next,
                       allocated>>
    BY <1>1, <1>2, <1>3, <2>1, HeapKeeps
  <2>3. \A k : Unlisted(s, k) => Unlisted(s, k)'
    BY <2>1, <2>2 DEF Unlisted
  <2>4. ListTypeOK'
    BY <1>2, <1>3, <2>1, <2>2 DEF ListTypeOK, Pointer
  <2>5. Pointers'
    BY <1>2, <1>3, <2>1, <2>2 DEF Pointers
  <2>6. Counting(s)'
    BY <1>3, <1>4, <2>1, <2>2 DEF Counting
  <2>7. Adding(s)'
    BY <1>2, <1>3, <1>6, <2>1, <2>2, <2>3 DEF Adding, Entering
  <2>8. Checking(s)'
    BY <1>2, <1>3, <2>1, <2>2, <2>3 DEF Checking
  <2> QED BY <2>2, <2>4, <2>5, <2>6, <2>7, <2>8 DEF ListInv, Shape
<1> QED BY <1>5, <1>6

\* The calls that return what they found or nothing.
LEMMA AnswerKeeps ==
    ASSUME ListInv,
           InitDone \/ AddFinds \/ PrintDone \/ CheckFinds \/ CheckFails
    PROVE  ListInv'
<1>1. ListTypeOK /\ Pointers
  BY DEF ListInv
<1>2. CASE InitDone \/ AddFinds \/ PrintDone
  <2>1. /\ pc \in {"init", "add", "print"} /\ Return
        /\ pc = "init" => list_top = NULL
        /\ UNCHANGED <<version, heap, counted, found, asked>>
    BY <1>2 DEF InitDone, AddFinds, PrintDone, answers, checked
  <2>2. /\ found' \in allocated \cup {NULL} /\ asked' \in Mac \cup {NULL}
        /\ counted' \in Nat
    BY <1>1, <2>1 DEF Pointers, ListTypeOK
  <2> QED BY <2>1, <2>2, ReturnKeeps
<1>3. CASE CheckFinds \/ CheckFails
  <2>1. /\ pc = "check" /\ Return /\ found' \in {c, NULL} /\ asked' = item
        /\ UNCHANGED <<version, heap, counted>>
    BY <1>3 DEF CheckFinds, CheckFails
  <2>2. /\ found' \in allocated \cup {NULL} /\ asked' \in Mac \cup {NULL}
        /\ counted' \in Nat
    BY <1>1, <2>1 DEF Pointers, ListTypeOK
  <2> QED BY <2>1, <2>2, ReturnKeeps
<1> QED BY <1>2, <1>3

LEMMA CheckReturnsKeeps == ListInv /\ CheckReturns => ListInv'
<1> SUFFICES ASSUME ListInv, CheckReturns PROVE ListInv'
  OBVIOUS
<1>1. PICK s \in Seq(Node) : Shape(s)
  BY DEF ListInv
<1>2. ListTypeOK /\ Pointers
  BY DEF ListInv
<1>3. /\ pc \in {"top", "end"} /\ Return /\ found' \in {list_top, c}
      /\ asked' = item
      /\ UNCHANGED <<version, heap, counted>>
  BY DEF CheckReturns
<1>4. list_top \in allocated \cup {NULL}
  BY <1>1, <1>2, OnChain
<1>5. /\ found' \in allocated \cup {NULL} /\ asked' \in Mac \cup {NULL}
      /\ counted' \in Nat
  BY <1>2, <1>3, <1>4 DEF Pointers, ListTypeOK
<1> QED BY <1>3, <1>5, ReturnKeeps

\* The process ends, or mac_list_add has not got a node: nothing is left.
LEMMA AddDiesKeeps == ListInv /\ AddDies => ListInv'
<1> SUFFICES ASSUME ListInv, AddDies PROVE ListInv'
  OBVIOUS
<1>1. /\ list_top' = NULL /\ allocated' = {}
      /\ mac_add' = [n \in Node |-> NULL]
      /\ tap_name' = [n \in Node |-> 0]
      /\ mac_list_next' = [n \in Node |-> WILD]
      /\ counted' = 0 /\ found' = NULL /\ asked' = NULL
      /\ pc' = "idle" /\ back' = "idle" /\ item' = NULL /\ p' = NULL
      /\ c' = NULL /\ q' = NULL /\ cnt' = 0 /\ version' = version
  BY DEF AddDies, Return
<1>2. ListTypeOK'
  BY <1>1 DEF ListInv, ListTypeOK, Pointer
<1>3. Pointers'
  BY <1>1 DEF Pointers
<1>4. <<>> \in Seq(Node) /\ Len(<<>>) = 0 /\ 1 .. Len(<<>>) = {}
  OBVIOUS
<1>5. Shape(<<>>)'
  <2>1. Chained(<<>>, list_top, mac_list_next, Last, allocated)'
    BY <1>1, <1>4 DEF Chained
  <2>2. Numbers(<<>>)'
    BY <1>4 DEF Numbers
  <2>3. Counting(<<>>)'
    BY <1>1 DEF Counting
  <2>4. Adding(<<>>)'
    BY <1>1 DEF Adding, Entering, NoCall
  <2>5. Checking(<<>>)'
    BY <1>1 DEF Checking
  <2> QED BY <2>1, <2>2, <2>3, <2>4, <2>5 DEF Shape
<1> QED BY <1>2, <1>3, <1>4, <1>5 DEF ListInv

\* mac_list_init frees the node at the top: the rest is still linked.
LEMMA FreeTopLeaves ==
    ASSUME ListTypeOK, Pointers, NEW s \in Seq(Node), Shape(s), FreeTop
    PROVE  /\ ListTypeOK' /\ Pointers'
           /\ s # <<>> /\ Tail(s) \in Seq(Node) /\ Shape(Tail(s))'
<1>1. Shape(s)
  OBVIOUS
<1>2. ListTypeOK /\ Pointers /\ Counting(s) /\ Adding(s) /\ Checking(s)
  BY <1>1 DEF Shape
<1>3. /\ pc = "init" /\ pc' = "init" /\ list_top # NULL
      /\ list_top' = mac_list_next[list_top]
      /\ allocated' = allocated \ {list_top}
      /\ mac_add' = [mac_add EXCEPT ![list_top] = NULL]
      /\ tap_name' = [tap_name EXCEPT ![list_top] = 0]
      /\ mac_list_next' = [mac_list_next EXCEPT ![list_top] = WILD]
      /\ found' = NULL /\ asked' = NULL
      /\ UNCHANGED <<version, back, item, p, c, q, cnt, counted>>
  BY DEF FreeTop, Free, call
<1> DEFINE t == Tail(s)
<1>4. /\ s # <<>> /\ list_top = s[1] /\ 1 \in 1 .. Len(s)
      /\ Len(s) \in Nat /\ list_top \in Node
      /\ \A i \in 1 .. Len(s) : s[i] \in Node /\ s[i] # NULL
      /\ allocated = {s[i] : i \in 1 .. Len(s)}
      /\ \A i, j \in 1 .. Len(s) : s[i] = s[j] => i = j
  BY <1>1, <1>2, <1>3, OnChain DEF Shape, Chained
<1>5. /\ t \in Seq(Node) /\ Len(t) = Len(s) - 1
      /\ \A i \in 1 .. Len(s) - 1 : t[i] = s[i + 1]
  BY <1>4, Dequeuing
<1> HIDE DEF t
<1>6. /\ list_top' \in allocated \cup {NULL}
      /\ list_top' = NULL <=> 1 = Len(s)
      /\ 1 # Len(s) => list_top' = s[1 + 1]
  BY <1>1, <1>2, <1>3, <1>4, NextOnChain
<1>7. Chained(t, list_top, mac_list_next, Last, allocated)'
  <2>1. \A i, j \in 1 .. Len(t) : t[i] = t[j] => i = j
    <3> SUFFICES ASSUME NEW i \in 1 .. Len(t), NEW j \in 1 .. Len(t),
                        t[i] = t[j]
                 PROVE  i = j
      OBVIOUS
    <3>1. /\ i + 1 \in 1 .. Len(s) /\ j + 1 \in 1 .. Len(s)
          /\ t[i] = s[i + 1] /\ t[j] = s[j + 1]
      BY <1>4, <1>5
    <3>2. i + 1 = j + 1
      BY <1>4, <3>1
    <3> QED BY <3>2
  <2>2. allocated' = {t[i] : i \in 1 .. Len(t)}
    <3>1. ASSUME NEW x \in allocated' PROVE \E i \in 1 .. Len(t) : x = t[i]
      <4>1. PICK i \in 1 .. Len(s) : x = s[i] /\ i # 1
        BY <1>3, <1>4
      <4>2. i - 1 \in 1 .. Len(t) /\ i - 1 \in 1 .. Len(s) - 1
            /\ (i - 1) + 1 = i
        BY <1>4, <1>5, <4>1
      <4>3. t[i - 1] = x
        BY <1>5, <4>1, <4>2
      <4> QED BY <4>2, <4>3
    <3>2. ASSUME NEW i \in 1 .. Len(t) PROVE t[i] \in allocated'
      <4>1. i + 1 \in 1 .. Len(s) /\ i + 1 # 1 /\ t[i] = s[i + 1]
        BY <1>4, <1>5
      <4>2. s[i + 1] # s[1]
        BY <1>4, <4>1
      <4> QED BY <1>3, <1>4, <4>1, <4>2
    <3> QED BY <3>1, <3>2
  <2>3. list_top' = IF t = <<>> THEN NULL ELSE t[1]
    <3>1. CASE Len(s) = 1
      <4>1. t = <<>>
        BY <1>5, <3>1
      <4> QED BY <1>6, <3>1, <4>1
    <3>2. CASE Len(s) # 1
      <4>1. 1 \in 1 .. Len(s) - 1 /\ t # <<>>
        BY <1>4, <1>5, <3>2
      <4> QED BY <1>5, <1>6, <3>2, <4>1
    <3> QED BY <3>1, <3>2
  <2>4. ASSUME NEW i \in 1 .. Len(t)
        PROVE  mac_list_next'[t[i]] = IF i = Len(t) THEN Last' ELSE t[i + 1]
    <3>1. /\ i + 1 \in 1 .. Len(s) /\ i + 1 # 1 /\ t[i] = s[i + 1]
          /\ i \in 1 .. Len(s) - 1 /\ (i = Len(t) <=> i + 1 = Len(s))
      BY <1>4, <1>5
    <3>2. s[i + 1] # s[1] /\ s[i + 1] \in Node
      BY <1>4, <3>1
    <3>3. mac_list_next'[t[i]] = mac_list_next[s[i + 1]]
      BY <1>2, <1>3, <1>4, <3>1, <3>2 DEF ListTypeOK
    <3>4. Last' = NULL
      BY <1>3 DEF Last
    <3>5. CASE i = Len(t)
      <4>1. mac_list_next[s[i + 1]] = NULL
        BY <1>1, <1>2, <1>3, <3>1, <3>5, NextOnChain
      <4> QED BY <3>3, <3>4, <3>5, <4>1
    <3>6. CASE i # Len(t)
      <4>1. mac_list_next[s[i + 1]] = s[(i + 1) + 1]
        BY <1>1, <1>2, <1>3, <3>1, <3>6, NextOnChain
      <4>2. i + 1 \in 1 .. Len(s) - 1
        BY <1>4, <3>1, <3>6
      <4>3. t[i + 1] = s[(i + 1) + 1]
        BY <1>5, <4>2
      <4> QED BY <3>3, <3>6, <4>1, <4>3
    <3> QED BY <3>5, <3>6
  <2> QED BY <2>1, <2>2, <2>3, <2>4 DEF Chained
<1>8. ListTypeOK'
  <2>1. list_top' \in Pointer
    BY <1>2, <1>6 DEF ListTypeOK, Pointer
  <2>2. /\ mac_add' \in [Node -> Mac \cup {NULL}]
        /\ tap_name' \in [Node -> Nat]
        /\ mac_list_next' \in [Node -> Pointer \cup {WILD}]
        /\ allocated' \subseteq Node
    BY <1>2, <1>3 DEF ListTypeOK
  <2> QED BY <1>2, <1>3, <2>1, <2>2 DEF ListTypeOK, Pointer
<1>9. p = NULL /\ c = NULL /\ q = NULL
  BY <1>2, <1>3 DEF Adding, Counting, Checking
<1>10. Pointers'
  BY <1>3, <1>9 DEF Pointers
<1>11. Numbers(t)'
  BY <1>3 DEF Numbers
<1>12. Counting(t)'
  BY <1>2, <1>3 DEF Counting
<1>13. Adding(t)'
  BY <1>3, <1>9 DEF Adding, Entering
<1>14. Checking(t)'
  BY <1>2, <1>3 DEF Checking
<1>15. Shape(t)'
  BY <1>7, <1>11, <1>12, <1>13, <1>14 DEF Shape
<1> QED BY <1>4, <1>5, <1>8, <1>10, <1>15 DEF t

LEMMA FreeTopKeeps == ListInv /\ FreeTop => ListInv'
BY FreeTopLeaves DEF ListInv

\* The new node ends the list: its number is the count that mac_list_add has
\* just made of the nodes before it.
LEMMA LinkLinks ==
    ASSUME ListTypeOK, Pointers, NEW s \in Seq(Node), Shape(s),
           NEW n \in Node, Link(n)
    PROVE  /\ ListTypeOK' /\ Pointers'
           /\ Append(s, n) \in Seq(Node) /\ Shape(Append(s, n))'
<1>1. Shape(s)
  OBVIOUS
<1>2. ListTypeOK /\ Pointers /\ Numbers(s) /\ Counting(s) /\ Adding(s)
      /\ Checking(s)
  BY <1>1 DEF Shape
<1>3. /\ pc = "link" /\ n \in Node /\ n \notin allocated
      /\ allocated' = allocated \cup {n}
      /\ mac_add' = [mac_add EXCEPT ![n] = item]
      /\ tap_name' = [tap_name EXCEPT ![n] =
                         IF version = "v5" THEN counted ELSE 0]
      /\ list_top' = IF p = NULL THEN n ELSE list_top
      /\ mac_list_next' = [m \in Node |->
             IF m = n THEN IF version = "v5" THEN WILD ELSE NULL
             ELSE IF m = p THEN n ELSE mac_list_next[m]]
      /\ pc' = IF version = "v5" THEN "alloc" ELSE back
      /\ p' = IF version = "v5" THEN n ELSE NULL
      /\ item' = IF pc' = "idle" THEN NULL ELSE item
      /\ UNCHANGED <<version, back, c, q, cnt, counted, found, asked>>
  BY DEF Link, answers, checked
<1> DEFINE t == Append(s, n)
           l == Len(s)
<1>4. /\ l \in Nat /\ (s = <<>> <=> l = 0)
      /\ \A i \in 1 .. l : s[i] \in Node /\ s[i] # NULL /\ s[i] \in allocated
      /\ \A x \in allocated : \E i \in 1 .. l : x = s[i]
      /\ list_top = IF s = <<>> THEN NULL ELSE s[1]
      /\ \A i, j \in 1 .. l : s[i] = s[j] => i = j
  BY <1>1, <1>2, OnChain DEF Shape, Chained
<1>5. /\ t \in Seq(Node) /\ Len(t) = l + 1
      /\ \A i \in 1 .. l : t[i] = s[i]
      /\ t[l + 1] = n
      /\ \A i \in 1 .. Len(t) : i \in 1 .. l \/ i = l + 1
      /\ t # <<>>
  BY <1>4, Appending
<1> HIDE DEF t, l
<1>6. p = End(s) /\ (p = NULL <=> s = <<>>) /\ (s # <<>> => p = s[l])
  <2>1. p = End(s)
    BY <1>2, <1>3 DEF Adding, Entering
  <2>2. s # <<>> => l \in 1 .. l
    BY <1>4
  <2> QED BY <1>4, <2>1, <2>2 DEF End, l
<1>7. \A i \in 1 .. l : s[i] # n
  BY <1>3, <1>4
<1>8. version \in {"mac_list.c", "v5"} /\ back \in {"idle", "top", "end"}
      /\ (back # "idle" => version = "mac_list.c")
  BY <1>2 DEF ListTypeOK, Checking
<1>9. End(t)  = n /\ Len(t) = l + 1 /\ n # NULL
  BY <1>3, <1>5, MacListAssumption DEF End
<1>10. Last' = IF version = "v5" THEN WILD ELSE NULL
  BY <1>3, <1>8 DEF Last
<1>11. Chained(t, list_top, mac_list_next, Last, allocated)'
  <2>1. ASSUME NEW i \in 1 .. Len(t), NEW j \in 1 .. Len(t), t[i] = t[j]
        PROVE  i = j
    BY <1>4, <1>5, <1>7, <2>1
  <2>2. allocated' = {t[i] : i \in 1 .. Len(t)}
    <3>1. ASSUME NEW x \in allocated' PROVE \E i \in 1 .. Len(t) : x = t[i]
      <4>1. CASE x = n
        <5>1. l + 1 \in 1 .. Len(t)
          BY <1>4, <1>5
        <5> QED BY <1>5, <4>1, <5>1
      <4>2. CASE x # n
        <5>1. PICK i \in 1 .. l : x = s[i]
          BY <1>3, <1>4, <4>2
        <5>2. i \in 1 .. Len(t)
          BY <1>4, <1>5
        <5> QED BY <1>5, <5>1, <5>2
      <4> QED BY <4>1, <4>2
    <3>2. ASSUME NEW i \in 1 .. Len(t) PROVE t[i] \in allocated'
      BY <1>3, <1>4, <1>5
    <3> QED BY <3>1, <3>2
  <2>3. list_top' = t[1]
    <3>1. CASE s = <<>>
      BY <1>3, <1>4, <1>5, <1>6, <3>1
    <3>2. CASE s # <<>>
      <4>1. 1 \in 1 .. l
        BY <1>4, <3>2
      <4> QED BY <1>3, <1>4, <1>5, <1>6, <3>2, <4>1
    <3> QED BY <3>1, <3>2
  <2>4. ASSUME NEW i \in 1 .. Len(t)
        PROVE  mac_list_next'[t[i]] = IF i = Len(t) THEN Last' ELSE t[i + 1]
    <3>1. CASE i = l + 1
      BY <1>3, <1>5, <1>10, <3>1
    <3>2. CASE i = l /\ i \in 1 .. l
      <4>1. t[i] = p /\ t[i] # n /\ t[i] \in Node /\ i # Len(t)
        BY <1>4, <1>5, <1>6, <1>7, <3>2
      <4>2. mac_list_next'[t[i]] = n
        BY <1>3, <4>1
      <4>3. t[i + 1] = n
        BY <1>5, <3>2
      <4> QED BY <4>1, <4>2, <4>3
    <3>3. CASE i \in 1 .. l /\ i # l
      <4>1. /\ l \in 1 .. l /\ i + 1 \in 1 .. l /\ i # Len(t)
            /\ s[i] # s[l] /\ s # <<>>
        BY <1>4, <1>5, <3>3
      <4>2. mac_list_next'[s[i]] = mac_list_next[s[i]]
        BY <1>3, <1>4, <1>6, <1>7, <3>3, <4>1
      <4>3. mac_list_next[s[i]] = s[i + 1]
        BY <1>1, <1>2, <1>3, <3>3, NextOnChain DEF l
      <4> QED BY <1>5, <3>3, <4>1, <4>2, <4>3
    <3> QED BY <1>5, <3>1, <3>2, <3>3
  <2> QED BY <1>5, <2>1, <2>2, <2>3, <2>4 DEF Chained
<1>12. item \in Mac /\ item # NULL /\ cnt = 0
  BY <1>2, <1>3, MacListAssumption DEF Adding, Counting
<1>13. ListTypeOK'
  <2>1. /\ list_top' \in Pointer /\ p' \in Pointer
        /\ item' \in Mac \cup {NULL}
        /\ pc' \in {"idle", "alloc", "top", "end"}
    BY <1>2, <1>3, <1>8, <1>12 DEF ListTypeOK, Pointer
  <2>2. counted \in Nat /\ mac_list_next \in [Node -> Pointer \cup {WILD}]
        /\ mac_add \in [Node -> Mac \cup {NULL}] /\ tap_name \in [Node -> Nat]
        /\ allocated \subseteq Node
    BY <1>2 DEF ListTypeOK
  <2>3. /\ mac_add' \in [Node -> Mac \cup {NULL}]
        /\ tap_name' \in [Node -> Nat]
        /\ allocated' \subseteq Node
    BY <1>3, <1>12, <2>2
  <2>4. mac_list_next' \in [Node -> Pointer \cup {WILD}]
    BY <1>3, <2>2 DEF Pointer
  <2> QED BY <1>2, <1>3, <2>1, <2>3, <2>4 DEF ListTypeOK
<1>14. Pointers'
  <2>1. {p, c, q, found} \subseteq allocated \cup {NULL}
    BY <1>2 DEF Pointers
  <2>2. p' \in allocated' \cup {NULL}
    BY <1>3
  <2>3. {c', q', found'} \subseteq allocated' \cup {NULL}
    BY <1>3, <2>1
  <2> QED BY <2>2, <2>3 DEF Pointers
<1>15. Numbers(t)'
  <2> SUFFICES ASSUME version = "v5", NEW k \in 1 .. Len(t)
               PROVE  tap_name'[t[k]] = k - 1
    BY <1>3 DEF Numbers
  <2>1. CASE k \in 1 .. l
    <3>1. tap_name[s[k]] = k - 1
      BY <1>2, <1>3, <2>1 DEF Numbers, l
    <3>2. tap_name'[s[k]] = tap_name[s[k]]
      BY <1>2, <1>3, <1>4, <1>7, <2>1 DEF ListTypeOK
    <3> QED BY <1>5, <2>1, <3>1, <3>2
  <2>2. CASE k = l + 1
    <3>1. tap_name'[n] = counted /\ counted = l
      BY <1>2, <1>3 DEF ListTypeOK, Counting, l
    <3> QED BY <1>4, <1>5, <2>2, <3>1
  <2> QED BY <1>5, <2>1, <2>2
<1>16. Counting(t)'
  <2>1. q' = NULL /\ cnt' = 0
    BY <1>2, <1>3, <1>12 DEF Counting
  <2>2. pc' # "count" /\ pc' # "link"
    BY <1>3, <1>8
  <2> QED BY <2>1, <2>2 DEF Counting
<1>17. Adding(t)'
  <2>1. q = NULL /\ c = NULL
    BY <1>2, <1>3 DEF Counting, Checking
  <2>2. pc' = "idle" => NoCall'
    BY <1>3, <1>8, <1>12, <2>1 DEF NoCall
  <2>3. pc' = "alloc" => version' = "v5" /\ t # <<>> /\ p' = End(t)
    BY <1>3, <1>5, <1>8, <1>9
  <2>4. pc' \in {"top", "end"} => item' \in Mac
    BY <1>3, <1>12
  <2>5. pc' \in {"idle", "alloc", "top", "end"}
    BY <1>3, <1>8
  <2> QED BY <2>2, <2>3, <2>4, <2>5 DEF Adding, Entering
<1>18. Checking(t)'
  <2>1. c' = NULL /\ pc' # "check"
    BY <1>2, <1>3, <1>8 DEF Checking
  <2>2. CASE back = "idle"
    BY <1>3, <1>8, <2>1, <2>2 DEF Checking
  <2>3. CASE back # "idle"
    <3>1. /\ version = "mac_list.c" /\ Unlisted(s, l)
          /\ (back = "top" <=> s = <<>>)
      BY <1>2, <1>3, <2>3 DEF Checking, l
    <3>2. /\ pc' = back /\ back' = back /\ item' = item
          /\ version' = "mac_list.c" /\ pc' \in {"top", "end"}
      BY <1>3, <1>8, <2>3, <3>1
    <3>3. mac_add'[n] = item
      BY <1>2, <1>3 DEF ListTypeOK
    <3>4. \A i \in 1 .. l : mac_add'[t[i]] # item
      <4>1. \A i \in 1 .. l : mac_add'[t[i]] = mac_add[s[i]]
        BY <1>2, <1>3, <1>4, <1>5, <1>7 DEF ListTypeOK
      <4> QED BY <3>1, <4>1 DEF Unlisted
    <3>5. Unlisted(t, Len(t) - 1)'
      <4>1. Len(t) - 1 = l
        BY <1>4, <1>5
      <4> QED BY <3>2, <3>4, <4>1 DEF Unlisted
    <3>6. pc' = "top" <=> Len(t) = 1
      BY <1>4, <1>5, <3>1, <3>2
    <3> QED BY <1>5, <1>9, <2>1, <3>2, <3>3, <3>5, <3>6 DEF Checking
  <2> QED BY <2>2, <2>3
<1>19. Shape(t)'
  BY <1>11, <1>15, <1>16, <1>17, <1>18 DEF Shape
<1> QED BY <1>5, <1>13, <1>14, <1>19 DEF t

LEMMA LinkKeeps ==
    ASSUME ListInv, NEW n \in Node, Link(n)
    PROVE  ListInv'
BY LinkLinks DEF ListInv

\* tun_alloc has succeeded: the pointer left open is set.
LEMMA AllocatedEnds ==
    ASSUME ListTypeOK, Pointers, NEW s \in Seq(Node), Shape(s), Allocated
    PROVE  ListTypeOK' /\ Pointers' /\ Shape(s)'
<1>1. Shape(s)
  OBVIOUS
<1>2. ListTypeOK /\ Pointers /\ Numbers(s) /\ Counting(s) /\ Adding(s)
      /\ Checking(s)
  BY <1>1 DEF Shape
<1>3. /\ pc = "alloc" /\ pc' = "print" /\ p' = list_top
      /\ mac_list_next' = [mac_list_next EXCEPT ![p] = NULL]
      /\ UNCHANGED <<version, list_top, mac_add, tap_name, allocated, back,
                     item, c, q, cnt, counted, found, asked>>
  BY DEF Allocated, call, answers, checked
<1>4. /\ Len(s) \in Nat /\ (s = <<>> <=> Len(s) = 0)
      /\ \A i \in 1 .. Len(s) : s[i] \in Node
      /\ \A i, j \in 1 .. Len(s) : s[i] = s[j] => i = j
      /\ list_top \in allocated \cup {NULL}
      /\ allocated \subseteq Node
  BY <1>1, <1>2, OnChain DEF Shape, Chained
<1>5. p = s[Len(s)] /\ Len(s) \in 1 .. Len(s)
  BY <1>2, <1>3, <1>4 DEF Adding, End
<1>6. Chained(s, list_top, mac_list_next, Last, allocated)'
  <2>1. ASSUME NEW i \in 1 .. Len(s)
        PROVE  mac_list_next'[s[i]] = IF i = Len(s) THEN Last' ELSE s[i + 1]
    <3>1. mac_list_next[s[i]] = IF i = Len(s) THEN Last ELSE s[i + 1]
      BY <1>1 DEF Shape, Chained
    <3>2. mac_list_next'[s[i]] = IF i = Len(s) THEN NULL
                                              ELSE mac_list_next[s[i]]
      BY <1>2, <1>3, <1>4, <1>5 DEF ListTypeOK
    <3>3. Last' = NULL
      BY <1>3 DEF Last
    <3> QED BY <3>1, <3>2, <3>3
  <2> QED BY <1>1, <1>3, <2>1 DEF Shape, Chained
<1>7. ListTypeOK'
  <2>1. mac_list_next' \in [Node -> Pointer \cup {WILD}]
    BY <1>2, <1>3 DEF ListTypeOK, Pointer
  <2> QED BY <1>2, <1>3, <2>1 DEF ListTypeOK
<1>8. Pointers'
  BY <1>2, <1>3, <1>4 DEF Pointers
<1>9. Numbers(s)'
  BY <1>2, <1>3 DEF Numbers
<1>10. Counting(s)'
  BY <1>2, <1>3 DEF Counting
<1>11. Adding(s)'
  BY <1>3 DEF Adding, Entering
<1>12. Checking(s)'
  BY <1>2, <1>3 DEF Checking
<1> QED BY <1>6, <1>7, <1>8, <1>9, <1>10, <1>11, <1>12 DEF Shape

LEMMA AllocatedKeeps == ListInv /\ Allocated => ListInv'
BY AllocatedEnds DEF ListInv

LEMMA ListSteps == ListInv /\ [ListNext]_listVars => ListInv'
<1> SUFFICES ASSUME ListInv, [ListNext]_listVars PROVE ListInv'
  OBVIOUS
<1>1. CASE CallInit \/ CallCount
  BY <1>1, CallInitKeeps, CallCountKeeps
<1>2. CASE \E m \in Mac : CallAdd(m) \/ CallCheck(m)
  BY <1>2, CallAddKeeps, CallCheckKeeps
<1>3. CASE FreeTop \/ AddWalks \/ AddReachesEnd \/ Allocated \/ AddDies
  BY <1>3, FreeTopKeeps, AddWalksKeeps, AddReachesEndKeeps, AllocatedKeeps,
     AddDiesKeeps
<1>4. CASE InitDone \/ AddFinds \/ PrintDone \/ CheckFinds \/ CheckFails
  BY <1>4, AnswerKeeps
<1>5. CASE \E n \in Node : Link(n)
  BY <1>5, LinkKeeps
<1>6. CASE PrintWalks \/ CountWalks \/ CountReturns
  BY <1>6, PrintWalksKeeps, CountWalksKeeps, CountReturnsKeeps
<1>7. CASE CheckWalks \/ CheckAdds \/ CheckReturns
  BY <1>7, CheckWalksKeeps, CheckAddsKeeps, CheckReturnsKeeps
<1>8. CASE UNCHANGED listVars
  <2>1. UNCHANGED <<version, list_top, mac_add, tap_name, mac_list_next,
                    allocated, pc, back, item, p, c, q, cnt, counted, found,
                    asked>>
    BY <1>8 DEF listVars, heap, call, answers, checked
  <2>2. PICK s \in Seq(Node) : Shape(s)
    BY DEF ListInv
  <2>3. ListTypeOK'
    BY <2>1 DEF ListInv, ListTypeOK
  <2>4. Pointers'
    BY <2>1 DEF ListInv, Pointers
  <2>5. /\ Chained(s, list_top, mac_list_next, Last, allocated)'
        /\ Numbers(s)' /\ Counting(s)'
    BY <2>1, <2>2 DEF Shape, Chained, Last, Numbers, Counting
  <2>6. Adding(s)'
    BY <2>1, <2>2 DEF Shape, Adding, Entering, Passed, Unlisted, NoCall
  <2>7. Checking(s)'
    BY <2>1, <2>2 DEF Shape, Checking, Passed, Unlisted
  <2> QED BY <2>3, <2>4, <2>5, <2>6, <2>7 DEF ListInv, Shape
<1> QED BY <1>1, <1>2, <1>3, <1>4, <1>5, <1>6, <1>7, <1>8
        DEF ListNext, ListStep

\* At every step of every call there is a sequence of nodes that the pointers
\* run through, and the cursors, counts and answers are about it.
THEOREM ListInvariance == ListSpec => []ListInv
BY ListStarts, ListSteps, PTL DEF ListSpec

\* The variables keep their types; no call follows a pointer not set.
THEOREM ListTypes == ListSpec => []ListTypeOK
<1>1. ListInv => ListTypeOK
  BY DEF ListInv
<1> QED BY <1>1, ListInvariance, PTL

-----------------------------------------------------------------------------
(* The chain of pointers.                                                  *)

\* Chain, of any pointers.
ChainOf(top, next) ==
    LET at[k \in 0 .. Cardinality(Node)] ==
            IF k = 0 THEN top
            ELSE IF at[k - 1] \in Node THEN next[at[k - 1]] ELSE NULL
    IN  at

\* The pointer at place k when the nodes are s.
Place(s, last, k) ==
    IF k < Len(s) THEN s[k + 1]
    ELSE IF k = Len(s) /\ s # <<>> THEN last ELSE NULL

\* There are no more nodes in a list than malloc may return.
LEMMA RoomForNodes ==
    ASSUME NEW s \in Seq(Node),
           \A i, j \in 1 .. Len(s) : s[i] = s[j] => i = j
    PROVE  /\ Cardinality(Node) \in Nat
           /\ Len(s) \in 0 .. Cardinality(Node)
           /\ Cardinality({s[i] : i \in 1 .. Len(s)}) = Len(s)
<1> DEFINE l == Len(s)
           f == [i \in 1 .. l |-> s[i]]
           N == {s[i] : i \in 1 .. l}
<1>1. l \in Nat /\ \A i \in 1 .. l : s[i] \in Node
  OBVIOUS
<1> HIDE DEF l
<1>2. f \in Injection(1 .. l, Node)
  BY <1>1 DEF Injection, IsInjective, l
<1>3. f \in Bijection(1 .. l, N)
  BY <1>1 DEF Injection, IsInjective, Surjection, Bijection, l
<1>4. ExistsBijection(1 .. l, N)
  BY <1>3 DEF ExistsBijection
<1> HIDE DEF f, N
<1>5. IsFiniteSet(Node)
  BY MacListAssumption
<1>6. Cardinality(Node) \in Nat
  BY <1>5, FS_CardinalityType
<1>7. Cardinality(1 .. l) <= Cardinality(Node)
  BY <1>2, <1>5, FS_Injection
<1>8. Cardinality(1 .. l) = l
  BY <1>1, FS_Interval
<1>9. Cardinality(N) = l
  BY <1>1, <1>4, FS_CountingElements
<1>10. l \in 0 .. Cardinality(Node)
  BY <1>1, <1>6, <1>7, <1>8
<1> QED BY <1>6, <1>9, <1>10, Zenon DEF l, N

\* The chain of pointers runs through the nodes, to what the last of them
\* points to.
LEMMA ChainRuns ==
    ASSUME NEW s \in Seq(Node), NEW top, NEW next, NEW nodes,
           NEW last \in {NULL, WILD}, Chained(s, top, next, last, nodes)
    PROVE  ChainOf(top, next)
               = [k \in 0 .. Cardinality(Node) |-> Place(s, last, k)]
<1> DEFINE D == 0 .. Cardinality(Node)
           Next(h) == [k \in D |-> IF k = 0 THEN top
                           ELSE IF h[k - 1] \in Node THEN next[h[k - 1]]
                           ELSE NULL]
           g == [k \in D |-> Place(s, last, k)]
           to == CHOOSE h : h = Next(h)
<1>1. /\ Len(s) \in Nat /\ Cardinality(Node) \in Nat
      /\ \A i \in 1 .. Len(s) : s[i] \in Node
      /\ s = <<>> <=> Len(s) = 0
      /\ top = IF s = <<>> THEN NULL ELSE s[1]
      /\ \A i \in 1 .. Len(s) :
            next[s[i]] = IF i = Len(s) THEN last ELSE s[i + 1]
  <2>1. Cardinality(Node) \in Nat
    BY RoomForNodes, Zenon DEF Chained
  <2> QED BY <2>1 DEF Chained
<1>2. last \notin Node /\ NULL \notin Node
  BY MacListAssumption
<1>3. Place(s, last, 0) = top
  BY <1>1 DEF Place
<1>4. ASSUME NEW k \in D, k # 0
      PROVE  Place(s, last, k)
                 = IF Place(s, last, k - 1) \in Node
                   THEN next[Place(s, last, k - 1)] ELSE NULL
  <2>1. CASE k < Len(s)
    <3>1. k \in 1 .. Len(s) /\ k # Len(s) /\ k - 1 < Len(s)
          /\ (k - 1) + 1 = k
      BY <1>1, <1>4, <2>1
    <3>2. Place(s, last, k) = s[k + 1] /\ Place(s, last, k - 1) = s[k]
      BY <2>1, <3>1 DEF Place
    <3> QED BY <1>1, <3>1, <3>2
  <2>2. CASE k = Len(s)
    <3>1. k \in 1 .. Len(s) /\ k - 1 < Len(s) /\ (k - 1) + 1 = k
          /\ s # <<>> /\ ~(k < Len(s))
      BY <1>1, <1>4, <2>2
    <3>2. Place(s, last, k) = last /\ Place(s, last, k - 1) = s[k]
      BY <2>2, <3>1 DEF Place
    <3> QED BY <1>1, <2>2, <3>1, <3>2
  <2>3. CASE k > Len(s)
    <3>1. ~(k < Len(s)) /\ k # Len(s) /\ ~(k - 1 < Len(s))
      BY <1>1, <1>4, <2>3
    <3>2. Place(s, last, k) = NULL /\ Place(s, last, k - 1) \in {last, NULL}
      BY <3>1 DEF Place
    <3> QED BY <1>2, <3>2
  <2> QED BY <1>1, <2>1, <2>2, <2>3
<1>5. g = Next(g)
  <2>1. ASSUME NEW k \in D
        PROVE  g[k] = IF k = 0 THEN top
                      ELSE IF g[k - 1] \in Node THEN next[g[k - 1]] ELSE NULL
    <3>1. CASE k = 0
      BY <1>3, <3>1
    <3>2. CASE k # 0
      <4>1. k - 1 \in D
        BY <1>1, <3>2
      <4>2. g[k] = Place(s, last, k) /\ g[k - 1] = Place(s, last, k - 1)
        BY <4>1, Zenon
      <4> QED BY <1>4, <3>2, <4>2, Zenon
    <3> QED BY <3>1, <3>2
  <2>2. g = [k \in D |-> g[k]]
    BY Zenon
  <2> HIDE DEF g, D
  <2> QED BY <2>1, <2>2, Zenon
<1>6. to = Next(to)
  <2>1. \E h : h = Next(h)
    <3> HIDE DEF Next, g
    <3> QED BY <1>5, Zenon
  <2> QED BY <2>1, Zenon
<1>7. ChainOf(top, next) = to
  BY Zenon DEF ChainOf
<1> HIDE DEF to, g
<1> DEFINE T == {k \in Nat : k \in D => to[k] = g[k]}
<1>8. 0 \in T
  <2>1. 0 \in D
    BY <1>1
  <2>2. to[0] = top /\ g[0] = top
    BY <1>5, <1>6, <2>1, Zenon
  <2> QED BY <2>2
<1>9. ASSUME NEW k \in T PROVE k + 1 \in T
  <2> SUFFICES ASSUME k + 1 \in D PROVE to[k + 1] = g[k + 1]
    OBVIOUS
  <2>1. k \in D /\ k + 1 # 0 /\ (k + 1) - 1 = k
    BY <1>1
  <2>2. to[k] = g[k]
    BY <2>1
  <2>3. to[k + 1] = IF to[(k + 1) - 1] \in Node
                    THEN next[to[(k + 1) - 1]] ELSE NULL
    BY <1>6, <2>1, Zenon
  <2>4. g[k + 1] = IF g[(k + 1) - 1] \in Node
                   THEN next[g[(k + 1) - 1]] ELSE NULL
    BY <1>5, <2>1, Zenon
  <2> QED BY <2>1, <2>2, <2>3, <2>4, Zenon
<1> HIDE DEF T
<1>10. T = Nat
  <2>1. T \in SUBSET Nat
    BY DEF T
  <2> QED BY <1>8, <1>9, <2>1, SetInduction
<1>11. \A k \in D : to[k] = g[k]
  <2>1. \A k \in D : k \in T
    BY <1>1, <1>10
  <2> QED BY <2>1 DEF T
<1>12. to = [k \in D |-> to[k]]
  BY <1>6, Zenon
<1>13. g = [k \in D |-> g[k]]
  BY Zenon DEF g
<1>14. to = g
  BY <1>11, <1>12, <1>13, Zenon
<1> QED BY <1>7, <1>14 DEF g, D

LengthOf(ch) == Cardinality({k \in DOMAIN ch : ch[k] \in Node})

\* The chain meets each node once, in order, and then the last pointer.
LEMMA ChainMeets ==
    ASSUME NEW s \in Seq(Node), NEW top, NEW next, NEW nodes,
           NEW last \in {NULL, WILD}, Chained(s, top, next, last, nodes)
    PROVE  /\ Len(s) \in Nat /\ DOMAIN ChainOf(top, next) \subseteq Nat
           /\ \A k \in 0 .. Len(s) : k \in DOMAIN ChainOf(top, next)
           /\ LengthOf(ChainOf(top, next)) = Len(s)
           /\ \A k \in 0 .. Len(s) - 1 : ChainOf(top, next)[k] = s[k + 1]
           /\ ChainOf(top, next)[Len(s)] = IF s = <<>> THEN NULL ELSE last
           /\ \A k \in DOMAIN ChainOf(top, next) :
                 ChainOf(top, next)[k] \in Node => k \in 0 .. Len(s) - 1
<1> DEFINE ch == ChainOf(top, next)
           C == Cardinality(Node)
<1>1. Len(s) \in 0 .. C /\ C \in Nat
  BY RoomForNodes, Zenon DEF Chained
<1>2. ch = [k \in 0 .. C |-> Place(s, last, k)]
  BY ChainRuns
<1>3. /\ \A i \in 1 .. Len(s) : s[i] \in Node
      /\ last \notin Node /\ NULL \notin Node
  BY MacListAssumption
<1> HIDE DEF ch, C
<1>4. DOMAIN ch = 0 .. C /\ \A k \in 0 .. C : ch[k] = Place(s, last, k)
  BY <1>2
<1>5. ASSUME NEW k \in 0 .. Len(s) - 1
      PROVE  ch[k] = s[k + 1] /\ ch[k] \in Node
  <2>1. k \in 0 .. C /\ k < Len(s) /\ k + 1 \in 1 .. Len(s)
    BY <1>1
  <2>2. ch[k] = s[k + 1]
    BY <1>4, <2>1 DEF Place
  <2> QED BY <1>3, <2>1, <2>2
<1>6. ch[Len(s)] = IF s = <<>> THEN NULL ELSE last
  BY <1>1, <1>4 DEF Place
<1>7. ASSUME NEW k \in 0 .. C, ch[k] \in Node PROVE k \in 0 .. Len(s) - 1
  <2>1. CASE k < Len(s)
    BY <1>1, <2>1
  <2>2. CASE ~(k < Len(s))
    <3>1. ch[k] \in {last, NULL}
      BY <1>4, <2>2 DEF Place
    <3> QED BY <1>3, <1>7, <3>1
  <2> QED BY <2>1, <2>2
<1>8. {k \in DOMAIN ch : ch[k] \in Node} = 0 .. Len(s) - 1
  <2>1. \A k \in 0 .. Len(s) - 1 : k \in 0 .. C
    BY <1>1
  <2> QED BY <1>4, <1>5, <1>7, <2>1
<1>9. Cardinality(0 .. Len(s) - 1) = Len(s)
  <2>1. 0 \in Int /\ Len(s) - 1 \in Int
    BY <1>1
  <2>2. Cardinality(0 .. Len(s) - 1)
            = IF 0 > Len(s) - 1 THEN 0 ELSE (Len(s) - 1) - 0 + 1
    BY <2>1, FS_Interval
  <2> QED BY <1>1, <2>2
<1>10. LengthOf(ch) = Len(s)
  BY <1>8, <1>9, Zenon DEF LengthOf
<1>11. \A k \in 0 .. Len(s) : k \in DOMAIN ch
  BY <1>1, <1>4
<1>12. Len(s) \in Nat /\ DOMAIN ch \subseteq Nat
  BY <1>1, <1>4
<1> QED BY <1>4, <1>5, <1>6, <1>7, <1>10, <1>11, <1>12, Zenon DEF ch

\* Chain is this chain, at any time.
LEMMA ChainIs == Chain = ChainOf(list_top, mac_list_next)
BY Zenon DEF Chain, ChainOf

\* ListInv in terms of Chain.
LEMMA ChainOfNodes ==
    ASSUME NEW s \in Seq(Node), Shape(s)
    PROVE  /\ Len(s) \in Nat
           /\ \A k \in 0 .. Len(s) : k \in DOMAIN Chain
           /\ ChainLength = Len(s)
           /\ \A k \in 0 .. Len(s) - 1 : Chain[k] = s[k + 1]
           /\ Chain[Len(s)] = IF s = <<>> THEN NULL ELSE Last
           /\ \A k \in DOMAIN Chain :
                 Chain[k] \in Node => k \in 0 .. Len(s) - 1
<1>1. Last \in {NULL, WILD}
  BY DEF Last
<1>2. Chained(s, list_top, mac_list_next, Last, allocated)
  BY DEF Shape
<1>3. ChainLength = LengthOf(Chain)
  BY Zenon DEF ChainLength, LengthOf
<1> DEFINE ch == ChainOf(list_top, mac_list_next)
<1>4. /\ Len(s) \in Nat
      /\ \A k \in 0 .. Len(s) : k \in DOMAIN ch
      /\ LengthOf(ch) = Len(s)
      /\ \A k \in 0 .. Len(s) - 1 : ch[k] = s[k + 1]
      /\ ch[Len(s)] = IF s = <<>> THEN NULL ELSE Last
      /\ \A k \in DOMAIN ch : ch[k] \in Node => k \in 0 .. Len(s) - 1
  BY <1>1, <1>2, ChainMeets
<1>5. Chain = ch
  BY ChainIs
<1> HIDE DEF ch
<1> QED BY <1>3, <1>4, <1>5

\* The nodes allocated are the nodes on the chain, each met once; it ends with
\* MAC_LIST_TAIL, or while tun_alloc runs with the pointer not set; no cursor
\* or answer points to anything else.
THEOREM ListChainSound == ListSpec => []ChainSound
<1>1. ListInv => ChainSound
  <2> SUFFICES ASSUME ListInv PROVE ChainSound
    OBVIOUS
  <2>1. PICK s \in Seq(Node) : Shape(s)
    BY DEF ListInv
  <2>2. ListTypeOK /\ {p, c, q, found} \subseteq allocated \cup {NULL}
    BY DEF ListInv, Pointers
  <2>3. /\ \A i, j \in 1 .. Len(s) : s[i] = s[j] => i = j
        /\ allocated = {s[i] : i \in 1 .. Len(s)}
    BY <2>1 DEF Shape, Chained
  <2>4. /\ Len(s) \in Nat
        /\ \A k \in 0 .. Len(s) : k \in DOMAIN Chain
        /\ ChainLength = Len(s)
        /\ \A k \in 0 .. Len(s) - 1 : Chain[k] = s[k + 1]
        /\ Chain[Len(s)] = IF s = <<>> THEN NULL ELSE Last
        /\ \A k \in DOMAIN Chain :
              Chain[k] \in Node => k \in 0 .. Len(s) - 1
    BY <2>1, ChainOfNodes
  <2>5. ChainLength = Cardinality(allocated)
    BY <2>3, <2>4, RoomForNodes, Zenon
  <2>6. {Chain[k] : k \in DOMAIN Chain} \cap Node = allocated
    <3>1. ASSUME NEW k \in DOMAIN Chain, Chain[k] \in Node
          PROVE  Chain[k] \in allocated
      <4>1. k \in 0 .. Len(s) - 1
        BY <2>4, <3>1
      <4>2. k + 1 \in 1 .. Len(s) /\ Chain[k] = s[k + 1]
        BY <2>4, <4>1
      <4> QED BY <2>3, <4>2
    <3>2. ASSUME NEW x \in allocated
          PROVE  x \in Node /\ \E k \in DOMAIN Chain : x = Chain[k]
      <4>1. PICK i \in 1 .. Len(s) : x = s[i]
        BY <2>3
      <4>2. i - 1 \in 0 .. Len(s) - 1 /\ i - 1 \in 0 .. Len(s)
            /\ (i - 1) + 1 = i
        BY <2>4
      <4>3. i - 1 \in DOMAIN Chain /\ x = Chain[i - 1]
        BY <2>4, <4>1, <4>2
      <4> QED BY <2>2, <4>3 DEF ListTypeOK
    <3> QED BY <3>1, <3>2
  <2>7. Chain[ChainLength] = IF pc = "alloc" THEN WILD ELSE NULL
    <3>1. pc = "alloc" => s # <<>>
      BY <2>1 DEF Shape, Adding
    <3> QED BY <2>4, <3>1 DEF Last
  <2> QED BY <2>2, <2>5, <2>6, <2>7 DEF ChainSound
<1> QED BY <1>1, ListInvariance, PTL

\* Unless the list is being freed, the number in the name of a node's tap is
\* the position of the node: no two nodes name the same tap.
THEOREM ListNumbers == ListSpec => []NumbersInOrder
<1>1. ListInv => NumbersInOrder
  <2> SUFFICES ASSUME ListInv, version = "v5", pc # "init",
                      NEW k \in 0 .. ChainLength - 1
               PROVE  tap_name[Chain[k]] = k
    BY DEF NumbersInOrder
  <2>1. PICK s \in Seq(Node) : Shape(s)
    BY DEF ListInv
  <2>2. /\ Len(s) \in Nat /\ ChainLength = Len(s)
        /\ \A j \in 0 .. Len(s) - 1 : Chain[j] = s[j + 1]
    BY <2>1, ChainOfNodes
  <2>3. k + 1 \in 1 .. Len(s) /\ (k + 1) - 1 = k /\ Chain[k] = s[k + 1]
    BY <2>2
  <2>4. tap_name[s[k + 1]] = (k + 1) - 1
    BY <2>1, <2>3 DEF Shape, Numbers
  <2> QED BY <2>3, <2>4
<1> QED BY <1>1, ListInvariance, PTL

-----------------------------------------------------------------------------
(* The list implements AddressList.                                        *)

\* What List substitutes for entries and found.
EntryList == [i \in 1 .. ChainLength |-> mac_add[Chain[i - 1]]]

Answer == IF found = NULL THEN 0
          ELSE 1 + CHOOSE i \in DOMAIN Chain : Chain[i] = found

\* The same, of any chain.
EntriesIn(ch, add) == [i \in 1 .. LengthOf(ch) |-> add[ch[i - 1]]]

AnswerIn(ch, fnd) ==
    IF fnd = NULL THEN 0 ELSE 1 + CHOOSE i \in DOMAIN ch : ch[i] = fnd

\* And of the nodes s.
Listing(s, add) == [k \in 1 .. Len(s) |-> add[s[k]]]

\* The entries are the addresses of the nodes, and the entry a pointer answers
\* is the place of its node.
LEMMA EntriesAre ==
    ASSUME NEW s \in Seq(Node), NEW top, NEW next, NEW nodes,
           NEW last \in {NULL, WILD}, Chained(s, top, next, last, nodes)
    PROVE  /\ \A add : EntriesIn(ChainOf(top, next), add) = Listing(s, add)
           /\ AnswerIn(ChainOf(top, next), NULL) = 0
           /\ \A i \in 1 .. Len(s) : AnswerIn(ChainOf(top, next), s[i]) = i
<1> DEFINE ch == ChainOf(top, next)
<1>1. /\ Len(s) \in Nat
      /\ \A i \in 1 .. Len(s) : s[i] \in Node
      /\ \A i, j \in 1 .. Len(s) : s[i] = s[j] => i = j
      /\ NULL \notin Node
  BY MacListAssumption DEF Chained
<1>2. /\ DOMAIN ch \subseteq Nat
      /\ \A k \in 0 .. Len(s) : k \in DOMAIN ch
      /\ LengthOf(ch) = Len(s)
      /\ \A k \in 0 .. Len(s) - 1 : ch[k] = s[k + 1]
      /\ \A k \in DOMAIN ch : ch[k] \in Node => k \in 0 .. Len(s) - 1
  BY ChainMeets
<1> HIDE DEF ch
<1>3. \A k \in 1 .. Len(s) : ch[k - 1] = s[k]
  <2> SUFFICES ASSUME NEW k \in 1 .. Len(s) PROVE ch[k - 1] = s[k]
    OBVIOUS
  <2>1. k - 1 \in 0 .. Len(s) - 1 /\ (k - 1) + 1 = k
    BY <1>1
  <2> QED BY <1>2, <2>1
<1>4. ASSUME NEW i \in 1 .. Len(s) PROVE AnswerIn(ch, s[i]) = i
  <2> DEFINE k == CHOOSE j \in DOMAIN ch : ch[j] = s[i]
  <2>1. i - 1 \in DOMAIN ch /\ ch[i - 1] = s[i]
    <3>1. i - 1 \in 0 .. Len(s)
      BY <1>1
    <3> QED BY <1>2, <1>3, <3>1
  <2>2. k \in DOMAIN ch /\ ch[k] = s[i]
    BY <2>1, Zenon
  <2>3. s[i] # NULL
    BY <1>1
  <2>4. AnswerIn(ch, s[i]) = 1 + k
    BY <2>3, Zenon DEF AnswerIn
  <2> HIDE DEF k
  <2>5. ch[k] \in Node
    BY <1>1, <2>2
  <2>6. k \in 0 .. Len(s) - 1
    BY <1>2, <2>2, <2>5
  <2>7. k + 1 \in 1 .. Len(s) /\ ch[k] = s[k + 1]
    BY <1>1, <1>2, <2>6
  <2>8. k + 1 = i
    BY <1>1, <2>2, <2>7
  <2> QED BY <2>4, <2>6, <2>8
<1>5. \A add : EntriesIn(ch, add) = Listing(s, add)
  BY <1>2, <1>3 DEF EntriesIn, Listing
<1>6. AnswerIn(ch, NULL) = 0
  BY Zenon DEF AnswerIn
<1> QED BY <1>4, <1>5, <1>6 DEF ch

\* What List's entries and answer are when the nodes are s.
LEMMA Mapped ==
    ASSUME NEW s \in Seq(Node), Shape(s)
    PROVE  /\ EntryList = Listing(s, mac_add)
           /\ found = NULL => Answer = 0
           /\ \A i \in 1 .. Len(s) : found = s[i] => Answer = i
<1>1. Chained(s, list_top, mac_list_next, Last, allocated)
      /\ Last \in {NULL, WILD}
  BY DEF Shape, Last
<1> DEFINE ch == ChainOf(list_top, mac_list_next)
<1>2. /\ EntriesIn(ch, mac_add) = Listing(s, mac_add)
      /\ AnswerIn(ch, NULL) = 0
      /\ \A i \in 1 .. Len(s) : AnswerIn(ch, s[i]) = i
  BY <1>1, EntriesAre
<1>3. Chain = ch
  BY Zenon DEF Chain, ChainOf
<1>4. EntryList = EntriesIn(Chain, mac_add) /\ Answer = AnswerIn(Chain, found)
  BY Zenon DEF EntryList, EntriesIn, ChainLength, LengthOf, Answer, AnswerIn
<1> HIDE DEF ch
<1> QED BY <1>2, <1>3, <1>4

\* And what they are next.
LEMMA MappedNext ==
    ASSUME NEW s \in Seq(Node),
           Chained(s, list_top, mac_list_next, Last, allocated)'
    PROVE  /\ EntryList' = Listing(s, mac_add')
           /\ found' = NULL => Answer' = 0
           /\ \A i \in 1 .. Len(s) : found' = s[i] => Answer' = i
<1>1. Chained(s, list_top', mac_list_next', Last', allocated')
      /\ Last' \in {NULL, WILD}
  BY DEF Last
<1> DEFINE ch == ChainOf(list_top', mac_list_next')
<1>2. /\ EntriesIn(ch, mac_add') = Listing(s, mac_add')
      /\ AnswerIn(ch, NULL) = 0
      /\ \A i \in 1 .. Len(s) : AnswerIn(ch, s[i]) = i
  BY <1>1, EntriesAre
<1>3. Chain' = ch
  BY Zenon DEF Chain, ChainOf
<1>4. /\ EntryList' = EntriesIn(Chain', mac_add')
      /\ Answer' = AnswerIn(Chain', found')
  BY Zenon DEF EntryList, EntriesIn, ChainLength, LengthOf, Answer, AnswerIn
<1> HIDE DEF ch
<1> QED BY <1>2, <1>3, <1>4

\* The steps of AddressList, in these terms.
LEMMA MapsToInit ==
    ASSUME EntryList = <<>>, Answer = 0, asked = NULL, counted = 0
    PROVE  List!AlInit
<1>1. (version = "v5") \in BOOLEAN
  BY Zenon
<1> QED BY <1>1, Zenon DEF List!AlInit, EntryList, Answer

LEMMA MapsToDrop ==
    ASSUME EntryList # <<>>, EntryList' = Tail(EntryList), Answer' = 0,
           asked' = NULL, UNCHANGED <<version, counted>>
    PROVE  List!Drop
<1>1. UNCHANGED <<version = "v5", counted>>
  OBVIOUS
<1> QED BY <1>1, Zenon DEF List!Drop, EntryList, Answer

LEMMA MapsToEnter ==
    ASSUME NEW a \in Mac,
           version = "v5" => \A k \in 1 .. Len(EntryList) : EntryList[k] # a,
           EntryList' = Append(EntryList, a),
           UNCHANGED <<version, Answer, asked, counted>>
    PROVE  \E b \in Mac : List!Enter(b)
<1>1. UNCHANGED <<version = "v5", asked, Answer, counted>>
  OBVIOUS
<1>2. List!Positions(a) = {j \in 1 .. Len(EntryList) : EntryList[j] = a}
  BY Zenon DEF List!Positions, EntryList
<1>3. (version = "v5") => List!Positions(a) = {}
  BY <1>2
<1>4. List!Enter(a)
  BY <1>1, <1>3, Zenon DEF List!Enter, EntryList, Answer
<1> QED BY <1>4, Zenon

LEMMA MapsToFound ==
    ASSUME NEW a \in Mac, NEW k \in 1 .. Len(EntryList), EntryList[k] = a,
           \A j \in 1 .. Len(EntryList) : EntryList[j] = a => k <= j,
           asked' = a, Answer' = k, UNCHANGED <<version, EntryList, counted>>
    PROVE  \E b \in Mac, j \in 1 .. Len(EntryList) : List!Found(b, j)
<1>1. UNCHANGED <<version = "v5", EntryList, counted>>
  OBVIOUS
<1>2. List!Positions(a) = {j \in 1 .. Len(EntryList) : EntryList[j] = a}
  BY Zenon DEF List!Positions, EntryList
<1>3. k \in List!Positions(a) /\ \A j \in List!Positions(a) : k <= j
  BY <1>2
<1>4. List!Found(a, k)
  BY <1>1, <1>3, SMT DEF List!Found, EntryList, Answer
<1> QED BY <1>4, Zenon

LEMMA MapsToFoundNone ==
    ASSUME NEW a \in Mac,
           Len(EntryList) \in Nat,
           version = "v5" => \A k \in 1 .. Len(EntryList) : EntryList[k] # a,
           version # "v5" => /\ Len(EntryList) > 1
                             /\ EntryList[Len(EntryList)] = a
                             /\ \A k \in 1 .. Len(EntryList) - 1 :
                                   EntryList[k] # a,
           asked' = a, Answer' = 0, UNCHANGED <<version, EntryList, counted>>
    PROVE  \E b \in Mac : List!FoundNone(b)
<1>1. UNCHANGED <<version = "v5", EntryList, counted>>
  OBVIOUS
<1>2. List!Positions(a) = {j \in 1 .. Len(EntryList) : EntryList[j] = a}
  BY Zenon DEF List!Positions, EntryList
<1>3. IF version = "v5"
      THEN List!Positions(a) = {}
      ELSE List!Positions(a) = {Len(EntryList)} /\ Len(EntryList) > 1
  <2>1. CASE version = "v5"
    BY <1>2, <2>1
  <2>2. CASE version # "v5"
    <3> DEFINE l == Len(EntryList)
    <3>1. l \in 1 .. l /\ \A k \in 1 .. l : k # l => k \in 1 .. l - 1
      BY <2>2
    <3>2. {j \in 1 .. l : EntryList[j] = a} = {l}
      BY <2>2, <3>1
    <3> QED BY <1>2, <2>2, <3>2
  <2> QED BY <2>1, <2>2
<1>4. List!FoundNone(a)
  BY <1>1, <1>3, Zenon DEF List!FoundNone, EntryList, Answer
<1> QED BY <1>4, Zenon

LEMMA MapsToCounted ==
    ASSUME counted' = Len(EntryList),
           UNCHANGED <<version, EntryList, asked, Answer>>
    PROVE  List!Counted
<1>1. UNCHANGED <<version = "v5", EntryList, asked, Answer>>
  OBVIOUS
<1> QED BY <1>1, Zenon DEF List!Counted, EntryList, Answer

LEMMA MapsToLost ==
    ASSUME EntryList' = <<>>, Answer' = 0, asked' = NULL, counted' = 0,
           UNCHANGED version
    PROVE  List!Lost
<1>1. UNCHANGED (version = "v5")
  OBVIOUS
<1> QED BY <1>1, Zenon DEF List!Lost, EntryList, Answer

LEMMA MapsToStutter ==
    ASSUME UNCHANGED <<version, EntryList, asked, Answer, counted>>
    PROVE  UNCHANGED List!alVars
<1>1. UNCHANGED <<version = "v5", EntryList, asked, Answer, counted>>
  OBVIOUS
<1> QED BY <1>1, Zenon DEF List!alVars, EntryList, Answer

\* A step that leaves the nodes as they are changes no entry.
LEMMA SameEntries ==
    ASSUME UNCHANGED <<version, heap>>
    PROVE  UNCHANGED <<version, EntryList>>
<1>1. UNCHANGED <<list_top, mac_add, mac_list_next>>
  BY DEF heap
<1>2. Chain' = Chain
  BY <1>1, Zenon DEF Chain
<1>3. ChainLength' = ChainLength
  BY <1>2, Zenon DEF ChainLength
<1> QED BY <1>1, <1>2, <1>3, Zenon DEF EntryList

LEMMA SameAnswer ==
    ASSUME UNCHANGED <<heap, found>>
    PROVE  UNCHANGED Answer
<1>1. UNCHANGED <<list_top, mac_list_next>>
  BY DEF heap
<1>2. Chain' = Chain
  BY <1>1, Zenon DEF Chain
<1>3. Answer = AnswerIn(Chain, found) /\ Answer' = AnswerIn(Chain', found')
  BY Zenon DEF Answer, AnswerIn
<1> QED BY <1>2, <1>3

LEMMA ListingIs ==
    ASSUME ListTypeOK, NEW s \in Seq(Node)
    PROVE  /\ Listing(s, mac_add) \in Seq(Mac \cup {NULL})
           /\ Len(Listing(s, mac_add)) = Len(s)
           /\ \A k \in 1 .. Len(s) : Listing(s, mac_add)[k] = mac_add[s[k]]
<1>1. Len(s) \in Nat /\ \A k \in 1 .. Len(s) : s[k] \in Node
  OBVIOUS
<1>2. Listing(s, mac_add) \in [1 .. Len(s) -> Mac \cup {NULL}]
  BY <1>1 DEF Listing, ListTypeOK
<1>3. \A k \in 1 .. Len(s) : Listing(s, mac_add)[k] = mac_add[s[k]]
  BY DEF Listing
<1> QED BY <1>1, <1>2, <1>3, FunctionIsSeq

\* No call: the list is empty.
LEMMA StartMaps == ListInit => List!AlInit
<1> SUFFICES ASSUME ListInit PROVE List!AlInit
  OBVIOUS
<1>1. ListInv
  BY ListStarts
<1>2. PICK s \in Seq(Node) : Shape(s)
  BY <1>1 DEF ListInv
<1>3. /\ list_top = NULL /\ found = NULL /\ asked = NULL /\ counted = 0
      /\ ListTypeOK
  BY <1>1 DEF ListInit, ListInv
<1>4. s = <<>>
  BY <1>2, <1>3, OnChain
<1>5. EntryList = Listing(s, mac_add) /\ Answer = 0
  BY <1>2, <1>3, Mapped
<1>6. EntryList = <<>>
  <2>1. /\ Listing(s, mac_add) \in Seq(Mac \cup {NULL})
        /\ Len(Listing(s, mac_add)) = Len(s)
    BY <1>3, ListingIs
  <2>2. Len(s) = 0
    BY <1>4
  <2> HIDE DEF Listing
  <2> QED BY <1>5, <2>1, <2>2
<1> QED BY <1>3, <1>5, <1>6, MapsToInit

\* A step of a call that only moves a cursor, or ends the call without an
\* answer.
LEMMA MovesMap ==
    ASSUME UNCHANGED <<version, heap, answers>>
    PROVE  UNCHANGED List!alVars
<1>1. UNCHANGED <<version, heap, found, asked, counted>>
  BY DEF answers, checked
<1> QED BY <1>1, SameEntries, SameAnswer, MapsToStutter

\* What a step in the middle of a list knows.
LEMMA FreeTopMaps == ListInv /\ FreeTop => List!Drop
<1> SUFFICES ASSUME ListInv, FreeTop PROVE List!Drop
  OBVIOUS
<1>1. PICK s \in Seq(Node) : Shape(s)
  BY DEF ListInv
<1>2. ListTypeOK /\ Pointers
  BY DEF ListInv
<1> DEFINE t == Tail(s)
           e == Listing(s, mac_add)
           f == Listing(t, mac_add')
<1>3. /\ ListTypeOK' /\ Pointers'
      /\ s # <<>> /\ t \in Seq(Node) /\ Shape(t)'
  BY <1>1, <1>2, FreeTopLeaves
<1>4. /\ found' = NULL /\ asked' = NULL /\ UNCHANGED <<version, counted>>
      /\ mac_add' = [mac_add EXCEPT ![list_top] = NULL]
  BY DEF FreeTop, Free
<1>5. /\ Len(s) \in Nat \ {0} /\ Len(t) = Len(s) - 1
      /\ \A k \in 1 .. Len(s) - 1 : t[k] = s[k + 1]
      /\ list_top = s[1]
      /\ \A k \in 1 .. Len(s) : s[k] \in Node
      /\ \A i, j \in 1 .. Len(s) : s[i] = s[j] => i = j
  BY <1>1, <1>2, <1>3, OnChain, Dequeuing DEF Shape, Chained
<1>6. EntryList = e
  BY <1>1, Mapped
<1>7. Chained(t, list_top, mac_list_next, Last, allocated)'
  BY <1>3 DEF Shape
<1>8. EntryList' = f /\ Answer' = 0
  BY <1>3, <1>4, <1>7, MappedNext
<1>9. /\ e \in Seq(Mac \cup {NULL}) /\ Len(e) = Len(s)
      /\ \A k \in 1 .. Len(s) : e[k] = mac_add[s[k]]
  BY <1>2, ListingIs
<1>10. f = [k \in 1 .. Len(t) |-> mac_add'[t[k]]]
  BY DEF Listing
<1> HIDE DEF t, e, f
<1>11. ASSUME NEW k \in 1 .. Len(s) - 1
       PROVE  mac_add'[t[k]] = e[k + 1]
  <2>1. /\ k + 1 \in 1 .. Len(s) /\ 1 \in 1 .. Len(s) /\ k + 1 # 1
        /\ t[k] = s[k + 1]
    BY <1>5
  <2>2. s[k + 1] # list_top /\ s[k + 1] \in Node
    BY <1>5, <2>1
  <2>3. mac_add'[s[k + 1]] = mac_add[s[k + 1]]
    BY <1>2, <1>4, <2>2 DEF ListTypeOK
  <2> QED BY <1>9, <2>1, <2>3
<1>12. f = Tail(e) /\ e # <<>>
  <2>1. f = [k \in 1 .. Len(e) - 1 |-> e[k + 1]]
    BY <1>5, <1>9, <1>10, <1>11
  <2>2. e # <<>>
    BY <1>5, <1>9
  <2> QED BY <1>9, <2>1, <2>2, TailIs
<1> QED BY <1>4, <1>6, <1>8, <1>12, MapsToDrop

\* The address of the call is entered at the end; v5 has compared all.
LEMMA LinkMaps ==
    ASSUME ListInv, NEW n \in Node, Link(n)
    PROVE  \E a \in Mac : List!Enter(a)
<1>1. PICK s \in Seq(Node) : Shape(s)
  BY DEF ListInv
<1>2. ListTypeOK /\ Pointers
  BY DEF ListInv
<1> DEFINE t == Append(s, n)
           e == Listing(s, mac_add)
           f == Listing(t, mac_add')
<1>3. t \in Seq(Node) /\ Shape(t)'
  BY <1>1, <1>2, LinkLinks
<1>4. /\ pc = "link" /\ n \notin allocated
      /\ mac_add' = [mac_add EXCEPT ![n] = item]
      /\ UNCHANGED <<version, found, asked, counted>>
  BY DEF Link, answers, checked
<1>5. /\ item \in Mac
      /\ version = "v5" => Unlisted(s, Len(s))
  BY <1>1, <1>4 DEF Shape, Adding, Entering
<1>6. /\ Len(s) \in Nat /\ Len(t) = Len(s) + 1
      /\ \A k \in 1 .. Len(s) : t[k] = s[k] /\ s[k] \in Node /\ s[k] # n
      /\ t[Len(s) + 1] = n
      /\ \A x \in allocated : \E k \in 1 .. Len(s) : x = s[k]
  BY <1>1, <1>2, <1>4, OnChain, Appending
<1>7. /\ EntryList = e
      /\ found = NULL => Answer = 0
      /\ \A k \in 1 .. Len(s) : found = s[k] => Answer = k
  BY <1>1, Mapped
<1>8. Chained(t, list_top, mac_list_next, Last, allocated)'
  BY <1>3 DEF Shape
<1>9. /\ EntryList' = f
      /\ found' = NULL => Answer' = 0
      /\ \A k \in 1 .. Len(t) : found' = t[k] => Answer' = k
  BY <1>3, <1>8, MappedNext
<1>10. /\ e \in Seq(Mac \cup {NULL}) /\ Len(e) = Len(s)
       /\ \A k \in 1 .. Len(s) : e[k] = mac_add[s[k]]
  BY <1>2, ListingIs
<1>11. f = [k \in 1 .. Len(t) |-> mac_add'[t[k]]]
  BY DEF Listing
<1> HIDE DEF t, e, f
<1>12. UNCHANGED Answer
  <2>1. CASE found = NULL
    BY <1>4, <1>7, <1>9, <2>1
  <2>2. CASE found # NULL
    <3>1. PICK k \in 1 .. Len(s) : found = s[k]
      BY <1>2, <1>6, <2>2 DEF Pointers
    <3>2. k \in 1 .. Len(t) /\ found' = t[k]
      BY <1>4, <1>6, <3>1
    <3> QED BY <1>7, <1>9, <3>1, <3>2
  <2> QED BY <2>1, <2>2
<1>13. f = Append(e, item)
  <2>1. \A k \in 1 .. Len(s) : mac_add'[t[k]] = e[k]
    BY <1>2, <1>4, <1>6, <1>10 DEF ListTypeOK
  <2>2. mac_add'[t[Len(s) + 1]] = item
    BY <1>2, <1>4, <1>6 DEF ListTypeOK
  <2>3. f = [k \in 1 .. Len(e) + 1 |->
                IF k = Len(e) + 1 THEN item ELSE e[k]]
    BY <1>6, <1>10, <1>11, <2>1, <2>2
  <2>4. item \in Mac \cup {NULL}
    BY <1>5
  <2> QED BY <1>10, <2>3, <2>4, AppendIs
<1>14. version = "v5" =>
          \A k \in 1 .. Len(EntryList) : EntryList[k] # item
  BY <1>5, <1>7, <1>10 DEF Unlisted
<1>15. EntryList' = Append(EntryList, item)
  BY <1>7, <1>9, <1>13
<1> QED BY <1>4, <1>5, <1>12, <1>14, <1>15, MapsToEnter

\* tun_alloc's return changes no entry.
LEMMA AllocatedMaps == ListInv /\ Allocated => UNCHANGED List!alVars
<1> SUFFICES ASSUME ListInv, Allocated PROVE UNCHANGED List!alVars
  OBVIOUS
<1>1. PICK s \in Seq(Node) : Shape(s)
  BY DEF ListInv
<1>2. ListTypeOK /\ Pointers
  BY DEF ListInv
<1>3. Chained(s, list_top, mac_list_next, Last, allocated)'
  BY <1>1, <1>2, AllocatedEnds DEF Shape
<1>4. UNCHANGED <<version, mac_add, found, asked, counted>>
  BY DEF Allocated, answers, checked
<1>5. /\ EntryList = Listing(s, mac_add)
      /\ found = NULL => Answer = 0
      /\ \A k \in 1 .. Len(s) : found = s[k] => Answer = k
  BY <1>1, Mapped
<1>6. /\ EntryList' = Listing(s, mac_add')
      /\ found' = NULL => Answer' = 0
      /\ \A k \in 1 .. Len(s) : found' = s[k] => Answer' = k
  BY <1>3, MappedNext
<1>7. UNCHANGED EntryList
  BY <1>4, <1>5, <1>6
<1>8. UNCHANGED Answer
  <2>1. \A x \in allocated : \E k \in 1 .. Len(s) : x = s[k]
    BY <1>1, <1>2, OnChain
  <2>2. CASE found = NULL
    BY <1>4, <1>5, <1>6, <2>2
  <2>3. CASE found # NULL
    <3>1. PICK k \in 1 .. Len(s) : found = s[k]
      BY <1>2, <2>1, <2>3 DEF Pointers
    <3> QED BY <1>4, <1>5, <1>6, <3>1
  <2> QED BY <2>2, <2>3
<1> QED BY <1>4, <1>7, <1>8, MapsToStutter

\* The process ends, and with it the list.
LEMMA AddDiesMaps == ListInv /\ AddDies => List!Lost
<1> SUFFICES ASSUME ListInv, AddDies PROVE List!Lost
  OBVIOUS
<1>1. ListInv'
  BY AddDiesKeeps
<1>2. PICK s \in Seq(Node) : Shape(s)'
  BY <1>1 DEF ListInv
<1>3. /\ list_top' = NULL /\ found' = NULL /\ asked' = NULL /\ counted' = 0
      /\ version' = version
  BY DEF AddDies
<1>4. Chained(s, list_top', mac_list_next', Last', allocated')
  BY <1>2 DEF Shape
<1>5. s = <<>>
  <2>1. list_top' = IF s = <<>> THEN NULL ELSE s[1]
    BY <1>4 DEF Chained
  <2>2. s # <<>> => s[1] \in Node
    OBVIOUS
  <2> QED BY <1>3, <2>1, <2>2, MacListAssumption
<1>6. EntryList' = Listing(s, mac_add') /\ Answer' = 0
  BY <1>3, <1>4, MappedNext
<1>7. EntryList' = <<>>
  BY <1>5, <1>6 DEF Listing
<1> QED BY <1>3, <1>6, <1>7, MapsToLost

\* What mac_list_count returns is the number of entries.
LEMMA CountReturnsMaps == ListInv /\ CountReturns => List!Counted
<1> SUFFICES ASSUME ListInv, CountReturns PROVE List!Counted
  OBVIOUS
<1>1. PICK s \in Seq(Node) : Shape(s)
  BY DEF ListInv
<1>2. ListTypeOK
  BY DEF ListInv
<1>3. /\ pc = "count" /\ q = NULL /\ counted' = cnt
      /\ UNCHANGED <<version, heap, found, asked>>
  BY DEF CountReturns, checked
<1>4. cnt = Len(s)
  <2>1. /\ cnt \in 0 .. Len(s) /\ Len(s) \in Nat
        /\ q = IF cnt = Len(s) THEN NULL ELSE s[cnt + 1]
    BY <1>1, <1>3 DEF Shape, Counting
  <2>2. cnt # Len(s) => cnt + 1 \in 1 .. Len(s)
    BY <2>1
  <2>3. \A k \in 1 .. Len(s) : s[k] # NULL
    BY <1>1, <1>2, OnChain
  <2> QED BY <1>3, <2>1, <2>2, <2>3
<1>5. Len(EntryList) = Len(s)
  BY <1>1, <1>2, Mapped, ListingIs
<1>6. UNCHANGED <<version, EntryList, Answer>>
  BY <1>3, SameEntries, SameAnswer
<1> QED BY <1>3, <1>4, <1>5, <1>6, MapsToCounted

\* Where mac_list_check finds the address is its first entry.
LEMMA CheckFindsMaps ==
    ListInv /\ CheckFinds
        => \E a \in Mac, k \in 1 .. Len(EntryList) : List!Found(a, k)
<1> SUFFICES ASSUME ListInv, CheckFinds
             PROVE  \E a \in Mac, k \in 1 .. Len(EntryList) : List!Found(a, k)
  OBVIOUS
<1>1. PICK s \in Seq(Node) : Shape(s)
  BY DEF ListInv
<1>2. ListTypeOK
  BY DEF ListInv
<1>3. /\ pc = "check" /\ pc' = "idle" /\ c # NULL /\ mac_add[c] = item
      /\ found' = c /\ asked' = item
      /\ UNCHANGED <<version, heap, counted>>
  BY DEF CheckFinds, Return
<1>4. item \in Mac /\ Passed(s, c)
  BY <1>1, <1>3 DEF Shape, Adding, Checking
<1>5. PICK k \in 1 .. Len(s) : c = s[k] /\ Unlisted(s, k - 1)
  BY <1>3, <1>4 DEF Passed
<1>6. Chained(s, list_top, mac_list_next, Last, allocated)'
  BY <1>1, <1>2, <1>3, HeapKeeps
<1>7. Answer' = k
  BY <1>3, <1>5, <1>6, MappedNext
<1>8. /\ Len(s) \in Nat /\ Len(EntryList) = Len(s)
      /\ \A j \in 1 .. Len(s) : EntryList[j] = mac_add[s[j]]
  BY <1>1, <1>2, Mapped, ListingIs
<1>9. ASSUME NEW j \in 1 .. Len(EntryList), EntryList[j] = item
      PROVE  k <= j
  <2>1. j < k => j \in 1 .. k - 1
    BY <1>8
  <2>2. mac_add[s[j]] = item
    BY <1>8, <1>9
  <2>3. ~(j < k)
    BY <1>5, <2>1, <2>2 DEF Unlisted
  <2> QED BY <1>8, <2>3
<1>10. k \in 1 .. Len(EntryList) /\ EntryList[k] = item
  BY <1>3, <1>5, <1>8
<1>11. UNCHANGED <<version, EntryList, counted>>
  BY <1>3, SameEntries
<1> QED BY <1>3, <1>4, <1>7, <1>9, <1>10, <1>11, MapsToFound

\* v5 answers none only of an address that is not listed.
LEMMA CheckFailsMaps ==
    ListInv /\ CheckFails => \E a \in Mac : List!FoundNone(a)
<1> SUFFICES ASSUME ListInv, CheckFails
             PROVE  \E a \in Mac : List!FoundNone(a)
  OBVIOUS
<1>1. PICK s \in Seq(Node) : Shape(s)
  BY DEF ListInv
<1>2. ListTypeOK
  BY DEF ListInv
<1>3. /\ pc = "check" /\ pc' = "idle" /\ c = NULL /\ version = "v5"
      /\ found' = NULL /\ asked' = item
      /\ UNCHANGED <<version, heap, counted>>
  BY DEF CheckFails, Return
<1>4. item \in Mac /\ Unlisted(s, Len(s))
  BY <1>1, <1>3 DEF Shape, Adding, Checking, Passed
<1>5. Chained(s, list_top, mac_list_next, Last, allocated)'
  BY <1>1, <1>2, <1>3, HeapKeeps
<1>6. Answer' = 0
  BY <1>3, <1>5, MappedNext
<1>7. /\ Len(s) \in Nat /\ Len(EntryList) = Len(s)
      /\ \A j \in 1 .. Len(s) : EntryList[j] = mac_add[s[j]]
  BY <1>1, <1>2, Mapped, ListingIs
<1>8. \A j \in 1 .. Len(EntryList) : EntryList[j] # item
  BY <1>4, <1>7 DEF Unlisted
<1>9. UNCHANGED <<version, EntryList, counted>>
  BY <1>3, SameEntries
<1> QED BY <1>3, <1>4, <1>6, <1>7, <1>8, <1>9, MapsToFoundNone

\* mac_list.c's check has entered the address at the end.  It answers it if it
\* is the only entry, else none.
LEMMA CheckReturnsMaps ==
    ListInv /\ CheckReturns
        => \/ \E a \in Mac, k \in 1 .. Len(EntryList) : List!Found(a, k)
           \/ \E a \in Mac : List!FoundNone(a)
<1> SUFFICES ASSUME ListInv, CheckReturns
             PROVE  \/ \E a \in Mac, k \in 1 .. Len(EntryList) :
                          List!Found(a, k)
                    \/ \E a \in Mac : List!FoundNone(a)
  OBVIOUS
<1>1. PICK s \in Seq(Node) : Shape(s)
  BY DEF ListInv
<1>2. ListTypeOK
  BY DEF ListInv
<1>3. /\ pc \in {"top", "end"} /\ pc' = "idle"
      /\ found' = IF pc = "top" THEN list_top ELSE c
      /\ asked' = item
      /\ UNCHANGED <<version, heap, counted>>
  BY DEF CheckReturns, Return
<1>4. /\ item \in Mac /\ c = NULL /\ version = "mac_list.c"
      /\ s # <<>> /\ mac_add[End(s)] = item
      /\ Unlisted(s, Len(s) - 1)
      /\ pc = "top" <=> Len(s) = 1
  BY <1>1, <1>3 DEF Shape, Adding, Checking
<1>5. Chained(s, list_top, mac_list_next, Last, allocated)'
  BY <1>1, <1>2, <1>3, HeapKeeps
<1>6. /\ found' = NULL => Answer' = 0
      /\ \A k \in 1 .. Len(s) : found' = s[k] => Answer' = k
  BY <1>5, MappedNext
<1>7. /\ Len(s) \in Nat /\ Len(EntryList) = Len(s)
      /\ \A j \in 1 .. Len(s) : EntryList[j] = mac_add[s[j]]
  BY <1>1, <1>2, Mapped, ListingIs
<1>8. UNCHANGED <<version, EntryList, counted>>
  BY <1>3, SameEntries
<1>9. /\ Len(s) \in 1 .. Len(s) /\ mac_add[s[Len(s)]] = item
      /\ list_top = s[1]
  BY <1>1, <1>2, <1>4, OnChain DEF End
<1>10. CASE pc = "top"
  <2>1. Len(s) = 1 /\ 1 \in 1 .. Len(EntryList) /\ EntryList[1] = item
    BY <1>4, <1>7, <1>9, <1>10
  <2>2. Answer' = 1
    BY <1>3, <1>6, <1>9, <1>10, <2>1
  <2>3. \A j \in 1 .. Len(EntryList) : EntryList[j] = item => 1 <= j
    BY <1>7
  <2> QED BY <1>3, <1>4, <1>8, <2>1, <2>2, <2>3, MapsToFound
<1>11. CASE pc = "end"
  <2>1. Answer' = 0
    BY <1>3, <1>4, <1>6, <1>11
  <2>2. /\ Len(EntryList) > 1
        /\ EntryList[Len(EntryList)] = item
    BY <1>4, <1>7, <1>9, <1>11
  <2>3. \A j \in 1 .. Len(EntryList) - 1 : EntryList[j] # item
    BY <1>4, <1>7 DEF Unlisted
  <2> QED BY <1>3, <1>4, <1>7, <1>8, <2>1, <2>2, <2>3, MapsToFoundNone
<1> QED BY <1>3, <1>10, <1>11

\* Every step of the list is a step of AddressList, or changes nothing there.
LEMMA ListStepsMap ==
    ListInv /\ [ListNext]_listVars => [List!AlNext]_List!alVars
<1> SUFFICES ASSUME ListInv, [ListNext]_listVars
             PROVE  List!AlNext \/ UNCHANGED List!alVars
  OBVIOUS
<1>1. CASE UNCHANGED <<version, heap, answers>>
  BY <1>1, MovesMap
<1>2. CASE FreeTop
  BY <1>2, FreeTopMaps, Zenon DEF List!AlNext
<1>3. CASE \E n \in Node : Link(n)
  <2>1. \E a \in Mac : List!Enter(a)
    BY <1>3, LinkMaps
  <2> QED BY <2>1, Zenon DEF List!AlNext
<1>4. CASE Allocated
  BY <1>4, AllocatedMaps
<1>5. CASE AddDies
  BY <1>5, AddDiesMaps, Zenon DEF List!AlNext
<1>6. CASE CountReturns
  BY <1>6, CountReturnsMaps, Zenon DEF List!AlNext
<1>7. CASE CheckFinds
  <2>1. \E a \in Mac, k \in 1 .. Len(EntryList) : List!Found(a, k)
    BY <1>7, CheckFindsMaps
  <2> QED BY <2>1, Zenon DEF List!AlNext, EntryList
<1>8. CASE CheckFails
  BY <1>8, CheckFailsMaps, Zenon DEF List!AlNext
<1>9. CASE CheckReturns
  <2>1. \/ \E a \in Mac, k \in 1 .. Len(EntryList) : List!Found(a, k)
        \/ \E a \in Mac : List!FoundNone(a)
    BY <1>9, CheckReturnsMaps
  <2> QED BY <2>1, Zenon DEF List!AlNext, EntryList
<1>10. \/ UNCHANGED <<version, heap, answers>> \/ FreeTop
       \/ \E n \in Node : Link(n)
       \/ Allocated \/ AddDies \/ CountReturns
       \/ CheckFinds \/ CheckFails \/ CheckReturns
  <2>1. CASE UNCHANGED listVars
    BY <2>1 DEF listVars
  <2>2. CASE ListNext
    BY <2>2 DEF ListNext, ListStep, CallInit, CallCount, CallAdd, CallCheck,
       InitDone, AddFinds, AddWalks, AddReachesEnd, PrintWalks, PrintDone,
       CountWalks, CheckWalks, CheckAdds
  <2> QED BY <2>1, <2>2
<1> QED BY <1>1, <1>2, <1>3, <1>4, <1>5, <1>6, <1>7, <1>8, <1>9, <1>10

\* Both lists keep what AddressList promises: addresses are entered at the end,
\* in v5 only once; a check finds the first entry; a count is of all entries.
THEOREM ListImplementation == ListSpec => ImplementsList
BY StartMaps, ListStepsMap, ListInvariance, PTL
DEF ListSpec, ImplementsList, List!AlSpec
=============================================================================
