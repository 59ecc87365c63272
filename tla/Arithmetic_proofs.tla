-------------------------- MODULE Arithmetic_proofs --------------------------
(***************************************************************************)
(* What the proofs about the programs need to know of numbers.  First what *)
(* the unconverted length field does to a frame, for all 65536 values of   *)
(* the field; then induction over the natural numbers, and what it says of *)
(* functions that are defined along them: the offsets of packets in a      *)
(* buffer, sums of lengths, the nodes of a chain of pointers.              *)
(***************************************************************************)
EXTENDS FrameLength, Sequences, WellFoundedInduction, TLAPS

\* A 16-bit word stays one when its bytes are exchanged.
LEMMA SwapWord == \A w \in Word : Swap16(w) \in Word
BY DEF Word, Swap16

\* A write of ip_len bytes hands over the whole frame exactly when the low
\* byte of the total length is greater than the high one.
THEOREM WholeExactly ==
    \A w \in Word : Whole(IpLenCount(w), w) <=> w % 256 > w \div 256
BY DEF Word, Swap16, IpLenCount, Whole, SIZE_ETHERNET

\* The driver takes the write unless the low byte is 0 and the high one is
\* below 14.
THEOREM TakenExactly ==
    \A w \in Word : Taken(IpLenCount(w)) <=> w % 256 > 0 \/ w \div 256 >= 14
BY DEF Word, Swap16, IpLenCount, Taken, SIZE_ETHERNET

\* No write is of exactly the frame: exchanging the bytes changes a word by a
\* multiple of 255, and the Ethernet header has 14 bytes.
THEOREM NeverExact == \A w \in Word : ~Exact(IpLenCount(w), w)
BY DEF Word, Swap16, IpLenCount, Exact, SIZE_ETHERNET

-----------------------------------------------------------------------------
(* Induction.  The library states it for an operator, for which the provers *)
(* have no instance; but it also says that < is well founded on Nat, which  *)
(* is about sets, and from which induction for sets follows.                *)

Less == {ss \in Nat \X Nat : ss[1] < ss[2]}

\* < is well founded on the natural numbers, as a set of pairs.
LEMMA LessWellFounded == IsWellFoundedOn(Less, Nat)
BY NatLessThanWellFounded, Zenon DEF OpToRel, Less

\* A set of natural numbers has a least one.
LEMMA LeastNat ==
    ASSUME NEW T \in SUBSET Nat, T # {}
    PROVE  \E x \in T : \A y \in T : x <= y
<1>1. \E x \in T : \A y \in T : ~ (<<y, x>> \in Less)
  BY LessWellFounded, WFMin
<1>2. \A x, y \in T : ~(<<y, x>> \in Less) => x <= y
  BY DEF Less
<1> QED BY <1>1, <1>2

\* A set of natural numbers that has 0 and all successors has them all.
LEMMA SetInduction ==
    ASSUME NEW T \in SUBSET Nat, 0 \in T, \A n \in T : n + 1 \in T
    PROVE  T = Nat
<1> DEFINE R == Nat \ T
<1> SUFFICES ASSUME R # {} PROVE FALSE
  OBVIOUS
<1>1. PICK x \in R : \A y \in R : x <= y
  <2> HIDE DEF R
  <2>1. R \in SUBSET Nat
    BY DEF R
  <2> QED BY <2>1, LeastNat
<1>2. x - 1 \in T /\ (x - 1) + 1 = x
  BY <1>1
<1> QED BY <1>2

\* f begins with a, and each of its values up to n follows from the one before
\* by the function G has for its place.
Unfolds(f, n, S, a, G) ==
    /\ f \in [0 .. n -> S]
    /\ f[0] = a
    /\ \A k \in 1 .. n : f[k] = G[k][f[k - 1]]

\* There is such a function: what a recursive definition defines exists.
LEMMA Recursion ==
    ASSUME NEW n \in Nat, NEW S, NEW a \in S, NEW G \in [1 .. n -> [S -> S]]
    PROVE  \E f : Unfolds(f, n, S, a, G)
<1> DEFINE Up(m) == \E f \in [0 .. m -> S] :
                       /\ f[0] = a
                       /\ \A k \in 1 .. m : f[k] = G[k][f[k - 1]]
           T == {m \in Nat : m <= n => Up(m)}
<1> HIDE DEF Up
<1>1. 0 \in T
  <2>1. Up(0)
    <3> DEFINE f == [k \in 0 .. 0 |-> a]
    <3>1. /\ f \in [0 .. 0 -> S] /\ f[0] = a
          /\ \A k \in 1 .. 0 : f[k] = G[k][f[k - 1]]
      OBVIOUS
    <3> QED BY <3>1 DEF Up
  <2> QED BY <2>1
<1>2. ASSUME NEW m \in T PROVE m + 1 \in T
  <2> SUFFICES ASSUME m + 1 <= n PROVE Up(m + 1)
    OBVIOUS
  <2>1. PICK f \in [0 .. m -> S] :
           f[0] = a /\ \A k \in 1 .. m : f[k] = G[k][f[k - 1]]
    BY DEF Up
  <2> DEFINE g == [k \in 0 .. m + 1 |->
                      IF k = m + 1 THEN G[m + 1][f[m]] ELSE f[k]]
  <2>2. G[m + 1][f[m]] \in S
    OBVIOUS
  <2>3. g \in [0 .. m + 1 -> S]
    BY <2>2
  <2>4. g[0] = a
    BY <2>1
  <2>5. ASSUME NEW k \in 1 .. m + 1
        PROVE  g[k] = G[k][g[k - 1]]
    <3>1. CASE k = m + 1
      <4>1. g[k] = G[m + 1][f[m]] /\ g[k - 1] = f[m]
        BY <3>1
      <4> QED BY <3>1, <4>1
    <3>2. CASE k \in 1 .. m
      BY <2>1, <3>2
    <3> QED BY <3>1, <3>2
  <2> QED BY <2>3, <2>4, <2>5 DEF Up
<1> HIDE DEF T
<1>3. T = Nat
  <2>1. T \in SUBSET Nat
    BY DEF T
  <2> QED BY <1>1, <1>2, <2>1, SetInduction
<1>4. Up(n)
  BY <1>3 DEF T
<1> QED BY <1>4 DEF Up, Unfolds

-----------------------------------------------------------------------------
(* Sequences *)

\* A function on the first n numbers is a sequence.
LEMMA FunctionIsSeq ==
    ASSUME NEW n \in Nat, NEW S, NEW f \in [1 .. n -> S]
    PROVE  f \in Seq(S) /\ Len(f) = n
OBVIOUS

\* What Append does to a sequence.
LEMMA Appending ==
    ASSUME NEW S, NEW s \in Seq(S), NEW e \in S
    PROVE  /\ Append(s, e) \in Seq(S)
           /\ Len(s) \in Nat
           /\ Len(Append(s, e)) = Len(s) + 1
           /\ \A k \in 1 .. Len(s) : Append(s, e)[k] = s[k]
           /\ Append(s, e)[Len(s) + 1] = e
           /\ \A k \in 1 .. Len(Append(s, e)) :
                 k \in 1 .. Len(s) \/ k = Len(s) + 1
OBVIOUS

\* What is left of a queue when its head is taken.
LEMMA Dequeuing ==
    ASSUME NEW S, NEW s \in Seq(S), s # <<>>
    PROVE  /\ Tail(s) \in Seq(S)
           /\ Len(s) \in Nat \ {0}
           /\ Len(Tail(s)) = Len(s) - 1
           /\ \A k \in 1 .. Len(s) - 1 : Tail(s)[k] = s[k + 1]
           /\ Head(s) = s[1] /\ s[1] \in S
OBVIOUS

\* A sequence is a function on its places.
LEMMA SeqIsFunction ==
    ASSUME NEW S, NEW s \in Seq(S)
    PROVE  s = [k \in 1 .. Len(s) |-> s[k]]
OBVIOUS

\* Tail and Append, as functions.
LEMMA TailIs ==
    ASSUME NEW S, NEW s \in Seq(S), s # <<>>
    PROVE  Tail(s) = [k \in 1 .. Len(s) - 1 |-> s[k + 1]]
<1> DEFINE t == Tail(s)
<1>1. /\ t \in Seq(S) /\ Len(t) = Len(s) - 1
      /\ \A k \in 1 .. Len(s) - 1 : t[k] = s[k + 1]
  BY Dequeuing
<1> HIDE DEF t
<1>2. t = [k \in 1 .. Len(t) |-> t[k]]
  BY <1>1, SeqIsFunction
<1> QED BY <1>1, <1>2 DEF t

LEMMA AppendIs ==
    ASSUME NEW S, NEW s \in Seq(S), NEW e \in S
    PROVE  Append(s, e) = [k \in 1 .. Len(s) + 1 |->
                              IF k = Len(s) + 1 THEN e ELSE s[k]]
<1> DEFINE t == Append(s, e)
<1>1. /\ t \in Seq(S) /\ Len(t) = Len(s) + 1 /\ Len(s) \in Nat
      /\ \A k \in 1 .. Len(s) : t[k] = s[k]
      /\ t[Len(s) + 1] = e
      /\ \A k \in 1 .. Len(t) : k \in 1 .. Len(s) \/ k = Len(s) + 1
  BY Appending
<1> HIDE DEF t
<1>2. t = [k \in 1 .. Len(t) |-> t[k]]
  BY <1>1, SeqIsFunction
<1>3. t = [k \in 1 .. Len(s) + 1 |-> IF k = Len(s) + 1 THEN e ELSE s[k]]
  BY <1>1, <1>2
<1> QED BY <1>3 DEF t
=============================================================================
