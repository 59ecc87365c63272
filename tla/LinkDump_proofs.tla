--------------------------- MODULE LinkDump_proofs ---------------------------
(***************************************************************************)
(* Proofs about LinkDump, for any interfaces and any sizes of the buffer,  *)
(* the kernel's datagrams and their headers.                               *)
(***************************************************************************)
EXTENDS LinkDump, Arithmetic_proofs

(* The invariant, for interfaces given as a sequence and not as a state.    *)

MsgLen(ls, i) == IF i = 0 THEN DoneLen
                           ELSE HdrLen + Total(Lens(ls[i]))

Lengths(ls, d) == [k \in DOMAIN d |-> MsgLen(ls, d[k])]

Size(ls, d) == Total(Lengths(ls, d))

\* The length of the messages of datagram d from the k-th on, and that of the
\* attributes of interface i from the j-th on.
Rest(ls, d, k) == Total(SubSeq(Lengths(ls, d), k, Len(d)))
AttrRest(ls, i, j) == Total(SubSeq(Lens(ls[i]), j, Len(Lens(ls[i]))))

Reply(ls) == [k \in 1 .. Len(ls) + 1 |-> IF k > Len(ls) THEN 0 ELSE k]

\* The first datagram of the answer: as many messages as fit.
First(ls, d) ==
    /\ d \in Seq(0 .. Len(ls))
    /\ Len(d) \in 1 .. Len(ls) + 1
    /\ d = SubSeq(Reply(ls), 1, Len(d))
    /\ \A k \in 1 .. Len(d) : d[k] = IF k > Len(ls) THEN 0 ELSE k
    /\ Len(d) > 1 => Size(ls, d) <= Good
    /\ Len(d) < Len(ls) => Size(ls, SubSeq(Reply(ls), 1, Len(d) + 1)) > Good

\* What there is to print: attributes of interfaces that are looked into.
LookedInto(ls, i) == i # 0 /\ ls[i].family \in {"AF_UNSPEC", "AF_INET6"}

Entries(ls) ==
    {e \in (1 .. Len(ls)) \X (1 .. MaxAttrs) :
        /\ LookedInto(ls, e[1])
        /\ e[2] <= Len(ls[e[1]].attrs)
        /\ Prints(ls[e[1]].attrs[e[2]])}

\* p is what there is to print before the j-th attribute of interface i.
Shows(ls, p, i, j) ==
    /\ {p[k] : k \in DOMAIN p} = {e \in Entries(ls) : Earlier(e, <<i, j>>)}
    /\ \A k \in DOMAIN p : \A m \in 1 .. k - 1 : Earlier(p[m], p[k])

Received == pc \in {"message", "attribute", "printed"}

\* Before recv nothing is parsed; the datagram received is the kernel's first.
DatagramShape ==
    /\ Len(links) >= 1
    /\ ~Received => dgram = <<>> /\ nlhdr = 1 /\ printed = <<>>
    /\ Received => First(links, dgram)

\* nlhdr and rta are inside the datagram and the message.
PlaceShape ==
    /\ Received => nlhdr \in 1 .. Len(dgram) + 1
    /\ pc = "attribute" =>
          /\ nlhdr \in 1 .. Len(dgram) /\ nlhdr \in 1 .. Len(links)
          /\ rta \in 1 .. Len(links[nlhdr].attrs) + 1
          /\ LookedInto(links, nlhdr)
          /\ rtalist_len = AttrRest(links, nlhdr, rta)
    /\ pc = "printed" /\ Size(links, dgram) <= BufLen =>
          nlhdr = Len(dgram) + 1

\* The bytes left of buf: those of the messages that have not been passed.  A
\* datagram that is cut off is a single message that does not fit, of which
\* nothing is looked at.
BytesShape ==
    Received =>
        IF Size(links, dgram) <= BufLen
        THEN n = Rest(links, dgram, nlhdr)
        ELSE nlhdr = 1 /\ n = BufLen /\ pc # "attribute"

\* What has been printed of the interfaces passed.
PrintedShape ==
    Received =>
        IF Size(links, dgram) > BufLen THEN printed = <<>>
        ELSE Shows(links, printed, nlhdr, IF pc = "attribute" THEN rta ELSE 1)

DumpInv ==
    /\ LinkDumpTypeOK
    /\ DatagramShape
    /\ PlaceShape
    /\ BytesShape
    /\ PrintedShape

-----------------------------------------------------------------------------
(* Sums.  NLMSG_OK and RTA_OK go by the bytes that are left, which are sums *)
(* of the lengths of what has not been passed yet.                          *)

\* f[k] is the sum of the first k lengths.
Sums(f, s) ==
    /\ f \in [0 .. Len(s) -> Nat]
    /\ f[0] = 0
    /\ \A k \in 1 .. Len(s) : f[k] = f[k - 1] + s[k]

\* Every sequence of lengths has its sums.
LEMMA SumsExist ==
    ASSUME NEW s \in Seq(Nat)
    PROVE  \E f : Sums(f, s)
<1> DEFINE G == [k \in 1 .. Len(s) |-> [v \in Nat |-> v + s[k]]]
<1>1. Len(s) \in Nat /\ \A k \in 1 .. Len(s) : s[k] \in Nat
  OBVIOUS
<1>2. 0 \in Nat /\ G \in [1 .. Len(s) -> [Nat -> Nat]]
  BY <1>1
<1>3. \E f : Unfolds(f, Len(s), Nat, 0, G)
  <2> HIDE DEF G
  <2> QED BY <1>1, <1>2, Recursion, Zenon
<1>4. PICK f : Unfolds(f, Len(s), Nat, 0, G)
  BY <1>3
<1>5. /\ f \in [0 .. Len(s) -> Nat] /\ f[0] = 0
      /\ \A k \in 1 .. Len(s) : f[k] = G[k][f[k - 1]]
  BY <1>4 DEF Unfolds
<1>6. ASSUME NEW k \in 1 .. Len(s) PROVE f[k] = f[k - 1] + s[k]
  <2>1. k - 1 \in 0 .. Len(s)
    BY <1>1
  <2>2. f[k - 1] \in Nat
    BY <1>5, <2>1
  <2> QED BY <1>5, <2>2
<1> QED BY <1>5, <1>6 DEF Sums

\* Total is the last of the sums.
LEMMA TotalIs ==
    ASSUME NEW s \in Seq(Nat), NEW f, Sums(f, s)
    PROVE  Total(s) = f[Len(s)]
<1>1. /\ Len(s) \in Nat /\ f \in [0 .. Len(s) -> Nat] /\ f[0] = 0
      /\ \A k \in 1 .. Len(s) : f[k] = f[k - 1] + s[k]
  BY DEF Sums
<1>2. f = [k \in 0 .. Len(s) |-> IF k = 0 THEN 0 ELSE f[k - 1] + s[k]]
  BY <1>1
<1>3. \E to : to = [k \in 0 .. Len(s) |->
                      IF k = 0 THEN 0 ELSE to[k - 1] + s[k]]
  BY <1>2
<1>4. PICK to : /\ to = [k \in 0 .. Len(s) |->
                           IF k = 0 THEN 0 ELSE to[k - 1] + s[k]]
                /\ Total(s) = to[Len(s)]
  <2> DEFINE h == CHOOSE h : h = [k \in 0 .. Len(s) |->
                                    IF k = 0 THEN 0 ELSE h[k - 1] + s[k]]
  <2>1. h = [k \in 0 .. Len(s) |-> IF k = 0 THEN 0 ELSE h[k - 1] + s[k]]
    BY <1>3, Zenon
  <2>2. Total(s) = h[Len(s)]
    BY Zenon DEF Total
  <2> HIDE DEF h
  <2> QED BY <2>1, <2>2, Zenon
<1> DEFINE T == {k \in Nat : k <= Len(s) => to[k] = f[k]}
<1>5. 0 \in T
  <2>1. 0 \in 0 .. Len(s)
    BY <1>1
  <2> QED BY <1>1, <1>4, <2>1
<1>6. ASSUME NEW k \in T PROVE k + 1 \in T
  <2> SUFFICES ASSUME k + 1 <= Len(s) PROVE to[k + 1] = f[k + 1]
    OBVIOUS
  <2>1. /\ k + 1 \in 0 .. Len(s) /\ k + 1 \in 1 .. Len(s)
        /\ k + 1 # 0 /\ (k + 1) - 1 = k /\ to[k] = f[k]
    BY <1>1
  <2>2. to[k + 1] = to[k] + s[k + 1]
    BY <1>4, <2>1
  <2> QED BY <1>1, <2>1, <2>2
<1> HIDE DEF T
<1>7. T = Nat
  <2>1. T \in SUBSET Nat
    BY DEF T
  <2> QED BY <1>5, <1>6, <2>1, SetInduction
<1>8. Len(s) \in T
  BY <1>1, <1>7
<1>9. to[Len(s)] = f[Len(s)]
  BY <1>1, <1>8 DEF T
<1> QED BY <1>4, <1>9

\* The sum of a part of a sequence is a difference of sums.
LEMMA PartTotal ==
    ASSUME NEW s \in Seq(Nat), NEW f, Sums(f, s),
           NEW a \in 1 .. Len(s) + 1, NEW b \in 0 .. Len(s), a <= b + 1
    PROVE  Total(SubSeq(s, a, b)) = f[b] - f[a - 1]
<1> DEFINE t == SubSeq(s, a, b)
<1>1. /\ Len(s) \in Nat /\ f \in [0 .. Len(s) -> Nat] /\ f[0] = 0
      /\ \A k \in 1 .. Len(s) : f[k] = f[k - 1] + s[k]
  BY DEF Sums
<1>2. a \in Nat /\ a >= 1 /\ b \in Nat /\ b <= Len(s) /\ b + 1 - a \in Nat
  BY <1>1
<1>0. \A k \in 1 .. Len(s) : s[k] \in Nat
  OBVIOUS
<1>3. /\ t \in Seq(Nat) /\ Len(t) = b + 1 - a
      /\ \A k \in 1 .. Len(t) : t[k] = s[a + k - 1]
  BY <1>1, <1>2
<1> HIDE DEF t
<1>4. PICK g : Sums(g, t)
  BY <1>3, SumsExist
<1>5. Total(t) = g[Len(t)]
  BY <1>3, <1>4, TotalIs
<1>6. /\ g \in [0 .. Len(t) -> Nat] /\ g[0] = 0
      /\ \A k \in 1 .. Len(t) : g[k] = g[k - 1] + t[k]
  BY <1>4 DEF Sums
<1> DEFINE T == {k \in Nat : k <= Len(t) => g[k] = f[a - 1 + k] - f[a - 1]}
<1>7. 0 \in T
  <2>1. a - 1 \in 0 .. Len(s) /\ a - 1 + 0 = a - 1
    BY <1>1, <1>2
  <2>2. f[a - 1] \in Nat
    BY <1>1, <2>1
  <2> QED BY <1>6, <2>1, <2>2
<1>8. ASSUME NEW k \in T PROVE k + 1 \in T
  <2> SUFFICES ASSUME k + 1 <= Len(t)
               PROVE  g[k + 1] = f[a - 1 + (k + 1)] - f[a - 1]
    OBVIOUS
  <2>1. /\ k \in Nat /\ k + 1 \in 1 .. Len(t) /\ (k + 1) - 1 = k
        /\ g[k] = f[a - 1 + k] - f[a - 1]
    BY <1>2, <1>3
  <2> DEFINE m == a + k
  <2> DEFINE l == Len(s)
             r == Len(t)
  <2>0. l \in Nat /\ b <= l /\ r = b + 1 - a /\ k + 1 <= r
    BY <1>1, <1>2, <1>3
  <2> HIDE DEF l, r
  <2>2. /\ m \in 1 .. l /\ m - 1 = a - 1 + k
        /\ m = a - 1 + (k + 1) /\ m = a + (k + 1) - 1
        /\ a - 1 \in 0 .. l /\ m - 1 \in 0 .. l
    BY <1>2, <2>0, <2>1
  <2> USE DEF l, r
  <2> HIDE DEF m
  <2>9. t[k + 1] = s[a + (k + 1) - 1]
    BY <1>3, <2>1
  <2>3. t[k + 1] = s[m] /\ f[m] = f[m - 1] + s[m] /\ s[m] \in Nat
    BY <1>0, <1>1, <2>2, <2>9
  <2>4. g[k + 1] = g[k] + t[k + 1]
    BY <1>6, <2>1
  <2>5. f[m - 1] \in Nat /\ f[a - 1] \in Nat
    BY <1>1, <2>2
  <2>6. g[k] = f[m - 1] - f[a - 1]
    BY <2>1, <2>2
  <2>7. g[k + 1] = f[m] - f[a - 1]
    <3>1. g[k + 1] = f[m - 1] - f[a - 1] + s[m] /\ f[m] = f[m - 1] + s[m]
      BY <2>3, <2>4, <2>6, Zenon
    <3> DEFINE x == s[m]
               y == f[m - 1]
               z == f[a - 1]
    <3>2. /\ x \in Nat /\ y \in Nat /\ z \in Nat
          /\ g[k + 1] = y - z + x /\ f[m] = y + x
      BY <2>3, <2>5, <3>1, Zenon
    <3> HIDE DEF x, y, z
    <3>3. y - z + x = (y + x) - z
      BY <3>2
    <3> QED BY <3>2, <3>3, Zenon DEF z
  <2> QED BY <2>2, <2>7
<1> HIDE DEF T
<1>9. T = Nat
  <2>1. T \in SUBSET Nat
    BY DEF T
  <2> QED BY <1>7, <1>8, <2>1, SetInduction
<1>10. g[Len(t)] = f[a - 1 + Len(t)] - f[a - 1]
  <2>1. Len(t) \in T /\ Len(t) <= Len(t)
    BY <1>2, <1>3, <1>9
  <2> QED BY <2>1, Zenon DEF T
<1>11. a - 1 + Len(t) = b
  BY <1>2, <1>3
<1> QED BY <1>5, <1>10, <1>11 DEF t

\* Sums rise.
LEMMA SumsRise ==
    ASSUME NEW s \in Seq(Nat), NEW f, Sums(f, s),
           NEW a \in 0 .. Len(s), NEW b \in 0 .. Len(s), a <= b
    PROVE  f[a] <= f[b]
<1>1. /\ Len(s) \in Nat /\ f \in [0 .. Len(s) -> Nat]
      /\ \A k \in 1 .. Len(s) : f[k] = f[k - 1] + s[k]
  BY DEF Sums
<1> DEFINE T == {k \in Nat : a + k <= Len(s) => f[a] <= f[a + k]}
<1>2. a \in Nat /\ f[a] \in Nat /\ a + 0 = a
  BY <1>1
<1>3. 0 \in T
  <2>1. f[a] <= f[a + 0]
    BY <1>2
  <2> QED BY <2>1
<1>4. ASSUME NEW k \in T PROVE k + 1 \in T
  <2> SUFFICES ASSUME a + (k + 1) <= Len(s) PROVE f[a] <= f[a + (k + 1)]
    OBVIOUS
  <2> DEFINE m == a + (k + 1)
  <2>1. /\ k \in Nat /\ m \in 1 .. Len(s) /\ m - 1 \in 0 .. Len(s)
        /\ m - 1 = a + k /\ a + k <= Len(s)
    BY <1>1, <1>2
  <2>2. f[a] <= f[m - 1]
    BY <2>1
  <2> HIDE DEF m
  <2>3. f[m] = f[m - 1] + s[m] /\ s[m] \in Nat /\ f[m - 1] \in Nat
    <3>1. s[m] \in Nat
      BY <2>1
    <3> QED BY <1>1, <2>1, <3>1
  <2>4. f[a] <= f[m]
    BY <1>2, <2>2, <2>3
  <2> QED BY <2>4 DEF m
<1> HIDE DEF T
<1>5. T = Nat
  <2>1. T \in SUBSET Nat
    BY DEF T
  <2> QED BY <1>3, <1>4, <2>1, SetInduction
<1>6. b - a \in Nat /\ a + (b - a) = b /\ b <= Len(s)
  BY <1>1
<1> QED BY <1>5, <1>6 DEF T

\* What is left when the first of the rest is passed; the rest from the
\* beginning is everything.
LEMMA RestTotal ==
    ASSUME NEW s \in Seq(Nat)
    PROVE  /\ Total(s) \in Nat
           /\ Total(SubSeq(s, 1, Len(s))) = Total(s)
           /\ Total(SubSeq(s, Len(s) + 1, Len(s))) = 0
           /\ \A k \in 1 .. Len(s) :
                 /\ s[k] \in Nat
                 /\ Total(SubSeq(s, k + 1, Len(s))) \in Nat
                 /\ Total(SubSeq(s, k, Len(s)))
                        = s[k] + Total(SubSeq(s, k + 1, Len(s)))
<1>1. PICK f : Sums(f, s)
  BY SumsExist
<1>2. /\ Len(s) \in Nat /\ f \in [0 .. Len(s) -> Nat] /\ f[0] = 0
      /\ \A k \in 1 .. Len(s) : f[k] = f[k - 1] + s[k]
  BY <1>1 DEF Sums
<1>3. Total(s) = f[Len(s)] /\ f[Len(s)] \in Nat
  BY <1>1, <1>2, TotalIs
<1>4. Total(SubSeq(s, 1, Len(s))) = Total(s)
  <2>1. 1 \in 1 .. Len(s) + 1 /\ Len(s) \in 0 .. Len(s) /\ 1 <= Len(s) + 1
    BY <1>2
  <2>2. Total(SubSeq(s, 1, Len(s))) = f[Len(s)] - f[1 - 1]
    BY <1>1, <2>1, PartTotal
  <2> QED BY <1>2, <1>3, <2>2
<1>6. Total(SubSeq(s, Len(s) + 1, Len(s))) = 0
  <2>1. /\ Len(s) + 1 \in 1 .. Len(s) + 1 /\ Len(s) \in 0 .. Len(s)
        /\ (Len(s) + 1) - 1 = Len(s) /\ Len(s) + 1 <= Len(s) + 1
    BY <1>2
  <2>2. Total(SubSeq(s, Len(s) + 1, Len(s))) = f[Len(s)] - f[Len(s)]
    BY <1>1, <2>1, PartTotal
  <2> QED BY <1>3, <2>2
<1>5. ASSUME NEW k \in 1 .. Len(s)
      PROVE  /\ s[k] \in Nat
             /\ Total(SubSeq(s, k + 1, Len(s))) \in Nat
             /\ Total(SubSeq(s, k, Len(s)))
                    = s[k] + Total(SubSeq(s, k + 1, Len(s)))
  <2>1. /\ k \in 1 .. Len(s) + 1 /\ k + 1 \in 1 .. Len(s) + 1
        /\ Len(s) \in 0 .. Len(s) /\ k <= Len(s) + 1 /\ k + 1 <= Len(s) + 1
        /\ (k + 1) - 1 = k
    BY <1>2
  <2>2. Total(SubSeq(s, k, Len(s))) = f[Len(s)] - f[k - 1]
    BY <1>1, <2>1, PartTotal
  <2>3. Total(SubSeq(s, k + 1, Len(s))) = f[Len(s)] - f[k]
    BY <1>1, <2>1, PartTotal
  <2>4. k \in 0 .. Len(s) /\ k - 1 \in 0 .. Len(s) /\ k <= Len(s)
    BY <1>2
  <2>5. f[k] \in Nat /\ f[k - 1] \in Nat /\ f[k] = f[k - 1] + s[k]
    BY <1>2, <2>4
  <2>6. f[k] <= f[Len(s)]
    BY <1>1, <2>1, <2>4, SumsRise
  <2>7. s[k] \in Nat
    OBVIOUS
  <2> DEFINE rest(i) == Total(SubSeq(s, i, Len(s)))
  <2>8. rest(k) = f[Len(s)] - f[k - 1] /\ rest(k + 1) = f[Len(s)] - f[k]
    BY <2>2, <2>3
  <2> HIDE DEF rest
  <2> DEFINE x == f[k - 1]
             y == f[Len(s)]
             z == s[k]
  <2>9. /\ x \in Nat /\ y \in Nat /\ z \in Nat /\ x + z <= y
        /\ rest(k) = y - x /\ rest(k + 1) = y - (x + z)
    BY <1>3, <2>5, <2>6, <2>7, <2>8, Zenon
  <2> HIDE DEF x, y, z
  <2>10. rest(k + 1) \in Nat /\ rest(k) = z + rest(k + 1)
    BY <2>9
  <2> QED BY <2>7, <2>10, Zenon DEF rest, z
<1> QED BY <1>3, <1>4, <1>5, <1>6

\* A longer beginning is not smaller.
LEMMA BeginningTotal ==
    ASSUME NEW s \in Seq(Nat), NEW a \in 0 .. Len(s), NEW b \in 0 .. Len(s),
           a <= b
    PROVE  Total(SubSeq(s, 1, a)) <= Total(SubSeq(s, 1, b))
<1>1. PICK f : Sums(f, s)
  BY SumsExist
<1>2. Len(s) \in Nat /\ f \in [0 .. Len(s) -> Nat] /\ f[0] = 0
  BY <1>1 DEF Sums
<1>3. 1 \in 1 .. Len(s) + 1 /\ 1 <= a + 1 /\ 1 <= b + 1 /\ 1 - 1 = 0
  BY <1>2
<1>4. /\ Total(SubSeq(s, 1, a)) = f[a] - f[1 - 1]
      /\ Total(SubSeq(s, 1, b)) = f[b] - f[1 - 1]
  BY <1>1, <1>3, PartTotal
<1>5. f[a] \in Nat /\ f[b] \in Nat /\ f[a] <= f[b]
  BY <1>1, <1>2, SumsRise
<1> QED BY <1>2, <1>3, <1>4, <1>5

-----------------------------------------------------------------------------
(* The messages and the attributes of a datagram.                           *)

\* An interface has at most MaxAttrs attributes, and their lengths are numbers.
LEMMA LinkType ==
    ASSUME NEW l \in Links
    PROVE  /\ l.attrs \in Seq(Attrs)
           /\ Len(l.attrs) \in Nat /\ Len(l.attrs) <= MaxAttrs
           /\ Lens(l) \in Seq(Nat)
           /\ Len(Lens(l)) = Len(l.attrs)
           /\ \A j \in 1 .. Len(l.attrs) : Lens(l)[j] = RtaLen(l.attrs[j])
<1>1. PICK m \in 0 .. MaxAttrs : l.attrs \in [1 .. m -> Attrs]
  BY DEF Links
<1>2. m \in Nat /\ m <= MaxAttrs
  BY LinkDumpAssumption
<1>3. l.attrs \in Seq(Attrs) /\ Len(l.attrs) = m /\ DOMAIN l.attrs = 1 .. m
  BY <1>1, <1>2
<1>4. ASSUME NEW a \in Attrs PROVE RtaLen(a) \in Nat
  <2>1. a.payload \in Nat
    BY LinkDumpAssumption
  <2> QED BY <2>1 DEF RtaLen
<1>5. Lens(l) \in [1 .. m -> Nat]
  BY <1>1, <1>3, <1>4 DEF Lens
<1>6. \A j \in 1 .. m : Lens(l)[j] = RtaLen(l.attrs[j])
  BY <1>3, Zenon DEF Lens
<1> QED BY <1>2, <1>3, <1>5, <1>6

\* Lengths of messages are numbers, and those of a part of a datagram are a
\* part of those of the datagram.
LEMMA LengthsType ==
    ASSUME NEW ls \in Seq(Links), NEW d \in Seq(0 .. Len(ls))
    PROVE  /\ Lengths(ls, d) \in Seq(Nat)
           /\ Len(Lengths(ls, d)) = Len(d)
           /\ \A k \in 1 .. Len(d) :
                 /\ Lengths(ls, d)[k] = MsgLen(ls, d[k])
                 /\ MsgLen(ls, d[k]) \in Nat
           /\ \A a \in 1 .. Len(d) + 1, b \in 0 .. Len(d) :
                 Lengths(ls, SubSeq(d, a, b)) = SubSeq(Lengths(ls, d), a, b)
<1>1. Len(d) \in Nat /\ DOMAIN d = 1 .. Len(d) /\ Len(ls) \in Nat
  OBVIOUS
<1>2. ASSUME NEW i \in 0 .. Len(ls) PROVE MsgLen(ls, i) \in Nat
  <2>1. CASE i = 0
    BY <2>1, LinkDumpAssumption DEF MsgLen
  <2>2. CASE i # 0
    <3>1. i \in 1 .. Len(ls)
      BY <1>1, <2>2
    <3>2. ls[i] \in Links
      BY <3>1
    <3>3. Total(Lens(ls[i])) \in Nat
      BY <3>2, LinkType, RestTotal
    <3> QED BY <2>2, <3>3, LinkDumpAssumption DEF MsgLen
  <2> QED BY <2>1, <2>2
<1>3. \A k \in 1 .. Len(d) : MsgLen(ls, d[k]) \in Nat
  BY <1>2
<1>4. Lengths(ls, d) \in [1 .. Len(d) -> Nat]
  BY <1>1, <1>3, Zenon DEF Lengths
<1>5. \A k \in 1 .. Len(d) : Lengths(ls, d)[k] = MsgLen(ls, d[k])
  BY <1>1, Zenon DEF Lengths
<1>6. Lengths(ls, d) \in Seq(Nat) /\ Len(Lengths(ls, d)) = Len(d)
  BY <1>1, <1>4
<1>7. ASSUME NEW a \in 1 .. Len(d) + 1, NEW b \in 0 .. Len(d)
      PROVE  Lengths(ls, SubSeq(d, a, b)) = SubSeq(Lengths(ls, d), a, b)
  <2> DEFINE m == IF a <= b THEN b + 1 - a ELSE 0
             e == SubSeq(d, a, b)
             u == Lengths(ls, d)
             v == SubSeq(u, a, b)
  <2>1. /\ m \in Nat /\ a \in Nat /\ b \in Nat
        /\ \A k \in 1 .. m : a + k - 1 \in 1 .. Len(d)
    BY <1>1
  <2>2. /\ e \in Seq(0 .. Len(ls)) /\ Len(e) = m
        /\ DOMAIN e = 1 .. m
        /\ \A k \in 1 .. m : e[k] = d[a + k - 1]
    BY <1>1, <2>1
  <2>3. u \in Seq(Nat) /\ Len(u) = Len(d)
    BY <1>6
  <2>4. \A k \in 1 .. Len(d) : u[k] = MsgLen(ls, d[k])
    BY <1>5
  <2> HIDE DEF u
  <2>5. /\ v \in Seq(Nat) /\ Len(v) = m /\ DOMAIN v = 1 .. m
        /\ \A k \in 1 .. m : v[k] = u[a + k - 1]
    <3>1. b <= Len(u) /\ a <= Len(u) + 1
      BY <1>1, <2>3
    <3>2. v \in Seq(Nat) /\ Len(v) = m
      BY <2>1, <2>3, <3>1
    <3>3. \A k \in 1 .. m : v[k] = u[a + k - 1]
      BY <2>1, <2>3, <3>1
    <3> HIDE DEF v, m
    <3> QED BY <3>2, <3>3
  <2> HIDE DEF e, v, m
  <2>6. v = [k \in 1 .. m |-> v[k]]
    BY <2>1, <2>5
  <2>7. \A k \in 1 .. m : v[k] = MsgLen(ls, e[k])
    BY <2>1, <2>2, <2>4, <2>5, Zenon
  <2>8. Lengths(ls, e) = [k \in 1 .. m |-> MsgLen(ls, e[k])]
    BY <2>2, Zenon DEF Lengths
  <2>9. Lengths(ls, e) = v
    BY <2>6, <2>7, <2>8, Zenon
  <2> QED BY <2>9 DEF e, v, u
<1> QED BY <1>3, <1>5, <1>6, <1>7

\* What is left of a datagram when a message of it is passed.
LEMMA RestOf ==
    ASSUME NEW ls \in Seq(Links), NEW d \in Seq(0 .. Len(ls))
    PROVE  /\ Size(ls, d) \in Nat
           /\ Rest(ls, d, 1) = Size(ls, d)
           /\ Rest(ls, d, Len(d) + 1) = 0
           /\ \A k \in 1 .. Len(d) :
                 /\ MsgLen(ls, d[k]) \in Nat
                 /\ Rest(ls, d, k + 1) \in Nat
                 /\ Rest(ls, d, k) = MsgLen(ls, d[k]) + Rest(ls, d, k + 1)
<1> DEFINE s == Lengths(ls, d)
<1>1. /\ s \in Seq(Nat) /\ Len(s) = Len(d)
      /\ \A k \in 1 .. Len(d) : s[k] = MsgLen(ls, d[k])
  BY LengthsType
<1> HIDE DEF s
<1>2. /\ Total(s) \in Nat
      /\ Total(SubSeq(s, 1, Len(s))) = Total(s)
      /\ Total(SubSeq(s, Len(s) + 1, Len(s))) = 0
      /\ \A k \in 1 .. Len(s) :
            /\ s[k] \in Nat
            /\ Total(SubSeq(s, k + 1, Len(s))) \in Nat
            /\ Total(SubSeq(s, k, Len(s)))
                   = s[k] + Total(SubSeq(s, k + 1, Len(s)))
  BY <1>1, RestTotal
<1>3. Size(ls, d) = Total(s)
  BY Zenon DEF Size, s
<1>4. \A k : Rest(ls, d, k) = Total(SubSeq(s, k, Len(s)))
  BY <1>1, Zenon DEF Rest, s
<1> QED BY <1>1, <1>2, <1>3, <1>4, Zenon

\* What is left of a message when an attribute of it is passed.
LEMMA AttrRestOf ==
    ASSUME NEW ls \in Seq(Links), NEW i \in 1 .. Len(ls)
    PROVE  /\ Len(ls[i].attrs) \in Nat
           /\ Len(ls[i].attrs) <= MaxAttrs
           /\ MsgLen(ls, i) = HdrLen + AttrRest(ls, i, 1)
           /\ AttrRest(ls, i, 1) \in Nat
           /\ \A j \in 1 .. Len(ls[i].attrs) :
                 /\ RtaLen(ls[i].attrs[j]) \in Nat
                 /\ AttrRest(ls, i, j + 1) \in Nat
                 /\ AttrRest(ls, i, j)
                      = RtaLen(ls[i].attrs[j]) + AttrRest(ls, i, j + 1)
<1> DEFINE s == Lens(ls[i])
<1>1. ls[i] \in Links /\ i # 0
  OBVIOUS
<1>2. /\ Len(ls[i].attrs) \in Nat /\ Len(ls[i].attrs) <= MaxAttrs
      /\ s \in Seq(Nat) /\ Len(s) = Len(ls[i].attrs)
      /\ \A j \in 1 .. Len(ls[i].attrs) : s[j] = RtaLen(ls[i].attrs[j])
  BY <1>1, LinkType, Zenon
<1> HIDE DEF s
<1>3. /\ Total(s) \in Nat
      /\ Total(SubSeq(s, 1, Len(s))) = Total(s)
      /\ \A j \in 1 .. Len(s) :
            /\ s[j] \in Nat
            /\ Total(SubSeq(s, j + 1, Len(s))) \in Nat
            /\ Total(SubSeq(s, j, Len(s)))
                   = s[j] + Total(SubSeq(s, j + 1, Len(s)))
  BY <1>2, RestTotal
<1>4. MsgLen(ls, i) = HdrLen + AttrRest(ls, i, 1)
  BY <1>1, <1>3, Zenon DEF MsgLen, AttrRest, s
<1>5. \A j : AttrRest(ls, i, j) = Total(SubSeq(s, j, Len(s)))
  BY Zenon DEF AttrRest, s
<1> QED BY <1>2, <1>3, <1>4, <1>5, Zenon

-----------------------------------------------------------------------------
(* The attributes printed.                                                  *)

\* What there is to print is a pair of numbers.
LEMMA EntryIs ==
    ASSUME NEW ls \in Seq(Links), NEW e \in Entries(ls)
    PROVE  /\ e[1] \in 1 .. Len(ls) /\ e[2] \in 1 .. MaxAttrs
           /\ e[1] \in Nat /\ e[2] \in Nat /\ e[2] >= 1
           /\ e = <<e[1], e[2]>>
           /\ LookedInto(ls, e[1])
           /\ e[2] <= Len(ls[e[1]].attrs)
           /\ Prints(ls[e[1]].attrs[e[2]])
<1>1. Len(ls) \in Nat /\ MaxAttrs \in Nat
  BY LinkDumpAssumption
<1> QED BY <1>1 DEF Entries

\* Passing on from the j-th attribute of interface i to another place changes
\* nothing of what is printed if there is nothing to print in between.
LEMMA PassNothing ==
    ASSUME NEW ls, NEW p, NEW i, NEW j, NEW i2, NEW j2, Shows(ls, p, i, j),
           \A e \in Entries(ls) :
              Earlier(e, <<i, j>>) <=> Earlier(e, <<i2, j2>>)
    PROVE  Shows(ls, p, i2, j2)
<1>1. {e \in Entries(ls) : Earlier(e, <<i, j>>)}
        = {e \in Entries(ls) : Earlier(e, <<i2, j2>>)}
  OBVIOUS
<1> QED BY <1>1, Zenon DEF Shows

\* Passing an interface of which nothing is left to print.
LEMMA PassInterface ==
    ASSUME NEW ls \in Seq(Links), NEW p, NEW i \in Nat, NEW j \in Nat \ {0},
           Shows(ls, p, i, j),
           \A e \in Entries(ls) : e[1] = i => e[2] < j
    PROVE  Shows(ls, p, i + 1, 1)
<1>1. ASSUME NEW e \in Entries(ls)
      PROVE  Earlier(e, <<i, j>>) <=> Earlier(e, <<i + 1, 1>>)
  <2>1. e[1] \in Nat /\ e[2] \in Nat /\ e[2] >= 1 /\ (e[1] = i => e[2] < j)
    BY EntryIs
  <2> QED BY <2>1 DEF Earlier
<1> QED BY <1>1, PassNothing, Zenon

\* Passing an attribute that is not printed.
LEMMA PassAttribute ==
    ASSUME NEW ls \in Seq(Links), NEW p, NEW i \in Nat, NEW j \in Nat \ {0},
           Shows(ls, p, i, j), <<i, j>> \notin Entries(ls)
    PROVE  Shows(ls, p, i, j + 1)
<1>1. ASSUME NEW e \in Entries(ls)
      PROVE  Earlier(e, <<i, j>>) <=> Earlier(e, <<i, j + 1>>)
  <2>1. e[1] \in Nat /\ e[2] \in Nat /\ ~(e[1] = i /\ e[2] = j)
    BY EntryIs, Zenon
  <2> QED BY <2>1 DEF Earlier
<1> QED BY <1>1, PassNothing, Zenon

\* Printing an attribute: it comes after all that are printed.
LEMMA ShowAttribute ==
    ASSUME NEW ls \in Seq(Links), NEW S, NEW p \in Seq(S),
           NEW i \in Nat, NEW j \in Nat \ {0},
           Shows(ls, p, i, j), <<i, j>> \in Entries(ls)
    PROVE  Shows(ls, Append(p, <<i, j>>), i, j + 1)
<1> DEFINE q == Append(p, <<i, j>>)
           E(a, b) == {e \in Entries(ls) : Earlier(e, <<a, b>>)}
<1>1. /\ Len(p) \in Nat /\ DOMAIN p = 1 .. Len(p)
      /\ DOMAIN q = 1 .. Len(p) + 1
      /\ \A k \in 1 .. Len(p) : q[k] = p[k]
      /\ q[Len(p) + 1] = <<i, j>>
  OBVIOUS
<1>2. /\ {p[k] : k \in DOMAIN p} = E(i, j)
      /\ \A k \in DOMAIN p : \A m \in 1 .. k - 1 : Earlier(p[m], p[k])
  BY Zenon DEF Shows
<1> HIDE DEF q
<1>3. E(i, j + 1) = E(i, j) \cup {<<i, j>>}
  <2>1. ASSUME NEW e \in Entries(ls)
        PROVE  Earlier(e, <<i, j + 1>>) <=> Earlier(e, <<i, j>>) \/ e = <<i, j>>
    <3>1. /\ e[1] \in Nat /\ e[2] \in Nat
          /\ (e = <<i, j>>) <=> (e[1] = i /\ e[2] = j)
      BY EntryIs, Zenon
    <3> QED BY <3>1 DEF Earlier
  <2> QED BY <2>1
<1>4. {q[k] : k \in DOMAIN q} = E(i, j) \cup {<<i, j>>}
  <2> HIDE DEF E
  <2>1. {q[k] : k \in 1 .. Len(p) + 1}
          = {p[k] : k \in 1 .. Len(p)} \cup {<<i, j>>}
    <3> DEFINE e == <<i, j>>
               l == Len(p)
    <3>1. /\ l \in Nat /\ q[l + 1] = e
          /\ \A k \in 1 .. l : q[k] = p[k]
      BY <1>1
    <3> HIDE DEF e, l
    <3>2. \A k : k \in 1 .. l + 1 <=> k \in 1 .. l \/ k = l + 1
      BY <3>1
    <3>3. {q[k] : k \in 1 .. l + 1} = {p[k] : k \in 1 .. l} \cup {e}
      BY <3>1, <3>2, Zenon
    <3> QED BY <3>3, Zenon DEF e, l
  <2> QED BY <1>1, <1>2, <2>1, Zenon
<1>5. ASSUME NEW k \in DOMAIN q, NEW m \in 1 .. k - 1
      PROVE  Earlier(q[m], q[k])
  <2>1. m \in 1 .. Len(p) /\ q[m] = p[m]
    BY <1>1
  <2>2. CASE k \in 1 .. Len(p)
    BY <1>1, <1>2, <2>1, <2>2
  <2>3. CASE k = Len(p) + 1
    <3>1. p[m] \in E(i, j)
      BY <1>1, <1>2, <2>1
    <3> QED BY <1>1, <2>1, <2>3, <3>1
  <2> QED BY <1>1, <2>2, <2>3
<1> QED BY <1>3, <1>4, <1>5, Zenon DEF Shows, q

-----------------------------------------------------------------------------
(* The invariant holds.                                                     *)

\* The datagram received is the first of the answer.
LEMMA FirstReceived ==
    ASSUME links \in Seq(Links), NEW d, FirstDatagram(d)
    PROVE  First(links, d)
<1> DEFINE N == Len(links)
           R == Reply(links)
<1>1. N \in Nat /\ R \in [1 .. N + 1 -> 0 .. N]
  BY DEF Reply
<1>2. /\ R \in Seq(0 .. N) /\ Len(R) = N + 1
      /\ \A k \in 1 .. N + 1 : R[k] = IF k > N THEN 0 ELSE k
  BY <1>1 DEF Reply
<1>3. Answer = R
  BY Zenon DEF Answer, Reply
<1>4. \A e : LengthOf(e) = Size(links, e)
  BY Zenon DEF LengthOf, Length, Size, Lengths, MsgLen
<1>5. PICK k \in 1 .. N + 1 :
        /\ d = SubSeq(R, 1, k)
        /\ k > 1 => Size(links, d) <= Good
        /\ k < N => Size(links, SubSeq(R, 1, k + 1)) > Good
  <2>1. Len(R) = N + 1
    BY <1>2
  <2> HIDE DEF R, N
  <2> QED BY <1>3, <1>4, <2>1, Zenon DEF FirstDatagram, N
<1> HIDE DEF R
<1>6. /\ d \in Seq(0 .. N) /\ Len(d) = k
      /\ \A m \in 1 .. k : d[m] = R[m]
  BY <1>1, <1>2, <1>5
<1>7. \A m \in 1 .. k : d[m] = IF m > N THEN 0 ELSE m
  BY <1>1, <1>2, <1>6
<1> QED BY <1>5, <1>6, <1>7, Zenon DEF First, R

LEMMA DumpStarts == LinkDumpInit => DumpInv
<1> SUFFICES ASSUME LinkDumpInit PROVE DumpInv
  OBVIOUS
<1>1. PICK k \in 1 .. MaxLinks : links \in [1 .. k -> Links]
  BY DEF LinkDumpInit
<1>2. k \in Nat /\ k >= 1
  BY LinkDumpAssumption
<1>3. links \in Seq(Links) /\ Len(links) = k
  BY <1>1, <1>2
<1>4. LinkDumpTypeOK
  BY <1>3, LinkDumpAssumption DEF LinkDumpInit, LinkDumpTypeOK
<1> QED BY <1>2, <1>3, <1>4 DEF LinkDumpInit, DumpInv, DatagramShape,
        PlaceShape, BytesShape, PrintedShape, Received

\* While anything but the kernel's last message is left of a datagram that is
\* not cut off, NLMSG_OK holds, and NLMSG_NEXT takes the message from n.
LEMMA NotCutOff ==
    ASSUME DumpInv, Received, Size(links, dgram) <= BufLen, nlhdr <= Len(dgram)
    PROVE  /\ nlhdr \in 1 .. Len(dgram)
           /\ NlmsgOk
           /\ n - Length(dgram[nlhdr]) = Rest(links, dgram, nlhdr + 1)
           /\ n - Length(dgram[nlhdr]) \in 0 .. BufLen
           /\ nlhdr + 1 \in 1 .. Len(dgram) + 1
<1> DEFINE l == MsgLen(links, dgram[nlhdr])
           r == Rest(links, dgram, nlhdr + 1)
<1>1. /\ links \in Seq(Links) /\ dgram \in Seq(0 .. Len(links))
      /\ nlhdr \in 1 .. Len(dgram) + 1 /\ n \in 0 .. BufLen
      /\ Len(dgram) \in Nat /\ BufLen \in Nat
  BY LinkDumpAssumption
  DEF DumpInv, LinkDumpTypeOK, DatagramShape, PlaceShape, First
<1>2. nlhdr \in 1 .. Len(dgram) /\ nlhdr + 1 \in 1 .. Len(dgram) + 1
  BY <1>1
<1>3. l \in Nat /\ r \in Nat /\ Rest(links, dgram, nlhdr) = l + r
  BY <1>1, <1>2, RestOf
<1>4. n = Rest(links, dgram, nlhdr)
  BY DEF DumpInv, BytesShape
<1>5. Length(dgram[nlhdr]) = l
  BY Zenon DEF Length, MsgLen
<1> HIDE DEF l, r
<1>6. n - l = r /\ n >= l /\ n - l \in 0 .. BufLen
  BY <1>1, <1>3, <1>4
<1> QED BY <1>2, <1>5, <1>6 DEF NlmsgOk, r

\* Of a datagram that is cut off there is no whole message.
LEMMA CutOff ==
    ASSUME DumpInv, Received, ~(Size(links, dgram) <= BufLen)
    PROVE  ~NlmsgOk /\ Size(links, dgram) > BufLen
<1> DEFINE l == MsgLen(links, dgram[1])
<1>1. /\ links \in Seq(Links) /\ dgram \in Seq(0 .. Len(links))
      /\ Len(dgram) \in Nat /\ BufLen \in Nat
      /\ Good \in Nat /\ Good <= BufLen
  BY LinkDumpAssumption DEF DumpInv, LinkDumpTypeOK, DatagramShape, First
<1>2. nlhdr = 1 /\ n = BufLen
  BY DEF DumpInv, BytesShape
<1>3. /\ Size(links, dgram) \in Nat
      /\ Rest(links, dgram, 1) = Size(links, dgram)
      /\ Rest(links, dgram, Len(dgram) + 1) = 0
      /\ \A k \in 1 .. Len(dgram) :
            /\ MsgLen(links, dgram[k]) \in Nat
            /\ Rest(links, dgram, k)
                 = MsgLen(links, dgram[k]) + Rest(links, dgram, k + 1)
  BY <1>1, RestOf
<1>4. Len(dgram) = 1
  <2>1. Len(dgram) > 1 => Size(links, dgram) <= Good
    BY DEF DumpInv, DatagramShape, First
  <2>2. Len(dgram) >= 1
    BY <1>1 DEF DumpInv, DatagramShape, First
  <2>3. Size(links, dgram) \in Nat
    BY <1>3
  <2> DEFINE w == Size(links, dgram)
             m == Len(dgram)
  <2>4. w \in Nat /\ ~(w <= BufLen) /\ (m > 1 => w <= Good) /\ m >= 1
    BY <2>1, <2>2, <2>3
  <2>5. m \in Nat /\ BufLen \in Nat /\ Good \in Nat /\ Good <= BufLen
    BY <1>1
  <2> HIDE DEF w, m
  <2>6. m = 1
    BY <2>4, <2>5
  <2> QED BY <2>6 DEF m
<1>5. l \in Nat /\ Rest(links, dgram, 1) = l + Rest(links, dgram, 1 + 1)
  BY <1>3, <1>4
<1>6. Length(dgram[nlhdr]) = l
  BY <1>2, Zenon DEF Length, MsgLen
<1> HIDE DEF l
<1>7. Size(links, dgram) = l
  BY <1>3, <1>4, <1>5
<1>8. Size(links, dgram) > BufLen
  BY <1>1, <1>3
<1> QED BY <1>1, <1>2, <1>5, <1>6, <1>7, <1>8 DEF NlmsgOk

LEMMA QuitKeeps ==
    ASSUME DumpInv, SendRequest \/ SocketFails
    PROVE  DumpInv'
BY DEF DumpInv, SendRequest, SocketFails, Quit, LinkDumpTypeOK,
   DatagramShape, PlaceShape, BytesShape, PrintedShape, Received

LEMMA CloseKeeps ==
    ASSUME DumpInv, Close
    PROVE  DumpInv'
<1>1. pc = "message" /\ pc' = "printed" /\ ~NlmsgOk /\ Received
  BY DEF Close, Quit, Received
<1>2. UNCHANGED <<links, dgram, nlhdr, n, rta, rtalist_len, printed>>
  BY DEF Close, Quit
<1>3. Size(links, dgram) <= BufLen => nlhdr = Len(dgram) + 1
  <2>1. Size(links, dgram) <= BufLen => ~(nlhdr <= Len(dgram))
    BY <1>1, NotCutOff
  <2>2. nlhdr \in 1 .. Len(dgram) + 1 /\ Len(dgram) \in Nat
    BY <1>1 DEF DumpInv, PlaceShape, DatagramShape, First
  <2> QED BY <2>1, <2>2
<1>4. LinkDumpTypeOK'
  BY <1>1, <1>2 DEF DumpInv, LinkDumpTypeOK
<1>5. DatagramShape'
  BY <1>1, <1>2 DEF DumpInv, DatagramShape, Received
<1>6. PlaceShape'
  BY <1>1, <1>2, <1>3 DEF DumpInv, PlaceShape, Received
<1>7. BytesShape' /\ PrintedShape'
  BY <1>1, <1>2 DEF DumpInv, BytesShape, PrintedShape, Received
<1> QED BY <1>4, <1>5, <1>6, <1>7 DEF DumpInv

LEMMA ReceiveKeeps ==
    ASSUME DumpInv, Receive
    PROVE  DumpInv'
<1>1. /\ pc = "recv" /\ pc' = "message" /\ FirstDatagram(dgram')
      /\ UNCHANGED <<links, nlhdr, rta, rtalist_len, printed>>
  BY DEF Receive
<1>2. /\ links \in Seq(Links) /\ nlhdr = 1 /\ printed = <<>>
      /\ Len(links) \in Nat /\ Len(links) >= 1
  BY <1>1 DEF DumpInv, LinkDumpTypeOK, DatagramShape, Received
<1>3. First(links, dgram')
  BY <1>1, <1>2, FirstReceived
<1>4. /\ dgram' \in Seq(0 .. Len(links))
      /\ Len(dgram') \in Nat /\ Len(dgram') >= 1
  BY <1>2, <1>3 DEF First
<1>5. /\ Size(links, dgram') \in Nat
      /\ Rest(links, dgram', 1) = Size(links, dgram')
  BY <1>2, <1>4, RestOf
<1>6. LengthOf(dgram') = Size(links, dgram')
  BY Zenon DEF LengthOf, Length, Size, Lengths, MsgLen
<1>7. /\ n' = IF Size(links, dgram') > BufLen THEN BufLen
                                              ELSE Size(links, dgram')
      /\ BufLen \in Nat
  BY <1>6, LinkDumpAssumption DEF Receive
<1>8. LinkDumpTypeOK'
  BY <1>1, <1>4, <1>5, <1>7 DEF DumpInv, LinkDumpTypeOK
<1>9. DatagramShape'
  BY <1>1, <1>2, <1>3 DEF DatagramShape, Received
<1>10. PlaceShape'
  BY <1>1, <1>2, <1>4 DEF PlaceShape, Received
<1>11. BytesShape'
  BY <1>1, <1>2, <1>5, <1>7 DEF BytesShape, Received
<1>12. PrintedShape'
  <2>1. ASSUME NEW e \in Entries(links) PROVE ~Earlier(e, <<1, 1>>)
    <3>1. e[1] \in Nat /\ e[1] >= 1 /\ e[2] \in Nat /\ e[2] >= 1
      BY <1>2, EntryIs
    <3> QED BY <3>1 DEF Earlier
  <2>2. DOMAIN <<>> = {}
    OBVIOUS
  <2>3. Shows(links, <<>>, 1, 1)
    BY <2>1, <2>2 DEF Shows
  <2> QED BY <1>1, <1>2, <2>3 DEF PrintedShape, Received
<1> QED BY <1>8, <1>9, <1>10, <1>11, <1>12 DEF DumpInv

\* The message looked at is about an interface that is looked into, or not.
LEMMA AcceptedIs ==
    ASSUME DumpInv, Received, nlhdr \in 1 .. Len(dgram)
    PROVE  /\ links \in Seq(Links) /\ Len(links) \in Nat
           /\ dgram[nlhdr] = IF nlhdr > Len(links) THEN 0 ELSE nlhdr
           /\ Accepted(dgram[nlhdr]) =>
                 /\ nlhdr \in 1 .. Len(links) /\ dgram[nlhdr] = nlhdr
                 /\ LookedInto(links, nlhdr)
           /\ ~Accepted(dgram[nlhdr]) =>
                 \A e \in Entries(links) : e[1] # nlhdr
<1>1. /\ links \in Seq(Links) /\ Len(links) \in Nat
      /\ nlhdr \in Nat /\ nlhdr >= 1
      /\ dgram[nlhdr] = IF nlhdr > Len(links) THEN 0 ELSE nlhdr
  BY DEF DumpInv, DatagramShape, LinkDumpTypeOK, First
<1>2. \A i : Accepted(i) <=> LookedInto(links, i)
  BY Zenon DEF Accepted, LookedInto
<1>3. CASE nlhdr > Len(links)
  <2>1. dgram[nlhdr] = 0 /\ ~Accepted(dgram[nlhdr])
    BY <1>1, <1>3 DEF Accepted
  <2>2. \A e \in Entries(links) : e[1] # nlhdr
    <3>1. \A e \in Entries(links) : e[1] \in 1 .. Len(links)
      BY <1>1, EntryIs
    <3> QED BY <1>1, <1>3, <3>1
  <2> QED BY <1>1, <2>1, <2>2
<1>4. CASE ~(nlhdr > Len(links))
  <2>1. dgram[nlhdr] = nlhdr /\ nlhdr \in 1 .. Len(links)
    BY <1>1, <1>4
  <2>2. \A e \in Entries(links) : LookedInto(links, e[1])
    BY <1>1, EntryIs
  <2>3. \A e \in Entries(links) : e[1] = nlhdr => LookedInto(links, nlhdr)
    BY <2>2, Zenon
  <2> QED BY <1>1, <1>2, <2>1, <2>3, Zenon
<1> QED BY <1>3, <1>4

LEMMA PassOverKeeps ==
    ASSUME DumpInv, PassOver
    PROVE  DumpInv'
<1>1. /\ pc = "message" /\ NlmsgOk /\ ~Accepted(dgram[nlhdr]) /\ Received
      /\ nlhdr' = nlhdr + 1 /\ n' = n - Length(dgram[nlhdr])
      /\ UNCHANGED <<links, pc, dgram, rta, rtalist_len, printed>>
  BY DEF PassOver, NextMessage, Received
<1>2. Size(links, dgram) <= BufLen /\ nlhdr <= Len(dgram)
  BY <1>1, CutOff DEF NlmsgOk
<1>3. /\ nlhdr \in 1 .. Len(dgram)
      /\ n' = Rest(links, dgram, nlhdr') /\ n' \in 0 .. BufLen
      /\ nlhdr' \in 1 .. Len(dgram) + 1
  BY <1>1, <1>2, NotCutOff
<1>4. /\ links \in Seq(Links) /\ Len(links) \in Nat
      /\ nlhdr \in Nat /\ nlhdr >= 1
      /\ \A e \in Entries(links) : e[1] # nlhdr
  <2>1. nlhdr \in Nat /\ nlhdr >= 1
    BY DEF DumpInv, LinkDumpTypeOK
  <2> QED BY <1>1, <1>3, <2>1, AcceptedIs
<1>5. Shows(links, printed, nlhdr', 1)
  <2>1. Shows(links, printed, nlhdr, 1)
    <3>1. Size(links, dgram) \in Nat /\ BufLen \in Nat
      BY <1>1, <1>4, RestOf, LinkDumpAssumption
      DEF DumpInv, DatagramShape, First
    <3>2. ~(Size(links, dgram) > BufLen) /\ pc # "attribute"
      BY <1>1, <1>2, <3>1
    <3> QED BY <1>1, <3>2, Zenon DEF DumpInv, PrintedShape
  <2> QED BY <1>1, <1>4, <2>1, PassInterface
<1>6. nlhdr' \in Nat \ {0}
  BY <1>1, <1>4
<1>7. LinkDumpTypeOK'
  BY <1>1, <1>3, <1>6 DEF DumpInv, LinkDumpTypeOK
<1>8. DatagramShape'
  BY <1>1 DEF DumpInv, DatagramShape, Received
<1>9. PlaceShape'
  BY <1>1, <1>3 DEF DumpInv, PlaceShape, Received
<1>10. BytesShape'
  BY <1>1, <1>2, <1>3 DEF DumpInv, BytesShape, Received
<1>11. PrintedShape'
  <2>1. ~(Size(links, dgram) > BufLen)
    <3>1. Size(links, dgram) \in Nat /\ BufLen \in Nat
      BY <1>1, <1>4, RestOf, LinkDumpAssumption
      DEF DumpInv, DatagramShape, First
    <3> QED BY <1>2, <3>1
  <2> QED BY <1>1, <1>5, <2>1 DEF PrintedShape, Received
<1> QED BY <1>7, <1>8, <1>9, <1>10, <1>11 DEF DumpInv

LEMMA StartLinkKeeps ==
    ASSUME DumpInv, StartLink
    PROVE  DumpInv'
<1>1. /\ pc = "message" /\ NlmsgOk /\ Accepted(dgram[nlhdr]) /\ Received
      /\ rta' = 1 /\ rtalist_len' = Length(dgram[nlhdr]) - HdrLen
      /\ pc' = "attribute"
      /\ UNCHANGED <<links, dgram, nlhdr, n, printed>>
  BY DEF StartLink, Received
<1>2. Size(links, dgram) <= BufLen /\ nlhdr <= Len(dgram)
  BY <1>1, CutOff DEF NlmsgOk
<1>3. nlhdr \in 1 .. Len(dgram)
  BY <1>1, <1>2, NotCutOff
<1>4. links \in Seq(Links) /\ Len(links) \in Nat
  BY <1>1, <1>3, AcceptedIs
<1>5. /\ dgram[nlhdr] = nlhdr /\ nlhdr \in 1 .. Len(links)
      /\ LookedInto(links, nlhdr)
  BY <1>1, <1>3, AcceptedIs
<1>6. /\ MsgLen(links, nlhdr) = HdrLen + AttrRest(links, nlhdr, 1)
      /\ AttrRest(links, nlhdr, 1) \in Nat /\ HdrLen \in Nat
      /\ Len(links[nlhdr].attrs) \in Nat
  BY <1>4, <1>5, AttrRestOf, LinkDumpAssumption
<1>7. Length(dgram[nlhdr]) = MsgLen(links, nlhdr)
  BY <1>5, Zenon DEF Length, MsgLen
<1>8. rtalist_len' = AttrRest(links, nlhdr, 1) /\ rtalist_len' \in Nat
  BY <1>1, <1>6, <1>7
<1>9. LinkDumpTypeOK'
  BY <1>1, <1>8 DEF DumpInv, LinkDumpTypeOK
<1>10. DatagramShape'
  BY <1>1 DEF DumpInv, DatagramShape, Received
<1>11. PlaceShape'
  <2>1. rta' \in 1 .. Len(links[nlhdr].attrs) + 1
    BY <1>1, <1>6
  <2> QED BY <1>1, <1>3, <1>5, <1>8, <2>1 DEF PlaceShape, Received, LookedInto
<1>12. BytesShape'
  BY <1>1, <1>2 DEF DumpInv, BytesShape, Received
<1>13. PrintedShape'
  <2>1. ~(Size(links, dgram) > BufLen)
    <3>1. Size(links, dgram) \in Nat /\ BufLen \in Nat
      BY <1>1, <1>4, RestOf, LinkDumpAssumption
      DEF DumpInv, DatagramShape, First
    <3> QED BY <1>2, <3>1
  <2> QED BY <1>1, <2>1 DEF DumpInv, PrintedShape, Received
<1> QED BY <1>9, <1>10, <1>11, <1>12, <1>13 DEF DumpInv

\* Where main is among the attributes of a message.
LEMMA AttributeAt ==
    ASSUME DumpInv, pc = "attribute"
    PROVE  /\ Received /\ Size(links, dgram) <= BufLen
           /\ ~(Size(links, dgram) > BufLen)
           /\ links \in Seq(Links) /\ Len(links) \in Nat
           /\ nlhdr \in 1 .. Len(dgram) /\ nlhdr \in 1 .. Len(links)
           /\ dgram[nlhdr] = nlhdr /\ Attributes = links[nlhdr].attrs
           /\ LookedInto(links, nlhdr)
           /\ Len(Attributes) \in Nat /\ Len(Attributes) <= MaxAttrs
           /\ rta \in 1 .. Len(Attributes) + 1
           /\ rtalist_len = AttrRest(links, nlhdr, rta)
           /\ Shows(links, printed, nlhdr, rta)
           /\ RtaOk <=> rta \in 1 .. Len(Attributes)
<1> DEFINE A == links[nlhdr].attrs
<1>1. Received /\ pc \in {"attribute"}
  BY DEF Received
<1>2. /\ links \in Seq(Links) /\ Len(links) \in Nat
      /\ dgram \in Seq(0 .. Len(links)) /\ Len(dgram) \in Nat
      /\ nlhdr \in 1 .. Len(dgram) /\ nlhdr \in 1 .. Len(links)
      /\ LookedInto(links, nlhdr)
      /\ rta \in 1 .. Len(A) + 1
      /\ rtalist_len = AttrRest(links, nlhdr, rta)
      /\ \A k \in 1 .. Len(dgram) :
            dgram[k] = IF k > Len(links) THEN 0 ELSE k
  BY <1>1 DEF DumpInv, LinkDumpTypeOK, PlaceShape, DatagramShape, First
<1>3. dgram[nlhdr] = nlhdr
  <2>1. ~(nlhdr > Len(links))
    BY <1>2
  <2> QED BY <1>2, <2>1
<1>4. Attributes = A
  BY <1>3, Zenon DEF Attributes
<1>5. Size(links, dgram) \in Nat /\ BufLen \in Nat
  BY <1>2, RestOf, LinkDumpAssumption
<1>6. Size(links, dgram) <= BufLen /\ ~(Size(links, dgram) > BufLen)
  <2>1. ~(Size(links, dgram) <= BufLen) => pc # "attribute"
    BY <1>1, Zenon DEF DumpInv, BytesShape
  <2> QED BY <1>5, <2>1
<1>7. Shows(links, printed, nlhdr, rta)
  BY <1>1, <1>6, Zenon DEF DumpInv, PrintedShape
<1>8. /\ Len(A) \in Nat /\ Len(A) <= MaxAttrs
      /\ \A j \in 1 .. Len(A) :
            /\ RtaLen(A[j]) \in Nat
            /\ AttrRest(links, nlhdr, j + 1) \in Nat
            /\ AttrRest(links, nlhdr, j)
                 = RtaLen(A[j]) + AttrRest(links, nlhdr, j + 1)
  BY <1>2, AttrRestOf
<1> HIDE DEF A
<1>9. RtaOk <=> rta \in 1 .. Len(A)
  <2>1. ASSUME rta \in 1 .. Len(A)
        PROVE  rtalist_len >= RtaLen(A[rta]) /\ rta <= Len(A)
    <3>1. /\ RtaLen(A[rta]) \in Nat
          /\ AttrRest(links, nlhdr, rta + 1) \in Nat
          /\ AttrRest(links, nlhdr, rta)
               = RtaLen(A[rta]) + AttrRest(links, nlhdr, rta + 1)
      BY <1>8, <2>1
    <3> DEFINE x == AttrRest(links, nlhdr, rta + 1)
               y == RtaLen(A[rta])
    <3>2. x \in Nat /\ y \in Nat /\ rtalist_len = y + x
      BY <1>2, <3>1, Zenon
    <3> HIDE DEF x, y
    <3>3. rtalist_len >= y
      BY <3>2
    <3>4. rta <= Len(A)
      BY <1>8, <2>1
    <3> QED BY <3>3, <3>4, Zenon DEF y
  <2>2. rta <= Len(A) => rta \in 1 .. Len(A)
    BY <1>2, <1>8
  <2> QED BY <1>4, <2>1, <2>2, Zenon DEF RtaOk
<1> QED BY <1>1, <1>2, <1>3, <1>4, <1>6, <1>7, <1>8, <1>9 DEF A

LEMMA PrintAttributeKeeps ==
    ASSUME DumpInv, PrintAttribute
    PROVE  DumpInv'
<1> DEFINE A == Attributes
           T == (1 .. Len(links)) \X (1 .. MaxAttrs)
<1>1. /\ pc = "attribute" /\ RtaOk
      /\ printed' = IF Prints(A[rta])
                    THEN Append(printed, <<dgram[nlhdr], rta>>) ELSE printed
      /\ rta' = rta + 1
      /\ rtalist_len' = rtalist_len - RtaLen(A[rta])
      /\ UNCHANGED <<links, pc, dgram, nlhdr, n>>
  BY DEF PrintAttribute
<1>2. /\ Received /\ Size(links, dgram) <= BufLen
      /\ ~(Size(links, dgram) > BufLen)
      /\ links \in Seq(Links) /\ Len(links) \in Nat
      /\ nlhdr \in 1 .. Len(dgram) /\ nlhdr \in 1 .. Len(links)
      /\ dgram[nlhdr] = nlhdr /\ A = links[nlhdr].attrs
      /\ LookedInto(links, nlhdr)
      /\ Len(A) \in Nat /\ Len(A) <= MaxAttrs
      /\ rta \in 1 .. Len(A)
      /\ rtalist_len = AttrRest(links, nlhdr, rta)
      /\ Shows(links, printed, nlhdr, rta)
  BY <1>1, AttributeAt
<1> HIDE DEF A
<1>3. /\ RtaLen(A[rta]) \in Nat
      /\ AttrRest(links, nlhdr, rta + 1) \in Nat
      /\ AttrRest(links, nlhdr, rta)
           = RtaLen(A[rta]) + AttrRest(links, nlhdr, rta + 1)
  BY <1>2, AttrRestOf
<1>4. rtalist_len' = AttrRest(links, nlhdr, rta') /\ rtalist_len' \in Nat
  <2> DEFINE x == AttrRest(links, nlhdr, rta + 1)
             y == RtaLen(A[rta])
  <2>1. /\ x \in Nat /\ y \in Nat /\ rtalist_len = y + x
        /\ rtalist_len' = rtalist_len - y
    BY <1>1, <1>2, <1>3, Zenon
  <2>2. AttrRest(links, nlhdr, rta') = x
    BY <1>1, Zenon
  <2> HIDE DEF x, y
  <2> QED BY <2>1, <2>2
<1>5. /\ rta \in 1 .. MaxAttrs /\ rta \in Nat \ {0} /\ nlhdr \in Nat
      /\ <<nlhdr, rta>> \in T /\ printed \in Seq(T)
  <2>1. rta \in 1 .. MaxAttrs /\ rta \in Nat \ {0} /\ nlhdr \in Nat
    <3>1. rta \in 1 .. Len(A) /\ Len(A) \in Nat /\ Len(A) <= MaxAttrs
      BY <1>2, Zenon
    <3>2. MaxAttrs \in Nat /\ nlhdr \in Nat
      BY LinkDumpAssumption DEF DumpInv, LinkDumpTypeOK
    <3> QED BY <3>1, <3>2
  <2>2. <<nlhdr, rta>> \in T
    BY <1>2, <2>1
  <2>3. printed \in Seq(T)
    BY Zenon DEF DumpInv, LinkDumpTypeOK
  <2> QED BY <2>1, <2>2, <2>3, Zenon
<1>6. <<nlhdr, rta>> \in Entries(links) <=> Prints(A[rta])
  <2> DEFINE e == <<nlhdr, rta>>
  <2>1. e \in Entries(links) <=>
          /\ e \in T
          /\ LookedInto(links, e[1])
          /\ e[2] <= Len(links[e[1]].attrs)
          /\ Prints(links[e[1]].attrs[e[2]])
    BY Zenon DEF Entries
  <2>2. e[1] = nlhdr /\ e[2] = rta
    OBVIOUS
  <2>3. rta <= Len(A)
    BY <1>2
  <2> HIDE DEF e, T
  <2> QED BY <1>2, <1>5, <2>1, <2>2, <2>3, Zenon DEF e
<1> HIDE DEF T
<1>7. Shows(links, printed', nlhdr, rta') /\ printed' \in Seq(T)
  <2>1. CASE Prints(A[rta])
    <3>1. printed' = Append(printed, <<nlhdr, rta>>)
      BY <1>1, <1>2, <2>1, Zenon
    <3>2. Shows(links, Append(printed, <<nlhdr, rta>>), nlhdr, rta + 1)
      BY <1>2, <1>5, <1>6, <2>1, ShowAttribute
    <3>3. Append(printed, <<nlhdr, rta>>) \in Seq(T)
      BY <1>5
    <3> QED BY <1>1, <3>1, <3>2, <3>3, Zenon
  <2>2. CASE ~Prints(A[rta])
    <3>1. printed' = printed
      BY <1>1, <2>2, Zenon
    <3>2. Shows(links, printed, nlhdr, rta + 1)
      BY <1>2, <1>5, <1>6, <2>2, PassAttribute
    <3> QED BY <1>1, <1>5, <3>1, <3>2, Zenon
  <2> QED BY <2>1, <2>2
<1>8. rta' \in 1 .. Len(A) + 1 /\ rta' \in Nat \ {0}
  BY <1>1, <1>2
<1>9. LinkDumpTypeOK'
  BY <1>1, <1>4, <1>7, <1>8 DEF DumpInv, LinkDumpTypeOK, T
<1>10. DatagramShape'
  BY <1>1 DEF DumpInv, DatagramShape, Received
<1>11. PlaceShape'
  BY <1>1, <1>2, <1>4, <1>8 DEF DumpInv, PlaceShape, Received, LookedInto
<1>12. BytesShape'
  BY <1>1 DEF DumpInv, BytesShape, Received
<1>13. PrintedShape'
  BY <1>1, <1>2, <1>7 DEF PrintedShape, Received
<1> QED BY <1>9, <1>10, <1>11, <1>12, <1>13 DEF DumpInv

LEMMA LinkDoneKeeps ==
    ASSUME DumpInv, LinkDone
    PROVE  DumpInv'
<1>1. /\ pc = "attribute" /\ ~RtaOk
      /\ nlhdr' = nlhdr + 1 /\ n' = n - Length(dgram[nlhdr])
      /\ pc' = "message"
      /\ UNCHANGED <<links, dgram, rta, rtalist_len, printed>>
  BY DEF LinkDone, NextMessage
<1>2. /\ Received /\ Size(links, dgram) <= BufLen
      /\ ~(Size(links, dgram) > BufLen)
      /\ links \in Seq(Links) /\ Len(links) \in Nat
      /\ nlhdr \in 1 .. Len(dgram) /\ nlhdr \in 1 .. Len(links)
      /\ Attributes = links[nlhdr].attrs
      /\ Len(Attributes) \in Nat
      /\ rta \in 1 .. Len(Attributes) + 1
      /\ ~(rta \in 1 .. Len(Attributes))
      /\ Shows(links, printed, nlhdr, rta)
  BY <1>1, AttributeAt
<1>3. nlhdr <= Len(dgram)
  BY <1>2
<1>4. /\ n' = Rest(links, dgram, nlhdr') /\ n' \in 0 .. BufLen
      /\ nlhdr' \in 1 .. Len(dgram) + 1
  BY <1>1, <1>2, <1>3, NotCutOff
<1>5. Shows(links, printed, nlhdr', 1)
  <2>1. /\ rta = Len(links[nlhdr].attrs) + 1
        /\ rta \in Nat \ {0} /\ nlhdr \in Nat
    BY <1>2
  <2>2. ASSUME NEW e \in Entries(links), e[1] = nlhdr PROVE e[2] < rta
    <3>1. e[2] \in Nat /\ e[2] <= Len(links[nlhdr].attrs)
      BY <1>2, <2>2, EntryIs
    <3> QED BY <1>2, <2>1, <3>1
  <2>3. Shows(links, printed, nlhdr + 1, 1)
    BY <1>2, <2>1, <2>2, PassInterface
  <2> QED BY <1>1, <2>3, Zenon
<1>6. nlhdr' \in Nat \ {0}
  BY <1>1, <1>2
<1>7. LinkDumpTypeOK'
  BY <1>1, <1>4, <1>6 DEF DumpInv, LinkDumpTypeOK
<1>8. DatagramShape'
  BY <1>1, <1>2 DEF DumpInv, DatagramShape, Received
<1>9. PlaceShape'
  BY <1>1, <1>4 DEF PlaceShape, Received
<1>10. BytesShape'
  BY <1>1, <1>2, <1>4 DEF BytesShape, Received
<1>11. PrintedShape'
  BY <1>1, <1>2, <1>5 DEF PrintedShape, Received
<1> QED BY <1>7, <1>8, <1>9, <1>10, <1>11 DEF DumpInv

LEMMA DumpSteps == DumpInv /\ [LinkDumpStep]_dumpVars => DumpInv'
<1> SUFFICES ASSUME DumpInv, [LinkDumpStep]_dumpVars PROVE DumpInv'
  OBVIOUS
<1>1. CASE SendRequest \/ SocketFails
  BY <1>1, QuitKeeps
<1>2. CASE Receive
  BY <1>2, ReceiveKeeps
<1>3. CASE PassOver
  BY <1>3, PassOverKeeps
<1>4. CASE StartLink
  BY <1>4, StartLinkKeeps
<1>5. CASE PrintAttribute
  BY <1>5, PrintAttributeKeeps
<1>6. CASE LinkDone
  BY <1>6, LinkDoneKeeps
<1>7. CASE Close
  BY <1>7, CloseKeeps
<1>8. CASE UNCHANGED dumpVars
  BY <1>8 DEF dumpVars, DumpInv, LinkDumpTypeOK, DatagramShape, PlaceShape,
     BytesShape, PrintedShape, Received
<1> QED BY <1>1, <1>2, <1>3, <1>4, <1>5, <1>6, <1>7, <1>8 DEF LinkDumpStep

\* The places, the bytes left and the attributes printed agree at every step
\* of ebtables_test.c.
THEOREM DumpInvariance == LinkDumpSpec => []DumpInv
BY DumpStarts, DumpSteps, PTL DEF LinkDumpSpec

\* The variables keep their types: no length that NLMSG_OK or RTA_OK goes by
\* becomes negative.
THEOREM DumpTypes == LinkDumpSpec => []LinkDumpTypeOK
<1>1. DumpInv => LinkDumpTypeOK
  BY DEF DumpInv
<1> QED BY <1>1, DumpInvariance, PTL

\* n and rtalist_len are what is left of buf and of the message.
THEOREM DumpRestRight == LinkDumpSpec => []RestRight
<1>1. ASSUME DumpInv PROVE RestRight
  <2>1. LengthOf(dgram) = Size(links, dgram)
    BY Zenon DEF LengthOf, Length, Size, Lengths, MsgLen
  <2>2. ASSUME Received, Size(links, dgram) <= BufLen
        PROVE  n = LengthOf(SubSeq(dgram, nlhdr, Len(dgram)))
    <3>1. /\ links \in Seq(Links) /\ dgram \in Seq(0 .. Len(links))
          /\ nlhdr \in 1 .. Len(dgram) + 1 /\ Len(dgram) \in 0 .. Len(dgram)
      <4>1. links \in Seq(Links) /\ dgram \in Seq(0 .. Len(links))
        BY <1>1, <2>2 DEF DumpInv, LinkDumpTypeOK
      <4>2. nlhdr \in 1 .. Len(dgram) + 1
        BY <1>1, <2>2 DEF DumpInv, PlaceShape
      <4>3. Len(dgram) \in Nat
        BY <4>1
      <4>4. Len(dgram) \in 0 .. Len(dgram)
        BY <4>3
      <4> QED BY <4>1, <4>2, <4>4
    <3>2. Lengths(links, SubSeq(dgram, nlhdr, Len(dgram)))
              = SubSeq(Lengths(links, dgram), nlhdr, Len(dgram))
      BY <3>1, LengthsType
    <3>3. LengthOf(SubSeq(dgram, nlhdr, Len(dgram)))
              = Total(Lengths(links, SubSeq(dgram, nlhdr, Len(dgram))))
      BY Zenon DEF LengthOf, Length, Lengths, MsgLen
    <3>4. n = Rest(links, dgram, nlhdr)
      BY <1>1, <2>2, Zenon DEF DumpInv, BytesShape
    <3> QED BY <3>2, <3>3, <3>4, Zenon DEF Rest
  <2>3. ASSUME pc = "attribute"
        PROVE  LET lens == Lens(links[dgram[nlhdr]])
               IN  rtalist_len = Total(SubSeq(lens, rta, Len(lens)))
    <3>1. /\ dgram[nlhdr] = nlhdr
          /\ rtalist_len = AttrRest(links, nlhdr, rta)
      BY <1>1, <2>3, AttributeAt
    <3> QED BY <3>1, Zenon DEF AttrRest
  <2> QED BY <2>1, <2>2, <2>3, Zenon DEF RestRight, Received
<1> QED BY <1>1, DumpInvariance, PTL

\* How many interfaces the datagram is about, and how many a first one may be.
About(ls, d) == IF Len(d) + 1 <= Len(ls) THEN Len(d) ELSE Len(ls)

Fitting(ls) == {k \in 1 .. Len(ls) :
                  k = 1 \/ Size(ls, SubSeq(Reply(ls), 1, k)) <= Good}

\* The first datagram is about as many interfaces as fit: a beginning of the
\* answer fits exactly if it is not longer.
LEMMA FirstLongest ==
    ASSUME NEW ls \in Seq(Links), NEW d, First(ls, d), Len(ls) >= 1
    PROVE  /\ About(ls, d) \in Fitting(ls)
           /\ \A j \in Fitting(ls) : j <= About(ls, d)
<1> DEFINE N == Len(ls)
           R == Reply(ls)
           u == Lengths(ls, R)
           fit(k) == Size(ls, SubSeq(R, 1, k))
           K == Len(d)
           m == About(ls, d)
           whole == Fitting(ls)
<1>1. N \in Nat /\ N >= 1 /\ R \in [1 .. N + 1 -> 0 .. N]
  BY DEF Reply
<1>2. R \in Seq(0 .. N) /\ Len(R) = N + 1
  BY <1>1
<1> HIDE DEF R
<1>3. /\ u \in Seq(Nat) /\ Len(u) = N + 1
      /\ \A a \in 1 .. N + 2, b \in 0 .. N + 1 :
            Lengths(ls, SubSeq(R, a, b)) = SubSeq(u, a, b)
  <2>1. /\ u \in Seq(Nat) /\ Len(u) = Len(R)
        /\ \A a \in 1 .. Len(R) + 1, b \in 0 .. Len(R) :
              Lengths(ls, SubSeq(R, a, b)) = SubSeq(u, a, b)
    BY <1>2, LengthsType
  <2>2. Len(R) + 1 = N + 2
    BY <1>1, <1>2
  <2> HIDE DEF u
  <2> QED BY <1>2, <2>1, <2>2
<1>4. \A k \in 0 .. N + 1 : fit(k) = Total(SubSeq(u, 1, k))
  <2>1. 1 \in 1 .. N + 2
    BY <1>1
  <2> QED BY <1>3, <2>1, Zenon DEF Size
<1> HIDE DEF u
<1>5. ASSUME NEW a \in 0 .. N + 1, NEW b \in 0 .. N + 1, a <= b
      PROVE  fit(a) <= fit(b)
  <2>1. a \in 0 .. Len(u) /\ b \in 0 .. Len(u)
    BY <1>3
  <2>2. Total(SubSeq(u, 1, a)) <= Total(SubSeq(u, 1, b))
    BY <1>3, <1>5, <2>1, BeginningTotal
  <2>3. fit(a) = Total(SubSeq(u, 1, a)) /\ fit(b) = Total(SubSeq(u, 1, b))
    BY <1>4
  <2> QED BY <2>2, <2>3, Zenon
<1>6. \A k \in 0 .. N + 1 : fit(k) \in Nat
  <2> SUFFICES ASSUME NEW k \in 0 .. N + 1 PROVE fit(k) \in Nat
    OBVIOUS
  <2>1. SubSeq(u, 1, k) \in Seq(Nat)
    BY <1>1, <1>3
  <2>2. Total(SubSeq(u, 1, k)) \in Nat
    BY <2>1, RestTotal
  <2> QED BY <1>4, <2>2, Zenon
<1>7. /\ K \in 1 .. N + 1
      /\ K > 1 => fit(K) <= Good
      /\ K < N => fit(K + 1) > Good
  BY Zenon DEF First, R
<1>8. m = (IF K + 1 <= N THEN K ELSE N)
  BY DEF About
<1>9. whole = {k \in 1 .. N : k = 1 \/ fit(k) <= Good}
  BY Zenon DEF R, Fitting
<1> HIDE DEF fit, N, K, m, whole
<1>10. Good \in Nat
  BY LinkDumpAssumption
<1>11. m \in 1 .. N /\ m \in 0 .. N + 1 /\ K \in 0 .. N + 1 /\ m <= K
  BY <1>1, <1>7, <1>8
<1>12. m \in whole
  <2>1. CASE m = 1
    BY <1>9, <1>11, <2>1
  <2>2. CASE m > 1
    <3>1. fit(m) <= fit(K)
      BY <1>5, <1>11
    <3>2. K > 1
      <4>1. K \in Nat /\ m \in Nat /\ m >= 1 /\ m <= K
        BY <1>1, <1>11
      <4> QED BY <2>2, <4>1
    <3>3. fit(m) \in Nat /\ fit(K) \in Nat
      BY <1>6, <1>11
    <3>4. fit(m) <= Good
      BY <1>7, <1>10, <3>1, <3>2, <3>3
    <3> QED BY <1>9, <1>11, <3>4
  <2>3. m = 1 \/ m > 1
    BY <1>1, <1>11
  <2> QED BY <2>1, <2>2, <2>3
<1>13. ASSUME NEW j \in whole, ~(j <= m) PROVE FALSE
  <2>1. j \in 1 .. N /\ (j = 1 \/ fit(j) <= Good)
    BY <1>9
  <2>2. /\ K < N /\ K + 1 <= j /\ j # 1
        /\ K + 1 \in 0 .. N + 1 /\ j \in 0 .. N + 1
    BY <1>1, <1>7, <1>8, <1>13, <2>1
  <2>3. fit(K + 1) <= fit(j)
    BY <1>5, <2>2
  <2>4. fit(K + 1) \in Nat /\ fit(j) \in Nat
    BY <1>6, <2>2
  <2> QED BY <1>7, <1>10, <2>1, <2>2, <2>3, <2>4
<1> QED BY <1>12, <1>13 DEF m, whole

\* What ebtables_test.c prints is what there is to print of the first
\* datagram's interfaces, in order, or nothing when that was cut off.
THEOREM DumpPrintedComplete == LinkDumpSpec => []PrintedComplete
<1>1. ASSUME DumpInv PROVE PrintedComplete
  <2> DEFINE whole == {k \in 1 .. Len(links) : k = 1 \/
                         LengthOf(SubSeq(Answer, 1, k)) <= Good}
             last == CHOOSE k \in whole : \A j \in whole : j <= k
             m == About(links, dgram)
             all == {printed[k] : k \in DOMAIN printed}
             ordered == \A k \in DOMAIN printed : \A j \in 1 .. k - 1 :
                           Earlier(printed[j], printed[k])
  <2> SUFFICES ASSUME pc = "printed"
               PROVE  /\ all = IF LengthOf(dgram) > BufLen THEN {}
                               ELSE {e \in ToPrint : e[1] <= last}
                      /\ ordered
    BY Zenon DEF PrintedComplete
  <2>1. Received
    BY Zenon DEF Received
  <2>2. /\ links \in Seq(Links) /\ Len(links) \in Nat /\ Len(links) >= 1
        /\ First(links, dgram)
    BY <1>1, <2>1 DEF DumpInv, LinkDumpTypeOK, DatagramShape
  <2>3. dgram \in Seq(0 .. Len(links)) /\ Len(dgram) \in Nat
    BY <2>2 DEF First
  <2>4. \A e : LengthOf(e) = Size(links, e)
    BY Zenon DEF LengthOf, Length, Size, Lengths, MsgLen
  <2>5. Size(links, dgram) \in Nat /\ BufLen \in Nat
    BY <2>2, <2>3, RestOf, LinkDumpAssumption
  <2>6. CASE Size(links, dgram) > BufLen
    <3>1. printed = <<>>
      BY <1>1, <2>1, <2>6, Zenon DEF DumpInv, PrintedShape
    <3>2. DOMAIN printed = {}
      BY <3>1
    <3>3. all = {} /\ ordered
      BY <3>2, Zenon
    <3> QED BY <2>4, <2>6, <3>3, Zenon
  <2>7. CASE ~(Size(links, dgram) > BufLen)
    <3>1. Size(links, dgram) <= BufLen
      BY <2>5, <2>7
    <3>2. nlhdr = Len(dgram) + 1
      BY <1>1, <3>1 DEF DumpInv, PlaceShape
    <3>3. Shows(links, printed, Len(dgram) + 1, 1)
      BY <1>1, <2>1, <2>7, <3>2 DEF DumpInv, PrintedShape
    <3>4. whole = Fitting(links)
      <4>1. Answer = Reply(links)
        BY Zenon DEF Answer, Reply
      <4> QED BY <2>4, <4>1, Zenon DEF Fitting
    <3>5. ToPrint = Entries(links)
      <4>1. ASSUME NEW e \in (1 .. Len(links)) \X (1 .. MaxAttrs)
            PROVE  LookedInto(links, e[1]) <=>
                     links[e[1]].family \in {"AF_UNSPEC", "AF_INET6"}
        <5>1. e[1] # 0
          BY <2>2
        <5> QED BY <5>1, Zenon DEF LookedInto
      <4> QED BY <4>1, Zenon DEF ToPrint, Entries
    <3>6. ordered /\ all = {e \in Entries(links) :
                               Earlier(e, <<Len(dgram) + 1, 1>>)}
      BY <3>3, Zenon DEF Shows
    <3> HIDE DEF whole, ordered, all
    <3>7. m \in whole /\ \A j \in whole : j <= m
      BY <2>2, <3>4, FirstLongest
    <3>8. last \in whole /\ \A j \in whole : j <= last
      BY <3>7, Zenon
    <3>9. \A k \in whole : k \in Nat
      BY <3>4 DEF Fitting
    <3>10. m = IF Len(dgram) + 1 <= Len(links) THEN Len(dgram) ELSE Len(links)
      BY DEF About
    <3> HIDE DEF last, m
    <3>11. last = m
      BY <3>7, <3>8, <3>9
    <3>12. ASSUME NEW e \in Entries(links)
           PROVE  Earlier(e, <<Len(dgram) + 1, 1>>) <=> e[1] <= last
      <4>1. /\ e[1] \in Nat /\ e[2] \in Nat /\ e[2] >= 1
            /\ e[1] <= Len(links)
        BY <2>2, EntryIs
      <4>2. Earlier(e, <<Len(dgram) + 1, 1>>) <=> e[1] < Len(dgram) + 1
        BY <2>3, <4>1 DEF Earlier
      <4> QED BY <2>2, <2>3, <3>10, <3>11, <4>1, <4>2
    <3>13. all = {e \in ToPrint : e[1] <= last}
      BY <3>5, <3>6, <3>12
    <3> QED BY <2>4, <2>7, <3>6, <3>13, Zenon
  <2> QED BY <2>6, <2>7
<1> QED BY <1>1, DumpInvariance, PTL
=============================================================================
