--------------------------- MODULE GuestScan_proofs ---------------------------
(* Proofs about the scan of the guest code. GuestScan, for any limit of the scan and any
   guest code: the table that the scan leaves cuts the words it read into blocks, every
   branch finds the label of its target, and no code is left out.  GuestCRTrim, for any
   number of blocks, any accesses and any way the blocks end: scan_cr_bits() marks no
   block that needs the bit, and the stores which are left out or moved for its marks are
   never missed. *)
EXTENDS GuestScan, GuestCRTrim, TLAPS, WellFoundedInduction

(****************************** Basic facts ******************************)

(* A set of naturals with 0 and the successor of each of its members has them all. *)
LEMMA Induction ==
  ASSUME NEW S, 0 \in S, \A n \in Nat : n \in S => n + 1 \in S
  PROVE  Nat \subseteq S
<1> DEFINE R == OpToRel(<, Nat)
           T == Nat \ S
<1> SUFFICES ASSUME T # {} PROVE FALSE
  OBVIOUS
<1>1. T \subseteq Nat
  OBVIOUS
<1>2. PICK m \in T : \A k \in T : ~(<<k, m>> \in R)
  BY <1>1, WFMin, NatLessThanWellFounded
<1>3. \A k \in T : <<k, m>> \in R <=> k < m
  BY <1>1 DEF OpToRel
<1> HIDE DEF R
<1>4. m \in Nat /\ m # 0 /\ m \notin S
  BY <1>2
<1>5. m - 1 \in Nat /\ m - 1 < m
  BY <1>4
<1>6. m - 1 \notin T
  BY <1>2, <1>3, <1>5
<1> QED BY <1>4, <1>5, <1>6

(* One step of a binary search of n entries, of which way says where to go on from an
   entry, here what is found at it, and none what is found when no entry is left. *)
Probe(f, r, up, way, here, none) ==
  LET mid == (r[1] + r[2] + up) \div 2
  IN  IF r[1] > r[2] THEN none[r[1]]
      ELSE IF way[mid] = "here" THEN here[mid]
      ELSE IF way[mid] = "left" THEN f[<<r[1], mid - 1>>]
      ELSE f[<<mid + 1, r[2]>>]

Solves(f, n, up, way, here, none) == f = [r \in Ranges(n) |-> Probe(f, r, up, way, here, none)]

(* A probe asks for a smaller range only. *)
LEMMA ProbeNarrows ==
  ASSUME NEW n \in Nat, NEW up \in {0, 1}, NEW r \in Ranges(n), r[1] <= r[2],
         NEW mid, mid = (r[1] + r[2] + up) \div 2
  PROVE  /\ mid \in 1..n /\ r[1] <= mid /\ mid <= r[2]
         /\ <<r[1], mid - 1>> \in Ranges(n) /\ (mid - 1) - r[1] < r[2] - r[1]
         /\ <<mid + 1, r[2]>> \in Ranges(n) /\ r[2] - (mid + 1) < r[2] - r[1]
<1>1. r[1] \in 1..(n + 1) /\ r[2] \in 0..n
  BY DEF Ranges
<1>2. mid \in Int /\ r[1] <= mid /\ mid <= r[2]
  BY <1>1
<1> QED BY <1>1, <1>2 DEF Ranges

(* Hence the equation of a search has a solution. *)
LEMMA SearchExists ==
  ASSUME NEW n \in Nat, NEW up \in {0, 1}, NEW way, NEW here, NEW none
  PROVE  \E f : Solves(f, n, up, way, here, none)
<1> DEFINE P(f, r) == Probe(f, r, up, way, here, none)
           Good(f, m) == /\ f = [r \in Ranges(n) |-> f[r]]
                         /\ \A r \in Ranges(n) : r[2] - r[1] < m - 1 => f[r] = P(f, r)
           Upto == {m \in Nat : \E f : Good(f, m)}
<1>1. ASSUME NEW f, NEW g, NEW r \in Ranges(n),
             \A q \in Ranges(n) : q[2] - q[1] < r[2] - r[1] => f[q] = g[q]
      PROVE  P(f, r) = P(g, r)
  <2>1. CASE r[1] > r[2]
    BY <2>1 DEF Probe
  <2>2. CASE ~(r[1] > r[2])
    <3> DEFINE mid == (r[1] + r[2] + up) \div 2
    <3>1. r[1] <= r[2]
      BY <2>2 DEF Ranges
    <3>2. /\ <<r[1], mid - 1>> \in Ranges(n) /\ (mid - 1) - r[1] < r[2] - r[1]
          /\ <<mid + 1, r[2]>> \in Ranges(n) /\ r[2] - (mid + 1) < r[2] - r[1]
      BY <3>1, ProbeNarrows
    <3>3. f[<<r[1], mid - 1>>] = g[<<r[1], mid - 1>>] /\ f[<<mid + 1, r[2]>>] = g[<<mid + 1, r[2]>>]
      BY <1>1, <3>2
    <3> QED BY <3>3 DEF Probe
  <2> QED BY <2>1, <2>2
<1>2. 0 \in Upto
  <2> DEFINE g == [r \in Ranges(n) |-> none[r[1]]]
  <2>1. ASSUME NEW r \in Ranges(n), r[2] - r[1] < 0 - 1 PROVE g[r] = P(g, r)
    <3>1. r[1] > r[2]
      BY <2>1 DEF Ranges
    <3> QED BY <3>1 DEF Probe
  <2>2. Good(g, 0)
    BY <2>1
  <2> QED BY <2>2
<1>3. ASSUME NEW m \in Nat, m \in Upto PROVE m + 1 \in Upto
  <2>1. PICK f : Good(f, m)
    BY <1>3
  <2> DEFINE g == [r \in Ranges(n) |-> IF r[2] - r[1] = m - 1 THEN P(f, r) ELSE f[r]]
  <2>2. ASSUME NEW r \in Ranges(n), r[2] - r[1] < m PROVE g[r] = P(g, r)
    <3>1. r[1] \in Int /\ r[2] \in Int
      BY DEF Ranges
    <3>2. \A q \in Ranges(n) : q[2] - q[1] < r[2] - r[1] => f[q] = g[q]
      BY <2>2, <3>1 DEF Ranges
    <3>3. P(f, r) = P(g, r)
      BY <1>1, <3>2
    <3>4. CASE r[2] - r[1] = m - 1
      BY <3>3, <3>4
    <3>5. CASE r[2] - r[1] # m - 1
      <4>1. r[2] - r[1] < m - 1
        BY <2>2, <3>1, <3>5
      <4>2. f[r] = P(f, r)
        BY <2>1, <4>1
      <4>3. g[r] = f[r]
        BY <3>5
      <4> HIDE DEF P, g
      <4> QED BY <3>3, <4>2, <4>3
    <3> QED BY <3>4, <3>5
  <2>3. g = [r \in Ranges(n) |-> g[r]]
    OBVIOUS
  <2>4. \A r \in Ranges(n) : r[2] - r[1] < (m + 1) - 1 => g[r] = P(g, r)
    <3>1. (m + 1) - 1 = m
      OBVIOUS
    <3> HIDE DEF P, g
    <3> QED BY <2>2, <3>1
  <2> HIDE DEF P, g
  <2> QED BY <2>3, <2>4
<1>4. n + 1 \in Upto
  <2> HIDE DEF Upto
  <2> QED BY <1>2, <1>3, Induction
<1>5. PICK f : Good(f, n + 1)
  BY <1>4
<1>6. \A r \in Ranges(n) : f[r] = P(f, r)
  <2>1. \A r \in Ranges(n) : r[2] - r[1] < (n + 1) - 1
    BY DEF Ranges
  <2> HIDE DEF P
  <2> QED BY <1>5, <2>1
<1> HIDE DEF P
<1>7. f = [r \in Ranges(n) |-> P(f, r)]
  BY <1>5, <1>6
<1> QED BY <1>7 DEF P, Solves

(****************************** The block table ******************************)

(* One step of each search. *)
Sought(f, bs, a, r) ==
  LET mid == (r[1] + r[2]) \div 2
  IN  IF r[1] > r[2] THEN r[1]
      ELSE IF a = bs[mid].start THEN mid
      ELSE IF a < bs[mid].start THEN f[<<r[1], mid - 1>>]
      ELSE f[<<mid + 1, r[2]>>]
LabelSought(f, bs, a, r) ==
  LET mid == (r[1] + r[2] + 1) \div 2
      m   == bs[mid]
  IN  IF r[1] > r[2] THEN "assert"
      ELSE IF a = m.start THEN IF m.is_branch_target THEN "found" ELSE "loop"
      ELSE IF a < m.start THEN f[<<r[1], mid - 1>>]
      ELSE IF a > m.start + m.len - 1 THEN f[<<mid + 1, r[2]>>]
      ELSE "assert"

(* The search of get_block() obeys its equation. *)
LEMMA SearchRecur ==
  ASSUME NEW bs \in Seq(BlockInfo), NEW a
  PROVE  \A r \in Ranges(Len(bs)) :
           Search(bs, a)[r] = Sought(Search(bs, a), bs, a, r)
<1> DEFINE n == Len(bs)
           way == [k \in 1..n |-> IF a = bs[k].start THEN "here"
                                  ELSE IF a < bs[k].start THEN "left" ELSE "right"]
           id == [k \in 1..(n + 1) |-> k]
           Eq(f, r) == Sought(f, bs, a, r)
<1>1. n \in Nat
  OBVIOUS
<1>2. \A f : \A r \in Ranges(n) : Probe(f, r, 0, way, id, id) = Eq(f, r)
  <2> SUFFICES ASSUME NEW f, NEW r \in Ranges(n) PROVE Probe(f, r, 0, way, id, id) = Eq(f, r)
    OBVIOUS
  <2> DEFINE mid == (r[1] + r[2]) \div 2
  <2>1. r[1] \in 1..(n + 1) /\ r[2] \in 0..n
    BY <1>1 DEF Ranges
  <2>2. (r[1] + r[2] + 0) \div 2 = mid
    BY <2>1
  <2>3. CASE r[1] > r[2]
    BY <2>1, <2>3 DEF Probe, Sought
  <2>4. CASE ~(r[1] > r[2])
    <3>1. mid \in 1..n
      BY <1>1, <2>1, <2>2, <2>4, ProbeNarrows
    <3>2. /\ way[mid] = (IF a = bs[mid].start THEN "here"
                         ELSE IF a < bs[mid].start THEN "left" ELSE "right")
          /\ id[mid] = mid
      BY <3>1
    <3> HIDE DEF mid, way, id
    <3>3. Probe(f, r, 0, way, id, id) = IF way[mid] = "here" THEN id[mid]
                                        ELSE IF way[mid] = "left" THEN f[<<r[1], mid - 1>>]
                                        ELSE f[<<mid + 1, r[2]>>]
      BY <2>2, <2>4 DEF Probe
    <3>4. Eq(f, r) = IF a = bs[mid].start THEN mid
                     ELSE IF a < bs[mid].start THEN f[<<r[1], mid - 1>>]
                     ELSE f[<<mid + 1, r[2]>>]
      BY <2>4 DEF mid, Sought
    <3> HIDE DEF Eq
    <3> QED BY <3>2, <3>3, <3>4
  <2> QED BY <2>3, <2>4
<1> HIDE DEF way, id, n
<1>3. PICK f : Solves(f, n, 0, way, id, id)
  <2>1. 0 \in {0, 1}
    OBVIOUS
  <2> QED BY <1>1, <2>1, SearchExists, Zenon
<1> USE DEF n
<1>4. f = [r \in Ranges(n) |-> Eq(f, r)]
  <2> HIDE DEF Eq
  <2> QED BY <1>2, <1>3 DEF Solves
<1>5. Search(bs, a) = CHOOSE g : g = [r \in Ranges(n) |-> Eq(g, r)]
  BY DEF Search, Sought
<1>6. Search(bs, a) = [r \in Ranges(n) |-> Eq(Search(bs, a), r)]
  <2> HIDE DEF Eq
  <2> QED BY <1>4, <1>5
<1>7. \A r \in Ranges(n) : Search(bs, a)[r] = Eq(Search(bs, a), r)
  <2> HIDE DEF Eq
  <2> QED BY <1>6
<1> QED BY <1>7

(* The steps of the search of translate_branch() do as well. *)
LEMMA LabelStepsRecur ==
  ASSUME NEW bs \in Seq(BlockInfo), NEW a
  PROVE  \A r \in Ranges(Len(bs)) :
           LabelSteps(bs, a)[r] = LabelSought(LabelSteps(bs, a), bs, a, r)
<1> DEFINE n == Len(bs)
           way == [k \in 1..n |-> IF a = bs[k].start THEN "here"
                                  ELSE IF a < bs[k].start THEN "left"
                                  ELSE IF a > bs[k].start + bs[k].len - 1 THEN "right" ELSE "here"]
           hit == [k \in 1..n |-> IF a = bs[k].start
                                  THEN IF bs[k].is_branch_target THEN "found" ELSE "loop"
                                  ELSE "assert"]
           no == [k \in 1..(n + 1) |-> "assert"]
           Eq(f, r) == LabelSought(f, bs, a, r)
<1>1. n \in Nat
  OBVIOUS
<1>2. \A f : \A r \in Ranges(n) : Probe(f, r, 1, way, hit, no) = Eq(f, r)
  <2> SUFFICES ASSUME NEW f, NEW r \in Ranges(n) PROVE Probe(f, r, 1, way, hit, no) = Eq(f, r)
    OBVIOUS
  <2> DEFINE mid == (r[1] + r[2] + 1) \div 2
  <2>1. r[1] \in 1..(n + 1) /\ r[2] \in 0..n
    BY <1>1 DEF Ranges
  <2>3. CASE r[1] > r[2]
    BY <2>1, <2>3 DEF Probe, LabelSought
  <2>4. CASE ~(r[1] > r[2])
    <3>1. mid \in 1..n
      BY <1>1, <2>1, <2>4, ProbeNarrows
    <3>2. /\ way[mid] = (IF a = bs[mid].start THEN "here"
                         ELSE IF a < bs[mid].start THEN "left"
                         ELSE IF a > bs[mid].start + bs[mid].len - 1 THEN "right" ELSE "here")
          /\ hit[mid] = (IF a = bs[mid].start
                         THEN IF bs[mid].is_branch_target THEN "found" ELSE "loop"
                         ELSE "assert")
      BY <3>1
    <3> HIDE DEF mid, way, hit, no
    <3>3. Probe(f, r, 1, way, hit, no) = IF way[mid] = "here" THEN hit[mid]
                                         ELSE IF way[mid] = "left" THEN f[<<r[1], mid - 1>>]
                                         ELSE f[<<mid + 1, r[2]>>]
      BY <2>4 DEF Probe, mid
    <3>4. Eq(f, r) = IF a = bs[mid].start THEN IF bs[mid].is_branch_target THEN "found" ELSE "loop"
                     ELSE IF a < bs[mid].start THEN f[<<r[1], mid - 1>>]
                     ELSE IF a > bs[mid].start + bs[mid].len - 1 THEN f[<<mid + 1, r[2]>>]
                     ELSE "assert"
      BY <2>4 DEF mid, LabelSought
    <3> HIDE DEF Eq
    <3> QED BY <3>2, <3>3, <3>4
  <2> QED BY <2>3, <2>4
<1> HIDE DEF way, hit, no, n
<1>3. PICK f : Solves(f, n, 1, way, hit, no)
  <2>1. 1 \in {0, 1}
    OBVIOUS
  <2> QED BY <1>1, <2>1, SearchExists, Zenon
<1> USE DEF n
<1>4. f = [r \in Ranges(n) |-> Eq(f, r)]
  <2> HIDE DEF Eq
  <2> QED BY <1>2, <1>3 DEF Solves
<1>5. LabelSteps(bs, a) = CHOOSE g : g = [r \in Ranges(n) |-> Eq(g, r)]
  BY DEF LabelSteps, LabelSought
<1>6. LabelSteps(bs, a) = [r \in Ranges(n) |-> Eq(LabelSteps(bs, a), r)]
  <2> HIDE DEF Eq
  <2> QED BY <1>4, <1>5
<1>7. \A r \in Ranges(n) : LabelSteps(bs, a)[r] = Eq(LabelSteps(bs, a), r)
  <2> HIDE DEF Eq
  <2> QED BY <1>6
<1> QED BY <1>7

(* The fields of the entries. *)
LEMMA EntryFacts ==
  ASSUME NEW bs \in Seq(BlockInfo)
  PROVE  /\ Len(bs) \in Nat /\ DOMAIN bs = 1..Len(bs)
         /\ \A k \in 1..Len(bs) : bs[k] \in BlockInfo
         /\ \A b \in BlockInfo : b.start \in Int /\ b.len \in Int /\ End(b) \in Int
                                /\ 0 <= b.start /\ b.start < MaxInsns /\ 0 <= b.len
         /\ \A k \in 1..Len(bs) : bs[k].start \in Int /\ bs[k] \in Range(bs)
         /\ \A b \in Range(bs) : b \in BlockInfo /\ \E k \in 1..Len(bs) : b = bs[k]
<1>1. Len(bs) \in Nat /\ DOMAIN bs = 1..Len(bs) /\ \A k \in 1..Len(bs) : bs[k] \in BlockInfo
  OBVIOUS
<1>2. \A b \in BlockInfo : b.start \in Int /\ b.len \in Int /\ End(b) \in Int
                          /\ 0 <= b.start /\ b.start < MaxInsns /\ 0 <= b.len
  BY ScanAssumption DEF BlockInfo, Words, End
<1>3. \A b \in Range(bs) : b \in BlockInfo /\ \E k \in 1..Len(bs) : b = bs[k]
  BY <1>1 DEF Range
<1>4. \A k \in 1..Len(bs) : bs[k].start \in Int /\ bs[k] \in Range(bs)
  BY <1>1, <1>2 DEF Range
<1> QED BY <1>1, <1>2, <1>3, <1>4

(* What an entry says of the entries before and after it. *)
LEMMA OrderedFacts ==
  ASSUME NEW bs \in Seq(BlockInfo), Ordered(bs), NEW k \in 1..Len(bs), NEW a \in Int
  PROVE  /\ bs[k].start <= a => \A j \in 1..(k - 1) : bs[j].start < a
         /\ bs[k].start < a => \A j \in 1..k : bs[j].start < a
         /\ a <= bs[k].start => \A j \in k..Len(bs) : a <= bs[j].start
<1>1. Len(bs) \in Nat /\ \A j \in 1..Len(bs) : bs[j].start \in Int
  BY EntryFacts
<1>2. \A j \in 1..Len(bs) : \A i \in 1..Len(bs) : i < j => bs[i].start < bs[j].start
  BY EntryFacts DEF Ordered
<1>3. \A j \in 1..Len(bs) : j < k => bs[j].start < bs[k].start
  BY <1>2
<1>4. \A j \in 1..Len(bs) : k < j => bs[k].start < bs[j].start
  BY <1>2
<1>5. bs[k].start <= a => \A j \in 1..(k - 1) : bs[j].start < a
  <2> SUFFICES ASSUME bs[k].start <= a, NEW j \in 1..(k - 1) PROVE bs[j].start < a
    OBVIOUS
  <2>1. j \in 1..Len(bs) /\ j < k
    BY <1>1
  <2> QED BY <1>1, <1>3, <2>1
<1>6. bs[k].start < a => \A j \in 1..k : bs[j].start < a
  <2> SUFFICES ASSUME bs[k].start < a, NEW j \in 1..k PROVE bs[j].start < a
    OBVIOUS
  <2>1. j \in 1..Len(bs) /\ (j < k \/ j = k)
    BY <1>1
  <2> QED BY <1>1, <1>3, <2>1
<1>7. a <= bs[k].start => \A j \in k..Len(bs) : a <= bs[j].start
  <2> SUFFICES ASSUME a <= bs[k].start, NEW j \in k..Len(bs) PROVE a <= bs[j].start
    OBVIOUS
  <2>1. j \in 1..Len(bs) /\ (k < j \/ j = k)
    BY <1>1
  <2> QED BY <1>1, <1>4, <2>1
<1> QED BY <1>5, <1>6, <1>7

(* The index that the search of get_block() finds parts the entries before address a
   from the others. *)
LEMMA PositionFacts ==
  ASSUME NEW bs \in Seq(BlockInfo), Ordered(bs), NEW a \in Int
  PROVE  /\ Position(bs, a) \in 1..(Len(bs) + 1)
         /\ \A j \in 1..(Position(bs, a) - 1) : bs[j].start < a
         /\ \A j \in Position(bs, a)..Len(bs) : a <= bs[j].start
<1> DEFINE n == Len(bs)
           Around(r) == /\ r[1] <= r[2] + 1
                        /\ \A j \in 1..(r[1] - 1) : bs[j].start < a
                        /\ \A j \in (r[2] + 1)..n : a <= bs[j].start
           Parts(p) == /\ p \in 1..(n + 1)
                       /\ \A j \in 1..(p - 1) : bs[j].start < a
                       /\ \A j \in p..n : a <= bs[j].start
           S(r) == Search(bs, a)[r]
           Good(r, m) == r[2] - r[1] < m - 1 /\ Around(r) => Parts(S(r))
           All == {m \in Nat : \A r \in Ranges(n) : Good(r, m)}
<1>1. n \in Nat /\ \A j \in 1..n : bs[j].start \in Int
  BY EntryFacts
<1>3. 0 \in All
  BY <1>1 DEF Ranges
<1>4. ASSUME NEW m \in Nat, m \in All PROVE m + 1 \in All
  <2> SUFFICES ASSUME NEW r \in Ranges(n), r[2] - r[1] < (m + 1) - 1, Around(r) PROVE Parts(S(r))
    OBVIOUS
  <2>1. r[1] \in 1..(n + 1) /\ r[2] \in 0..n
    BY <1>1 DEF Ranges
  <2> DEFINE mid == (r[1] + r[2]) \div 2
  <2>2. S(r) = IF r[1] > r[2] THEN r[1]
               ELSE IF a = bs[mid].start THEN mid
               ELSE IF a < bs[mid].start THEN S(<<r[1], mid - 1>>)
               ELSE S(<<mid + 1, r[2]>>)
    <3>1. Search(bs, a)[r] = Sought(Search(bs, a), bs, a, r)
      BY SearchRecur
    <3> QED BY <3>1 DEF Sought
  <2>3. CASE r[1] > r[2]
    <3>1. r[1] = r[2] + 1 /\ S(r) = r[1]
      BY <2>1, <2>2, <2>3
    <3> HIDE DEF S
    <3> QED BY <2>1, <3>1
  <2>4. CASE ~(r[1] > r[2])
    <3>1. mid = (r[1] + r[2] + 0) \div 2 /\ r[1] <= r[2]
      BY <2>1, <2>4
    <3>2. /\ mid \in 1..n /\ r[1] <= mid /\ mid <= r[2]
          /\ <<r[1], mid - 1>> \in Ranges(n) /\ (mid - 1) - r[1] < r[2] - r[1]
          /\ <<mid + 1, r[2]>> \in Ranges(n) /\ r[2] - (mid + 1) < r[2] - r[1]
      BY <1>1, <3>1, ProbeNarrows
    <3> HIDE DEF mid, S
    <3>3. CASE a = bs[mid].start
      <4>1. S(r) = mid
        BY <2>2, <2>4, <3>3
      <4>2. bs[mid].start <= a /\ a <= bs[mid].start
        BY <1>1, <3>2, <3>3
      <4>3. /\ \A j \in 1..(mid - 1) : bs[j].start < a
            /\ \A j \in mid..n : a <= bs[j].start
        BY <3>2, <4>2, OrderedFacts
      <4> QED BY <1>1, <3>2, <4>1, <4>2, <4>3
    <3>4. CASE a < bs[mid].start
      <4> DEFINE q == <<r[1], mid - 1>>
      <4>1. q[1] = r[1] /\ q[2] = mid - 1 /\ q \in Ranges(n) /\ q[2] - q[1] < m - 1
        BY <2>1, <3>2
      <4>2. \A j \in mid..n : a <= bs[j].start
        <5>1. a <= bs[mid].start
          BY <1>1, <3>2, <3>4
        <5> QED BY <3>2, <5>1, OrderedFacts
      <4>3. Around(q)
        BY <2>1, <3>2, <4>1, <4>2
      <4>4. S(r) = S(q)
        BY <1>1, <2>2, <2>4, <3>2, <3>4
      <4>5. Parts(S(q))
        <5> HIDE DEF Around, Parts, q
        <5> QED BY <1>4, <4>1, <4>3
      <4> HIDE DEF Parts, q
      <4> QED BY <4>4, <4>5
    <3>5. CASE a > bs[mid].start
      <4> DEFINE q == <<mid + 1, r[2]>>
      <4>1. q[1] = mid + 1 /\ q[2] = r[2] /\ q \in Ranges(n) /\ q[2] - q[1] < m - 1
        <5>1. q[1] = mid + 1 /\ q[2] = r[2] /\ q \in Ranges(n)
          BY <3>2
        <5> HIDE DEF n, Around, q
        <5>2. mid \in Int /\ r[1] \in Int /\ r[2] \in Int /\ r[2] - r[1] < m
          BY <1>1, <2>1, <3>2
        <5>3. q[2] - q[1] < r[2] - r[1]
          BY <3>2, <5>1
        <5> QED BY <5>1, <5>2, <5>3
      <4>2. \A j \in 1..mid : bs[j].start < a
        <5>1. bs[mid].start < a
          BY <1>1, <3>2, <3>5
        <5> QED BY <3>2, <5>1, OrderedFacts
      <4>3. Around(q)
        <5> HIDE DEF q
        <5>1. mid \in Int /\ r[2] \in Int /\ mid <= r[2] /\ \A j \in (r[2] + 1)..n : a <= bs[j].start
          BY <1>1, <2>1, <3>2
        <5>2. q[1] <= q[2] + 1 /\ \A j \in 1..(q[1] - 1) : bs[j].start < a
          BY <4>1, <4>2, <5>1
        <5> QED BY <4>1, <5>1, <5>2
      <4>4. S(r) = S(q)
        BY <1>1, <2>2, <2>4, <3>2, <3>5
      <4>5. Parts(S(q))
        <5> HIDE DEF Around, Parts, q
        <5> QED BY <1>4, <4>1, <4>3
      <4> HIDE DEF Parts, q
      <4> QED BY <4>4, <4>5
    <3> QED BY <1>1, <3>2, <3>3, <3>4, <3>5
  <2> QED BY <2>3, <2>4
<1>5. n + 1 \in All
  <2> HIDE DEF All
  <2> QED BY <1>1, <1>3, <1>4, Induction
<1> DEFINE r0 == <<1, n>>
<1>6. r0 \in Ranges(n) /\ r0[2] - r0[1] < (n + 1) - 1 /\ Around(r0)
  BY <1>1 DEF Ranges
<1>7. Parts(S(r0))
  <2> HIDE DEF S, Parts, Around, r0
  <2> QED BY <1>5, <1>6
<1> QED BY <1>7 DEF Position

(* An entry for address a is where the search ends. *)
LEMMA PositionIs ==
  ASSUME NEW bs \in Seq(BlockInfo), Ordered(bs), NEW k \in 1..Len(bs)
  PROVE  Position(bs, bs[k].start) = k /\ Found(bs, bs[k].start)
<1> DEFINE a == bs[k].start
           p == Position(bs, a)
<1>1. Len(bs) \in Nat /\ a \in Int /\ \A j \in 1..Len(bs) : bs[j].start \in Int
  BY EntryFacts
<1>2. /\ p \in 1..(Len(bs) + 1)
      /\ \A j \in 1..(p - 1) : bs[j].start < a
      /\ \A j \in p..Len(bs) : a <= bs[j].start
  <2> HIDE DEF a
  <2> QED BY <1>1, PositionFacts
<1> HIDE DEF p
<1>3. \A i \in 1..Len(bs) : \A j \in 1..Len(bs) : i < j => bs[i].start < bs[j].start
  BY EntryFacts DEF Ordered
<1>4. p <= k
  <2>1. CASE k < p
    <3>1. k \in 1..(p - 1)
      BY <1>1, <1>2, <2>1
    <3>2. bs[k].start < a
      BY <1>2, <3>1
    <3> QED BY <1>1, <3>2
  <2> QED BY <1>1, <1>2, <2>1
<1>5. ~(p < k)
  BY <1>1, <1>2, <1>3
<1>6. p = k
  BY <1>1, <1>2, <1>4, <1>5
<1> QED BY <1>1, <1>6 DEF p, Found

(* Inserting an element moves those after it up. *)
LEMMA InsertAtFacts ==
  ASSUME NEW S, NEW s \in Seq(S), NEW e \in S, NEW p \in 1..(Len(s) + 1), NEW t, t = InsertAt(s, p, e)
  PROVE  /\ t \in Seq(S) /\ Len(t) = Len(s) + 1 /\ t[p] = e
         /\ \A k \in 1..(p - 1) : t[k] = s[k]
         /\ \A k \in p..Len(s) : t[k + 1] = s[k]
<1> DEFINE n == Len(s)
           u == SubSeq(s, 1, p - 1)
           v == SubSeq(s, p, n)
           w == u \o <<e>>
<1>1. n \in Nat /\ p \in Int /\ 1 <= p /\ p <= n + 1
  OBVIOUS
<1>2. u \in Seq(S) /\ Len(u) = p - 1 /\ \A k \in 1..(p - 1) : u[k] = s[k]
  <2>1. u \in Seq(S) /\ Len(u) = p - 1
    BY <1>1
  <2>2. \A k \in 1..(p - 1) : u[k] = s[k]
    BY <1>1
  <2> QED BY <2>1, <2>2
<1>3. v \in Seq(S) /\ Len(v) = (n - p) + 1 /\ \A k \in 1..((n - p) + 1) : v[k] = s[(p + k) - 1]
  <2>1. v \in Seq(S) /\ Len(v) = (n - p) + 1
    BY <1>1
  <2>2. \A k \in 1..((n - p) + 1) : v[k] = s[(p + k) - 1]
    BY <1>1
  <2> QED BY <2>1, <2>2
<1> HIDE DEF u, v
<1>4. w \in Seq(S) /\ Len(w) = p /\ w[p] = e /\ \A k \in 1..(p - 1) : w[k] = s[k]
  BY <1>1, <1>2
<1> HIDE DEF w
<1>5. t = w \o v
  BY DEF InsertAt, w, u, v
<1>6. t \in Seq(S) /\ Len(t) = n + 1
  BY <1>1, <1>3, <1>4, <1>5
<1>7. t[p] = e /\ \A k \in 1..(p - 1) : t[k] = s[k]
  BY <1>1, <1>3, <1>4, <1>5
<1>8. ASSUME NEW k \in p..n PROVE t[k + 1] = s[k]
  <2>1. k + 1 \in (p + 1)..(p + Len(v)) /\ (k + 1) - p \in 1..((n - p) + 1)
    BY <1>1, <1>3
  <2>2. t[k + 1] = v[(k + 1) - p]
    BY <1>1, <1>3, <1>4, <1>5, <2>1
  <2>3. (p + ((k + 1) - p)) - 1 = k
    BY <1>1
  <2> QED BY <1>3, <2>1, <2>2, <2>3
<1> QED BY <1>6, <1>7, <1>8

(* What get_block() leaves: the entries there were, and one for address a. *)
InsertsOK(new, bs, a) ==
  /\ new \in Seq(BlockInfo) /\ Ordered(new)
  /\ Len(new) \in {Len(bs), Len(bs) + 1}
  /\ Position(bs, a) \in 1..Len(new) /\ new[Position(bs, a)].start = a
  /\ Range(bs) \subseteq Range(new)
  /\ \A b \in Range(new) : b \in Range(bs) \/ b = NewBlock(a)

(* The table stays sorted when get_block() enlarges it. *)
LEMMA InsertedFacts ==
  ASSUME NEW bs \in Seq(BlockInfo), Ordered(bs), NEW a \in Words
  PROVE  InsertsOK(Inserted(bs, a), bs, a)
<1> DEFINE n == Len(bs)
           p == Position(bs, a)
           new == Inserted(bs, a)
           e == NewBlock(a)
<1>0. a \in Int /\ n \in Nat
  BY ScanAssumption DEF Words
<1>1. /\ p \in 1..(n + 1)
      /\ \A j \in 1..(p - 1) : bs[j].start < a
      /\ \A j \in p..n : a <= bs[j].start
  BY <1>0, PositionFacts
<1>2. CASE Found(bs, a)
  <2>1. new = bs
    BY <1>2 DEF Inserted
  <2>2. p \in 1..n /\ bs[p].start = a
    BY <1>0, <1>1, <1>2 DEF Found
  <2> HIDE DEF p, new
  <2>3. InsertsOK(bs, bs, a)
    BY <1>0, <2>2 DEF InsertsOK, p
  <2> QED BY <2>1, <2>3 DEF new
<1>3. CASE ~Found(bs, a)
  <2> DEFINE t == InsertAt(bs, p, e)
  <2>1. new = t
    BY <1>3 DEF Inserted
  <2>2. e \in BlockInfo /\ e.start = a
    BY ScanAssumption DEF NewBlock, BlockInfo
  <2> HIDE DEF p, new, e
  <2>3. /\ t \in Seq(BlockInfo) /\ Len(t) = n + 1 /\ t[p] = e
        /\ \A k \in 1..(p - 1) : t[k] = bs[k]
        /\ \A k \in p..n : t[k + 1] = bs[k]
    BY <1>1, <2>2, InsertAtFacts
  <2> HIDE DEF t
  <2>4. \A j \in p..n : a < bs[j].start
    <3> SUFFICES ASSUME NEW j \in p..n, bs[j].start = a PROVE FALSE
      BY <1>0, <1>1, EntryFacts
    <3>1. j \in 1..n
      BY <1>0, <1>1
    <3> QED BY <1>3, <3>1, PositionIs
  <2>5. \A k \in 1..(n + 1) : \/ k \in 1..(p - 1) /\ t[k] = bs[k]
                              \/ k = p /\ t[k] = e
                              \/ k \in (p + 1)..(n + 1) /\ k - 1 \in p..n /\ t[k] = bs[k - 1]
    <3> SUFFICES ASSUME NEW k \in 1..(n + 1), k \notin 1..(p - 1), k # p
                 PROVE  k \in (p + 1)..(n + 1) /\ k - 1 \in p..n /\ t[k] = bs[k - 1]
      BY <2>3
    <3>1. k \in (p + 1)..(n + 1) /\ k - 1 \in p..n /\ (k - 1) + 1 = k
      BY <1>0, <1>1
    <3> QED BY <2>3, <3>1
  <2>6. \A j \in 1..n : \A k \in 1..n : j < k => bs[j].start < bs[k].start
    BY EntryFacts DEF Ordered
  <2>7. \A k \in 1..n : bs[k].start \in Int
    BY EntryFacts
  <2>8. Ordered(t)
    <3> SUFFICES ASSUME NEW j \in 1..(n + 1), NEW k \in 1..(n + 1), j < k
                 PROVE  t[j].start < t[k].start
      <4>1. DOMAIN t = 1..(n + 1)
        BY <2>3
      <4> QED BY <4>1 DEF Ordered
    <3>1. CASE j \in 1..(p - 1)
      <4>1. t[j] = bs[j] /\ j \in 1..n /\ bs[j].start < a
        BY <1>0, <1>1, <2>3, <3>1
      <4>2. CASE k \in 1..(p - 1)
        BY <1>0, <1>1, <2>3, <2>6, <4>1, <4>2
      <4>3. CASE k = p
        BY <2>2, <2>3, <4>1, <4>3
      <4>4. CASE k \in (p + 1)..(n + 1) /\ k - 1 \in p..n /\ t[k] = bs[k - 1]
        <5>1. k - 1 \in 1..n
          BY <1>0, <1>1, <4>4
        <5> QED BY <1>0, <2>4, <2>7, <4>1, <4>4, <5>1
      <4> QED BY <2>5, <4>2, <4>3, <4>4
    <3>2. CASE j = p
      <4>1. k \in (p + 1)..(n + 1) /\ k - 1 \in p..n /\ t[k] = bs[k - 1]
        BY <1>0, <1>1, <2>5, <3>2
      <4> QED BY <2>2, <2>3, <2>4, <3>2, <4>1
    <3>3. CASE j \in (p + 1)..(n + 1) /\ j - 1 \in p..n /\ t[j] = bs[j - 1]
      <4>1. k \in (p + 1)..(n + 1) /\ k - 1 \in p..n /\ t[k] = bs[k - 1]
        BY <1>0, <1>1, <2>5, <3>3
      <4>2. j - 1 \in 1..n /\ k - 1 \in 1..n /\ j - 1 < k - 1
        BY <1>0, <1>1, <3>3, <4>1
      <4> QED BY <2>6, <3>3, <4>1, <4>2
    <3> QED BY <2>5, <3>1, <3>2, <3>3
  <2>9. Range(bs) \subseteq Range(t)
    <3> SUFFICES ASSUME NEW k \in 1..n PROVE bs[k] \in Range(t)
      BY EntryFacts DEF Range
    <3>1. CASE k \in 1..(p - 1)
      <4>1. k \in 1..(n + 1) /\ t[k] = bs[k]
        BY <1>0, <2>3, <3>1
      <4> QED BY <2>3, <4>1, EntryFacts
    <3>2. CASE k \notin 1..(p - 1)
      <4>1. k \in p..n
        BY <1>0, <1>1, <3>2
      <4>2. k + 1 \in 1..(n + 1) /\ t[k + 1] = bs[k]
        BY <1>0, <2>3, <4>1
      <4> QED BY <2>3, <4>2, EntryFacts
    <3> QED BY <3>1, <3>2
  <2>10. \A b \in Range(t) : b \in Range(bs) \/ b = e
    <3> SUFFICES ASSUME NEW k \in 1..(n + 1) PROVE t[k] \in Range(bs) \/ t[k] = e
      <4>1. DOMAIN t = 1..(n + 1)
        BY <2>3
      <4> QED BY <4>1 DEF Range
    <3>1. CASE k \in 1..(p - 1)
      <4>1. k \in 1..n /\ t[k] = bs[k]
        BY <1>0, <1>1, <2>3, <3>1
      <4> QED BY <4>1, EntryFacts
    <3>2. CASE k - 1 \in p..n /\ t[k] = bs[k - 1]
      <4>1. k - 1 \in 1..n
        BY <1>0, <1>1, <3>2
      <4> QED BY <3>2, <4>1, EntryFacts
    <3> QED BY <2>3, <2>5, <3>1, <3>2
  <2>11. p \in 1..Len(t) /\ t[p].start = a
    BY <1>1, <2>2, <2>3
  <2>12. InsertsOK(t, bs, a)
    BY <2>3, <2>8, <2>9, <2>10, <2>11 DEF InsertsOK, p, e
  <2> QED BY <2>1, <2>12 DEF new
<1> QED BY <1>2, <1>3

(* The entries that stay when entry k is replaced by e, for the same address. *)
ReplacesOK(new, bs, k, e) ==
  /\ new \in Seq(BlockInfo) /\ Ordered(new) /\ Len(new) = Len(bs)
  /\ new[k] = e /\ \A j \in 1..Len(bs) : j # k => new[j] = bs[j]
  /\ e \in Range(new)
  /\ \A b \in Range(bs) : b.start # e.start => b \in Range(new)
  /\ \A b \in Range(new) : b = e \/ (b \in Range(bs) /\ b.start # e.start)

(* An entry is replaced in place. *)
LEMMA ReplacedFacts ==
  ASSUME NEW bs \in Seq(BlockInfo), Ordered(bs), NEW k \in 1..Len(bs),
         NEW e \in BlockInfo, e.start = bs[k].start
  PROVE  ReplacesOK([bs EXCEPT ![k] = e], bs, k, e)
<1> DEFINE n == Len(bs)
           new == [bs EXCEPT ![k] = e]
<1>1. /\ n \in Nat /\ DOMAIN bs = 1..n
      /\ \A j \in 1..n : bs[j].start \in Int /\ bs[j] \in Range(bs)
  BY EntryFacts
<1>2. new \in Seq(BlockInfo) /\ Len(new) = n /\ DOMAIN new = 1..n
  OBVIOUS
<1>3. new[k] = e /\ \A j \in 1..n : j # k => new[j] = bs[j]
  BY <1>1
<1> HIDE DEF new
<1>4. \A j \in 1..n : new[j].start = bs[j].start
  BY <1>3
<1>5. \A i \in 1..n : \A j \in 1..n : i < j => bs[i].start < bs[j].start
  BY <1>1 DEF Ordered
<1>6. Ordered(new)
  BY <1>2, <1>4, <1>5 DEF Ordered
<1>7. \A j \in 1..n : j # k => bs[j].start # bs[k].start
  <2> SUFFICES ASSUME NEW j \in 1..n, j # k PROVE bs[j].start # bs[k].start
    OBVIOUS
  <2>1. CASE j < k
    BY <1>1, <1>5, <2>1
  <2>2. CASE k < j
    BY <1>1, <1>5, <2>2
  <2> QED BY <1>1, <2>1, <2>2
<1>8. e \in Range(new)
  BY <1>2, <1>3 DEF Range
<1>9. \A b \in Range(bs) : b.start # e.start => b \in Range(new)
  <2> SUFFICES ASSUME NEW j \in 1..n, bs[j].start # e.start PROVE bs[j] \in Range(new)
    BY <1>1 DEF Range
  <2> QED BY <1>2, <1>3 DEF Range
<1>10. \A b \in Range(new) : b = e \/ (b \in Range(bs) /\ b.start # e.start)
  <2> SUFFICES ASSUME NEW j \in 1..n
               PROVE  new[j] = e \/ (new[j] \in Range(bs) /\ new[j].start # e.start)
    BY <1>2 DEF Range
  <2> QED BY <1>1, <1>3, <1>7
<1>11. ReplacesOK(new, bs, k, e)
  BY <1>2, <1>3, <1>6, <1>8, <1>9, <1>10 DEF ReplacesOK
<1> QED BY <1>11 DEF new

(* The addresses rise by at least one from entry to entry, so that the table never
   has more entries than the scan has words. *)
LEMMA TableFits ==
  ASSUME NEW bs \in Seq(BlockInfo), Ordered(bs)
  PROVE  Len(bs) <= MaxInsns
<1> DEFINE n == Len(bs)
           S == {m \in Nat : m + 1 \in 1..n => m <= bs[m + 1].start}
<1>1. /\ n \in Nat /\ MaxInsns \in Nat
      /\ \A j \in 1..n : bs[j].start \in Int /\ 0 <= bs[j].start /\ bs[j].start < MaxInsns
  BY EntryFacts, ScanAssumption
<1>2. \A i \in 1..n : \A j \in 1..n : i < j => bs[i].start < bs[j].start
  BY EntryFacts DEF Ordered
<1>3. 0 \in S
  BY <1>1
<1>4. ASSUME NEW m \in Nat, m \in S PROVE m + 1 \in S
  <2> SUFFICES ASSUME (m + 1) + 1 \in 1..n PROVE m + 1 <= bs[(m + 1) + 1].start
    OBVIOUS
  <2>1. m + 1 \in 1..n /\ m + 1 < (m + 1) + 1
    BY <1>1
  <2>2. bs[m + 1].start < bs[(m + 1) + 1].start /\ m <= bs[m + 1].start
    BY <1>2, <1>4, <2>1
  <2> QED BY <1>1, <2>1, <2>2
<1>5. CASE n > 0
  <2>1. n - 1 \in Nat /\ (n - 1) + 1 = n /\ n \in 1..n
    BY <1>1, <1>5
  <2>2. n - 1 \in S
    <3> HIDE DEF S
    <3> QED BY <1>3, <1>4, <2>1, Induction
  <2>3. n - 1 <= bs[n].start
    BY <2>1, <2>2
  <2> QED BY <1>1, <2>1, <2>3
<1> QED BY <1>1, <1>5

(* The words once one more has been read. *)
ReadsOK(q, m, i) ==
  /\ q \in Seq(Insns) /\ Len(m) \in Nat /\ Len(q) = Len(m) + 1
  /\ q[Len(m) + 1] = i /\ \A k \in 1..Len(m) : q[k] = m[k]
  /\ \A x \in Range(q) : x \in Range(m) \/ x = i
  /\ Last(q) = i

(* A word is read at the end. *)
LEMMA ReadFacts ==
  ASSUME NEW m \in Seq(Insns), NEW i \in Insns, NEW q, q = Append(m, i)
  PROVE  ReadsOK(q, m, i)
<1>1. q \in Seq(Insns) /\ Len(q) = Len(m) + 1 /\ q[Len(m) + 1] = i /\ DOMAIN q = 1..(Len(m) + 1)
  OBVIOUS
<1>2. \A k \in 1..Len(m) : q[k] = m[k]
  OBVIOUS
<1>3. \A x \in Range(q) : x \in Range(m) \/ x = i
  <2> SUFFICES ASSUME NEW k \in 1..(Len(m) + 1) PROVE q[k] \in Range(m) \/ q[k] = i
    BY <1>1 DEF Range
  <2>1. CASE k \in 1..Len(m)
    BY <1>2, <2>1 DEF Range
  <2>2. CASE k = Len(m) + 1
    BY <1>1, <2>2
  <2> QED BY <2>1, <2>2
<1> QED BY <1>1, <1>2, <1>3 DEF Last, ReadsOK

(* What a table says of the words read stays true as more are read. *)
LEMMA TableSeesMore ==
  ASSUME NEW bs, NEW m \in Seq(Insns), NEW i \in Insns, NEW q, q = Append(m, i), TableOK(bs, m)
  PROVE  TableOK(bs, q)
<1>1. /\ Len(m) \in Nat /\ Len(q) = Len(m) + 1
      /\ \A k \in 1..Len(m) : q[k] = m[k]
  BY ReadFacts DEF ReadsOK
<1>2. ASSUME NEW b \in BlockInfo, Describes(b, m) PROVE Describes(b, q)
  <2>1. b.start \in Int /\ b.len \in Int /\ 0 <= b.start /\ 0 <= b.len /\ End(b) = b.start + b.len
    BY ScanAssumption DEF BlockInfo, Words, End
  <2>2. CASE b.len = 0
    BY <1>2, <2>2 DEF Describes
  <2>3. CASE b.len # 0
    <3>1. End(b) <= Len(m)
      BY <1>2, <2>3 DEF Describes
    <3>2. End(b) \in 1..Len(m) /\ \A a \in b.start..(End(b) - 2) : a + 1 \in 1..Len(m)
      BY <1>1, <2>1, <2>3, <3>1
    <3>3. q[End(b)] = m[End(b)] /\ \A a \in b.start..(End(b) - 2) : q[a + 1] = m[a + 1]
      BY <1>1, <3>2
    <3>4. End(b) <= Len(q)
      BY <1>1, <3>1, <3>2
    <3> HIDE DEF End
    <3> QED BY <1>2, <2>3, <3>3, <3>4 DEF Describes
  <2> QED BY <2>2, <2>3
<1>3. bs \in Seq(BlockInfo) /\ \A b \in Range(bs) : b \in BlockInfo /\ Describes(b, m)
  BY EntryFacts DEF TableOK
<1>4. \A b \in Range(bs) : Describes(b, q)
  BY <1>2, <1>3
<1> QED BY <1>4 DEF TableOK

(* An entry that get_block() adds describes nothing yet. *)
LEMMA InsertKeeps ==
  ASSUME NEW bs, NEW m, TableOK(bs, m), NEW a \in Words, NEW new, InsertsOK(new, bs, a)
  PROVE  /\ TableOK(new, m)
         /\ \A t : Labelled(bs, t) => Labelled(new, t)
         /\ \A x : Covered(bs, x) => Covered(new, x)
<1> DEFINE e == NewBlock(a)
<1>1. e.len = 0 /\ Describes(e, m)
  BY DEF NewBlock, Describes
<1>2. new \in Seq(BlockInfo) /\ Ordered(new) /\ Range(bs) \subseteq Range(new)
  BY DEF InsertsOK
<1>3. \A b \in Range(new) : b \in Range(bs) \/ b = e
  BY DEF InsertsOK
<1>4. /\ \A b \in Range(bs) : Describes(b, m)
      /\ \A b \in Range(bs) : \A c \in Range(bs) : Apart(b, c)
  BY DEF TableOK
<1>5. \A c : Apart(e, c) /\ Apart(c, e)
  BY <1>1 DEF Apart
<1> HIDE DEF e
<1>6. TableOK(new, m)
  BY <1>1, <1>2, <1>3, <1>4, <1>5 DEF TableOK
<1>7. \A t : Labelled(bs, t) => Labelled(new, t)
  BY <1>2 DEF Labelled
<1>8. \A x : Covered(bs, x) => Covered(new, x)
  BY <1>2 DEF Covered
<1> QED BY <1>6, <1>7, <1>8

(* An entry may be replaced by one that describes the words, and shares none with
   another. *)
LEMMA ReplaceKeeps ==
  ASSUME NEW bs, NEW m, TableOK(bs, m), NEW k \in 1..Len(bs),
         NEW e \in BlockInfo, e.start = bs[k].start, Describes(e, m),
         \A c \in Range(bs) : c.start # e.start => Apart(c, e) /\ Apart(e, c),
         NEW new, new = [bs EXCEPT ![k] = e]
  PROVE  /\ TableOK(new, m) /\ ReplacesOK(new, bs, k, e)
         /\ (bs[k].is_branch_target => e.is_branch_target) =>
               \A t : Labelled(bs, t) => Labelled(new, t)
<1>1. bs \in Seq(BlockInfo) /\ Ordered(bs)
  BY DEF TableOK
<1>2. ReplacesOK(new, bs, k, e)
  BY <1>1, ReplacedFacts
<1>3. /\ \A b \in Range(bs) : Describes(b, m)
      /\ \A b \in Range(bs) : \A c \in Range(bs) : Apart(b, c)
  BY DEF TableOK
<1>4. \A b \in Range(new) : b = e \/ (b \in Range(bs) /\ b.start # e.start)
  BY <1>2 DEF ReplacesOK
<1>5. Apart(e, e)
  BY ScanAssumption DEF Apart, BlockInfo, Words
<1>6. \A b \in Range(new) : \A c \in Range(new) : Apart(b, c)
  BY <1>3, <1>4, <1>5
<1>7. new \in Seq(BlockInfo) /\ Ordered(new)
  BY <1>2 DEF ReplacesOK
<1>8. TableOK(new, m)
  BY <1>3, <1>4, <1>6, <1>7 DEF TableOK
<1>9. ASSUME bs[k].is_branch_target => e.is_branch_target, NEW t, Labelled(bs, t)
      PROVE  Labelled(new, t)
  <2>1. PICK b \in Range(bs) : b.start = t /\ b.is_branch_target
    BY <1>9 DEF Labelled
  <2>2. CASE t # e.start
    <3>1. b \in Range(new)
      BY <1>2, <2>1, <2>2 DEF ReplacesOK
    <3> QED BY <2>1, <3>1 DEF Labelled
  <2>3. CASE t = e.start
    <3>1. PICK j \in 1..Len(bs) : b = bs[j]
      BY <1>1, EntryFacts
    <3>2. Position(bs, bs[j].start) = j /\ Position(bs, bs[k].start) = k
      BY <1>1, PositionIs
    <3>3. j = k
      BY <2>1, <2>3, <3>1, <3>2
    <3>4. e \in Range(new) /\ e.is_branch_target
      BY <1>2, <1>9, <2>1, <3>1, <3>3 DEF ReplacesOK
    <3> QED BY <2>3, <3>4 DEF Labelled
  <2> QED BY <2>2, <2>3
<1> QED BY <1>2, <1>8, <1>9

(* An entry with a length covers its words, and one without covers none. *)
LEMMA CoversFacts ==
  ASSUME NEW b \in BlockInfo, NEW a \in Int
  PROVE  Covers(b, a) => b.len > 0 /\ b.start <= a /\ a < End(b)
<1>1. b.start \in Int /\ b.len \in Int
  BY ScanAssumption DEF BlockInfo, Words
<1> QED BY <1>1 DEF Covers, End

(* What was covered stays so when an empty entry is replaced. *)
LEMMA ReplaceEmpty ==
  ASSUME NEW bs \in Seq(BlockInfo), Ordered(bs), NEW k \in 1..Len(bs), bs[k].len = 0,
         NEW e, NEW new, ReplacesOK(new, bs, k, e), NEW x \in Int, Covered(bs, x)
  PROVE  Covered(new, x)
<1>1. PICK b \in Range(bs) : Covers(b, x)
  BY DEF Covered
<1>2. PICK j \in 1..Len(bs) : b = bs[j] /\ b \in BlockInfo
  BY EntryFacts
<1>3. j # k
  BY <1>1, <1>2, CoversFacts
<1>4. new[j] = b /\ Len(new) = Len(bs) /\ new \in Seq(BlockInfo)
  BY <1>2, <1>3 DEF ReplacesOK
<1>5. b \in Range(new)
  BY <1>4, EntryFacts
<1> QED BY <1>1, <1>5 DEF Covered

(* A branch target gets a labelled entry. *)
LEMMA TargetedFacts ==
  ASSUME NEW bs, NEW m, TableOK(bs, m), NEW i \in Insns, NEW new, new = Targeted(bs, i)
  PROVE  /\ TableOK(new, m)
         /\ \A t : Labelled(bs, t) => Labelled(new, t)
         /\ \A x \in Int : Covered(bs, x) => Covered(new, x)
         /\ HasTarget(i) => Labelled(new, i.target)
         /\ Len(new) \in {Len(bs), Len(bs) + 1}
<1>1. CASE ~HasTarget(i)
  BY <1>1 DEF Targeted
<1>2. CASE HasTarget(i)
  <2> DEFINE t == i.target
             ins == Inserted(bs, t)
             p == Position(ins, t)
             e == [ins[p] EXCEPT !.is_branch_target = TRUE]
  <2>1. t \in Words
    BY <1>2 DEF HasTarget
  <2>2. bs \in Seq(BlockInfo) /\ Ordered(bs)
    BY DEF TableOK
  <2>3. InsertsOK(ins, bs, t)
    BY <2>1, <2>2, InsertedFacts
  <2> HIDE DEF ins, t
  <2>4. /\ TableOK(ins, m)
        /\ \A u : Labelled(bs, u) => Labelled(ins, u)
        /\ \A x : Covered(bs, x) => Covered(ins, x)
    BY <2>1, <2>3, InsertKeeps
  <2>5. /\ ins \in Seq(BlockInfo) /\ Ordered(ins) /\ Len(ins) \in {Len(bs), Len(bs) + 1}
        /\ Position(bs, t) \in 1..Len(ins) /\ ins[Position(bs, t)].start = t
    BY <2>3 DEF InsertsOK
  <2>6. p = Position(bs, t) /\ p \in 1..Len(ins) /\ ins[p].start = t
    BY <2>5, PositionIs
  <2> HIDE DEF p
  <2>7. ins[p] \in BlockInfo /\ ins[p] \in Range(ins)
    BY <2>5, <2>6, EntryFacts
  <2>8. /\ e \in BlockInfo /\ e.start = ins[p].start /\ e.is_branch_target
        /\ e.len = ins[p].len /\ e.has_trap = ins[p].has_trap /\ e.has_branch = ins[p].has_branch
        /\ e.is_conditional_branch = ins[p].is_conditional_branch
    BY <2>7 DEF BlockInfo
  <2>9. new = [ins EXCEPT ![p] = e]
    <3>1. new = [ins EXCEPT ![p].is_branch_target = TRUE]
      BY <1>2 DEF Targeted, ins, t, p
    <3> QED BY <2>5, <2>6, <2>7, <3>1
  <2> HIDE DEF e
  <2>10. End(e) = End(ins[p])
    BY <2>8 DEF End
  <2>11. Describes(ins[p], m)
    BY <2>4, <2>7 DEF TableOK
  <2>12. Describes(e, m)
    BY <2>8, <2>10, <2>11 DEF Describes
  <2>13. \A c \in Range(ins) : Apart(c, e) /\ Apart(e, c)
    <3>1. \A c \in Range(ins) : Apart(c, ins[p]) /\ Apart(ins[p], c)
      BY <2>4, <2>7 DEF TableOK
    <3> QED BY <2>8, <2>10, <3>1 DEF Apart
  <2>14. /\ TableOK(new, m) /\ ReplacesOK(new, ins, p, e)
         /\ \A u : Labelled(ins, u) => Labelled(new, u)
    BY <2>4, <2>6, <2>8, <2>9, <2>12, <2>13, ReplaceKeeps
  <2>15. e \in Range(new) /\ Len(new) = Len(ins) /\ e.start = t
    BY <2>6, <2>8, <2>14 DEF ReplacesOK
  <2>16. Labelled(new, t)
    BY <2>8, <2>15 DEF Labelled
  <2>17. ASSUME NEW x \in Int, Covered(ins, x) PROVE Covered(new, x)
    <3>1. PICK b \in Range(ins) : Covers(b, x)
      BY <2>17 DEF Covered
    <3>2. PICK j \in 1..Len(ins) : b = ins[j]
      BY <2>5, EntryFacts
    <3>3. CASE j = p
      <4>1. Covers(e, x)
        BY <2>8, <2>10, <3>1, <3>2, <3>3 DEF Covers
      <4> QED BY <2>15, <4>1 DEF Covered
    <3>4. CASE j # p
      <4>1. new[j] = b /\ new \in Seq(BlockInfo)
        BY <2>14, <3>2, <3>4 DEF ReplacesOK
      <4>2. b \in Range(new)
        BY <2>15, <4>1, EntryFacts
      <4> QED BY <3>1, <4>2 DEF Covered
    <3> QED BY <3>3, <3>4
  <2>18. \A u : Labelled(bs, u) => Labelled(new, u)
    BY <2>4, <2>14
  <2>19. \A x \in Int : Covered(bs, x) => Covered(new, x)
    BY <2>4, <2>17
  <2> QED BY <2>5, <2>14, <2>15, <2>16, <2>18, <2>19 DEF t
<1> QED BY <1>1, <1>2

(******************************** The scan ********************************)

(* The state while the scan reads words. *)
Scanning ==
  /\ ScanIInv /\ phase = "scan" /\ insn_count < MaxInsns

(* The words that the open block has so far, and those before it, once a block is
   open for the word to be read. *)
OpenedOK(bs, k) ==
  /\ TableOK(bs, memory) /\ k \in 1..Len(bs)
  /\ bs[k].start <= insn_count /\ bs[k].len = 0
  /\ \A b \in Range(bs) : b.len > 0 => End(b) <= bs[k].start
  /\ \A a \in bs[k].start..(insn_count - 1) : ~EndsBlock(WordAt(a))
  /\ \A a \in 0..(insn_count - 1) :
       Covered(bs, a) \/ (WordAt(a).op = "bad" /\ a > 0) \/ bs[k].start <= a
  /\ TargetsOK(bs, memory)
  /\ Len(bs) \in {Len(blocks), Len(blocks) + 1}

(* What the scan knows of its state. *)
LEMMA ScanningFacts ==
  ASSUME Scanning
  PROVE  /\ insn_count \in Words /\ insn_count \in Int /\ Len(memory) = insn_count
         /\ memory \in Seq(Insns)
         /\ TableOK(blocks, memory) /\ TargetsOK(blocks, memory) /\ WordsOK /\ OpenOK
         /\ OpenBlockIsCurrent /\ ScanTypeOK
         /\ blocks \in Seq(BlockInfo) /\ Ordered(blocks)
<1>1. ScanTypeOK /\ phase # "failed"
  BY DEF Scanning, ScanIInv
<1>2. /\ TableOK(blocks, memory) /\ TargetsOK(blocks, memory) /\ WordsOK /\ OpenOK
      /\ OpenBlockIsCurrent
  BY <1>1 DEF Scanning, ScanIInv
<1>3. memory \in Seq(Insns) /\ insn_count \in 0..MaxInsns /\ phase = "scan" /\ insn_count < MaxInsns
  BY <1>1 DEF ScanTypeOK, Scanning
<1>4. Len(memory) = insn_count
  BY <1>2, <1>3 DEF OpenOK
<1>5. blocks \in Seq(BlockInfo) /\ Ordered(blocks)
  BY <1>2 DEF TableOK
<1>6. insn_count \in Words /\ insn_count \in Int
  BY <1>3, ScanAssumption DEF Words
<1> QED BY <1>1, <1>2, <1>3, <1>4, <1>5, <1>6

(* The entry of the open block, opened now or before. *)
LEMMA OpenedFacts ==
  ASSUME Scanning
  PROVE  OpenedOK(Opened, OpenAt)
<1>1. /\ insn_count \in Words /\ insn_count \in Int /\ Len(memory) = insn_count
      /\ memory \in Seq(Insns)
      /\ TableOK(blocks, memory) /\ TargetsOK(blocks, memory) /\ WordsOK /\ OpenOK
      /\ OpenBlockIsCurrent /\ ScanTypeOK
      /\ blocks \in Seq(BlockInfo) /\ Ordered(blocks) /\ phase = "scan"
  BY ScanningFacts DEF Scanning
<1>2. CASE block # 0
  <2>1. Opened = blocks /\ OpenAt = block /\ block \in 1..Len(blocks)
    BY <1>1, <1>2 DEF Opened, OpenAt, ScanTypeOK
  <2>2. /\ blocks[block].start < insn_count /\ blocks[block].len = 0
        /\ \A a \in blocks[block].start..(insn_count - 1) : WordAt(a).op = "plain"
    BY <1>1, <1>2 DEF OpenBlockIsCurrent
  <2>3. \A b \in Range(blocks) : b.len > 0 => End(b) <= blocks[block].start
    BY <1>1, <1>2 DEF OpenOK
  <2>4. \A a \in 0..(insn_count - 1) :
          Covered(blocks, a) \/ (WordAt(a).op = "bad" /\ a > 0) \/ blocks[block].start <= a
    BY <1>1, <1>2 DEF WordsOK, InOpen
  <2>5. blocks[block].start \in Int /\ blocks[block].start <= insn_count
    BY <1>1, <2>1, <2>2, EntryFacts
  <2>6. \A a \in blocks[block].start..(insn_count - 1) : ~EndsBlock(WordAt(a))
    BY <2>2 DEF EndsBlock
  <2>7. OpenedOK(blocks, block)
    BY <1>1, <2>1, <2>2, <2>3, <2>4, <2>5, <2>6 DEF OpenedOK
  <2> QED BY <2>1, <2>7
<1>3. CASE block = 0
  <2> DEFINE bs == Inserted(blocks, insn_count)
             k == Position(blocks, insn_count)
  <2>1. Opened = bs /\ OpenAt = k
    BY <1>3 DEF Opened, OpenAt
  <2>2. InsertsOK(bs, blocks, insn_count)
    BY <1>1, InsertedFacts
  <2> HIDE DEF bs
  <2>3. /\ TableOK(bs, memory)
        /\ \A t : Labelled(blocks, t) => Labelled(bs, t)
        /\ \A x : Covered(blocks, x) => Covered(bs, x)
    BY <1>1, <2>2, InsertKeeps
  <2>4. /\ k \in 1..Len(bs) /\ bs[k].start = insn_count /\ bs \in Seq(BlockInfo)
        /\ Len(bs) \in {Len(blocks), Len(blocks) + 1}
        /\ \A b \in Range(bs) : b \in Range(blocks) \/ b = NewBlock(insn_count)
    BY <2>2 DEF InsertsOK
  <2> HIDE DEF k
  <2>5. \A b \in Range(bs) : b.len > 0 => End(b) <= insn_count
    <3> SUFFICES ASSUME NEW b \in Range(bs), b.len > 0 PROVE End(b) <= insn_count
      OBVIOUS
    <3>1. Describes(b, memory)
      BY <2>3 DEF TableOK
    <3> QED BY <1>1, <3>1 DEF Describes
  <2>6. bs[k].len = 0
    <3>1. bs[k] \in BlockInfo /\ bs[k] \in Range(bs)
      BY <2>4, EntryFacts
    <3>2. bs[k].start \in Int /\ bs[k].len \in Int /\ 0 <= bs[k].len /\ End(bs[k]) = bs[k].start + bs[k].len
      BY <3>1, ScanAssumption DEF BlockInfo, Words, End
    <3>3. bs[k].len > 0 => End(bs[k]) <= insn_count
      BY <2>5, <3>1
    <3> QED BY <1>1, <2>4, <3>2, <3>3
  <2>7. \A a \in 0..(insn_count - 1) :
          Covered(bs, a) \/ (WordAt(a).op = "bad" /\ a > 0) \/ bs[k].start <= a
    BY <1>1, <1>3, <2>3 DEF WordsOK, InOpen
  <2>8. TargetsOK(bs, memory)
    BY <1>1, <2>3 DEF TargetsOK
  <2>9. bs[k].start <= insn_count /\ \A a \in bs[k].start..(insn_count - 1) : FALSE
    BY <1>1, <2>4
  <2>10. \A b \in Range(bs) : b.len > 0 => End(b) <= bs[k].start
    BY <2>4, <2>5
  <2>11. OpenedOK(bs, k)
    BY <2>3, <2>4, <2>6, <2>7, <2>8, <2>9, <2>10 DEF OpenedOK
  <2> QED BY <2>1, <2>11
<1> QED BY <1>2, <1>3

(* The last instruction of a block describes the entry, which covers the words of the
   block then. *)
LEMMA ClosedFacts ==
  ASSUME Scanning, NEW i \in Insns, NEW m, m = Append(memory, i),
         NEW bs, NEW k, OpenedOK(bs, k), NEW new, new = Closed(bs, k, i)
  PROVE  /\ TableOK(new, m)
         /\ \A t : Labelled(bs, t) => Labelled(new, t)
         /\ \A x \in Int : Covered(bs, x) => Covered(new, x)
         /\ EndsBlock(i) => \A x \in bs[k].start..insn_count : Covered(new, x)
         /\ ~EndsBlock(i) => new = bs
         /\ Len(new) = Len(bs)
<1>1. /\ insn_count \in Int /\ Len(memory) = insn_count /\ memory \in Seq(Insns)
      /\ 0 <= insn_count /\ insn_count < MaxInsns /\ MaxInsns \in Nat
  BY ScanningFacts, ScanAssumption DEF Words
<1>2. TableOK(bs, memory) /\ k \in 1..Len(bs)
  BY DEF OpenedOK
<1>3. bs \in Seq(BlockInfo) /\ Ordered(bs) /\ TableOK(bs, m)
  BY <1>1, <1>2, TableSeesMore DEF TableOK
<1>4. CASE ~EndsBlock(i)
  BY <1>3, <1>4 DEF Closed
<1>5. CASE EndsBlock(i)
  <2> DEFINE b == bs[k]
             len == insn_count + 1 - b.start
             trap == i.op = "trap"
             branch == IsBranch(i)
             cond == IsCond(i)
             e == [b EXCEPT !.len = len, !.has_trap = trap, !.has_branch = branch,
                            !.is_conditional_branch = cond]
  <2>1. new = [bs EXCEPT ![k] = e]
    BY <1>2, <1>3, <1>5 DEF Closed
  <2>2. b \in BlockInfo /\ b \in Range(bs) /\ b.start \in Int /\ 0 <= b.start
    BY <1>2, <1>3, EntryFacts
  <2>3. b.start <= insn_count /\ b.len = 0
    BY DEF OpenedOK
  <2>4. IsBranch(i) \in BOOLEAN /\ IsCond(i) \in BOOLEAN /\ (i.op = "trap") \in BOOLEAN
    BY DEF IsBranch, IsCond
  <2>5. (insn_count + 1) - b.start \in 0..MaxInsns /\ (insn_count + 1) - b.start > 0
    BY <1>1, <2>2, <2>3
  <2>6. /\ e \in BlockInfo /\ e.start = b.start /\ e.is_branch_target = b.is_branch_target
        /\ e.len = (insn_count + 1) - b.start /\ e.has_trap = (i.op = "trap")
        /\ e.has_branch = IsBranch(i) /\ e.is_conditional_branch = IsCond(i)
    <3>1. len \in 0..MaxInsns /\ trap \in BOOLEAN /\ branch \in BOOLEAN /\ cond \in BOOLEAN
      <4>1. len \in 0..MaxInsns
        BY <1>1, <2>2, <2>5
      <4> HIDE DEF len
      <4> QED BY <2>4, <4>1, Zenon
    <3> HIDE DEF len, trap, branch, cond, b
    <3>3. e \in BlockInfo
      BY <2>2, <3>1 DEF BlockInfo
    <3>4. e.start = b.start /\ e.is_branch_target = b.is_branch_target /\ e.len = len
      BY <2>2 DEF BlockInfo
    <3>5. e.has_trap = trap /\ e.has_branch = branch /\ e.is_conditional_branch = cond
      BY <2>2 DEF BlockInfo
    <3> HIDE DEF e
    <3>6. e.len = (insn_count + 1) - b.start
      BY <1>1, <2>2, <3>4 DEF len
    <3> QED BY <3>3, <3>4, <3>5, <3>6, Zenon DEF trap, branch, cond
  <2> HIDE DEF e
  <2>7. End(e) = insn_count + 1 /\ e.len > 0
    BY <1>1, <2>2, <2>5, <2>6 DEF End
  <2>8. m[insn_count + 1] = i /\ Len(m) = insn_count + 1 /\ \A j \in 1..insn_count : m[j] = memory[j]
    <3>1. ReadsOK(m, memory, i)
      BY <1>1, ReadFacts
    <3> QED BY <1>1, <3>1 DEF ReadsOK
  <2>9. \A a \in b.start..((insn_count + 1) - 2) : ~EndsBlock(m[a + 1])
    <3> SUFFICES ASSUME NEW a \in b.start..((insn_count + 1) - 2) PROVE ~EndsBlock(m[a + 1])
      OBVIOUS
    <3>1. a \in b.start..(insn_count - 1) /\ a + 1 \in 1..insn_count
      BY <1>1, <2>2
    <3>2. ~EndsBlock(WordAt(a))
      BY <3>1 DEF OpenedOK
    <3> QED BY <2>8, <3>1, <3>2 DEF WordAt
  <2>10. Describes(e, m)
    <3>1. e.len # 0 /\ End(e) <= Len(m)
      BY <1>1, <2>6, <2>5, <2>7, <2>8
    <3> HIDE DEF b
    <3> QED BY <2>6, <2>7, <2>8, <2>9, <3>1 DEF Describes
  <2>11. ASSUME NEW c \in Range(bs), c.start # e.start PROVE Apart(c, e) /\ Apart(e, c)
    <3>1. c \in BlockInfo /\ c.start \in Int /\ c.len \in Int /\ End(c) = c.start + c.len
      BY <1>3, EntryFacts DEF End
    <3>2. c.len > 0 => End(c) <= b.start
      BY DEF OpenedOK
    <3> QED BY <2>2, <2>6, <3>1, <3>2 DEF Apart
  <2>12. /\ TableOK(new, m) /\ ReplacesOK(new, bs, k, e)
         /\ \A t : Labelled(bs, t) => Labelled(new, t)
    <3>1. bs[k].is_branch_target => e.is_branch_target
      BY <2>6
    <3> HIDE DEF b
    <3>2. e.start = bs[k].start /\ e \in BlockInfo
      BY <2>6 DEF b
    <3> QED BY <1>2, <1>3, <2>1, <2>10, <2>11, <3>1, <3>2, ReplaceKeeps
  <2>13. \A x \in Int : Covered(bs, x) => Covered(new, x)
    BY <1>2, <1>3, <2>3, <2>12, ReplaceEmpty
  <2>14. e \in Range(new) /\ Len(new) = Len(bs)
    BY <2>12 DEF ReplacesOK
  <2>15. \A x \in b.start..insn_count : Covered(new, x)
    <3> SUFFICES ASSUME NEW x \in b.start..insn_count PROVE Covers(e, x)
      BY <2>14 DEF Covered
    <3> QED BY <1>1, <2>2, <2>6, <2>7 DEF Covers
  <2> QED BY <1>5, <2>12, <2>13, <2>14, <2>15
<1> QED BY <1>4, <1>5

(* No entry is after the last one. *)
LEMMA LastIsHighest ==
  ASSUME NEW bs \in Seq(BlockInfo), Ordered(bs), NEW b \in Range(bs)
  PROVE  b.start <= Last(bs).start /\ Last(bs).start \in Int /\ Last(bs) \in Range(bs)
<1>1. PICK k \in 1..Len(bs) : b = bs[k]
  BY EntryFacts
<1>2. Len(bs) \in 1..Len(bs) /\ (k < Len(bs) \/ k = Len(bs))
  OBVIOUS
<1>3. bs[k].start \in Int /\ bs[Len(bs)].start \in Int /\ bs[Len(bs)] \in Range(bs)
  BY <1>2, EntryFacts
<1>4. k < Len(bs) => bs[k].start < bs[Len(bs)].start
  BY <1>2, EntryFacts DEF Ordered
<1> QED BY <1>1, <1>2, <1>3, <1>4 DEF Last

(* The instructions that do not end a block have no target, and none that ends the
   unit is among them. *)
LEMMA InsnFacts ==
  ASSUME NEW i \in Insns
  PROVE  /\ ~EndsBlock(i) => i.op = "plain" /\ ~HasTarget(i) /\ ~MayEndUnit(i)
                             /\ ~IsBranch(i) /\ ~IsCond(i)
         /\ i.op = "bad" => ~HasTarget(i)
         /\ HasTarget(i) => i.op \in {"b", "bc"}
         /\ MayEndUnit(i) => i.op \in {"bad", "stop", "b"}
         /\ i.op \in {"plain", "bad", "trap", "stop", "b", "bc"}
BY ScanAssumption DEF Insns, EndsBlock, HasTarget, MayEndUnit, IsBranch, IsUncond, IsCond, Words, Outside

(* Everything that a step of the scan has to leave, when it reads one more word. *)
LEMMA ReadKeepsTypes ==
  ASSUME Scanning, NEW i \in Insns, memory' = Append(memory, i)
  PROVE  /\ memory' \in Seq(Insns) /\ Len(memory') = insn_count + 1 /\ Len(memory') <= MaxInsns
         /\ memory'[insn_count + 1] = i /\ Last(memory') = i
         /\ \A a \in 0..(insn_count - 1) : WordAt(a)' = WordAt(a)
         /\ insn_count + 1 \in 0..MaxInsns
<1>1. /\ insn_count \in Int /\ Len(memory) = insn_count /\ memory \in Seq(Insns)
      /\ 0 <= insn_count /\ insn_count < MaxInsns /\ MaxInsns \in Nat
  BY ScanningFacts, ScanAssumption DEF Words
<1>2. /\ memory' \in Seq(Insns) /\ Len(memory') = insn_count + 1
      /\ memory'[insn_count + 1] = i /\ \A k \in 1..insn_count : memory'[k] = memory[k]
      /\ Last(memory') = i
  <2> DEFINE n == Len(memory)
  <2>1. /\ memory' \in Seq(Insns) /\ Len(memory') = n + 1
        /\ memory'[n + 1] = i /\ \A j \in 1..n : memory'[j] = memory[j]
        /\ \A x \in Range(memory') : x \in Range(memory) \/ x = i
        /\ Last(memory') = i
    <3>1. ReadsOK(memory', memory, i)
      BY <1>1, ReadFacts
    <3> QED BY <3>1 DEF ReadsOK
  <2>2. n = insn_count
    BY <1>1
  <2> HIDE DEF n
  <2> QED BY <2>1, <2>2
<1>3. \A a \in 0..(insn_count - 1) : WordAt(a)' = WordAt(a)
  BY <1>1, <1>2 DEF WordAt
<1> QED BY <1>1, <1>2, <1>3

(* An invalid word between blocks changes nothing but the words read. *)
LEMMA SkipKeeps ==
  ASSUME ScanIInv, NEW i \in Insns, SkipInvalid(i)
  PROVE  ScanIInv'
<1>1. Scanning /\ block = 0 /\ insn_count > 0 /\ i.op = "bad"
  BY DEF Scanning, SkipInvalid, PassedOver
<1>2. /\ memory' = Append(memory, i) /\ insn_count' = insn_count + 1
      /\ UNCHANGED <<block, blocks, blocks_size, phase, split>> /\ phase = "scan"
  BY DEF SkipInvalid
<1>3. /\ memory' \in Seq(Insns) /\ Len(memory') = insn_count + 1 /\ Len(memory') <= MaxInsns
      /\ memory'[insn_count + 1] = i /\ Last(memory') = i
      /\ \A a \in 0..(insn_count - 1) : WordAt(a)' = WordAt(a)
      /\ insn_count + 1 \in 0..MaxInsns
  BY <1>1, <1>2, ReadKeepsTypes
<1>4. /\ insn_count \in Words /\ insn_count \in Int /\ Len(memory) = insn_count
      /\ memory \in Seq(Insns)
      /\ TableOK(blocks, memory) /\ TargetsOK(blocks, memory) /\ WordsOK /\ OpenOK
      /\ OpenBlockIsCurrent /\ ScanTypeOK
  BY <1>1, ScanningFacts
<1>5. ScanTypeOK'
  BY <1>2, <1>3, <1>4 DEF ScanTypeOK
<1>6. TableOK(blocks', memory')
  BY <1>2, <1>4, TableSeesMore
<1>7. TargetsOK(blocks', memory')
  <2>1. \A x \in Range(memory') : x \in Range(memory) \/ x = i
    BY <1>2, <1>4, ReadFacts DEF ReadsOK
  <2>2. ~HasTarget(i)
    BY <1>1, InsnFacts
  <2> QED BY <1>2, <1>4, <2>1, <2>2 DEF TargetsOK
<1>8. WordsOK'
  <2> SUFFICES ASSUME NEW a \in 0..((insn_count + 1) - 1)
               PROVE  Covered(blocks', a) \/ (WordAt(a)'.op = "bad" /\ a > 0)
    BY <1>3 DEF WordsOK
  <2>1. CASE a = insn_count
    BY <1>1, <1>3, <2>1 DEF WordAt
  <2>2. CASE a # insn_count
    <3>1. a \in 0..(insn_count - 1)
      BY <1>4, <2>2
    <3>2. Covered(blocks, a) \/ (WordAt(a).op = "bad" /\ a > 0)
      BY <1>1, <1>4, <3>1 DEF WordsOK, InOpen
    <3> QED BY <1>2, <1>3, <3>1, <3>2
  <2> QED BY <2>1, <2>2
<1>9. OpenOK' /\ OpenBlockIsCurrent'
  BY <1>1, <1>2, <1>3 DEF OpenOK, OpenBlockIsCurrent
<1>10. EndOK' /\ SplitOK'
  BY <1>2 DEF EndOK, SplitOK, ScanIInv
<1> QED BY <1>5, <1>6, <1>7, <1>8, <1>9, <1>10 DEF ScanIInv

(* The table after the word has been scanned. *)
ScannedOK(new, i, m) ==
  /\ TableOK(new, m) /\ TargetsOK(new, m)
  /\ Len(new) \in {Len(Opened), Len(Opened) + 1}
  /\ EndsBlock(i) => \A a \in 0..(Len(m) - 1) : Covered(new, a) \/ (m[a + 1].op = "bad" /\ a > 0)
  /\ ~EndsBlock(i) => new = Opened

(* The steps of guest_ppc_scan() for one word, taken together. *)
LEMMA ScannedFacts ==
  ASSUME Scanning, NEW i \in Insns, NEW m, m = Append(memory, i)
  PROVE  ScannedOK(Scanned(i), i, m)
<1> DEFINE bs == Opened
           k == OpenAt
           cs == Closed(bs, k, i)
           new == Scanned(i)
<1>1. OpenedOK(bs, k)
  BY OpenedFacts
<1>2. new = Targeted(cs, i)
  BY DEF Scanned
<1> HIDE DEF bs, k, new
<1>3. /\ TableOK(cs, m)
      /\ \A t : Labelled(bs, t) => Labelled(cs, t)
      /\ \A x \in Int : Covered(bs, x) => Covered(cs, x)
      /\ EndsBlock(i) => \A x \in bs[k].start..insn_count : Covered(cs, x)
      /\ ~EndsBlock(i) => cs = bs
      /\ Len(cs) = Len(bs)
  BY <1>1, ClosedFacts
<1> HIDE DEF cs
<1>4. /\ TableOK(new, m)
      /\ \A t : Labelled(cs, t) => Labelled(new, t)
      /\ \A x \in Int : Covered(cs, x) => Covered(new, x)
      /\ HasTarget(i) => Labelled(new, i.target)
      /\ Len(new) \in {Len(cs), Len(cs) + 1}
  BY <1>2, <1>3, TargetedFacts
<1>5. /\ insn_count \in Int /\ Len(memory) = insn_count /\ memory \in Seq(Insns)
      /\ 0 <= insn_count
  BY ScanningFacts, ScanAssumption DEF Words
<1>6. /\ m[insn_count + 1] = i /\ Len(m) = insn_count + 1 /\ \A j \in 1..insn_count : m[j] = memory[j]
      /\ \A x \in Range(m) : x \in Range(memory) \/ x = i
  <2> DEFINE n == Len(memory)
  <2>1. /\ m \in Seq(Insns) /\ Len(m) = n + 1
        /\ m[n + 1] = i /\ \A j \in 1..n : m[j] = memory[j]
        /\ \A x \in Range(m) : x \in Range(memory) \/ x = i
        /\ Last(m) = i
    <3>1. ReadsOK(m, memory, i)
      BY <1>5, ReadFacts
    <3> QED BY <3>1 DEF ReadsOK
  <2>2. n = insn_count
    BY <1>5
  <2> HIDE DEF n
  <2> QED BY <2>1, <2>2
<1>7. TargetsOK(new, m)
  <2>1. \A x \in Range(memory) : HasTarget(x) => Labelled(bs, x.target)
    BY <1>1 DEF OpenedOK, TargetsOK
  <2> QED BY <1>3, <1>4, <1>6, <2>1 DEF TargetsOK
<1>8. ASSUME EndsBlock(i), NEW a \in 0..(Len(m) - 1)
      PROVE  Covered(new, a) \/ (m[a + 1].op = "bad" /\ a > 0)
  <2>0. bs[k].start \in Int /\ bs[k].start <= insn_count /\ a \in Int
    <3>1. bs \in Seq(BlockInfo) /\ k \in 1..Len(bs) /\ bs[k].start <= insn_count
      BY <1>1 DEF OpenedOK, TableOK
    <3> QED BY <3>1, EntryFacts
  <2>1. CASE bs[k].start <= a
    <3>1. a \in bs[k].start..insn_count
      BY <1>5, <1>6, <2>0, <2>1
    <3> QED BY <1>3, <1>4, <1>8, <2>0, <3>1
  <2>2. CASE ~(bs[k].start <= a)
    <3>1. a \in 0..(insn_count - 1) /\ a + 1 \in 1..insn_count
      BY <1>5, <1>6, <2>0, <2>2
    <3>2. Covered(bs, a) \/ (WordAt(a).op = "bad" /\ a > 0)
      BY <1>1, <2>2, <3>1 DEF OpenedOK
    <3>3. WordAt(a) = m[a + 1]
      BY <1>6, <3>1 DEF WordAt
    <3> QED BY <1>3, <1>4, <2>0, <3>2, <3>3
  <2> QED BY <2>1, <2>2
<1>9. ~EndsBlock(i) => new = bs
  BY <1>2, <1>3, InsnFacts DEF Targeted
<1> QED BY <1>3, <1>4, <1>7, <1>8, <1>9 DEF ScannedOK, bs, new

(* Reading one word and scanning it keeps the invariant. *)
LEMMA ScanInsnKeeps ==
  ASSUME ScanIInv, NEW i \in Insns, ScanInsn(i)
  PROVE  ScanIInv'
<1>1. Scanning /\ phase = "scan"
  BY DEF Scanning, ScanInsn
<1>2. /\ memory' = Append(memory, i) /\ blocks' = Scanned(i)
      /\ blocks_size' = SizeFor(Scanned(i), SizeFor(Opened, blocks_size))
      /\ block' = (IF EndsBlock(i) THEN 0 ELSE OpenAt) /\ split' = split
      /\ IF UnitEnds(i) THEN phase' = "split" /\ insn_count' = insn_count
                        ELSE insn_count' = insn_count + 1 /\ phase' = phase
  BY DEF ScanInsn
<1>3. /\ memory' \in Seq(Insns) /\ Len(memory') = insn_count + 1 /\ Len(memory') <= MaxInsns
      /\ memory'[insn_count + 1] = i /\ Last(memory') = i
      /\ \A a \in 0..(insn_count - 1) : WordAt(a)' = WordAt(a)
      /\ insn_count + 1 \in 0..MaxInsns
  BY <1>1, <1>2, ReadKeepsTypes
<1>4. /\ insn_count \in Words /\ insn_count \in Int /\ 0 <= insn_count /\ Len(memory) = insn_count
      /\ WordsOK /\ OpenOK /\ OpenBlockIsCurrent /\ ScanTypeOK
  BY <1>1, ScanningFacts, ScanAssumption DEF Words
<1>5. OpenedOK(Opened, OpenAt)
  BY <1>1, OpenedFacts
<1>6. ScannedOK(blocks', i, memory')
  BY <1>1, <1>2, ScannedFacts
<1>7. TableOK(blocks', memory') /\ TargetsOK(blocks', memory')
  BY <1>6 DEF ScannedOK
<1>8. blocks' \in Seq(BlockInfo) /\ Ordered(blocks')
  BY <1>7 DEF TableOK
<1>9. UnitEnds(i) => EndsBlock(i)
  BY InsnFacts DEF UnitEnds
<1>10. ScanTypeOK'
  <2>1. /\ Len(Opened) \in {Len(blocks), Len(blocks) + 1} /\ OpenAt \in 1..Len(Opened)
        /\ Opened \in Seq(BlockInfo)
    BY <1>5 DEF OpenedOK, TableOK
  <2>2. Len(blocks') \in {Len(Opened), Len(Opened) + 1}
    BY <1>6 DEF ScannedOK
  <2>3. blocks_size' \in Nat /\ Len(blocks') <= blocks_size'
    <3> DEFINE l == Len(blocks)
               o == Len(Opened)
               c == Len(blocks')
    <3>1. l \in Nat /\ o \in Nat /\ c \in Nat /\ blocks_size \in Nat /\ l <= blocks_size
      BY <1>4, <1>8, <2>1 DEF ScanTypeOK
    <3>2. blocks_size' = LET z == IF o > blocks_size THEN blocks_size + ExpandSize ELSE blocks_size
                         IN  IF c > z THEN z + ExpandSize ELSE z
      BY <1>2 DEF SizeFor
    <3>3. o \in {l, l + 1} /\ c \in {o, o + 1}
      BY <2>1, <2>2
    <3> HIDE DEF l, o, c
    <3>4. blocks_size' \in Nat /\ c <= blocks_size'
      BY <3>1, <3>2, <3>3, ScanAssumption
    <3> QED BY <3>4 DEF c
  <2>4. block' \in 0..Len(blocks')
    BY <1>2, <1>8, <2>1, <2>2
  <2>5. insn_count' \in 0..MaxInsns /\ phase' \in {"scan", "split", "done", "failed"}
    BY <1>1, <1>2, <1>3, <1>4 DEF ScanTypeOK
  <2> QED BY <1>2, <1>3, <1>4, <1>8, <2>3, <2>4, <2>5 DEF ScanTypeOK
<1>11. OpenBlockIsCurrent' /\ OpenOK'
  <2>1. CASE EndsBlock(i)
    <3>1. block' = 0 /\ (phase' = "scan" => insn_count' = insn_count + 1)
      BY <1>2, <2>1
    <3> QED BY <1>3, <3>1 DEF OpenBlockIsCurrent, OpenOK
  <2>2. CASE ~EndsBlock(i)
    <3>1. block' = OpenAt /\ insn_count' = insn_count + 1
      BY <1>2, <1>9, <2>2
    <3>2. blocks' = Opened /\ i.op = "plain"
      BY <1>6, <2>2, InsnFacts DEF ScannedOK
    <3> DEFINE b == blocks'[block']
    <3>3. /\ b.start <= insn_count /\ b.len = 0
          /\ \A c \in Range(blocks') : c.len > 0 => End(c) <= b.start
          /\ \A a \in b.start..(insn_count - 1) : ~EndsBlock(WordAt(a))
          /\ block' \in 1..Len(blocks')
      BY <1>5, <3>1, <3>2 DEF OpenedOK
    <3>4. b.start \in Int /\ 0 <= b.start
      BY <1>8, <3>3, EntryFacts
    <3> HIDE DEF b
    <3>5. b.start < insn_count'
      BY <1>4, <3>1, <3>3, <3>4
    <3>6. ASSUME NEW a \in b.start..(insn_count' - 1) PROVE WordAt(a)'.op = "plain"
      <4>1. CASE a = insn_count
        BY <1>3, <3>2, <4>1 DEF WordAt
      <4>2. CASE a # insn_count
        <5>1. a \in b.start..(insn_count - 1) /\ a \in 0..(insn_count - 1)
          BY <1>4, <3>1, <3>4, <4>2
        <5>2. ~EndsBlock(WordAt(a)) /\ WordAt(a)' = WordAt(a)
          BY <1>3, <3>3, <5>1
        <5> QED BY <5>2 DEF EndsBlock
      <4> QED BY <4>1, <4>2
    <3>7. OpenBlockIsCurrent'
      BY <3>3, <3>5, <3>6 DEF OpenBlockIsCurrent, b
    <3>8. OpenOK'
      BY <1>3, <3>1, <3>3 DEF OpenOK, b
    <3> QED BY <3>7, <3>8
  <2> QED BY <2>1, <2>2
<1>12. WordsOK'
  <2> SUFFICES ASSUME NEW a \in 0..((insn_count + 1) - 1)
               PROVE  Covered(blocks', a) \/ (WordAt(a)'.op = "bad" /\ a > 0) \/ InOpen(a)'
    BY <1>3 DEF WordsOK
  <2>1. CASE EndsBlock(i)
    <3>1. a \in 0..(Len(memory') - 1)
      BY <1>3
    <3> QED BY <1>6, <2>1, <3>1 DEF ScannedOK, WordAt
  <2>2. CASE ~EndsBlock(i)
    <3>1. block' = OpenAt /\ phase' = "scan" /\ blocks' = Opened
      BY <1>1, <1>2, <1>6, <1>9, <2>2 DEF ScannedOK
    <3>2. block' \in 1..Len(blocks') /\ blocks'[block'].start <= insn_count
      BY <1>5, <3>1 DEF OpenedOK
    <3>3. block' # 0
      BY <3>2
    <3>4. CASE a = insn_count
      BY <3>1, <3>2, <3>3, <3>4 DEF InOpen
    <3>5. CASE a # insn_count
      <4>1. a \in 0..(insn_count - 1)
        BY <1>4, <3>5
      <4>2. Covered(blocks', a) \/ (WordAt(a).op = "bad" /\ a > 0) \/ blocks'[block'].start <= a
        BY <1>5, <3>1, <4>1 DEF OpenedOK
      <4> QED BY <1>3, <3>1, <3>3, <4>1, <4>2 DEF InOpen
    <3> QED BY <3>4, <3>5
  <2> QED BY <2>1, <2>2
<1>13. EndOK'
  <2>1. CASE UnitEnds(i)
    <3>1. MayEndUnit(i) /\ Last(blocks').start <= insn_count
      BY <1>2, <2>1 DEF UnitEnds
    <3>2. \A b \in Range(blocks') : b.start < insn_count + 1
      <4> SUFFICES ASSUME NEW b \in Range(blocks') PROVE b.start < insn_count + 1
        OBVIOUS
      <4>1. b.start <= Last(blocks').start /\ Last(blocks').start \in Int
        BY <1>8, LastIsHighest
      <4>2. b.start \in Int
        BY <1>8, EntryFacts
      <4> QED BY <1>4, <3>1, <4>1, <4>2
    <3> QED BY <1>3, <1>4, <3>1, <3>2 DEF EndOK, StopsAt
  <2>2. CASE ~UnitEnds(i)
    BY <1>1, <1>2, <2>2 DEF EndOK
  <2> QED BY <2>1, <2>2
<1>14. SplitOK'
  <2>1. split = 2
    BY <1>1 DEF ScanIInv, SplitOK
  <2>2. phase' \in {"scan", "split"} /\ split' = 2
    BY <1>1, <1>2, <2>1
  <2>3. \A k \in DOMAIN blocks' : k \in Nat /\ ~(k + 1 < 2)
    BY <1>8, EntryFacts
  <2> QED BY <2>2, <2>3 DEF SplitOK
<1>15. TableOK(blocks, memory)' /\ TargetsOK(blocks, memory)'
  BY <1>7
<1> QED BY <1>10, <1>11, <1>12, <1>13, <1>14, <1>15 DEF ScanIInv

(* The limit of the scan closes the open block. *)
LEMMA ReachLimitKeeps ==
  ASSUME ScanIInv, ReachLimit
  PROVE  ScanIInv'
<1>1. /\ phase = "scan" /\ insn_count = MaxInsns /\ phase' = "split"
      /\ blocks' = (IF block = 0 THEN blocks
                    ELSE [blocks EXCEPT ![block].len = MaxInsns - blocks[block].start])
      /\ UNCHANGED <<memory, insn_count, block, blocks_size, split>>
  BY DEF ReachLimit
<1>2. /\ ScanTypeOK /\ OpenBlockIsCurrent /\ OpenOK /\ TableOK(blocks, memory)
      /\ TargetsOK(blocks, memory) /\ WordsOK /\ SplitOK
  BY <1>1 DEF ScanIInv
<1>3. /\ Len(memory) = MaxInsns /\ MaxInsns \in Nat /\ MaxInsns > 0
      /\ blocks \in Seq(BlockInfo) /\ Ordered(blocks)
  BY <1>1, <1>2, ScanAssumption DEF OpenOK, TableOK
<1> DEFINE new == blocks'
           Cuts == /\ TableOK(new, memory) /\ TargetsOK(new, memory) /\ Len(new) = Len(blocks)
                   /\ \A a \in 0..(Len(memory) - 1) :
                        Covered(new, a) \/ (WordAt(a).op = "bad" /\ a > 0)
<1>4. ASSUME block = 0 PROVE Cuts
  <2>1. new = blocks
    BY <1>1, <1>4
  <2>2. \A a \in 0..(Len(memory) - 1) : Covered(blocks, a) \/ (WordAt(a).op = "bad" /\ a > 0)
    BY <1>2, <1>4 DEF WordsOK, InOpen
  <2> QED BY <1>2, <2>1, <2>2
<1>5. ASSUME block # 0 PROVE Cuts
  <2> DEFINE b == blocks[block]
             e == [b EXCEPT !.len = MaxInsns - b.start]
  <2>1. block \in 1..Len(blocks) /\ b \in BlockInfo /\ b \in Range(blocks)
        /\ b.start \in Int /\ 0 <= b.start
    <3>1. block \in 1..Len(blocks)
      BY <1>2, <1>5 DEF ScanTypeOK
    <3> QED BY <1>3, <3>1, EntryFacts
  <2>2. /\ b.start < MaxInsns /\ b.len = 0
        /\ \A a \in b.start..(MaxInsns - 1) : WordAt(a).op = "plain"
        /\ \A c \in Range(blocks) : c.len > 0 => End(c) <= b.start
    BY <1>1, <1>2, <1>5 DEF OpenBlockIsCurrent, OpenOK
  <2>3. new = [blocks EXCEPT ![block] = e]
    BY <1>1, <1>3, <1>5, <2>1
  <2> DEFINE len == MaxInsns - b.start
  <2>4. len \in 0..MaxInsns /\ len > 0 /\ b.start + len = MaxInsns
    BY <1>3, <2>1, <2>2
  <2>5. /\ e \in BlockInfo /\ e.start = b.start /\ e.len = len
        /\ e.is_branch_target = b.is_branch_target /\ e.has_trap = b.has_trap
        /\ e.has_branch = b.has_branch /\ e.is_conditional_branch = b.is_conditional_branch
    <3> HIDE DEF len, b
    <3>1. e = [b EXCEPT !.len = len]
      BY DEF len
    <3> HIDE DEF e
    <3> QED BY <2>1, <2>4, <3>1 DEF BlockInfo
  <2> HIDE DEF e, len
  <2>6. End(e) = MaxInsns
    BY <2>4, <2>5 DEF End
  <2>7. Describes(e, memory)
    <3>1. Describes(b, memory)
      BY <1>2, <2>1 DEF TableOK
    <3>2. ~b.has_trap /\ ~b.has_branch /\ ~b.is_conditional_branch
      BY <2>2, <3>1 DEF Describes
    <3>3. MaxInsns - 1 \in b.start..(MaxInsns - 1) /\ (MaxInsns - 1) + 1 = MaxInsns
      BY <1>3, <2>1, <2>2
    <3>4. memory[MaxInsns].op = "plain"
      BY <2>2, <3>3 DEF WordAt
    <3>5. ~IsBranch(memory[MaxInsns]) /\ ~IsCond(memory[MaxInsns]) /\ memory[MaxInsns].op # "trap"
      BY <3>4 DEF IsBranch, IsCond
    <3>6. \A a \in b.start..(MaxInsns - 2) : ~EndsBlock(memory[a + 1])
      <4> SUFFICES ASSUME NEW a \in b.start..(MaxInsns - 2) PROVE memory[a + 1].op = "plain"
        BY DEF EndsBlock
      <4>1. a \in b.start..(MaxInsns - 1)
        BY <1>3, <2>1
      <4> QED BY <2>2, <4>1 DEF WordAt
    <3>7. ~e.has_trap /\ ~e.has_branch /\ ~e.is_conditional_branch /\ e.len # 0
      BY <2>4, <2>5, <3>2
    <3>8. End(e) <= Len(memory)
      BY <1>3, <2>6
    <3>9. e.has_trap = FALSE /\ e.has_branch = FALSE /\ e.is_conditional_branch = FALSE
      BY <2>5, <3>7 DEF BlockInfo
    <3>10. /\ (memory[MaxInsns].op = "trap") = FALSE
           /\ IsBranch(memory[MaxInsns]) = FALSE /\ IsCond(memory[MaxInsns]) = FALSE
      BY <3>5 DEF IsBranch, IsCond
    <3> QED BY <2>5, <2>6, <3>6, <3>7, <3>8, <3>9, <3>10 DEF Describes
  <2>8. ASSUME NEW c \in Range(blocks), c.start # e.start PROVE Apart(c, e) /\ Apart(e, c)
    <3>1. c \in BlockInfo /\ c.start \in Int /\ c.len \in Int /\ End(c) = c.start + c.len
      BY <1>3, EntryFacts DEF End
    <3>2. c.len > 0 => End(c) <= b.start
      BY <2>2
    <3> QED BY <2>1, <2>5, <3>1, <3>2 DEF Apart
  <2>9. /\ TableOK(new, memory) /\ ReplacesOK(new, blocks, block, e)
        /\ \A t : Labelled(blocks, t) => Labelled(new, t)
    <3>1. blocks[block].is_branch_target => e.is_branch_target
      BY <2>5
    <3>2. e.start = blocks[block].start /\ e \in BlockInfo /\ block \in 1..Len(blocks)
      BY <2>1, <2>5
    <3> HIDE DEF b
    <3> QED BY <1>2, <2>3, <2>7, <2>8, <3>1, <3>2, ReplaceKeeps
  <2>10. e \in Range(new) /\ Len(new) = Len(blocks)
    BY <2>9 DEF ReplacesOK
  <2>11. ASSUME NEW a \in 0..(Len(memory) - 1)
         PROVE  Covered(new, a) \/ (WordAt(a).op = "bad" /\ a > 0)
    <3>1. a \in Int /\ a < MaxInsns
      BY <1>3
    <3>2. Covered(blocks, a) \/ (WordAt(a).op = "bad" /\ a > 0) \/ b.start <= a
      BY <1>2 DEF WordsOK, InOpen
    <3>3. CASE b.start <= a
      <4>1. Covers(e, a)
        BY <2>5, <2>6, <3>1, <3>3 DEF Covers
      <4> QED BY <2>10, <4>1 DEF Covered
    <3>4. CASE Covered(blocks, a)
      BY <1>3, <2>1, <2>2, <2>9, <3>1, <3>4, ReplaceEmpty
    <3> QED BY <3>2, <3>3, <3>4
  <2>12. TargetsOK(new, memory)
    BY <1>2, <2>9 DEF TargetsOK
  <2> QED BY <2>9, <2>10, <2>11, <2>12
<1>6. Cuts
  <2> HIDE DEF Cuts
  <2> QED BY <1>4, <1>5
<1> HIDE DEF new
<1>7. ScanTypeOK'
  <2>1. blocks' \in Seq(BlockInfo) /\ Len(blocks') = Len(blocks)
    BY <1>6 DEF TableOK, new
  <2> QED BY <1>1, <1>2, <2>1 DEF ScanTypeOK
<1>8. TableOK(blocks, memory)' /\ TargetsOK(blocks, memory)'
  BY <1>1, <1>6 DEF new
<1>9. WordsOK'
  BY <1>1, <1>6 DEF WordsOK, WordAt, new
<1>10. OpenBlockIsCurrent' /\ OpenOK'
  BY <1>1 DEF OpenBlockIsCurrent, OpenOK
<1>11. EndOK'
  BY <1>1, <1>3 DEF EndOK
<1>12. SplitOK'
  <2>1. split' = 2
    BY <1>1, <1>2 DEF SplitOK
  <2>2. \A k \in DOMAIN blocks' : k \in Nat /\ ~(k + 1 < 2)
    BY <1>6, EntryFacts DEF TableOK, new
  <2> QED BY <1>1, <2>1, <2>2 DEF SplitOK
<1> QED BY <1>7, <1>8, <1>9, <1>10, <1>11, <1>12 DEF ScanIInv

(****************************** The splitting ******************************)

(* An entry e inside the block p before it cuts p in two parts that describe the same
   words. *)
PartsOK(p, e, f, g, m) ==
  /\ f \in BlockInfo /\ f.start = p.start /\ f.len > 0 /\ End(f) = e.start
  /\ f.is_branch_target = p.is_branch_target /\ Describes(f, m)
  /\ g \in BlockInfo /\ g.start = e.start /\ g.len > 0 /\ End(g) = End(p)
  /\ g.is_branch_target = e.is_branch_target /\ Describes(g, m)

(* That is so for the parts that the splitting makes. *)
LEMMA PartsFacts ==
  ASSUME NEW p \in BlockInfo, NEW e \in BlockInfo, p.start < e.start, Inside(e, p),
         NEW m \in Seq(Insns), Describes(p, m)
  PROVE  PartsOK(p, e, FirstPart(p, e.start), SecondPart(e, p), m)
<1> DEFINE f == FirstPart(p, e.start)
           g == SecondPart(e, p)
           d == e.start - p.start
<1>1. /\ p.start \in Int /\ p.len \in Int /\ e.start \in Int /\ e.len \in Int /\ 0 <= p.start
      /\ p.len <= MaxInsns /\ MaxInsns \in Nat /\ End(p) = p.start + p.len
      /\ p.start \in Words /\ e.start \in Words
  BY ScanAssumption DEF BlockInfo, Words, End
<1>2. e.len = 0 /\ d < p.len /\ d > 0
  BY <1>1 DEF Inside
<1>3. d \in 0..MaxInsns /\ p.len - d \in 0..MaxInsns /\ p.len - d > 0
  BY <1>1, <1>2
<1>4. /\ f \in BlockInfo /\ f.start = p.start /\ f.len = d
      /\ f.has_trap = FALSE /\ f.has_branch = FALSE /\ f.is_conditional_branch = FALSE
      /\ f.is_branch_target = p.is_branch_target
  <2> HIDE DEF d
  <2>1. f = [p EXCEPT !.len = d, !.has_trap = FALSE, !.has_branch = FALSE,
                      !.is_conditional_branch = FALSE]
    BY DEF FirstPart, d
  <2> HIDE DEF f
  <2> QED BY <1>3, <2>1 DEF BlockInfo
<1>5. /\ g \in BlockInfo /\ g.start = e.start /\ g.len = p.len - d
      /\ g.has_trap = p.has_trap /\ g.has_branch = p.has_branch
      /\ g.is_conditional_branch = p.is_conditional_branch
      /\ g.is_branch_target = e.is_branch_target
  <2> DEFINE l == p.len - d
  <2>1. g = [e EXCEPT !.len = l, !.has_trap = p.has_trap, !.has_branch = p.has_branch,
                      !.is_conditional_branch = p.is_conditional_branch]
    BY DEF SecondPart
  <2>2. l \in 0..MaxInsns
    BY <1>3
  <2> HIDE DEF g, l
  <2>3. /\ g \in BlockInfo /\ g.start = e.start /\ g.len = l
        /\ g.has_trap = p.has_trap /\ g.has_branch = p.has_branch
        /\ g.is_conditional_branch = p.is_conditional_branch
        /\ g.is_branch_target = e.is_branch_target
    BY <2>1, <2>2 DEF BlockInfo
  <2> QED BY <2>3 DEF l
<1> HIDE DEF f, g, d
<1>6. End(f) = e.start /\ End(g) = End(p) /\ f.len > 0 /\ g.len > 0
  BY <1>1, <1>2, <1>3, <1>4, <1>5 DEF End, d
<1>7. /\ End(p) <= Len(m)
      /\ p.has_trap = (m[End(p)].op = "trap")
      /\ p.has_branch = IsBranch(m[End(p)])
      /\ p.is_conditional_branch = IsCond(m[End(p)])
      /\ \A a \in p.start..(End(p) - 2) : ~EndsBlock(m[a + 1])
  <2>1. p.len # 0
    BY <1>1, <1>2, <1>3
  <2> QED BY <2>1 DEF Describes
<1>8. e.start < End(p) /\ p.start < e.start /\ End(p) \in Int /\ Len(m) \in Nat
  BY <1>1, <1>2 DEF d
<1>9. Describes(f, m)
  <2>1. e.start - 1 \in p.start..(End(p) - 2) /\ (e.start - 1) + 1 = e.start
    BY <1>1, <1>8
  <2>2. m[e.start].op = "plain"
    BY <1>7, <2>1 DEF EndsBlock
  <2>3. (m[e.start].op = "trap") = FALSE /\ IsBranch(m[e.start]) = FALSE /\ IsCond(m[e.start]) = FALSE
    BY <2>2 DEF IsBranch, IsCond
  <2>4. \A a \in p.start..(e.start - 2) : ~EndsBlock(m[a + 1])
    <3>1. \A a \in p.start..(e.start - 2) : a \in p.start..(End(p) - 2)
      BY <1>1, <1>8
    <3> QED BY <1>7, <3>1
  <2>5. e.start <= Len(m) /\ f.len # 0
    BY <1>1, <1>6, <1>7, <1>8
  <2> QED BY <1>4, <1>6, <2>3, <2>4, <2>5 DEF Describes
<1>10. Describes(g, m)
  <2>1. \A a \in e.start..(End(p) - 2) : ~EndsBlock(m[a + 1])
    <3>1. \A a \in e.start..(End(p) - 2) : a \in p.start..(End(p) - 2)
      BY <1>1, <1>8
    <3> QED BY <1>7, <3>1
  <2>2. g.len # 0
    BY <1>3, <1>5
  <2> QED BY <1>5, <1>6, <1>7, <2>1, <2>2 DEF Describes
<1> QED BY <1>4, <1>5, <1>6, <1>9, <1>10 DEF PartsOK, f, g

(* The two blocks next to each other that the loop looks at. *)
Pair(k) == /\ k \in 2..Len(blocks) /\ blocks \in Seq(BlockInfo) /\ Ordered(blocks)
           /\ TableOK(blocks, memory) /\ memory \in Seq(Insns)

(* What holds of them in any case. *)
LEMMA PairFacts ==
  ASSUME NEW k, Pair(k)
  PROVE  /\ k \in Nat /\ k - 1 \in 1..Len(blocks) /\ k \in 1..Len(blocks) /\ k - 1 # k
         /\ blocks[k] \in BlockInfo /\ blocks[k] \in Range(blocks)
         /\ blocks[k - 1] \in BlockInfo /\ blocks[k - 1] \in Range(blocks)
         /\ blocks[k - 1].start < blocks[k].start
         /\ Describes(blocks[k - 1], memory)
<1>1. k \in Nat /\ k - 1 \in 1..Len(blocks) /\ k \in 1..Len(blocks) /\ k - 1 < k
  BY DEF Pair
<1>2. /\ blocks[k] \in BlockInfo /\ blocks[k] \in Range(blocks)
      /\ blocks[k - 1] \in BlockInfo /\ blocks[k - 1] \in Range(blocks)
  BY <1>1, EntryFacts DEF Pair
<1>3. blocks[k - 1].start < blocks[k].start
  BY <1>1, EntryFacts DEF Pair, Ordered
<1>4. Describes(blocks[k - 1], memory)
  BY <1>2 DEF Pair, TableOK
<1> QED BY <1>1, <1>2, <1>3, <1>4

(* What a table has to keep for the invariant of the splitting, up to entry k. *)
SplitsOK(new, k) ==
  /\ TableOK(new, memory) /\ TargetsOK(new, memory) /\ Len(new) = Len(blocks)
  /\ \A x \in Int : Covered(blocks, x) => Covered(new, x)
  /\ \A b \in Range(new) : \E c \in Range(blocks) : b.start = c.start
  /\ \A j \in DOMAIN new : j + 1 < k + 1 => End(new[j]) <= new[j + 1].start

(* Two blocks that share no word are left as they are. *)
LEMMA ApartStays ==
  ASSUME NEW k, Pair(k), TargetsOK(blocks, memory), ~Inside(blocks[k], blocks[k - 1]),
         \A j \in DOMAIN blocks : j + 1 < k => End(blocks[j]) <= blocks[j + 1].start
  PROVE  SplitsOK(blocks, k)
<1> DEFINE p == blocks[k - 1]
           e == blocks[k]
<1>1. /\ k \in Nat /\ k - 1 \in 1..Len(blocks) /\ k \in 1..Len(blocks)
      /\ e \in BlockInfo /\ e \in Range(blocks) /\ p \in BlockInfo /\ p \in Range(blocks)
      /\ p.start < e.start
  BY PairFacts
<1>2. /\ p.start \in Int /\ p.len \in Int /\ e.start \in Int /\ e.len \in Int /\ 0 <= p.len
      /\ End(p) = p.start + p.len /\ 0 <= e.len
  BY <1>1, ScanAssumption DEF BlockInfo, Words, End
<1>3. Apart(p, e)
  BY <1>1 DEF Pair, TableOK
<1>4. e.len = 0 => p.len <= e.start - p.start
  BY <1>2 DEF Inside
<1>5. End(p) <= e.start
  BY <1>1, <1>2, <1>3, <1>4 DEF Apart
<1>6. \A j \in DOMAIN blocks : j + 1 < k + 1 => End(blocks[j]) <= blocks[j + 1].start
  <2> SUFFICES ASSUME NEW j \in 1..Len(blocks), j + 1 < k + 1
               PROVE  End(blocks[j]) <= blocks[j + 1].start
    BY EntryFacts DEF Pair
  <2>1. CASE j + 1 < k
    BY <2>1, EntryFacts DEF Pair
  <2>2. CASE ~(j + 1 < k)
    <3>1. j = k - 1 /\ j + 1 = k
      BY <1>1, <2>2
    <3> QED BY <1>5, <3>1
  <2> QED BY <2>1, <2>2
<1> QED BY <1>6 DEF SplitsOK, Pair

(* An entry inside the block before it splits that block. *)
LEMMA InsideSplits ==
  ASSUME NEW k, Pair(k), TargetsOK(blocks, memory), Inside(blocks[k], blocks[k - 1]),
         \A j \in DOMAIN blocks : j + 1 < k => End(blocks[j]) <= blocks[j + 1].start,
         NEW new, new = [blocks EXCEPT ![k - 1] = FirstPart(blocks[k - 1], blocks[k].start),
                                       ![k] = SecondPart(blocks[k], blocks[k - 1])]
  PROVE  SplitsOK(new, k)
<1> DEFINE p == blocks[k - 1]
           e == blocks[k]
           f == FirstPart(p, e.start)
           g == SecondPart(e, p)
           mid == [blocks EXCEPT ![k - 1] = f]
<1>1. /\ k \in Nat /\ k - 1 \in 1..Len(blocks) /\ k \in 1..Len(blocks) /\ k - 1 # k
      /\ e \in BlockInfo /\ e \in Range(blocks) /\ p \in BlockInfo /\ p \in Range(blocks)
      /\ p.start < e.start /\ Describes(p, memory)
      /\ blocks \in Seq(BlockInfo) /\ memory \in Seq(Insns) /\ TableOK(blocks, memory)
  BY PairFacts DEF Pair
<1>2. PartsOK(p, e, f, g, memory)
  <2> HIDE DEF p, e
  <2> QED BY <1>1, PartsFacts DEF p, e
<1>3. new = [mid EXCEPT ![k] = g]
  OBVIOUS
<1>4. /\ f \in BlockInfo /\ f.start = p.start /\ f.len > 0 /\ End(f) = e.start
      /\ f.is_branch_target = p.is_branch_target /\ Describes(f, memory)
      /\ g \in BlockInfo /\ g.start = e.start /\ g.len > 0 /\ End(g) = End(p)
      /\ g.is_branch_target = e.is_branch_target /\ Describes(g, memory)
  <2> HIDE DEF p, e, f, g
  <2> QED BY <1>2 DEF PartsOK
<1> HIDE DEF f, g
<1>5. /\ p.start \in Int /\ p.len \in Int /\ e.start \in Int /\ e.len = 0 /\ p.len > 0
      /\ End(p) \in Int /\ End(p) = p.start + p.len /\ e.start < End(p)
  <2>1. /\ p.start \in Int /\ p.len \in Int /\ e.start \in Int /\ End(p) \in Int
        /\ End(p) = p.start + p.len
    BY <1>1, EntryFacts DEF End
  <2>2. e.len = 0 /\ e.start - p.start < p.len
    BY DEF Inside
  <2> HIDE DEF p, e
  <2> QED BY <1>1, <2>1, <2>2
<1>6. /\ TableOK(mid, memory) /\ ReplacesOK(mid, blocks, k - 1, f)
      /\ \A t : Labelled(blocks, t) => Labelled(mid, t)
  <2>1. ASSUME NEW c \in Range(blocks), c.start # f.start PROVE Apart(c, f) /\ Apart(f, c)
    <3>1. Apart(c, p) /\ Apart(p, c)
      BY <1>1 DEF TableOK
    <3>2. c.start \in Int
      BY <1>1, EntryFacts
    <3> HIDE DEF p, e
    <3> QED BY <1>4, <1>5, <3>1, <3>2 DEF Apart
  <2>2. blocks[k - 1].is_branch_target => f.is_branch_target
    BY <1>4
  <2>3. f.start = blocks[k - 1].start
    BY <1>4
  <2> DEFINE h == k - 1
  <2>4. mid = [blocks EXCEPT ![h] = f] /\ h \in 1..Len(blocks)
    BY <1>1
  <2>5. f.start = blocks[h].start /\ (blocks[h].is_branch_target => f.is_branch_target)
    BY <2>2, <2>3
  <2>6. TableOK(blocks, memory) /\ f \in BlockInfo /\ Describes(f, memory)
    BY <1>1, <1>4
  <2> HIDE DEF p, e, mid, h
  <2>7. /\ TableOK(mid, memory) /\ ReplacesOK(mid, blocks, h, f)
        /\ \A t : Labelled(blocks, t) => Labelled(mid, t)
    BY <2>1, <2>4, <2>5, <2>6, ReplaceKeeps
  <2> QED BY <2>7 DEF h
<1> HIDE DEF mid
<1>7. /\ mid \in Seq(BlockInfo) /\ Len(mid) = Len(blocks) /\ mid[k - 1] = f /\ mid[k] = e
      /\ \A j \in 1..Len(blocks) : j # k - 1 => mid[j] = blocks[j]
      /\ \A b \in Range(mid) : b = f \/ (b \in Range(blocks) /\ b.start # f.start)
  BY <1>1, <1>6 DEF ReplacesOK
<1>8. /\ TableOK(new, memory) /\ ReplacesOK(new, mid, k, g)
      /\ \A t : Labelled(mid, t) => Labelled(new, t)
  <2>1. ASSUME NEW c \in Range(mid), c.start # g.start PROVE Apart(c, g) /\ Apart(g, c)
    <3>1. CASE c = f
      <4> HIDE DEF p, e
      <4> QED BY <1>1, <1>4, <1>5, <3>1 DEF Apart
    <3>2. CASE c \in Range(blocks) /\ c.start # f.start
      <4>1. Apart(c, p) /\ Apart(p, c)
        BY <1>1, <3>2 DEF TableOK
      <4>2. c.start \in Int /\ End(c) \in Int
        BY <1>1, <3>2, EntryFacts
      <4> HIDE DEF p, e
      <4>3. Apart(c, g)
        BY <1>1, <1>4, <1>5, <2>1, <3>2, <4>1, <4>2 DEF Apart
      <4>4. Apart(g, c)
        BY <1>1, <1>4, <1>5, <2>1, <3>2, <4>1, <4>2 DEF Apart
      <4> QED BY <4>3, <4>4
    <3> QED BY <1>7, <3>1, <3>2
  <2>2. mid[k].is_branch_target => g.is_branch_target
    BY <1>4, <1>7
  <2>3. g.start = mid[k].start /\ k \in 1..Len(mid)
    BY <1>1, <1>4, <1>7
  <2> HIDE DEF p, e
  <2> QED BY <1>3, <1>4, <1>6, <2>1, <2>2, <2>3, ReplaceKeeps
<1>9. /\ new \in Seq(BlockInfo) /\ Len(new) = Len(blocks) /\ new[k] = g /\ new[k - 1] = f
      /\ \A j \in 1..Len(blocks) : j # k - 1 /\ j # k => new[j] = blocks[j]
      /\ \A b \in Range(new) : b = g \/ b \in Range(mid)
  BY <1>1, <1>7, <1>8 DEF ReplacesOK
<1>10. f \in Range(new) /\ g \in Range(new)
  BY <1>1, <1>9, EntryFacts
<1>11. TargetsOK(new, memory)
  BY <1>6, <1>8 DEF TargetsOK
<1>12. ASSUME NEW x \in Int, Covered(blocks, x) PROVE Covered(new, x)
  <2>1. PICK b \in Range(blocks) : Covers(b, x)
    BY <1>12 DEF Covered
  <2>2. PICK j \in 1..Len(blocks) : b = blocks[j] /\ b \in BlockInfo
    BY <1>1, EntryFacts
  <2>3. b.len > 0 /\ b.start <= x /\ x < End(b)
    BY <2>1, <2>2, CoversFacts
  <2>4. CASE j = k - 1
    <3>1. p.start <= x /\ x < End(p)
      BY <2>2, <2>3, <2>4
    <3> HIDE DEF p, e
    <3>2. Covers(f, x) \/ Covers(g, x)
      BY <1>4, <1>5, <3>1 DEF Covers
    <3> QED BY <1>10, <3>2 DEF Covered
  <2>5. CASE j = k
    BY <1>5, <2>2, <2>3, <2>5
  <2>6. CASE j # k - 1 /\ j # k
    <3>1. new[j] = b
      BY <1>9, <2>2, <2>6
    <3>2. b \in Range(new)
      BY <1>9, <3>1, EntryFacts
    <3> QED BY <2>1, <3>2 DEF Covered
  <2> QED BY <2>4, <2>5, <2>6
<1>13. \A b \in Range(new) : \E c \in Range(blocks) : b.start = c.start
  BY <1>1, <1>4, <1>7, <1>9
<1>14. \A j \in DOMAIN new : j + 1 < k + 1 => End(new[j]) <= new[j + 1].start
  <2> SUFFICES ASSUME NEW j \in 1..Len(blocks), j + 1 < k + 1
               PROVE  End(new[j]) <= new[j + 1].start
    BY <1>9, EntryFacts
  <2>1. CASE j = k - 1
    <3>1. j + 1 = k
      BY <1>1, <2>1
    <3>2. End(f) <= g.start
      BY <1>4, <1>5
    <3> QED BY <1>9, <2>1, <3>1, <3>2
  <2>2. CASE j # k - 1
    <3>1. j # k /\ j + 1 # k /\ j + 1 < k /\ j + 1 \in 1..Len(blocks)
      BY <1>1, <2>2
    <3>2. End(blocks[j]) <= blocks[j + 1].start
      BY <1>1, <3>1, EntryFacts
    <3>3. new[j] = blocks[j] /\ new[j + 1].start = blocks[j + 1].start
      <4>1. CASE j + 1 = k - 1
        BY <1>4, <1>9, <2>2, <3>1, <4>1
      <4>2. CASE j + 1 # k - 1
        BY <1>9, <2>2, <3>1, <4>2
      <4> QED BY <4>1, <4>2
    <3> QED BY <3>2, <3>3
  <2> QED BY <2>1, <2>2
<1> HIDE DEF p, e
<1> QED BY <1>8, <1>9, <1>11, <1>12, <1>13, <1>14 DEF SplitsOK

(* One step of the splitting keeps the invariant. *)
LEMMA SplitBlockKeeps ==
  ASSUME ScanIInv, SplitBlock
  PROVE  ScanIInv'
<1> DEFINE k == split
           p == blocks[k - 1]
           e == blocks[k]
<1>1. /\ phase = "split" /\ k <= Len(blocks) /\ split' = k + 1
      /\ blocks' = (IF Inside(e, p)
                    THEN [blocks EXCEPT ![k - 1] = FirstPart(p, e.start), ![k] = SecondPart(e, p)]
                    ELSE blocks)
      /\ UNCHANGED <<memory, insn_count, block, blocks_size, phase>>
  BY DEF SplitBlock
<1>2. /\ ScanTypeOK /\ TableOK(blocks, memory) /\ TargetsOK(blocks, memory)
      /\ WordsOK /\ EndOK /\ SplitOK
  BY <1>1 DEF ScanIInv
<1>3. /\ k \in 2..(MaxInsns + 1) /\ memory \in Seq(Insns) /\ blocks \in Seq(BlockInfo)
      /\ Ordered(blocks) /\ Len(blocks) <= MaxInsns /\ MaxInsns \in Nat /\ Len(blocks) \in Nat
  BY <1>2, TableFits, ScanAssumption DEF ScanTypeOK, TableOK
<1>4. Pair(k)
  BY <1>1, <1>2, <1>3 DEF Pair
<1>5. \A j \in DOMAIN blocks : j + 1 < k => End(blocks[j]) <= blocks[j + 1].start
  BY <1>1, <1>2 DEF SplitOK
<1>6. SplitsOK(blocks', k)
  <2>1. CASE Inside(e, p)
    <3>1. blocks' = [blocks EXCEPT ![k - 1] = FirstPart(p, e.start), ![k] = SecondPart(e, p)]
      BY <1>1, <2>1
    <3> QED BY <1>2, <1>4, <1>5, <2>1, <3>1, InsideSplits
  <2>2. CASE ~Inside(e, p)
    <3>1. blocks' = blocks
      BY <1>1, <2>2
    <3>2. SplitsOK(blocks, k)
      BY <1>2, <1>4, <1>5, <2>2, ApartStays
    <3> QED BY <3>1, <3>2
  <2> QED BY <2>1, <2>2
<1> HIDE DEF k, p, e
<1>7. /\ TableOK(blocks', memory) /\ TargetsOK(blocks', memory) /\ Len(blocks') = Len(blocks)
      /\ \A x \in Int : Covered(blocks, x) => Covered(blocks', x)
      /\ \A b \in Range(blocks') : \E c \in Range(blocks) : b.start = c.start
      /\ \A j \in DOMAIN blocks' : j + 1 < k + 1 => End(blocks'[j]) <= blocks'[j + 1].start
  BY <1>6 DEF SplitsOK
<1>8. ScanTypeOK'
  <2>1. blocks' \in Seq(BlockInfo) /\ split' \in 2..(MaxInsns + 1)
    BY <1>1, <1>3, <1>7 DEF TableOK
  <2> QED BY <1>1, <1>2, <1>7, <2>1 DEF ScanTypeOK
<1>9. TableOK(blocks, memory)' /\ TargetsOK(blocks, memory)'
  BY <1>1, <1>7
<1>10. WordsOK'
  <2> SUFFICES ASSUME NEW a \in 0..(Len(memory) - 1)
               PROVE  Covered(blocks', a) \/ (WordAt(a).op = "bad" /\ a > 0)
    BY <1>1 DEF WordsOK, WordAt
  <2>1. Covered(blocks, a) \/ (WordAt(a).op = "bad" /\ a > 0)
    BY <1>1, <1>2 DEF WordsOK, InOpen
  <2> QED BY <1>7, <2>1
<1>11. OpenOK' /\ OpenBlockIsCurrent'
  BY <1>1 DEF OpenOK, OpenBlockIsCurrent
<1>12. EndOK'
  <2>1. Len(memory) > 0 /\ (Len(memory) = MaxInsns \/ StopsAt(memory))
    BY <1>1, <1>2 DEF EndOK
  <2>2. CASE Len(memory) = MaxInsns
    BY <1>1, <2>1, <2>2 DEF EndOK
  <2>3. CASE StopsAt(memory)
    <3>1. MayEndUnit(Last(memory)) /\ \A b \in Range(blocks) : b.start < Len(memory)
      BY <2>3 DEF StopsAt
    <3>2. \A b \in Range(blocks') : b.start < Len(memory)
      BY <1>7, <3>1
    <3> QED BY <1>1, <2>1, <3>1, <3>2 DEF EndOK, StopsAt
  <2> QED BY <2>1, <2>2, <2>3
<1>13. SplitOK'
  BY <1>1, <1>7 DEF SplitOK, k
<1> QED BY <1>8, <1>9, <1>10, <1>11, <1>12, <1>13 DEF ScanIInv

(* Once every entry has been looked at, no two share a word. *)
LEMMA SplitEndKeeps ==
  ASSUME ScanIInv, SplitEnd
  PROVE  ScanIInv'
<1>1. /\ phase = "split" /\ split > Len(blocks) /\ phase' = "done"
      /\ UNCHANGED <<memory, insn_count, block, blocks, blocks_size, split>>
  BY DEF SplitEnd
<1>2. /\ ScanTypeOK /\ TableOK(blocks, memory) /\ TargetsOK(blocks, memory)
      /\ WordsOK /\ EndOK /\ SplitOK
  BY <1>1 DEF ScanIInv
<1>3. ScanTypeOK' /\ TableOK(blocks, memory)' /\ TargetsOK(blocks, memory)'
  BY <1>1, <1>2 DEF ScanTypeOK
<1>4. WordsOK'
  BY <1>1, <1>2 DEF WordsOK, InOpen, WordAt
<1>5. OpenOK' /\ OpenBlockIsCurrent' /\ EndOK'
  BY <1>1, <1>2 DEF OpenOK, OpenBlockIsCurrent, EndOK, StopsAt
<1>6. SplitOK'
  <2> SUFFICES ASSUME NEW j \in 1..(Len(blocks) - 1) PROVE End(blocks[j]) <= blocks[j + 1].start
    BY <1>1 DEF SplitOK
  <2>1. blocks \in Seq(BlockInfo) /\ split \in Int
    BY <1>2 DEF ScanTypeOK
  <2>2. j \in DOMAIN blocks /\ j + 1 < split
    BY <1>1, <2>1
  <2> QED BY <1>1, <1>2, <2>2 DEF SplitOK
<1> QED BY <1>3, <1>4, <1>5, <1>6 DEF ScanIInv

(* When there is no room left the scan stops, and the table is not used. *)
LEMMA OutOfMemoryKeeps ==
  ASSUME ScanIInv, NEW i \in Insns, OutOfMemory(i)
  PROVE  ScanIInv'
BY DEF ScanIInv, OutOfMemory, ScanTypeOK

(* The empty table. *)
LEMMA InitKeeps ==
  ASSUME ScanInit
  PROVE  ScanIInv
<1>1. /\ memory = <<>> /\ insn_count = 0 /\ block = 0 /\ blocks = <<>> /\ blocks_size = 0
      /\ phase = "scan" /\ split = 2
  BY DEF ScanInit
<1>2. MaxInsns \in Nat /\ MaxInsns > 0
  BY ScanAssumption
<1>3. ScanTypeOK
  BY <1>1, <1>2 DEF ScanTypeOK
<1>4. Range(<<>>) = {} /\ DOMAIN <<>> = {} /\ Len(<<>>) = 0
  BY DEF Range
<1>5. TableOK(<<>>, <<>>) /\ TargetsOK(<<>>, <<>>)
  BY <1>4 DEF TableOK, TargetsOK, Ordered
<1>6. WordsOK /\ OpenOK /\ OpenBlockIsCurrent /\ EndOK /\ SplitOK
  BY <1>1, <1>4 DEF WordsOK, OpenOK, OpenBlockIsCurrent, EndOK, SplitOK
<1> QED BY <1>1, <1>3, <1>5, <1>6 DEF ScanIInv

(******************************** Theorems ********************************)

(* The inductive invariant of guest_ppc_scan() holds in every state, for any limit
   and any guest code. *)
THEOREM ScanInvariance == ScanSpec => []ScanIInv
<1>1. ScanIInv /\ [ScanNext]_scanVars => ScanIInv'
  <2> SUFFICES ASSUME ScanIInv, [ScanNext]_scanVars PROVE ScanIInv'
    OBVIOUS
  <2>1. ASSUME NEW i \in Insns, SkipInvalid(i) PROVE ScanIInv'
    BY <2>1, SkipKeeps
  <2>2. ASSUME NEW i \in Insns, ScanInsn(i) PROVE ScanIInv'
    BY <2>2, ScanInsnKeeps
  <2>3. ASSUME NEW i \in Insns, OutOfMemory(i) PROVE ScanIInv'
    BY <2>3, OutOfMemoryKeeps
  <2>4. CASE ReachLimit
    BY <2>4, ReachLimitKeeps
  <2>5. CASE SplitBlock
    BY <2>5, SplitBlockKeeps
  <2>6. CASE SplitEnd
    BY <2>6, SplitEndKeeps
  <2>7. CASE UNCHANGED scanVars
    BY <2>7 DEF scanVars, ScanIInv, ScanTypeOK, OpenBlockIsCurrent, OpenOK, WordsOK, InOpen, WordAt,
                EndOK, StopsAt, SplitOK
  <2> QED BY <2>1, <2>2, <2>3, <2>4, <2>5, <2>6, <2>7 DEF ScanNext
<1> QED BY <1>1, InitKeeps, PTL DEF ScanSpec

(* The invariant that TLC checks: types, the entry of the open block, whose index is
   kept while others are inserted, and the flags of the finished blocks. *)
THEOREM ScanStaysSound == ScanSpec => []ScanInv
<1>1. ScanIInv => ScanInv
  <2> SUFFICES ASSUME ScanIInv PROVE ScanInv
    OBVIOUS
  <2>1. ScanTypeOK
    BY DEF ScanIInv
  <2>2. OpenBlockIsCurrent
    BY DEF ScanIInv, OpenBlockIsCurrent
  <2>3. FlagsMatchLastWord
    <3> SUFFICES ASSUME phase = "done", NEW k \in DOMAIN blocks, blocks[k].len > 0
                 PROVE  LET b == blocks[k]
                        IN  /\ b.has_trap = (LastInsn(b).op = "trap")
                            /\ b.has_branch = IsBranch(LastInsn(b))
                            /\ b.is_conditional_branch = IsCond(LastInsn(b))
                            /\ \A a \in b.start..(End(b) - 2) : ~EndsBlock(WordAt(a))
      BY DEF FlagsMatchLastWord
    <3> DEFINE b == blocks[k]
    <3>1. blocks \in Seq(BlockInfo) /\ TableOK(blocks, memory)
      BY <2>1 DEF ScanTypeOK, ScanIInv
    <3>2. b \in Range(blocks) /\ b \in BlockInfo
      BY <3>1, EntryFacts
    <3>3. Describes(b, memory)
      BY <3>1, <3>2 DEF TableOK
    <3>4. b.len # 0 /\ End(b) \in Int
      <4>1. b.len > 0
        OBVIOUS
      <4>2. b.len \in Int /\ End(b) \in Int
        BY <3>1, <3>2, EntryFacts
      <4> HIDE DEF b
      <4> QED BY <4>1, <4>2
    <3>5. (End(b) - 1) + 1 = End(b)
      BY <3>4
    <3> HIDE DEF b
    <3>6. LastInsn(b) = memory[End(b)]
      BY <3>5 DEF LastInsn, WordAt
    <3>7. /\ b.has_trap = (memory[End(b)].op = "trap")
          /\ b.has_branch = IsBranch(memory[End(b)])
          /\ b.is_conditional_branch = IsCond(memory[End(b)])
          /\ \A a \in b.start..(End(b) - 2) : ~EndsBlock(memory[a + 1])
      BY <3>3, <3>4 DEF Describes
    <3> QED BY <3>6, <3>7 DEF b, WordAt
  <2> QED BY <2>1, <2>2, <2>3 DEF ScanInv
<1> QED BY <1>1, ScanInvariance, PTL

(* The blocks that guest_ppc_scan() leaves are in order, share no word, and hold every
   word that was not passed over. *)
THEOREM WordsArePartitioned == ScanSpec => []BlocksPartitionWords
<1>1. ScanIInv => BlocksPartitionWords
  <2> SUFFICES ASSUME ScanIInv, phase = "done"
               PROVE  /\ \A b \in 1..(Len(blocks) - 1) : End(blocks[b]) <= blocks[b + 1].start
                      /\ \A a \in 0..(Len(memory) - 1) :
                           \/ \E b \in DOMAIN blocks : Covers(blocks[b], a)
                           \/ WordAt(a).op = "bad" /\ a > 0
    BY DEF BlocksPartitionWords
  <2>1. SplitOK /\ WordsOK
    BY DEF ScanIInv
  <2>2. \A a \in 0..(Len(memory) - 1) : Covered(blocks, a) \/ (WordAt(a).op = "bad" /\ a > 0)
    BY <2>1 DEF WordsOK, InOpen
  <2> QED BY <2>1, <2>2 DEF SplitOK, Covered, Range
<1> QED BY <1>1, ScanInvariance, PTL

(* A labelled entry of a table whose blocks are in order is found by the search of
   translate_branch(). *)
LEMMA LabelIsFound ==
  ASSUME NEW bs \in Seq(BlockInfo), Ordered(bs),
         \A j \in 1..(Len(bs) - 1) : End(bs[j]) <= bs[j + 1].start,
         NEW k \in 1..Len(bs), bs[k].is_branch_target
  PROVE  LabelSteps(bs, bs[k].start)[<<1, Len(bs)>>] = "found"
<1> DEFINE n == Len(bs)
           a == bs[k].start
           S(r) == LabelSteps(bs, a)[r]
           Good(r, m) == r[2] - r[1] < m - 1 /\ r[1] <= k /\ k <= r[2] => S(r) = "found"
           All == {m \in Nat : \A r \in Ranges(n) : Good(r, m)}
<1>1. n \in Nat /\ a \in Int /\ \A j \in 1..n : bs[j].start \in Int /\ bs[j].len \in Int
                                                /\ End(bs[j]) = bs[j].start + bs[j].len
  BY EntryFacts DEF End
<1>2. 0 \in All
  BY <1>1 DEF Ranges
<1>3. ASSUME NEW m \in Nat, m \in All PROVE m + 1 \in All
  <2> SUFFICES ASSUME NEW r \in Ranges(n), r[2] - r[1] < (m + 1) - 1, r[1] <= k, k <= r[2]
               PROVE  S(r) = "found"
    OBVIOUS
  <2>1. r[1] \in 1..(n + 1) /\ r[2] \in 0..n /\ r[1] <= r[2]
    BY <1>1 DEF Ranges
  <2> DEFINE mid == (r[1] + r[2] + 1) \div 2
             b == bs[mid]
  <2>2. S(r) = IF r[1] > r[2] THEN "assert"
               ELSE IF a = b.start THEN IF b.is_branch_target THEN "found" ELSE "loop"
               ELSE IF a < b.start THEN S(<<r[1], mid - 1>>)
               ELSE IF a > b.start + b.len - 1 THEN S(<<mid + 1, r[2]>>)
               ELSE "assert"
    <3>1. LabelSteps(bs, a)[r] = LabelSought(LabelSteps(bs, a), bs, a, r)
      BY LabelStepsRecur
    <3> QED BY <3>1 DEF LabelSought
  <2>3. /\ mid \in 1..n /\ r[1] <= mid /\ mid <= r[2]
        /\ <<r[1], mid - 1>> \in Ranges(n) /\ (mid - 1) - r[1] < r[2] - r[1]
        /\ <<mid + 1, r[2]>> \in Ranges(n) /\ r[2] - (mid + 1) < r[2] - r[1]
    BY <1>1, <2>1, ProbeNarrows
  <2> HIDE DEF mid, S
  <2>4. ~(r[1] > r[2])
    BY <2>1
  <2>5. CASE mid = k
    BY <2>2, <2>4, <2>5
  <2>6. CASE k < mid
    <3> DEFINE q == <<r[1], mid - 1>>
    <3>1. q[1] = r[1] /\ q[2] = mid - 1 /\ q \in Ranges(n) /\ q[2] - q[1] < m - 1
          /\ q[1] <= k /\ k <= q[2]
      <4>1. q[1] = r[1] /\ q[2] = mid - 1 /\ q \in Ranges(n)
        BY <2>3
      <4>2. (mid - 1) - r[1] < m - 1 /\ k <= mid - 1
        <5> DEFINE u == r[1]
                   v == r[2]
        <5>1. u \in Int /\ v \in Int /\ mid \in Int /\ k \in Int
          BY <1>1, <2>1, <2>3
        <5>2. v - u < (m + 1) - 1 /\ mid <= v
          BY <2>3
        <5> HIDE DEF u, v
        <5>3. (mid - 1) - u < m - 1 /\ k <= mid - 1
          BY <2>6, <5>1, <5>2
        <5> QED BY <5>3 DEF u
      <4> HIDE DEF q
      <4> QED BY <4>1, <4>2
    <3>2. a < b.start
      BY <2>3, <2>6, EntryFacts DEF Ordered
    <3>3. S(r) = S(q)
      BY <1>1, <2>2, <2>3, <2>4, <3>2
    <3>4. S(q) = "found"
      <4> HIDE DEF q
      <4> QED BY <1>3, <3>1
    <3> QED BY <3>3, <3>4
  <2>7. CASE mid < k
    <3> DEFINE q == <<mid + 1, r[2]>>
    <3>1. q[1] = mid + 1 /\ q[2] = r[2] /\ q \in Ranges(n) /\ q[2] - q[1] < m - 1
          /\ q[1] <= k /\ k <= q[2]
      <4>1. q[1] = mid + 1 /\ q[2] = r[2] /\ q \in Ranges(n)
        BY <2>3
      <4>2. r[2] - (mid + 1) < m - 1 /\ mid + 1 <= k
        <5> DEFINE u == r[1]
                   v == r[2]
        <5>1. u \in Int /\ v \in Int /\ mid \in Int /\ k \in Int
          BY <1>1, <2>1, <2>3
        <5>2. v - u < (m + 1) - 1 /\ u <= mid
          BY <2>3
        <5> HIDE DEF u, v
        <5>3. v - (mid + 1) < m - 1 /\ mid + 1 <= k
          BY <2>7, <5>1, <5>2
        <5> QED BY <5>3 DEF v
      <4> HIDE DEF q
      <4> QED BY <4>1, <4>2
    <3>2. b.start < a
      BY <2>3, <2>7, EntryFacts DEF Ordered
    <3>3. a > b.start + b.len - 1
      <4>1. mid \in 1..(n - 1) /\ mid + 1 \in 1..n /\ (mid + 1 < k \/ mid + 1 = k)
        BY <1>1, <2>3, <2>7
      <4>2. End(b) <= bs[mid + 1].start
        BY <4>1
      <4>3. bs[mid + 1].start <= a
        <5>1. mid + 1 < k => bs[mid + 1].start < bs[k].start
          BY <4>1, EntryFacts DEF Ordered
        <5> QED BY <1>1, <4>1, <5>1
      <4>4. /\ b.start \in Int /\ b.len \in Int /\ End(b) = b.start + b.len
            /\ bs[mid + 1].start \in Int /\ a \in Int
        BY <1>1, <2>3, <4>1
      <4> HIDE DEF b, a
      <4> QED BY <4>2, <4>3, <4>4
    <3>4. ~(a = b.start) /\ ~(a < b.start)
      BY <1>1, <2>3, <3>2
    <3>5. S(r) = S(q)
      <4> HIDE DEF b, a
      <4> QED BY <2>2, <2>4, <3>3, <3>4
    <3>6. S(q) = "found"
      <4> HIDE DEF q
      <4> QED BY <1>3, <3>1
    <3> QED BY <3>5, <3>6
  <2> QED BY <2>3, <2>5, <2>6, <2>7
<1>4. n + 1 \in All
  <2> HIDE DEF All
  <2> QED BY <1>1, <1>2, <1>3, Induction
<1> DEFINE r0 == <<1, n>>
<1>5. r0 \in Ranges(n) /\ r0[2] - r0[1] < (n + 1) - 1 /\ r0[1] <= k /\ k <= r0[2]
  BY <1>1 DEF Ranges
<1>6. S(r0) = "found"
  <2> HIDE DEF S, r0
  <2> QED BY <1>4, <1>5
<1> QED BY <1>6

(* The finished blocks lie between the start of the first and the end of the last. *)
LEMMA CoveredInUnit ==
  ASSUME NEW c \in 1..Len(blocks), NEW t \in Int, Covers(blocks[c], t),
         blocks \in Seq(BlockInfo), Ordered(blocks),
         \A j \in 1..(Len(blocks) - 1) : End(blocks[j]) <= blocks[j + 1].start
  PROVE  InUnit(t)
<1> DEFINE n == Len(blocks)
<1>1. n \in Nat /\ 1 \in 1..n /\ n \in 1..n
  OBVIOUS
<1>2. /\ \A j \in 1..n : /\ blocks[j] \in BlockInfo /\ blocks[j].start \in Int
                         /\ blocks[j].len \in Int /\ 0 <= blocks[j].len
                         /\ End(blocks[j]) \in Int /\ End(blocks[j]) = blocks[j].start + blocks[j].len
      /\ \A i \in 1..n : \A j \in 1..n : i < j => blocks[i].start < blocks[j].start
  BY EntryFacts DEF Ordered, End
<1>3. blocks[c].start <= t /\ t < End(blocks[c])
  BY <1>2, CoversFacts
<1>4. blocks[1].start <= blocks[c].start
  <2>1. 1 < c \/ 1 = c
    OBVIOUS
  <2> QED BY <1>1, <1>2, <2>1
<1>5. End(blocks[c]) <= End(blocks[n])
  <2>1. CASE c = n
    BY <1>1, <1>2, <2>1
  <2>2. CASE c # n
    <3>1. c \in 1..(n - 1) /\ c + 1 \in 1..n /\ (c + 1 < n \/ c + 1 = n)
      BY <1>1, <2>2
    <3>2. End(blocks[c]) <= blocks[c + 1].start
      BY <3>1
    <3>3. c + 1 < n => blocks[c + 1].start < blocks[n].start
      BY <1>1, <1>2, <3>1
    <3>4. blocks[c + 1].start <= blocks[n].start
      BY <1>1, <1>2, <3>1, <3>3
    <3>5. /\ End(blocks[c]) \in Int /\ blocks[c + 1].start \in Int /\ blocks[n].start \in Int
          /\ blocks[n].len \in Int /\ 0 <= blocks[n].len
          /\ End(blocks[n]) = blocks[n].start + blocks[n].len
      BY <1>1, <1>2, <3>1
    <3> QED BY <3>2, <3>4, <3>5
  <2> QED BY <2>1, <2>2
<1>6. /\ blocks[1].start \in Int /\ blocks[c].start \in Int
      /\ End(blocks[c]) \in Int /\ End(blocks[n]) \in Int
      /\ End(blocks[n]) = blocks[n].start + blocks[n].len
      /\ blocks[n].start \in Int /\ blocks[n].len \in Int
  BY <1>1, <1>2
<1>7. t >= blocks[1].start
  BY <1>3, <1>4, <1>6
<1>8. t <= blocks[n].start + blocks[n].len - 1
  BY <1>3, <1>5, <1>6
<1> QED BY <1>7, <1>8 DEF InUnit, Last

(* "We break blocks at all branch targets, so this search should always terminate at
   a match": the search for the label of a branch of the finished unit finds one. *)
THEOREM BranchesFindLabels == ScanSpec => []BranchFindsLabel
<1>1. ScanIInv => BranchFindsLabel
  <2> SUFFICES ASSUME ScanIInv, phase = "done", NEW h \in DOMAIN blocks, blocks[h].len > 0,
                      HasTarget(LastInsn(blocks[h]))
               PROVE  LET t == LastInsn(blocks[h]).target
                      IN  /\ LabelSearch(t) = "found"
                          /\ ~InUnit(t) => ~\E c \in DOMAIN blocks : Covers(blocks[c], t)
    BY DEF BranchFindsLabel
  <2> DEFINE b == blocks[h]
             t == LastInsn(b).target
  <2>1. /\ TableOK(blocks, memory) /\ TargetsOK(blocks, memory) /\ SplitOK
        /\ memory \in Seq(Insns)
    BY DEF ScanIInv, ScanTypeOK
  <2>2. blocks \in Seq(BlockInfo) /\ Ordered(blocks) /\ DOMAIN blocks = 1..Len(blocks)
    BY <2>1 DEF TableOK
  <2>3. \A j \in 1..(Len(blocks) - 1) : End(blocks[j]) <= blocks[j + 1].start
    BY <2>1 DEF SplitOK
  <2>4. b \in Range(blocks) /\ b \in BlockInfo
    BY <2>2, EntryFacts
  <2>5. Describes(b, memory)
    BY <2>1, <2>4 DEF TableOK
  <2>6. b.len > 0 /\ b.len \in Int /\ 0 <= b.start /\ b.start \in Int /\ End(b) = b.start + b.len
    <3>1. b.len > 0
      OBVIOUS
    <3>2. b.len \in Int /\ 0 <= b.start /\ b.start \in Int /\ End(b) = b.start + b.len
      BY <2>2, <2>4, EntryFacts DEF End
    <3> QED BY <3>1, <3>2
  <2> HIDE DEF b
  <2>7. End(b) \in 1..Len(memory) /\ LastInsn(b) = memory[End(b)]
    <3>1. End(b) <= Len(memory) /\ b.len # 0
      BY <2>5, <2>6 DEF Describes
    <3>2. (End(b) - 1) + 1 = End(b) /\ End(b) \in 1..Len(memory)
      BY <2>1, <2>6, <3>1
    <3> QED BY <3>2 DEF LastInsn, WordAt
  <2>8. LastInsn(b) \in Range(memory)
    BY <2>1, <2>7 DEF Range
  <2>9. HasTarget(LastInsn(b))
    BY DEF b
  <2>10. Labelled(blocks, t) /\ t \in Words
    BY <2>1, <2>8, <2>9 DEF TargetsOK, HasTarget
  <2> HIDE DEF t
  <2>11. t \in Int
    BY <2>10, ScanAssumption DEF Words
  <2>12. LabelSearch(t) = "found"
    <3>1. PICK e \in Range(blocks) : e.start = t /\ e.is_branch_target
      BY <2>10 DEF Labelled
    <3>2. PICK k \in 1..Len(blocks) : e = blocks[k]
      BY <2>2, EntryFacts
    <3>3. LabelSteps(blocks, blocks[k].start)[<<1, Len(blocks)>>] = "found"
      BY <2>2, <2>3, <3>1, <3>2, LabelIsFound
    <3> QED BY <3>1, <3>2, <3>3 DEF LabelSearch
  <2>13. ~InUnit(t) => ~\E c \in DOMAIN blocks : Covers(blocks[c], t)
    BY <2>2, <2>3, <2>11, CoveredInUnit
  <2> QED BY <2>12, <2>13 DEF b, t
<1> QED BY <1>1, ScanInvariance, PTL

(* The scan does not stop before the end of the function: a valid word that the guest
   code can reach from its start inside the limit is in a block. *)
THEOREM CodeIsTranslated == ScanSpec => []ReachableIsTranslated
<1>1. ScanIInv => ReachableIsTranslated
  <2> SUFFICES ASSUME ScanIInv, phase = "done"
               PROVE  \A a \in Reachable :
                        /\ a < Len(memory)
                        /\ WordAt(a).op # "bad" => \E b \in DOMAIN blocks : Covers(blocks[b], a)
    BY DEF ReachableIsTranslated
  <2>1. /\ TableOK(blocks, memory) /\ TargetsOK(blocks, memory) /\ EndOK /\ WordsOK
        /\ memory \in Seq(Insns) /\ Len(memory) <= MaxInsns /\ blocks \in Seq(BlockInfo)
    BY DEF ScanIInv, ScanTypeOK
  <2>2. /\ Len(memory) \in Nat /\ Len(memory) > 0
        /\ Len(memory) = MaxInsns \/ StopsAt(memory)
    BY <2>1 DEF EndOK
  <2>3. MaxInsns \in Nat /\ Words = {w \in Int : 0 <= w /\ w < MaxInsns}
    BY ScanAssumption DEF Words
  <2> DEFINE R == {w \in Words : w < Len(memory)}
  <2>4. 0 \in R
    BY <2>1, <2>2, <2>3
  <2>5. ASSUME NEW a \in R, NEW s \in Successors(a) PROVE s \in R
    <3>1. a \in Int /\ 0 <= a /\ a < Len(memory) /\ a + 1 \in 1..Len(memory)
      BY <2>2, <2>3
    <3> DEFINE i == WordAt(a)
    <3>2. i \in Insns /\ i \in Range(memory) /\ i = memory[a + 1]
      BY <2>1, <3>1 DEF WordAt, Range
    <3> HIDE DEF i
    <3>3. s \in Words /\ ((s = i.target /\ HasTarget(i)) \/ (s = a + 1 /\ i.op \in {"plain", "trap", "bc"}))
      BY DEF Successors, i
    <3>4. CASE Len(memory) = MaxInsns
      BY <2>3, <3>3, <3>4
    <3>5. CASE StopsAt(memory)
      <4>1. MayEndUnit(Last(memory)) /\ \A b \in Range(blocks) : b.start < Len(memory)
        BY <3>5 DEF StopsAt
      <4>2. CASE s = i.target /\ HasTarget(i)
        <5>1. PICK b \in Range(blocks) : b.start = s
          BY <2>1, <3>2, <4>2 DEF TargetsOK, Labelled
        <5> QED BY <3>3, <4>1, <5>1
      <4>3. CASE s = a + 1 /\ i.op \in {"plain", "trap", "bc"}
        <5>1. a + 1 # Len(memory)
          <6> SUFFICES ASSUME a + 1 = Len(memory) PROVE FALSE
            OBVIOUS
          <6>1. Last(memory) = i
            BY <3>2 DEF Last
          <6> QED BY <3>2, <4>1, <4>3, <6>1, InsnFacts
        <5> QED BY <2>2, <3>1, <3>3, <4>3, <5>1
      <4> QED BY <3>3, <4>2, <4>3
    <3> QED BY <2>2, <3>4, <3>5
  <2>6. ClosedUnderSuccessors(R) /\ R \in SUBSET Words
    BY <2>5 DEF ClosedUnderSuccessors
  <2> HIDE DEF R
  <2>7. Reachable \subseteq R
    BY <2>4, <2>6 DEF Reachable
  <2> SUFFICES ASSUME NEW a \in Reachable
               PROVE  /\ a < Len(memory)
                      /\ WordAt(a).op # "bad" => \E b \in DOMAIN blocks : Covers(blocks[b], a)
    OBVIOUS
  <2>8. a \in Words /\ a < Len(memory)
    BY <2>7 DEF R
  <2>9. a \in 0..(Len(memory) - 1)
    BY <2>2, <2>3, <2>8
  <2>10. Covered(blocks, a) \/ WordAt(a).op = "bad"
    BY <2>1, <2>9 DEF WordsOK, InOpen
  <2> QED BY <2>8, <2>10 DEF Covered, Range
<1> QED BY <1>1, ScanInvariance, PTL

(************************* Store trimming: the marks *************************)

(* The marks of a block are made access by access. *)
LEMMA MarksRecur ==
  ASSUME NEW s, NEW n \in Nat, n = Len(s)
  PROVE  MarksIn(s) = [i \in 0..n |-> IF i = 0 THEN NoMarks ELSE Mark(MarksIn(s)[i - 1], s[i])]
<1> DEFINE Good(f, m) == f = [i \in 0..m |-> IF i = 0 THEN NoMarks ELSE Mark(f[i - 1], s[i])]
           Upto == {m \in Nat : \E f : Good(f, m)}
<1>1. 0 \in Upto
  <2>1. Good([i \in 0..0 |-> NoMarks], 0)
    OBVIOUS
  <2> QED BY <2>1
<1>2. ASSUME NEW m \in Nat, m \in Upto PROVE m + 1 \in Upto
  <2>1. PICK f : Good(f, m)
    BY <1>2
  <2> DEFINE g == [i \in 0..(m + 1) |-> IF i = m + 1 THEN Mark(f[m], s[m + 1]) ELSE f[i]]
  <2>2. \A i \in 0..m : g[i] = f[i] /\ f[i] = IF i = 0 THEN NoMarks ELSE Mark(f[i - 1], s[i])
    BY <2>1
  <2>3. g[m + 1] = Mark(f[m], s[m + 1])
    OBVIOUS
  <2>4. g = [i \in 0..(m + 1) |-> g[i]]
    OBVIOUS
  <2> HIDE DEF g
  <2>5. ASSUME NEW i \in 0..(m + 1)
        PROVE  g[i] = IF i = 0 THEN NoMarks ELSE Mark(g[i - 1], s[i])
    <3>1. CASE i = m + 1
      <4>1. g[m] = f[m]
        BY <2>2
      <4>2. i - 1 = m /\ i # 0
        BY <3>1
      <4> QED BY <2>3, <3>1, <4>1, <4>2
    <3>2. CASE i # m + 1
      <4>1. i \in 0..m /\ (i # 0 => i - 1 \in 0..m)
        BY <3>2
      <4> QED BY <2>2, <4>1
    <3> QED BY <3>1, <3>2
  <2>6. Good(g, m + 1)
    BY <2>4, <2>5
  <2> QED BY <2>6
<1>3. n \in Upto
  BY <1>1, <1>2, Induction
<1>4. \E f : Good(f, n)
  BY <1>3
<1>5. MarksIn(s) = CHOOSE f : f = [i \in 0..n |-> IF i = 0 THEN NoMarks ELSE Mark(f[i - 1], s[i])]
  BY DEF MarksIn
<1> QED BY <1>4, <1>5

(* And so are the states of the bit as the code of the block is generated. *)
LEMMA StatesRecur ==
  ASSUME NEW s, NEW n \in Nat, n = Len(s)
  PROVE  States(s) = [i \in 0..n |-> IF i = 0 THEN Entered ELSE Access(States(s)[i - 1], s[i])]
<1> DEFINE Good(f, m) == f = [i \in 0..m |-> IF i = 0 THEN Entered ELSE Access(f[i - 1], s[i])]
           Upto == {m \in Nat : \E f : Good(f, m)}
<1>1. 0 \in Upto
  <2>1. Good([i \in 0..0 |-> Entered], 0)
    OBVIOUS
  <2> QED BY <2>1
<1>2. ASSUME NEW m \in Nat, m \in Upto PROVE m + 1 \in Upto
  <2>1. PICK f : Good(f, m)
    BY <1>2
  <2> DEFINE g == [i \in 0..(m + 1) |-> IF i = m + 1 THEN Access(f[m], s[m + 1]) ELSE f[i]]
  <2>2. \A i \in 0..m : g[i] = f[i] /\ f[i] = IF i = 0 THEN Entered ELSE Access(f[i - 1], s[i])
    BY <2>1
  <2>3. g[m + 1] = Access(f[m], s[m + 1])
    OBVIOUS
  <2>4. g = [i \in 0..(m + 1) |-> g[i]]
    OBVIOUS
  <2> HIDE DEF g
  <2>5. ASSUME NEW i \in 0..(m + 1)
        PROVE  g[i] = IF i = 0 THEN Entered ELSE Access(g[i - 1], s[i])
    <3>1. CASE i = m + 1
      <4>1. g[m] = f[m]
        BY <2>2
      <4>2. i - 1 = m /\ i # 0
        BY <3>1
      <4> QED BY <2>3, <3>1, <4>1, <4>2
    <3>2. CASE i # m + 1
      <4>1. i \in 0..m /\ (i # 0 => i - 1 \in 0..m)
        BY <3>2
      <4> QED BY <2>2, <4>1
    <3> QED BY <3>1, <3>2
  <2>6. Good(g, m + 1)
    BY <2>4, <2>5
  <2> QED BY <2>6
<1>3. n \in Upto
  BY <1>1, <1>2, Induction
<1>4. \E f : Good(f, n)
  BY <1>3
<1>5. States(s) = CHOOSE f : f = [i \in 0..n |-> IF i = 0 THEN Entered ELSE Access(f[i - 1], s[i])]
  BY DEF States
<1> QED BY <1>4, <1>5

(* What the marks say of the accesses of a block: whether it sets the bit, whether it
   uses it before that, and whether it reads all of CR. *)
MarksOK(s, m, i) ==
  /\ m \in [used : BOOLEAN, changed : BOOLEAN, cr_used : BOOLEAN]
  /\ m.changed <=> \E j \in 1..i : s[j] = "set"
  /\ m.cr_used <=> \E j \in 1..i : s[j] = "mfcr"
  /\ m.used <=> \E j \in 1..i : s[j] = "use" /\ \A k \in 1..(j - 1) : s[k] # "set"

(* That is what the marks are once the block has been gone through. *)
LEMMA MarksFacts ==
  ASSUME NEW s \in Seq(Accesses)
  PROVE  MarksOK(s, MarksIn(s)[Len(s)], Len(s))
<1> DEFINE n == Len(s)
           Good == {i \in Nat : i <= n => MarksOK(s, MarksIn(s)[i], i)}
<1>1. n \in Nat /\ \A i \in 1..n : s[i] \in {"set", "use", "mfcr"}
  BY DEF Accesses
<1>2. \A i \in 0..n : MarksIn(s)[i] = IF i = 0 THEN NoMarks ELSE Mark(MarksIn(s)[i - 1], s[i])
  BY <1>1, MarksRecur
<1>3. 0 \in Good
  <2>1. MarksOK(s, NoMarks, 0)
    BY DEF MarksOK, NoMarks
  <2>2. MarksIn(s)[0] = NoMarks
    BY <1>1, <1>2
  <2> QED BY <2>1, <2>2
<1>4. ASSUME NEW i \in 1..n, NEW m, MarksOK(s, m, i - 1) PROVE MarksOK(s, Mark(m, s[i]), i)
  <2> DEFINE q == Mark(m, s[i])
  <2> SUFFICES MarksOK(s, q, i)
    OBVIOUS
  <2>1. /\ s[i] \in {"set", "use", "mfcr"} /\ m \in [used : BOOLEAN, changed : BOOLEAN, cr_used : BOOLEAN]
        /\ 1..i = (1..(i - 1)) \cup {i}
    BY <1>1, <1>4 DEF MarksOK
  <2>2. \A x : (\E j \in 1..i : s[j] = x) <=> (\E j \in 1..(i - 1) : s[j] = x) \/ s[i] = x
    BY <2>1
  <2>3. (\E j \in 1..i : s[j] = "use" /\ \A k \in 1..(j - 1) : s[k] # "set")
          <=> \/ \E j \in 1..(i - 1) : s[j] = "use" /\ \A k \in 1..(j - 1) : s[k] # "set"
              \/ s[i] = "use" /\ \A k \in 1..(i - 1) : s[k] # "set"
    BY <2>1
  <2>4. CASE s[i] = "set"
    <3>1. q = [used |-> m.used, changed |-> TRUE, cr_used |-> m.cr_used]
      BY <2>1, <2>4 DEF Mark
    <3>2. q \in [used : BOOLEAN, changed : BOOLEAN, cr_used : BOOLEAN]
      BY <2>1, <3>1
    <3>3. q.used <=> \E j \in 1..i : s[j] = "use" /\ \A k \in 1..(j - 1) : s[k] # "set"
      BY <1>4, <2>3, <2>4, <3>1 DEF MarksOK
    <3>4. q.changed <=> \E j \in 1..i : s[j] = "set"
      BY <1>4, <2>2, <2>4, <3>1 DEF MarksOK
    <3>5. q.cr_used <=> \E j \in 1..i : s[j] = "mfcr"
      BY <1>4, <2>2, <2>4, <3>1 DEF MarksOK
    <3> HIDE DEF q
    <3> QED BY <3>2, <3>3, <3>4, <3>5 DEF MarksOK
  <2>5. CASE s[i] = "mfcr"
    <3>1. q = [used |-> m.used, changed |-> m.changed, cr_used |-> TRUE]
      BY <2>1, <2>5 DEF Mark
    <3>2. q \in [used : BOOLEAN, changed : BOOLEAN, cr_used : BOOLEAN]
      BY <2>1, <3>1
    <3>3. q.used <=> \E j \in 1..i : s[j] = "use" /\ \A k \in 1..(j - 1) : s[k] # "set"
      BY <1>4, <2>3, <2>5, <3>1 DEF MarksOK
    <3>4. q.changed <=> \E j \in 1..i : s[j] = "set"
      BY <1>4, <2>2, <2>5, <3>1 DEF MarksOK
    <3>5. q.cr_used <=> \E j \in 1..i : s[j] = "mfcr"
      BY <1>4, <2>2, <2>5, <3>1 DEF MarksOK
    <3> HIDE DEF q
    <3> QED BY <3>2, <3>3, <3>4, <3>5 DEF MarksOK
  <2>6. CASE s[i] = "use"
    <3>1. q = [used |-> m.used \/ ~m.changed, changed |-> m.changed, cr_used |-> m.cr_used]
      BY <2>1, <2>6 DEF Mark
    <3>2. /\ q \in [used : BOOLEAN, changed : BOOLEAN, cr_used : BOOLEAN]
          /\ q.changed = m.changed /\ q.cr_used = m.cr_used
      BY <2>1, <3>1
    <3>3. q.used <=> m.used \/ ~m.changed
      BY <2>1, <2>6 DEF Mark
    <3>4. ~m.changed <=> \A k \in 1..(i - 1) : s[k] # "set"
      BY <1>4 DEF MarksOK
    <3>5. q.used <=> \E j \in 1..i : s[j] = "use" /\ \A k \in 1..(j - 1) : s[k] # "set"
      BY <1>4, <2>3, <2>6, <3>3, <3>4 DEF MarksOK
    <3>6. q.changed <=> \E j \in 1..i : s[j] = "set"
      BY <1>4, <2>2, <2>6, <3>1 DEF MarksOK
    <3>7. q.cr_used <=> \E j \in 1..i : s[j] = "mfcr"
      BY <1>4, <2>2, <2>6, <3>1 DEF MarksOK
    <3> HIDE DEF q
    <3> QED BY <3>2, <3>5, <3>6, <3>7 DEF MarksOK
  <2> QED BY <2>1, <2>4, <2>5, <2>6, Zenon
<1>5. ASSUME NEW m \in Nat, m \in Good PROVE m + 1 \in Good
  <2> SUFFICES ASSUME m + 1 <= n PROVE MarksOK(s, MarksIn(s)[m + 1], m + 1)
    OBVIOUS
  <2>1. m + 1 \in 1..n /\ (m + 1) - 1 = m /\ MarksOK(s, MarksIn(s)[m], m)
    BY <1>1, <1>5
  <2>2. MarksIn(s)[m + 1] = Mark(MarksIn(s)[m], s[m + 1])
    BY <1>1, <1>2, <2>1
  <2> QED BY <1>4, <2>1, <2>2
<1> HIDE DEF Good
<1>6. Nat \subseteq Good
  BY <1>3, <1>5, Induction
<1> QED BY <1>1, <1>6 DEF Good

(* How the generated code reads the bit: a read is wrong only if the alias did not hold
   the bit on entry and the block does not set it first, and a store is pending only of a
   bit that the block has set. *)
StateOK(s, e, i) ==
  /\ e \in [live : BOOLEAN, fresh : BOOLEAN, pending : BOOLEAN, wrong : BOOLEAN]
  /\ e.fresh <=> fresh \/ \E j \in 1..i : s[j] = "set"
  /\ e.pending => \E j \in 1..i : s[j] = "set"
  /\ e.wrong => ~fresh /\ s # <<>> /\ s[1] # "set"

(* And so is the state of the bit at the end of the block. *)
LEMMA StatesFacts ==
  ASSUME fresh \in BOOLEAN, NEW s \in Seq(Accesses)
  PROVE  StateOK(s, States(s)[Len(s)], Len(s))
<1> DEFINE n == Len(s)
           Good == {i \in Nat : i <= n => StateOK(s, States(s)[i], i)}
<1>1. n \in Nat /\ \A i \in 1..n : s[i] \in {"set", "use", "mfcr"}
  BY DEF Accesses
<1>2. \A i \in 0..n : States(s)[i] = IF i = 0 THEN Entered ELSE Access(States(s)[i - 1], s[i])
  BY <1>1, StatesRecur
<1>3. 0 \in Good
  <2>1. StateOK(s, Entered, 0)
    BY DEF StateOK, Entered
  <2>2. States(s)[0] = Entered
    BY <1>1, <1>2
  <2> QED BY <2>1, <2>2
<1>4. ASSUME NEW i \in 1..n, NEW e, StateOK(s, e, i - 1) PROVE StateOK(s, Access(e, s[i]), i)
  <2> DEFINE q == Access(e, s[i])
  <2> SUFFICES StateOK(s, q, i)
    OBVIOUS
  <2>1. /\ s[i] \in {"set", "use", "mfcr"}
        /\ e \in [live : BOOLEAN, fresh : BOOLEAN, pending : BOOLEAN, wrong : BOOLEAN]
        /\ 1..i = (1..(i - 1)) \cup {i}
    BY <1>1, <1>4 DEF StateOK
  <2>2. (\E j \in 1..i : s[j] = "set") <=> (\E j \in 1..(i - 1) : s[j] = "set") \/ s[i] = "set"
    BY <2>1
  <2>3. /\ e.fresh <=> fresh \/ \E j \in 1..(i - 1) : s[j] = "set"
        /\ e.pending => \E j \in 1..(i - 1) : s[j] = "set"
        /\ e.wrong => ~fresh /\ s # <<>> /\ s[1] # "set"
    BY <1>4 DEF StateOK
  <2>4. CASE s[i] = "set"
    <3>1. q = [live |-> TRUE, fresh |-> TRUE, pending |-> TRUE, wrong |-> e.wrong]
      BY <2>1, <2>4 DEF Access
    <3>2. /\ q \in [live : BOOLEAN, fresh : BOOLEAN, pending : BOOLEAN, wrong : BOOLEAN]
          /\ q.fresh = TRUE /\ q.wrong = e.wrong
      BY <2>1, <3>1
    <3> HIDE DEF q
    <3> QED BY <2>2, <2>3, <2>4, <3>2 DEF StateOK
  <2>5. ASSUME ~e.fresh PROVE ~fresh /\ s # <<>> /\ (s[i] # "set" => s[1] # "set")
    <3>1. 1 \in 1..(i - 1) \/ i = 1
      BY <1>1
    <3> QED BY <1>1, <2>3, <2>5, <3>1
  <2>6. CASE s[i] # "set"
    <3>1. /\ q \in [live : BOOLEAN, fresh : BOOLEAN, pending : BOOLEAN, wrong : BOOLEAN]
          /\ q.fresh = e.fresh
      BY <2>1, <2>6 DEF Access
    <3>2. q.pending => e.pending
      BY <2>1, <2>6 DEF Access
    <3>3. q.wrong => e.wrong \/ ~e.fresh
      BY <2>1, <2>6 DEF Access
    <3> HIDE DEF q
    <3>4. q.wrong => ~fresh /\ s # <<>> /\ s[1] # "set"
      BY <2>3, <2>5, <2>6, <3>3
    <3> QED BY <2>2, <2>3, <2>6, <3>1, <3>2, <3>4 DEF StateOK
  <2> QED BY <2>4, <2>6
<1>5. ASSUME NEW m \in Nat, m \in Good PROVE m + 1 \in Good
  <2> SUFFICES ASSUME m + 1 <= n PROVE StateOK(s, States(s)[m + 1], m + 1)
    OBVIOUS
  <2>1. m + 1 \in 1..n /\ (m + 1) - 1 = m /\ StateOK(s, States(s)[m], m)
    BY <1>1, <1>5
  <2>2. States(s)[m + 1] = Access(States(s)[m], s[m + 1])
    BY <1>1, <1>2, <2>1
  <2> QED BY <1>4, <2>1, <2>2
<1> HIDE DEF Good
<1>6. Nat \subseteq Good
  BY <1>3, <1>5, Induction
<1> QED BY <1>1, <1>6 DEF Good

(************************ What the marks decide ************************)

(* The paths out of a block lead to blocks or out of the unit, and recursion follows
   those that stay in it. *)
LEMMA EdgeFacts ==
  ASSUME TrimTypeOK, NEW b \in Visited
  PROVE  /\ b \in Blocks /\ code[b].body \in Seq(Accesses)
         /\ Following(b) \in Blocks \cup {None} /\ BranchBlock(b) \in Blocks \cup {None}
         /\ Recorded(b) \subseteq Blocks \cup {None}
         /\ {BranchBlock(b), NextBlock(b)} \cap Blocks \subseteq Recorded(b)
         /\ Recorded(b) \subseteq {BranchBlock(b), NextBlock(b), None}
         /\ SuccessorChanged(b) <=> Recorded(b) \subseteq recursive
         /\ FollowedBy(b) = IF IsReturn(b) THEN {None} ELSE Recorded(b)
         /\ None \notin Blocks /\ None \notin recursive
         /\ code[b].end.target \in Blocks \cup {None}
         /\ code[b].end.op \in {"fall", "sc", "trap", "b", "bc", "bl", "bcl", "blr"}
<1> DEFINE o == code[b].end.op
           t == code[b].end.target
<1>1. /\ b \in Blocks /\ code[b] \in Code /\ recursive \subseteq Blocks
  BY DEF TrimTypeOK
<1>2. None \notin Blocks /\ None \notin recursive
  BY <1>1 DEF None, Blocks
<1>3. code[b].body \in Seq(Accesses)
  BY <1>1, TrimAssumption DEF Code
<1>4. /\ t \in Blocks \cup {None}
      /\ o \in {"fall", "sc", "trap", "b", "bc", "bl", "bcl", "blr"} /\ (o = "blr" => t = None)
  <2>1. code[b].end \in Ends
    BY <1>1 DEF Code
  <2> QED BY <2>1 DEF Ends
<1>4a. FollowedBy(b) = IF IsReturn(b) THEN {None} ELSE Recorded(b)
  <2>1. ASSUME IsReturn(b) PROVE FollowedBy(b) = {t}
    BY <2>1 DEF IsReturn, FollowedBy, HasTrap, IsConditional, t
  <2>2. IsReturn(b) => t = None
    BY <1>4 DEF IsReturn, o
  <2> QED BY <2>1, <2>2 DEF Recorded
<1>5. Following(b) \in Blocks \cup {None}
  BY DEF Following
<1> HIDE DEF o, t
<1>6. BranchBlock(b) = IF o \in {"b", "bc", "bl", "bcl"} THEN t ELSE Following(b)
  BY DEF BranchBlock, IsReturn, HasBranch, o, t
<1>7. NextBlock(b) = IF o \in {"bc", "bcl"} THEN Following(b) ELSE None
  BY DEF NextBlock, IsConditional, o
<1>8. Recorded(b) = IF o \in {"fall", "sc"} THEN {Following(b)}
                      ELSE IF o = "trap" THEN {Following(b), None}
                      ELSE IF o \in {"bc", "bcl"} THEN {BranchBlock(b), Following(b)}
                      ELSE {BranchBlock(b)}
  BY <1>4, <1>6 DEF Recorded, IsReturn, FollowedBy, HasTrap, IsConditional, o, t
<1>9. SuccessorChanged(b) <=> /\ o # "trap" /\ BranchBlock(b) \in recursive
                              /\ o \in {"bc", "bcl"} => NextBlock(b) \in recursive
  BY DEF SuccessorChanged, HasTrap, IsConditional, o
<1>10. BranchBlock(b) \in Blocks \cup {None}
  BY <1>4, <1>5, <1>6
<1>11. SuccessorChanged(b) <=> Recorded(b) \subseteq recursive
  BY <1>2, <1>4, <1>6, <1>7, <1>8, <1>9
<1>12. Recorded(b) \subseteq Blocks \cup {None}
  BY <1>5, <1>8, <1>10
<1>13. {BranchBlock(b), NextBlock(b)} \cap Blocks \subseteq Recorded(b)
  BY <1>2, <1>4, <1>6, <1>7, <1>8
<1>14. Recorded(b) \subseteq {BranchBlock(b), NextBlock(b), None}
  BY <1>4, <1>6, <1>7, <1>8
<1>15. /\ code[b].end.target \in Blocks \cup {None}
       /\ code[b].end.op \in {"fall", "sc", "trap", "b", "bc", "bl", "bcl", "blr"}
  BY <1>4 DEF o, t
<1> QED BY <1>1, <1>2, <1>3, <1>5, <1>10, <1>11, <1>12, <1>13, <1>14, <1>4a, <1>15

(* A block that is marked sets the bit first, or goes on to marked blocks only; without
   mfcr, one that is not marked reads it first, or may go on to one that is not. *)
LEMMA MarkedMeans ==
  ASSUME TrimTypeOK, NEW b \in Visited
  PROVE  /\ ChangedRecursive(b) => ~ReadsFirst(b) /\ (Passes(b) => Recorded(b) \subseteq recursive)
         /\ ~ChangedRecursive(b) /\ ~ReadsCR(b)
              => ReadsFirst(b) \/ (Passes(b) /\ ~(Recorded(b) \subseteq recursive))
<1> DEFINE s == code[b].body
           m == Marks(b)
           n == Len(s)
<1>1. s \in Seq(Accesses) /\ (SuccessorChanged(b) <=> Recorded(b) \subseteq recursive)
  BY EdgeFacts
<1>2. n \in Nat /\ DOMAIN s = 1..n /\ (s = <<>> <=> n = 0) /\ \A i \in 1..n : s[i] \in {"set", "use", "mfcr"}
  BY <1>1 DEF Accesses
<1>3. MarksOK(s, m, n)
  BY <1>1, MarksFacts DEF Marks
<1>4. ReadsFirst(b) <=> s # <<>> /\ s[1] # "set"
  BY <1>1 DEF ReadsFirst
<1>5. Passes(b) <=> s = <<>>
  BY DEF Passes
<1>6. ReadsCR(b) <=> m.cr_used
  BY <1>2, <1>3 DEF ReadsCR, ToSet, MarksOK
<1>7. ChangedRecursive(b) <=> ~m.cr_used /\ ~m.used /\ (m.changed \/ Recorded(b) \subseteq recursive)
  BY <1>1 DEF ChangedRecursive
<1> HIDE DEF s, m, n
<1>8. ASSUME n # 0 PROVE 1 \in 1..n /\ \A k \in 1..(1 - 1) : s[k] # "set"
  BY <1>2, <1>8
<1>9. n = 0 => ~m.changed /\ ~m.used
  BY <1>3 DEF MarksOK
<1>10. ASSUME ~m.cr_used, ~m.used, n # 0 PROVE s[1] = "set" /\ m.changed
  BY <1>2, <1>3, <1>8, <1>10 DEF MarksOK
<1>11. ASSUME m.used PROVE n # 0 /\ s[1] # "set"
  BY <1>2, <1>3, <1>11 DEF MarksOK
<1> QED BY <1>2, <1>4, <1>5, <1>6, <1>7, <1>9, <1>10, <1>11

(***************************** The recursion *****************************)

(* What a step says of a block whose code it leaves alone. *)
LEMMA SameCode ==
  ASSUME NEW b, code'[b] = code[b]
  PROVE  /\ (Marks(b))' = Marks(b) /\ (Recorded(b))' = Recorded(b)
         /\ (ReadsFirst(b))' = ReadsFirst(b) /\ (Passes(b))' = Passes(b)
  BY DEF Marks, Recorded, IsReturn, FollowedBy, ReadsFirst, Passes, HasTrap, IsConditional,
     BranchBlock, HasBranch, Following

(* The stack of active calls, without its innermost call. *)
LEMMA StackFacts ==
  ASSUME TrimTypeOK, stack # <<>>
  PROVE  LET n == Len(stack) IN
         /\ n \in Nat /\ n > 0 /\ DOMAIN stack = 1..n /\ \A i \in 1..n : stack[i] \in Visited
         /\ Last(stack) = stack[n] /\ Last(stack) \in Visited
         /\ Front(stack) \in Seq(Visited) /\ Len(Front(stack)) = n - 1 /\ IsInjective(Front(stack))
         /\ \A i \in 1..(n - 1) : Front(stack)[i] = stack[i]
         /\ ToSet(Front(stack)) = ToSet(stack) \ {Last(stack)} /\ Last(stack) \in ToSet(stack)
<1> DEFINE n == Len(stack)
<1>1. stack \in Seq(Visited) /\ IsInjective(stack)
  BY DEF TrimTypeOK
<1>2. n \in Nat /\ DOMAIN stack = 1..n /\ \A i \in 1..n : stack[i] \in Visited
  BY <1>1
<1>3. n > 0
  <2>1. n # 0
    BY <1>1
  <2> QED BY <1>2, <2>1
<1>4. Last(stack) = stack[n]
  BY DEF Last
<1>5. Front(stack) = [i \in 1..(n - 1) |-> stack[i]]
  BY <1>1, <1>2, <1>3 DEF Front
<1> HIDE DEF n
<1>6. /\ Front(stack) \in Seq(Visited) /\ Len(Front(stack)) = n - 1
      /\ DOMAIN Front(stack) = 1..(n - 1) /\ 1..n = 1..(n - 1) \cup {n} /\ n \notin 1..(n - 1)
  BY <1>2, <1>3, <1>5
<1>7. \A i, j \in 1..n : stack[i] = stack[j] => i = j
  BY <1>1, <1>2 DEF IsInjective
<1>8. IsInjective(Front(stack))
  BY <1>2, <1>5, <1>6, <1>7 DEF IsInjective
<1>9. /\ ToSet(stack) = {stack[i] : i \in 1..n}
      /\ ToSet(Front(stack)) = {stack[i] : i \in 1..(n - 1)}
  BY <1>2, <1>5, <1>6 DEF ToSet
<1>10. ToSet(Front(stack)) = ToSet(stack) \ {Last(stack)} /\ Last(stack) \in ToSet(stack)
  BY <1>3, <1>4, <1>6, <1>7, <1>9
<1> QED BY <1>2, <1>3, <1>4, <1>5, <1>6, <1>8, <1>10 DEF n

(* The scan starts in the first block, with nothing marked. *)
LEMMA InitOK == TrimInit => TrimIInv
<1> SUFFICES ASSUME TrimInit PROVE TrimIInv
  OBVIOUS
<1>1. /\ code \in [{0} -> Code] /\ recursive = {} /\ stack = <<0>> /\ stage = "scan" /\ at = 0
      /\ fresh = TRUE /\ stale_read = FALSE /\ lost = FALSE
  BY DEF TrimInit
<1>2. Visited = {0} /\ \A b \in Visited : code[b] \in Code
  BY <1>1 DEF Visited
<1>3. 0 \in Blocks
  BY TrimAssumption DEF Blocks
<1>4. stack \in Seq(Visited) /\ DOMAIN stack = {1} /\ ToSet(stack) = {0} /\ Len(stack) = 1
  BY <1>1, <1>2 DEF ToSet
<1>5. TrimTypeOK
  BY <1>1, <1>2, <1>3, <1>4 DEF TrimTypeOK, IsInjective
<1>6. ScanOK
  BY <1>1, <1>2, <1>4 DEF ScanOK, Returned
<1> QED BY <1>1, <1>5, <1>6 DEF TrimIInv, RunOK, NoStaleRead, StoreIsPlaced

(* The recursion goes on to a block that it has not reached, whose code it now finds:
   nothing is said yet of that block. *)
LEMMA DescendOK ==
  ASSUME TrimTypeOK, ScanOK, Descend
  PROVE  TrimTypeOK' /\ ScanOK'
<1> DEFINE x == Last(stack)
           n == Len(stack)
           b == FirstUnvisited(x)
<1>1. /\ stage = "scan" /\ stack # <<>> /\ Unvisited(x) # {}
      /\ stack' = Append(stack, b)
      /\ UNCHANGED <<recursive, stage, at, fresh, stale_read, lost>>
  BY DEF Descend
<1>2. PICK c \in Code : code' = [k \in Visited \cup {b} |-> IF k = b THEN c ELSE code[k]]
  BY DEF Descend
<1>3. /\ n \in Nat /\ n > 0 /\ DOMAIN stack = 1..n /\ \A i \in 1..n : stack[i] \in Visited
      /\ x = stack[n] /\ x \in Visited
  BY <1>1, StackFacts
<1>4. b \in Unvisited(x) /\ b \in Recorded(x) /\ b \in Blocks /\ b \notin Visited
  BY <1>1, <1>3, EdgeFacts DEF Unvisited, FirstUnvisited
<1> HIDE DEF x, n, b
<1>5. Visited' = Visited \cup {b} /\ code'[b] = c /\ \A k \in Visited : code'[k] = code[k]
  BY <1>2, <1>4 DEF Visited
<1>6. stack \in Seq(Visited) /\ IsInjective(stack) /\ recursive \subseteq Visited \ ToSet(stack)
  BY DEF TrimTypeOK
<1>7. /\ stack' \in Seq(Visited') /\ Len(stack') = n + 1 /\ DOMAIN stack' = 1..(n + 1)
      /\ stack'[n + 1] = b /\ \A i \in 1..n : stack'[i] = stack[i]
      /\ 1..(n + 1) = 1..n \cup {n + 1}
  BY <1>1, <1>3, <1>5, <1>6 DEF n
<1>8. ToSet(stack') = ToSet(stack) \cup {b}
  BY <1>3, <1>7 DEF ToSet
<1>9. IsInjective(stack')
  BY <1>3, <1>4, <1>6, <1>7 DEF IsInjective
<1>10. TrimTypeOK'
  <2>1. recursive \subseteq Visited' \ ToSet(stack')
    BY <1>4, <1>5, <1>6, <1>8
  <2>2. Visited' \subseteq Blocks /\ \A k \in Visited' : code'[k] \in Code
    BY <1>4, <1>5 DEF TrimTypeOK
  <2> QED BY <1>1, <1>7, <1>9, <2>1, <2>2 DEF TrimTypeOK, Blocks, Code, Ends
<1>11. \A k \in Visited : (Recorded(k))' = Recorded(k) /\ (ChangedRecursive(k))' = ChangedRecursive(k)
  <2> TAKE k \in Visited
  <2>1. (Marks(k))' = Marks(k) /\ (Recorded(k))' = Recorded(k)
    BY <1>5, SameCode
  <2>2. (SuccessorChanged(k))' = SuccessorChanged(k)
    BY <1>1, <1>5 DEF SuccessorChanged, HasTrap, IsConditional, BranchBlock, IsReturn, HasBranch,
       NextBlock, Following,
       Blocks
  <2> QED BY <2>1, <2>2 DEF ChangedRecursive
<1>12. Returned' = Returned
  BY <1>4, <1>5, <1>6, <1>8 DEF Returned, ToSet
<1>13. Acyclic' => Acyclic
  BY <1>5, <1>11 DEF Acyclic
<1>14. \A i \in 1..(Len(stack') - 1) : stack'[i + 1] \in (Recorded(stack[i]))'
  <2> TAKE i \in 1..(Len(stack') - 1)
  <2>1. i \in 1..n /\ stack'[i] = stack[i] /\ stack[i] \in Visited
    BY <1>3, <1>7
  <2>2. (Recorded(stack[i]))' = Recorded(stack[i])
    <3>1. code'[stack'[i]] = code[stack[i]] /\ stack'[i] = stack[i]
      BY <1>5, <2>1
    <3> QED BY <3>1 DEF Recorded, IsReturn, FollowedBy, HasTrap, IsConditional, BranchBlock,
       HasBranch, Following, Blocks
  <2>3. CASE i = n
    BY <1>3, <1>4, <1>7, <2>2, <2>3
  <2>4. CASE i # n
    <3>1. i \in 1..(n - 1) /\ i + 1 \in 1..n
      BY <1>3, <2>1, <2>4
    <3>2. stack[i + 1] \in Recorded(stack[i])
      BY <3>1 DEF ScanOK, n
    <3> QED BY <1>7, <2>2, <3>1, <3>2
  <2> QED BY <2>3, <2>4
<1>15. Returned \subseteq Visited
  BY DEF Returned
<1>16. ScanOK'
  BY <1>1, <1>6, <1>11, <1>12, <1>13, <1>14, <1>15 DEF ScanOK
<1> QED BY <1>10, <1>16

(* A call returns, and its block is marked if every path from there sets the bit first. *)
LEMMA ReturnOK ==
  ASSUME TrimTypeOK, ScanOK, Return
  PROVE  TrimTypeOK' /\ ScanOK'
<1> DEFINE x == Last(stack)
           n == Len(stack)
<1>1. /\ stage = "scan" /\ stack # <<>> /\ Unvisited(x) = {}
      /\ recursive' = IF ChangedRecursive(x) THEN recursive \cup {x} ELSE recursive
      /\ stack' = Front(stack)
      /\ UNCHANGED <<code, stage, at, fresh, stale_read, lost>>
  BY DEF Return
<1>2. /\ n \in Nat /\ n > 0 /\ DOMAIN stack = 1..n /\ \A i \in 1..n : stack[i] \in Visited
      /\ x = stack[n] /\ x \in Visited
      /\ stack' \in Seq(Visited) /\ Len(stack') = n - 1 /\ IsInjective(stack')
      /\ \A i \in 1..(n - 1) : stack'[i] = stack[i]
      /\ ToSet(stack') = ToSet(stack) \ {x} /\ x \in ToSet(stack)
  BY <1>1, StackFacts
<1>3. Recorded(x) \subseteq Visited \cup {None}
  <2>1. /\ Recorded(x) \subseteq {BranchBlock(x), NextBlock(x), None}
        /\ Recorded(x) \subseteq Blocks \cup {None}
    BY <1>2, EdgeFacts
  <2> QED BY <1>1, <2>1 DEF Unvisited
<1> HIDE DEF x, n
<1>4. Visited' = Visited /\ code' = code
  BY <1>1 DEF Visited
<1>5. recursive \subseteq Visited \ ToSet(stack)
  BY DEF TrimTypeOK
<1>6. Returned' = Returned \cup {x} /\ x \notin Returned /\ recursive \subseteq Returned
  BY <1>2, <1>4, <1>5 DEF Returned
<1>7. TrimTypeOK'
  <2>1. recursive' \subseteq Visited \ ToSet(stack')
    BY <1>1, <1>2, <1>5
  <2> QED BY <1>1, <1>2, <1>4, <2>1 DEF TrimTypeOK, Blocks, Code, Ends
<1>8. \A b \in Visited : (Recorded(b))' = Recorded(b) /\ (Marks(b))' = Marks(b)
  BY <1>4, SameCode
<1>9. \A b \in Visited :
        /\ ChangedRecursive(b) <=> /\ ~Marks(b).cr_used /\ ~Marks(b).used
                                   /\ Marks(b).changed \/ Recorded(b) \subseteq recursive
        /\ (ChangedRecursive(b))' <=> /\ ~Marks(b).cr_used /\ ~Marks(b).used
                                      /\ Marks(b).changed \/ Recorded(b) \subseteq recursive'
  <2> TAKE b \in Visited
  <2>1. SuccessorChanged(b) <=> Recorded(b) \subseteq recursive
    BY EdgeFacts
  <2>2. None \notin recursive'
    BY <1>2, EdgeFacts, <1>1 DEF TrimTypeOK
  <2>3. (SuccessorChanged(b))' <=> Recorded(b) \subseteq recursive'
    <3>1. (SuccessorChanged(b))' <=> /\ ~HasTrap(b)
                                     /\ BranchBlock(b) \in recursive'
                                     /\ IsConditional(b) => NextBlock(b) \in recursive'
      BY <1>4 DEF SuccessorChanged, HasTrap, IsConditional, BranchBlock, IsReturn, HasBranch,
         NextBlock, Following, Blocks
    <3>2. Recorded(b) = IF code[b].end.op \in {"fall", "sc"} THEN {Following(b)}
                          ELSE IF HasTrap(b) THEN {Following(b), None}
                          ELSE IF IsConditional(b) THEN {BranchBlock(b), Following(b)}
                          ELSE {BranchBlock(b)}
      BY EdgeFacts DEF Recorded, IsReturn, FollowedBy, HasTrap, HasBranch, IsConditional,
         BranchBlock
    <3>3. HasTrap(b) \/ code[b].end.op \in {"fall", "sc"} => BranchBlock(b) = Following(b) /\ ~IsConditional(b)
      BY DEF BranchBlock, IsReturn, HasTrap, HasBranch, IsConditional
    <3>4. IsConditional(b) => NextBlock(b) = Following(b) /\ ~HasTrap(b)
      BY DEF NextBlock, HasTrap, IsConditional
    <3>5. HasTrap(b) => code[b].end.op \notin {"fall", "sc"}
      BY DEF HasTrap
    <3> QED BY <2>2, <3>1, <3>2, <3>3, <3>4, <3>5
  <2>4. (Marks(b))' = Marks(b)
    BY <1>8
  <2> QED BY <2>1, <2>3, <2>4 DEF ChangedRecursive
<1>10. \A b \in recursive' : (ChangedRecursive(b))'
  <2> TAKE b \in recursive'
  <2>1. b \in Visited /\ ChangedRecursive(b)
    BY <1>1, <1>2, <1>5 DEF ScanOK
  <2>2. recursive \subseteq recursive'
    BY <1>1
  <2> QED BY <1>9, <2>1, <2>2
<1>11. ASSUME Acyclic PROVE Recorded(x) \cap ToSet(stack) = {}
  <2> SUFFICES ASSUME NEW j \in 1..n, stack[j] \in Recorded(x) PROVE FALSE
    BY <1>2 DEF ToSet
  <2> DEFINE S == {stack[i] : i \in j..n}
  <2>1. S \in SUBSET Visited /\ S # {} /\ \A i \in j..n : i \in 1..n
    BY <1>2
  <2>2. ASSUME NEW i \in j..n PROVE Recorded(stack[i]) \cap S # {}
    <3>1. CASE i = n
      <4>1. stack[j] \in S /\ stack[i] = x
        BY <1>2, <3>1
      <4> QED BY <4>1
    <3>2. CASE i # n
      <4>1. i \in 1..(n - 1) /\ i + 1 \in j..n
        BY <1>2, <2>1, <3>2
      <4>2. stack[i + 1] \in Recorded(stack[i])
        BY <4>1 DEF ScanOK, n
      <4>3. stack[i + 1] \in S
        BY <4>1
      <4> QED BY <4>2, <4>3
    <3> QED BY <3>1, <3>2
  <2>3. \A b \in S : Recorded(b) \cap S # {}
    BY <2>2
  <2> HIDE DEF S
  <2> QED BY <1>11, <2>1, <2>3 DEF Acyclic
<1>12. ASSUME Acyclic, NEW b \in Returned \cup {x}
       PROVE  /\ Recorded(b) \subseteq Returned \cup {x, None}
              /\ (ChangedRecursive(b))' => b \in recursive'
  <2>1. b \in Visited
    BY <1>2 DEF Returned
  <2>2. Recorded(b) \subseteq Returned \cup {None}
    <3>1. CASE b = x
      BY <1>3, <1>11, <1>12, <3>1 DEF Returned
    <3>2. CASE b \in Returned
      BY <1>12, <3>2 DEF ScanOK
    <3> QED BY <3>1, <3>2
  <2>3. x # None
    BY <1>2, EdgeFacts
  <2>4. Recorded(b) \subseteq recursive' <=> Recorded(b) \subseteq recursive
    BY <1>1, <1>6, <2>2, <2>3
  <2>5. (ChangedRecursive(b))' => ChangedRecursive(b)
    BY <1>9, <2>1, <2>4
  <2>6. ChangedRecursive(b) => b \in recursive'
    BY <1>1, <1>12 DEF ScanOK
  <2> QED BY <2>2, <2>5, <2>6
<1>13. Acyclic' = Acyclic
  BY <1>4, <1>8 DEF Acyclic
<1>14. \A i \in 1..(Len(stack') - 1) : stack'[i + 1] \in (Recorded(stack[i]))'
  <2> TAKE i \in 1..(Len(stack') - 1)
  <2>1. i \in 1..(n - 1) /\ i + 1 \in 1..(n - 1)
    BY <1>2
  <2>2. stack'[i] = stack[i] /\ stack'[i + 1] = stack[i + 1]
    BY <1>2, <2>1
  <2>3. stack[i + 1] \in Recorded(stack[i])
    BY <2>1 DEF ScanOK, n
  <2>4. (Recorded(stack[i]))' = Recorded(stack[i])
    BY <1>4, <2>2 DEF Recorded, IsReturn, FollowedBy, HasTrap, IsConditional, BranchBlock,
       HasBranch, Following, Blocks
  <2> QED BY <2>2, <2>3, <2>4
<1>15. ScanOK'
  <2>1. \A b \in Returned' : (Recorded(b))' = Recorded(b)
    BY <1>2, <1>6, <1>8 DEF Returned
  <2> QED BY <1>1, <1>6, <1>10, <1>12, <1>13, <1>14, <2>1 DEF ScanOK
<1> QED BY <1>7, <1>15

(* Outside the recursion nothing of this changes. *)
LEMMA ScanKept ==
  ASSUME TrimTypeOK, ScanOK, UNCHANGED <<code, recursive, stack>>, stack = <<>>,
         stage' \in {"run", "left"}, at' \in Blocks \cup {None},
         {fresh', stale_read', lost'} \subseteq BOOLEAN
  PROVE  TrimTypeOK' /\ ScanOK'
<1>1. Visited' = Visited /\ Returned' = Returned
  BY DEF Visited, Returned
<1>2. TrimTypeOK'
  BY <1>1 DEF TrimTypeOK, Blocks, Code, Ends
<1>3. \A b : (Recorded(b))' = Recorded(b) /\ (ChangedRecursive(b))' = ChangedRecursive(b)
  BY DEF Recorded, IsReturn, FollowedBy, ChangedRecursive, SuccessorChanged, Marks, HasTrap,
     IsConditional, BranchBlock, HasBranch,
     NextBlock, Following, Blocks
<1>4. Acyclic' = Acyclic
  BY <1>1, <1>3 DEF Acyclic
<1>5. Len(stack') - 1 = -1 /\ 1..(-1) = {}
  OBVIOUS
<1>6. ScanOK'
  BY <1>1, <1>3, <1>4, <1>5 DEF ScanOK
<1> QED BY <1>2, <1>6

(***************************** Translated code *****************************)

(* The translated code is entered with the bit in its alias, unless the first block is
   marked. *)
LEMMA EnterOK ==
  ASSUME TrimTypeOK, ScanOK, Enter
  PROVE  TrimTypeOK' /\ ScanOK' /\ RunOK'
<1>1. /\ stage = "scan" /\ stack = <<>> /\ stage' = "run" /\ fresh' = (0 \notin recursive)
      /\ UNCHANGED <<code, recursive, stack, at, stale_read, lost>> /\ at = 0 /\ ~stale_read /\ ~lost
  BY DEF Enter, NeedLoad, ScanOK
<1>2. at' \in Blocks \cup {None} /\ {fresh', stale_read', lost'} \subseteq BOOLEAN
  BY <1>1 DEF TrimTypeOK
<1>3. TrimTypeOK' /\ ScanOK'
  BY <1>1, <1>2, ScanKept
<1> QED BY <1>1, <1>3 DEF RunOK, NoStaleRead, StoreIsPlaced

(* A block that runs while no store is lost reads the bit where it is, and on each way out
   of it the bit is in its alias unless what follows on that way is marked, or the block
   ends in a misled blr, or it loses the store. *)
LEMMA WaysOut ==
  ASSUME TrimTypeOK, ScanOK, RunOK, NEW b \in Visited, stage = "run", at = b, ~lost
  PROVE  LET lose == Terminal(b) /\ IsConditional(b) /\ StoreNext(b) IN
         /\ ~Body(b).wrong
         /\ HasBranch(b) => FreshOnBranch(b) \/ code[b].end.target \in recursive \/ Misled(b)
         /\ IsConditional(b) \/ code[b].end.op = "fall" => FreshOnNext(b) \/ Following(b) \in recursive \/ lose
         /\ HasTrap(b) => Kept(b) /\ FreshOnNext(b)
         /\ code[b].end.op = "sc" => Kept(b) \/ Following(b) \in recursive
<1> DEFINE s == code[b].body
           e == Body(b)
           o == code[b].end.op
           t == code[b].end.target
           n == Following(b)
<1>1. /\ s \in Seq(Accesses) /\ n \in Blocks \cup {None} /\ None \notin recursive
      /\ SuccessorChanged(b) <=> Recorded(b) \subseteq recursive
  BY EdgeFacts
<1>2. fresh \in BOOLEAN /\ (fresh \/ b \in recursive)
  BY DEF TrimTypeOK, RunOK
<1>3. StateOK(s, e, Len(s))
  BY <1>1, <1>2, StatesFacts DEF Body
<1>4. /\ e \in [live : BOOLEAN, fresh : BOOLEAN, pending : BOOLEAN, wrong : BOOLEAN]
      /\ e.fresh <=> fresh \/ \E j \in 1..Len(s) : s[j] = "set"
      /\ e.pending => e.fresh
      /\ e.wrong => ~fresh /\ s # <<>> /\ s[1] # "set"
  BY <1>3 DEF StateOK
<1>5. b \in recursive => ~ReadsFirst(b) /\ (Passes(b) => Recorded(b) \subseteq recursive)
  BY MarkedMeans DEF ScanOK
<1>6. ReadsFirst(b) <=> s # <<>> /\ s[1] # "set"
  BY <1>1 DEF ReadsFirst
<1>7. ~e.wrong
  BY <1>2, <1>4, <1>5, <1>6
<1>8. ASSUME ~e.fresh PROVE Passes(b) /\ Recorded(b) \subseteq recursive
  <2>1. b \in recursive /\ \A j \in 1..Len(s) : s[j] # "set"
    BY <1>2, <1>4, <1>8
  <2>2. s # <<>> => 1 \in 1..Len(s)
    <3>1. s # <<>> => Len(s) # 0
      BY <1>1
    <3>2. Len(s) \in Nat
      BY <1>1
    <3> QED BY <3>1, <3>2
  <2>3. Passes(b)
    BY <1>5, <1>6, <2>1, <2>2 DEF Passes
  <2> QED BY <1>5, <2>1, <2>3
<1>9. /\ t \in Blocks \cup {None} /\ o \in {"fall", "sc", "trap", "b", "bc", "bl", "bcl", "blr"}
      /\ o \in {"fall", "sc", "trap", "blr"} => t = None
  <2>1. code[b].end \in Ends
    BY DEF TrimTypeOK, Code
  <2> QED BY <2>1 DEF Ends, None, Blocks
<1> DEFINE r == Recorded(b)
<1>11. /\ r = IF o \in {"fall", "sc", "blr"} THEN {n}
               ELSE IF o = "trap" THEN {n, None}
               ELSE IF o \in {"bc", "bcl"} THEN {t, n}
               ELSE {t}
       /\ Misled(b) <=> o = "blr" /\ Passes(b) /\ n \in recursive
  BY <1>9 DEF Recorded, IsReturn, FollowedBy, HasTrap, IsConditional, Misled
<1> HIDE DEF s, e, o, t, n, r
<1>10. /\ IsConditional(b) <=> o \in {"bc", "bcl"}
       /\ HasBranch(b) <=> o \in {"b", "bc", "bl", "bcl", "blr"}
       /\ HasTrap(b) <=> o = "trap"
       /\ BranchBlock(b) = IF o \in {"b", "bc", "bl", "bcl"} THEN t ELSE n
       /\ NextBlock(b) = IF o \in {"bc", "bcl"} THEN n ELSE None
       /\ Inward(b) <=> o \in {"b", "bc"} /\ t # None
  BY <1>9 DEF IsConditional, HasBranch, HasTrap, IsReturn, BranchBlock, NextBlock, Inward, o, t, n
<1>12. /\ Terminal(b) <=> HasBranch(b) /\ ~Inward(b)
       /\ Trims(b) <=> IF HasBranch(b) THEN Inward(b) \/ IsConditional(b) ELSE o = "fall"
       /\ Kept(b) <=> e.fresh /\ ~(Trims(b) /\ Removed(b))
       /\ FreshOnBranch(b) <=> Kept(b) \/ (Trims(b) /\ StoreBranch(b))
       /\ FreshOnNext(b) <=> Kept(b) \/ (Trims(b) /\ StoreNext(b) /\ ~Terminal(b))
       /\ DeadBranch(b) <=> e.pending /\ BranchBlock(b) \in recursive
       /\ DeadNext(b) <=> e.pending /\ IF IsConditional(b) THEN NextBlock(b) \in recursive ELSE DeadBranch(b)
       /\ Removed(b) <=> ToKill(b) \/ StoreBranch(b) \/ StoreNext(b)
       /\ ToKill(b) <=> DeadBranch(b) /\ DeadNext(b)
       /\ StoreBranch(b) <=> DeadNext(b) /\ ~ToKill(b)
       /\ StoreNext(b) <=> DeadBranch(b) /\ ~ToKill(b)
  BY DEF Terminal, Trims, Kept, FreshOnBranch, FreshOnNext, DeadBranch, DeadNext, Removed, ToKill,
     StoreBranch,
     StoreNext, e, o
<1>14. e.fresh \/ (Passes(b) /\ r \subseteq recursive)
  BY <1>8 DEF r
<1>15. o = "blr" => FreshOnBranch(b) \/ Misled(b)
  <2>1. o = "blr" => ~Trims(b)
    BY <1>10, <1>12
  <2>2. o = "blr" /\ ~e.fresh => Misled(b)
    BY <1>11, <1>14
  <2> QED BY <1>12, <2>1, <2>2
<1>16. o \in {"b", "bc", "bl", "bcl"} => FreshOnBranch(b) \/ t \in recursive
  <2>1. o \in {"b", "bc", "bl", "bcl"} => t \in r /\ BranchBlock(b) = t
    BY <1>10, <1>11
  <2> QED BY <1>12, <1>14, <2>1
<1>17. o \in {"bc", "bcl", "fall"} =>
         FreshOnNext(b) \/ n \in recursive \/ (Terminal(b) /\ IsConditional(b) /\ StoreNext(b))
  <2>1. o \in {"bc", "bcl", "fall"} => n \in r
    BY <1>11
  <2>2. o = "fall" => BranchBlock(b) = n /\ ~IsConditional(b)
    BY <1>10
  <2>3. o \in {"bc", "bcl"} => NextBlock(b) = n /\ IsConditional(b)
    BY <1>10
  <2>4. o = "fall" => ~Terminal(b)
    BY <1>10, <1>12
  <2> QED BY <1>12, <1>14, <2>1, <2>2, <2>3, <2>4
<1>18. o = "trap" => Kept(b) /\ FreshOnNext(b)
  <2>1. o = "trap" => e.fresh
    BY <1>1, <1>11, <1>14
  <2>2. o = "trap" => ~Trims(b)
    BY <1>10, <1>12
  <2> QED BY <1>12, <2>1, <2>2
<1>19. o = "sc" => Kept(b) \/ n \in recursive
  <2>1. o = "sc" => ~Trims(b) /\ n \in r
    BY <1>10, <1>11, <1>12
  <2> QED BY <1>12, <1>14, <2>1
<1> QED BY <1>7, <1>10, <1>15, <1>16, <1>17, <1>18, <1>19 DEF e, o, t, n

(* Only a conditional branch with LK = 1 to a marked block of the unit has a store for the
   path that stays in the unit and no place for it. *)
LEMMA LosesFacts ==
  ASSUME TrimTypeOK, NEW b \in Visited, Terminal(b), IsConditional(b), StoreNext(b)
  PROVE  LosesStore(b)
<1> DEFINE o == code[b].end.op
           t == code[b].end.target
<1>1. o \in {"bc", "bcl"}
  BY DEF IsConditional
<1>2. None \notin recursive
  BY EdgeFacts
<1>3. BranchBlock(b) = t /\ NextBlock(b) = Following(b)
  BY <1>1 DEF BranchBlock, HasBranch, IsReturn, NextBlock, IsConditional
<1>4. t \in recursive /\ Following(b) \notin recursive
  BY <1>3 DEF StoreNext, ToKill, DeadBranch, DeadNext
<1>5. o # "bc"
  BY <1>2, <1>4 DEF Terminal, Inward
<1> QED BY <1>1, <1>3, <1>4, <1>5 DEF LosesStore

(* So until a store is lost the guest goes on with the bit in its alias or at a marked
   place, unless a misled blr leaves. *)
LEMMA RunStepGoes ==
  ASSUME TrimTypeOK, ScanOK, RunOK, NEW b \in Visited,
         FallThrough(b) \/ TakeTrap(b) \/ SystemCall(b) \/ TakeBranch(b) \/ NotTaken(b)
  PROVE  /\ stage = "run" /\ at = b
         /\ lost' \/ fresh' \/ at' \in recursive \/ (stage' = "left" /\ Misled(b))
         /\ stale_read' => lost'
<1>1. Executed(b)
  BY DEF FallThrough, TakeTrap, SystemCall, TakeBranch, NotTaken
<1> DEFINE lose == Terminal(b) /\ IsConditional(b) /\ StoreNext(b)
<1>2. /\ stage = "run" /\ at = b /\ recursive' = recursive
      /\ lost' = (lost \/ lose) /\ stale_read' = (stale_read \/ Body(b).wrong)
  BY <1>1 DEF Executed
<1> SUFFICES ASSUME ~lost, ~lose
             PROVE  ~stale_read' /\ (fresh' \/ at' \in recursive \/ (stage' = "left" /\ Misled(b)))
  BY <1>2
<1>3. /\ ~Body(b).wrong
      /\ HasBranch(b) => FreshOnBranch(b) \/ code[b].end.target \in recursive \/ Misled(b)
      /\ IsConditional(b) \/ code[b].end.op = "fall" => FreshOnNext(b) \/ Following(b) \in recursive
      /\ HasTrap(b) => Kept(b) /\ FreshOnNext(b)
      /\ code[b].end.op = "sc" => Kept(b) \/ Following(b) \in recursive
  BY <1>2, WaysOut
<1>4. ~stale_read'
  BY <1>2, <1>3 DEF RunOK, NoStaleRead
<1> HIDE DEF lose
<1>5. fresh' \/ at' \in recursive \/ (stage' = "left" /\ Misled(b))
  <2>1. CASE FallThrough(b)
    <3>1. code[b].end.op = "fall" \/ HasTrap(b)
      BY <2>1 DEF FallThrough, HasTrap
    <3> QED BY <1>3, <2>1, <3>1 DEF FallThrough, GoTo
  <2>2. CASE TakeTrap(b)
    BY <1>3, <2>2 DEF TakeTrap, Leave
  <2>3. CASE SystemCall(b)
    BY <1>3, <2>3 DEF SystemCall, Leave
  <2>4. CASE TakeBranch(b)
    <3>1. Misled(b) => stage' = "left"
      BY <2>4 DEF TakeBranch, Leave, Misled, IsReturn, Inward
    <3> QED BY <1>3, <2>4, <3>1 DEF TakeBranch, Leave, GoTo
  <2>5. CASE NotTaken(b)
    BY <1>3, <2>5 DEF NotTaken, GoTo
  <2> QED BY <2>1, <2>2, <2>3, <2>4, <2>5
<1> QED BY <1>4, <1>5

(* A block that runs keeps the invariant of the run. *)
LEMMA RunStepOK ==
  ASSUME TrimTypeOK, ScanOK, RunOK, NEW b \in Visited,
         FallThrough(b) \/ TakeTrap(b) \/ SystemCall(b) \/ TakeBranch(b) \/ NotTaken(b)
  PROVE  RunOK'
<1>1. Executed(b)
  BY DEF FallThrough, TakeTrap, SystemCall, TakeBranch, NotTaken
<1>2. /\ lost' = (lost \/ (Terminal(b) /\ IsConditional(b) /\ StoreNext(b)))
      /\ UNCHANGED <<code, recursive>> /\ Visited' = Visited
  BY <1>1 DEF Executed, Visited
<1>3. \A c : (LosesStore(c))' = LosesStore(c)
  BY <1>2 DEF LosesStore, BranchBlock, HasBranch, IsReturn, Following, Blocks
<1>4. lost' => \E c \in Visited : LosesStore(c)
  <2>1. CASE lost
    BY <2>1 DEF RunOK, NoStaleRead, StoreIsPlaced
  <2>2. CASE Terminal(b) /\ IsConditional(b) /\ StoreNext(b)
    BY <2>2, LosesFacts
  <2> QED BY <1>2, <2>1, <2>2
<1>5. StoreIsPlaced'
  BY <1>2, <1>3, <1>4 DEF StoreIsPlaced
<1> QED BY <1>2, <1>5, RunStepGoes DEF RunOK, NoStaleRead

(* A block that runs changes nothing of what the scan has found. *)
LEMMA RunStepKept ==
  ASSUME TrimTypeOK, ScanOK, NEW b \in Visited,
         FallThrough(b) \/ TakeTrap(b) \/ SystemCall(b) \/ TakeBranch(b) \/ NotTaken(b)
  PROVE  TrimTypeOK' /\ ScanOK'
<1>1. Executed(b)
  BY DEF FallThrough, TakeTrap, SystemCall, TakeBranch, NotTaken
<1>2. stage = "run" /\ UNCHANGED <<code, recursive, stack>>
  BY <1>1 DEF Executed
<1>3. stack = <<>>
  BY <1>2 DEF ScanOK
<1>4. stale_read' \in BOOLEAN /\ lost' \in BOOLEAN
  BY <1>1 DEF Executed
<1>5. Following(b) \in Blocks \cup {None} /\ code[b].end.target \in Blocks \cup {None}
  BY EdgeFacts
<1>6. Kept(b) \in BOOLEAN /\ FreshOnBranch(b) \in BOOLEAN /\ FreshOnNext(b) \in BOOLEAN
  BY DEF Kept, FreshOnBranch, FreshOnNext
<1>7. at' \in Blocks \cup {None} /\ fresh' \in BOOLEAN /\ stage' \in {"run", "left"}
  BY <1>5, <1>6 DEF FallThrough, TakeTrap, SystemCall, TakeBranch, NotTaken, GoTo, Leave
<1> QED BY <1>2, <1>3, <1>4, <1>7, ScanKept

(**************************** The properties ****************************)

(* The inductive invariant, by the actions. *)
THEOREM TrimInvariance == TrimSpec => []TrimIInv
<1>1. ASSUME TrimIInv, [TrimNext]_trimVars PROVE TrimIInv'
  <2>1. TrimTypeOK /\ ScanOK /\ RunOK
    BY <1>1 DEF TrimIInv
  <2>2. CASE UNCHANGED trimVars
    <3>1. Visited' = Visited /\ Returned' = Returned
      BY <2>2 DEF trimVars, Visited, Returned
    <3>2. TrimTypeOK'
      BY <2>1, <2>2, <3>1 DEF trimVars, TrimTypeOK, Blocks, Code, Ends
    <3>3. \A b : (Recorded(b))' = Recorded(b) /\ (ChangedRecursive(b))' = ChangedRecursive(b)
      BY <2>2 DEF trimVars, Recorded, IsReturn, FollowedBy, ChangedRecursive, SuccessorChanged,
         Marks, HasTrap, IsConditional,
         BranchBlock, HasBranch, NextBlock, Following, Blocks
    <3>4. Acyclic' = Acyclic
      BY <3>1, <3>3 DEF Acyclic
    <3>5. \A i : (Recorded(stack[i]))' = Recorded(stack[i])
      BY <2>2 DEF trimVars, Recorded, IsReturn, FollowedBy, HasTrap, IsConditional, BranchBlock,
         HasBranch, Following, Blocks
    <3>6. ScanOK'
      BY <2>1, <2>2, <3>1, <3>3, <3>4, <3>5 DEF trimVars, ScanOK
    <3>7. \A b : (LosesStore(b))' = LosesStore(b)
      BY <2>2 DEF trimVars, LosesStore, BranchBlock, HasBranch, IsReturn, Following, Blocks
    <3>8. RunOK'
      BY <2>1, <2>2, <3>1, <3>7 DEF trimVars, RunOK, NoStaleRead, StoreIsPlaced
    <3> QED BY <3>2, <3>6, <3>8 DEF TrimIInv
  <2>3. CASE Descend
    <3>1. TrimTypeOK' /\ ScanOK'
      BY <2>1, <2>3, DescendOK
    <3>2. RunOK'
      BY <2>1, <2>3 DEF Descend, ScanOK, RunOK, NoStaleRead, StoreIsPlaced
    <3> QED BY <3>1, <3>2 DEF TrimIInv
  <2>4. CASE Return
    <3>1. TrimTypeOK' /\ ScanOK'
      BY <2>1, <2>4, ReturnOK
    <3>2. RunOK'
      BY <2>1, <2>4 DEF Return, ScanOK, RunOK, NoStaleRead, StoreIsPlaced
    <3> QED BY <3>1, <3>2 DEF TrimIInv
  <2>5. CASE Enter
    BY <2>1, <2>5, EnterOK DEF TrimIInv
  <2>6. CASE \E b \in Visited : \/ FallThrough(b) \/ TakeTrap(b) \/ SystemCall(b)
                                \/ TakeBranch(b) \/ NotTaken(b)
    BY <2>1, <2>6, RunStepOK, RunStepKept DEF TrimIInv
  <2> QED BY <1>1, <2>2, <2>3, <2>4, <2>5, <2>6 DEF TrimNext
<1> QED BY <1>1, InitOK, PTL DEF TrimSpec

(* What needs the bit is closed: a block that reads it first, or goes on to one that
   needs it without setting it, needs it. *)
LEMMA NeedsClosed ==
  NeedsIn(Needs) \subseteq Needs
<1> SUFFICES ASSUME NEW t \in NeedsIn(Needs) PROVE t \in Needs
  OBVIOUS
<1>1. t \in Visited \cup {None}
  BY DEF NeedsIn
<1>2. ASSUME NEW bs \in SUBSET (Visited \cup {None}), NeedsIn(bs) \subseteq bs PROVE t \in bs
  <2>1. Needs \subseteq bs
    BY <1>2 DEF Needs
  <2>2. NeedsIn(Needs) \subseteq NeedsIn(bs)
    BY <2>1 DEF NeedsIn
  <2> QED BY <1>2, <2>2
<1> QED BY <1>1, <1>2 DEF Needs

(* So is what leads to a misled blr. *)
LEMMA LeadsClosed ==
  LeadsIn(LeadsToReturn) \subseteq LeadsToReturn
<1> SUFFICES ASSUME NEW b \in LeadsIn(LeadsToReturn) PROVE b \in LeadsToReturn
  OBVIOUS
<1>1. b \in Visited
  BY DEF LeadsIn
<1>2. ASSUME NEW bs \in SUBSET Visited, LeadsIn(bs) \subseteq bs PROVE b \in bs
  <2>1. LeadsToReturn \subseteq bs
    BY <1>2 DEF LeadsToReturn
  <2>2. LeadsIn(LeadsToReturn) \subseteq LeadsIn(bs)
    BY <2>1 DEF LeadsIn
  <2> QED BY <1>2, <2>2
<1> QED BY <1>1, <1>2 DEF LeadsToReturn

(* The marked blocks that need the bit all lead to a misled blr: the blocks that are not
   marked, or lead there, are closed under what makes a block need the bit. *)
LEMMA MarkedNotNeeded ==
  ASSUME TrimTypeOK, ScanOK
  PROVE  recursive \cap Needs \subseteq LeadsToReturn
<1> DEFINE bs == (Visited \cup {None}) \ (recursive \ LeadsToReturn)
<1>1. NeedsIn(bs) \subseteq bs
  <2>1. None \in bs
    BY EdgeFacts DEF TrimTypeOK, None, Blocks
  <2>2. ASSUME NEW b \in Visited, ReadsFirst(b) \/ (Passes(b) /\ FollowedBy(b) \cap bs # {})
        PROVE  ~(b \in recursive /\ b \notin LeadsToReturn)
    <3> SUFFICES ASSUME b \in recursive, b \notin LeadsToReturn PROVE FALSE
      OBVIOUS
    <3>1. Passes(b) /\ Recorded(b) \subseteq recursive /\ FollowedBy(b) \cap bs # {}
      BY <2>2, MarkedMeans DEF ScanOK
    <3>2. b \notin LeadsIn(LeadsToReturn)
      BY LeadsClosed
    <3>3. CASE IsReturn(b)
      <4>1. Following(b) \in recursive
        BY <3>1, <3>3 DEF Recorded
      <4> QED BY <3>1, <3>2, <3>3, <4>1 DEF LeadsIn, Misled
    <3>4. CASE ~IsReturn(b)
      <4>1. FollowedBy(b) \subseteq recursive
        BY <3>1, <3>4 DEF Recorded
      <4>2. FollowedBy(b) \cap LeadsToReturn # {}
        BY <3>1, <4>1
      <4> QED BY <3>1, <3>2, <4>2 DEF LeadsIn
    <3> QED BY <3>3, <3>4
  <2> QED BY <2>1, <2>2 DEF NeedsIn
<1>2. bs \in SUBSET (Visited \cup {None})
  OBVIOUS
<1> HIDE DEF bs
<1>3. Needs \subseteq bs
  BY <1>1, <1>2 DEF Needs
<1> QED BY <1>3 DEF bs

(* Without loops and mfcr nothing is missed: of the blocks neither marked nor in need of
   the bit, one would be followed by none of the others. *)
LEMMA NothingMissed ==
  ASSUME TrimTypeOK, ScanOK
  PROVE  MarkedIfNoLoop
<1> SUFFICES ASSUME ScanDone, Acyclic, \A b \in Visited : ~ReadsCR(b)
             PROVE  Visited \subseteq recursive \cup Needs
  BY DEF MarkedIfNoLoop
<1> DEFINE bs == Visited \ (recursive \cup Needs)
<1> SUFFICES ASSUME bs # {} PROVE FALSE
  OBVIOUS
<1>1. PICK b \in bs : Recorded(b) \cap bs = {}
  BY DEF Acyclic
<1>2. Returned = Visited
  BY DEF ScanDone, Returned, ToSet
<1>3. b \in Visited /\ b \notin recursive /\ b \notin Needs
  OBVIOUS
<1>4. Recorded(b) \subseteq Visited \cup {None} /\ ~ChangedRecursive(b)
  BY <1>2, <1>3 DEF ScanOK
<1>5. ReadsFirst(b) \/ (Passes(b) /\ ~(Recorded(b) \subseteq recursive))
  BY <1>3, <1>4, MarkedMeans
<1>6. None \in Needs
  BY NeedsClosed DEF NeedsIn
<1>7. ~(Recorded(b) \subseteq recursive) => FollowedBy(b) \cap Needs # {}
  <2>1. FollowedBy(b) = IF IsReturn(b) THEN {None} ELSE Recorded(b)
    BY <1>3, EdgeFacts
  <2> QED BY <1>1, <1>4, <1>6, <2>1
<1>8. b \in NeedsIn(Needs)
  BY <1>3, <1>5, <1>7 DEF NeedsIn
<1> QED BY <1>3, <1>8, NeedsClosed

(* scan_cr_bits(), for any unit: it marks no block from which the guest could read the
   old value of the bit, but for those that lead to a blr whose branch_block is wrongly
   the marked block after it, and it misses none in a unit without loops and mfcr. *)
THEOREM ScanIsSound == TrimSpec => []TrimInv
<1>1. TrimIInv => TrimInv
  BY MarkedNotNeeded, NothingMissed DEF TrimIInv, TrimInv, MarkedIsNotNeeded
<1> QED BY <1>1, TrimInvariance, PTL

(* The translated code of any unit: a read of the bit that finds a value the guest does
   not expect comes after a failure of "ASSERT(!crb_store_next)", and only a conditional
   branch with LK = 1 to a marked block of the unit makes that fail. *)
THEOREM NoReadIsStale == TrimSpec => []NoStaleRead
<1>1. TrimIInv => NoStaleRead
  BY DEF TrimIInv, RunOK
<1> QED BY <1>1, TrimInvariance, PTL

(* And when the guest leaves the unit the bit is in place, or is set before it is read,
   or one of the two mistakes above has been made. *)
THEOREM BitIsLeft == TrimSpec => LeavesWithBit
<1> DEFINE P == stage = "run" /\ stage' = "left" =>
                  \/ fresh' \/ at' \notin Needs
                  \/ lost' \/ Misled(at) \/ at' \in LeadsToReturn
<1>1. ASSUME TrimIInv, [TrimNext]_trimVars PROVE [P]_trimVars
  <2> SUFFICES ASSUME TrimNext, stage = "run", stage' = "left", ~fresh', ~lost', ~Misled(at), at' \in Needs
               PROVE  at' \in LeadsToReturn
    BY <1>1
  <2>1. PICK b \in Visited : FallThrough(b) \/ TakeTrap(b) \/ SystemCall(b) \/ TakeBranch(b) \/ NotTaken(b)
    BY DEF TrimNext, Descend, Return, Enter
  <2>2. TrimTypeOK /\ ScanOK /\ RunOK
    BY <1>1 DEF TrimIInv
  <2>3. at' \in recursive
    BY <2>1, <2>2, RunStepGoes
  <2> QED BY <2>2, <2>3, MarkedNotNeeded
<1> QED BY <1>1, TrimInvariance, PTL DEF TrimSpec, LeavesWithBit
=============================================================================
