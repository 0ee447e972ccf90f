----------------------------- MODULE Handle_proofs -----------------------------
(* Proofs about Handle, for any page size, address space and size of the table:
   what a translation holds at each of its stages, and that the read-only memory
   map stands for the regions the client has added, in whatever order, but for the
   pages whose slots were written over. *)
EXTENDS Handle, TLAPS, FunctionTheorems, FiniteSetTheorems, WellFoundedInduction

(**************************** The translation ****************************)

(* The fields, one by one. *)
LEMMA FieldFacts ==
  /\ UnitOwned = {"unit", "insns", "blocks", "regs", "aliases", "label_blockmap"}
  /\ ContextOwned = {"ctx_blocks", "ctx_regs", "label_offsets", "alias_buffer"}
  /\ ToSet(UnitFields) = UnitOwned /\ ToSet(ContextFields) = ContextOwned
  /\ Len(UnitFields) = 6
  /\ UnitOwned = {UnitFields[i] : i \in 1..6}
<1>1. Len(UnitFields) = 6 /\ Len(ContextFields) = 4
  BY DEF UnitFields, ContextFields
<1>2. /\ UnitFields[1] = "unit" /\ UnitFields[2] = "insns" /\ UnitFields[3] = "blocks"
      /\ UnitFields[4] = "regs" /\ UnitFields[5] = "aliases"
      /\ UnitFields[6] = "label_blockmap"
  BY DEF UnitFields
<1>3. /\ ContextFields[1] = "ctx_blocks" /\ ContextFields[2] = "ctx_regs"
      /\ ContextFields[3] = "label_offsets" /\ ContextFields[4] = "alias_buffer"
  BY DEF ContextFields
<1>4. \A i \in 1..6 : i = 1 \/ i = 2 \/ i = 3 \/ i = 4 \/ i = 5 \/ i = 6
  OBVIOUS
<1>5. \A i \in 1..4 : i = 1 \/ i = 2 \/ i = 3 \/ i = 4
  OBVIOUS
<1>6. DOMAIN UnitFields = 1..6 /\ DOMAIN ContextFields = 1..4
  BY DEF UnitFields, ContextFields
<1>7. {UnitFields[i] : i \in 1..6} = {"unit", "insns", "blocks", "regs", "aliases", "label_blockmap"}
  BY <1>2, <1>4
<1>8. {ContextFields[i] : i \in 1..4} = {"ctx_blocks", "ctx_regs", "label_offsets", "alias_buffer"}
  BY <1>3, <1>5
<1>9. ToSet(UnitFields) = {UnitFields[i] : i \in 1..6} /\ ToSet(ContextFields) = {ContextFields[i] : i \in 1..4}
  BY <1>6 DEF ToSet
<1> QED BY <1>1, <1>7, <1>8, <1>9 DEF UnitOwned, ContextOwned

(* A call that has released everything may return. *)
LEMMA ReturnKeeps ==
  ASSUME TranslateIInv, Returns, held' = {}, ptrs' = {}, wild' = wild
  PROVE  TranslateIInv'
BY FieldFacts DEF TranslateIInv, Holds, Stages, Returns

(* With nothing but the unit left, destroying it releases everything. *)
LEMMA DestroyKeeps ==
  ASSUME TranslateIInv, DestroysUnit, Returns, held \subseteq UnitOwned, ptrs = held
  PROVE  TranslateIInv'
<1>1. held' = {} /\ ptrs' = {}
  BY FieldFacts DEF DestroysUnit, Frees
<1>2. wild' = wild
  BY DEF DestroysUnit, Frees, TranslateIInv
<1> QED BY <1>1, <1>2, ReturnKeeps

(* Each step of a translation holds and releases what its stage says. *)
LEMMA TranslateKeeps ==
  ASSUME TranslateIInv, TranslateNext
  PROVE  TranslateIInv'
<1> USE FieldFacts DEF TranslateIInv, Holds, Stages
<1>1. CASE Call
  BY <1>1 DEF Call, KeepsMemory, GoesTo, Returns
<1>2. CASE SetFlags
  BY <1>2 DEF SetFlags
<1>3. CASE CreateUnit
  <2>1. next \in 1..6 /\ next' = next + 1 /\ (next + 1) - 1 = next /\ stage' = "create"
    BY <1>3 DEF CreateUnit
  <2>2. held' = held \cup {UnitFields[next]} /\ ptrs' = held' /\ wild' = FALSE /\ flags' = flags
    BY <1>3 DEF CreateUnit, Allocates
  <2>3. \A i : i \in 1..next <=> i \in 1..(next - 1) \/ i = next
    BY <2>1
  <2>4. held = {UnitFields[i] : i \in 1..(next - 1)}
    BY <1>3 DEF CreateUnit
  <2>5. held' = {UnitFields[i] : i \in 1..(next' - 1)}
    BY <2>1, <2>2, <2>3, <2>4
  <2> QED BY <2>1, <2>2, <2>5
<1>4. CASE CreateFails
  <2>1. \A i \in 1..(next - 1) : i \in 1..6 /\ UnitFields[i] \in UnitOwned
    OBVIOUS
  <2>2. held \subseteq UnitOwned /\ ptrs = held
    BY <1>4, <2>1 DEF CreateFails
  <2> HIDE DEF TranslateIInv, Holds, Stages
  <2> QED BY <1>4, <2>2, DestroyKeeps DEF CreateFails
<1>5. CASE Created
  BY <1>5 DEF Created, KeepsMemory, GoesTo
<1>6. ASSUME NEW s \in {"guest_failed", "finalize", "buffer"}, Fail(s) PROVE TranslateIInv'
  <2>1. held \subseteq UnitOwned /\ ptrs = held
    BY <1>6 DEF Fail
  <2> HIDE DEF TranslateIInv, Holds, Stages
  <2> QED BY <1>6, <2>1, DestroyKeeps DEF Fail
<1>7. CASE GrowGuestBlocks
  BY <1>7 DEF GrowGuestBlocks, Reallocates, Allocates
<1>8. CASE ScanDone
  BY <1>8 DEF ScanDone, KeepsMemory, GoesTo
<1>9. CASE StartCRScan
  BY <1>9 DEF StartCRScan, Allocates, GoesTo
<1>10. CASE EndCRScan
  BY <1>10 DEF EndCRScan, Frees1, Frees, GoesTo
<1>11. CASE GuestDone
  BY <1>11 DEF GuestDone, Frees1, Frees, GoesTo
<1>12. CASE GuestFails
  BY <1>12 DEF GuestFails, Frees1, Frees, GoesTo
<1>13. CASE GrowUnit
  BY <1>13 DEF GrowUnit, Reallocates
<1>14. CASE Finalize
  BY <1>14 DEF Finalize, KeepsMemory, GoesTo
<1>15. CASE NotOptimized
  BY <1>15 DEF NotOptimized, KeepsMemory, GoesTo
<1>16. CASE OptimizeUnit
  BY <1>16 DEF OptimizeUnit, Allocates, GoesTo
<1>17. CASE AliasDataFlow
  BY <1>17 DEF AliasDataFlow, Allocates, GoesTo
<1>18. CASE AliasDataFlowEnd
  BY <1>18 DEF AliasDataFlowEnd, Frees1, Frees, GoesTo
<1>19. CASE NoDataFlow
  BY <1>19 DEF NoDataFlow, KeepsMemory, GoesTo
<1>20. CASE ThreadBranches
  BY <1>20 DEF ThreadBranches, Reallocates
<1>21. CASE Optimized
  BY <1>21 DEF Optimized, Frees1, Frees, GoesTo
<1>22. CASE Verified
  BY <1>22 DEF Verified, KeepsMemory, GoesTo
<1>23. CASE Rejected
  <2>1. held \subseteq UnitOwned /\ ptrs = held
    BY <1>23 DEF Rejected, Fail
  <2> HIDE DEF TranslateIInv, Holds, Stages
  <2> QED BY <1>23, <2>1, DestroyKeeps DEF Rejected, Fail
<1>24. CASE AllocateCode
  BY <1>24 DEF AllocateCode, Allocates, GoesTo
<1>25. CASE InitContext
  BY <1>25 DEF InitContext, GoesTo
<1>26. CASE InitFailed
  BY <1>26 DEF InitFailed, DestroysContext, Frees, AfterInitFailed, GoesTo
<1>27. CASE NoCode
  BY <1>27 DEF NoCode, KeepsMemory, GoesTo
<1>28. CASE ExpandCode
  BY <1>28 DEF ExpandCode, Reallocates
<1>29. CASE GenerateFails
  BY <1>29 DEF GenerateFails, KeepsMemory, GoesTo
<1>30. CASE DestroyContext
  BY <1>30 DEF DestroyContext, DestroysContext, Frees, GoesTo
<1>31. CASE HostFails
  BY <1>31 DEF HostFails, ContextGone, GoesTo
<1>32. CASE Generated
  BY <1>32 DEF Generated, DestroysContext, Frees, GoesTo
<1>33. CASE HostDone
  BY <1>33 DEF HostDone, ContextGone, GoesTo
<1>34. CASE DestroyUnit
  BY <1>34 DEF DestroyUnit, DestroysUnit, Frees, GoesTo
<1>35. CASE DestroyUnitFailed
  BY <1>35 DEF DestroyUnitFailed, DestroysUnit, Frees, GoesTo
<1>36. CASE FreeCode
  <2>1. held' = {} /\ ptrs' = {} /\ wild' = wild
    BY <1>36 DEF FreeCode, Frees, Cleared
  <2> HIDE DEF TranslateIInv, Holds, Stages
  <2> QED BY <1>36, <2>1, ReturnKeeps DEF FreeCode
<1>37. CASE HandOut
  <2>1. held' = {} /\ ptrs' = {} /\ wild' = wild
    BY <1>37 DEF HandOut, Cleared
  <2> HIDE DEF TranslateIInv, Holds, Stages
  <2> QED BY <1>37, <2>1, ReturnKeeps DEF HandOut
<1> HIDE FieldFacts DEF TranslateIInv, Holds, Stages
<1> QED
  BY <1>1, <1>2, <1>3, <1>4, <1>5, <1>6, <1>7, <1>8, <1>9, <1>10, <1>11, <1>12, <1>13, <1>14,
     <1>15, <1>16, <1>17, <1>18, <1>19, <1>20, <1>21, <1>22, <1>23, <1>24, <1>25, <1>26, <1>27,
     <1>28, <1>29, <1>30, <1>31, <1>32, <1>33, <1>34, <1>35, <1>36, <1>37 DEF TranslateNext

(* The steps that belong to the map leave a translation as it is. *)
LEMMA TranslateStutters ==
  ASSUME TranslateIInv, UNCHANGED translateVars
  PROVE  TranslateIInv'
BY DEF TranslateIInv, Holds, translateVars

(* A handle starts with nothing allocated. *)
LEMMA TranslateInitOK ==
  ASSUME TranslateInit
  PROVE  TranslateIInv
BY FieldFacts DEF TranslateInit, TranslateIInv, Holds, Stages

(* The invariant of a call follows from what each stage holds. *)
LEMMA TranslateInvHolds ==
  ASSUME TranslateIInv
  PROVE  TranslateInv
<1> USE FieldFacts DEF TranslateIInv, Holds
<1>1. next \in 1..Len(UnitFields) + 1 /\ flags \subseteq Flags /\ wild \in BOOLEAN
  OBVIOUS
<1>2. held \subseteq Fields
  <2>1. \A i \in 1..(next - 1) : UnitFields[i] \in UnitOwned
    OBVIOUS
  <2> QED BY <2>1 DEF Stages, Fields, Temporaries
<1>3. ptrs \subseteq Fields
  BY <1>2 DEF Fields
<1> QED
  BY <1>1, <1>3 DEF TranslateInv, TranslateTypeOK, NothingLeaked, NoWildFree, CodeBufferNull

(*************************** Searching the table ***************************)

(* A set of naturals with 0 and the successor of each of its members has them all. *)
LEMMA Induction ==
  ASSUME NEW S, 0 \in S, \A n \in Nat : n \in S => n + 1 \in S
  PROVE  Nat \subseteq S
<1> DEFINE R == OpToRel(<, Nat)
           T == Nat \ S
<1> SUFFICES ASSUME T # {} PROVE FALSE
  OBVIOUS
<1>1. T \subseteq Nat
  OBVIOUS
<1>2. PICK m \in T : \A k \in T : ~(<<k, m>> \in R)
  BY <1>1, WFMin, NatLessThanWellFounded
<1>3. \A k \in T : <<k, m>> \in R <=> k < m
  BY <1>1 DEF OpToRel
<1> HIDE DEF R
<1>4. m \in Nat /\ m # 0 /\ m \notin S
  BY <1>2
<1>5. m - 1 \in Nat /\ m - 1 < m
  BY <1>4
<1>6. m - 1 \notin T
  BY <1>2, <1>3, <1>5
<1> QED BY <1>4, <1>5, <1>6

(* A probe narrows the range that is left. *)
LEMMA ProbeNarrows ==
  ASSUME NEW n \in Nat, NEW r \in Ranges(n), r[1] <= r[2],
         NEW mid, mid = (r[1] + r[2]) \div 2
  PROVE  /\ mid \in 0..(n - 1) /\ r[1] <= mid /\ mid <= r[2]
         /\ <<r[1], mid - 1>> \in Ranges(n) /\ (mid - 1) - r[1] < r[2] - r[1]
         /\ <<mid + 1, r[2]>> \in Ranges(n) /\ r[2] - (mid + 1) < r[2] - r[1]
<1>1. r[1] \in 0..n /\ r[2] \in -1..(n - 1)
  BY DEF Ranges
<1>2. mid \in Int /\ r[1] <= mid /\ mid <= r[2]
  BY <1>1
<1> QED BY <1>1, <1>2 DEF Ranges

(* One step of the search. *)
Sought(f, m, p, r) ==
  LET mid == (r[1] + r[2]) \div 2
  IN  IF r[1] > r[2] THEN r[1]
      ELSE IF p = PageIn(m, mid) THEN mid
      ELSE IF p < PageIn(m, mid) THEN f[<<r[1], mid - 1>>]
      ELSE f[<<mid + 1, r[2]>>]

(* The equation of the search has a solution, because each step asks for a smaller
   range only. *)
LEMMA SearchExists ==
  ASSUME NEW m, m.num \in Nat, NEW p
  PROVE  \E f : f = [r \in Ranges(m.num) |-> Sought(f, m, p, r)]
<1> DEFINE n == m.num
           P(f, r) == Sought(f, m, p, r)
           Good(f, k) == /\ f = [r \in Ranges(n) |-> f[r]]
                         /\ \A r \in Ranges(n) : r[2] - r[1] < k - 1 => f[r] = P(f, r)
           Upto == {k \in Nat : \E f : Good(f, k)}
<1>1. ASSUME NEW f, NEW g, NEW r \in Ranges(n),
             \A q \in Ranges(n) : q[2] - q[1] < r[2] - r[1] => f[q] = g[q]
      PROVE  P(f, r) = P(g, r)
  <2>1. CASE r[1] > r[2]
    BY <2>1 DEF Sought
  <2>2. CASE ~(r[1] > r[2])
    <3> DEFINE mid == (r[1] + r[2]) \div 2
    <3>1. r[1] <= r[2]
      BY <2>2 DEF Ranges
    <3>2. /\ <<r[1], mid - 1>> \in Ranges(n) /\ (mid - 1) - r[1] < r[2] - r[1]
          /\ <<mid + 1, r[2]>> \in Ranges(n) /\ r[2] - (mid + 1) < r[2] - r[1]
      BY <3>1, ProbeNarrows
    <3>3. f[<<r[1], mid - 1>>] = g[<<r[1], mid - 1>>] /\ f[<<mid + 1, r[2]>>] = g[<<mid + 1, r[2]>>]
      BY <1>1, <3>2
    <3> QED BY <3>3 DEF Sought
  <2> QED BY <2>1, <2>2
<1>2. 0 \in Upto
  <2> DEFINE g == [r \in Ranges(n) |-> r[1]]
  <2>1. ASSUME NEW r \in Ranges(n), r[2] - r[1] < 0 - 1 PROVE g[r] = P(g, r)
    <3>1. r[1] > r[2]
      BY <2>1 DEF Ranges
    <3> QED BY <3>1 DEF Sought
  <2>2. Good(g, 0)
    BY <2>1
  <2> QED BY <2>2
<1>3. ASSUME NEW k \in Nat, k \in Upto PROVE k + 1 \in Upto
  <2>1. PICK f : Good(f, k)
    BY <1>3
  <2> DEFINE g == [r \in Ranges(n) |-> IF r[2] - r[1] = k - 1 THEN P(f, r) ELSE f[r]]
  <2>2. ASSUME NEW r \in Ranges(n), r[2] - r[1] < k PROVE g[r] = P(g, r)
    <3>1. r[1] \in Int /\ r[2] \in Int
      BY DEF Ranges
    <3>2. \A q \in Ranges(n) : q[2] - q[1] < r[2] - r[1] => f[q] = g[q]
      BY <2>2, <3>1 DEF Ranges
    <3>3. P(f, r) = P(g, r)
      BY <1>1, <3>2
    <3>4. CASE r[2] - r[1] = k - 1
      BY <3>3, <3>4
    <3>5. CASE r[2] - r[1] # k - 1
      <4>1. r[2] - r[1] < k - 1
        BY <2>2, <3>1, <3>5
      <4>2. f[r] = P(f, r)
        BY <2>1, <4>1
      <4>3. g[r] = f[r]
        BY <3>5
      <4> HIDE DEF P, g
      <4> QED BY <3>3, <4>2, <4>3
    <3> QED BY <3>4, <3>5
  <2>3. g = [r \in Ranges(n) |-> g[r]]
    OBVIOUS
  <2>4. \A r \in Ranges(n) : r[2] - r[1] < (k + 1) - 1 => g[r] = P(g, r)
    <3>1. (k + 1) - 1 = k
      OBVIOUS
    <3> HIDE DEF P, g
    <3> QED BY <2>2, <3>1
  <2> HIDE DEF P, g
  <2> QED BY <2>3, <2>4
<1>4. n + 1 \in Upto
  <2> HIDE DEF Upto
  <2> QED BY <1>2, <1>3, Induction
<1>5. PICK f : Good(f, n + 1)
  BY <1>4
<1>6. \A r \in Ranges(n) : f[r] = P(f, r)
  <2>1. \A r \in Ranges(n) : r[2] - r[1] < (n + 1) - 1
    BY DEF Ranges
  <2> HIDE DEF P
  <2> QED BY <1>5, <2>1
<1> HIDE DEF P
<1>7. f = [r \in Ranges(n) |-> P(f, r)]
  BY <1>5, <1>6
<1> QED BY <1>7 DEF P

(* The search obeys its equation. *)
LEMMA SearchRecur ==
  ASSUME NEW m, m.num \in Nat, NEW p
  PROVE  \A r \in Ranges(m.num) : Search(m, p)[r] = Sought(Search(m, p), m, p, r)
<1> DEFINE Eq(f, r) == Sought(f, m, p, r)
<1>1. PICK f : f = [r \in Ranges(m.num) |-> Eq(f, r)]
  BY SearchExists
<1>2. Search(m, p) = CHOOSE g : g = [r \in Ranges(m.num) |-> Eq(g, r)]
  BY DEF Search, Sought
<1> HIDE DEF Eq
<1>3. Search(m, p) = [r \in Ranges(m.num) |-> Eq(Search(m, p), r)]
  BY <1>1, <1>2
<1>4. \A r \in Ranges(m.num) : Search(m, p)[r] = Eq(Search(m, p), r)
  BY <1>3
<1> QED BY <1>4 DEF Eq

(* What a map in order is made of. *)
LEMMA MapFacts ==
  ASSUME NEW m, MapOK(m)
  PROVE  /\ MaxPartial \in Nat \ {0} /\ NumPages \in Nat \ {0} /\ Unused = NumPages
         /\ m.num \in Nat /\ m.num <= MaxPartial /\ Slots = 0..(MaxPartial - 1)
         /\ \A s \in Slots : /\ s \in Nat /\ PageIn(m, s) = m.pages[s]
                             /\ m.pages[s] \in Nat /\ m.pages[s] <= Unused
         /\ \A s \in Used(m) : /\ s \in Slots /\ s < m.num
                               /\ m.pages[s] \in Pages /\ m.pages[s] < Unused
         /\ \A s \in Slots : m.pages[s] < Unused => s \in Used(m)
         /\ \A s \in Nat : s < m.num => s \in Slots
         /\ \A s \in Nat : s >= m.num => PageIn(m, s) = Unused
         /\ \A s, t \in Slots : s < t => /\ m.pages[s] <= m.pages[t]
                                         /\ m.pages[t] < Unused => m.pages[s] < m.pages[t]
<1> USE MapAssumption
<1>1. /\ MaxPartial \in Nat \ {0} /\ NumPages \in Nat \ {0} /\ Unused = NumPages
      /\ Slots = 0..(MaxPartial - 1) /\ Pages = 0..(NumPages - 1)
  BY DEF Unused, Slots, Pages
<1>2. m.num \in 0..MaxPartial /\ m.pages \in [Slots -> Pages \cup {Unused}]
  BY DEF MapOK, Maps
<1>3. m.num \in Nat /\ m.num <= MaxPartial /\ \A s \in Nat : s < m.num => s \in Slots
  BY <1>1, <1>2
<1>4. \A s \in Slots : /\ s \in Nat /\ PageIn(m, s) = m.pages[s]
                       /\ m.pages[s] \in Nat /\ m.pages[s] <= Unused
  BY <1>1, <1>2 DEF PageIn
<1>5. \A s \in Used(m) : /\ s \in Slots /\ s < m.num
                         /\ m.pages[s] \in Pages /\ m.pages[s] < Unused
  BY <1>1, <1>2 DEF MapOK, Used
<1>6. \A s \in Slots : m.pages[s] < Unused => s \in Used(m)
  BY <1>1 DEF Used
<1>7. \A s \in Nat : s >= m.num => PageIn(m, s) = Unused
  <2>1. ASSUME NEW s \in Slots, s >= m.num PROVE m.pages[s] = Unused
    BY <1>1, <1>3, <1>4, <1>5, <2>1 DEF Used
  <2> QED BY <2>1 DEF PageIn
<1>8. ASSUME NEW s \in Slots, NEW t \in Slots, s < t
      PROVE  m.pages[s] <= m.pages[t] /\ (m.pages[t] < Unused => m.pages[s] < m.pages[t])
  <2>1. m.pages[t] # Unused => m.pages[s] < m.pages[t]
    BY <1>8 DEF MapOK
  <2> QED BY <1>1, <1>4, <2>1
<1> QED BY <1>1, <1>3, <1>4, <1>5, <1>6, <1>7, <1>8

(* Where the search ends: the pages below are smaller, the others are not. *)
Lands(m, p, s) ==
  /\ s \in 0..m.num
  /\ \A t \in 0..(m.num - 1) : (t < s => m.pages[t] < p) /\ (s <= t => p <= m.pages[t])

(* The search ends at the page's slot, or at the one where it belongs. *)
LEMMA LookupLands ==
  ASSUME NEW m, MapOK(m), NEW p \in Pages
  PROVE  Lands(m, p, Lookup(m, p))
<1> DEFINE n == m.num
           K == 0..(n - 1)
           S(r) == Search(m, p)[r]
           Good(r, k) == /\ r[2] - r[1] < k - 1
                         /\ \A t \in K : t < r[1] => m.pages[t] < p
                         /\ \A t \in K : t > r[2] => p < m.pages[t]
                         => Lands(m, p, S(r))
           All == {k \in Nat : \A r \in Ranges(n) : Good(r, k)}
<1>1. n \in Nat /\ p \in Nat /\ p < Unused /\ Unused \in Nat
  BY MapFacts DEF Pages
<1>2. \A t \in K : /\ t \in Nat /\ t < n /\ t \in Slots /\ m.pages[t] \in Nat
                   /\ PageIn(m, t) = m.pages[t]
  BY <1>1, MapFacts
<1>3. \A s, t \in K : s < t => /\ m.pages[s] <= m.pages[t]
                               /\ m.pages[t] < Unused => m.pages[s] < m.pages[t]
  BY <1>1, <1>2, MapFacts
<1> HIDE DEF K
<1>4. \A t \in 0..(n - 1) : t \in K
  BY DEF K
<1>a. ASSUME NEW i \in K, NEW j \in K
      PROVE  /\ i \in Nat /\ j \in Nat /\ m.pages[i] \in Nat /\ m.pages[j] \in Nat
             /\ i < j => /\ m.pages[i] <= m.pages[j]
                         /\ m.pages[j] < Unused => m.pages[i] < m.pages[j]
             /\ j < i => /\ m.pages[j] <= m.pages[i]
                         /\ m.pages[i] < Unused => m.pages[j] < m.pages[i]
  BY <1>2, <1>3
<1>b. \A i, j \in K : p = m.pages[i] =>
        (j < i => m.pages[j] < p) /\ (i <= j => p <= m.pages[j])
  <2> SUFFICES ASSUME NEW i \in K, NEW j \in K, p = m.pages[i]
               PROVE  (j < i => m.pages[j] < p) /\ (i <= j => p <= m.pages[j])
    OBVIOUS
  <2>1. i < j \/ i = j \/ j < i
    BY <1>a
  <2> QED BY <1>1, <1>a, <2>1
<1>c. \A i, j \in K : p < m.pages[i] /\ j > i - 1 => p < m.pages[j]
  <2> SUFFICES ASSUME NEW i \in K, NEW j \in K, p < m.pages[i], j > i - 1
               PROVE  p < m.pages[j]
    OBVIOUS
  <2>1. i < j \/ i = j
    BY <1>a
  <2> QED BY <1>1, <1>a, <2>1
<1>d. \A i, j \in K : m.pages[i] < p /\ j < i + 1 => m.pages[j] < p
  <2> SUFFICES ASSUME NEW i \in K, NEW j \in K, m.pages[i] < p, j < i + 1
               PROVE  m.pages[j] < p
    OBVIOUS
  <2>1. j < i \/ i = j
    BY <1>a
  <2> QED BY <1>1, <1>a, <2>1
<1>5. 0 \in All
  <2> SUFFICES ASSUME NEW r \in Ranges(n), r[2] - r[1] < 0 - 1 PROVE FALSE
    OBVIOUS
  <2> QED BY <1>1 DEF Ranges
<1>6. ASSUME NEW k \in Nat, k \in All PROVE k + 1 \in All
  <2> SUFFICES ASSUME NEW r \in Ranges(n), r[2] - r[1] < (k + 1) - 1,
                      \A t \in K : t < r[1] => m.pages[t] < p,
                      \A t \in K : t > r[2] => p < m.pages[t]
               PROVE  Lands(m, p, S(r))
    OBVIOUS
  <2> DEFINE mid == (r[1] + r[2]) \div 2
             u == r[1]
             v == r[2]
  <2>1. u \in 0..n /\ v \in -1..(n - 1) /\ u <= v + 1
    BY <1>1 DEF Ranges
  <2>2. S(r) = IF u > v THEN u
               ELSE IF p = PageIn(m, mid) THEN mid
               ELSE IF p < PageIn(m, mid) THEN S(<<u, mid - 1>>)
               ELSE S(<<mid + 1, v>>)
    <3>1. S(r) = Sought(Search(m, p), m, p, r)
      BY <1>1, SearchRecur
    <3> QED BY <3>1 DEF Sought
  <2>3. CASE u > v
    <3>1. S(r) = u /\ u = v + 1
      BY <1>1, <2>1, <2>2, <2>3
    <3>2. \A t \in K : u <= t => p < m.pages[t]
      BY <1>2, <2>1, <3>1
    <3> HIDE DEF S, u, v
    <3>3. \A t \in K : u <= t => p <= m.pages[t]
      BY <1>1, <1>2, <3>2
    <3>4. \A t \in K : t < u => m.pages[t] < p
      BY DEF u
    <3> QED BY <1>4, <2>1, <3>1, <3>3, <3>4 DEF Lands
  <2>4. CASE u <= v
    <3>1. /\ mid \in 0..(n - 1) /\ u <= mid /\ mid <= v
          /\ <<u, mid - 1>> \in Ranges(n) /\ <<mid + 1, v>> \in Ranges(n)
      BY <1>1, <2>4, ProbeNarrows
    <3>2. ~(u > v)
      BY <1>1, <2>1, <2>4
    <3>3. mid \in K /\ mid \in Nat /\ m.pages[mid] \in Nat /\ PageIn(m, mid) = m.pages[mid]
      BY <1>2, <1>4, <3>1
    <3>4. (mid - 1) - u < k - 1 /\ v - (mid + 1) < k - 1
      <4>1. v - u < (k + 1) - 1
        OBVIOUS
      <4> HIDE DEF mid, u, v
      <4> QED BY <1>1, <2>1, <3>1, <4>1
    <3> DEFINE x == <<u, mid - 1>>
               y == <<mid + 1, v>>
    <3>5. x[1] = u /\ x[2] = mid - 1 /\ y[1] = mid + 1 /\ y[2] = v
      OBVIOUS
    <3>6. (\A t \in K : t < u => m.pages[t] < p) /\ (\A t \in K : t > v => p < m.pages[t])
      OBVIOUS
    <3>7. Good(x, k) /\ Good(y, k)
      <4> HIDE DEF Good, x, y
      <4> QED BY <1>6, <3>1 DEF x, y
    <3> HIDE DEF mid, S, x, y, u, v
    <3>8. CASE p = m.pages[mid]
      <4>1. S(r) = mid
        BY <2>2, <3>2, <3>3, <3>8
      <4>2. \A t \in K : (t < mid => m.pages[t] < p) /\ (mid <= t => p <= m.pages[t])
        BY <1>b, <3>3, <3>8
      <4>3. mid \in 0..n
        BY <1>1, <3>1
      <4> QED BY <1>4, <4>1, <4>2, <4>3 DEF Lands
    <3>9. CASE p < m.pages[mid]
      <4>1. S(r) = S(x)
        BY <2>2, <3>2, <3>3, <3>9 DEF x
      <4>2. \A t \in K : t > mid - 1 => p < m.pages[t]
        BY <1>c, <3>3, <3>9
      <4>3. Lands(m, p, S(x))
        BY <3>4, <3>5, <3>6, <3>7, <4>2
      <4> QED BY <4>1, <4>3
    <3>10. CASE m.pages[mid] < p
      <4>1. S(r) = S(y)
        BY <1>1, <2>2, <3>2, <3>3, <3>10 DEF y
      <4>2. \A t \in K : t < mid + 1 => m.pages[t] < p
        BY <1>d, <3>3, <3>10
      <4>3. Lands(m, p, S(y))
        BY <3>4, <3>5, <3>6, <3>7, <4>2
      <4> QED BY <4>1, <4>3
    <3>11. p = m.pages[mid] \/ p < m.pages[mid] \/ m.pages[mid] < p
      BY <1>1, <3>3
    <3> QED BY <3>8, <3>9, <3>10, <3>11
  <2> QED BY <1>1, <2>1, <2>3, <2>4
<1>7. n + 1 \in All
  <2> HIDE DEF All
  <2> QED BY <1>1, <1>5, <1>6, Induction
<1> DEFINE r == <<0, n - 1>>
<1>8. r \in Ranges(n) /\ r[1] = 0 /\ r[2] = n - 1
  BY <1>1 DEF Ranges
<1>9. Good(r, n + 1)
  <2> HIDE DEF Good, r
  <2> QED BY <1>7, <1>8
<1>10. \A t \in K : ~(t < 0) /\ ~(t > n - 1)
  BY <1>1, <1>2
<1>11. (n - 1) - 0 < (n + 1) - 1
  BY <1>1
<1>12. Lands(m, p, S(r))
  <2> HIDE DEF S, r
  <2> QED BY <1>8, <1>9, <1>10, <1>11
<1> QED BY <1>12 DEF Lookup

(******************************** Addresses ********************************)

(* The page and the offset of an address. *)
LEMMA PageFacts ==
  ASSUME NEW a \in Nat
  PROVE  /\ PageSize \in Nat \ {0}
         /\ PageOf(a) \in Nat /\ Offset(a) \in 0..(PageSize - 1)
         /\ PageOf(a) * PageSize \in Nat
         /\ a = PageOf(a) * PageSize + Offset(a)
<1>1. PageSize \in Nat \ {0}
  BY MapAssumption
<1>2. /\ a \div PageSize \in Nat /\ a % PageSize \in 0..(PageSize - 1)
      /\ a = PageSize * (a \div PageSize) + (a % PageSize)
  BY <1>1
<1> DEFINE d == a \div PageSize
<1>3. PageSize * d = d * PageSize /\ d * PageSize \in Nat
  <2> HIDE DEF d
  <2>1. d \in Nat
    BY <1>2 DEF d
  <2> QED BY <1>1, <2>1
<1> QED BY <1>1, <1>2, <1>3 DEF PageOf, Offset

(* A smaller page starts, and so ends, below a larger one. *)
LEMMA PageOrder ==
  ASSUME NEW p \in Nat, NEW q \in Nat
  PROVE  /\ p * PageSize \in Nat
         /\ p < q => p * PageSize + PageSize <= q * PageSize
         /\ p <= q <=> p * PageSize <= q * PageSize
         /\ p < q <=> p * PageSize < q * PageSize
<1>1. PageSize \in Nat \ {0}
  BY MapAssumption
<1>2. \A d \in Nat : d * PageSize \in Nat
  BY <1>1
<1>3. \A d, e \in Nat : d < e => d * PageSize + PageSize <= e * PageSize
  <2> SUFFICES ASSUME NEW d \in Nat, NEW e \in Nat, d < e
               PROVE  d * PageSize + PageSize <= e * PageSize
    OBVIOUS
  <2> DEFINE k == e - d - 1
  <2>1. k \in Nat /\ e = d + k + 1
    OBVIOUS
  <2> HIDE DEF k
  <2>2. e * PageSize = d * PageSize + k * PageSize + PageSize
    BY <1>1, <2>1
  <2> QED BY <1>1, <1>2, <2>1, <2>2
<1>4. PageSize > 0
  BY <1>1
<1>5. p = q \/ p < q \/ q < p
  OBVIOUS
<1> DEFINE P == p * PageSize
           Q == q * PageSize
<1>6. P \in Nat /\ Q \in Nat /\ (p < q => P + PageSize <= Q) /\ (q < p => Q + PageSize <= P)
      /\ (p = q => P = Q)
  BY <1>2, <1>3
<1> HIDE DEF P, Q
<1>7. /\ P \in Nat /\ (p < q => P + PageSize <= Q)
      /\ (p <= q <=> P <= Q) /\ (p < q <=> P < Q)
  BY <1>1, <1>4, <1>5, <1>6
<1> QED BY <1>7 DEF P, Q

(* The page of an address is the one it lies in. *)
LEMMA PageIs ==
  ASSUME NEW a \in Nat, NEW p \in Nat, p * PageSize <= a, a < p * PageSize + PageSize
  PROVE  PageOf(a) = p /\ Offset(a) = a - p * PageSize
<1> DEFINE q == PageOf(a)
           P == p * PageSize
           Q == q * PageSize
           o == Offset(a)
<1>1. PageSize \in Nat \ {0} /\ q \in Nat /\ Q \in Nat /\ o \in 0..(PageSize - 1) /\ a = Q + o
  BY PageFacts
<1>2. P \in Nat /\ (p < q => P + PageSize <= Q) /\ (q < p => Q + PageSize <= P)
  BY <1>1, PageOrder
<1>3. P <= a /\ a < P + PageSize
  OBVIOUS
<1> HIDE DEF q, P, Q, o
<1>4. p = q
  BY <1>1, <1>2, <1>3
<1>5. P = Q
  BY <1>4 DEF P, Q
<1> QED BY <1>1, <1>4, <1>5 DEF q, P, Q, o

(* Addresses in order lie in pages in order, all of them in the address space. *)
LEMMA AddressFacts ==
  /\ Space \in Nat \ {0}
  /\ \A a \in Addresses : a \in Nat /\ a < Space /\ PageOf(a) \in Pages
  /\ \A a, b \in Nat : a <= b => PageOf(a) <= PageOf(b)
<1>1. PageSize \in Nat \ {0} /\ NumPages \in Nat \ {0}
  BY MapAssumption
<1>2. Space \in Nat /\ NumPages * PageSize = Space
  BY <1>1 DEF Space
<1>3. Space # 0
  BY <1>1, <1>2, PageOrder
<1>4. \A a \in Addresses : a \in Nat /\ a < Space
  BY <1>2 DEF Addresses
<1>5. ASSUME NEW a \in Addresses PROVE PageOf(a) \in Pages
  <2> DEFINE q == PageOf(a)
             Q == q * PageSize
  <2>1. q \in Nat /\ Q \in Nat /\ Q <= a
    BY <1>1, <1>4, PageFacts
  <2>2. Q < NumPages * PageSize
    <3> HIDE DEF Q
    <3> QED BY <1>2, <1>4, <2>1
  <2>3. q < NumPages
    <3> HIDE DEF q
    <3> QED BY <1>1, <2>1, <2>2, PageOrder DEF Q
  <2> HIDE DEF q
  <2> QED BY <1>1, <2>1, <2>3 DEF Pages, q
<1>6. ASSUME NEW a \in Nat, NEW b \in Nat, a <= b PROVE PageOf(a) <= PageOf(b)
  <2> DEFINE p == PageOf(a)
             q == PageOf(b)
             P == p * PageSize
             Q == q * PageSize
             x == Offset(a)
             y == Offset(b)
  <2>1. /\ p \in Nat /\ P \in Nat /\ a = P + x /\ x \in 0..(PageSize - 1)
        /\ q \in Nat /\ Q \in Nat /\ b = Q + y /\ y \in 0..(PageSize - 1)
    BY PageFacts
  <2>2. q < p => Q + PageSize <= P
    BY <2>1, PageOrder
  <2> HIDE DEF p, q, P, Q, x, y
  <2>3. ~(q < p)
    BY <1>1, <1>6, <2>1, <2>2
  <2>4. p <= q
    BY <2>1, <2>3
  <2> QED BY <2>4 DEF p, q
<1> QED BY <1>2, <1>3, <1>4, <1>5, <1>6

(********************************* Adding *********************************)

(* n is m with these addresses marked, but for those of pages written over. *)
Extends(m, n, addresses) ==
  /\ MapOK(n) /\ n.full = m.full /\ m.lost \subseteq n.lost
  /\ Marked(n) \subseteq Marked(m) \cup addresses
  /\ \A a \in Marked(m) \cup addresses : a \in Marked(n) \/ PageOf(a) \in n.lost

(* One extension after another. *)
LEMMA ExtendsTrans ==
  ASSUME NEW m, NEW n, NEW o, NEW A, NEW B, Extends(m, n, A), Extends(n, o, B)
  PROVE  Extends(m, o, A \cup B)
BY DEF Extends

(* The slots after an insertion at slot s: the new page is there, the slots above come
   from one slot further on, and the others stay. *)
LEMMA InsertedSlots ==
  ASSUME NEW m, MapOK(m), NEW p \in Pages, NEW s \in Slots, s <= m.num, m.num < MaxPartial
  PROVE  LET n == WithPage(m, p, s)
         IN  /\ n.full = m.full /\ n.part = m.part \cup {p} /\ n.num = m.num + 1
             /\ n.lost = m.lost \cup Overwritten(m, s) /\ n \in Maps
             /\ n.pages[s] = p /\ n.bytes[s] = {}
             /\ \A i \in Slots : i > s /\ i < m.num =>
                  /\ i + 1 \in Slots
                  /\ n.pages[i] = m.pages[i + 1] /\ n.bytes[i] = m.bytes[i + 1]
             /\ \A i \in Slots : i # s /\ (i < s \/ i >= m.num) =>
                  n.pages[i] = m.pages[i] /\ n.bytes[i] = m.bytes[i]
<1> DEFINE n == WithPage(m, p, s)
           mp == MovedDown(m.pages, s, m.num)
           mb == MovedDown(m.bytes, s, m.num)
<1>1. /\ m.full \subseteq Pages /\ m.part \subseteq Pages /\ m.lost \subseteq Pages
      /\ m.pages \in [Slots -> Pages \cup {Unused}]
      /\ m.bytes \in [Slots -> SUBSET (0..(PageSize - 1))]
  BY DEF MapOK, Maps
<1>2. /\ MaxPartial \in Nat \ {0} /\ Slots = 0..(MaxPartial - 1) /\ m.num \in Nat /\ s \in Nat
      /\ \A i \in Slots : i \in Nat /\ PageIn(m, i) = m.pages[i] /\ m.pages[i] \in Nat
  BY MapFacts
<1>3. \A i \in Slots : i < m.num => i + 1 \in Slots
  BY <1>2
<1>4. mp \in [Slots -> Pages \cup {Unused}] /\ mb \in [Slots -> SUBSET (0..(PageSize - 1))]
  BY <1>1, <1>3 DEF MovedDown
<1>5. /\ \A i \in Slots : i >= s /\ i < m.num => mp[i] = m.pages[i + 1] /\ mb[i] = m.bytes[i + 1]
      /\ \A i \in Slots : ~(i >= s /\ i < m.num) => mp[i] = m.pages[i] /\ mb[i] = m.bytes[i]
  BY DEF MovedDown
<1>6. Overwritten(m, s) \subseteq Pages
  <2>1. \A i \in Nat : PageIn(m, i) \in Pages \cup {Unused}
    BY <1>1 DEF PageIn
  <2> QED BY <1>2, <2>1 DEF Overwritten
<1>7. n = [full |-> m.full, part |-> m.part \cup {p}, num |-> m.num + 1,
           pages |-> [mp EXCEPT ![s] = p], bytes |-> [mb EXCEPT ![s] = {}],
           lost |-> m.lost \cup Overwritten(m, s)]
  BY DEF WithPage
<1> HIDE DEF n, mp, mb
<1>8. [mp EXCEPT ![s] = p] \in [Slots -> Pages \cup {Unused}]
  BY <1>4
<1>9. [mb EXCEPT ![s] = {}] \in [Slots -> SUBSET (0..(PageSize - 1))]
  BY <1>4
<1>10. n \in Maps
  <2>1. m.num + 1 \in 0..MaxPartial
    BY <1>2
  <2> QED BY <1>1, <1>6, <1>7, <1>8, <1>9, <2>1 DEF Maps
<1>11. /\ n.full = m.full /\ n.part = m.part \cup {p} /\ n.num = m.num + 1
       /\ n.lost = m.lost \cup Overwritten(m, s)
       /\ n.pages = [mp EXCEPT ![s] = p] /\ n.bytes = [mb EXCEPT ![s] = {}]
  BY <1>7
<1>12. n.pages[s] = p /\ n.bytes[s] = {}
  BY <1>4, <1>11
<1>13. \A i \in Slots : i # s => n.pages[i] = mp[i] /\ n.bytes[i] = mb[i]
  BY <1>4, <1>11
<1>14. \A i \in Slots : i > s /\ i < m.num =>
         /\ i + 1 \in Slots
         /\ n.pages[i] = m.pages[i + 1] /\ n.bytes[i] = m.bytes[i + 1]
  BY <1>2, <1>3, <1>5, <1>13
<1>15. \A i \in Slots : i # s /\ (i < s \/ i >= m.num) =>
         n.pages[i] = m.pages[i] /\ n.bytes[i] = m.bytes[i]
  <2> SUFFICES ASSUME NEW i \in Slots, i # s, i < s \/ i >= m.num
               PROVE  n.pages[i] = m.pages[i] /\ n.bytes[i] = m.bytes[i]
    OBVIOUS
  <2>1. i \in Nat /\ s \in Nat /\ m.num \in Nat
    BY <1>2
  <2>2. ~(i >= s /\ i < m.num)
    BY <2>1
  <2> QED BY <1>5, <1>13, <2>2
<1> QED BY <1>10, <1>11, <1>12, <1>14, <1>15 DEF n

(* A new page goes to the slot where it belongs, none of its addresses marked; the
   table stays in order, and what was in that slot and the next one is lost. *)
LEMMA WithPageExtends ==
  ASSUME NEW m, MapOK(m), NEW p \in Pages, NEW s, Lands(m, p, s), PageIn(m, s) # p,
         m.num < MaxPartial
  PROVE  LET n == WithPage(m, p, s)
         IN  /\ Extends(m, n, {})
             /\ s \in Used(n) /\ n.pages[s] = p
<1> DEFINE n == WithPage(m, p, s)
<1>1. /\ MaxPartial \in Nat \ {0} /\ Slots = 0..(MaxPartial - 1) /\ m.num \in Nat
      /\ \A i \in Slots : /\ i \in Nat /\ PageIn(m, i) = m.pages[i]
                          /\ m.pages[i] \in Nat /\ m.pages[i] <= Unused
      /\ \A i \in Used(m) : i \in Slots /\ i < m.num /\ m.pages[i] < Unused
      /\ \A i \in Slots : m.pages[i] < Unused => i \in Used(m)
      /\ \A i \in Slots : \A j \in Slots : i < j /\ m.pages[j] < Unused => m.pages[i] < m.pages[j]
  BY MapFacts
<1>2. /\ s \in Nat /\ s <= m.num /\ s \in Slots /\ p \in Nat /\ p < Unused /\ Unused \in Nat
      /\ \A t \in Nat : t < m.num => (t < s => m.pages[t] < p) /\ (s <= t => p <= m.pages[t])
  <2>1. /\ s \in 0..m.num
        /\ \A t \in 0..(m.num - 1) : (t < s => m.pages[t] < p) /\ (s <= t => p <= m.pages[t])
    BY DEF Lands
  <2> QED BY <1>1, <2>1, MapFacts DEF Pages
<1>3. /\ n.full = m.full /\ n.part = m.part \cup {p} /\ n.num = m.num + 1
      /\ n.lost = m.lost \cup Overwritten(m, s) /\ n \in Maps
      /\ n.pages[s] = p /\ n.bytes[s] = {}
      /\ \A i \in Slots : i > s /\ i < m.num =>
           /\ i + 1 \in Slots
           /\ n.pages[i] = m.pages[i + 1] /\ n.bytes[i] = m.bytes[i + 1]
      /\ \A i \in Slots : i # s /\ (i < s \/ i >= m.num) =>
           n.pages[i] = m.pages[i] /\ n.bytes[i] = m.bytes[i]
  BY <1>2, InsertedSlots
<1> HIDE DEF n
<1>4. \A t \in Slots : t >= s /\ t < m.num => p < m.pages[t]
  <2> SUFFICES ASSUME NEW t \in Slots, t >= s, t < m.num PROVE p < m.pages[t]
    OBVIOUS
  <2>1. p <= m.pages[t]
    BY <1>1, <1>2
  <2>2. m.pages[t] # p
    <3>1. CASE t = s
      BY <1>1, <3>1
    <3>2. CASE t > s
      <4>1. p <= m.pages[s] /\ m.pages[s] # p
        BY <1>1, <1>2, <3>2
      <4>2. m.pages[t] < Unused => m.pages[s] < m.pages[t]
        <5>1. s \in Slots /\ s < t
          BY <1>1, <1>2, <3>2
        <5> QED BY <1>1, <5>1
      <4> QED BY <1>1, <1>2, <4>1, <4>2
    <3> QED BY <1>1, <1>2, <3>1, <3>2
  <2> QED BY <1>1, <1>2, <2>1, <2>2
<1>5. \A i \in Used(n) : /\ i \in Slots /\ n.pages[i] # Unused
                         /\ i = s \/ (i < s /\ i \in Used(m)) \/ (i > s /\ i < m.num /\ i + 1 \in Used(m))
  <2> SUFFICES ASSUME NEW i \in Used(n)
               PROVE  /\ i \in Slots /\ n.pages[i] # Unused
                      /\ i = s \/ (i < s /\ i \in Used(m)) \/ (i > s /\ i < m.num /\ i + 1 \in Used(m))
    OBVIOUS
  <2>1. i \in Slots /\ n.pages[i] # Unused
    BY DEF Used
  <2>2. CASE i < s
    BY <1>3, <2>1, <2>2, <1>1, <1>2 DEF Used
  <2>3. CASE i > s /\ i < m.num
    BY <1>3, <2>1, <2>3 DEF Used
  <2>4. CASE i > s /\ i >= m.num
    <3>1. m.pages[i] # Unused
      BY <1>1, <1>2, <1>3, <2>1, <2>4
    <3>2. i \in Used(m)
      BY <2>1, <3>1 DEF Used
    <3> QED BY <1>1, <2>1, <2>4, <3>2
  <2> QED BY <1>1, <1>2, <2>1, <2>2, <2>3, <2>4
<1>6. s \in Used(n)
  BY <1>2, <1>3 DEF Used
<1>7. \A i \in Used(m) : \/ i < s /\ i \in Used(n) /\ n.pages[i] = m.pages[i] /\ n.bytes[i] = m.bytes[i]
                         \/ m.pages[i] \in n.lost
                         \/ /\ i > s + 1 /\ i - 1 \in Used(n)
                            /\ n.pages[i - 1] = m.pages[i] /\ n.bytes[i - 1] = m.bytes[i]
  <2> SUFFICES ASSUME NEW i \in Used(m)
               PROVE  \/ i < s /\ i \in Used(n) /\ n.pages[i] = m.pages[i] /\ n.bytes[i] = m.bytes[i]
                      \/ m.pages[i] \in n.lost
                      \/ /\ i > s + 1 /\ i - 1 \in Used(n)
                         /\ n.pages[i - 1] = m.pages[i] /\ n.bytes[i - 1] = m.bytes[i]
    OBVIOUS
  <2>1. i \in Slots /\ i \in Nat /\ i < m.num /\ m.pages[i] # Unused
    BY <1>1 DEF Used
  <2>2. CASE i < s
    BY <1>2, <1>3, <2>1, <2>2 DEF Used
  <2>3. CASE i = s \/ i = s + 1
    <3>1. m.pages[i] \in Overwritten(m, s)
      BY <1>1, <2>1, <2>3 DEF Overwritten
    <3> QED BY <1>3, <3>1
  <2>4. CASE i > s + 1
    <3> DEFINE j == i - 1
    <3>1. j \in Slots /\ j > s /\ j < m.num /\ j + 1 = i
      BY <1>1, <1>2, <2>1, <2>4
    <3> HIDE DEF j
    <3>2. n.pages[j] = m.pages[i] /\ n.bytes[j] = m.bytes[i]
      BY <1>3, <3>1
    <3>3. j \in Used(n)
      BY <2>1, <3>1, <3>2 DEF Used
    <3> QED BY <2>4, <3>2, <3>3 DEF j
  <2> QED BY <1>2, <2>1, <2>2, <2>3, <2>4
<1>8. Listed(n) \subseteq Listed(m) \cup {p}
  <2> SUFFICES ASSUME NEW i \in Used(n) PROVE n.pages[i] \in Listed(m) \cup {p}
    BY DEF Listed
  <2>1. CASE i = s
    BY <1>3, <2>1
  <2>2. CASE i < s /\ i \in Used(m)
    BY <1>1, <1>2, <1>3, <2>2 DEF Listed
  <2>3. CASE i > s /\ i < m.num /\ i + 1 \in Used(m)
    BY <1>3, <1>5, <2>3 DEF Listed
  <2> QED BY <1>5, <2>1, <2>2, <2>3
<1>9. Listed(m) \subseteq Listed(n) \cup n.lost
  <2> SUFFICES ASSUME NEW i \in Used(m) PROVE m.pages[i] \in Listed(n) \cup n.lost
    BY DEF Listed
  <2> QED BY <1>7 DEF Listed
<1>10. Marked(n) \subseteq Marked(m)
  <2> SUFFICES ASSUME NEW a \in Marked(n) PROVE a \in Marked(m)
    OBVIOUS
  <2>1. a \in Addresses
    BY DEF Marked
  <2>2. PICK i \in Used(n) : n.pages[i] = PageOf(a) /\ Offset(a) \in n.bytes[i]
    BY DEF Marked
  <2>3. CASE i = s
    BY <1>3, <2>2, <2>3
  <2>4. CASE i < s /\ i \in Used(m)
    <3>1. n.pages[i] = m.pages[i] /\ n.bytes[i] = m.bytes[i]
      BY <1>1, <1>2, <1>3, <2>4
    <3> QED BY <2>1, <2>2, <2>4, <3>1 DEF Marked
  <2>5. CASE i > s /\ i < m.num /\ i + 1 \in Used(m)
    <3>1. n.pages[i] = m.pages[i + 1] /\ n.bytes[i] = m.bytes[i + 1]
      BY <1>3, <1>5, <2>5
    <3> QED BY <2>1, <2>2, <2>5, <3>1 DEF Marked
  <2> QED BY <1>5, <2>3, <2>4, <2>5
<1>11. \A a \in Marked(m) : a \in Marked(n) \/ PageOf(a) \in n.lost
  <2> SUFFICES ASSUME NEW a \in Marked(m) PROVE a \in Marked(n) \/ PageOf(a) \in n.lost
    OBVIOUS
  <2>1. a \in Addresses
    BY DEF Marked
  <2>2. PICK i \in Used(m) : m.pages[i] = PageOf(a) /\ Offset(a) \in m.bytes[i]
    BY DEF Marked
  <2>3. \/ m.pages[i] \in n.lost
        \/ \E j \in Used(n) : n.pages[j] = m.pages[i] /\ n.bytes[j] = m.bytes[i]
    BY <1>7
  <2> QED BY <2>1, <2>2, <2>3 DEF Marked
<1>12. MapOK(n)
  <2>1. n.part \subseteq Listed(n) \cup n.lost
    <3>1. m.part \subseteq Listed(m) \cup m.lost
      BY DEF MapOK
    <3>2. p \in Listed(n)
      BY <1>3, <1>6 DEF Listed
    <3> QED BY <1>3, <1>9, <3>1, <3>2
  <2>2. Listed(n) \subseteq n.part \cup n.full
    BY <1>3, <1>8 DEF MapOK
  <2>3. ASSUME NEW i \in Slots, NEW j \in Slots, i < j, n.pages[j] # Unused
        PROVE  n.pages[i] < n.pages[j]
    <3>1. j \in Used(n)
      BY <2>3 DEF Used
    <3>2. CASE j = s
      <4>1. i \in Nat /\ i < s /\ i < m.num /\ i # s
        BY <1>1, <1>2, <2>3, <3>2
      <4>2. n.pages[i] = m.pages[i] /\ n.pages[j] = p
        BY <1>3, <3>2, <4>1
      <4> QED BY <1>2, <4>1, <4>2
    <3>3. CASE j < s /\ j \in Used(m)
      <4>1. n.pages[i] = m.pages[i] /\ n.pages[j] = m.pages[j]
        BY <1>1, <1>2, <1>3, <2>3, <3>3
      <4> QED BY <1>1, <2>3, <3>3, <4>1
    <3>4. CASE j > s /\ j < m.num /\ j + 1 \in Used(m)
      <4>1. n.pages[j] = m.pages[j + 1] /\ j + 1 \in Slots /\ j + 1 < m.num /\ m.pages[j + 1] < Unused
        BY <1>1, <1>3, <3>4
      <4>2. CASE i = s
        BY <1>1, <1>2, <1>3, <1>4, <3>4, <4>1, <4>2
      <4>3. CASE i < s
        <5>1. n.pages[i] = m.pages[i]
          BY <1>1, <1>2, <1>3, <4>3
        <5> QED BY <1>1, <1>2, <2>3, <4>1, <4>3, <5>1
      <4>4. CASE i > s
        <5>1. n.pages[i] = m.pages[i + 1] /\ i + 1 \in Slots
          BY <1>1, <1>2, <1>3, <2>3, <3>4, <4>4
        <5>2. i + 1 < j + 1
          BY <1>1, <2>3
        <5> QED BY <1>1, <4>1, <5>1, <5>2
      <4> QED BY <1>1, <1>2, <4>2, <4>3, <4>4
    <3> QED BY <1>5, <3>1, <3>2, <3>3, <3>4
  <2>4. \A i \in Used(n) : i < n.num
    BY <1>1, <1>2, <1>3, <1>5
  <2>5. ASSUME n.lost = {}, NEW i \in Slots, i < n.num PROVE i \in Used(n)
    <3>1. m.lost = {} /\ Overwritten(m, s) = {}
      BY <1>3, <2>5
    <3>2. \A t \in Slots : t < m.num => t \in Used(m)
      BY <3>1 DEF MapOK
    <3>3. s = m.num
      <4> SUFFICES ASSUME s < m.num PROVE FALSE
        BY <1>1, <1>2
      <4>1. PageIn(m, s) # Unused
        BY <1>1, <1>2, <3>2 DEF Used
      <4> QED BY <3>1, <4>1 DEF Overwritten
    <3>4. CASE i = s
      BY <1>6, <3>4
    <3>5. CASE i < s
      <4>1. i # s /\ i < m.num
        BY <1>1, <1>2, <3>3, <3>5
      <4>2. n.pages[i] = m.pages[i] /\ i \in Used(m)
        BY <1>3, <3>2, <3>5, <4>1
      <4> QED BY <4>2 DEF Used
    <3> QED BY <1>1, <1>2, <1>3, <2>5, <3>3, <3>4, <3>5
  <2> QED BY <1>3, <2>1, <2>2, <2>3, <2>4, <2>5 DEF MapOK
<1>13. Extends(m, n, {})
  BY <1>3, <1>10, <1>11, <1>12 DEF Extends
<1> QED BY <1>3, <1>6, <1>13 DEF n

WithBytes(m, s, offsets) == [m EXCEPT !.bytes[s] = @ \cup offsets]

(* Setting the bits of addresses of the page of a slot marks these addresses. *)
LEMMA WithBytesExtends ==
  ASSUME NEW m, MapOK(m), NEW s \in Used(m), NEW addresses \in SUBSET Addresses,
         \A a \in addresses : PageOf(a) = m.pages[s]
  PROVE  Extends(m, WithBytes(m, s, {Offset(a) : a \in addresses}), addresses)
<1> DEFINE new == {Offset(a) : a \in addresses}
           n == WithBytes(m, s, new)
<1>1. /\ m \in Maps /\ m.bytes \in [Slots -> SUBSET (0..(PageSize - 1))]
      /\ m = [full |-> m.full, part |-> m.part, pages |-> m.pages, bytes |-> m.bytes,
              num |-> m.num, lost |-> m.lost]
  BY DEF MapOK, Maps
<1>2. s \in Slots /\ Used(m) \subseteq Slots
  BY MapFacts
<1>3. new \in SUBSET (0..(PageSize - 1))
  BY AddressFacts, PageFacts
<1>4. n = [full |-> m.full, part |-> m.part, pages |-> m.pages, num |-> m.num, lost |-> m.lost,
           bytes |-> [m.bytes EXCEPT ![s] = m.bytes[s] \cup new]]
  <2> DEFINE B == [m.bytes EXCEPT ![s] = m.bytes[s] \cup new]
  <2>1. n = [m EXCEPT !.bytes = B]
    BY DEF WithBytes
  <2> HIDE DEF new, B, n
  <2>2. n = [full |-> m.full, part |-> m.part, pages |-> m.pages, num |-> m.num,
             lost |-> m.lost, bytes |-> B]
    BY <1>1, <2>1
  <2> QED BY <2>2 DEF B
<1> HIDE DEF n
<1>5. /\ n.full = m.full /\ n.part = m.part /\ n.pages = m.pages /\ n.num = m.num
      /\ n.bytes = [m.bytes EXCEPT ![s] = m.bytes[s] \cup new] /\ n.lost = m.lost
  BY <1>4
<1>6. n.bytes[s] = m.bytes[s] \cup new /\ \A t \in Used(m) : t # s => n.bytes[t] = m.bytes[t]
  <2> HIDE DEF new
  <2> QED BY <1>1, <1>2, <1>5
<1>7. Used(n) = Used(m) /\ Listed(n) = Listed(m)
  BY <1>5 DEF Used, Listed
<1>8. Marked(n) = Marked(m) \cup addresses
  <2>1. ASSUME NEW a \in Marked(n) PROVE a \in Marked(m) \cup addresses
    <3>1. PICK t \in Used(n) : n.pages[t] = PageOf(a) /\ Offset(a) \in n.bytes[t]
      BY <2>1 DEF Marked
    <3>2. a \in Addresses
      BY <2>1 DEF Marked
    <3>3. CASE Offset(a) \in m.bytes[t]
      BY <1>5, <1>7, <3>1, <3>2, <3>3 DEF Marked
    <3>4. CASE Offset(a) \notin m.bytes[t]
      <4>1. t = s /\ Offset(a) \in new
        <5> HIDE DEF new
        <5> QED BY <1>6, <1>7, <3>1, <3>4
      <4>2. PICK b \in addresses : Offset(a) = Offset(b)
        BY <4>1
      <4>3. PageOf(b) = PageOf(a)
        BY <1>5, <3>1, <4>1
      <4>4. a \in Nat /\ b \in Nat
        BY <3>2, AddressFacts
      <4>5. a = PageOf(a) * PageSize + Offset(a) /\ b = PageOf(b) * PageSize + Offset(b)
        BY <4>4, PageFacts
      <4>6. a = b
        BY <4>2, <4>3, <4>5
      <4> QED BY <4>6
    <3> QED BY <3>3, <3>4
  <2>2. ASSUME NEW a \in Marked(m) PROVE a \in Marked(n)
    <3>1. PICK t \in Used(m) : m.pages[t] = PageOf(a) /\ Offset(a) \in m.bytes[t]
      BY <2>2 DEF Marked
    <3>2. a \in Addresses
      BY <2>2 DEF Marked
    <3>3. Offset(a) \in n.bytes[t]
      <4> HIDE DEF new
      <4> QED BY <1>6, <3>1
    <3> QED BY <1>5, <1>7, <3>1, <3>2, <3>3 DEF Marked
  <2>3. ASSUME NEW a \in addresses PROVE a \in Marked(n)
    BY <1>5, <1>6, <1>7 DEF Marked
  <2> QED BY <2>1, <2>2, <2>3
<1>9. MapOK(n)
  <2>1. [m.bytes EXCEPT ![s] = m.bytes[s] \cup new] \in [Slots -> SUBSET (0..(PageSize - 1))]
    <3> HIDE DEF new
    <3> QED BY <1>1, <1>2, <1>3
  <2>2. n \in Maps
    <3> HIDE DEF new
    <3> QED BY <1>1, <1>4, <2>1 DEF Maps
  <2> QED BY <1>5, <1>7, <2>2 DEF MapOK
<1> QED BY <1>5, <1>8, <1>9 DEF Extends, n

(* A call that changes nothing: an assertion failed, no slot is free, or the count has
   passed the slots used. *)
Gives(m, r) ==
  /\ r.result \in {"assert", "full", "beyond"} /\ r.map = m
  /\ r.result = "full" => \A s \in Slots : m.pages[s] # Unused
  /\ r.result = "beyond" => m.lost # {}

(* add_partial_readonly_page() marks the addresses it is given, or changes nothing. *)
LEMMA AddPartialOutcome ==
  ASSUME NEW m, MapOK(m), NEW start \in Addresses, NEW stop \in Nat,
         start <= stop, stop <= Space, stop <= PageOf(start) * PageSize + PageSize
  PROVE  LET r == AddPartial(m, start, stop)
         IN  Gives(m, r) \/ (r.result = "ok" /\ Extends(m, r.map, start..(stop - 1)))
<1> DEFINE p == PageOf(start)
           s == Lookup(m, p)
           n == IF PageIn(m, s) = p THEN m ELSE WithPage(m, p, s)
           A == start..(stop - 1)
           r == AddPartial(m, start, stop)
           P == p * PageSize
           Goal == Gives(m, r) \/ (r.result = "ok" /\ Extends(m, r.map, A))
<1> SUFFICES Goal
  OBVIOUS
<1>1. /\ p \in Pages /\ p \in Nat /\ start \in Nat /\ P \in Nat /\ P <= start
      /\ PageSize \in Nat \ {0} /\ Space \in Nat
  <2>1. p \in Pages /\ start \in Nat /\ Space \in Nat
    BY AddressFacts
  <2>2. /\ p \in Nat /\ P \in Nat /\ PageSize \in Nat \ {0} /\ Offset(start) \in 0..(PageSize - 1)
        /\ start = P + Offset(start)
    BY <2>1, PageFacts
  <2> HIDE DEF P, p
  <2> QED BY <2>1, <2>2
<1>2. /\ A \in SUBSET Addresses
      /\ \A a \in A : a \in Nat /\ PageOf(a) = p /\ Offset(a) = a - P
  <2>1. P + PageSize \in Nat /\ stop <= P + PageSize
    BY <1>1
  <2> HIDE DEF p
  <2>2. ASSUME NEW a \in A
        PROVE  a \in Addresses /\ a \in Nat /\ PageOf(a) = p /\ Offset(a) = a - P
    <3>1. a \in Nat /\ P <= a /\ a < P + PageSize /\ a < Space
      <4> HIDE DEF P
      <4> QED BY <1>1, <2>1
    <3>2. a \in Addresses
      BY <1>1, <3>1 DEF Addresses
    <3> QED BY <1>1, <3>1, <3>2, PageIs
  <2> QED BY <2>2
<1>3. {a - P : a \in A} = {Offset(a) : a \in A}
  <2> HIDE DEF A, P, p
  <2> QED BY <1>2
<1>4. r = IF TableFull(m, p, s) THEN [map |-> m, result |-> "full"]
          ELSE IF PageIn(m, s) # p /\ m.num = MaxPartial THEN [map |-> m, result |-> "beyond"]
          ELSE [map |-> WithBytes(n, s, {a - P : a \in A}), result |-> "ok"]
  <2>1. ~(stop < start)
    BY <1>1
  <2> QED BY <2>1 DEF AddPartial, WithBytes
<1>5. Lands(m, p, s)
  BY <1>1, LookupLands
<1>6. TableFull(m, p, s) <=> (s = MaxPartial \/ (PageIn(m, s) # p /\ m.pages[MaxPartial - 1] # Unused))
  BY DEF TableFull
<1>7. /\ MaxPartial \in Nat \ {0} /\ Slots = 0..(MaxPartial - 1) /\ m.num \in Nat
      /\ m.num <= MaxPartial /\ p < Unused /\ Unused \in Nat
      /\ \A t \in Slots : t \in Nat /\ m.pages[t] \in Nat /\ m.pages[t] <= Unused
      /\ \A t \in Slots : PageIn(m, t) = m.pages[t]
  BY <1>1, MapFacts DEF Pages
<1> HIDE DEF r, s, n, p, A, P
<1>8. CASE TableFull(m, p, s)
  <2>1. r.map = m /\ r.result = "full"
    BY <1>4, <1>8
  <2>2. ASSUME s = MaxPartial, NEW t \in Slots PROVE m.pages[t] # Unused
    <3>1. t \in 0..(m.num - 1) /\ t < s
      BY <1>5, <1>7, <2>2 DEF Lands
    <3>2. m.pages[t] < p
      BY <1>5, <3>1 DEF Lands
    <3> QED BY <1>1, <1>7, <3>2
  <2>3. ASSUME m.pages[MaxPartial - 1] # Unused, NEW t \in Slots PROVE m.pages[t] # Unused
    <3>1. MaxPartial - 1 \in Slots /\ (t < MaxPartial - 1 \/ t = MaxPartial - 1)
      BY <1>7
    <3>2. t < MaxPartial - 1 => m.pages[t] < m.pages[MaxPartial - 1]
      BY <2>3, <3>1 DEF MapOK
    <3> QED BY <1>7, <2>3, <3>1, <3>2
  <2> QED BY <1>6, <1>8, <2>1, <2>2, <2>3 DEF Gives
<1>9. CASE ~TableFull(m, p, s) /\ PageIn(m, s) # p /\ m.num = MaxPartial
  <2>1. r.map = m /\ r.result = "beyond"
    BY <1>4, <1>9
  <2>2. MaxPartial - 1 \in Slots /\ m.pages[MaxPartial - 1] = Unused /\ MaxPartial - 1 < m.num
    BY <1>6, <1>7, <1>9
  <2>3. m.lost # {}
    BY <2>2 DEF MapOK, Used
  <2> QED BY <2>1, <2>3 DEF Gives
<1>10. CASE ~TableFull(m, p, s) /\ ~(PageIn(m, s) # p /\ m.num = MaxPartial)
  <2>1. r.map = WithBytes(n, s, {Offset(a) : a \in A}) /\ r.result = "ok"
    BY <1>3, <1>4, <1>10
  <2>2. Extends(m, n, {}) /\ s \in Used(n) /\ n.pages[s] = p
    <3>1. CASE PageIn(m, s) # p
      <4>1. m.num < MaxPartial
        BY <1>7, <1>10, <3>1
      <4>2. n = WithPage(m, p, s)
        BY <3>1 DEF n
      <4> QED BY <1>1, <1>5, <3>1, <4>1, <4>2, WithPageExtends
    <3>2. CASE PageIn(m, s) = p
      <4>1. n = m
        BY <3>2 DEF n
      <4>2. s \in Slots /\ m.pages[s] = p
        BY <1>7, <3>2 DEF PageIn
      <4>3. s \in Used(m)
        BY <1>7, <4>2 DEF Used
      <4> QED BY <4>1, <4>2, <4>3 DEF Extends
    <3> QED BY <3>1, <3>2
  <2>3. MapOK(n) /\ \A a \in A : PageOf(a) = n.pages[s]
    BY <1>2, <2>2 DEF Extends
  <2>4. Extends(n, r.map, A)
    BY <1>2, <2>1, <2>2, <2>3, WithBytesExtends
  <2>5. {} \cup A = A
    OBVIOUS
  <2>6. Extends(m, r.map, A)
    BY <2>2, <2>4, <2>5, ExtendsTrans
  <2> QED BY <2>1, <2>6
<1> QED BY <1>8, <1>9, <1>10

(* Addresses that do not reach the top of the address space do not wrap. *)
LEMMA NoWrap ==
  /\ \A a \in Nat : a < Space => a % Space = a
  /\ Space % Space = 0
<1>1. Space \in Nat \ {0}
  BY AddressFacts
<1>2. \A a \in Nat : /\ a \div Space \in Nat /\ a % Space \in 0..(Space - 1)
                     /\ a = Space * (a \div Space) + (a % Space)
  BY <1>1
<1>3. \A d \in Nat : d # 0 => Space * d >= Space
  <2> SUFFICES ASSUME NEW d \in Nat, d # 0 PROVE Space * d >= Space
    OBVIOUS
  <2>1. PICK e \in Nat : d = e + 1
    <3>1. d - 1 \in Nat /\ d = (d - 1) + 1
      OBVIOUS
    <3> QED BY <3>1
  <2>2. Space * d = Space * e + Space /\ Space * e \in Nat
    BY <1>1, <2>1
  <2> QED BY <1>1, <2>2
<1>4. ASSUME NEW a \in Nat, a < Space PROVE a % Space = a
  <2> DEFINE d == a \div Space
             x == a % Space
             y == Space * d
  <2>1. d \in Nat /\ x \in 0..(Space - 1) /\ a = y + x /\ (d # 0 => y >= Space) /\ (d = 0 => y = 0)
    BY <1>1, <1>2, <1>3
  <2>2. y \in Int
    BY <1>1, <2>1
  <2> HIDE DEF d, x, y
  <2>3. x = a
    BY <1>1, <1>4, <2>1, <2>2
  <2> QED BY <2>3 DEF x
<1>5. Space % Space = 0
  <2> DEFINE d == Space \div Space
             x == Space % Space
             y == Space * d
  <2>1. d \in Nat /\ x \in 0..(Space - 1) /\ Space = y + x /\ (d # 0 => y >= Space) /\ (d = 0 => y = 0)
    BY <1>1, <1>2, <1>3
  <2>2. y \in Int
    BY <1>1, <2>1
  <2> HIDE DEF d, x, y
  <2>3. x = 0
    BY <1>1, <2>1, <2>2
  <2> QED BY <2>3 DEF x
<1> QED BY <1>4, <1>5

(* A map is an extension of itself by nothing. *)
LEMMA ExtendsSelf ==
  ASSUME NEW m, MapOK(m)
  PROVE  Extends(m, m, {})
BY DEF Extends

(* The part of a region before the first page it covers from its start. *)
LEMMA FirstPartOutcome ==
  ASSUME NEW m, MapOK(m), NEW base \in Addresses, NEW top \in Addresses, base <= top
  PROVE  LET f    == FirstPart(m, base, top)
             rest == BaseAfter(base, top)
         IN  \/ Gives(m, f)
             \/ /\ f.result = "ok" /\ rest \in base..top
                /\ Extends(m, f.map, base..(rest - 1))
                /\ ((Offset(base) # 0 /\ rest = top) \/ Offset(rest) = 0)
<1> DEFINE f == FirstPart(m, base, top)
           rest == BaseAfter(base, top)
           p == PageOf(base)
           P == p * PageSize
           E == P + PageSize
           Goal == \/ Gives(m, f)
                   \/ /\ f.result = "ok" /\ rest \in base..top
                      /\ Extends(m, f.map, base..(rest - 1))
                      /\ ((Offset(base) # 0 /\ rest = top) \/ Offset(rest) = 0)
<1> SUFFICES Goal
  OBVIOUS
<1>1. /\ base \in Nat /\ top \in Nat /\ base < Space /\ top < Space /\ Space \in Nat
      /\ p \in Pages
  BY AddressFacts
<1>2. /\ p \in Nat /\ P \in Nat /\ PageSize \in Nat \ {0} /\ Offset(base) \in 0..(PageSize - 1)
      /\ base = P + Offset(base)
  BY <1>1, PageFacts
<1>3. CASE Offset(base) = 0
  <2>1. f.result = "ok" /\ f.map = m /\ rest = base
    BY <1>3 DEF FirstPart, BaseAfter
  <2>2. base..(base - 1) = {}
    BY <1>1
  <2> HIDE DEF f, rest
  <2>3. Extends(m, f.map, base..(rest - 1))
    BY <2>1, <2>2, ExtendsSelf
  <2>4. rest \in base..top
    BY <1>1, <2>1
  <2> QED BY <1>3, <2>1, <2>3, <2>4
<1>4. CASE Offset(base) # 0
  <2> DEFINE stop == Smaller(E % Space, top)
  <2>1. f = AddPartial(m, base, stop) /\ rest = stop
    BY <1>4 DEF FirstPart, BaseAfter
  <2>2. P < base /\ E \in Nat /\ base < E /\ E <= Space
    <3>1. P < base /\ E \in Nat /\ base < E
      <4> HIDE DEF P, p
      <4> QED BY <1>1, <1>2, <1>4
    <3>2. E <= Space
      <4>1. p < NumPages /\ NumPages \in Nat
        BY <1>1, MapAssumption DEF Pages
      <4>2. E <= NumPages * PageSize
        <5> HIDE DEF p
        <5> QED BY <1>2, <4>1, PageOrder
      <4>3. NumPages * PageSize = Space
        BY <4>1, MapAssumption DEF Space
      <4> HIDE DEF E
      <4> QED BY <4>2, <4>3
    <3> QED BY <3>1, <3>2
  <2> HIDE DEF P, E
  <2>3. CASE E = Space
    <3>1. E % Space = 0
      BY <2>3, NoWrap
    <3>2. stop = 0
      BY <1>1, <1>2, <2>2, <3>1 DEF Smaller
    <3>3. stop < base
      BY <1>1, <1>2, <2>2, <3>2
    <3>4. f.result = "assert" /\ f.map = m
      BY <2>1, <3>3 DEF AddPartial
    <3> HIDE DEF f
    <3> QED BY <3>4 DEF Gives
  <2>4. CASE E < Space
    <3>1. E % Space = E
      BY <2>2, <2>4, NoWrap
    <3>2. stop = IF E < top THEN E ELSE top
      BY <3>1 DEF Smaller
    <3> HIDE DEF stop
    <3>3. /\ stop \in Nat /\ base <= stop /\ stop <= top /\ stop <= E /\ stop <= Space
          /\ (stop = top \/ stop = E)
      BY <1>1, <2>2, <3>2
    <3>4. Gives(m, f) \/ (f.result = "ok" /\ Extends(m, f.map, base..(stop - 1)))
      <4>1. stop <= PageOf(base) * PageSize + PageSize
        BY <3>3 DEF E, P
      <4> HIDE DEF f
      <4> QED BY <2>1, <3>3, <4>1, AddPartialOutcome
    <3> HIDE DEF f, p
    <3>5. rest = stop /\ rest \in base..top
      BY <1>1, <2>1, <3>3
    <3>6. rest = E => Offset(rest) = 0
      <4>1. E = (p + 1) * PageSize /\ p + 1 \in Nat
        BY <1>2 DEF E, P
      <4>2. (p + 1) * PageSize <= E /\ E < (p + 1) * PageSize + PageSize
        BY <1>2, <2>2, <4>1
      <4>3. Offset(E) = E - (p + 1) * PageSize
        BY <2>2, <4>1, <4>2, PageIs
      <4>4. E - (p + 1) * PageSize = 0
        BY <2>2, <4>1
      <4> QED BY <4>3, <4>4
    <3> HIDE DEF rest
    <3> QED BY <1>4, <3>3, <3>4, <3>5, <3>6
  <2> QED BY <1>1, <2>2, <2>3, <2>4
<1> QED BY <1>3, <1>4

(* The part of a region in the page where it ends. *)
LEMMA LastPartOutcome ==
  ASSUME NEW m, MapOK(m), NEW top \in Addresses
  PROVE  LET l == LastPart(m, top)
         IN  \/ Gives(m, l)
             \/ l.result = "ok" /\ Extends(m, l.map, (PageOf(top) * PageSize)..(top - 1))
<1> DEFINE l == LastPart(m, top)
           p == PageOf(top)
           P == p * PageSize
           Goal == Gives(m, l) \/ (l.result = "ok" /\ Extends(m, l.map, P..(top - 1)))
<1> SUFFICES Goal
  OBVIOUS
<1>1. top \in Nat /\ top < Space /\ Space \in Nat /\ p \in Pages
  BY AddressFacts
<1>2. /\ p \in Nat /\ P \in Nat /\ PageSize \in Nat \ {0} /\ Offset(top) \in 0..(PageSize - 1)
      /\ top = P + Offset(top)
  BY <1>1, PageFacts
<1>3. CASE Offset(top) = 0
  <2>1. l.result = "ok" /\ l.map = m
    BY <1>3 DEF LastPart
  <2>2. P..(top - 1) = {}
    <3> HIDE DEF P
    <3> QED BY <1>1, <1>2, <1>3
  <2> HIDE DEF l, P
  <2> QED BY <2>1, <2>2, ExtendsSelf
<1>4. CASE Offset(top) # 0
  <2>1. l = AddPartial(m, P, top)
    BY <1>4 DEF LastPart
  <2>2. P < top /\ P <= top /\ top <= Space /\ top <= P + PageSize
    <3> HIDE DEF P
    <3> QED BY <1>1, <1>2, <1>4
  <2>3. P \in Addresses /\ PageOf(P) = p
    <3>1. P <= P /\ P < P + PageSize
      <4> HIDE DEF P
      <4> QED BY <1>2
    <3>2. PageOf(P) = p
      <4> HIDE DEF p
      <4> QED BY <1>2, <3>1, PageIs
    <3>3. P \in Addresses
      <4> HIDE DEF P
      <4> QED BY <1>1, <1>2, <2>2 DEF Addresses
    <3> QED BY <3>2, <3>3
  <2> HIDE DEF l, P, p
  <2>4. top <= PageOf(P) * PageSize + PageSize
    BY <2>2, <2>3 DEF P
  <2> QED BY <1>1, <2>1, <2>2, <2>3, <2>4, AddPartialOutcome
<1> QED BY <1>3, <1>4

(* The pages in between are read-only as a whole; those in the table stay there. *)
LEMMA AddFullOutcome ==
  ASSUME NEW m, MapOK(m), NEW first \in Nat, NEW last \in Int, last < NumPages
  PROVE  LET n == AddFull(m, first, last)
         IN  /\ MapOK(n) /\ n.full = m.full \cup (first..last)
             /\ Marked(n) = Marked(m) /\ n.lost = m.lost
<1> DEFINE n == AddFull(m, first, last)
<1>1. m \in Maps /\ m.full \subseteq Pages /\ m.part \subseteq Pages
  BY DEF MapOK, Maps
<1>2. first..last \subseteq Pages
  BY MapAssumption DEF Pages
<1>3. n = [full |-> m.full \cup (first..last), part |-> m.part \ (first..last),
           pages |-> m.pages, bytes |-> m.bytes, num |-> m.num, lost |-> m.lost]
  <2> DEFINE F == m.full \cup (first..last)
             G == m.part \ (first..last)
  <2>1. m = [full |-> m.full, part |-> m.part, pages |-> m.pages, bytes |-> m.bytes,
             num |-> m.num, lost |-> m.lost]
    BY DEF MapOK, Maps
  <2>2. n = [m EXCEPT !.full = F, !.part = G]
    BY DEF AddFull
  <2> HIDE DEF n, F, G
  <2>3. n = [full |-> F, part |-> G, pages |-> m.pages, bytes |-> m.bytes, num |-> m.num,
             lost |-> m.lost]
    BY <2>1, <2>2
  <2> QED BY <2>3 DEF F, G
<1> HIDE DEF n
<1>4. /\ n.full = m.full \cup (first..last) /\ n.part = m.part \ (first..last)
      /\ n.pages = m.pages /\ n.bytes = m.bytes /\ n.num = m.num /\ n.lost = m.lost
  BY <1>3
<1>5. Used(n) = Used(m) /\ Listed(n) = Listed(m) /\ Marked(n) = Marked(m)
  BY <1>4 DEF Used, Listed, Marked
<1>6. n \in Maps
  BY <1>1, <1>2, <1>3 DEF Maps
<1>7. MapOK(n)
  BY <1>4, <1>5, <1>6 DEF MapOK
<1> QED BY <1>4, <1>5, <1>7 DEF n

(* n is m after a region was added, entirely if ok. *)
RegionAdded(m, n, ok, base, top) ==
  /\ MapOK(n) /\ m.full \subseteq n.full /\ m.lost \subseteq n.lost
  /\ Marked(n) \subseteq Marked(m) \cup base..(top - 1)
  /\ \A a \in Marked(m) : a \in Marked(n) \/ PageOf(a) \in n.lost
  /\ \A a \in Addresses :
       PageOf(a) \in n.full => PageOf(a) \in m.full \/ (ok /\ a \in base..(top - 1))
  /\ ok => \A a \in base..(top - 1) :
             PageOf(a) \in n.full \/ a \in Marked(n) \/ PageOf(a) \in n.lost

(* An extension by part of a region is that region added in part. *)
LEMMA ExtendsAdds ==
  ASSUME NEW m, NEW n, NEW base, NEW top, NEW A, Extends(m, n, A), A \subseteq base..(top - 1)
  PROVE  RegionAdded(m, n, FALSE, base, top)
BY DEF Extends, RegionAdded

(* binrec_add_readonly_region(): only addresses of the region are marked, or pages
   within it, all of them if it returns true but those of pages written over; and it
   returns false for want of a slot only when none is free. *)
LEMMA RegionOutcome ==
  ASSUME NEW m, MapOK(m), NEW base \in Addresses, NEW size \in Nat, base + size < Space
  PROVE  LET r == AddRegion(m, base, size)
         IN  /\ r.result \in {"ok", "full", "assert", "beyond"}
             /\ RegionAdded(m, r.map, r.result = "ok", base, base + size)
             /\ r.result = "full" => \A s \in Slots : r.map.pages[s] # Unused
             /\ r.result = "beyond" => r.map.lost # {}
<1> DEFINE r == AddRegion(m, base, size)
           top == base + size
           f == FirstPart(m, base, top)
           rest == BaseAfter(base, top)
           l == LastPart(f.map, top)
           p == PageOf(rest)
           q == PageOf(top)
           P == p * PageSize
           Q == q * PageSize
           n == AddFull(l.map, p, q - 1)
           Goal == /\ r.result \in {"ok", "full", "assert", "beyond"}
                   /\ RegionAdded(m, r.map, r.result = "ok", base, top)
                   /\ r.result = "full" => \A s \in Slots : r.map.pages[s] # Unused
                   /\ r.result = "beyond" => r.map.lost # {}
<1> SUFFICES Goal
  OBVIOUS
<1>1. /\ base \in Nat /\ top \in Nat /\ top < Space /\ Space \in Nat
      /\ base <= top /\ top \in Addresses
  <2>1. base \in Nat /\ Space \in Nat
    BY AddressFacts
  <2> QED BY <2>1 DEF Addresses
<1>2. r = IF f.result # "ok" \/ (Offset(base) # 0 /\ rest = top) THEN f
          ELSE IF l.result # "ok" THEN l ELSE [map |-> n, result |-> "ok"]
  <2>1. (base + size) % Space = top
    BY <1>1, NoWrap
  <2> HIDE DEF top
  <2> QED BY <2>1 DEF AddRegion
<1>3. \/ Gives(m, f)
      \/ /\ f.result = "ok" /\ rest \in base..top
         /\ Extends(m, f.map, base..(rest - 1))
         /\ ((Offset(base) # 0 /\ rest = top) \/ Offset(rest) = 0)
  <2> HIDE DEF top
  <2> QED BY <1>1, FirstPartOutcome
<1> HIDE DEF top, f, rest, l, p, q, n, r
<1>4. CASE f.result # "ok"
  <2>1. Gives(m, f) /\ r = f
    BY <1>2, <1>3, <1>4
  <2>2. f.result \in {"assert", "full", "beyond"} /\ f.map = m
    BY <2>1 DEF Gives
  <2>3. RegionAdded(m, r.map, FALSE, base, top)
    BY <2>1, <2>2 DEF RegionAdded
  <2> QED BY <2>1, <2>2, <2>3 DEF Gives
<1>5. CASE f.result = "ok"
  <2>1. /\ rest \in Nat /\ base <= rest /\ rest <= top
        /\ Extends(m, f.map, base..(rest - 1))
        /\ ((Offset(base) # 0 /\ rest = top) \/ Offset(rest) = 0)
    BY <1>1, <1>3, <1>5 DEF Gives
  <2>2. MapOK(f.map)
    BY <2>1 DEF Extends
  <2>3. base..(rest - 1) \subseteq base..(top - 1)
    BY <1>1, <2>1
  <2>4. CASE Offset(base) # 0 /\ rest = top
    <3>1. r = f
      BY <1>2, <2>4
    <3>2. RegionAdded(m, f.map, TRUE, base, top)
      BY <2>1, <2>4 DEF RegionAdded, Extends
    <3> QED BY <1>5, <3>1, <3>2
  <2>5. CASE ~(Offset(base) # 0 /\ rest = top)
    <3>1. Offset(rest) = 0
      BY <2>1, <2>5
    <3>2. p \in Nat /\ P \in Nat /\ rest = P /\ PageSize \in Nat \ {0}
      <4>1. /\ p \in Nat /\ P \in Nat /\ PageSize \in Nat \ {0}
            /\ rest = P + Offset(rest)
        BY <2>1, PageFacts DEF p
      <4> HIDE DEF P
      <4> QED BY <3>1, <4>1
    <3>3. /\ q \in Nat /\ Q \in Nat /\ q \in Pages /\ top = Q + Offset(top)
          /\ Offset(top) \in 0..(PageSize - 1) /\ p <= q
      BY <1>1, <2>1, PageFacts, AddressFacts DEF p, q
    <3>4. Gives(f.map, l) \/ (l.result = "ok" /\ Extends(f.map, l.map, Q..(top - 1)))
      BY <1>1, <2>2, LastPartOutcome DEF l, q
    <3>5. CASE l.result # "ok"
      <4>1. r = l /\ Gives(f.map, l)
        BY <1>2, <1>5, <2>5, <3>4, <3>5
      <4>2. RegionAdded(m, f.map, FALSE, base, top)
        BY <2>1, <2>3, ExtendsAdds
      <4> QED BY <4>1, <4>2 DEF Gives
    <3>6. CASE l.result = "ok"
      <4> DEFINE A == base..(rest - 1) \cup Q..(top - 1)
      <4>1. r = [map |-> n, result |-> "ok"]
        BY <1>2, <1>5, <2>5, <3>6
      <4>2. Extends(m, l.map, A)
        BY <2>1, <3>4, <3>6, ExtendsTrans DEF Gives
      <4>3. /\ MapOK(n) /\ n.full = m.full \cup (p..(q - 1)) /\ m.lost \subseteq n.lost
            /\ Marked(n) = Marked(l.map) /\ n.lost = l.map.lost
        <5>1. q - 1 \in Int /\ q - 1 < NumPages
          BY <3>3, MapAssumption DEF Pages
        <5>2. MapOK(l.map) /\ l.map.full = m.full /\ m.lost \subseteq l.map.lost
          BY <4>2 DEF Extends
        <5> QED BY <3>2, <5>1, <5>2, AddFullOutcome DEF n
      <4>4. Q <= top
        <5> HIDE DEF Q
        <5> QED BY <1>1, <3>2, <3>3
      <4>5. A \subseteq base..(top - 1)
        <5>1. P <= Q
          <6> HIDE DEF P, Q
          <6>1. p * PageSize <= q * PageSize
            BY <3>2, <3>3, PageOrder
          <6> QED BY <6>1 DEF P, Q
        <5> HIDE DEF P, Q
        <5> QED BY <1>1, <2>1, <2>3, <3>2, <3>3, <5>1
      <4>6. /\ Marked(n) \subseteq Marked(m) \cup base..(top - 1)
            /\ \A a \in Marked(m) \cup A : a \in Marked(n) \/ PageOf(a) \in n.lost
        <5> HIDE DEF A
        <5> QED BY <4>2, <4>3, <4>5 DEF Extends
      <4>7. ASSUME NEW a \in Addresses, PageOf(a) \in p..(q - 1) PROVE a \in base..(top - 1)
        <5> DEFINE d == PageOf(a)
                   D == d * PageSize
        <5>1. /\ a \in Nat /\ d \in Nat /\ D \in Nat /\ a = D + Offset(a)
              /\ Offset(a) \in 0..(PageSize - 1)
          BY AddressFacts, PageFacts
        <5>2. p <= d /\ d < q
          BY <3>2, <3>3, <4>7, <5>1
        <5>3. P <= D /\ D + PageSize <= Q
          <6> HIDE DEF d
          <6> QED BY <3>2, <3>3, <5>1, <5>2, PageOrder
        <5> HIDE DEF d, D, P, Q
        <5> QED BY <1>1, <2>1, <3>2, <3>3, <4>4, <5>1, <5>3
      <4>8. ASSUME NEW a \in base..(top - 1)
            PROVE  PageOf(a) \in n.full \/ a \in Marked(n) \/ PageOf(a) \in n.lost
        <5>1. a \in Nat /\ base <= a /\ a < top
          BY <1>1
        <5>2. CASE a < rest
          <6>1. a \in A
            BY <2>1, <5>1, <5>2
          <6> HIDE DEF A
          <6> QED BY <4>6, <6>1
        <5>3. CASE Q <= a
          <6>1. a \in Q..(top - 1)
            <7> HIDE DEF Q
            <7> QED BY <1>1, <3>3, <5>1, <5>3
          <6>2. a \in A
            BY <6>1
          <6> HIDE DEF A
          <6> QED BY <4>6, <6>2
        <5>4. CASE rest <= a /\ a < Q
          <6> DEFINE d == PageOf(a)
                     D == d * PageSize
          <6>1. d \in Nat /\ D \in Nat /\ a = D + Offset(a) /\ Offset(a) \in 0..(PageSize - 1)
            BY <5>1, PageFacts
          <6>2. p <= d
            <7>1. PageOf(rest) <= PageOf(a)
              BY <2>1, <5>1, <5>4, AddressFacts
            <7> QED BY <7>1 DEF p
          <6>3. D < Q
            <7> HIDE DEF D, Q, d
            <7> QED BY <3>2, <3>3, <5>1, <5>4, <6>1
          <6>4. d < q
            <7> HIDE DEF d
            <7> QED BY <3>3, <6>1, <6>3, PageOrder
          <6>5. d \in p..(q - 1)
            <7> HIDE DEF d
            <7> QED BY <3>2, <3>3, <6>1, <6>2, <6>4
          <6> QED BY <4>3, <6>5
        <5>5. a < rest \/ Q <= a \/ (rest <= a /\ a < Q)
          <6> HIDE DEF Q
          <6> QED BY <2>1, <3>3, <5>1
        <5> QED BY <5>2, <5>3, <5>4, <5>5
      <4>9. RegionAdded(m, n, TRUE, base, top)
        <5> HIDE DEF A
        <5> QED BY <4>3, <4>6, <4>7, <4>8 DEF RegionAdded
      <4> QED BY <4>1, <4>9
    <3> QED BY <3>5, <3>6
  <2> QED BY <2>4, <2>5
<1> HIDE DEF Goal
<1> QED BY <1>4, <1>5

Cleaned(m) == [Empty EXCEPT !.bytes = m.bytes]

(* Clearing the map leaves the bytes of the slots as they are, which none uses. *)
LEMMA CleanedFacts ==
  ASSUME NEW m, m.bytes \in [Slots -> SUBSET (0..(PageSize - 1))]
  PROVE  MapOK(Cleaned(m)) /\ Cleaned(m).full = {} /\ Marked(Cleaned(m)) = {}
<1> DEFINE n == Cleaned(m)
           u == [s \in Slots |-> Unused]
           z == [s \in Slots |-> {}]
<1>0. Empty = [full |-> {}, part |-> {}, pages |-> u, bytes |-> z, num |-> 0, lost |-> {}]
  BY DEF Empty
<1>1. Empty \in Maps
  BY <1>0, MapAssumption DEF Maps
<1> HIDE DEF z, u
<1>2. /\ n.part = {} /\ n.pages = u /\ n.full = {} /\ n.num = 0 /\ n.lost = {}
      /\ n \in Maps
  BY <1>0, <1>1 DEF Cleaned, Maps
<1> HIDE DEF n
<1> USE DEF u
<1>3. Used(n) = {} /\ Listed(n) = {} /\ Marked(n) = {}
  BY <1>2 DEF Used, Listed, Marked
<1>4. 0 \in 0..MaxPartial /\ \A s \in Slots : ~(s < 0)
  BY MapAssumption DEF Slots
<1>5. MapOK(n)
  BY <1>2, <1>3, <1>4 DEF MapOK
<1> QED BY <1>2, <1>3, <1>5 DEF n

(* A new map is in order, with nothing listed or marked. *)
LEMMA MapInitOK ==
  ASSUME MapInit
  PROVE  MapIInv
<1>1. Empty.bytes \in [Slots -> SUBSET (0..(PageSize - 1))]
  BY DEF Empty
<1>2. Cleaned(Empty) = Empty
  BY DEF Cleaned, Empty
<1>3. MapOK(Empty) /\ Empty.full = {} /\ Marked(Empty) = {}
  BY <1>1, <1>2, CleanedFacts
<1> QED BY <1>3 DEF MapInit, MapIInv, RefusedOnlyWhenFull, BeyondOnlyAfterLoss

(* binrec_clear_readonly_regions() forgets what was declared. *)
LEMMA ClearKeeps ==
  ASSUME MapIInv, Clear
  PROVE  MapIInv'
<1>1. map.bytes \in [Slots -> SUBSET (0..(PageSize - 1))]
  BY DEF MapIInv, MapOK, Maps
<1>2. map' = Cleaned(map) /\ result' = "none" /\ added' = {} /\ refused' = {}
  BY DEF Clear, Cleaned
<1>3. MapOK(map') /\ map'.full = {} /\ Marked(map') = {}
  BY <1>1, <1>2, CleanedFacts
<1> QED BY <1>2, <1>3 DEF MapIInv, RefusedOnlyWhenFull, BeyondOnlyAfterLoss

(* A region is recorded as it was asked for, wherever it lies. *)
LEMMA AddKeeps ==
  ASSUME MapIInv, NEW base \in Addresses, NEW size \in Nat, base + size < Space, Add(base, size)
  PROVE  MapIInv'
<1> DEFINE r == AddRegion(map, base, size)
           top == base + size
<1>1. /\ map' = r.map /\ result' = r.result
      /\ added' = IF r.result = "ok" THEN added \cup Region(base, size) ELSE added
      /\ refused' = IF r.result = "ok" THEN refused ELSE refused \cup Region(base, size)
  BY DEF Add
<1>2. /\ MapOK(map)
      /\ \A a \in Addresses : PageOf(a) \in map.full => a \in added
      /\ \A a \in added : /\ a \in Addresses
                          /\ PageOf(a) \in map.full \/ a \in Marked(map) \/ PageOf(a) \in map.lost
      /\ Marked(map) \subseteq added \cup refused
  BY DEF MapIInv
<1>3. /\ r.result \in {"ok", "full", "assert", "beyond"}
      /\ RegionAdded(map, r.map, r.result = "ok", base, top)
      /\ r.result = "full" => \A s \in Slots : r.map.pages[s] # Unused
      /\ r.result = "beyond" => r.map.lost # {}
  BY <1>2, RegionOutcome
<1>4. Region(base, size) = base..(top - 1) /\ base..(top - 1) \subseteq Addresses
  <2>1. base \in Nat /\ Space \in Nat
    BY AddressFacts
  <2> QED BY <2>1 DEF Region, Addresses
<1> HIDE DEF r, top
<1>5. /\ MapOK(map') /\ map.full \subseteq map'.full /\ map.lost \subseteq map'.lost
      /\ Marked(map') \subseteq Marked(map) \cup Region(base, size)
      /\ \A a \in Marked(map) : a \in Marked(map') \/ PageOf(a) \in map'.lost
      /\ \A a \in Addresses : PageOf(a) \in map'.full =>
           PageOf(a) \in map.full \/ (r.result = "ok" /\ a \in Region(base, size))
      /\ r.result = "ok" => \A a \in Region(base, size) :
           PageOf(a) \in map'.full \/ a \in Marked(map') \/ PageOf(a) \in map'.lost
  BY <1>1, <1>3, <1>4 DEF RegionAdded
<1>6. \A a \in Addresses : PageOf(a) \in map'.full => a \in added'
  BY <1>1, <1>2, <1>5
<1>7. \A a \in added' :
        /\ a \in Addresses
        /\ PageOf(a) \in map'.full \/ a \in Marked(map') \/ PageOf(a) \in map'.lost
  BY <1>1, <1>2, <1>4, <1>5
<1>8. Marked(map') \subseteq added' \cup refused'
  BY <1>1, <1>2, <1>5
<1>9. /\ result' \in {"none", "ok", "full", "assert", "beyond"}
      /\ RefusedOnlyWhenFull' /\ BeyondOnlyAfterLoss'
  BY <1>1, <1>3 DEF RefusedOnlyWhenFull, BeyondOnlyAfterLoss
<1> QED BY <1>5, <1>6, <1>7, <1>8, <1>9 DEF MapIInv

(* Both calls keep the invariant of the map. *)
LEMMA MapKeeps ==
  ASSUME MapIInv, MapNext
  PROVE  MapIInv'
<1>1. CASE \E r \in Regions : Add(r[1], r[2])
  <2>1. PICK r \in Regions : Add(r[1], r[2])
    BY <1>1
  <2>2. r[1] \in Addresses /\ r[2] \in Addresses /\ r[1] + r[2] < Space
    BY MapAssumption
  <2>3. r[2] \in Nat
    BY <2>2, AddressFacts
  <2> QED BY <2>1, <2>2, <2>3, AddKeeps
<1>2. CASE Clear
  BY <1>2, ClearKeeps
<1> QED BY <1>1, <1>2 DEF MapNext

(* The steps that belong to a translation leave the map as it is. *)
LEMMA MapStutters ==
  ASSUME MapIInv, UNCHANGED mapVars
  PROVE  MapIInv'
BY DEF MapIInv, RefusedOnlyWhenFull, BeyondOnlyAfterLoss, mapVars

(* A page of the table is found in it. *)
LEMMA ListedIsFound ==
  ASSUME NEW m, MapOK(m), NEW s \in Used(m)
  PROVE  Lookup(m, m.pages[s]) = s
<1> DEFINE p == m.pages[s]
           k == Lookup(m, p)
<1>1. /\ m.num \in Nat /\ s \in Nat /\ s < m.num /\ s \in Slots /\ p \in Pages /\ p < Unused
      /\ p \in Nat
      /\ \A t \in Nat : t < m.num => t \in Slots
      /\ \A t \in Slots : t \in Nat /\ m.pages[t] \in Nat
      /\ \A t \in Slots : t < s => m.pages[t] < p
  BY MapFacts
<1>2. k \in 0..m.num /\ \A t \in 0..(m.num - 1) : (t < k => m.pages[t] < p) /\ (k <= t => p <= m.pages[t])
  BY <1>1, LookupLands DEF Lands
<1> HIDE DEF k
<1>3. ~(s < k)
  BY <1>1, <1>2
<1>4. ~(k < s)
  <2> SUFFICES ASSUME k < s PROVE FALSE
    OBVIOUS
  <2>1. k \in Slots /\ k \in 0..(m.num - 1)
    BY <1>1, <1>2
  <2>2. m.pages[k] < p /\ p <= m.pages[k] /\ m.pages[k] \in Nat
    BY <1>1, <1>2, <2>1
  <2> HIDE DEF p
  <2> QED BY <1>1, <2>2
<1>5. k = s
  BY <1>1, <1>2, <1>3, <1>4
<1> QED BY <1>5 DEF k

(* What is_address_readonly() answers. *)
LEMMA ReadonlyIs ==
  ASSUME NEW m, MapOK(m), NEW a \in Addresses
  PROVE  IsReadonly(m, a) <=> PageOf(a) \in m.full \/ a \in Marked(m)
<1>1. ASSUME NEW s \in Used(m), m.pages[s] = PageOf(a)
      PROVE  /\ InTable(m, PageOf(a)) /\ PageOf(a) \in m.part \cup m.full
             /\ m.bytes[Lookup(m, PageOf(a))] = m.bytes[s]
  <2>1. Lookup(m, PageOf(a)) = s
    BY <1>1, ListedIsFound
  <2>2. s \in Slots
    BY MapFacts
  <2>3. PageOf(a) \in m.part \cup m.full
    BY <1>1 DEF MapOK, Listed
  <2> QED BY <1>1, <2>1, <2>2, <2>3 DEF InTable
<1>2. ASSUME InTable(m, PageOf(a))
      PROVE  \E s \in Used(m) : m.pages[s] = PageOf(a)
  <2>1. Lookup(m, PageOf(a)) \in Slots /\ m.pages[Lookup(m, PageOf(a))] = PageOf(a)
    BY <1>2 DEF InTable
  <2>2. PageOf(a) # Unused
    <3>1. PageOf(a) \in Pages /\ NumPages \in Nat
      BY AddressFacts, MapAssumption
    <3> QED BY <3>1 DEF Pages, Unused
  <2> QED BY <2>1, <2>2 DEF Used
<1> QED BY <1>1, <1>2 DEF IsReadonly, Marked

(* The invariant of the map follows from the inductive one. *)
LEMMA MapInvHolds ==
  ASSUME MapIInv
  PROVE  MapInv
<1>1. MapOK(map)
  BY DEF MapIInv
<1>2. MapTypeOK
  BY <1>1 DEF MapTypeOK, MapOK, MapIInv
<1>3. TableSorted
  <2> DEFINE used == {s \in Slots : map.pages[s] # Unused}
  <2>1. /\ MaxPartial \in Nat /\ map.num \in Nat /\ map.num <= MaxPartial
        /\ Slots = 0..(MaxPartial - 1)
        /\ \A s \in Used(map) : s \in Slots /\ s < map.num
    BY <1>1, MapFacts
  <2>2. used = Used(map)
    BY DEF Used
  <2>3. /\ \A s, t \in Slots : s < t /\ map.pages[t] # Unused => map.pages[s] < map.pages[t]
        /\ map.lost = {} => \A s \in Slots : s < map.num => s \in Used(map)
    BY <1>1 DEF MapOK
  <2> HIDE DEF used
  <2>4. used \subseteq 0..(map.num - 1)
    BY <2>1, <2>2
  <2> DEFINE top == map.num - 1
  <2>5. Cardinality(0..(map.num - 1)) = map.num /\ IsFiniteSet(0..(map.num - 1))
    <3>1. top \in Int /\ top - 0 + 1 = map.num /\ (0 > top => map.num = 0)
      BY <2>1
    <3> HIDE DEF top
    <3>2. /\ IsFiniteSet(0..top)
          /\ Cardinality(0..top) = IF 0 > top THEN 0 ELSE top - 0 + 1
      BY <3>1, FS_Interval
    <3> QED BY <3>1, <3>2 DEF top
  <2>6. Cardinality(used) <= map.num
    BY <2>4, <2>5, FS_Subset
  <2>7. map.lost = {} => used = 0..(map.num - 1)
    <3>1. \A i \in 0..(map.num - 1) : i \in Slots /\ i < map.num
      BY <2>1
    <3> QED BY <2>2, <2>3, <2>4, <3>1
  <2>8. map.lost = {} => Cardinality(used) = map.num
    BY <2>5, <2>7
  <2> QED BY <2>3, <2>6, <2>8 DEF TableSorted, used
<1>4. PartialPagesFound
  <2>1. ASSUME NEW p \in map.part, p \notin map.lost PROVE InTable(map, p)
    <3>1. PICK s \in Used(map) : map.pages[s] = p
      BY <1>1, <2>1 DEF MapOK, Listed
    <3>2. Lookup(map, p) = s
      BY <1>1, <3>1, ListedIsFound
    <3> QED BY <1>1, <3>1, <3>2, MapFacts DEF InTable
  <2> QED BY <2>1 DEF PartialPagesFound
<1> QED BY <1>2, <1>3, <1>4 DEF MapInv, MapIInv

(******************************** Theorems ********************************)

(* Whatever allocation is refused, each stage of binrec_translate() holds what it
   should, releases nothing twice, and the call ends with nothing left. *)
THEOREM TranslationReleases == HandleSpec => []TranslateInv
<1>1. HandleInit => TranslateIInv
  BY TranslateInitOK DEF HandleInit
<1>2. TranslateIInv /\ [HandleNext]_handleVars => TranslateIInv'
  BY TranslateKeeps, TranslateStutters DEF HandleNext, Declare, Translate, handleVars, translateVars
<1>3. TranslateIInv => TranslateInv
  BY TranslateInvHolds
<1> QED BY <1>1, <1>2, <1>3, PTL DEF HandleSpec

(* Whatever regions come in whatever order, the map stands for what the client declared,
   but for the pages written over. *)
THEOREM MapInvariance == HandleSpec => []MapIInv
<1>1. HandleInit => MapIInv
  BY MapInitOK DEF HandleInit
<1>2. MapIInv /\ [HandleNext]_handleVars => MapIInv'
  BY MapKeeps, MapStutters DEF HandleNext, Declare, Translate, handleVars, mapVars
<1> QED BY <1>1, <1>2, PTL DEF HandleSpec

(* HandleInv: nothing leaked, released twice or left behind by a translation, and the
   table of partial pages in order, every page in it found, and no slot of it free when a
   region is refused. *)
THEOREM HandleStaysSound == HandleSpec => []HandleInv
<1>1. MapIInv /\ TranslateInv => HandleInv
  BY MapInvHolds DEF HandleInv
<1> QED BY <1>1, TranslationReleases, MapInvariance, PTL

(* ReadonlyExact: is_address_readonly() says yes for no address outside the regions the
   client asked for, and for every address of the regions that were added, but those of
   pages whose slot a later insertion wrote over. *)
THEOREM DeclaredIsReadonly == HandleSpec => []ReadonlyExact
<1>1. MapIInv => ReadonlyExact
  BY ReadonlyIs DEF MapIInv, ReadonlyExact
<1> QED BY <1>1, MapInvariance, PTL
=============================================================================
