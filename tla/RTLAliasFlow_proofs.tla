------------------------ MODULE RTLAliasFlow_proofs ------------------------
(* Proofs about RTLAliasFlow, for every flow graph and every placement of references:
   of the stores to an alias, those are killed that nothing can read, and no others. *)
EXTENDS RTLAliasFlow, TLAPS, FiniteSetTheorems

(****************************** Basic facts ******************************)

(* A set of naturals with 0 and the successor of each of its members has them all. *)
LEMMA Induction ==
  ASSUME NEW S, 0 \in S, \A n \in Nat : n \in S => n + 1 \in S
  PROVE  Nat \subseteq S
<1> DEFINE R == OpToRel(<, Nat)
           T == Nat \ S
<1> SUFFICES ASSUME T # {} PROVE FALSE
  OBVIOUS
<1>1. T \subseteq Nat
  OBVIOUS
<1>2. PICK m \in T : \A k \in T : ~(<<k, m>> \in R)
  BY <1>1, WFMin, NatLessThanWellFounded
<1>3. \A k \in T : <<k, m>> \in R <=> k < m
  BY <1>1 DEF OpToRel
<1> HIDE DEF R
<1>4. m \in Nat /\ m # 0 /\ m \notin S
  BY <1>2
<1>5. m - 1 \in Nat /\ m - 1 < m
  BY <1>4
<1>6. m - 1 \notin T
  BY <1>2, <1>3, <1>5
<1> QED BY <1>4, <1>5, <1>6

(* The references of a block are a short sequence. *)
LEMMA RefSeqFacts ==
  ASSUME NEW s \in RefSeqs
  PROVE  /\ s \in Seq(Refs) /\ Len(s) \in 0..3 /\ DOMAIN s = 1..Len(s)
         /\ \A i \in 1..Len(s) : s[i] \in Refs
<1>1. PICK n \in 0..3 : s \in [1..n -> Refs]
  BY DEF RefSeqs
<1>2. s \in Seq(Refs) /\ Len(s) = n
  BY <1>1
<1> QED BY <1>1, <1>2

(* What a reference, the i-th of its block, does to the record r. *)
After(s, r, i) == CASE s[i] = "set"  -> AfterSet(r, i)
                    [] s[i] = "get"  -> AfterGet(r)
                    [] s[i] = "call" -> AfterCall(r)

(* The record of a block is made reference by reference. *)
LEMMA RecordDef ==
  ASSUME NEW s, NEW n \in Nat, n = Len(s)
  PROVE  Record(s) = [i \in 0..n |-> IF i = 0 THEN NoRef ELSE After(s, Record(s)[i - 1], i)]
<1> DEFINE IsRecord(f, m) == f = [i \in 0..m |-> IF i = 0 THEN NoRef ELSE After(s, f[i - 1], i)]
           Upto == {m \in Nat : \E f : IsRecord(f, m)}
<1>1. 0 \in Upto
  <2>1. IsRecord([i \in 0..0 |-> NoRef], 0)
    OBVIOUS
  <2> QED BY <2>1
<1>2. ASSUME NEW m \in Nat, m \in Upto PROVE m + 1 \in Upto
  <2>1. PICK f : IsRecord(f, m)
    BY <1>2
  <2> DEFINE g == [i \in 0..(m + 1) |-> IF i = m + 1 THEN After(s, f[m], m + 1) ELSE f[i]]
  <2>2. \A i \in 0..m : g[i] = f[i] /\ f[i] = IF i = 0 THEN NoRef ELSE After(s, f[i - 1], i)
    BY <2>1
  <2>3. g[m + 1] = After(s, f[m], m + 1)
    OBVIOUS
  <2>4. g = [i \in 0..(m + 1) |-> g[i]]
    OBVIOUS
  <2> HIDE DEF g
  <2>5. ASSUME NEW i \in 0..(m + 1)
        PROVE  g[i] = IF i = 0 THEN NoRef ELSE After(s, g[i - 1], i)
    <3>1. CASE i = m + 1
      <4>1. g[m] = f[m]
        BY <2>2
      <4>2. i - 1 = m /\ i # 0
        BY <3>1
      <4> QED BY <2>3, <3>1, <4>1, <4>2
    <3>2. CASE i # m + 1
      <4>1. i \in 0..m /\ (i # 0 => i - 1 \in 0..m)
        BY <3>2
      <4> QED BY <2>2, <4>1
    <3> QED BY <3>1, <3>2
  <2>6. IsRecord(g, m + 1)
    BY <2>4, <2>5
  <2> QED BY <2>6
<1>3. n \in Upto
  BY <1>1, <1>2, Induction
<1>4. \E f : IsRecord(f, n)
  BY <1>3
<1>5. Record(s) = CHOOSE f : f = [i \in 0..n |-> IF i = 0 THEN NoRef ELSE After(s, f[i - 1], i)]
  BY DEF Record, After
<1> QED BY <1>4, <1>5

(* What the record says of the first i references of s. *)
RecordOK(s, r, i) ==
  /\ r \in [has_set : BOOLEAN, has_get : BOOLEAN, set_used : BOOLEAN, set_insn : 0..3]
  /\ r.has_set <=> \E j \in 1..i : s[j] = "set"
  /\ r.has_set => /\ r.set_insn \in 1..i /\ s[r.set_insn] = "set"
                  /\ \A k \in (r.set_insn + 1)..i : s[k] # "set"
                  /\ r.set_used <=> \E k \in (r.set_insn + 1)..i : Reader(s[k])
  /\ r.has_get <=> \E j \in 1..i : s[j] = "get" /\ \A k \in 1..(j - 1) : s[k] # "set"

(* One more reference keeps that true. *)
LEMMA RecordStep ==
  ASSUME bound \in BOOLEAN, NEW s \in RefSeqs, NEW i \in 1..Len(s), NEW r, RecordOK(s, r, i - 1)
  PROVE  RecordOK(s, After(s, r, i), i)
<1> DEFINE q == After(s, r, i)
<1>1. /\ s[i] \in {"set", "get", "call"} /\ i \in 1..3
      /\ r \in [has_set : BOOLEAN, has_get : BOOLEAN, set_used : BOOLEAN, set_insn : 0..3]
  BY RefSeqFacts DEF Refs, RecordOK
<1>2. 1..i = (1..(i - 1)) \cup {i}
  BY <1>1
<1>3. (\E j \in 1..i : s[j] = "set") <=> (\E j \in 1..(i - 1) : s[j] = "set") \/ s[i] = "set"
  BY <1>2
<1>4. (\E j \in 1..i : s[j] = "get" /\ \A k \in 1..(j - 1) : s[k] # "set")
        <=> \/ \E j \in 1..(i - 1) : s[j] = "get" /\ \A k \in 1..(j - 1) : s[k] # "set"
            \/ s[i] = "get" /\ \A k \in 1..(i - 1) : s[k] # "set"
  BY <1>2
<1>5. ASSUME NEW n \in 1..(i - 1) PROVE (n + 1)..i = ((n + 1)..(i - 1)) \cup {i}
  BY <1>1
<1>6. CASE s[i] = "set"
  <2>1. q = [has_set |-> TRUE, has_get |-> r.has_get, set_used |-> FALSE, set_insn |-> i]
    BY <1>1, <1>6 DEF After, AfterSet
  <2>2. (i + 1)..i = {}
    BY <1>1
  <2> QED BY <1>1, <1>3, <1>4, <1>6, <2>1, <2>2 DEF RecordOK
<1>7. CASE s[i] = "get"
  <2>1. q = [has_set |-> r.has_set, has_get |-> r.has_get \/ ~r.has_set,
             set_used |-> r.set_used \/ r.has_set, set_insn |-> r.set_insn]
    BY <1>1, <1>7 DEF After, AfterGet
  <2>2. Reader(s[i])
    BY <1>7 DEF Reader
  <2>3. r.has_set => r.set_insn \in 1..(i - 1)
    BY DEF RecordOK
  <2>4. q.has_set => /\ q.set_insn \in 1..i /\ s[q.set_insn] = "set"
                     /\ \A k \in (q.set_insn + 1)..i : s[k] # "set"
                     /\ q.set_used <=> \E k \in (q.set_insn + 1)..i : Reader(s[k])
    BY <1>1, <1>2, <1>5, <1>7, <2>1, <2>2, <2>3 DEF RecordOK
  <2>5. q.has_get <=> \E j \in 1..i : s[j] = "get" /\ \A k \in 1..(j - 1) : s[k] # "set"
    <3>1. q.has_get <=> r.has_get \/ ~r.has_set
      BY <1>1, <1>7 DEF After, AfterGet
    <3>2. ~r.has_set <=> \A k \in 1..(i - 1) : s[k] # "set"
      BY DEF RecordOK
    <3> QED BY <1>4, <1>7, <3>1, <3>2 DEF RecordOK
  <2>6. q \in [has_set : BOOLEAN, has_get : BOOLEAN, set_used : BOOLEAN, set_insn : 0..3]
    BY <1>1, <2>1
  <2>7. q.has_set <=> \E j \in 1..i : s[j] = "set"
    BY <1>3, <1>7, <2>1 DEF RecordOK
  <2> QED BY <2>4, <2>5, <2>6, <2>7 DEF RecordOK
<1>8. CASE s[i] = "call"
  <2>1. q = [has_set |-> r.has_set, has_get |-> r.has_get,
             set_used |-> r.set_used \/ bound, set_insn |-> r.set_insn]
    BY <1>1, <1>8 DEF After, AfterCall
  <2>2. Reader(s[i]) <=> bound
    BY <1>8 DEF Reader
  <2>3. r.has_set => r.set_insn \in 1..(i - 1)
    BY DEF RecordOK
  <2>4. q.has_set => /\ q.set_insn \in 1..i /\ s[q.set_insn] = "set"
                     /\ \A k \in (q.set_insn + 1)..i : s[k] # "set"
                     /\ q.set_used <=> \E k \in (q.set_insn + 1)..i : Reader(s[k])
    BY <1>1, <1>2, <1>5, <1>8, <2>1, <2>2, <2>3 DEF RecordOK
  <2> QED BY <1>1, <1>3, <1>4, <1>8, <2>1, <2>4 DEF RecordOK
<1> QED BY <1>1, <1>6, <1>7, <1>8

(* So the record of a block tells of its last store and of the reads around it. *)
LEMMA RecordFacts ==
  ASSUME bound \in BOOLEAN, NEW s \in RefSeqs
  PROVE  \A i \in 0..Len(s) : RecordOK(s, Record(s)[i], i)
<1> DEFINE Good == {i \in Nat : i <= Len(s) => RecordOK(s, Record(s)[i], i)}
<1>1. Len(s) \in Nat
  BY RefSeqFacts
<1>2. \A i \in 0..Len(s) :
        Record(s)[i] = IF i = 0 THEN NoRef ELSE After(s, Record(s)[i - 1], i)
  BY <1>1, RecordDef
<1>3. 0 \in Good
  <2>1. RecordOK(s, NoRef, 0)
    BY DEF RecordOK, NoRef
  <2>2. Record(s)[0] = NoRef
    BY <1>1, <1>2
  <2> QED BY <2>1, <2>2
<1>4. ASSUME NEW n \in Nat, n \in Good PROVE n + 1 \in Good
  <2> SUFFICES ASSUME n + 1 <= Len(s) PROVE RecordOK(s, Record(s)[n + 1], n + 1)
    OBVIOUS
  <2>1. n + 1 \in 1..Len(s) /\ (n + 1) - 1 = n /\ RecordOK(s, Record(s)[n], n)
    BY <1>1, <1>4
  <2>2. Record(s)[n + 1] = After(s, Record(s)[n], n + 1)
    BY <1>1, <1>2, <2>1
  <2> QED BY <2>1, <2>2, RecordStep
<1> HIDE DEF Good
<1>5. Nat \subseteq Good
  BY <1>3, <1>4, Induction
<1> QED BY <1>1, <1>5 DEF Good

(* Any set of naturals that is not empty has a least member. *)
LEMMA LeastOf ==
  ASSUME NEW S, S \subseteq Nat, S # {}
  PROVE  \E m \in S : \A k \in S : m <= k
<1> DEFINE R == OpToRel(<, Nat)
<1>1. S \subseteq Nat
  OBVIOUS
<1>2. PICK m \in S : \A k \in S : ~(<<k, m>> \in R)
  BY <1>1, WFMin, NatLessThanWellFounded
<1>3. \A k \in S : <<k, m>> \in R <=> k < m
  BY <1>1 DEF OpToRel
<1> HIDE DEF R
<1>4. \A k \in S : ~(k < m) /\ k \in Nat
  BY <1>1, <1>2, <1>3
<1> QED BY <1>1, <1>4

(**************************** What is wanted *****************************)

(* A block wants the value on entry if it reads it first, or passes it on to where it
   is wanted, and no others do: the blocks with a path to a reader. *)
Wants(b, W) == \/ ReadIn(b, 1)
               \/ Passes(b, 1) /\ exits[b] = <<>> /\ bound
               \/ Passes(b, 1) /\ \E c \in ToSet(exits[b]) : c \in W

(* WantedBlocks is the least set of blocks closed under Wants: it exists, each of its
   blocks wants the value, and it lies within every set that is closed. *)
LEMMA WantedFacts ==
  /\ WantedBlocks \subseteq Blocks
  /\ \A b \in Blocks : b \in WantedBlocks <=> Wants(b, WantedBlocks)
  /\ \A V \in SUBSET Blocks : (\A b \in Blocks : Wants(b, V) => b \in V) => WantedBlocks \subseteq V
<1> DEFINE Closed(V) == \A b \in Blocks : Wants(b, V) => b \in V
           L == {b \in Blocks : \A V \in SUBSET Blocks : Closed(V) => b \in V}
           M == {b \in Blocks : Wants(b, L)}
<1>1. \A V, U : V \subseteq U => \A b : Wants(b, V) => Wants(b, U)
  BY DEF Wants
<1>2. L \in SUBSET Blocks /\ M \in SUBSET Blocks
  OBVIOUS
<1>3. \A V \in SUBSET Blocks : Closed(V) => L \subseteq V
  OBVIOUS
<1>4. M \subseteq L
  <2> SUFFICES ASSUME NEW b \in Blocks, Wants(b, L), NEW V \in SUBSET Blocks, Closed(V)
               PROVE  b \in V
    OBVIOUS
  <2>1. Wants(b, V)
    BY <1>1, <1>3
  <2> QED BY <2>1
<1>5. Closed(M)
  BY <1>1, <1>4
<1>6. L \subseteq M
  BY <1>2, <1>3, <1>5
<1>7. Closed(L)
  BY <1>4
<1>8. WantedSet(L)
  BY <1>6, <1>7 DEF WantedSet, Wants
<1>9. ASSUME NEW V \in SUBSET Blocks, WantedSet(V) PROVE L \subseteq V
  <2>1. Closed(V)
    BY <1>9 DEF WantedSet, Wants
  <2> QED BY <1>3, <2>1
<1> HIDE DEF L
<1>10. /\ WantedBlocks \in SUBSET Blocks /\ WantedSet(WantedBlocks)
       /\ \A V \in SUBSET Blocks : WantedSet(V) => WantedBlocks \subseteq V
  BY <1>2, <1>8, <1>9 DEF WantedBlocks
<1>11. WantedBlocks \subseteq L
  BY <1>2, <1>8, <1>10
<1>12. \A b \in Blocks : b \in WantedBlocks <=> Wants(b, WantedBlocks)
  BY <1>10 DEF WantedSet, Wants
<1> QED BY <1>3, <1>10, <1>11, <1>12

(* The records of the blocks, in terms of the references. *)
LEMMA LastRecordFacts ==
  ASSUME SourceOK, NEW b \in Blocks
  PROVE  LET r == LastRecord(b) IN
         /\ source[b] \in RefSeqs
         /\ r \in [has_set : BOOLEAN, has_get : BOOLEAN, set_used : BOOLEAN, set_insn : 0..3]
         /\ ~r.has_set <=> Passes(b, 1)
         /\ r.has_set => /\ r.set_insn \in DOMAIN source[b] /\ source[b][r.set_insn] = "set"
                         /\ Passes(b, r.set_insn + 1)
                         /\ r.set_used <=> ReadIn(b, r.set_insn + 1)
         /\ r.has_get <=> ReadIn(b, 1)
<1> DEFINE s == source[b]
           r == LastRecord(b)
           n == Len(s)
<1>1. s \in RefSeqs /\ bound \in BOOLEAN
  BY DEF SourceOK
<1>2. n \in Nat /\ DOMAIN s = 1..n /\ \A i \in 1..n : s[i] \in {"set", "get", "call"}
  BY <1>1, RefSeqFacts DEF Refs
<1>3. RecordOK(s, r, n)
  BY <1>1, <1>2, RecordFacts DEF LastRecord
<1> HIDE DEF s, n, r
<1>4. \A i, k : i \in 1..(k - 1) /\ s[i] = "set" => (Heard(s, k) <=> Reader(s[k]))
  BY DEF Heard
<1>5. \A i : Passes(b, i) <=> \A k \in i..n : s[k] # "set"
  BY DEF Passes, s, n
<1>6. \A i : ReadIn(b, i) <=> \E j \in i..n : Heard(s, j) /\ \A k \in i..(j - 1) : s[k] # "set"
  BY DEF ReadIn, s, n
<1>7. ~r.has_set <=> Passes(b, 1)
  BY <1>2, <1>3, <1>5 DEF RecordOK
<1>8. ASSUME r.has_set
      PROVE  /\ r.set_insn \in 1..n /\ s[r.set_insn] = "set" /\ Passes(b, r.set_insn + 1)
             /\ r.set_used <=> ReadIn(b, r.set_insn + 1)
  <2>1. /\ r.set_insn \in 1..n /\ s[r.set_insn] = "set"
        /\ \A k \in (r.set_insn + 1)..n : s[k] # "set"
        /\ r.set_used <=> \E k \in (r.set_insn + 1)..n : Reader(s[k])
    BY <1>3, <1>8 DEF RecordOK
  <2>2. ASSUME NEW k \in (r.set_insn + 1)..n PROVE Heard(s, k) <=> Reader(s[k])
    <3>1. r.set_insn \in 1..(k - 1)
      BY <1>2, <2>1
    <3> QED BY <1>4, <2>1, <3>1
  <2> QED BY <1>2, <1>5, <1>6, <2>1, <2>2
<1>9. r.has_get <=> \E j \in 1..n : s[j] = "get" /\ \A k \in 1..(j - 1) : s[k] # "set"
  BY <1>3 DEF RecordOK
<1>10. r.has_get => ReadIn(b, 1)
  BY <1>6, <1>9 DEF Heard, Reader
<1>11. ASSUME ReadIn(b, 1) PROVE r.has_get
  <2>1. PICK j \in 1..n : Heard(s, j) /\ \A k \in 1..(j - 1) : s[k] # "set"
    BY <1>6, <1>11
  <2>2. s[j] # "call"
    BY <2>1 DEF Heard
  <2> QED BY <1>9, <2>1, <2>2 DEF Heard, Reader
<1>12. r \in [has_set : BOOLEAN, has_get : BOOLEAN, set_used : BOOLEAN, set_insn : 0..3]
  BY <1>3 DEF RecordOK
<1> QED BY <1>1, <1>2, <1>7, <1>8, <1>10, <1>11, <1>12 DEF s, r

(* Collecting kills a store that is followed by another of its block, unless it is read
   in between. *)
LEMMA OverwrittenFacts ==
  ASSUME SourceOK, NEW b \in Blocks, NEW i \in DOMAIN source[b], source[b][i] = "set"
  PROVE  LET r == LastRecord(b) IN
         /\ r.has_set
         /\ i # r.set_insn => (Overwritten(source[b], i) <=> ~Wanted(b, i + 1))
         /\ i = r.set_insn => ~Overwritten(source[b], i)
         /\ i = r.set_insn => (Wanted(b, i + 1) <=> r.set_used \/ Through(b))
<1> DEFINE s == source[b]
           r == LastRecord(b)
           n == Len(s)
<1>1. s \in RefSeqs /\ bound \in BOOLEAN
  BY DEF SourceOK
<1>2. n \in Nat /\ DOMAIN s = 1..n /\ \A k \in 1..n : s[k] \in {"set", "get", "call"}
  BY <1>1, RefSeqFacts DEF Refs
<1>3. \A k \in 0..n : RecordOK(s, Record(s)[k], k)
  BY <1>1, RecordFacts
<1>4. r = Record(s)[n]
  BY DEF LastRecord
<1>5. i \in 1..n /\ s[i] = "set"
  BY <1>2
<1>6. Wanted(b, i + 1) <=> ReadIn(b, i + 1) \/ (Passes(b, i + 1) /\ Through(b))
  BY DEF Wanted, Through
<1>7. \A k : Passes(b, k) <=> \A l \in k..n : s[l] # "set"
  BY DEF Passes
<1>8. ReadIn(b, i + 1) <=> \E m \in (i + 1)..n : Reader(s[m]) /\ \A k \in (i + 1)..(m - 1) : s[k] # "set"
  <2>1. \A m \in (i + 1)..n : Heard(s, m) <=> Reader(s[m])
    <3>1. \A m \in (i + 1)..n : i \in 1..(m - 1)
      BY <1>2, <1>5
    <3> QED BY <1>5, <3>1 DEF Heard
  <2> QED BY <2>1 DEF ReadIn
<1>9. Overwritten(s, i) <=>
        \E j \in 1..n : /\ s[j] = "set" /\ Record(s)[j - 1].has_set
                        /\ ~Record(s)[j - 1].set_used /\ Record(s)[j - 1].set_insn = i
  BY <1>2 DEF Overwritten
<1>10. r.has_set => /\ r.set_insn \in 1..n /\ s[r.set_insn] = "set" /\ Passes(b, r.set_insn + 1)
                    /\ r.set_used <=> ReadIn(b, r.set_insn + 1)
  BY <1>2, LastRecordFacts
<1> HIDE DEF s, n, r
<1>11. r.has_set
  BY <1>2, <1>3, <1>4, <1>5 DEF RecordOK
(* Between store i and a later one, the record is about store i. *)
<1>12. ASSUME NEW j \in 1..n, i < j, \A k \in (i + 1)..(j - 1) : s[k] # "set"
       PROVE  /\ Record(s)[j - 1].has_set /\ Record(s)[j - 1].set_insn = i
              /\ Record(s)[j - 1].set_used <=> \E k \in (i + 1)..(j - 1) : Reader(s[k])
  <2> DEFINE q == Record(s)[j - 1]
  <2>1. RecordOK(s, q, j - 1) /\ i \in 1..(j - 1)
    BY <1>2, <1>3, <1>5, <1>12
  <2> HIDE DEF q
  <2>2. q.has_set
    BY <1>5, <2>1 DEF RecordOK
  <2>3. /\ q.set_insn \in 1..(j - 1) /\ s[q.set_insn] = "set"
        /\ \A k \in (q.set_insn + 1)..(j - 1) : s[k] # "set"
        /\ q.set_used <=> \E k \in (q.set_insn + 1)..(j - 1) : Reader(s[k])
    BY <2>1, <2>2 DEF RecordOK
  <2>4. q.set_insn = i
    <3>1. ~(i < q.set_insn)
      BY <1>2, <1>5, <1>12, <2>3
    <3>2. ~(q.set_insn < i)
      BY <1>2, <1>5, <1>12, <2>1, <2>3
    <3> QED BY <1>2, <1>5, <2>3, <3>1, <3>2
  <2> QED BY <2>2, <2>3, <2>4 DEF q
<1>13. ASSUME i # r.set_insn PROVE Overwritten(s, i) <=> ~Wanted(b, i + 1)
  <2> DEFINE Later == {k \in (i + 1)..n : s[k] = "set"}
  <2>1. i < r.set_insn
    BY <1>2, <1>5, <1>7, <1>10, <1>11, <1>13
  <2>2. r.set_insn \in Later /\ Later \subseteq Nat
    BY <1>2, <1>5, <1>10, <1>11, <2>1
  <2>3. PICK j \in Later : \A k \in Later : j <= k
    BY <2>2, LeastOf
  <2>4. j \in 1..n /\ i < j /\ s[j] = "set" /\ \A k \in (i + 1)..(j - 1) : s[k] # "set"
    BY <1>2, <1>5, <2>3
  <2>5. ~Passes(b, i + 1)
    BY <1>2, <1>5, <1>7, <2>4
  <2>6. ReadIn(b, i + 1) <=> \E k \in (i + 1)..(j - 1) : Reader(s[k])
    <3>1. ASSUME NEW m \in (i + 1)..n, Reader(s[m]), \A k \in (i + 1)..(m - 1) : s[k] # "set"
          PROVE  m \in (i + 1)..(j - 1)
      BY <1>2, <1>5, <2>4, <3>1 DEF Reader
    <3>2. ASSUME NEW m \in (i + 1)..(j - 1) PROVE m \in (i + 1)..n /\ \A k \in (i + 1)..(m - 1) : s[k] # "set"
      BY <1>2, <1>5, <2>4
    <3> QED BY <1>8, <3>1, <3>2
  <2>7. ASSUME NEW h \in 1..n, s[h] = "set", Record(s)[h - 1].has_set, Record(s)[h - 1].set_insn = i
        PROVE  h = j
    <3>1. RecordOK(s, Record(s)[h - 1], h - 1)
      BY <1>2, <1>3
    <3>2. i \in 1..(h - 1) /\ \A k \in (i + 1)..(h - 1) : s[k] # "set"
      BY <2>7, <3>1 DEF RecordOK
    <3> QED BY <1>2, <1>5, <2>4, <2>7, <3>2
  <2> HIDE DEF Later
  <2>8. Overwritten(s, i) <=> ~Record(s)[j - 1].set_used
    BY <1>9, <1>12, <2>4, <2>7
  <2> QED BY <1>6, <1>12, <2>4, <2>5, <2>6, <2>8
<1>14. ASSUME i = r.set_insn PROVE ~Overwritten(s, i)
  <2> SUFFICES ASSUME NEW h \in 1..n, s[h] = "set", Record(s)[h - 1].has_set,
                      Record(s)[h - 1].set_insn = i
               PROVE  FALSE
    BY <1>9
  <2>1. RecordOK(s, Record(s)[h - 1], h - 1)
    BY <1>2, <1>3
  <2>2. i < h
    BY <1>2, <1>5, <2>1 DEF RecordOK
  <2> QED BY <1>2, <1>5, <1>7, <1>10, <1>11, <1>14, <2>2
<1>15. ASSUME i = r.set_insn PROVE Wanted(b, i + 1) <=> r.set_used \/ Through(b)
  BY <1>6, <1>10, <1>11, <1>15
<1> QED BY <1>11, <1>13, <1>14, <1>15 DEF s, r

(************************* The inductive invariant *************************)

(* The recurrence of the records, after a step as before it. *)
RecordEquation ==
  \A s : Len(s) \in Nat =>
    Record(s) = [i \in 0..Len(s) |-> IF i = 0 THEN NoRef ELSE After(s, Record(s)[i - 1], i)]
(* The records obey their recurrence before a step and after it. *)
LEMMA RecordRecurs == RecordEquation /\ RecordEquation'
<1>1. RecordEquation
  BY RecordDef DEF RecordEquation
<1> QED BY <1>1, PTL

(* And so is WantedBlocks the least set closed under Wants. *)
LeastWanted ==
  /\ WantedBlocks \subseteq Blocks
  /\ \A b \in Blocks : b \in WantedBlocks <=> Wants(b, WantedBlocks)
  /\ \A V \in SUBSET Blocks : (\A b \in Blocks : Wants(b, V) => b \in V) => WantedBlocks \subseteq V
(* WantedBlocks is least before a step and after it. *)
LEMMA WantedIsLeast == LeastWanted /\ LeastWanted'
<1>1. LeastWanted
  BY WantedFacts DEF LeastWanted
<1> QED BY <1>1, PTL

(* The pass leaves the program it started from, and so everything said of that. *)
Fixed == UNCHANGED <<source, exits, bound>>

(* A step that leaves bound alone changes no record of references. *)
LEMMA FixedRecords ==
  ASSUME Fixed, NEW s, Len(s) \in Nat
  PROVE  (Record(s))' = Record(s)
<1> DEFINE f == Record(s)
           g == (Record(s))'
           Same == {n \in Nat : n <= Len(s) => f[n] = g[n]}
<1>1. f = [i \in 0..Len(s) |-> IF i = 0 THEN NoRef ELSE After(s, f[i - 1], i)]
  BY RecordRecurs DEF RecordEquation
<1>2. \A r, i : (After(s, r, i))' = After(s, r, i)
  BY DEF Fixed, After, AfterCall, AfterGet, AfterSet
<1>3. g = [i \in 0..Len(s) |-> IF i = 0 THEN NoRef ELSE After(s, g[i - 1], i)]
  <2>1. g = [i \in 0..Len(s) |-> IF i = 0 THEN NoRef ELSE (After(s, Record(s)[i - 1], i))']
    BY RecordRecurs DEF RecordEquation, After
  <2> QED BY <1>2, <2>1
<1> HIDE DEF f, g
<1>4. 0 \in Same
  BY <1>1, <1>3
<1>5. ASSUME NEW n \in Nat, n \in Same PROVE n + 1 \in Same
  <2> SUFFICES ASSUME n + 1 <= Len(s) PROVE f[n + 1] = g[n + 1]
    OBVIOUS
  <2>1. n + 1 \in 0..Len(s) /\ n + 1 # 0 /\ (n + 1) - 1 = n /\ f[n] = g[n]
    BY <1>5
  <2> QED BY <1>1, <1>3, <2>1
<1> HIDE DEF Same
<1>6. Nat \subseteq Same
  BY <1>4, <1>5, Induction
<1>7. \A n \in 0..Len(s) : f[n] = g[n]
  BY <1>6 DEF Same
<1>8. f = g
  BY <1>1, <1>3, <1>7
<1> QED BY <1>8 DEF f, g

(* Nor does it change what collecting and tracing leave of a block, or what the way out of
   it wants. *)
LEMMA FixedFacts ==
  ASSUME Fixed, SourceOK, NEW b \in Blocks
  PROVE  /\ (LastRecord(b))' = LastRecord(b)
         /\ (Collected(b))' = Collected(b)
         /\ (Through(b))' <=> Through(b)
         /\ (Traced(b))' = Traced(b)
<1> DEFINE s == source[b]
<1>1. s \in RefSeqs /\ Len(s) \in Nat /\ s' = s
  BY RefSeqFacts DEF Fixed, SourceOK
<1>2. (Record(s))' = Record(s)
  <2>1. \A t : Len(t) \in Nat => (Record(t))' = Record(t)
    BY FixedRecords
  <2>2. (Record(s))' = Record(s)'
    OBVIOUS
  <2> QED BY <1>1, <2>1 DEF Record, AfterCall
<1>3. (LastRecord(b))' = LastRecord(b)
  BY <1>1, <1>2 DEF LastRecord
<1>4. \A i : (Overwritten(s, i))' <=> Overwritten(s, i)
  BY <1>1, <1>2 DEF Overwritten
<1>5. (Collected(b))' = Collected(b)
  BY <1>1, <1>4 DEF Collected
<1>6. \A W : \A c \in Blocks : (Wants(c, W))' <=> Wants(c, W)
  BY DEF Fixed, Wants, ReadIn, Passes, Heard, Reader
<1>7. WantedBlocks' = WantedBlocks
  <2>1. LeastWanted /\ LeastWanted'
    BY WantedIsLeast
  <2>2. /\ WantedBlocks' \subseteq Blocks
        /\ \A c \in Blocks : c \in WantedBlocks' <=> Wants(c, WantedBlocks')
        /\ \A V \in SUBSET Blocks : (\A c \in Blocks : Wants(c, V) => c \in V) => WantedBlocks' \subseteq V
    <3> DEFINE U == WantedBlocks'
    <3>1. /\ U \subseteq Blocks
          /\ \A c \in Blocks : c \in U <=> (Wants(c, WantedBlocks))'
          /\ \A V \in SUBSET Blocks : (\A c \in Blocks : (Wants(c, V))' => c \in V) => U \subseteq V
      BY <2>1 DEF LeastWanted, Blocks
    <3>2. \A c \in Blocks : (Wants(c, WantedBlocks))' <=> Wants(c, U)
      BY DEF Fixed, Wants, ReadIn, Passes, Heard, Reader
    <3> HIDE DEF U
    <3>3. \A V \in SUBSET Blocks : (\A c \in Blocks : Wants(c, V) => c \in V) => U \subseteq V
      BY <1>6, <3>1
    <3> QED BY <3>1, <3>2, <3>3 DEF U
  <2> QED BY <2>1, <2>2 DEF LeastWanted
<1>8. (Through(b))' <=> Through(b)
  BY <1>7 DEF Fixed, Through
<1>9. (DeadEnd(b))' <=> DeadEnd(b)
  BY <1>3, <1>8 DEF DeadEnd
<1>10. (Traced(b))' = Traced(b)
  BY <1>1, <1>3, <1>5, <1>9 DEF Traced
<1> QED BY <1>3, <1>5, <1>8, <1>10

(* A block has at most two exits, each a block. *)
LEMMA ExitFacts ==
  ASSUME SourceOK, NEW b \in Blocks
  PROVE  /\ exits[b] \in Seq(Blocks) /\ Len(exits[b]) \in 0..2
         /\ exits[b] = <<>> <=> Len(exits[b]) = 0
         /\ exits[b] # <<>> => exits[b][1] \in Blocks
         /\ Len(exits[b]) = 2 => exits[b][2] \in Blocks
         /\ \A c : c \in ToSet(exits[b]) <=> \/ exits[b] # <<>> /\ c = exits[b][1]
                                             \/ Len(exits[b]) = 2 /\ c = exits[b][2]
<1>1. exits[b] \in ExitsOf(b) /\ ToSet(exits[b]) \subseteq Blocks
  BY DEF SourceOK, Graphs
<1>2. CASE exits[b] = <<>>
  BY <1>1, <1>2 DEF ToSet
<1>3. ASSUME NEW c \in Blocks, exits[b] = <<c>> PROVE ToSet(exits[b]) = {c}
  BY <1>3 DEF ToSet
<1>4. ASSUME NEW d, NEW c \in Blocks, exits[b] = <<d, c>> PROVE ToSet(exits[b]) = {d, c}
  <2>1. DOMAIN exits[b] = 1..2 /\ exits[b][1] = d /\ exits[b][2] = c
    BY <1>4
  <2>2. 1..2 = {1, 2}
    OBVIOUS
  <2> QED BY <2>1, <2>2 DEF ToSet
<1>5. \/ exits[b] = <<>>
      \/ \E c \in Blocks : exits[b] = <<c>>
      \/ \E c \in Blocks : exits[b] = <<b + 1, c>>
  BY <1>1 DEF ExitsOf
<1>6. CASE \E c \in Blocks : exits[b] = <<c>>
  BY <1>3, <1>6
<1>7. CASE \E c \in Blocks : exits[b] = <<b + 1, c>>
  <2>1. PICK c \in Blocks : exits[b] = <<b + 1, c>>
    BY <1>7
  <2>2. ToSet(exits[b]) = {b + 1, c}
    BY <1>4, <2>1
  <2>3. b + 1 \in Blocks
    BY <1>1, <2>2
  <2> QED BY <2>1, <2>2, <2>3
<1> QED BY <1>2, <1>5, <1>6, <1>7

(* What is left of a block is as long as the block. *)
LEMMA LeftFacts ==
  ASSUME SourceOK, NEW b \in Blocks
  PROVE  /\ source[b] \in Seq(Refs \cup {"nop"})
         /\ Collected(b) \in Seq(Refs \cup {"nop"}) /\ Len(Collected(b)) = Len(source[b])
         /\ Traced(b) \in Seq(Refs \cup {"nop"}) /\ Len(Traced(b)) = Len(source[b])
<1> DEFINE s == source[b]
           n == Len(s)
<1>1. s \in Seq(Refs) /\ n \in Nat /\ DOMAIN s = 1..n /\ \A i \in 1..n : s[i] \in Refs
  BY RefSeqFacts DEF SourceOK
<1>2. Collected(b) = [i \in 1..n |-> IF Overwritten(s, i) THEN "nop" ELSE s[i]]
  BY <1>1 DEF Collected
<1>3. Collected(b) \in [1..n -> Refs \cup {"nop"}]
  BY <1>1, <1>2
<1>4. Traced(b) = [i \in 1..n |-> IF DeadEnd(b) /\ i = LastRecord(b).set_insn THEN "nop"
                                  ELSE Collected(b)[i]]
  BY <1>1 DEF Traced
<1>5. Traced(b) \in [1..n -> Refs \cup {"nop"}]
  BY <1>3, <1>4
<1> QED BY <1>1, <1>3, <1>5

(* The pass starts with all references in place and nothing recorded. *)
LEMMA InitOK ==
  ASSUME AliasInit PROVE AliasIInv
<1>1. /\ source \in [Blocks -> RefSeqs] /\ refs = source /\ bound \in BOOLEAN /\ exits \in Graphs
      /\ info = [b \in Blocks |-> NoRef] /\ pass = "collect" /\ at = 0 /\ stack = <<>> /\ seen = {}
  BY DEF AliasInit
<1>2. SourceOK
  BY <1>1, AliasAssumption DEF SourceOK
<1>3. refs \in [Blocks -> Seq(Refs \cup {"nop"})]
  BY <1>1, <1>2, LeftFacts
<1>4. info \in [Blocks -> [has_set : BOOLEAN, has_get : BOOLEAN, set_used : BOOLEAN, set_insn : 0..3]]
  BY <1>1 DEF NoRef
<1>5. \A b \in Blocks : ~(b < at)
  BY <1>1, AliasAssumption DEF Blocks
<1>6. ProgressOK
  BY <1>1, <1>3, <1>4, <1>5 DEF ProgressOK
<1> QED BY <1>1, <1>2, <1>6 DEF AliasIInv

(* The references and their records are as they should be after a step that changes
   neither, unless it goes on to another block. *)
LEMMA Untouched ==
  ASSUME SourceOK, ProgressOK, Fixed, UNCHANGED <<refs, info, at>>,
         pass' \in {"collect", "trace", "search", "done", "skipped"},
         pass' = "done" => at = NumBlocks,
         pass' \in {"collect", "skipped"} <=> pass \in {"collect", "skipped"}
  PROVE  SourceOK' /\ ProgressOK'
<1>1. SourceOK'
  BY DEF SourceOK, Fixed, Blocks, RefSeqs, Graphs, ExitsOf
<1>2. \A b \in Blocks : /\ (LastRecord(b))' = LastRecord(b)
                        /\ (Collected(b))' = Collected(b)
                        /\ (Traced(b))' = Traced(b)
  BY FixedFacts
<1>3. source' = source
  BY DEF Fixed
<1>4. ProgressOK'
  BY <1>2, <1>3 DEF ProgressOK, Blocks
<1> QED BY <1>1, <1>4

(* Without memory for the records nothing is changed. *)
LEMMA NoMemoryOK ==
  ASSUME AliasIInv, NoMemory PROVE AliasIInv'
<1>1. Fixed /\ UNCHANGED <<refs, info, at, stack, seen>> /\ pass = "collect" /\ pass' = "skipped"
  BY DEF NoMemory, Fixed
<1>2. SourceOK' /\ ProgressOK'
  BY <1>1, Untouched DEF AliasIInv
<1> QED BY <1>1, <1>2 DEF AliasIInv

(* Collecting records the references of one more block and kills what it overwrites. *)
LEMMA CollectOK ==
  ASSUME AliasIInv, Collect PROVE AliasIInv'
<1> DEFINE s == source[at]
<1>1. /\ Fixed /\ UNCHANGED <<pass, stack, seen>> /\ at' = at + 1 /\ at < NumBlocks /\ pass = "collect"
      /\ info' = [info EXCEPT ![at] = Record(refs[at])[Len(refs[at])]]
      /\ refs' = [refs EXCEPT ![at] = [i \in DOMAIN refs[at] |->
                                         IF Overwritten(refs[at], i) THEN "nop" ELSE refs[at][i]]]
  BY DEF Collect, Fixed
<1>2. SourceOK /\ ProgressOK /\ at \in Blocks /\ at + 1 \in 0..NumBlocks
  BY <1>1, AliasAssumption DEF AliasIInv, SourceOK, Blocks
<1>3. SourceOK'
  BY <1>1, <1>2 DEF SourceOK, Fixed, Blocks, RefSeqs, Graphs, ExitsOf
<1>4. refs[at] = s
  <2>1. ~(at < at)
    BY <1>2 DEF Blocks
  <2> QED BY <1>1, <1>2, <2>1 DEF ProgressOK
<1>5. /\ refs' = [refs EXCEPT ![at] = Collected(at)]
      /\ info' = [info EXCEPT ![at] = LastRecord(at)]
  BY <1>1, <1>4 DEF Collected, LastRecord
<1>6. \A b \in Blocks : /\ (LastRecord(b))' = LastRecord(b)
                        /\ (Collected(b))' = Collected(b)
  BY <1>1, <1>2, FixedFacts
<1>7. /\ Collected(at) \in Seq(Refs \cup {"nop"})
      /\ LastRecord(at) \in [has_set : BOOLEAN, has_get : BOOLEAN, set_used : BOOLEAN, set_insn : 0..3]
  BY <1>2, LeftFacts, LastRecordFacts
<1>8. /\ refs' \in [Blocks -> Seq(Refs \cup {"nop"})]
      /\ info' \in [Blocks -> [has_set : BOOLEAN, has_get : BOOLEAN, set_used : BOOLEAN, set_insn : 0..3]]
  BY <1>2, <1>5, <1>7 DEF ProgressOK
<1>9. \A b \in Blocks : /\ refs'[b] = IF b < at + 1 THEN Collected(b) ELSE source[b]
                        /\ b < at + 1 => info'[b] = LastRecord(b)
  <2> TAKE b \in Blocks
  <2>1. b \in Int /\ at \in Int
    BY <1>2 DEF Blocks
  <2>2. CASE b = at
    BY <1>2, <1>5, <2>1, <2>2 DEF ProgressOK
  <2>3. CASE b # at
    <3>1. refs'[b] = refs[b] /\ info'[b] = info[b]
      BY <1>2, <1>5, <2>3 DEF ProgressOK
    <3>2. b < at + 1 <=> b < at
      BY <2>1, <2>3
    <3> QED BY <1>1, <1>2, <3>1, <3>2 DEF ProgressOK
  <2> QED BY <2>2, <2>3
<1>10. ProgressOK'
  BY <1>1, <1>6, <1>8, <1>9 DEF ProgressOK, Blocks, Fixed
<1> QED BY <1>1, <1>3, <1>10 DEF AliasIInv

(* Once every block is collected, none is traced. *)
LEMMA CollectEndOK ==
  ASSUME AliasIInv, CollectEnd PROVE AliasIInv'
<1>1. /\ Fixed /\ UNCHANGED <<refs, info, stack, seen>> /\ pass = "collect" /\ at >= NumBlocks
      /\ pass' = "trace" /\ at' = 0
  BY DEF CollectEnd, Fixed
<1>2. SourceOK /\ ProgressOK /\ at = NumBlocks /\ \A b \in Blocks : b < at /\ ~(b < 0)
  BY <1>1, AliasAssumption DEF AliasIInv, SourceOK, Blocks
<1>3. SourceOK'
  <2>1. 0 \in 0..NumBlocks
    BY AliasAssumption
  <2> QED BY <1>1, <1>2, <2>1 DEF SourceOK, Fixed, Blocks, RefSeqs, Graphs, ExitsOf
<1>4. \A b \in Blocks : /\ (LastRecord(b))' = LastRecord(b)
                        /\ (Collected(b))' = Collected(b)
  BY <1>1, <1>2, FixedFacts
<1>5. \A b \in Blocks : refs'[b] = Collected(b) /\ info'[b] = LastRecord(b)
  BY <1>1, <1>2 DEF ProgressOK
<1>6. ProgressOK'
  BY <1>1, <1>2, <1>4, <1>5 DEF ProgressOK, Blocks
<1> QED BY <1>1, <1>3, <1>6 DEF AliasIInv

(* A block is done with: its last store is killed if nothing reads it. *)
LEMMA Passed ==
  ASSUME AliasIInv, Fixed, info' = info, at < NumBlocks, at' = at + 1,
         pass \in {"trace", "search"}, pass' = "trace", stack' = <<>>, seen' = {},
         refs' = [refs EXCEPT ![at] = Traced(at)]
  PROVE  AliasIInv'
<1>1. SourceOK /\ ProgressOK /\ at \in Blocks /\ at + 1 \in 0..NumBlocks
  BY AliasAssumption DEF AliasIInv, SourceOK, Blocks
<1>2. SourceOK'
  BY <1>1 DEF SourceOK, Fixed, Blocks, RefSeqs, Graphs, ExitsOf
<1>3. \A b \in Blocks : /\ (LastRecord(b))' = LastRecord(b)
                        /\ (Collected(b))' = Collected(b)
                        /\ (Traced(b))' = Traced(b)
  BY <1>1, FixedFacts
<1>4. refs' \in [Blocks -> Seq(Refs \cup {"nop"})]
  BY <1>1, LeftFacts DEF ProgressOK
<1>5. \A b \in Blocks : /\ refs'[b] = IF b < at + 1 THEN Traced(b) ELSE Collected(b)
                        /\ info'[b] = LastRecord(b)
  <2> TAKE b \in Blocks
  <2>1. b \in Int /\ at \in Int
    BY <1>1 DEF Blocks
  <2>2. CASE b = at
    BY <1>1, <2>1, <2>2 DEF ProgressOK
  <2>3. CASE b # at
    <3>1. refs'[b] = refs[b]
      BY <1>1, <2>3 DEF ProgressOK
    <3>2. b < at + 1 <=> b < at
      BY <2>1, <2>3
    <3> QED BY <1>1, <3>1, <3>2 DEF ProgressOK
  <2> QED BY <2>2, <2>3
<1>6. ProgressOK'
  BY <1>1, <1>3, <1>4, <1>5 DEF ProgressOK, Blocks, Fixed
<1> QED BY <1>2, <1>6 DEF AliasIInv

(* Nothing is killed in a block whose last store is read. *)
LEMMA PassedAlive ==
  ASSUME AliasIInv, Fixed, UNCHANGED <<info, refs>>, at < NumBlocks, at' = at + 1,
         pass \in {"trace", "search"}, pass' = "trace", stack' = <<>>, seen' = {}, ~DeadEnd(at)
  PROVE  AliasIInv'
<1>1. SourceOK /\ ProgressOK /\ at \in Blocks /\ ~(at < at)
  BY AliasAssumption DEF AliasIInv, SourceOK, Blocks
<1>2. refs[at] = Collected(at) /\ Traced(at) = Collected(at)
  <2>1. refs[at] = Collected(at)
    BY <1>1 DEF ProgressOK
  <2>2. DOMAIN source[at] = 1..Len(source[at])
    BY <1>1, RefSeqFacts DEF SourceOK
  <2>3. Traced(at) = [i \in DOMAIN source[at] |-> Collected(at)[i]]
    BY DEF Traced
  <2>4. Traced(at) = Collected(at)
    BY <2>3 DEF Collected
  <2> QED BY <2>1, <2>4
<1>3. refs' = [refs EXCEPT ![at] = Traced(at)]
  BY <1>1, <1>2 DEF ProgressOK
<1> QED BY <1>3, Passed

(* A block whose last store is read in it, or that has none, is left as it is. *)
LEMMA TraceSkipOK ==
  ASSUME AliasIInv, TraceSkip PROVE AliasIInv'
<1>1. /\ Fixed /\ UNCHANGED <<refs, info, pass, stack, seen>> /\ pass = "trace" /\ at' = at + 1
      /\ at < NumBlocks /\ (~info[at].has_set \/ info[at].set_used)
  BY DEF TraceSkip, Fixed
<1>2. at \in Blocks /\ info[at] = LastRecord(at) /\ stack = <<>> /\ seen = {}
  BY <1>1, AliasAssumption DEF AliasIInv, SourceOK, ProgressOK, Blocks
<1>3. ~DeadEnd(at)
  BY <1>1, <1>2 DEF DeadEnd
<1> QED BY <1>1, <1>2, <1>3, PassedAlive

(* The pass is done when every block has been traced. *)
LEMMA TraceEndOK ==
  ASSUME AliasIInv, TraceEnd PROVE AliasIInv'
<1>1. Fixed /\ UNCHANGED <<refs, info, at, stack, seen>> /\ pass = "trace" /\ pass' = "done"
  BY DEF TraceEnd, Fixed
<1>2. at = NumBlocks
  BY AliasAssumption DEF TraceEnd, AliasIInv, SourceOK
<1>3. SourceOK' /\ ProgressOK'
  BY <1>1, <1>2, Untouched DEF AliasIInv
<1> QED BY <1>1, <1>3 DEF AliasIInv

(*************************** One step of a search ***************************)

Frame      == [blk : Blocks, exit : 1..2]
Frames(st) == {st[i] : i \in DOMAIN st}
OneEach(st) == \A i, j \in DOMAIN st : st[i].blk = st[j].blk => i = j

(* The stack as a set of frames, one for each block in it: taking the last one off... *)
LEMMA FramesWithoutLast ==
  ASSUME NEW st \in Seq(Frame), st # <<>>, OneEach(st)
  PROVE  /\ Last(st) \in Frames(st) /\ Last(st) \in Frame
         /\ Front(st) \in Seq(Frame) /\ OneEach(Front(st))
         /\ Frames(Front(st)) = {f \in Frames(st) : f.blk # Last(st).blk}
         /\ \A f \in Frames(st) : f.blk = Last(st).blk => f = Last(st)
<1> DEFINE n == Len(st)
<1>1. n \in Nat /\ n > 0 /\ DOMAIN st = 1..n /\ \A i \in 1..n : st[i] \in Frame
  <2>1. n \in Nat /\ DOMAIN st = 1..n /\ \A i \in 1..n : st[i] \in Frame
    OBVIOUS
  <2>2. n # 0
    OBVIOUS
  <2> QED BY <2>1, <2>2
<1>2. Last(st) = st[n]
  BY DEF Last
<1>3. Front(st) = [i \in 1..(n - 1) |-> st[i]]
  BY <1>1 DEF Front
<1> HIDE DEF n
<1>4. Front(st) \in Seq(Frame) /\ DOMAIN Front(st) = 1..(n - 1)
  BY <1>1, <1>3
<1>5. \A i \in 1..n : i \in 1..(n - 1) <=> i # n
  BY <1>1
<1>6. \A i \in 1..n : i \in 1..(n - 1) <=> st[i].blk # st[n].blk
  BY <1>1, <1>5 DEF OneEach
<1>7. 1..(n - 1) \subseteq 1..n
  BY <1>1
<1>8. Frames(Front(st)) = {f \in Frames(st) : f.blk # Last(st).blk}
  BY <1>1, <1>2, <1>3, <1>4, <1>6, <1>7 DEF Frames
<1>9. OneEach(Front(st))
  BY <1>1, <1>3, <1>4, <1>7 DEF OneEach
<1>10. \A f \in Frames(st) : f.blk = Last(st).blk => f = Last(st)
  BY <1>1, <1>2 DEF Frames, OneEach
<1> QED BY <1>1, <1>2, <1>4, <1>8, <1>9, <1>10 DEF Frames

(* ... and putting another on. *)
LEMMA FramesWithAnother ==
  ASSUME NEW st \in Seq(Frame), OneEach(st), NEW g \in Frame, \A f \in Frames(st) : f.blk # g.blk
  PROVE  /\ Append(st, g) \in Seq(Frame) /\ OneEach(Append(st, g))
         /\ Frames(Append(st, g)) = Frames(st) \cup {g}
<1> DEFINE n == Len(st)
           t == Append(st, g)
<1>1. n \in Nat /\ DOMAIN st = 1..n
  OBVIOUS
<1>2. t \in Seq(Frame) /\ DOMAIN t = 1..(n + 1) /\ t[n + 1] = g /\ \A i \in 1..n : t[i] = st[i]
  BY <1>1
<1>3. 1..(n + 1) = 1..n \cup {n + 1}
  BY <1>1
<1> HIDE DEF t, n
<1>4. Frames(t) = Frames(st) \cup {g}
  BY <1>1, <1>2, <1>3 DEF Frames
<1>5. OneEach(t)
  BY <1>1, <1>2, <1>3 DEF OneEach, Frames
<1> QED BY <1>2, <1>4, <1>5 DEF t

(* What waits on the stack, in terms of its frames. *)
LEMMA WaitingFrames ==
  /\ \A b, k : Waiting(b, k) <=> \E f \in Frames(stack) : f.blk = b /\ f.exit >= k
  /\ \A b, k : (Waiting(b, k))' <=> \E f \in Frames(stack') : f.blk = b /\ f.exit >= k
  BY DEF Waiting, Frames

(* What a search has found out so far, of its frames. *)
LEMMA SearchFrames ==
  ASSUME AliasIInv, pass = "search"
  PROVE  /\ SourceOK /\ ProgressOK /\ at \in Blocks /\ info[at].has_set /\ ~info[at].set_used
         /\ stack \in Seq(Frame) /\ OneEach(stack) /\ seen \subseteq Blocks /\ Searched \subseteq Blocks
         /\ \A f \in Frames(stack) : f \in Frame /\ f.blk \in Searched /\ (Through(f.blk) => Through(at))
         /\ \A b \in seen : ~info[b].has_get
         /\ \A b \in Searched :
              /\ exits[b] = <<>> => ~bound \/ Waiting(b, 1)
              /\ exits[b] # <<>> => exits[b][1] \in seen \/ Waiting(b, 1)
              /\ Len(exits[b]) = 2 => exits[b][2] \in seen \/ Waiting(b, 2)
         /\ \A b \in Blocks : info[b] = LastRecord(b)
<1>1. SourceOK /\ ProgressOK /\ SearchOK
  BY DEF AliasIInv
<1>2. at \in Blocks
  BY <1>1, AliasAssumption DEF SourceOK, SearchOK, Blocks
<1>3. stack \in Seq(Frame) /\ OneEach(stack)
  BY <1>1 DEF SearchOK, Frame, OneEach
<1>4. \A f \in Frames(stack) : f \in Frame
  BY <1>3 DEF Frames
<1>5. \A f \in Frames(stack) : f.blk \in Searched /\ (Through(f.blk) => Through(at))
  BY <1>1 DEF SearchOK, Frames
<1>6. \A b \in Blocks : info[b] = LastRecord(b)
  BY <1>1 DEF ProgressOK
<1>7. Searched \subseteq Blocks
  BY <1>1, <1>2 DEF SearchOK, Searched
<1> QED BY <1>1, <1>2, <1>3, <1>4, <1>5, <1>6, <1>7 DEF SearchOK

(* What is wanted on entry to a block that only passes the value on is wanted on the
   way out of each block before it. *)
LEMMA WantedBefore ==
  ASSUME SourceOK, NEW b \in Blocks, NEW e \in Blocks, e \in ToSet(exits[b])
  PROVE  /\ LastRecord(e).has_get => Through(b)
         /\ ~LastRecord(e).has_set /\ Through(e) => Through(b)
<1>1. e \in WantedBlocks <=> Wants(e, WantedBlocks)
  BY WantedFacts
<1>2. e \in WantedBlocks => Through(b)
  BY DEF Through
<1>3. LastRecord(e).has_get => ReadIn(e, 1)
  BY LastRecordFacts
<1>4. ~LastRecord(e).has_set => Passes(e, 1)
  BY LastRecordFacts
<1>5. Passes(e, 1) /\ Through(e) => Wants(e, WantedBlocks)
  BY DEF Through, Wants
<1> QED BY <1>1, <1>2, <1>3, <1>4, <1>5 DEF Wants

(* A step of the search replaces the frame on top of the stack by what is left to do of
   it, and by frames for the exits E it has now seen that go on searching. *)
LEMMA Advance ==
  ASSUME AliasIInv, Searching, Fixed, UNCHANGED <<refs, info, pass, at>>,
         NEW T, T \subseteq {[blk |-> Top.blk, exit |-> 1]},
         NEW E \in SUBSET Blocks, E \cap seen = {}, seen' = seen \cup E,
         \A e \in E : ~info[e].has_get /\ e \in ToSet(exits[Top.blk]),
         stack' \in Seq(Frame), OneEach(stack'),
         Frames(stack') = {f \in Frames(stack) : f.blk # Top.blk} \cup T
                            \cup {[blk |-> e, exit |-> 2] : e \in {c \in E : ~info[c].has_set}},
         exits[Top.blk] = <<>> => ~bound \/ T # {},
         exits[Top.blk] # <<>> => exits[Top.blk][1] \in seen' \/ T # {},
         Len(exits[Top.blk]) = 2 => exits[Top.blk][2] \in seen'
  PROVE  AliasIInv'
<1> DEFINE x == Top.blk
           N == {c \in E : ~info[c].has_set}
<1>1. /\ SourceOK /\ ProgressOK /\ at \in Blocks /\ info[at].has_set /\ ~info[at].set_used
      /\ stack \in Seq(Frame) /\ OneEach(stack) /\ seen \subseteq Blocks /\ Searched \subseteq Blocks
      /\ \A f \in Frames(stack) : f \in Frame /\ f.blk \in Searched /\ (Through(f.blk) => Through(at))
      /\ \A b \in seen : ~info[b].has_get
      /\ \A b \in Searched :
           /\ exits[b] = <<>> => ~bound \/ Waiting(b, 1)
           /\ exits[b] # <<>> => exits[b][1] \in seen \/ Waiting(b, 1)
           /\ Len(exits[b]) = 2 => exits[b][2] \in seen \/ Waiting(b, 2)
      /\ \A b \in Blocks : info[b] = LastRecord(b)
  BY SearchFrames DEF Searching
<1>2. stack # <<>> /\ Top \in Frames(stack) /\ Top \in Frame /\ x \in Searched /\ x \in Blocks
  BY <1>1, FramesWithoutLast DEF Searching, Top
<1>3. SourceOK' /\ ProgressOK'
  BY <1>1, Untouched DEF SourceOK, ProgressOK
<1>4. \A b \in Blocks : (Through(b))' <=> Through(b)
  BY <1>1, FixedFacts
<1>5. Searched' = Searched \cup N
  BY DEF Searched
<1>6. \A f \in Frames(stack') :
        \/ f \in Frames(stack) /\ f.blk # x
        \/ T # {} /\ f.blk = x
        \/ \E e \in N : f.blk = e
  OBVIOUS
<1>7. \A e \in N : [blk |-> e, exit |-> 2] \in Frames(stack')
  OBVIOUS
<1>8. T # {} => [blk |-> x, exit |-> 1] \in Frames(stack')
  OBVIOUS
<1>9. \A f \in Frames(stack) : f.blk # x => f \in Frames(stack')
  OBVIOUS
<1>10. \A e \in N : e \in E /\ e \in Blocks /\ ~info[e].has_set /\ e \in ToSet(exits[x])
  OBVIOUS
<1> HIDE DEF x, N
<1>11. \A f \in Frames(stack') : f.blk \in Searched'
  BY <1>1, <1>2, <1>5, <1>6
<1>12. \A f \in Frames(stack') : (Through(f.blk) => Through(at))'
  <2> TAKE f \in Frames(stack')
  <2>1. f.blk \in Blocks
    BY <1>1, <1>2, <1>6, <1>10
  <2>2. Through(f.blk) => Through(at)
    <3>1. CASE f \in Frames(stack)
      BY <1>1, <3>1
    <3>2. CASE f.blk = x
      <4>1. Top.blk = x
        BY DEF x
      <4> QED BY <1>1, <1>2, <3>2, <4>1
    <3>3. ASSUME NEW e \in N, f.blk = e PROVE Through(f.blk) => Through(at)
      <4>1. Through(e) => Through(x)
        BY <1>1, <1>2, <1>10, WantedBefore
      <4>2. Through(x) => Through(at)
        BY <1>1, <1>2 DEF x
      <4> QED BY <3>3, <4>1, <4>2
    <3> QED BY <1>6, <3>1, <3>2, <3>3
  <2> QED BY <1>1, <1>4, <2>1, <2>2
<1>13. \A b \in seen' : ~info'[b].has_get
  BY <1>1
<1>14. ASSUME NEW b \in Searched'
       PROVE  /\ exits'[b] = <<>> => ~bound' \/ (Waiting(b, 1))'
              /\ exits'[b] # <<>> => exits'[b][1] \in seen' \/ (Waiting(b, 1))'
              /\ Len(exits'[b]) = 2 => exits'[b][2] \in seen' \/ (Waiting(b, 2))'
  <2>1. exits' = exits /\ bound' = bound
    BY DEF Fixed
  <2>2. CASE b = x
    <3>1. T # {} => (Waiting(b, 1))'
      <4>1. T # {} => \E f \in Frames(stack') : f.blk = b /\ f.exit >= 1
        <5> DEFINE g == [blk |-> x, exit |-> 1]
        <5>1. g.blk = b /\ g.exit >= 1
          BY <2>2
        <5> QED BY <1>8, <5>1
      <4> QED BY <4>1, WaitingFrames
    <3> QED BY <2>1, <2>2, <3>1 DEF x
  <2>3. CASE b \in N
    <3>1. (Waiting(b, 1))' /\ (Waiting(b, 2))'
      <4> DEFINE g == [blk |-> b, exit |-> 2]
      <4>1. g.blk = b /\ g.exit >= 1 /\ g.exit >= 2
        OBVIOUS
      <4>2. g \in Frames(stack')
        BY <1>7, <2>3, Zenon
      <4> HIDE DEF g
      <4> QED BY <4>1, <4>2, WaitingFrames
    <3> QED BY <3>1
  <2>4. CASE b # x /\ b \notin N
    <3>1. b \in Searched
      BY <1>5, <2>4
    <3>2. \A k : Waiting(b, k) => (Waiting(b, k))'
      BY <1>9, <2>4, WaitingFrames
    <3> QED BY <1>1, <2>1, <3>1, <3>2
  <2> QED BY <2>2, <2>3, <2>4
<1>15. SearchOK'
  <2>1. at' < NumBlocks /\ info'[at'].has_set /\ ~info'[at'].set_used
    BY <1>1, AliasAssumption DEF Blocks
  <2>2. stack' \in Seq([blk : Blocks, exit : 1..2]) /\ seen' \subseteq Blocks
    BY <1>1 DEF Frame
  <2>3. \A i, j \in DOMAIN stack' : stack'[i].blk = stack'[j].blk => i = j
    BY DEF OneEach
  <2>4. \A i \in DOMAIN stack' : stack'[i].blk \in Searched' /\ (Through(stack[i].blk) => Through(at))'
    BY <1>11, <1>12 DEF Frames
  <2> QED BY <1>13, <1>14, <2>1, <2>2, <2>3, <2>4 DEF SearchOK, Blocks
<1>16. pass' = "search"
  BY DEF Searching
<1> QED BY <1>3, <1>15, <1>16 DEF AliasIInv

(* The value is found to be wanted. *)
LEMMA FoundOK ==
  ASSUME AliasIInv, Searching, Fixed, UNCHANGED <<refs, info>>, Found, Through(Top.blk)
  PROVE  AliasIInv'
<1>1. /\ at \in Blocks /\ stack \in Seq(Frame) /\ OneEach(stack)
      /\ \A f \in Frames(stack) : Through(f.blk) => Through(at)
  BY SearchFrames DEF Searching
<1>2. Top \in Frames(stack)
  BY <1>1, FramesWithoutLast DEF Searching, Top
<1>3. ~DeadEnd(at)
  BY <1>1, <1>2 DEF DeadEnd
<1>4. at < NumBlocks
  BY <1>1, AliasAssumption DEF Blocks
<1> QED BY <1>3, <1>4, PassedAlive DEF Found, Searching

(* A block that leaves the unit either has storage to be seen in, or is done with. *)
LEMMA LeaveUnitOK ==
  ASSUME AliasIInv, LeaveUnit PROVE AliasIInv'
<1>1. /\ Searching /\ Fixed /\ UNCHANGED <<refs, info>> /\ exits[Top.blk] = <<>>
      /\ bound => Found
      /\ ~bound => GoOnWith(Below, seen)
  BY DEF LeaveUnit, Fixed, VisibleAtExit
<1>2. CASE bound
  <2>1. Through(Top.blk)
    BY <1>1, <1>2 DEF Through
  <2> QED BY <1>1, <1>2, <2>1, FoundOK
<1>3. CASE ~bound
  <2>1. UNCHANGED <<pass, at>> /\ stack' = Below /\ seen' = seen
    BY <1>1, <1>3 DEF GoOnWith
  <2>2. stack \in Seq(Frame) /\ OneEach(stack) /\ stack # <<>>
    BY <1>1, SearchFrames DEF Searching
  <2>3. /\ Below \in Seq(Frame) /\ OneEach(Below)
        /\ Frames(Below) = {f \in Frames(stack) : f.blk # Top.blk}
    BY <2>2, FramesWithoutLast DEF Top, Below
  <2>4. Len(exits[Top.blk]) # 2
    BY <1>1
  <2> DEFINE T == {}
             E == {}
  <2>5. /\ T \subseteq {[blk |-> Top.blk, exit |-> 1]}
        /\ E \in SUBSET Blocks /\ E \cap seen = {} /\ seen' = seen \cup E
        /\ \A e \in E : ~info[e].has_get /\ e \in ToSet(exits[Top.blk])
        /\ stack' \in Seq(Frame) /\ OneEach(stack')
        /\ Frames(stack') = {f \in Frames(stack) : f.blk # Top.blk} \cup T
                            \cup {[blk |-> e, exit |-> 2] : e \in {c \in E : ~info[c].has_set}}
    BY <2>1, <2>3
  <2> HIDE DEF T, E
  <2> QED BY <1>1, <1>3, <2>1, <2>4, <2>5, Advance
<1> QED BY <1>2, <1>3

(* The second exit has been looked at: the block is left with its first one. *)
LEMMA SecondExitOK ==
  ASSUME AliasIInv, SecondExit PROVE AliasIInv'
<1> DEFINE x == Top.blk
           e == exits[x][2]
           g == [Top EXCEPT !.exit = 1]
           T == {[blk |-> x, exit |-> 1]}
<1>1. /\ Searching /\ Fixed /\ UNCHANGED <<refs, info>> /\ exits[x] # <<>>
      /\ IF Len(exits[x]) = 2 /\ e \notin seen
         THEN IF info[e].has_get THEN Found
              ELSE IF info[e].has_set THEN GoOnWith(FirstExitNext, SeenSecond(e))
              ELSE GoOnWith(Append(FirstExitNext, [blk |-> e, exit |-> 2]), SeenSecond(e))
         ELSE GoOnWith(FirstExitNext, seen)
  BY DEF SecondExit, Fixed
<1>2. /\ SourceOK /\ stack \in Seq(Frame) /\ OneEach(stack) /\ stack # <<>> /\ Searched \subseteq Blocks
      /\ \A f \in Frames(stack) : f.blk \in Searched
      /\ \A b \in Blocks : info[b] = LastRecord(b)
      /\ at \in Blocks /\ info[at].has_set
  BY <1>1, SearchFrames DEF Searching
<1>3. /\ Below \in Seq(Frame) /\ OneEach(Below) /\ Top \in Frame /\ Top \in Frames(stack)
      /\ Frames(Below) = {f \in Frames(stack) : f.blk # x}
  BY <1>2, FramesWithoutLast DEF Top, Below
<1>4. g \in Frame /\ g = [blk |-> x, exit |-> 1] /\ x \in Blocks
  BY <1>3 DEF Frame
<1>5. FirstExitNext = Append(Below, g)
  BY DEF FirstExitNext
<1>6. /\ Len(exits[x]) = 2 => e \in Blocks /\ e \in ToSet(exits[x])
      /\ exits[x] # <<>>
  BY <1>1, <1>2, <1>4, ExitFacts
<1> HIDE DEF x, e, g
<1>7. /\ FirstExitNext \in Seq(Frame) /\ OneEach(FirstExitNext)
      /\ Frames(FirstExitNext) = {f \in Frames(stack) : f.blk # x} \cup T
  <2>1. \A f \in Frames(Below) : f.blk # g.blk
    BY <1>3, <1>4
  <2> QED BY <1>3, <1>4, <1>5, <2>1, FramesWithAnother
<1>8. T \subseteq {[blk |-> Top.blk, exit |-> 1]} /\ T # {}
  BY DEF x
<1>9. ASSUME NEW E \in SUBSET Blocks, E \cap seen = {}, GoOnWith(stack', seen \cup E),
             Len(exits[x]) = 2 => e \in seen \cup E,
             \A c \in E : ~info[c].has_get /\ c \in ToSet(exits[x]),
             stack' \in Seq(Frame), OneEach(stack'),
             Frames(stack') = ({f \in Frames(stack) : f.blk # x} \cup T)
                                \cup {[blk |-> d, exit |-> 2] : d \in {c \in E : ~info[c].has_set}}
      PROVE  AliasIInv'
  <2>1. UNCHANGED <<refs, info, pass, at>> /\ seen' = seen \cup E
    BY <1>1, <1>9 DEF GoOnWith
  <2> HIDE DEF T
  <2> QED BY <1>1, <1>8, <1>9, <2>1, Advance DEF x, e
<1>10. CASE ~(Len(exits[x]) = 2 /\ e \notin seen)
  <2>1. stack' = FirstExitNext /\ GoOnWith(stack', seen \cup {})
    BY <1>1, <1>10 DEF GoOnWith
  <2>2. {[blk |-> d, exit |-> 2] : d \in {c \in {} : ~info[c].has_set}} = {}
    OBVIOUS
  <2> HIDE DEF T
  <2> DEFINE E == {}
  <2>3. /\ E \in SUBSET Blocks /\ E \cap seen = {} /\ GoOnWith(stack', seen \cup E)
        /\ Len(exits[x]) = 2 => e \in seen \cup E
        /\ \A c \in E : ~info[c].has_get /\ c \in ToSet(exits[x])
        /\ Frames(stack') = ({f \in Frames(stack) : f.blk # x} \cup T)
                                \cup {[blk |-> d, exit |-> 2] : d \in {c \in E : ~info[c].has_set}}
    BY <1>7, <1>10, <2>1, <2>2
  <2> HIDE DEF E
  <2> QED BY <1>7, <1>9, <2>1, <2>3
<1>11. CASE Len(exits[x]) = 2 /\ e \notin seen
  <2>1. /\ e \in Blocks /\ info[e] = LastRecord(e) /\ x \in Blocks /\ e \in ToSet(exits[x])
    BY <1>2, <1>4, <1>6, <1>11
  <2>2. CASE info[e].has_get
    <3>1. Through(x)
      BY <1>2, <2>1, <2>2, WantedBefore
    <3> QED BY <1>1, <1>11, <2>2, <3>1, FoundOK DEF x
  <2>3. CASE ~info[e].has_get /\ info[e].has_set
    <3>1. stack' = FirstExitNext /\ GoOnWith(stack', seen \cup {e})
      BY <1>1, <1>11, <2>3 DEF GoOnWith, SeenSecond
    <3>2. {c \in {e} : ~info[c].has_set} = {}
      BY <2>3
    <3>3. {[blk |-> d, exit |-> 2] : d \in {c \in {e} : ~info[c].has_set}} = {}
      BY <3>2
    <3> HIDE DEF T
    <3> DEFINE E == {e}
    <3>4. /\ E \in SUBSET Blocks /\ E \cap seen = {} /\ GoOnWith(stack', seen \cup E)
          /\ Len(exits[x]) = 2 => e \in seen \cup E
          /\ \A c \in E : ~info[c].has_get /\ c \in ToSet(exits[x])
          /\ Frames(stack') = ({f \in Frames(stack) : f.blk # x} \cup T)
                                \cup {[blk |-> d, exit |-> 2] : d \in {c \in E : ~info[c].has_set}}
      BY <1>7, <1>11, <2>1, <2>3, <3>1, <3>3
    <3> HIDE DEF E
    <3> QED BY <1>7, <1>9, <3>1, <3>4
  <2>4. CASE ~info[e].has_get /\ ~info[e].has_set
    <3> DEFINE h == [blk |-> e, exit |-> 2]
    <3>1. stack' = Append(FirstExitNext, h) /\ GoOnWith(stack', seen \cup {e})
      BY <1>1, <1>11, <2>4 DEF GoOnWith, SeenSecond
    <3>2. e \notin Searched
      BY <1>2, <1>11, <2>4 DEF Searched
    <3>3. x \in Searched
      BY <1>2, <1>3 DEF x
    <3>4. \A f \in Frames(FirstExitNext) : f.blk # e
      BY <1>2, <1>7, <3>2, <3>3
    <3>5. h \in Frame /\ h.blk = e
      BY <2>1 DEF Frame
    <3>6. {[blk |-> d, exit |-> 2] : d \in {c \in {e} : ~info[c].has_set}} = {h}
      BY <2>4
    <3> HIDE DEF h
    <3>7. stack' \in Seq(Frame) /\ OneEach(stack') /\ Frames(stack') = Frames(FirstExitNext) \cup {h}
      BY <1>7, <3>1, <3>4, <3>5, FramesWithAnother
    <3> HIDE DEF T
    <3> DEFINE E == {e}
    <3>8. /\ E \in SUBSET Blocks /\ E \cap seen = {} /\ GoOnWith(stack', seen \cup E)
          /\ Len(exits[x]) = 2 => e \in seen \cup E
          /\ \A c \in E : ~info[c].has_get /\ c \in ToSet(exits[x])
          /\ Frames(stack') = ({f \in Frames(stack) : f.blk # x} \cup T)
                                \cup {[blk |-> d, exit |-> 2] : d \in {c \in E : ~info[c].has_set}}
      BY <1>7, <1>11, <2>1, <2>4, <3>1, <3>6, <3>7
    <3> HIDE DEF E
    <3> QED BY <1>9, <3>7, <3>8
  <2> QED BY <2>2, <2>3, <2>4
<1> QED BY <1>10, <1>11

(* The first exit takes the place of its block. *)
LEMMA FirstExitOK ==
  ASSUME AliasIInv, FirstExit PROVE AliasIInv'
<1> DEFINE x == Top.blk
           e == exits[x][1]
<1>1. /\ Searching /\ Fixed /\ UNCHANGED <<refs, info>> /\ exits[x] # <<>> /\ Top.exit = 1
      /\ IF e \in seen THEN GoOnWith(Below, seen)
         ELSE IF info[e].has_get THEN Found
         ELSE IF info[e].has_set THEN GoOnWith(Below, seen \cup {e})
         ELSE GoOnWith(Append(Below, [blk |-> e, exit |-> 2]), seen \cup {e})
  BY DEF FirstExit, Fixed, FirstExitSet
<1>2. /\ SourceOK /\ stack \in Seq(Frame) /\ OneEach(stack) /\ stack # <<>> /\ Searched \subseteq Blocks
      /\ \A f \in Frames(stack) : f.blk \in Searched
      /\ \A b \in Blocks : info[b] = LastRecord(b)
      /\ at \in Blocks /\ info[at].has_set
      /\ \A b \in Searched : Len(exits[b]) = 2 => exits[b][2] \in seen \/ Waiting(b, 2)
  BY <1>1, SearchFrames DEF Searching
<1>3. /\ Below \in Seq(Frame) /\ OneEach(Below) /\ Top \in Frame /\ Top \in Frames(stack)
      /\ Frames(Below) = {f \in Frames(stack) : f.blk # x}
      /\ \A f \in Frames(stack) : f.blk = x => f = Top
  BY <1>2, FramesWithoutLast DEF Top, Below
<1>4. x \in Blocks /\ x \in Searched
  BY <1>2, <1>3 DEF Frame
<1>5. e \in Blocks /\ e \in ToSet(exits[x])
  BY <1>1, <1>2, <1>4, ExitFacts
<1>6. Len(exits[x]) = 2 => exits[x][2] \in seen
  <2>1. ~Waiting(x, 2)
    <3>1. \A f \in Frames(stack) : f.blk = x => ~(f.exit >= 2)
      BY <1>1, <1>3
    <3> QED BY <3>1, WaitingFrames
  <2> QED BY <1>2, <1>4, <2>1
<1> HIDE DEF x, e
<1>7. ASSUME NEW E \in SUBSET Blocks, E \cap seen = {}, GoOnWith(stack', seen \cup E),
             e \in seen \cup E,
             \A c \in E : ~info[c].has_get /\ c \in ToSet(exits[x]),
             stack' \in Seq(Frame), OneEach(stack'),
             Frames(stack') = Frames(Below) \cup {[blk |-> d, exit |-> 2] : d \in {c \in E : ~info[c].has_set}}
      PROVE  AliasIInv'
  <2>1. UNCHANGED <<refs, info, pass, at>> /\ seen' = seen \cup E
    BY <1>1, <1>7 DEF GoOnWith
  <2> DEFINE T == {}
  <2>2. /\ T \subseteq {[blk |-> Top.blk, exit |-> 1]}
        /\ Frames(stack') = {f \in Frames(stack) : f.blk # x} \cup T
                            \cup {[blk |-> d, exit |-> 2] : d \in {c \in E : ~info[c].has_set}}
    BY <1>3, <1>7
  <2> HIDE DEF T
  <2>3. exits[x][1] \in seen' /\ (Len(exits[x]) = 2 => exits[x][2] \in seen')
    BY <1>6, <1>7, <2>1 DEF e
  <2> QED BY <1>1, <1>7, <2>1, <2>2, <2>3, Advance DEF x
<1>8. CASE e \in seen
  <2> DEFINE E == {}
  <2>1. {[blk |-> d, exit |-> 2] : d \in {c \in E : ~info[c].has_set}} = {}
    OBVIOUS
  <2>2. stack' = Below /\ GoOnWith(stack', seen \cup E)
    BY <1>1, <1>8 DEF GoOnWith
  <2>3. /\ E \in SUBSET Blocks /\ E \cap seen = {} /\ e \in seen \cup E
        /\ \A c \in E : ~info[c].has_get /\ c \in ToSet(exits[x])
        /\ Frames(stack') = Frames(Below) \cup {[blk |-> d, exit |-> 2] : d \in {c \in E : ~info[c].has_set}}
    BY <1>8, <2>1, <2>2
  <2> HIDE DEF E
  <2> QED BY <1>3, <1>7, <2>2, <2>3
<1>9. CASE e \notin seen
  <2> DEFINE E == {e}
  <2>1. E \in SUBSET Blocks /\ E \cap seen = {} /\ e \in seen \cup E /\ info[e] = LastRecord(e)
    BY <1>2, <1>5, <1>9
  <2>2. CASE info[e].has_get
    <3>1. Through(x)
      BY <1>2, <1>4, <1>5, <2>1, <2>2, WantedBefore
    <3> QED BY <1>1, <1>9, <2>2, <3>1, FoundOK DEF x
  <2>3. CASE ~info[e].has_get /\ info[e].has_set
    <3>1. stack' = Below /\ GoOnWith(stack', seen \cup E)
      BY <1>1, <1>9, <2>3 DEF GoOnWith
    <3>2. {c \in E : ~info[c].has_set} = {}
      BY <2>3
    <3>3. Frames(stack') = Frames(Below) \cup {[blk |-> d, exit |-> 2] : d \in {c \in E : ~info[c].has_set}}
      BY <3>1, <3>2
    <3>4. \A c \in E : ~info[c].has_get /\ c \in ToSet(exits[x])
      BY <1>5, <2>3
    <3> HIDE DEF E
    <3> QED BY <1>3, <1>7, <2>1, <3>1, <3>3, <3>4
  <2>4. CASE ~info[e].has_get /\ ~info[e].has_set
    <3> DEFINE h == [blk |-> e, exit |-> 2]
    <3>1. stack' = Append(Below, h) /\ GoOnWith(stack', seen \cup E)
      BY <1>1, <1>9, <2>4 DEF GoOnWith
    <3>2. e \notin Searched
      BY <1>2, <1>9, <2>4 DEF Searched
    <3>3. \A f \in Frames(Below) : f.blk # e
      BY <1>2, <1>3, <3>2
    <3>4. h \in Frame /\ h.blk = e
      BY <1>5 DEF Frame
    <3>5. {[blk |-> d, exit |-> 2] : d \in {c \in E : ~info[c].has_set}} = {h}
      BY <2>4
    <3>6. \A c \in E : ~info[c].has_get /\ c \in ToSet(exits[x])
      BY <1>5, <2>4
    <3> HIDE DEF E, h
    <3>7. stack' \in Seq(Frame) /\ OneEach(stack') /\ Frames(stack') = Frames(Below) \cup {h}
      BY <1>3, <3>1, <3>3, <3>4, FramesWithAnother
    <3> QED BY <1>7, <2>1, <3>1, <3>5, <3>6, <3>7
  <2> QED BY <2>2, <2>3, <2>4
<1> QED BY <1>8, <1>9

(* A search starts with the block of the store. *)
LEMMA TraceBeginOK ==
  ASSUME AliasIInv, TraceBegin PROVE AliasIInv'
<1> DEFINE f == [blk |-> at, exit |-> 2]
<1>1. /\ Fixed /\ UNCHANGED <<refs, info, at>> /\ pass = "trace" /\ pass' = "search"
      /\ stack' = <<f>> /\ seen' = {} /\ at < NumBlocks /\ info[at].has_set /\ ~info[at].set_used
  BY DEF TraceBegin, Fixed
<1>2. SourceOK /\ ProgressOK /\ at \in Blocks /\ f \in [blk : Blocks, exit : 1..2]
  BY <1>1, AliasAssumption DEF AliasIInv, SourceOK, Blocks
<1>3. SourceOK' /\ ProgressOK'
  BY <1>1, <1>2, Untouched
<1>4. f.blk = at /\ f.exit = 2
  OBVIOUS
<1> HIDE DEF f
<1>5. stack' \in Seq([blk : Blocks, exit : 1..2]) /\ DOMAIN stack' = {1} /\ stack'[1] = f
  BY <1>1, <1>2
<1>6. Searched' = {at}
  BY <1>1 DEF Searched
<1>7. (Waiting(at, 1))' /\ (Waiting(at, 2))'
  <2>1. 2 >= 1 /\ 2 >= 2 /\ at' = at /\ stack'[1].blk = at /\ stack'[1].exit = 2 /\ 1 \in DOMAIN stack'
    BY <1>1, <1>4, <1>5
  <2>2. \A b, k : (Waiting(b, k))' <=> \E i \in DOMAIN stack' : stack'[i].blk = b /\ stack'[i].exit >= k
    BY DEF Waiting
  <2> QED BY <2>1, <2>2
<1>8. SearchOK'
  BY <1>1, <1>4, <1>5, <1>6, <1>7 DEF SearchOK, Blocks, Waiting
<1> QED BY <1>1, <1>3, <1>8 DEF AliasIInv

(* A search that comes to its end has seen every block there is a path to, and none of
   them reads the value: the blocks not seen are closed under Wants. *)
LEMMA NothingFound ==
  ASSUME AliasIInv, pass = "search", stack = <<>>
  PROVE  ~Through(at)
<1> DEFINE V == Blocks \ seen
<1>1. /\ SourceOK /\ at \in Blocks /\ seen \subseteq Blocks
      /\ \A b \in seen : ~info[b].has_get
      /\ \A b \in Searched :
           /\ exits[b] = <<>> => ~bound \/ Waiting(b, 1)
           /\ exits[b] # <<>> => exits[b][1] \in seen \/ Waiting(b, 1)
           /\ Len(exits[b]) = 2 => exits[b][2] \in seen \/ Waiting(b, 2)
      /\ \A b \in Blocks : info[b] = LastRecord(b)
  BY SearchFrames
<1>2. \A b, k : ~Waiting(b, k)
  BY DEF Waiting
<1>3. \A b \in Searched \cap Blocks : (exits[b] = <<>> => ~bound) /\ \A c \in ToSet(exits[b]) : c \in seen
  BY <1>1, <1>2, ExitFacts
<1>4. ASSUME NEW b \in Blocks, Wants(b, V) PROVE b \in V
  <2> SUFFICES ASSUME b \in seen PROVE FALSE
    OBVIOUS
  <2>1. ~ReadIn(b, 1)
    BY <1>1, LastRecordFacts
  <2>2. Passes(b, 1)
    BY <1>4, <2>1 DEF Wants
  <2>3. b \in Searched
    BY <1>1, <2>2, LastRecordFacts DEF Searched
  <2>4. \A c \in ToSet(exits[b]) : c \notin V
    BY <1>3, <2>3
  <2> QED BY <1>3, <1>4, <2>1, <2>3, <2>4 DEF Wants
<1>5. WantedBlocks \subseteq V
  <2> V \in SUBSET Blocks
    OBVIOUS
  <2> HIDE DEF V
  <2> QED BY <1>4, WantedFacts
<1>6. at \in Searched
  BY DEF Searched
<1> QED BY <1>1, <1>3, <1>5, <1>6 DEF Through

(* A store that the search finds no reader of is dead, and killed. *)
LEMMA NotVisibleOK ==
  ASSUME AliasIInv, NotVisible PROVE AliasIInv'
<1> DEFINE k == info[at].set_insn
<1>1. /\ Fixed /\ UNCHANGED <<info, stack>> /\ pass = "search" /\ stack = <<>>
      /\ pass' = "trace" /\ at' = at + 1 /\ seen' = {}
      /\ refs' = [refs EXCEPT ![at] = [@ EXCEPT ![k] = "nop"]]
  BY DEF NotVisible, Fixed, Killed
<1>2. /\ SourceOK /\ ProgressOK /\ at \in Blocks /\ ~(at < at) /\ at < NumBlocks
      /\ info[at] = LastRecord(at) /\ info[at].has_set /\ ~info[at].set_used
  BY <1>1, SearchFrames, AliasAssumption DEF Blocks
<1>3. DeadEnd(at)
  BY <1>1, <1>2, NothingFound DEF DeadEnd
<1>4. refs[at] = Collected(at)
  BY <1>1, <1>2 DEF ProgressOK
<1>5. k = LastRecord(at).set_insn /\ k \in DOMAIN source[at]
  BY <1>2, LastRecordFacts
<1>6. Traced(at) = [Collected(at) EXCEPT ![k] = "nop"]
  BY <1>3, <1>5 DEF Traced, Collected
<1>7. refs' = [refs EXCEPT ![at] = Traced(at)]
  BY <1>1, <1>4, <1>6
<1> QED BY <1>1, <1>2, <1>7, Passed

(* AliasIInv is an invariant of the pass, by its actions. *)
LEMMA AliasInvariant == AliasSpec => []AliasIInv
<1>1. ASSUME AliasIInv, [AliasNext]_aliasVars PROVE AliasIInv'
  <2>1. CASE UNCHANGED aliasVars
    <3>1. Fixed /\ UNCHANGED <<refs, info, pass, at, stack, seen>>
      BY <2>1 DEF aliasVars, Fixed
    <3>2. SourceOK' /\ ProgressOK'
      BY <1>1, <3>1, Untouched DEF AliasIInv, SourceOK, ProgressOK
    <3>3. pass = "search" => SearchOK'
      <4> SUFFICES ASSUME pass = "search" PROVE SearchOK'
        OBVIOUS
      <4>1. SourceOK /\ SearchOK
        BY <1>1 DEF AliasIInv
      <4>2. \A b \in Blocks : (Through(b))' <=> Through(b)
        BY <3>1, <4>1, FixedFacts
      <4>3. at \in Blocks /\ Searched \subseteq Blocks
        BY <1>1, SearchFrames
      <4>4. \A i \in DOMAIN stack : (Through(stack[i].blk) => Through(at))'
        BY <3>1, <4>1, <4>2, <4>3 DEF SearchOK
      <4> QED BY <3>1, <4>1, <4>4 DEF SearchOK, Searched, Waiting, Fixed, Blocks
    <3> QED BY <1>1, <3>1, <3>2, <3>3 DEF AliasIInv
  <2>2. CASE AliasNext
    BY <1>1, <2>2, NoMemoryOK, CollectOK, CollectEndOK, TraceSkipOK, TraceBeginOK, LeaveUnitOK,
       SecondExitOK, FirstExitOK, NotVisibleOK, TraceEndOK DEF AliasNext
  <2> QED BY <1>1, <2>1, <2>2
<1> QED BY <1>1, InitOK, PTL DEF AliasSpec

(**************************** What the pass does ****************************)

(* A search never has more frames than there are blocks. *)
LEMMA StackBound ==
  ASSUME AliasIInv
  PROVE  stack \in Seq(Frame) /\ Len(stack) <= NumBlocks + 1
<1>1. CASE pass # "search"
  BY <1>1, AliasAssumption DEF AliasIInv
<1>2. CASE pass = "search"
  <2> DEFINE n == Len(stack)
             f == [i \in 1..n |-> stack[i].blk]
  <2>1. stack \in Seq(Frame) /\ OneEach(stack)
    BY <1>2, SearchFrames
  <2>2. n \in Nat /\ DOMAIN stack = 1..n /\ \A i \in 1..n : stack[i].blk \in Blocks
    <3>1. n \in Nat /\ DOMAIN stack = 1..n /\ \A i \in 1..n : stack[i] \in Frame
      BY <2>1
    <3> QED BY <3>1 DEF Frame
  <2>3. f \in [1..n -> Blocks] /\ \A i, j \in 1..n : f[i] = f[j] => i = j
    BY <2>1, <2>2 DEF OneEach
  <2> HIDE DEF f, n
  <2>4. f \in Injection(1..n, Blocks)
    BY <2>3 DEF Injection, IsInjective
  <2>5. NumBlocks - 1 \in Int /\ ~(0 > NumBlocks - 1) /\ (NumBlocks - 1) - 0 + 1 = NumBlocks
    BY AliasAssumption
  <2>6. IsFiniteSet(Blocks) /\ Cardinality(Blocks) = NumBlocks
    BY <2>5, FS_Interval DEF Blocks
  <2>7. Cardinality(1..n) = n
    <3>1. 1 > n => n = 0
      BY <2>2
    <3>2. (n - 1) + 1 = n
      BY <2>2
    <3> QED BY <2>2, <3>1, <3>2, FS_Interval
  <2>8. n <= NumBlocks
    BY <2>4, <2>6, <2>7, FS_Injection
  <2> QED BY <2>1, <2>2, <2>8, AliasAssumption DEF n
<1> QED BY <1>1, <1>2

(* The invariant says what is left of each block, so it says which stores are killed. *)
LEMMA InvariantMeans ==
  ASSUME AliasIInv PROVE AliasInv
<1>1. SourceOK /\ ProgressOK
  BY DEF AliasIInv
<1>2. \A b \in Blocks : refs[b] \in {source[b], Collected(b), Traced(b)}
  BY <1>1 DEF ProgressOK
<1>3. \A b \in Blocks : /\ refs[b] \in Seq(Refs \cup {"nop"}) /\ Len(refs[b]) = Len(source[b])
                        /\ DOMAIN source[b] = 1..Len(source[b])
  BY <1>1, <1>2, LeftFacts
<1>4. AliasTypeOK
  <2>1. stack \in Seq([blk : Blocks, exit : 1..2]) /\ Len(stack) <= NumBlocks + 1
    BY StackBound DEF Frame
  <2>2. seen \subseteq Blocks
    BY DEF AliasIInv, SearchOK
  <2>3. at \in 0..NumBlocks /\ pass \in {"collect", "trace", "search", "done", "skipped"}
    BY <1>1 DEF SourceOK
  <2>4. info \in [Blocks -> [has_set : BOOLEAN, has_get : BOOLEAN, set_used : BOOLEAN, set_insn : 0..3]]
    BY <1>1 DEF ProgressOK
  <2> QED BY <1>3, <2>1, <2>2, <2>3, <2>4 DEF AliasTypeOK
<1>5. ASSUME NEW b \in Blocks, NEW i \in DOMAIN source[b]
      PROVE  /\ Collected(b)[i] = IF Overwritten(source[b], i) THEN "nop" ELSE source[b][i]
             /\ Traced(b)[i] = IF DeadEnd(b) /\ i = LastRecord(b).set_insn THEN "nop" ELSE Collected(b)[i]
             /\ source[b][i] # "nop"
  BY <1>1, RefSeqFacts DEF Collected, Traced, SourceOK, Refs
<1>6. ASSUME NEW b \in Blocks, NEW i \in DOMAIN source[b], source[b][i] = "set"
      PROVE  Wanted(b, i + 1) <=> Traced(b)[i] = "set"
  <2>1. /\ LastRecord(b).has_set
        /\ i # LastRecord(b).set_insn => (Overwritten(source[b], i) <=> ~Wanted(b, i + 1))
        /\ i = LastRecord(b).set_insn => ~Overwritten(source[b], i)
        /\ i = LastRecord(b).set_insn => (Wanted(b, i + 1) <=> LastRecord(b).set_used \/ Through(b))
    BY <1>1, <1>6, OverwrittenFacts
  <2> QED BY <1>5, <1>6, <2>1 DEF DeadEnd
<1>7. NoWantedStoreKilled
  <2> SUFFICES ASSUME NEW b \in Blocks, NEW i \in DOMAIN source[b],
                      source[b][i] = "set", refs[b][i] = "nop"
               PROVE  ~Wanted(b, i + 1)
    BY DEF NoWantedStoreKilled
  <2>1. Traced(b)[i] # "set"
    BY <1>2, <1>5
  <2> QED BY <1>6, <2>1
<1>8. DeadStoresKilled
  <2> SUFFICES ASSUME pass = "done", NEW b \in Blocks, NEW i \in DOMAIN source[b], refs[b][i] = "set"
               PROVE  Wanted(b, i + 1)
    BY DEF DeadStoresKilled
  <2>1. at = NumBlocks /\ b < at
    BY <1>1, AliasAssumption DEF ProgressOK, Blocks
  <2>2. refs[b] = Traced(b)
    BY <1>1, <2>1 DEF ProgressOK
  <2>3. source[b][i] = "set"
    BY <1>5, <2>2
  <2> QED BY <1>6, <2>2, <2>3
<1> QED BY <1>4, <1>7, <1>8 DEF AliasInv

(* rtl_opt_alias_data_flow(), for any flow graph and any references: no store is killed
   whose value a GET_ALIAS, a call of its own block or the caller can still read, and in
   the end none is left that nothing can read.  Only a call without a store before it in
   its own block may have a store taken from it. *)
THEOREM AliasFlowIsExact == AliasSpec => []AliasInv
<1>1. AliasSpec => []AliasIInv
  BY AliasInvariant
<1>2. AliasIInv => AliasInv
  BY InvariantMeans
<1> QED BY <1>1, <1>2, PTL
=============================================================================
