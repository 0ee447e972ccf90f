---------------------------- MODULE HostEdges_proofs ----------------------------
(* The edges that the register allocator leaves are those that HostReload starts from,
   for every unit that a front end may hand over and every number of host registers. *)
EXTENDS HostCode_proofs

(************************** Live ranges over loops **************************)

(* What is live on entry to a loop is live to the end of each block that goes back
   to it, of which min_death is at least the last. *)
Backward(s, t) == {b \in Range(s.blocks[t].entries) : t <= b}
Spans(c, s, t) == \A b \in Backward(s, t) :
  /\ s.blocks[b].last <= c.binfo[t].min_death
  /\ \A r \in DOMAIN c.death : r < s.blocks[t].first /\ s.blocks[t].first <= c.death[r]
                                 => s.blocks[b].last <= c.death[r]
Looped(c, s, T) == \A t \in T : Spans(c, s, t)

(* The entries of a block are blocks of the unit. *)
LEMMA BackwardFacts ==
  ASSUME NEW s, IsSkeleton(s), NEW t \in DOMAIN s.blocks
  PROVE  /\ Range(s.blocks[t].entries) \subseteq DOMAIN s.blocks
         /\ Backward(s, t) \subseteq DOMAIN s.blocks /\ DOMAIN s.blocks \subseteq Nat
         /\ IsFiniteSet(DOMAIN s.blocks) /\ t \in Nat
<1>1. s.blocks[t].entries \in Seq(DOMAIN s.blocks)
  BY DEF IsSkeleton, IsBlocks
<1>2. Range(s.blocks[t].entries) \subseteq DOMAIN s.blocks
  BY <1>1 DEF Range
<1> QED BY <1>2 DEF Backward, IsSkeleton, IsBlocks

(* Blocks are in the order of their instructions. *)
LEMMA BlockOrder ==
  ASSUME NEW s, IsSkeleton(s), NEW b \in DOMAIN s.blocks, NEW e \in DOMAIN s.blocks
  PROVE  /\ b < e => s.blocks[b].last < s.blocks[e].first /\ s.blocks[b].first < s.blocks[e].first
                       /\ s.blocks[b].last < s.blocks[e].last
         /\ b <= e => s.blocks[b].first <= s.blocks[e].first /\ s.blocks[b].last <= s.blocks[e].last
<1>1. /\ b \in Nat /\ e \in Nat
      /\ s.blocks[b].first \in Int /\ s.blocks[b].last \in Int /\ s.blocks[b].first <= s.blocks[b].last
      /\ s.blocks[e].first \in Int /\ s.blocks[e].last \in Int /\ s.blocks[e].first <= s.blocks[e].last
  BY BlockFacts
<1>2. b < e => s.blocks[b].last < s.blocks[e].first
  BY DEF IsSkeleton, IsBlocks
<1>3. b <= e => b < e \/ b = e
  BY <1>1
<1> QED BY <1>1, <1>2, <1>3

(* rtl_update_live_ranges() sees to that for one block, and undoes it for none. *)
LEMMA LoopSpans ==
  ASSUME NEW s, IsSkeleton(s), NEW b \in DOMAIN s.blocks, NEW c, Shape(c, s), MinDeaths(c, s),
         Looped(c, s, Before(s, b)), NEW d, d = ExtendOverLoop(c, b)
  PROVE  /\ Looped(d, s, Before(s, b) \cup {b}) /\ DOMAIN d.death = DOMAIN c.death
         /\ \A r \in DOMAIN c.death : c.death[r] <= d.death[r]
<1> DEFINE N == Len(s.insns)
           first  == c.blocks[b].first
           S      == Range(c.blocks[b].entries)
           latest == Latest(S \cup {None})
           until  == c.blocks[latest].last
           extended(r) == IF r < first /\ c.death[r] >= first THEN Later(c.death[r], until)
                          ELSE c.death[r]
           f == [r \in DOMAIN c.death |-> extended(r)]
<1>1. /\ DOMAIN c = CtxFields /\ c.blocks = s.blocks /\ DOMAIN c.death = 1..N
      /\ \A r \in 1..N : c.death[r] \in Int
      /\ DOMAIN c.binfo = DOMAIN s.blocks /\ DOMAIN c.binfo[b] = BlockFields
  BY DEF Shape
<1>2. d = IF latest < b THEN c ELSE [c EXCEPT !.binfo[b].min_death = until, !.death = f]
  BY DEF ExtendOverLoop
<1>3. /\ S \subseteq DOMAIN s.blocks /\ DOMAIN s.blocks \subseteq Nat /\ IsFiniteSet(DOMAIN s.blocks)
      /\ b \in Nat /\ Backward(s, b) = {e \in S : b <= e}
  BY <1>1, BackwardFacts DEF Backward
<1>4. first \in Int /\ first = s.blocks[b].first
  BY <1>1, BlockFacts
<1> HIDE DEF S
<1>5. latest \in S \cup {None} /\ \A e \in S : e <= latest
  <2>1. S \subseteq Nat /\ IsFiniteSet(S)
    BY <1>3, FS_Subset
  <2> QED BY <2>1, LatestOrNone
<1> HIDE DEF latest, first
<1>6. CASE latest < b
  <2>1. latest \in Int /\ \A e \in S : e \in Int
    BY <1>3, <1>5 DEF None
  <2>2. Backward(s, b) = {}
    BY <1>3, <1>5, <1>6, <2>1
  <2>3. d = c
    BY <1>2, <1>6
  <2>4. \A r \in DOMAIN c.death : c.death[r] <= d.death[r]
    BY <1>1, <2>3
  <2> QED BY <2>2, <2>3, <2>4 DEF Looped, Spans
<1>7. CASE ~(latest < b)
  <2>1. latest \in DOMAIN s.blocks
    BY <1>3, <1>5, <1>7 DEF None
  <2>2. until \in Int /\ \A e \in Backward(s, b) : s.blocks[e].last <= until
    <3>1. until \in Int
      BY <1>1, <2>1, BlockFacts
    <3>2. ASSUME NEW e \in Backward(s, b) PROVE s.blocks[e].last <= until
      <4>1. e \in DOMAIN s.blocks /\ e <= latest
        BY <1>3, <1>5
      <4> QED BY <1>1, <2>1, <4>1, BlockOrder
    <3> QED BY <3>1, <3>2
  <2> HIDE DEF until
  <2>3. /\ DOMAIN f = 1..N /\ \A r \in 1..N : f[r] \in Int /\ c.death[r] <= f[r]
        /\ \A r \in 1..N : r < first /\ c.death[r] >= first => until <= f[r]
        /\ \A r \in 1..N : ~(r < first /\ c.death[r] >= first) => f[r] = c.death[r]
    BY <1>1, <2>2 DEF Later
  <2> HIDE DEF f
  <2>4. /\ d.death = f /\ d.binfo[b].min_death = until
        /\ \A e \in DOMAIN c.binfo : e # b => d.binfo[e] = c.binfo[e]
    BY <1>1, <1>2, <1>7 DEF CtxFields, BlockFields
  <2>5. ASSUME NEW t \in Before(s, b) \cup {b} PROVE Spans(d, s, t)
    <3>1. t \in DOMAIN s.blocks /\ t <= b /\ s.blocks[t].first \in Int /\ s.blocks[t].first <= first
      <4>1. t \in DOMAIN s.blocks /\ t <= b
        BY <1>3 DEF Before
      <4> QED BY <1>4, <4>1, BlockOrder, BlockFacts
    <3>2. \A e \in Backward(s, t) : e \in DOMAIN s.blocks /\ s.blocks[e].last \in Int
      BY <3>1, BackwardFacts, BlockFacts
    <3>3. CASE t = b
      <4>1. ASSUME NEW r \in 1..N, r < first, first <= f[r] PROVE until <= f[r]
        BY <1>1, <1>4, <2>3, <4>1
      <4>2. ASSUME NEW e \in Backward(s, b), NEW r \in 1..N, r < first, first <= f[r]
            PROVE  s.blocks[e].last <= f[r]
        BY <2>2, <2>3, <3>2, <3>3, <4>1, <4>2
      <4> QED BY <1>4, <2>2, <2>3, <2>4, <3>3, <4>2 DEF Spans
    <3>4. CASE t # b
      <4>1. t \in Before(s, b) /\ t \in DOMAIN c.binfo
        BY <1>1, <3>1, <3>4
      <4>2. Spans(c, s, t) /\ d.binfo[t] = c.binfo[t]
        BY <2>4, <3>4, <4>1 DEF Looped
      <4>3. ASSUME NEW e \in Backward(s, t), NEW r \in 1..N,
                   r < s.blocks[t].first, s.blocks[t].first <= f[r]
            PROVE  s.blocks[e].last <= f[r]
        <5>1. s.blocks[t].first <= c.death[r]
          BY <1>1, <1>4, <2>3, <3>1, <4>3
        <5>2. s.blocks[e].last <= c.death[r]
          BY <1>1, <4>2, <4>3, <5>1 DEF Spans
        <5> QED BY <1>1, <2>3, <3>2, <5>2
      <4>4. \A e \in Backward(s, t) : s.blocks[e].last <= d.binfo[t].min_death
        BY <4>2 DEF Spans
      <4> QED BY <2>3, <2>4, <4>3, <4>4 DEF Spans
    <3> QED BY <3>3, <3>4
  <2> QED BY <1>1, <2>3, <2>4, <2>5 DEF Looped
<1> QED BY <1>6, <1>7

(* How long update_alias_live_ranges() has a value live is to the end of each loop
   that it is live in. *)
LEMMA LiveUntilSpans ==
  ASSUME NEW s, IsSkeleton(s), NEW c, Shape(c, s), MinDeaths(c, s), NEW e \in Int,
         NEW x, x = LiveUntil(c, e)[Latest(DOMAIN c.blocks) + 1]
  PROVE  /\ x \in Int /\ e <= x
         /\ \A t \in DOMAIN s.blocks : s.blocks[t].first <= x => c.binfo[t].min_death <= x
<1> DEFINE n == Latest(DOMAIN c.blocks) + 1
           f == LiveUntil(c, e)
           Good == {k \in Nat : k <= n => /\ f[k] \in Int /\ e <= f[k]
                      /\ \A t \in DOMAIN s.blocks : t < k /\ s.blocks[t].first <= f[k]
                                                       => c.binfo[t].min_death <= f[k]}
<1>1. c.blocks = s.blocks /\ DOMAIN c.blocks \subseteq Nat /\ DOMAIN c.blocks # {}
      /\ IsFiniteSet(DOMAIN c.blocks)
  BY DEF Shape, IsSkeleton, IsBlocks
<1>2. n \in Nat /\ \A t \in DOMAIN s.blocks : t < n
  <2>1. PICK q \in Nat : \A i \in DOMAIN c.blocks : i <= q
    BY <1>1, Bounded
  <2>2. Latest(DOMAIN c.blocks) \in DOMAIN c.blocks /\ \A i \in DOMAIN c.blocks : i <= Latest(DOMAIN c.blocks)
    BY <1>1, <2>1, LatestIn
  <2> QED BY <1>1, <2>2
<1>3. \A k \in 0..n : f[k] = IF k = 0 THEN e ELSE Through(c, k - 1, f[k - 1])
  <2> HIDE DEF n, f
  <2>1. f = [k \in 0..n |-> IF k = 0 THEN e ELSE Through(c, k - 1, f[k - 1])]
    BY <1>2, LiveUntilRecur DEF n, f
  <2> QED BY <2>1
<1>4. x = f[n]
  OBVIOUS
<1> HIDE DEF f, n
<1>5. 0 \in Good
  <2>1. f[0] = e
    BY <1>2, <1>3
  <2> QED BY <1>1, <2>1
<1>6. ASSUME NEW k \in Nat, k \in Good PROVE k + 1 \in Good
  <2> DEFINE g == f[k + 1]
             Passes(t) == t < k + 1 /\ s.blocks[t].first <= g => c.binfo[t].min_death <= g
  <2> SUFFICES ASSUME k + 1 <= n
               PROVE  g \in Int /\ e <= g /\ \A t \in DOMAIN s.blocks : Passes(t)
    OBVIOUS
  <2>1. k + 1 \in 0..n /\ k + 1 # 0 /\ (k + 1) - 1 = k /\ k <= n
    BY <1>2
  <2>2. g = Through(c, k, f[k]) /\ f[k] \in Int /\ e <= f[k]
        /\ \A t \in DOMAIN s.blocks : t < k /\ s.blocks[t].first <= f[k] => c.binfo[t].min_death <= f[k]
    BY <1>3, <1>6, <2>1
  <2>3. k \in DOMAIN s.blocks => c.binfo[k].min_death \in Int
    BY <1>1 DEF MinDeaths
  <2>4. g \in Int /\ f[k] <= g /\ e <= g
    BY <1>1, <2>2, <2>3 DEF Through, Later
  <2>5. ASSUME NEW t \in DOMAIN s.blocks PROVE Passes(t)
    <3> SUFFICES ASSUME t < k + 1, s.blocks[t].first <= g PROVE c.binfo[t].min_death <= g
      OBVIOUS
    <3>1. t \in Nat /\ s.blocks[t].first \in Int /\ c.binfo[t].min_death \in Int
      BY <1>1, BlockFacts DEF MinDeaths
    <3>2. CASE t = k
      <4>1. CASE s.blocks[k].first <= f[k]
        BY <1>1, <2>2, <2>3, <3>2, <4>1 DEF Through, Later
      <4>2. CASE ~(s.blocks[k].first <= f[k])
        <5>1. g = f[k]
          BY <1>1, <2>2, <4>2 DEF Through
        <5> QED BY <3>2, <4>2, <5>1
      <4> QED BY <4>1, <4>2
    <3>3. CASE t # k
      <4>1. t < k
        BY <3>1, <3>3
      <4>2. CASE s.blocks[t].first <= f[k]
        BY <2>2, <2>4, <3>1, <4>1, <4>2
      <4>3. CASE ~(s.blocks[t].first <= f[k])
        <5>1. g # f[k]
          BY <4>3
        <5>2. k \in DOMAIN s.blocks /\ s.blocks[k].first <= f[k]
          BY <1>1, <2>2, <5>1 DEF Through
        <5>3. s.blocks[t].first <= s.blocks[k].first /\ s.blocks[k].first \in Int
          BY <4>1, <5>2, BlockOrder, BlockFacts
        <5> QED BY <2>2, <3>1, <4>3, <5>2, <5>3
      <4> QED BY <4>2, <4>3
    <3> QED BY <3>2, <3>3
  <2> QED BY <2>4, <2>5
<1> HIDE DEF Good
<1>7. n \in Good
  BY <1>2, <1>5, <1>6, Induction
<1> QED BY <1>2, <1>4, <1>7 DEF Good

(* So no loop is left half way, *)
LEMMA ExtendStoreSpans ==
  ASSUME NEW s, IsSkeleton(s), NEW c, Waits(c, s), Looped(c, s, DOMAIN s.blocks),
         NEW p \in DOMAIN s.blocks, NEW a \in Aliases, NEW d, d = ExtendStore(c, a, p)
  PROVE  Waits(d, s) /\ Looped(d, s, DOMAIN s.blocks) /\ d.insns = c.insns
<1> DEFINE N == Len(s.insns)
           r == c.binfo[p].store[a]
           e == c.blocks[p].last
           x == LiveUntil(c, e)[Latest(DOMAIN c.blocks) + 1]
<1>1. Between(c, s, 0) /\ MinDeaths(c, s) /\ Shape(c, s) /\ DOMAIN c = CtxFields
      /\ DOMAIN c.death = 1..N /\ \A q \in 1..N : c.death[q] \in Int
  BY DEF Waits, Between, Shape
<1>2. d = c \/ d = [c EXCEPT !.death[r] = x]
  BY DEF ExtendStore, LiveThrough
<1>3. e \in Int
  BY <1>1, BlockFacts DEF Shape
<1>4. x \in Int /\ \A t \in DOMAIN s.blocks : s.blocks[t].first <= x => c.binfo[t].min_death <= x
  <2> HIDE DEF e
  <2> QED BY <1>1, <1>3, LiveUntilSpans
<1>5. Waits(d, s)
  BY ExtendStoreWaits
<1> HIDE DEF x, r
<1>6. CASE d = [c EXCEPT !.death[r] = x]
  <2>1. d.insns = c.insns /\ d.binfo = c.binfo /\ d.death = [c.death EXCEPT ![r] = x]
    BY <1>1, <1>6 DEF CtxFields
  <2>2. ASSUME NEW t \in DOMAIN s.blocks PROVE Spans(d, s, t)
    <3>1. Spans(c, s, t)
      BY DEF Looped
    <3>2. c.binfo[t].min_death \in Int /\ \A b \in Backward(s, t) : s.blocks[b].last \in Int
      BY <1>1, BackwardFacts, BlockFacts DEF MinDeaths
    <3>3. ASSUME NEW b \in Backward(s, t), NEW q \in 1..N,
                 q < s.blocks[t].first, s.blocks[t].first <= d.death[q]
          PROVE  s.blocks[b].last <= d.death[q]
      <4>1. CASE q = r
        <5>1. d.death[q] = x
          BY <1>1, <2>1, <4>1
        <5>2. s.blocks[b].last <= c.binfo[t].min_death /\ c.binfo[t].min_death <= x
          BY <1>4, <3>1, <3>3, <5>1 DEF Spans
        <5> QED BY <1>4, <3>2, <5>1, <5>2
      <4>2. CASE q # r
        <5>1. d.death[q] = c.death[q]
          BY <1>1, <2>1, <4>2
        <5> QED BY <1>1, <3>1, <3>3, <5>1 DEF Spans
      <4> QED BY <4>1, <4>2
    <3>4. DOMAIN d.death = 1..N
      BY <1>1, <2>1
    <3> QED BY <2>1, <3>1, <3>3, <3>4 DEF Spans
  <2> QED BY <1>5, <2>1, <2>2 DEF Looped
<1> QED BY <1>2, <1>5, <1>6

(* whichever predecessors store the alias, *)
LEMMA ExtendAliasSpans ==
  ASSUME NEW s, IsSkeleton(s), NEW c, Waits(c, s), Looped(c, s, DOMAIN s.blocks),
         NEW b \in DOMAIN s.blocks, NEW a \in Aliases, NEW d, d = ExtendAlias(c, b, a)
  PROVE  Waits(d, s) /\ Looped(d, s, DOMAIN s.blocks) /\ d.insns = c.insns
<1> DEFINE entries == c.blocks[b].entries
           n == Len(entries)
           f == StoresExtended(c, b, a)
           Holds(g) == Waits(g, s) /\ Looped(g, s, DOMAIN s.blocks) /\ g.insns = c.insns
           Good == {k \in Nat : k <= n => Holds(f[k])}
<1>1. n \in Nat /\ \A k \in 1..n : entries[k] \in DOMAIN s.blocks
  <2>1. c.blocks = s.blocks
    BY DEF Waits, Between, Shape
  <2>2. entries \in Seq(DOMAIN s.blocks)
    BY <2>1 DEF IsSkeleton, IsBlocks
  <2> QED BY <2>2
<1>2. \A k \in 0..n : f[k] = IF k = 0 THEN c ELSE ExtendStore(f[k - 1], a, entries[k])
  <2> HIDE DEF n, f
  <2>1. f = [k \in 0..n |-> IF k = 0 THEN c ELSE ExtendStore(f[k - 1], a, entries[k])]
    BY <1>1, StoresExtendedRecur DEF n, f
  <2> QED BY <2>1
<1>3. d = c \/ d = f[n]
  BY DEF ExtendAlias
<1> HIDE DEF f, n, entries
<1>4. 0 \in Good
  BY <1>1, <1>2
<1>5. ASSUME NEW k \in Nat, k \in Good PROVE k + 1 \in Good
  <2> SUFFICES ASSUME k + 1 <= n PROVE Holds(f[k + 1])
    OBVIOUS
  <2>1. k + 1 \in 0..n /\ k + 1 \in 1..n /\ k + 1 # 0 /\ (k + 1) - 1 = k /\ k <= n
    BY <1>1
  <2>2. f[k + 1] = ExtendStore(f[k], a, entries[k + 1]) /\ Holds(f[k])
    BY <1>2, <1>5, <2>1
  <2>3. entries[k + 1] \in DOMAIN s.blocks
    BY <1>1, <2>1
  <2> QED BY <2>2, <2>3, ExtendStoreSpans
<1> HIDE DEF Good
<1>6. n \in Good
  BY <1>1, <1>4, <1>5, Induction
<1> QED BY <1>1, <1>3, <1>6 DEF Good

(* and whichever aliases the block loads. *)
LEMMA ExtendStoresSpans ==
  ASSUME NEW s, IsSkeleton(s), NEW c, Waits(c, s), Looped(c, s, DOMAIN s.blocks),
         NEW b \in DOMAIN s.blocks, NEW d, d = ExtendStores(c, b)
  PROVE  Looped(d, s, DOMAIN s.blocks) /\ d.insns = c.insns
<1> DEFINE n == NumAliases
           f == AliasesExtended(c, b)
           Holds(g) == Waits(g, s) /\ Looped(g, s, DOMAIN s.blocks) /\ g.insns = c.insns
           Good == {k \in Nat : k <= n => Holds(f[k])}
<1>1. n \in Nat
  BY HostsAssumption
<1>2. \A k \in 0..n : f[k] = IF k = 0 THEN c ELSE ExtendAlias(f[k - 1], b, k)
  <2> HIDE DEF n, f
  <2>1. f = [k \in 0..n |-> IF k = 0 THEN c ELSE ExtendAlias(f[k - 1], b, k)]
    BY <1>1, AliasesExtendedRecur DEF n, f
  <2> QED BY <2>1
<1>3. d = f[n]
  BY DEF ExtendStores
<1> HIDE DEF f
<1>4. 0 \in Good
  BY <1>1, <1>2
<1>5. ASSUME NEW k \in Nat, k \in Good PROVE k + 1 \in Good
  <2> SUFFICES ASSUME k + 1 <= n PROVE Holds(f[k + 1])
    OBVIOUS
  <2>1. k + 1 \in 0..n /\ k + 1 \in Aliases /\ k + 1 # 0 /\ (k + 1) - 1 = k /\ k <= n
    BY <1>1 DEF Aliases
  <2>2. f[k + 1] = ExtendAlias(f[k], b, k + 1) /\ Holds(f[k])
    BY <1>2, <1>5, <2>1
  <2> QED BY <2>1, <2>2, ExtendAliasSpans
<1> HIDE DEF Good
<1>6. n \in Good
  BY <1>1, <1>4, <1>5, Induction
<1> QED BY <1>1, <1>3, <1>6 DEF Good

(******************************* First pass *******************************)

(* A value is live where it is stored in an alias; the blocks that the first pass has
   not come to store none; and an instruction is one of the skeleton's, but that a
   GET_ALIAS may have become a MOVE. *)
SetsLive(c) == \A n \in DOMAIN c.insns : c.insns[n].op = "set" => n <= c.death[c.insns[n].s1]
Blank(c, s, n) == \A b \in DOMAIN s.blocks : n < s.blocks[b].first =>
                    \A a \in Aliases : c.binfo[b].store[a] = 0
CodeFrom(c, s) == \A n \in DOMAIN c.insns : \E i \in s.insns[n] :
                    c.insns[n] = i \/ (i.op = "get" /\ c.insns[n].op = "move")
StoresLive(c, s, b) == \A a \in Aliases :
  c.binfo[b].store[a] # 0 => s.blocks[b].first <= c.death[c.binfo[b].store[a]]
Living(c, s) == Looped(c, s, DOMAIN s.blocks) /\ SetsLive(c) /\ CodeFrom(c, s)
PassLives(c, s, b) == Living(c, s) /\ Blank(c, s, s.blocks[b].last) /\ StoresLive(c, s, b)

(* A step that is about one block's part in the pass leaves that alone. *)
LEMMA BlockLives ==
  ASSUME NEW s, NEW b, NEW c, NEW d, PassLives(c, s, b), IsSkeleton(s), b \in DOMAIN s.blocks,
         d.insns = c.insns, d.death = c.death,
         \A e \in DOMAIN s.blocks : d.binfo[e].min_death = c.binfo[e].min_death,
         \A e \in DOMAIN s.blocks : e # b => d.binfo[e].store = c.binfo[e].store,
         StoresLive(d, s, b)
  PROVE  PassLives(d, s, b)
<1>1. Looped(d, s, DOMAIN s.blocks)
  BY DEF PassLives, Living, Looped, Spans
<1>2. SetsLive(d) /\ CodeFrom(d, s)
  BY DEF PassLives, Living, SetsLive, CodeFrom
<1>3. Blank(d, s, s.blocks[b].last)
  <2>1. ~(s.blocks[b].last < s.blocks[b].first)
    BY BlockFacts
  <2> QED BY <2>1 DEF PassLives, Blank
<1> QED BY <1>1, <1>2, <1>3 DEF PassLives, Living

(* The value that a GET_ALIAS gets is live to there. *)
LEMMA MoveLives ==
  ASSUME NEW s, NEW b, NEW n, Here(s, b, n), NEW c, Passed(c, s, n - 1), PassLives(c, s, b),
         c.insns[n].op = "get", NEW r \in 1..Len(s.insns), NEW d, NEW i, i.op = "move",
         s.blocks[b].first <= r \/ s.blocks[b].first <= c.death[r],
         d = [c EXCEPT !.insns[n] = i, !.death[r] = Later(@, n)]
  PROVE  PassLives(d, s, b)
<1> DEFINE N == Len(s.insns)
           x == Later(c.death[r], n)
<1>1. /\ IsSkeleton(s) /\ b \in DOMAIN s.blocks /\ N \in Nat /\ n \in 1..N /\ n \in Int
      /\ n <= s.blocks[b].last /\ s.blocks[b].first <= n
  BY HereFacts DEF Here
<1>2. /\ DOMAIN c = CtxFields /\ DOMAIN c.insns = 1..N /\ DOMAIN c.death = 1..N
      /\ \A q \in 1..N : c.death[q] \in Int
      /\ CodeOK(c)
  BY DEF Passed, Shape
<1>3. /\ d.binfo = c.binfo /\ d.insns = [c.insns EXCEPT ![n] = i]
      /\ d.death = [c.death EXCEPT ![r] = x]
  BY <1>2 DEF CtxFields
<1>4. x \in Int /\ c.death[r] <= x /\ n <= x /\ (x = c.death[r] \/ x = n)
  BY <1>1, <1>2 DEF Later
<1> HIDE DEF x, N
<1>5. DOMAIN d.death = 1..N /\ \A q \in 1..N : d.death[q] \in Int /\ c.death[q] <= d.death[q]
  BY <1>2, <1>3, <1>4
<1>6. ASSUME NEW t \in DOMAIN s.blocks PROVE Spans(d, s, t)
  <2>1. Spans(c, s, t)
    BY DEF PassLives, Living, Looped
  <2>2. /\ s.blocks[t].first \in Int /\ \A e \in Backward(s, t) : s.blocks[e].last \in Int
        /\ s.blocks[b].first \in Int /\ s.blocks[b].last \in Int /\ t \in Nat /\ b \in Nat
    BY <1>1, BackwardFacts, BlockFacts
  <2>3. ASSUME NEW e \in Backward(s, t), NEW q \in 1..N,
               q < s.blocks[t].first, s.blocks[t].first <= d.death[q]
        PROVE  s.blocks[e].last <= d.death[q]
    <3>1. CASE s.blocks[t].first <= c.death[q]
      <4>1. s.blocks[e].last <= c.death[q]
        BY <1>2, <2>1, <2>3, <3>1 DEF Spans
      <4> QED BY <1>2, <1>5, <2>2, <4>1
    <3>2. CASE ~(s.blocks[t].first <= c.death[q])
      <4>1. q = r /\ x = n
        BY <1>2, <1>3, <1>4, <2>3, <3>2
      <4>2. s.blocks[t].first <= n
        BY <1>3, <1>2, <2>3, <4>1
      <4>3. t <= b
        <5>1. b < t => s.blocks[b].last < s.blocks[t].first
          BY <1>1, BlockOrder
        <5> QED BY <1>1, <2>2, <4>2, <5>1
      <4>4. s.blocks[t].first <= s.blocks[b].first
        BY <1>1, <4>3, BlockOrder
      <4> QED BY <1>2, <2>2, <2>3, <3>2, <4>1, <4>4
    <3> QED BY <3>1, <3>2
  <2> QED BY <1>3, <1>5, <2>1, <2>3 DEF Spans
<1>7. SetsLive(d)
  <2> SUFFICES ASSUME NEW k \in 1..N, d.insns[k].op = "set" PROVE k <= d.death[d.insns[k].s1]
    BY <1>2, <1>3 DEF SetsLive
  <2>1. k # n /\ d.insns[k] = c.insns[k]
    BY <1>1, <1>2, <1>3
  <2>2. k <= c.death[c.insns[k].s1]
    BY <1>2, <2>1 DEF PassLives, Living, SetsLive
  <2>3. c.insns[k].s1 \in 1..N
    <3>1. InsnOK(c.insns, k)
      BY <1>2 DEF CodeOK
    <3> QED BY <1>1, <2>1, <3>1 DEF InsnOK, SettersBefore
  <2> QED BY <1>2, <1>5, <2>1, <2>2, <2>3
<1>8. CodeFrom(d, s)
  <2> SUFFICES ASSUME NEW k \in 1..N
               PROVE  \E j \in s.insns[k] : d.insns[k] = j \/ (j.op = "get" /\ d.insns[k].op = "move")
    BY <1>2, <1>3 DEF CodeFrom
  <2>1. PICK j \in s.insns[k] : c.insns[k] = j \/ (j.op = "get" /\ c.insns[k].op = "move")
    BY <1>2 DEF PassLives, Living, CodeFrom
  <2>2. CASE k = n
    <3>1. j.op = "get" /\ d.insns[k].op = "move"
      BY <1>2, <1>3, <2>1, <2>2
    <3> QED BY <3>1
  <2>3. CASE k # n
    BY <1>2, <1>3, <2>1, <2>3
  <2> QED BY <2>2, <2>3
<1>9. Blank(d, s, s.blocks[b].last)
  BY <1>3 DEF PassLives, Blank
<1>10. StoresLive(d, s, b)
  <2> SUFFICES ASSUME NEW a \in Aliases, c.binfo[b].store[a] # 0
               PROVE  s.blocks[b].first <= d.death[c.binfo[b].store[a]]
    BY <1>3 DEF StoresLive
  <2>1. c.binfo[b].store[a] \in 1..(n - 1)
    BY <1>1 DEF Passed, StoresTo
  <2>2. s.blocks[b].first <= c.death[c.binfo[b].store[a]] /\ s.blocks[b].first \in Int
    BY <1>1, BlockFacts DEF PassLives, StoresLive
  <2>3. c.binfo[b].store[a] \in 1..N
    BY <1>1, <2>1
  <2> QED BY <1>2, <1>5, <2>2, <2>3
<1> QED BY <1>6, <1>7, <1>8, <1>9, <1>10 DEF PassLives, Living, Looped

(* So the first pass over an instruction leaves it, whichever it is, *)
LEMMA FirstPassInsnLives ==
  ASSUME NEW s, NEW b, NEW n, Here(s, b, n), NEW c, Passed(c, s, n - 1), PassLives(c, s, b),
         NEW d, d = FirstPassInsn(c, b, n)
  PROVE  PassLives(d, s, b)
<1> DEFINE i == c.insns[n]
           N == Len(s.insns)
<1>1. /\ IsSkeleton(s) /\ b \in DOMAIN s.blocks /\ n \in 1..N /\ n \in Int /\ N \in Nat
      /\ Shape(c, s) /\ CodeOK(c) /\ n <= s.blocks[b].last /\ s.blocks[b].first <= n
      /\ LoadsTo(c, s, n - 1) /\ StoresTo(c, s, n - 1) /\ s.blocks[b].first \in Int
  BY HereFacts DEF Here, Passed
<1>2. /\ DOMAIN c = CtxFields /\ n \in DOMAIN c.insns /\ DOMAIN c.binfo = DOMAIN s.blocks
      /\ \A e \in DOMAIN s.blocks : DOMAIN c.binfo[e] = BlockFields
      /\ DOMAIN c.binfo[b].store = Aliases /\ \A r \in 1..N : c.death[r] \in Int
      /\ DOMAIN c.insns = 1..N
  BY <1>1 DEF Shape
<1>3. InsnOK(c.insns, n)
  BY <1>1, <1>2 DEF CodeOK
<1>4. StoresLive(c, s, b)
  BY DEF PassLives
<1>5. CASE i.op = "get"
  <2> DEFINE a == i.x
             r == IF c.binfo[b].store[a] # 0 THEN c.binfo[b].store[a] ELSE c.binfo[b].load[a]
             j == [op |-> "move", s1 |-> r, s2 |-> 0, s3 |-> 0, x |-> 0]
  <2>1. d = FirstGet(c, b, n)
    BY <1>5 DEF FirstPassInsn, IsCall, NontailCalls
  <2>2. a \in Aliases
    BY <1>3, <1>5 DEF InsnOK
  <2>3. CASE r = 0
    <3>1. d = [c EXCEPT !.binfo[b].load[a] = n]
      BY <2>1, <2>3 DEF FirstGet
    <3>2. /\ d.insns = c.insns /\ d.death = c.death
          /\ \A e \in DOMAIN s.blocks : d.binfo[e].min_death = c.binfo[e].min_death
          /\ \A e \in DOMAIN s.blocks : d.binfo[e].store = c.binfo[e].store
      BY <1>1, <1>2, <3>1 DEF CtxFields, BlockFields
    <3>3. StoresLive(d, s, b)
      BY <1>1, <1>4, <3>2 DEF StoresLive
    <3> QED BY <1>1, <3>2, <3>3, BlockLives
  <2>4. CASE r # 0
    <3>1. d = [c EXCEPT !.insns[n] = j, !.death[r] = Later(@, n)]
      BY <2>1, <2>4 DEF FirstGet
    <3>2. r \in 1..N /\ (s.blocks[b].first <= r \/ s.blocks[b].first <= c.death[r])
      <4>1. CASE c.binfo[b].store[a] # 0
        <5>1. c.binfo[b].store[a] \in 1..(n - 1)
          BY <1>1, <2>2, <4>1 DEF StoresTo
        <5> QED BY <1>1, <1>4, <2>2, <4>1, <5>1 DEF StoresLive
      <4>2. CASE c.binfo[b].store[a] = 0
        <5>1. c.binfo[b].load[a] \in InBlock(s, b)
          BY <1>1, <2>2, <2>4, <4>2 DEF LoadsTo
        <5>2. s.blocks[b].first \in 1..N /\ s.blocks[b].last \in 1..N
          BY HereFacts
        <5> QED BY <1>1, <4>2, <5>1, <5>2 DEF InBlock
      <4> QED BY <4>1, <4>2
    <3>3. j.op = "move"
      OBVIOUS
    <3> HIDE DEF r, j
    <3> QED BY <1>5, <3>1, <3>2, <3>3, MoveLives
  <2> QED BY <2>3, <2>4
<1>6. CASE i.op = "set"
  <2>1. d = [c EXCEPT !.binfo[b].store[i.x] = i.s1]
    BY <1>6 DEF FirstPassInsn, IsCall, NontailCalls
  <2>2. /\ d.insns = c.insns /\ d.death = c.death
        /\ \A e \in DOMAIN s.blocks : d.binfo[e].min_death = c.binfo[e].min_death
        /\ \A e \in DOMAIN s.blocks : e # b => d.binfo[e].store = c.binfo[e].store
        /\ d.binfo[b].store = [c.binfo[b].store EXCEPT ![i.x] = i.s1]
    BY <1>1, <1>2, <2>1 DEF CtxFields, BlockFields
  <2>3. i.s1 \in 1..N /\ i.x \in Aliases
    BY <1>1, <1>3, <1>6 DEF InsnOK, SettersBefore
  <2>4. s.blocks[b].first <= c.death[i.s1]
    <3>1. n <= c.death[i.s1]
      BY <1>2, <1>6 DEF PassLives, Living, SetsLive
    <3> QED BY <1>1, <1>2, <2>3, <3>1
  <2>5. StoresLive(d, s, b)
    <3> HIDE DEF i
    <3> QED BY <1>2, <1>4, <2>2, <2>3, <2>4 DEF StoresLive
  <2> HIDE DEF i
  <2> QED BY <1>1, <2>2, <2>5, BlockLives
<1>7. CASE IsCall(c, n)
  <2>1. d = [c EXCEPT !.binfo[b].has_call = TRUE]
    <3>1. i.op \notin {"get", "set"}
      BY <1>7 DEF IsCall, NontailCalls
    <3> QED BY <1>7, <3>1 DEF FirstPassInsn
  <2>2. /\ d.insns = c.insns /\ d.death = c.death
        /\ \A e \in DOMAIN s.blocks : d.binfo[e].min_death = c.binfo[e].min_death
        /\ \A e \in DOMAIN s.blocks : d.binfo[e].store = c.binfo[e].store
    BY <1>1, <1>2, <2>1 DEF CtxFields, BlockFields
  <2>3. StoresLive(d, s, b)
    BY <1>1, <1>4, <2>2 DEF StoresLive
  <2> QED BY <1>1, <2>2, <2>3, BlockLives
<1>8. CASE i.op \notin {"get", "set"} /\ ~IsCall(c, n)
  <2>1. d = FixRegs(c, n)
    BY <1>8 DEF FirstPassInsn
  <2>2. d.insns = c.insns /\ d.death = c.death /\ d.binfo = c.binfo
    BY <1>1, <1>2, <2>1, FixRegsReserves DEF Reserves
  <2>3. StoresLive(d, s, b)
    BY <1>4, <2>2 DEF StoresLive
  <2> QED BY <1>1, <2>2, <2>3, BlockLives
<1> QED BY <1>5, <1>6, <1>7, <1>8

(* and over a block, to which the stores of its predecessor are forwarded. *)
LEMMA FirstPassLives ==
  ASSUME NEW s, NEW b, NEW m, Ahead(s, b, m), NEW c, Passed(c, s, m), Living(c, s), Blank(c, s, m),
         NEW d, d = FixedList(FirstPass(c, b))
  PROVE  Living(d, s) /\ Blank(d, s, s.blocks[b].last)
<1> DEFINE n == Size(c, b)
           f == FirstPassed(c, b)
           e == f[n]
           g == ForwardStores(e, b)
           Good == {k \in Nat : k <= n => Passed(f[k], s, m + k) /\ PassLives(f[k], s, b)}
<1>1. /\ n \in Nat /\ m \in Int /\ m + n = s.blocks[b].last
      /\ \A k \in 1..n : Here(s, b, Insn(c, b, k)) /\ Insn(c, b, k) = m + k
  <2>1. c.blocks = s.blocks
    BY DEF Passed, Shape
  <2>2. /\ Size(c, b) \in Nat /\ m + Size(c, b) = s.blocks[b].last
        /\ \A k \in 1..Size(c, b) : Here(s, b, Insn(c, b, k)) /\ Insn(c, b, k) = m + k
    BY <2>1, InsnHere
  <2> QED BY <2>2, AheadFacts
<1>2. \A k \in 0..n : f[k] = IF k = 0 THEN c ELSE FirstPassInsn(f[k - 1], b, Insn(c, b, k))
  <2> HIDE DEF n, f
  <2>1. f = [k \in 0..n |-> IF k = 0 THEN c ELSE FirstPassInsn(f[k - 1], b, Insn(c, b, k))]
    BY <1>1, FirstPassedRecur DEF n, f
  <2> QED BY <2>1
<1>3. d = FixedList(g)
  BY DEF FirstPass
<1> HIDE DEF f, n
<1>4. PassLives(c, s, b)
  <2>1. /\ b \in DOMAIN s.blocks /\ m < s.blocks[b].first /\ m < s.blocks[b].last
        /\ s.blocks[b].last \in Int /\ m \in Int /\ IsSkeleton(s)
        /\ \A x \in DOMAIN s.blocks : s.blocks[x].first \in Int
    BY AheadFacts, BlockFacts DEF Ahead
  <2>2. StoresLive(c, s, b)
    BY <2>1 DEF Blank, StoresLive
  <2>3. Blank(c, s, s.blocks[b].last)
    BY <2>1 DEF Blank
  <2> QED BY <2>2, <2>3 DEF PassLives
<1>5. 0 \in Good
  <2>1. m + 0 = m
    BY <1>1
  <2> QED BY <1>1, <1>2, <1>4, <2>1
<1>6. ASSUME NEW k \in Nat, k \in Good PROVE k + 1 \in Good
  <2> SUFFICES ASSUME k + 1 <= n
               PROVE  Passed(f[k + 1], s, m + (k + 1)) /\ PassLives(f[k + 1], s, b)
    OBVIOUS
  <2> DEFINE i == Insn(c, b, k + 1)
  <2>1. k + 1 \in 0..n /\ k + 1 \in 1..n /\ k + 1 # 0 /\ (k + 1) - 1 = k /\ k <= n
    BY <1>1
  <2>2. f[k + 1] = FirstPassInsn(f[k], b, i)
    BY <1>2, <2>1
  <2>3. Here(s, b, i) /\ i = m + (k + 1) /\ i - 1 = m + k
    BY <1>1, <2>1
  <2>4. Passed(f[k], s, i - 1) /\ PassLives(f[k], s, b)
    BY <1>6, <2>1, <2>3
  <2> HIDE DEF i
  <2>5. Passed(f[k + 1], s, i)
    BY <2>2, <2>3, <2>4, FirstPassInsnPasses
  <2>6. PassLives(f[k + 1], s, b)
    BY <2>2, <2>3, <2>4, FirstPassInsnLives
  <2> QED BY <2>3, <2>5, <2>6
<1> HIDE DEF Good
<1>7. n \in Good
  BY <1>1, <1>5, <1>6, Induction
<1>8. Passed(e, s, s.blocks[b].last) /\ PassLives(e, s, b)
  BY <1>1, <1>7 DEF Good
<1> HIDE DEF e
<1>9. /\ DOMAIN e = CtxFields /\ DOMAIN e.binfo = DOMAIN s.blocks /\ b \in DOMAIN s.blocks
      /\ \A x \in DOMAIN s.blocks : DOMAIN e.binfo[x] = BlockFields
      /\ IsSkeleton(s)
  BY <1>8 DEF Passed, Shape, Ahead
<1>10. /\ g.insns = e.insns /\ g.death = e.death /\ DOMAIN g = CtxFields
       /\ \A x \in DOMAIN s.blocks : g.binfo[x].min_death = e.binfo[x].min_death
       /\ \A x \in DOMAIN s.blocks : x # b => g.binfo[x].store = e.binfo[x].store
  <2> DEFINE F == [a \in Aliases |-> IF e.binfo[b].load[a] = 0 /\ e.binfo[b].store[a] = 0
                      THEN e.binfo[(e.blocks[b].entries)[1]].store[a] ELSE e.binfo[b].store[a]]
  <2>1. g = e \/ g = [e EXCEPT !.binfo[b].store = F]
    BY DEF ForwardStores
  <2> HIDE DEF F, g
  <2>2. CASE g = e
    BY <1>9, <2>2
  <2>3. CASE g = [e EXCEPT !.binfo[b].store = F]
    BY <1>9, <2>3 DEF CtxFields, BlockFields
  <2> QED BY <2>1, <2>2, <2>3
<1> HIDE DEF g
<1>11. d.insns = g.insns /\ d.death = g.death /\ d.binfo = g.binfo
  BY <1>3, <1>10 DEF FixedList, CtxFields
<1>12. Looped(d, s, DOMAIN s.blocks)
  BY <1>8, <1>10, <1>11 DEF PassLives, Living, Looped, Spans
<1>13. SetsLive(d) /\ CodeFrom(d, s)
  BY <1>8, <1>10, <1>11 DEF PassLives, Living, SetsLive, CodeFrom
<1>14. Blank(d, s, s.blocks[b].last)
  <2>1. ~(s.blocks[b].last < s.blocks[b].first)
    BY <1>9, BlockFacts
  <2> QED BY <1>8, <1>10, <1>11, <2>1 DEF PassLives, Blank
<1> QED BY <1>12, <1>13, <1>14 DEF Living

(* Where a pass has come to: the blocks before the next one are those before this one
   and this one, which are all at the end. *)
LEMMA BeforeFacts ==
  ASSUME NEW s, IsSkeleton(s), NEW b \in DOMAIN s.blocks
  PROVE  /\ s.blocks[b].first = 1 => Before(s, b) = {}
         /\ s.blocks[b].last = Len(s.insns) => DOMAIN s.blocks = Before(s, b) \cup {b}
         /\ \A e \in DOMAIN s.blocks : s.blocks[e].first - 1 = s.blocks[b].last =>
              Before(s, e) = Before(s, b) \cup {b}
<1>1. /\ b \in Nat /\ \A p \in DOMAIN s.blocks : p \in Nat
      /\ s.blocks[b].first \in 1..Len(s.insns) /\ s.blocks[b].last \in 1..Len(s.insns)
      /\ s.blocks[b].first <= s.blocks[b].last /\ Len(s.insns) \in Nat
      /\ \A p \in DOMAIN s.blocks : /\ s.blocks[p].first \in 1..Len(s.insns)
                                    /\ s.blocks[p].last \in 1..Len(s.insns)
                                    /\ s.blocks[p].first <= s.blocks[p].last
  BY BlockFacts
<1>2. \A p, e \in DOMAIN s.blocks : p < e => s.blocks[p].last < s.blocks[e].first
  BY BlockOrder
<1>3. ASSUME s.blocks[b].first = 1 PROVE Before(s, b) = {}
  <2> SUFFICES ASSUME NEW p \in DOMAIN s.blocks, p < b PROVE FALSE
    BY DEF Before
  <2>1. s.blocks[p].last < 1 /\ s.blocks[p].last \in 1..Len(s.insns)
    BY <1>1, <1>2, <1>3
  <2> QED BY <1>1, <2>1
<1>4. ASSUME s.blocks[b].last = Len(s.insns) PROVE DOMAIN s.blocks = Before(s, b) \cup {b}
  <2> SUFFICES ASSUME NEW p \in DOMAIN s.blocks, b < p PROVE FALSE
    BY <1>1 DEF Before
  <2>1. Len(s.insns) < s.blocks[p].first /\ s.blocks[p].first \in 1..Len(s.insns)
    BY <1>1, <1>2, <1>4
  <2> QED BY <1>1, <2>1
<1>5. ASSUME NEW e \in DOMAIN s.blocks, s.blocks[e].first - 1 = s.blocks[b].last
      PROVE  Before(s, e) = Before(s, b) \cup {b}
  <2>1. b < e
    <3>1. e < b => s.blocks[e].last < s.blocks[b].first
      BY <1>2
    <3>2. b # e
      BY <1>1, <1>5
    <3> QED BY <1>1, <1>5, <3>1, <3>2
  <2>2. ASSUME NEW p \in DOMAIN s.blocks, p < e PROVE p <= b
    <3>1. s.blocks[p].last < s.blocks[e].first
      BY <1>2, <2>2
    <3>2. b < p => s.blocks[b].last < s.blocks[p].first
      BY <1>2
    <3> QED BY <1>1, <1>5, <3>1, <3>2
  <2> QED BY <1>1, <2>1, <2>2 DEF Before
<1> QED BY <1>3, <1>4, <1>5

(* What the extension of live ranges over loops starts from and leaves, when it has
   dealt with the blocks in T. *)
Looping(c, s, T) == SetsLive(c) /\ CodeFrom(c, s) /\ Blank(c, s, 0) /\ Looped(c, s, T)

(* The context it starts from has each register live to its last use. *)
LEMMA ContextLives ==
  ASSUME NEW s, IsSkeleton(s), Drawn(s, insns), Len(insns) = Len(s.insns),
         NEW c, c = Context(insns, [r \in DOMAIN insns |-> LastUse(r)], s.blocks, s.opts)
  PROVE  Looping(c, s, {})
<1> DEFINE N == Len(s.insns)
<1>1. N \in Nat /\ DOMAIN insns = 1..N
  BY DEF Drawn
<1>2. /\ c.insns = insns /\ c.death = [r \in DOMAIN insns |-> LastUse(r)]
      /\ c.binfo = [b \in DOMAIN s.blocks |-> NoBlock]
  BY DEF Context
<1>3. \A n \in 1..N : InsnOK(insns, n)
  BY <1>1, ChosenOK
<1> HIDE DEF N
<1>4. SetsLive(c)
  <2> SUFFICES ASSUME NEW n \in 1..N, insns[n].op = "set" PROVE n <= LastUse(insns[n].s1)
    <3>1. \A n \in 1..N : insns[n].op = "set" => insns[n].s1 \in DOMAIN insns
      BY <1>1, <1>3 DEF InsnOK, SettersBefore
    <3> QED BY <1>1, <1>2, <3>1 DEF SetsLive
  <2> DEFINE r == insns[n].s1
             S == {r} \cup {k \in DOMAIN insns : r \in {insns[k].s1, insns[k].s2, insns[k].s3}}
  <2>1. r \in 1..N
    BY <1>1, <1>3 DEF InsnOK, SettersBefore
  <2>2. S \subseteq Nat /\ n \in S /\ \A j \in S : j <= N
    BY <1>1, <2>1
  <2>3. Latest(S) \in S /\ \A i \in S : i <= Latest(S)
    BY <1>1, <2>2, LatestIn
  <2>4. LastUse(r) = Latest(S)
    BY DEF LastUse
  <2> QED BY <2>2, <2>3, <2>4
<1>5. CodeFrom(c, s)
  BY <1>1, <1>2 DEF CodeFrom, Drawn, N
<1>6. Blank(c, s, 0)
  BY <1>2 DEF Blank, NoBlock
<1> QED BY <1>4, <1>5, <1>6 DEF Looping, Looped

(* It goes on to the next block, *)
LEMMA LoopLives ==
  ASSUME NEW s, IsSkeleton(s), NEW b \in DOMAIN s.blocks, NEW c, Passed(c, s, 0),
         Looping(c, s, Before(s, b)), NEW d, d = ExtendOverLoop(c, b)
  PROVE  Looping(d, s, Before(s, b) \cup {b})
<1> DEFINE N == Len(s.insns)
<1>1. /\ Shape(c, s) /\ MinDeaths(c, s) /\ CodeOK(c) /\ N \in Nat
      /\ DOMAIN c.insns = 1..N /\ \A r \in 1..N : c.death[r] \in Int
      /\ DOMAIN c.death = 1..N
  BY BlockFacts DEF Passed, Shape
<1>2. /\ Shape(d, s) /\ d.insns = c.insns
      /\ \A e \in DOMAIN s.blocks : d.binfo[e].store = c.binfo[e].store
  BY <1>1, LoopOutlives DEF Outlives
<1>3. /\ Looped(d, s, Before(s, b) \cup {b})
      /\ \A r \in DOMAIN c.death : c.death[r] <= d.death[r]
  <2>1. Looped(c, s, Before(s, b))
    BY DEF Looping
  <2> QED BY <1>1, <2>1, LoopSpans
<1>4. \A r \in 1..N : d.death[r] \in Int
  BY <1>2 DEF Shape
<1>5. SetsLive(d)
  <2> SUFFICES ASSUME NEW n \in 1..N, c.insns[n].op = "set" PROVE n <= d.death[c.insns[n].s1]
    BY <1>1, <1>2 DEF SetsLive
  <2>1. c.insns[n].s1 \in 1..N
    <3>1. InsnOK(c.insns, n)
      BY <1>1 DEF CodeOK
    <3> QED BY <1>1, <3>1 DEF InsnOK, SettersBefore
  <2>2. n <= c.death[c.insns[n].s1]
    BY <1>1 DEF Looping, SetsLive
  <2> QED BY <1>1, <1>3, <1>4, <2>1, <2>2
<1>6. CodeFrom(d, s) /\ Blank(d, s, 0)
  BY <1>2 DEF Looping, CodeFrom, Blank
<1> QED BY <1>3, <1>5, <1>6 DEF Looping

(************************** Steps of the allocation *************************)

(* The parts of a context that a step of the allocation looks at. *)
Formed(c, s) ==
  /\ DOMAIN c = CtxFields /\ DOMAIN c.info = 0..Len(s.insns) /\ c.early \subseteq Hosts
  /\ \A r \in 0..Len(s.insns) : DOMAIN c.info[r] = InfoFields
  /\ DOMAIN c.binfo = DOMAIN s.blocks
  /\ \A b \in DOMAIN s.blocks : DOMAIN c.binfo[b] = BlockFields

(* What a step that is taken for instruction n of block b does, if its assertions hold:
   the others keep their registers, or are spilled here; and their merges, but for those
   in X and those that are cancelled, which are promised still. *)
Stays(i, j, n) ==
  /\ j.host = i.host
  /\ \/ j.spilled = i.spilled /\ j.spill_insn = i.spill_insn
     \/ ~i.spilled /\ j.spilled /\ j.spill_insn = n
Revoked(c, b, r) ==
  c.info[r].merge /\ c.info[r].host_merge \in c.early /\ \E a \in Aliases : r = c.binfo[b].load[a]
Follows(c, d, b, n, X) ==
  /\ d.insns = c.insns /\ d.death = c.death /\ d.blocks = c.blocks /\ d.binfo = c.binfo
  /\ c.touched \subseteq d.touched /\ d.early \subseteq c.early
  /\ \A r \in DOMAIN c.info : r # n => Stays(c.info[r], d.info[r], n)
  /\ \A r \in DOMAIN c.info : r \notin X =>
       /\ d.info[r].host_merge = c.info[r].host_merge
       /\ d.info[r].merge = c.info[r].merge \/ Revoked(c, b, r)
Frames(c, d, s, b, n, X) == Formed(d, s) /\ (d.ok => c.ok /\ Follows(c, d, b, n, X))

(* A step that leaves the registers' information alone is one, *)
Beside(c, d) ==
  /\ d.info = c.info /\ d.insns = c.insns /\ d.death = c.death /\ d.blocks = c.blocks
  /\ d.binfo = c.binfo /\ d.early = c.early /\ c.touched \subseteq d.touched
  /\ DOMAIN d = DOMAIN c /\ (d.ok => c.ok)

(* It is one whatever the block and the instruction, *)
LEMMA BesideFrames ==
  ASSUME NEW s, NEW b, NEW n, NEW X, NEW c, NEW d, Formed(c, s), Beside(c, d)
  PROVE  Frames(c, d, s, b, n, X)
  BY DEF Beside, Frames, Formed, Follows, Stays

(* and two in a row are one, *)
LEMMA FramesMore ==
  ASSUME NEW s, NEW b, NEW n, NEW X, NEW c, NEW d, NEW e, Formed(c, s),
         Frames(c, d, s, b, n, X), Frames(d, e, s, b, n, X)
  PROVE  Frames(c, e, s, b, n, X)
<1>1. Formed(d, s) /\ Formed(e, s) /\ DOMAIN c.info = 0..Len(s.insns) /\ DOMAIN d.info = 0..Len(s.insns)
  BY DEF Frames, Formed
<1> SUFFICES ASSUME e.ok PROVE c.ok /\ Follows(c, e, b, n, X)
  BY <1>1 DEF Frames
<1>2. c.ok /\ Follows(c, d, b, n, X) /\ Follows(d, e, b, n, X)
  BY DEF Frames
<1>3. ASSUME NEW r \in DOMAIN c.info, r # n PROVE Stays(c.info[r], e.info[r], n)
  <2>1. Stays(c.info[r], d.info[r], n) /\ Stays(d.info[r], e.info[r], n)
    BY <1>1, <1>2, <1>3 DEF Follows
  <2> QED BY <2>1 DEF Stays
<1>4. ASSUME NEW r \in DOMAIN c.info, r \notin X
      PROVE  /\ e.info[r].host_merge = c.info[r].host_merge
             /\ e.info[r].merge = c.info[r].merge \/ Revoked(c, b, r)
  <2>1. /\ d.info[r].host_merge = c.info[r].host_merge
        /\ d.info[r].merge = c.info[r].merge \/ Revoked(c, b, r)
        /\ e.info[r].host_merge = d.info[r].host_merge
        /\ e.info[r].merge = d.info[r].merge \/ Revoked(d, b, r)
    BY <1>1, <1>2, <1>4 DEF Follows
  <2>2. d.binfo = c.binfo /\ d.early \subseteq c.early
    BY <1>2 DEF Follows
  <2>3. ASSUME d.info[r].merge = c.info[r].merge, Revoked(d, b, r) PROVE Revoked(c, b, r)
    BY <2>1, <2>2, <2>3 DEF Revoked
  <2> QED BY <2>1, <2>3
<1> QED BY <1>2, <1>3, <1>4 DEF Follows

(* whatever else may change. *)
LEMMA FramesWiden ==
  ASSUME NEW s, NEW b, NEW n, NEW c, NEW d, Frames(c, d, s, b, n, {}), NEW X
  PROVE  Frames(c, d, s, b, n, X)
  BY DEF Frames, Follows

(* The steps around the choice of a register are such steps: *)
LEMMA TouchFrames ==
  ASSUME NEW s, NEW b, NEW n, NEW c, Formed(c, s), NEW T
  PROVE  Frames(c, Touch(c, T), s, b, n, {})
<1>1. Beside(c, Touch(c, T))
  BY DEF Beside, Touch, Formed, CtxFields
<1> QED BY <1>1, BesideFrames

(* that a register is given up, *)
LEMMA UnassignFrames ==
  ASSUME NEW s, NEW b, NEW n, NEW c, Formed(c, s), NEW R
  PROVE  Frames(c, Unassign(c, R), s, b, n, {})
<1>1. Beside(c, Unassign(c, R))
  BY DEF Beside, Unassign, Formed, CtxFields
<1> QED BY <1>1, BesideFrames

(* what comes before the choice, *)
LEMMA BeforeFrames ==
  ASSUME NEW s, NEW b, NEW n, NEW c, Formed(c, s)
  PROVE  Frames(c, AtCall(Release(ReloadedForStore(c, c.insns[n]), n), n), s, b, n, {})
<1> DEFINE c1 == ReloadedForStore(c, c.insns[n])
           operands == {c1.insns[n].s1, c1.insns[n].s2, c1.insns[n].s3} \ {0}
           c2 == Asserted(c1, \A r \in operands : c1.info[r].allocated)
           c3 == Release(c1, n)
           c4 == AtCall(c3, n)
           saved == {h \in CallerSaved : c3.map[h] # 0 \/ h \in c3.early}
           c5 == [c3 EXCEPT !.save[n] = saved]
<1>1. Frames(c, c1, s, b, n, {}) /\ Formed(c1, s)
  <2>1. Beside(c, c)
    BY DEF Beside
  <2>2. Frames(c, c1, s, b, n, {})
    BY <2>1, BesideFrames, TouchFrames DEF ReloadedForStore
  <2> QED BY <2>2 DEF Frames
<1> HIDE DEF c1
<1>2. Frames(c1, c2, s, b, n, {}) /\ Formed(c2, s)
  <2>1. Beside(c1, c2)
    <3> HIDE DEF operands
    <3> QED BY <1>1 DEF Beside, Asserted, Formed, CtxFields
  <2>2. Frames(c1, c2, s, b, n, {})
    BY <1>1, <2>1, BesideFrames
  <2> QED BY <2>2 DEF Frames
<1>3. Frames(c2, c3, s, b, n, {}) /\ Formed(c3, s)
  <2>1. c3 = Unassign(c2, {r \in operands : c1.death[r] = n})
    BY DEF Release
  <2> HIDE DEF c2, c3, operands
  <2>2. Frames(c2, c3, s, b, n, {})
    BY <1>2, <2>1, UnassignFrames
  <2> QED BY <2>2 DEF Frames
<1> HIDE DEF c2, c3
<1>4. Frames(c3, c4, s, b, n, {})
  <2>1. c4 \in {Touch(c5, CallerSaved), [c5 EXCEPT !.transparent = TRUE], c3}
    BY DEF AtCall
  <2>2. Beside(c3, c5)
    <3> HIDE DEF saved
    <3> QED BY <1>3 DEF Beside, Formed, CtxFields
  <2> HIDE DEF c4, c5
  <2>3. Frames(c3, c5, s, b, n, {}) /\ Formed(c5, s)
    <3>1. Frames(c3, c5, s, b, n, {})
      BY <1>3, <2>2, BesideFrames
    <3> QED BY <3>1 DEF Frames
  <2>4. CASE c4 = Touch(c5, CallerSaved)
    BY <1>3, <2>3, <2>4, TouchFrames, FramesMore
  <2>5. CASE c4 = [c5 EXCEPT !.transparent = TRUE]
    <3>1. Beside(c5, c4)
      BY <2>3, <2>5 DEF Beside, Formed, CtxFields
    <3> QED BY <1>3, <2>3, <3>1, BesideFrames, FramesMore
  <2>6. CASE c4 = c3
    <3>1. Beside(c3, c4)
      BY <2>6 DEF Beside
    <3> QED BY <1>3, <3>1, BesideFrames
  <2> QED BY <2>1, <2>4, <2>5, <2>6
<1>5. Frames(c, c2, s, b, n, {})
  BY <1>1, <1>2, FramesMore
<1>6. Frames(c, c3, s, b, n, {})
  BY <1>3, <1>5, FramesMore
<1>7. Frames(c, c4, s, b, n, {})
  BY <1>4, <1>6, FramesMore
<1> QED BY <1>7 DEF c3, c1

(* the beginning of it, which takes the instruction's own reservation away, *)
LEMMA LocalsFrames ==
  ASSUME NEW s, NEW b, NEW n, NEW c, Formed(c, s), n \in 0..Len(s.insns), NEW w, w = Locals(c, n)
  PROVE  /\ Frames(c, w.c, s, b, n, {}) /\ DOMAIN w = WorkFields
         /\ w.usable = Free(c) \ (c.touched \cup c.early)
         /\ w.fixed = None \/ w.fixed = c.info[n].host
<1>1. /\ w.c = [c EXCEPT !.info[n].allocated = FALSE] /\ DOMAIN w = WorkFields
      /\ w.usable = Free(c) \ (c.touched \cup c.early)
      /\ w.fixed = None \/ w.fixed = c.info[n].host
  BY DEF Locals, WorkFields
<1>2. /\ DOMAIN w.c = CtxFields /\ w.c.insns = c.insns /\ w.c.death = c.death /\ w.c.blocks = c.blocks
      /\ w.c.binfo = c.binfo /\ w.c.early = c.early /\ w.c.touched = c.touched /\ w.c.ok = c.ok
      /\ DOMAIN w.c.info = DOMAIN c.info /\ DOMAIN w.c.info[n] = InfoFields
      /\ \A r \in DOMAIN c.info : r # n => w.c.info[r] = c.info[r]
      /\ w.c.info[n].merge = c.info[n].merge /\ w.c.info[n].host_merge = c.info[n].host_merge
  BY <1>1 DEF Formed, CtxFields, InfoFields
<1>3. Formed(w.c, s)
  BY <1>2 DEF Formed
<1>4. Follows(c, w.c, b, n, {})
  BY <1>2 DEF Follows, Stays
<1> QED BY <1>1, <1>2, <1>3, <1>4 DEF Frames

(* that a register is taken, *)
LEMMA AssignFrames ==
  ASSUME NEW s, NEW b, NEW n, NEW c, Formed(c, s), n \in 0..Len(s.insns), NEW h
  PROVE  Frames(c, Assign(c, n, h), s, b, n, {}) /\ h \in Assign(c, n, h).touched
<1> DEFINE d == Assign(c, n, h)
           c1 == Touch(Asserted(c, c.map[h] = 0), {h})
<1>0. /\ DOMAIN c1 = CtxFields /\ c1.insns = c.insns /\ c1.death = c.death /\ c1.blocks = c.blocks
      /\ c1.binfo = c.binfo /\ c1.early = c.early /\ c1.touched = c.touched \cup {h} /\ (c1.ok => c.ok)
      /\ c1.info = c.info
  BY DEF Touch, Asserted, Formed, CtxFields
<1>10. d = [c1 EXCEPT !.map[h] = n, !.info[n].allocated = TRUE, !.info[n].host = h]
  BY DEF Assign
<1> HIDE DEF c1, d
<1>1. /\ DOMAIN d = CtxFields /\ d.insns = c.insns /\ d.death = c.death /\ d.blocks = c.blocks
      /\ d.binfo = c.binfo /\ d.early = c.early /\ d.touched = c.touched \cup {h} /\ (d.ok => c.ok)
      /\ DOMAIN d.info = DOMAIN c.info /\ DOMAIN d.info[n] = InfoFields
      /\ \A r \in DOMAIN c.info : r # n => d.info[r] = c.info[r]
      /\ d.info[n].merge = c.info[n].merge /\ d.info[n].host_merge = c.info[n].host_merge
  BY <1>0, <1>10 DEF Formed, CtxFields, InfoFields
<1>2. Formed(d, s)
  BY <1>1 DEF Formed
<1>3. Follows(c, d, b, n, {})
  BY <1>1 DEF Follows, Stays
<1> QED BY <1>1, <1>2, <1>3 DEF Frames, d

(* that another value is spilled for it, which is not spilled yet, *)
LEMMA SpillFrames ==
  ASSUME NEW s, NEW b, NEW n, NEW c, Formed(c, s), n \in 0..Len(s.insns), NEW h
  PROVE  Frames(c, Spill(c, n, h), s, b, n, {})
<1> DEFINE d == Spill(c, n, h)
           q == c.map[h]
           c1 == Asserted(c, ~c.info[q].spilled)
           i1 == [c.info EXCEPT ![q].spilled = TRUE, ![q].spill_insn = n]
           i2 == [i1 EXCEPT ![n].allocated = TRUE, ![n].host = h]
<1>1. /\ DOMAIN c1 = CtxFields /\ c1.insns = c.insns /\ c1.death = c.death /\ c1.blocks = c.blocks
      /\ c1.binfo = c.binfo /\ c1.early = c.early /\ c1.touched = c.touched /\ c1.info = c.info
      /\ (c1.ok => c.ok /\ ~c.info[q].spilled)
  BY DEF Asserted, Formed, CtxFields
<1>2. d = [c1 EXCEPT !.info[q].spilled = TRUE, !.info[q].spill_insn = n, !.map[h] = n,
                     !.info[n].allocated = TRUE, !.info[n].host = h]
  BY DEF Spill
<1> HIDE DEF d, c1, q
<1>3. /\ DOMAIN d = CtxFields /\ d.insns = c.insns /\ d.death = c.death /\ d.blocks = c.blocks
      /\ d.binfo = c.binfo /\ d.early = c.early /\ d.touched = c.touched /\ d.ok = c1.ok
      /\ d.info = i2
  BY <1>1, <1>2 DEF CtxFields
<1>4. /\ DOMAIN i1 = DOMAIN c.info /\ \A r \in DOMAIN c.info : DOMAIN i1[r] = InfoFields
      /\ \A r \in DOMAIN c.info :
           /\ i1[r].host = c.info[r].host /\ i1[r].merge = c.info[r].merge
           /\ i1[r].host_merge = c.info[r].host_merge
           /\ r # q => i1[r] = c.info[r]
           /\ r = q => i1[r].spilled = TRUE /\ i1[r].spill_insn = n
  BY DEF Formed, InfoFields
<1> HIDE DEF i1
<1>5. /\ DOMAIN i2 = DOMAIN c.info /\ \A r \in DOMAIN c.info : DOMAIN i2[r] = InfoFields
      /\ \A r \in DOMAIN c.info :
           /\ i2[r].merge = i1[r].merge /\ i2[r].host_merge = i1[r].host_merge
           /\ r # n => i2[r] = i1[r]
  BY <1>4 DEF InfoFields
<1> HIDE DEF i2
<1>6. Formed(d, s)
  BY <1>3, <1>5 DEF Formed
<1>7. ASSUME ~c.info[q].spilled PROVE Follows(c, d, b, n, {})
  BY <1>3, <1>4, <1>5, <1>7 DEF Follows, Stays
<1> QED BY <1>1, <1>3, <1>6, <1>7 DEF Frames, d

(* that an early merge is cancelled, one of this block's, *)
LEMMA CancelFrames ==
  ASSUME NEW s, NEW b, NEW n, NEW c, Formed(c, s), NEW h \in c.early
  PROVE  Frames(c, CancelMerge(c, b, h), s, b, n, {})
<1> DEFINE d == CancelMerge(c, b, h)
           promised == {a \in Aliases : LET r == c.binfo[b].load[a] IN
                          r # 0 /\ c.info[r].merge /\ c.info[r].host_merge = h}
           c0 == [c EXCEPT !.early = @ \ {h}]
           c1 == Asserted(c0, promised # {})
           q  == c.binfo[b].load[Least(promised)]
<1>1. /\ DOMAIN c1 = CtxFields /\ c1.insns = c.insns /\ c1.death = c.death /\ c1.blocks = c.blocks
      /\ c1.binfo = c.binfo /\ c1.early = c.early \ {h} /\ c1.touched = c.touched /\ c1.info = c.info
      /\ (c1.ok => c.ok /\ promised # {})
  <2> HIDE DEF promised
  <2> QED BY DEF Asserted, Formed, CtxFields
<1>2. d = IF promised = {} THEN c1 ELSE [c1 EXCEPT !.info[q].merge = FALSE]
  BY <1>1 DEF CancelMerge
<1> HIDE DEF d, c1, q
<1>3. promised # {} => Least(promised) \in promised
  <2>1. promised \subseteq Nat
    BY DEF Aliases
  <2> QED BY <2>1, LeastIn
<1>4. promised # {} => /\ c.info[q].merge /\ c.info[q].host_merge = h
                       /\ \E a \in Aliases : q = c.binfo[b].load[a]
  BY <1>3 DEF q
<1> HIDE DEF promised
<1>5. CASE promised = {}
  <2>1. d = c1
    BY <1>2, <1>5
  <2> QED BY <1>1, <1>5, <2>1 DEF Frames, Formed, d
<1>6. CASE promised # {}
  <2>1. d = [c1 EXCEPT !.info[q].merge = FALSE]
    BY <1>2, <1>6
  <2>2. /\ DOMAIN d = CtxFields /\ d.insns = c.insns /\ d.death = c.death /\ d.blocks = c.blocks
        /\ d.binfo = c.binfo /\ d.early \subseteq c.early /\ d.touched = c.touched /\ (d.ok => c.ok)
        /\ d.info = [c.info EXCEPT ![q].merge = FALSE]
    BY <1>1, <2>1 DEF CtxFields
  <2>3. /\ DOMAIN d.info = DOMAIN c.info /\ \A r \in DOMAIN c.info : DOMAIN d.info[r] = InfoFields
        /\ \A r \in DOMAIN c.info :
             /\ d.info[r].host = c.info[r].host /\ d.info[r].host_merge = c.info[r].host_merge
             /\ d.info[r].spilled = c.info[r].spilled /\ d.info[r].spill_insn = c.info[r].spill_insn
             /\ r # q => d.info[r] = c.info[r]
    BY <2>2 DEF Formed, InfoFields
  <2>4. Formed(d, s)
    BY <2>2, <2>3 DEF Formed
  <2>5. Follows(c, d, b, n, {})
    <3>1. Revoked(c, b, q)
      BY <1>4, <1>6 DEF Revoked
    <3> QED BY <2>2, <2>3, <3>1 DEF Follows, Stays
  <2> QED BY <2>2, <2>4, <2>5 DEF Frames, d
<1> QED BY <1>5, <1>6

(* the choice of a temporary, *)
LEMMA TemporaryFrames ==
  ASSUME NEW s, NEW b, NEW n, NEW c, Formed(c, s), n \in 0..Len(s.insns), NEW avoid
  PROVE  Frames(c, Temporary(c, n, avoid), s, b, n, {})
<1> DEFINE also  == IF c.insns[n].op = "shift" THEN {} ELSE {HostOf(c, c.insns[n].s1), HostOf(c, c.insns[n].s2)}
           found == Get(Free(c) \ (avoid \cup c.early \cup also))
           temp  == IF found = None THEN R15 ELSE found
           d == [c EXCEPT !.info[n].temp = temp]
<1>1. Temporary(c, n, avoid) = IF NeedsTemporary(c, n) THEN Touch(d, {temp}) ELSE c
  BY DEF Temporary
<1> HIDE DEF temp
<1>2. /\ DOMAIN d = CtxFields /\ d.insns = c.insns /\ d.death = c.death /\ d.blocks = c.blocks
      /\ d.binfo = c.binfo /\ d.early = c.early /\ d.touched = c.touched /\ d.ok = c.ok
      /\ DOMAIN d.info = DOMAIN c.info /\ DOMAIN d.info[n] = InfoFields
      /\ \A r \in DOMAIN c.info : r # n => d.info[r] = c.info[r]
      /\ d.info[n].merge = c.info[n].merge /\ d.info[n].host_merge = c.info[n].host_merge
  BY DEF Formed, CtxFields, InfoFields
<1> HIDE DEF d
<1>3. Formed(d, s)
  BY <1>2 DEF Formed
<1>4. Follows(c, d, b, n, {})
  BY <1>2 DEF Follows, Stays
<1>5. Frames(c, d, s, b, n, {})
  BY <1>2, <1>3, <1>4 DEF Frames
<1>6. Frames(c, c, s, b, n, {})
  <2>1. Beside(c, c)
    BY DEF Beside
  <2> QED BY <2>1, BesideFrames
<1> QED BY <1>1, <1>3, <1>5, <1>6, TouchFrames, FramesMore

(* what the instruction would like, *)
LEMMA PreferFrames ==
  ASSUME NEW s, NEW b, NEW n, NEW w, Formed(w.c, s), DOMAIN w = WorkFields
  PROVE  Frames(w.c, Prefer(w, n).c, s, b, n, {}) /\ DOMAIN Prefer(w, n) = WorkFields
<1> DEFINE v == Prefer(w, n)
<1>1. \A x, H0 : DOMAIN x = WorkFields =>
         Avoiding(x, H0).c = x.c /\ DOMAIN Avoiding(x, H0) = WorkFields
  BY DEF Avoiding, WorkFields
<1>2. \A h : Beside(w.c, Wants(w, h).c) /\ DOMAIN Wants(w, h) = WorkFields
  BY DEF Wants, WorkFields, Beside, Formed, CtxFields
<1>3. Beside(w.c, w.c)
  BY DEF Beside
<1>4. CASE w.c.insns[n].op = "mulh"
  BY <1>1, <1>2, <1>3, <1>4, BesideFrames DEF Prefer, PreferMulh
<1>5. CASE w.c.insns[n].op = "div"
  BY <1>1, <1>2, <1>3, <1>5, BesideFrames DEF Prefer, PreferDivMod
<1>6. CASE w.c.insns[n].op = "mod"
  BY <1>1, <1>2, <1>3, <1>6, BesideFrames DEF Prefer, PreferDivMod
<1>7. CASE w.c.insns[n].op = "seq"
  <2>1. v = PreferSeq(w, n)
    BY <1>7 DEF Prefer
  <2>2. \A soft : [w EXCEPT !.soft = soft].c = w.c /\ DOMAIN [w EXCEPT !.soft = soft] = WorkFields
    BY DEF WorkFields
  <2>3. v.c = w.c /\ DOMAIN v = WorkFields
    BY <1>1, <2>1, <2>2 DEF PreferSeq
  <2> QED BY <1>3, <2>3, BesideFrames
<1>8. CASE w.c.insns[n].op = "call"
  BY <1>3, <1>8, BesideFrames DEF Prefer
<1>9. CASE w.c.insns[n].op \notin {"mulh", "div", "mod", "seq", "call"}
  <2>1. v = PreferOperand(w, n)
    BY <1>9 DEF Prefer
  <2>2. \A x, h : DOMAIN x = WorkFields =>
           [x EXCEPT !.preferred = h].c = x.c /\ DOMAIN [x EXCEPT !.preferred = h] = WorkFields
    BY DEF WorkFields
  <2>3. v.c = w.c /\ DOMAIN v = WorkFields
    <3> DEFINE i == w.c.insns[n]
               host1 == HostOf(w.c, i.s1)
               host2 == HostOf(w.c, i.s2)
               ok1 == /\ i.op = "shift" => host1 # CX /\ ~(i.s1 = i.s2 /\ w.c.map[CX] # 0)
                      /\ host1 \notin w.avoid
               w1 == IF ~Dying(w.c, i.s1, n) THEN w
                     ELSE IF ok1 THEN [w EXCEPT !.preferred = host1] ELSE Avoiding(w, {host1})
               ok2 == i.op \notin {"sub", "shift"} /\ host2 \notin w1.avoid
    <3>1. v = IF ~Dying(w.c, i.s2, n) THEN w1
              ELSE IF ~ok2 THEN Avoiding(w1, {host2})
              ELSE IF w1.preferred = None THEN [w1 EXCEPT !.preferred = host2] ELSE w1
      BY <2>1 DEF PreferOperand
    <3>2. w1.c = w.c /\ DOMAIN w1 = WorkFields
      <4> HIDE DEF ok1, host1
      <4> QED BY <1>1, <2>2
    <3> HIDE DEF w1, ok2, host2, v
    <3> QED BY <1>1, <2>2, <3>1, <3>2
  <2> QED BY <1>3, <2>3, BesideFrames
<1> QED BY <1>4, <1>5, <1>6, <1>7, <1>8, <1>9

(* that it gets that, *)
LEMMA SettleFrames ==
  ASSUME NEW s, NEW b, NEW n, NEW w, Formed(w.c, s), DOMAIN w = WorkFields, n \in 0..Len(s.insns)
  PROVE  Frames(w.c, Settle(w, b, n).c, s, b, n, {}) /\ DOMAIN Settle(w, b, n) = WorkFields
<1> DEFINE c == w.c
           v == Settle(w, b, n)
           e == IF w.fixed \in c.early THEN CancelMerge(c, b, w.fixed) ELSE c
<1>1. Frames(c, c, s, b, n, {})
  <2>1. Beside(c, c)
    BY DEF Beside
  <2> QED BY <2>1, BesideFrames
<1>2. Frames(c, e, s, b, n, {}) /\ Formed(e, s)
  <2>1. Frames(c, e, s, b, n, {})
    BY <1>1, CancelFrames
  <2> QED BY <2>1 DEF Frames
<1>3. Frames(c, Assign(e, n, w.fixed), s, b, n, {})
  <2> HIDE DEF e
  <2>1. Frames(e, Assign(e, n, w.fixed), s, b, n, {})
    BY <1>2, AssignFrames
  <2> QED BY <1>2, <2>1, FramesMore
<1>4. Frames(c, Assign(c, n, w.preferred), s, b, n, {})
  BY AssignFrames
<1>5. v \in {[w EXCEPT !.c = Assign(e, n, w.fixed)], [w EXCEPT !.c = Assign(c, n, w.preferred)], w}
  BY DEF Settle
<1>6. \A x : [w EXCEPT !.c = x].c = x /\ DOMAIN [w EXCEPT !.c = x] = WorkFields
  BY DEF WorkFields
<1> HIDE DEF e, v
<1> QED BY <1>1, <1>3, <1>4, <1>5, <1>6 DEF v

(* or any register. *)
LEMMA AllocateFrames ==
  ASSUME NEW s, NEW b, NEW n, NEW w, Formed(w.c, s), n \in 0..Len(s.insns)
  PROVE  Frames(w.c, Allocate(w, b, n), s, b, n, {})
<1> DEFINE c       == w.c
           avoid   == w.avoid \cup c.early
           kept    == IF AcrossCall(c, n) THEN Get((Free(c) \cap CalleeSaved) \ (avoid \cup w.soft))
                      ELSE None
           liked   == IF kept # None THEN kept ELSE Get(Free(c) \ (avoid \cup w.soft))
           choice  == IF liked # None THEN liked ELSE Get(Free(c) \ avoid)
           promise == c.early \ w.avoid
           victims == {h \in Hosts \ w.avoid : c.map[h] # 0}
           last    == {h \in victims : \A g \in victims : c.death[c.map[g]] <= c.death[c.map[h]]}
           d == Allocate(w, b, n)
           e == CancelMerge(c, b, Least(promise))
<1>1. \/ d = Assign(c, n, choice)
      \/ promise # {} /\ d = Assign(e, n, Least(promise))
      \/ d = Spill(c, n, Latest(last))
      \/ d = Asserted(c, FALSE)
  <2> HIDE DEF last
  <2>1. d = CASE choice # None -> Assign(c, n, choice)
              [] choice = None /\ promise # {} -> Assign(e, n, Least(promise))
              [] choice = None /\ promise = {} /\ victims # {} -> Spill(c, n, Latest(last))
              [] OTHER -> Asserted(c, FALSE)
    BY DEF Allocate, last
  <2> HIDE DEF d, choice, promise, victims, e
  <2> QED BY <2>1
<1>2. Frames(c, Assign(c, n, choice), s, b, n, {})
  <2> HIDE DEF choice
  <2> QED BY AssignFrames
<1>3. promise # {} => Frames(c, Assign(e, n, Least(promise)), s, b, n, {})
  <2> SUFFICES ASSUME promise # {} PROVE Frames(c, Assign(e, n, Least(promise)), s, b, n, {})
    OBVIOUS
  <2>1. Least(promise) \in c.early
    <3>1. promise \subseteq Nat
      BY HostsFacts DEF Formed
    <3>2. Least(promise) \in promise
      BY <3>1, LeastIn
    <3> QED BY <3>2
  <2>2. Frames(c, e, s, b, n, {})
    BY <2>1, CancelFrames
  <2> HIDE DEF e, promise
  <2>3. Formed(e, s)
    BY <2>2 DEF Frames
  <2>4. Frames(e, Assign(e, n, Least(promise)), s, b, n, {})
    BY <2>3, AssignFrames
  <2> QED BY <2>2, <2>4, FramesMore
<1>4. Frames(c, Spill(c, n, Latest(last)), s, b, n, {})
  <2> HIDE DEF last
  <2> QED BY SpillFrames
<1>5. Frames(c, Asserted(c, FALSE), s, b, n, {})
  <2>1. Beside(c, Asserted(c, FALSE))
    BY DEF Beside, Asserted, Formed, CtxFields
  <2> QED BY <2>1, BesideFrames
<1> HIDE DEF d, choice, promise, last, e
<1> QED BY <1>1, <1>2, <1>3, <1>4, <1>5 DEF d

(* so is all that follows the merge of a GET_ALIAS. *)
LEMMA RestFrames ==
  ASSUME NEW s, NEW b, NEW n, NEW w, Formed(w.c, s), DOMAIN w = WorkFields, n \in 0..Len(s.insns)
  PROVE  Frames(w.c, TemporaryAfter(AllocateRest(SettlePreferred(w, b, n), b, n), n), s, b, n, {})
<1> DEFINE p == Prefer(w, n)
           q == Settle(p, b, n)
           u == SettlePreferred(w, b, n)
           x == IF u.c.insns[n].op = "shift" THEN Avoiding(u, {CX}) ELSE u
           y == [x EXCEPT !.c = Allocate(x, b, n)]
           v == AllocateRest(u, b, n)
           t == Temporary(v.c, n, v.avoid)
           d == DropIfDead(t, n)
<1>1. Frames(w.c, w.c, s, b, n, {})
  <2>1. Beside(w.c, w.c)
    BY DEF Beside
  <2> QED BY <2>1, BesideFrames
<1>2. Frames(w.c, p.c, s, b, n, {}) /\ DOMAIN p = WorkFields
  BY PreferFrames
<1>3. u = w \/ u = q
  BY DEF SettlePreferred
<1> HIDE DEF p
<1>4. Frames(w.c, q.c, s, b, n, {}) /\ DOMAIN q = WorkFields
  <2>1. Formed(p.c, s)
    BY <1>2 DEF Frames
  <2>2. Frames(p.c, q.c, s, b, n, {}) /\ DOMAIN q = WorkFields
    BY <1>2, <2>1, SettleFrames
  <2> HIDE DEF q
  <2> QED BY <1>2, <2>1, <2>2, FramesMore
<1> HIDE DEF q
<1>5. Frames(w.c, u.c, s, b, n, {}) /\ DOMAIN u = WorkFields
  BY <1>1, <1>3, <1>4
<1> HIDE DEF u
<1>6. Formed(u.c, s)
  BY <1>5 DEF Frames
<1>7. v = u \/ v = y
  BY DEF AllocateRest, AllocateAny
<1>8. x.c = u.c /\ DOMAIN x = WorkFields
  BY <1>5 DEF Avoiding, WorkFields
<1> HIDE DEF x
<1>9. y.c = Allocate(x, b, n) /\ DOMAIN y = WorkFields
  BY <1>8 DEF WorkFields
<1> HIDE DEF y
<1>10. Frames(w.c, y.c, s, b, n, {})
  <2>1. Frames(x.c, y.c, s, b, n, {})
    BY <1>6, <1>8, <1>9, AllocateFrames
  <2> QED BY <1>5, <1>8, <2>1, FramesMore
<1> HIDE DEF v
<1>11. Frames(w.c, v.c, s, b, n, {}) /\ Formed(v.c, s)
  <2>1. Frames(w.c, v.c, s, b, n, {})
    BY <1>5, <1>7, <1>10
  <2> QED BY <2>1 DEF Frames
<1>12. Frames(w.c, t, s, b, n, {}) /\ Formed(t, s)
  <2>1. Frames(v.c, t, s, b, n, {})
    BY <1>11, TemporaryFrames
  <2>2. Frames(w.c, t, s, b, n, {})
    BY <1>11, <2>1, FramesMore
  <2> QED BY <2>2 DEF Frames
<1> HIDE DEF t
<1>13. Frames(w.c, d, s, b, n, {})
  <2>1. d = t \/ d = Unassign(t, {n})
    BY DEF DropIfDead
  <2>2. Frames(t, Unassign(t, {n}), s, b, n, {})
    BY <1>12, UnassignFrames
  <2>3. Frames(w.c, Unassign(t, {n}), s, b, n, {})
    BY <1>12, <2>2, FramesMore
  <2> QED BY <1>12, <2>1, <2>3
<1> QED BY <1>13 DEF d, t, v, u, TemporaryAfter

(* The merge of a GET_ALIAS: it takes a register that the block has not used, and has
   the block before hold the value to its end. *)
Held(c, b, n) ==
  LET prev == PrevStore(c, b, c.insns[n].x) IN
  IF prev = 0 THEN c.binfo
  ELSE [c.binfo EXCEPT ![PrevOf(c, b)].end_live = @ \cup {HostOf(c, prev)}]
IsMerged(c, d, b, n) == LET h == d.info[n].host_merge IN
  /\ d.info[n].merge /\ h \in Hosts /\ h \notin c.touched /\ h \in d.touched /\ h \notin d.early
  /\ d.binfo = Held(c, b, n)
OnlyOf(c, d, s, n) ==
  /\ Formed(d, s) /\ d.insns = c.insns /\ d.death = c.death /\ d.blocks = c.blocks
  /\ c.touched \subseteq d.touched /\ d.early \subseteq c.early /\ (d.ok => c.ok)
  /\ \A r \in DOMAIN c.info : r # n => d.info[r] = c.info[r]
MergesOne(c, d, s, b, n) ==
  OnlyOf(c, d, s, n) /\ (d.ok => (~d.info[n].merge /\ d.binfo = c.binfo) \/ IsMerged(c, d, b, n))

(* A register that has been promised is taken if it is still unused. *)
LEMMA TakePromiseMerges ==
  ASSUME NEW s, NEW n, NEW w, Formed(w.c, s), DOMAIN w = WorkFields, n \in 0..Len(s.insns),
         NEW t, t = TakePromise(w, n)
  PROVE  /\ OnlyOf(w.c, t.c, s, n) /\ DOMAIN t = WorkFields /\ t.usable = w.usable /\ t.fixed = w.fixed
         /\ t.c.binfo = w.c.binfo /\ t.c.touched = w.c.touched
         /\ t.c.ok /\ t.c.info[n].merge =>
              LET h == t.c.info[n].host_merge IN h \in Hosts /\ h \notin w.c.touched /\ h \notin t.c.early
<1> DEFINE h == w.c.info[n].host_merge
           c == Asserted([w.c EXCEPT !.early = @ \ {h}], h \in w.c.early)
           e == [c EXCEPT !.info[n].merge = FALSE]
<1>1. t = IF ~w.c.info[n].merge THEN w ELSE IF h \in w.c.touched THEN [w EXCEPT !.c = e]
          ELSE [w EXCEPT !.c = c, !.avoid = (@ \cup {h}) \ (@ \cap {h})]
  BY DEF TakePromise
<1>2. /\ DOMAIN c = CtxFields /\ c.insns = w.c.insns /\ c.death = w.c.death /\ c.blocks = w.c.blocks
      /\ c.binfo = w.c.binfo /\ c.touched = w.c.touched /\ c.info = w.c.info
      /\ c.early = w.c.early \ {h} /\ (c.ok => w.c.ok /\ h \in w.c.early)
  <2> HIDE DEF h
  <2> QED BY DEF Asserted, Formed, CtxFields
<1> HIDE DEF c
<1>3. OnlyOf(w.c, c, s, n)
  BY <1>2 DEF OnlyOf, Formed
<1>4. OnlyOf(w.c, w.c, s, n)
  BY DEF OnlyOf
<1>5. /\ DOMAIN e = CtxFields /\ e.insns = w.c.insns /\ e.death = w.c.death /\ e.blocks = w.c.blocks
      /\ e.binfo = w.c.binfo /\ e.touched = w.c.touched /\ e.early = c.early /\ e.ok = c.ok
      /\ DOMAIN e.info = DOMAIN w.c.info /\ DOMAIN e.info[n] = InfoFields /\ e.info[n].merge = FALSE
      /\ \A r \in DOMAIN w.c.info : r # n => e.info[r] = w.c.info[r]
  BY <1>2 DEF Formed, CtxFields, InfoFields
<1> HIDE DEF e
<1>6. OnlyOf(w.c, e, s, n)
  BY <1>2, <1>5 DEF OnlyOf, Formed
<1>7. CASE ~w.c.info[n].merge
  BY <1>1, <1>4, <1>7
<1>8. CASE w.c.info[n].merge /\ h \in w.c.touched
  <2>1. t.c = e /\ DOMAIN t = WorkFields /\ t.usable = w.usable /\ t.fixed = w.fixed
    BY <1>1, <1>8 DEF WorkFields
  <2> QED BY <1>5, <1>6, <2>1
<1>9. CASE w.c.info[n].merge /\ h \notin w.c.touched
  <2>1. t.c = c /\ DOMAIN t = WorkFields /\ t.usable = w.usable /\ t.fixed = w.fixed
    <3> HIDE DEF h
    <3> QED BY <1>1, <1>9 DEF WorkFields
  <2>2. t.c.info[n].host_merge = h
    BY <1>2, <2>1
  <2>3. h \notin c.early /\ (c.ok => h \in Hosts)
    BY <1>2 DEF Formed
  <2> HIDE DEF h
  <2> QED BY <1>2, <1>3, <1>9, <2>1, <2>2, <2>3
<1> QED BY <1>7, <1>8, <1>9

(* The register that is chosen is one that the block may use, or that one. *)
LEMMA MergeHostIn ==
  ASSUME NEW s, IsSkeleton(s), NEW b \in DOMAIN s.blocks, NEW n, NEW w, w.c.blocks = s.blocks,
         w.usable \subseteq Hosts, NEW h, h = MergeHost(w, b, n)
  PROVE  /\ h \in w.usable \/ h = None \/ (w.c.info[n].merge /\ h = w.c.info[n].host_merge)
         /\ w.c.info[n].merge => h = w.c.info[n].host_merge
<1> DEFINE c        == w.c
           a        == c.insns[n].x
           prev     == PrevStore(c, b, a)
           promised == c.info[n].merge
           entries  == c.blocks[b].entries
           store(k) == c.binfo[entries[k]].store[a]
           stores   == {k \in DOMAIN entries : entries[k] # b - 1 /\ store(k) # 0}
           usable(r) == c.info[r].allocated /\ HostOf(c, r) \in w.usable
           others   == {k \in stores : usable(store(k))}
           any      == prev # 0 \/ stores # {}
           wanted   == ~promised /\ any
           G == Get(w.usable \ (w.avoid \cup c.early))
<1>2. DOMAIN entries \subseteq Nat
  BY DEF IsSkeleton, IsBlocks
<1>3. others # {} => HostOf(c, store(Least(others))) \in w.usable
  <2>1. others \subseteq DOMAIN entries
    OBVIOUS
  <2>2. \A k \in others : HostOf(c, store(k)) \in w.usable
    OBVIOUS
  <2> HIDE DEF others, entries, store
  <2>3. others # {} => Least(others) \in others
    BY <1>2, <2>1, LeastIn
  <2> QED BY <2>2, <2>3
<1>4. G = None \/ G \in w.usable
  BY GetIn
<1>5. h = IF wanted /\ w.fixed \in w.usable THEN w.fixed
          ELSE IF promised THEN c.info[n].host_merge
          ELSE IF prev # 0 /\ HostOf(c, prev) \in w.usable THEN HostOf(c, prev)
          ELSE IF others # {} THEN HostOf(c, store(Least(others)))
          ELSE IF wanted THEN G ELSE None
  BY DEF MergeHost
<1> HIDE DEF any, prev, others, store, G
<1> QED BY <1>3, <1>4, <1>5

(* It is used from then on, and the block before ends with the value. *)
LEMMA ThroughMerges ==
  ASSUME NEW s, NEW b, NEW n, Here(s, b, n), NEW w, Formed(w.c, s), DOMAIN w = WorkFields,
         \A a \in Aliases : PrevStore(w.c, b, a) # 0 => PrevStore(w.c, b, a) \in 1..(n - 1),
         w.c.insns[n].x \in Aliases, NEW h, NEW v, v = MergeThrough(w, b, n, h)
  PROVE  /\ OnlyOf(w.c, v.c, s, n) /\ DOMAIN v = WorkFields
         /\ h \in Hosts /\ h \notin w.c.touched /\ h \notin w.c.early => IsMerged(w.c, v.c, b, n)
<1> DEFINE c == w.c
           prev == PrevStore(c, b, c.insns[n].x)
           stays == w.fixed \in {None, h}
           crossed == IF c.transparent /\ h \in CallerSaved
                      THEN {m \in c.blocks[b].first..(n - 1) : c.insns[m].op = "call_transparent"} ELSE {}
           c1 == [c EXCEPT !.info[n].merge = TRUE, !.info[n].host_merge = h]
           c2 == IF stays THEN Assign(c1, n, h) ELSE Touch(c1, {h})
           c3 == IF prev = 0 THEN c2 ELSE HoldAtEnd(c2, b, prev)
           save == [m \in DOMAIN c3.save |-> IF m \in crossed THEN c3.save[m] \cup {h} ELSE c3.save[m]]
           d == [c3 EXCEPT !.save = save]
<1>0. n \in 0..Len(s.insns) /\ Len(s.insns) \in Nat /\ n \in Int
  BY HereFacts
<1>1. v = [w EXCEPT !.c = d]
  BY DEF MergeThrough
<1>2. /\ DOMAIN c1 = CtxFields /\ c1.insns = c.insns /\ c1.death = c.death /\ c1.blocks = c.blocks
      /\ c1.binfo = c.binfo /\ c1.touched = c.touched /\ c1.early = c.early /\ c1.ok = c.ok
      /\ DOMAIN c1.info = DOMAIN c.info /\ DOMAIN c1.info[n] = InfoFields
      /\ c1.info[n].merge = TRUE /\ c1.info[n].host_merge = h
      /\ \A r \in DOMAIN c.info : r # n => c1.info[r] = c.info[r]
  BY <1>0 DEF Formed, CtxFields, InfoFields
<1> HIDE DEF c1
<1>3. /\ DOMAIN c2 = CtxFields /\ c2.insns = c.insns /\ c2.death = c.death /\ c2.blocks = c.blocks
      /\ c2.binfo = c.binfo /\ c2.touched = c.touched \cup {h} /\ c2.early = c.early /\ (c2.ok => c.ok)
      /\ DOMAIN c2.info = DOMAIN c.info /\ DOMAIN c2.info[n] = InfoFields
      /\ c2.info[n].merge = TRUE /\ c2.info[n].host_merge = h
      /\ \A r \in DOMAIN c.info : r # n => c2.info[r] = c.info[r]
  <2>1. CASE c2 = Touch(c1, {h})
    BY <1>2, <2>1 DEF Touch, CtxFields
  <2>2. CASE c2 = Assign(c1, n, h)
    <3> DEFINE e == Touch(Asserted(c1, c1.map[h] = 0), {h})
    <3>1. /\ DOMAIN e = CtxFields /\ e.insns = c.insns /\ e.death = c.death /\ e.blocks = c.blocks
          /\ e.binfo = c.binfo /\ e.early = c.early /\ e.touched = c.touched \cup {h} /\ (e.ok => c.ok)
          /\ e.info = c1.info
      BY <1>2 DEF Touch, Asserted, CtxFields
    <3>2. c2 = [e EXCEPT !.map[h] = n, !.info[n].allocated = TRUE, !.info[n].host = h]
      BY <2>2 DEF Assign
    <3> HIDE DEF e, c2
    <3>3. /\ DOMAIN c2 = CtxFields /\ c2.insns = e.insns /\ c2.death = e.death /\ c2.blocks = e.blocks
          /\ c2.binfo = e.binfo /\ c2.early = e.early /\ c2.touched = e.touched /\ c2.ok = e.ok
          /\ c2.info = [e.info EXCEPT ![n].allocated = TRUE, ![n].host = h]
      BY <3>1, <3>2 DEF CtxFields
    <3>4. n \in DOMAIN e.info /\ DOMAIN e.info[n] = InfoFields
      BY <1>0, <1>2, <3>1 DEF Formed
    <3>5. /\ DOMAIN c2.info = DOMAIN e.info /\ DOMAIN c2.info[n] = InfoFields
          /\ c2.info[n].merge = e.info[n].merge /\ c2.info[n].host_merge = e.info[n].host_merge
          /\ \A r \in DOMAIN e.info : r # n => c2.info[r] = e.info[r]
      BY <3>3, <3>4 DEF InfoFields
    <3> QED BY <1>2, <3>1, <3>3, <3>5
  <2> QED BY <2>1, <2>2
<1> HIDE DEF c2
<1>4. /\ DOMAIN c3 = CtxFields /\ c3.insns = c.insns /\ c3.death = c.death /\ c3.blocks = c.blocks
      /\ c3.binfo = Held(c, b, n) /\ c3.touched = c2.touched /\ c3.early = c.early /\ (c3.ok => c.ok)
      /\ c3.info = c2.info
  <2>1. CASE prev = 0
    BY <1>3, <2>1 DEF Held
  <2>2. CASE prev # 0
    <3>1. prev \in DOMAIN c.info /\ prev # n
      BY <1>0, <2>2 DEF Formed
    <3>2. HostOf(c2, prev) = HostOf(c, prev)
      BY <1>3, <3>1 DEF HostOf
    <3>3. PrevOf(c2, b) = PrevOf(c, b)
      BY <1>3 DEF PrevOf, Before
    <3> DEFINE e == Asserted(c2, c2.info[prev].allocated)
               B == [c.binfo EXCEPT ![PrevOf(c, b)].end_live = @ \cup {HostOf(c, prev)}]
    <3>4. /\ DOMAIN e = CtxFields /\ e.insns = c.insns /\ e.death = c.death /\ e.blocks = c.blocks
          /\ e.binfo = c.binfo /\ e.early = c.early /\ e.touched = c2.touched /\ (e.ok => c.ok)
          /\ e.info = c2.info
      <4> HIDE DEF prev
      <4> QED BY <1>3 DEF Asserted, CtxFields
    <3>5. c3 = [e EXCEPT !.binfo[PrevOf(c, b)].end_live = @ \cup {HostOf(c, prev)}]
      BY <2>2, <3>2, <3>3 DEF HoldAtEnd
    <3>6. Held(c, b, n) = B
      BY <2>2 DEF Held
    <3> HIDE DEF e, c3, prev
    <3>7. /\ c3.binfo = B /\ DOMAIN c3 = CtxFields /\ c3.insns = e.insns /\ c3.death = e.death
          /\ c3.blocks = e.blocks /\ c3.early = e.early /\ c3.touched = e.touched /\ c3.ok = e.ok
          /\ c3.info = e.info
      BY <3>4, <3>5 DEF CtxFields
    <3> QED BY <3>4, <3>6, <3>7
  <2> QED BY <2>1, <2>2
<1> HIDE DEF c3, save
<1>5. /\ DOMAIN d = CtxFields /\ d.insns = c.insns /\ d.death = c.death /\ d.blocks = c.blocks
      /\ d.binfo = Held(c, b, n) /\ d.touched = c.touched \cup {h} /\ d.early = c.early /\ (d.ok => c.ok)
      /\ d.info = c2.info
  BY <1>3, <1>4 DEF CtxFields
<1> HIDE DEF d
<1>6. v.c = d /\ DOMAIN v = WorkFields
  BY <1>1 DEF WorkFields
<1>7. Formed(d, s)
  <2>1. /\ DOMAIN Held(c, b, n) = DOMAIN c.binfo
        /\ \A e \in DOMAIN c.binfo : DOMAIN Held(c, b, n)[e] = DOMAIN c.binfo[e]
    BY DEF Held
  <2>2. DOMAIN d.info = DOMAIN c.info /\ \A r \in DOMAIN c.info : DOMAIN d.info[r] = InfoFields
    <3> SUFFICES ASSUME NEW r \in DOMAIN c.info PROVE DOMAIN d.info[r] = InfoFields
      BY <1>3, <1>5
    <3>1. CASE r = n
      BY <1>3, <1>5, <3>1
    <3>2. CASE r # n
      BY <1>3, <1>5, <3>2 DEF Formed
    <3> QED BY <3>1, <3>2
  <2>3. DOMAIN d.binfo = DOMAIN c.binfo /\ \A e \in DOMAIN c.binfo : DOMAIN d.binfo[e] = DOMAIN c.binfo[e]
    BY <1>5, <2>1
  <2> QED BY <1>5, <2>2, <2>3 DEF Formed
<1>8. OnlyOf(c, d, s, n)
  BY <1>3, <1>5, <1>7 DEF OnlyOf
<1>9. h \in Hosts /\ h \notin c.touched /\ h \notin c.early => IsMerged(c, d, b, n)
  BY <1>3, <1>5 DEF IsMerged
<1> QED BY <1>6, <1>8, <1>9

(* All of it, from the local variables on. *)
LEMMA AliasMerges ==
  ASSUME NEW s, NEW b, NEW n, Here(s, b, n), NEW c, Formed(c, s), c.blocks = s.blocks,
         \A a \in Aliases : PrevStore(c, b, a) # 0 => PrevStore(c, b, a) \in 1..(n - 1),
         c.insns[n].op = "get", c.insns[n].x \in Aliases,
         NEW v, v = MergeAlias(Locals(c, n), b, n)
  PROVE  MergesOne(c, v.c, s, b, n) /\ DOMAIN v = WorkFields
<1> DEFINE w == Locals(c, n)
           t == TakePromise(w, n)
           h == MergeHost(t, b, n)
<1>0. n \in 0..Len(s.insns) /\ Len(s.insns) \in Nat /\ n \in Int /\ IsSkeleton(s) /\ b \in DOMAIN s.blocks
  BY HereFacts DEF Here
<1>1. /\ Formed(w.c, s) /\ DOMAIN w = WorkFields /\ w.usable = Free(c) \ (c.touched \cup c.early)
      /\ w.c = [c EXCEPT !.info[n].allocated = FALSE]
  <2>1. Formed(w.c, s) /\ DOMAIN w = WorkFields /\ w.usable = Free(c) \ (c.touched \cup c.early)
    <3> HIDE DEF w
    <3> QED BY <1>0, LocalsFrames DEF Frames, w
  <2>2. w.c = [c EXCEPT !.info[n].allocated = FALSE]
    BY DEF Locals
  <2> QED BY <2>1, <2>2
<1>2. v = MergeIfAny(t, b, n, h) \/ w.c.insns[n].op # "get"
  BY DEF MergeAlias, MergePromised
<1> HIDE DEF w
<1>3. /\ w.c.insns = c.insns /\ w.c.death = c.death /\ w.c.blocks = c.blocks
      /\ w.c.binfo = c.binfo /\ w.c.early = c.early /\ w.c.touched = c.touched /\ w.c.ok = c.ok
      /\ \A r \in DOMAIN c.info : r # n => w.c.info[r] = c.info[r]
  BY <1>1 DEF Formed, CtxFields
<1>4. /\ OnlyOf(w.c, t.c, s, n) /\ DOMAIN t = WorkFields /\ t.usable = w.usable /\ t.fixed = w.fixed
      /\ t.c.binfo = w.c.binfo /\ t.c.touched = w.c.touched
      /\ t.c.ok /\ t.c.info[n].merge =>
           t.c.info[n].host_merge \in Hosts /\ t.c.info[n].host_merge \notin w.c.touched
           /\ t.c.info[n].host_merge \notin t.c.early
  <2> HIDE DEF t
  <2> QED BY <1>0, <1>1, TakePromiseMerges DEF t
<1> HIDE DEF t
<1>5. OnlyOf(c, t.c, s, n) /\ Formed(t.c, s) /\ t.c.blocks = s.blocks
  BY <1>1, <1>3, <1>4 DEF OnlyOf, Formed
<1>6. t.usable \subseteq Hosts /\ \A g \in t.usable : g \notin t.c.touched /\ g \notin t.c.early
  BY <1>1, <1>3, <1>4 DEF Free, OnlyOf
<1>7. /\ h \in t.usable \/ h = None \/ (t.c.info[n].merge /\ h = t.c.info[n].host_merge)
      /\ t.c.info[n].merge => h = t.c.info[n].host_merge
  <2> HIDE DEF h
  <2> QED BY <1>0, <1>5, <1>6, MergeHostIn DEF h
<1> HIDE DEF h
<1>8. v = IF h = None THEN t ELSE MergeThrough(t, b, n, h)
  BY <1>2, <1>3 DEF MergeIfAny
<1>9. CASE h = None
  <2>1. t.c.ok => ~t.c.info[n].merge
    BY <1>4, <1>7, <1>9, HostsFacts
  <2> QED BY <1>3, <1>4, <1>5, <1>8, <1>9, <2>1 DEF MergesOne
<1>10. CASE h # None
  <2>1. \A a \in Aliases : PrevStore(t.c, b, a) = PrevStore(c, b, a)
    BY <1>3, <1>4, <1>5 DEF PrevStore, PrevOf, Before
  <2>2. /\ OnlyOf(t.c, v.c, s, n) /\ DOMAIN v = WorkFields
        /\ h \in Hosts /\ h \notin t.c.touched /\ h \notin t.c.early => IsMerged(t.c, v.c, b, n)
    <3>1. t.c.insns[n].x \in Aliases
      BY <1>5 DEF OnlyOf
    <3>2. v = MergeThrough(t, b, n, h)
      BY <1>8, <1>10
    <3> QED BY <1>4, <1>5, <2>1, <3>1, <3>2, ThroughMerges
  <2>3. OnlyOf(c, v.c, s, n)
    BY <1>3, <1>5, <2>2 DEF OnlyOf, Formed
  <2>4. ASSUME v.c.ok PROVE IsMerged(c, v.c, b, n)
    <3>1. t.c.ok
      BY <2>2, <2>4 DEF OnlyOf
    <3>2. IsMerged(t.c, v.c, b, n)
      BY <1>4, <1>6, <1>7, <1>10, <1>3, <2>2, <3>1
    <3>3. Held(t.c, b, n) = Held(c, b, n)
      <4>1. /\ t.c.binfo = c.binfo /\ t.c.insns = c.insns /\ PrevOf(t.c, b) = PrevOf(c, b)
            /\ PrevStore(t.c, b, c.insns[n].x) = PrevStore(c, b, c.insns[n].x)
        BY <1>3, <1>4, <1>5, <2>1 DEF OnlyOf, PrevOf, Before
      <4>2. PrevStore(c, b, c.insns[n].x) # 0 =>
              HostOf(t.c, PrevStore(c, b, c.insns[n].x)) = HostOf(c, PrevStore(c, b, c.insns[n].x))
        <5> SUFFICES ASSUME NEW r \in 1..(n - 1) PROVE HostOf(t.c, r) = HostOf(c, r)
          OBVIOUS
        <5>1. r \in DOMAIN c.info /\ r # n
          BY <1>0 DEF Formed
        <5> QED BY <1>5, <5>1 DEF OnlyOf, HostOf
      <4> QED BY <4>1, <4>2 DEF Held
    <3>4. t.c.touched = c.touched
      BY <1>3, <1>4
    <3> QED BY <3>2, <3>3, <3>4 DEF IsMerged
  <2> QED BY <2>2, <2>3, <2>4 DEF MergesOne
<1> QED BY <1>9, <1>10

(* What allocate_regs_for_insn() does for instruction n of block b, all in all. *)
Took(c, d, b, n) == LET h == d.info[n].host_merge IN
  /\ d.info[n].merge /\ h \in Hosts /\ h \notin c.touched /\ h \in d.touched
  /\ d.binfo = Held(c, b, n)
Stepped(c, d, b, n) ==
  /\ d.insns = c.insns /\ d.death = c.death /\ d.blocks = c.blocks
  /\ c.touched \subseteq d.touched /\ d.early \subseteq c.early
  /\ \A r \in DOMAIN c.info : r # n =>
       /\ Stays(c.info[r], d.info[r], n) /\ d.info[r].host_merge = c.info[r].host_merge
       /\ d.info[r].merge = c.info[r].merge \/ Revoked(c, b, r)
  /\ IF c.insns[n].op = "get" THEN (~d.info[n].merge /\ d.binfo = c.binfo) \/ Took(c, d, b, n)
     ELSE d.binfo = c.binfo

(* The blocks' loads stay the same when a value is held to the end of the one before. *)
LEMMA HeldLoads ==
  ASSUME NEW s, NEW c, Formed(c, s), NEW b \in DOMAIN s.blocks, NEW n
  PROVE  Held(c, b, n)[b].load = c.binfo[b].load
  BY DEF Held, Formed, BlockFields

(* An instruction that is no GET_ALIAS has all its steps alike. *)
LEMMA OtherSteps ==
  ASSUME NEW s, NEW b, NEW n, NEW c, NEW d, Frames(c, d, s, b, n, {}), d.ok, c.insns[n].op # "get"
  PROVE  Stepped(c, d, b, n)
  BY DEF Frames, Follows, Stepped

(* A GET_ALIAS has them before and after its merge. *)
LEMMA GetSteps ==
  ASSUME NEW s, NEW b, NEW n, Here(s, b, n), NEW c, NEW e, NEW v, NEW d, Formed(c, s),
         Frames(c, e, s, b, n, {}), MergesOne(e, v, s, b, n), Frames(v, d, s, b, n, {}), d.ok,
         c.insns[n].op = "get", PrevStore(e, b, c.insns[n].x) # 0 => PrevStore(e, b, c.insns[n].x) \in 1..(n - 1)
  PROVE  Stepped(c, d, b, n)
<1>1. /\ Formed(e, s) /\ Formed(v, s) /\ Formed(d, s) /\ n \in 0..Len(s.insns) /\ n \in Int
      /\ Len(s.insns) \in Nat /\ b \in DOMAIN s.blocks
  BY HereFacts DEF Frames, MergesOne, OnlyOf, Here
<1>2. /\ Follows(v, d, b, n, {}) /\ OnlyOf(e, v, s, n) /\ Follows(c, e, b, n, {})
      /\ (~v.info[n].merge /\ v.binfo = e.binfo) \/ IsMerged(e, v, b, n)
  <2>1. Follows(v, d, b, n, {}) /\ v.ok
    BY DEF Frames
  <2>2. OnlyOf(e, v, s, n) /\ e.ok /\ ((~v.info[n].merge /\ v.binfo = e.binfo) \/ IsMerged(e, v, b, n))
    BY <2>1 DEF MergesOne, OnlyOf
  <2> QED BY <2>1, <2>2 DEF Frames
<1>3. /\ e.insns = c.insns /\ e.death = c.death /\ e.blocks = c.blocks /\ e.binfo = c.binfo
      /\ v.insns = c.insns /\ v.death = c.death /\ v.blocks = c.blocks
      /\ d.insns = c.insns /\ d.death = c.death /\ d.blocks = c.blocks /\ d.binfo = v.binfo
      /\ c.touched \subseteq e.touched /\ e.touched \subseteq v.touched /\ v.touched \subseteq d.touched
      /\ e.early \subseteq c.early /\ v.early \subseteq e.early /\ d.early \subseteq v.early
  BY <1>2 DEF Follows, OnlyOf
<1>4. ASSUME NEW r \in DOMAIN c.info
      PROVE  r \in DOMAIN e.info /\ r \in DOMAIN v.info /\ r \in DOMAIN d.info
  BY <1>1, <1>4 DEF Formed
<1>5. v.binfo[b].load = c.binfo[b].load
  BY <1>1, <1>2, <1>3, HeldLoads DEF IsMerged
<1>6. ASSUME NEW r \in DOMAIN c.info, r # n
      PROVE  /\ Stays(c.info[r], d.info[r], n) /\ d.info[r].host_merge = c.info[r].host_merge
             /\ d.info[r].merge = c.info[r].merge \/ Revoked(c, b, r)
  <2>1. v.info[r] = e.info[r]
    BY <1>2, <1>4, <1>6 DEF OnlyOf
  <2>2. Stays(c.info[r], e.info[r], n) /\ Stays(v.info[r], d.info[r], n)
    BY <1>2, <1>4, <1>6 DEF Follows
  <2>3. Stays(c.info[r], d.info[r], n)
    BY <2>1, <2>2 DEF Stays
  <2>4. /\ e.info[r].host_merge = c.info[r].host_merge
        /\ e.info[r].merge = c.info[r].merge \/ Revoked(c, b, r)
        /\ d.info[r].host_merge = v.info[r].host_merge
        /\ d.info[r].merge = v.info[r].merge \/ Revoked(v, b, r)
    BY <1>2, <1>4 DEF Follows
  <2>5. ASSUME e.info[r].merge = c.info[r].merge, Revoked(v, b, r) PROVE Revoked(c, b, r)
    BY <1>3, <1>5, <2>1, <2>4, <2>5 DEF Revoked
  <2> QED BY <2>1, <2>3, <2>4, <2>5
<1>7. n \in DOMAIN v.info
  BY <1>1 DEF Formed
<1>8. /\ d.info[n].host_merge = v.info[n].host_merge
      /\ d.info[n].merge = v.info[n].merge \/ Revoked(v, b, n)
  BY <1>2, <1>7 DEF Follows
<1>9. CASE ~v.info[n].merge /\ v.binfo = e.binfo
  <2>1. ~d.info[n].merge
    BY <1>8, <1>9 DEF Revoked
  <2> QED BY <1>3, <1>6, <1>9, <2>1 DEF Stepped
<1>10. CASE IsMerged(e, v, b, n)
  <2>1. d.info[n].merge
    BY <1>8, <1>10 DEF Revoked, IsMerged
  <2>2. Held(e, b, n) = Held(c, b, n)
    <3>1. PrevOf(e, b) = PrevOf(c, b) /\ PrevStore(e, b, e.insns[n].x) = PrevStore(c, b, c.insns[n].x)
      BY <1>3 DEF PrevOf, PrevStore, Before
    <3> DEFINE q == PrevStore(e, b, c.insns[n].x)
    <3>2. q # 0 => HostOf(e, q) = HostOf(c, q)
      <4> SUFFICES ASSUME q # 0 PROVE HostOf(e, q) = HostOf(c, q)
        OBVIOUS
      <4>1. q \in 1..(n - 1)
        OBVIOUS
      <4> HIDE DEF q
      <4>2. q \in DOMAIN c.info /\ q # n
        BY <1>1, <4>1 DEF Formed
      <4> QED BY <1>2, <4>2 DEF Follows, Stays, HostOf
    <3> HIDE DEF q
    <3>3. PrevStore(e, b, e.insns[n].x) = q
      BY <1>3 DEF q
    <3> QED BY <1>3, <3>1, <3>2, <3>3 DEF Held
  <2>3. Took(c, d, b, n)
    BY <1>3, <1>8, <1>10, <2>1, <2>2 DEF Took, IsMerged
  <2> QED BY <1>3, <1>6, <2>3 DEF Stepped
<1> QED BY <1>2, <1>9, <1>10

(* So an instruction's registers are allocated. *)
LEMMA InsnSteps ==
  ASSUME NEW s, NEW b, NEW n, Here(s, b, n), NEW c, Scanned(c, s, b, n - 1), NEW d, d = AllocInsn(c, b, n)
  PROVE  Stepped(c, d, b, n)
<1> DEFINE e == AtCall(Release(ReloadedForStore(c, c.insns[n]), n), n)
           v == MergeAlias(Locals(e, n), b, n)
           a == AllocResult(e, b, n)
<1>0. n \in 0..Len(s.insns)
  BY HereFacts
<1>1. Formed(c, s) /\ n \in DOMAIN c.insns /\ Static(c, s)
  BY HereFacts DEF Scanned, Shape, Formed
<1>2. Frames(c, e, s, b, n, {})
  <2> HIDE DEF e
  <2> QED BY <1>1, BeforeFrames DEF e
<1>3. Ready(e, s, b, n)
  <2> HIDE DEF e
  <2> QED BY BeforeResult DEF e
<1>4. d = Touch(a, Clobbers(c.insns[n].op))
  BY DEF AllocInsn
<1> HIDE DEF e
<1>5. Formed(e, s) /\ e.ok = TRUE /\ Shape(e, s) /\ Static(e, s) /\ e.blocks = s.blocks
  BY <1>2, <1>3 DEF Frames, Ready, Asserts, Shape
<1>6. e.insns = c.insns
  BY <1>2, <1>5 DEF Frames, Follows
<1>7. d.ok
  BY InsnScans DEF Scanned, Asserts
<1>8. \A x : Formed(x, s) => Frames(x, Touch(x, Clobbers(c.insns[n].op)), s, b, n, {})
  BY TouchFrames
<1>9. CASE c.insns[n].op \notin Setters
  <2>1. a = e
    BY <1>6, <1>9 DEF AllocResult
  <2>2. Frames(c, d, s, b, n, {})
    BY <1>1, <1>2, <1>4, <1>5, <1>8, <2>1, FramesMore
  <2>3. c.insns[n].op # "get"
    BY <1>9 DEF Setters
  <2> QED BY <1>7, <2>2, <2>3, OtherSteps
<1>10. ASSUME c.insns[n].op \in Setters, Formed(v.c, s), DOMAIN v = WorkFields
       PROVE  Frames(v.c, d, s, b, n, {})
  <2>1. a = TemporaryAfter(AllocateRest(SettlePreferred(v, b, n), b, n), n)
    BY <1>6, <1>10 DEF AllocResult, AllocDest
  <2> HIDE DEF a, v
  <2>2. Frames(v.c, a, s, b, n, {})
    BY <1>0, <1>10, <2>1, RestFrames
  <2>3. Formed(a, s)
    BY <2>2 DEF Frames
  <2> QED BY <1>4, <1>8, <1>10, <2>2, <2>3, FramesMore
<1>11. CASE c.insns[n].op \in Setters /\ c.insns[n].op # "get"
  <2> DEFINE w == Locals(e, n)
  <2>1. Frames(e, w.c, s, b, n, {}) /\ DOMAIN w = WorkFields
    <3> HIDE DEF w
    <3> QED BY <1>0, <1>5, LocalsFrames DEF w
  <2>2. w.c.insns = e.insns
    BY <1>5 DEF Locals, Formed, CtxFields
  <2>3. v = w
    BY <1>6, <1>11, <2>2 DEF MergeAlias
  <2> HIDE DEF w, v
  <2>4. Formed(w.c, s)
    BY <2>1 DEF Frames
  <2>5. Frames(v.c, d, s, b, n, {})
    BY <1>10, <1>11, <2>1, <2>3, <2>4
  <2>6. Frames(c, d, s, b, n, {})
    BY <1>1, <1>2, <1>5, <2>1, <2>3, <2>4, <2>5, FramesMore
  <2> QED BY <1>7, <1>11, <2>6, OtherSteps
<1>12. CASE c.insns[n].op = "get"
  <2>1. c.insns[n].x \in Aliases
    BY <1>1, <1>12 DEF Static, CodeOK, InsnOK
  <2>2. \A i \in Aliases : PrevStore(e, b, i) # 0 => PrevStore(e, b, i) \in 1..(n - 1)
    BY <1>5, PrevFacts
  <2>3. MergesOne(e, v.c, s, b, n) /\ DOMAIN v = WorkFields
    <3> HIDE DEF v
    <3> QED BY <1>5, <1>6, <1>12, <2>1, <2>2, AliasMerges DEF v
  <2>4. Formed(v.c, s)
    BY <2>3 DEF MergesOne, OnlyOf
  <2>5. c.insns[n].op \in Setters
    BY <1>12 DEF Setters
  <2>6. Frames(v.c, d, s, b, n, {})
    BY <1>10, <2>3, <2>4, <2>5
  <2> HIDE DEF v
  <2> QED BY <1>1, <1>2, <1>7, <1>12, <2>1, <2>2, <2>3, <2>6, GetSteps
<1> QED BY <1>9, <1>11, <1>12

(******************************** The edges ********************************)

(* Register q is live in host register h past instruction k, in the code up to there. *)
Lives(c, k, h, q) ==
  /\ q \in 1..k /\ c.insns[q].op \in Setters /\ c.info[q].host = h
  /\ k < c.death[q] /\ ~IsSpilled(c, k, q)
LiveHosts(c, k) == {h \in Hosts : \E q \in 1..k : Lives(c, k, h, q)}

(* A block finds in each host register what is live there. *)
Entered(c, s, t) == \A h \in Hosts : LET r == c.binfo[t].initial[h] IN
  /\ r # 0 => Lives(c, s.blocks[t].first - 1, h, r)
  /\ \A q : Lives(c, s.blocks[t].first - 1, h, q) => r = q

(* The block's GET_ALIASes, up to instruction n, are merged through registers that have
   nothing live on entry, and each through one of its own. *)
MergedGets(c, s, t, n) == {g \in InBlock(s, t) : g <= n /\ c.insns[g].op = "get" /\ c.info[g].merge}
Merged(c, s, t, n) == \A g \in MergedGets(c, s, t, n) :
  /\ c.info[g].host_merge \in Hosts /\ c.binfo[t].initial[c.info[g].host_merge] = 0
  /\ \A f \in MergedGets(c, s, t, n) : c.info[f].host_merge = c.info[g].host_merge => f = g

(* At the end of a block end_live has what is live there, and the registers of the values
   that the block after it merges. *)
Handed(c, s, p, n) == {g \in 1..n : \E e \in DOMAIN s.blocks :
  PrevOf(c, e) = p /\ g \in MergedGets(c, s, e, n) /\ PrevStore(c, e, c.insns[g].x) # 0}
Leaves(c, s, p, n) ==
  LiveHosts(c, s.blocks[p].last) \cup {HostOf(c, c.binfo[p].store[c.insns[g].x]) : g \in Handed(c, s, p, n)}
Within(c, s, T, P, n) ==
  /\ \A t \in T : Entered(c, s, t) /\ Merged(c, s, t, n)
  /\ \A p \in P : c.binfo[p].end_live = Leaves(c, s, p, n)

(* Between the blocks, no register is kept for one that is dead. *)
MapAlive(c, n) == \A h \in Hosts : c.map[h] # 0 => n < c.death[c.map[h]]
Joined(c, s, T, n) == MapAlive(c, n) /\ Within(c, s, T, T, n)

(* All this is about the code up to an instruction only. *)
SamePast(c, d, s, n) ==
  /\ d.insns = c.insns /\ d.death = c.death /\ d.blocks = c.blocks
  /\ \A e \in DOMAIN s.blocks : d.binfo[e].store = c.binfo[e].store
  /\ \A r \in 1..n :
       /\ d.info[r].host = c.info[r].host /\ d.info[r].merge = c.info[r].merge
       /\ d.info[r].host_merge = c.info[r].host_merge
       /\ \A k \in 0..n : IsSpilled(d, k, r) <=> IsSpilled(c, k, r)

(* What is live stays live, *)
LEMMA PastLives ==
  ASSUME NEW s, NEW c, NEW d, NEW n \in Nat, SamePast(c, d, s, n), NEW k \in 0..n, NEW h, NEW q
  PROVE  Lives(d, k, h, q) <=> Lives(c, k, h, q)
<1>1. CASE q \in 1..k
  <2>1. q \in 1..n
    BY <1>1
  <2>2. d.info[q].host = c.info[q].host /\ (IsSpilled(d, k, q) <=> IsSpilled(c, k, q))
    BY <2>1 DEF SamePast
  <2> QED BY <2>2 DEF SamePast, Lives
<1>2. CASE q \notin 1..k
  BY <1>2 DEF Lives
<1> QED BY <1>1, <1>2

(* what a block finds is still found, *)
LEMMA PastEntered ==
  ASSUME NEW s, IsSkeleton(s), NEW c, NEW d, NEW n \in Nat, SamePast(c, d, s, n),
         NEW t \in DOMAIN s.blocks, s.blocks[t].first <= n + 1, d.binfo[t].initial = c.binfo[t].initial,
         Entered(c, s, t)
  PROVE  Entered(d, s, t)
<1> DEFINE k == s.blocks[t].first - 1
<1>1. k \in 0..n
  BY BlockFacts
<1> HIDE DEF k
<1>2. \A h, q : Lives(d, k, h, q) <=> Lives(c, k, h, q)
  BY <1>1, PastLives
<1> QED BY <1>2 DEF Entered, k

(* the merges are the same, *)
LEMMA PastMerges ==
  ASSUME NEW s, IsSkeleton(s), NEW c, NEW d, NEW n \in Nat, SamePast(c, d, s, n), NEW t \in DOMAIN s.blocks
  PROVE  /\ MergedGets(d, s, t, n) = MergedGets(c, s, t, n)
         /\ d.binfo[t].initial = c.binfo[t].initial /\ Merged(c, s, t, n) => Merged(d, s, t, n)
<1>1. InBlock(s, t) \subseteq 1..Len(s.insns) /\ Len(s.insns) \in Nat
  BY BlockFacts
<1>2. ASSUME NEW g \in InBlock(s, t), g <= n
      PROVE  g \in 1..n /\ d.info[g].merge = c.info[g].merge /\ d.info[g].host_merge = c.info[g].host_merge
  <2>1. g \in 1..n
    BY <1>1, <1>2
  <2> QED BY <2>1 DEF SamePast
<1>3. MergedGets(d, s, t, n) = MergedGets(c, s, t, n)
  BY <1>2 DEF MergedGets, SamePast
<1>4. \A g \in MergedGets(c, s, t, n) : d.info[g].host_merge = c.info[g].host_merge
  BY <1>2 DEF MergedGets
<1> QED BY <1>3, <1>4 DEF Merged

(* and so is what is left. *)
LEMMA PastLeaves ==
  ASSUME NEW s, IsSkeleton(s), NEW c, NEW d, NEW n \in Nat, SamePast(c, d, s, n), Stores(c, s),
         c.blocks = s.blocks, CodeOK(c), DOMAIN c.insns = 1..Len(s.insns), n <= Len(s.insns),
         NEW p \in DOMAIN s.blocks, s.blocks[p].last <= n
  PROVE  Handed(d, s, p, n) = Handed(c, s, p, n) /\ Leaves(d, s, p, n) = Leaves(c, s, p, n)
<1> DEFINE k == s.blocks[p].last
<1>1. k \in 0..n /\ Len(s.insns) \in Nat
  BY BlockFacts
<1>2. LiveHosts(d, k) = LiveHosts(c, k)
  <2> HIDE DEF k
  <2>1. \A h, q : Lives(d, k, h, q) <=> Lives(c, k, h, q)
    BY <1>1, PastLives
  <2> QED BY <2>1 DEF LiveHosts
<1>3. d.insns = c.insns /\ d.blocks = c.blocks /\ \A e \in DOMAIN s.blocks : d.binfo[e].store = c.binfo[e].store
  BY DEF SamePast
<1>4. \A e \in DOMAIN s.blocks : PrevOf(d, e) = PrevOf(c, e) /\ PrevOf(c, e) \in DOMAIN s.blocks \cup {None}
  <2> SUFFICES ASSUME NEW e \in DOMAIN s.blocks
               PROVE  PrevOf(d, e) = PrevOf(c, e) /\ PrevOf(c, e) \in DOMAIN s.blocks \cup {None}
    OBVIOUS
  <2>1. PrevOf(d, e) = PrevOf(c, e)
    BY <1>3 DEF PrevOf, Before
  <2>2. Before(c, e) # {} => Latest(Before(c, e)) \in Before(c, e)
    <3>1. Before(c, e) \subseteq Nat /\ e \in Nat /\ \A j \in Before(c, e) : j <= e
      BY BackwardFacts DEF Before
    <3> HIDE DEF Before
    <3> QED BY <3>1, LatestIn
  <2> QED BY <2>1, <2>2 DEF PrevOf, Before
<1>5. \A e \in DOMAIN s.blocks : \A a : PrevStore(d, e, a) = PrevStore(c, e, a)
  BY <1>3, <1>4 DEF PrevStore
<1>6. Handed(d, s, p, n) = Handed(c, s, p, n)
  <2>1. \A e \in DOMAIN s.blocks : MergedGets(d, s, e, n) = MergedGets(c, s, e, n)
    BY PastMerges
  <2> QED BY <1>3, <1>4, <1>5, <2>1 DEF Handed
<1>7. ASSUME NEW g \in Handed(c, s, p, n)
      PROVE  HostOf(d, d.binfo[p].store[d.insns[g].x]) = HostOf(c, c.binfo[p].store[c.insns[g].x])
  <2> DEFINE a == c.insns[g].x
             r == c.binfo[p].store[a]
  <2>1. PICK e \in DOMAIN s.blocks : PrevOf(c, e) = p /\ g \in MergedGets(c, s, e, n) /\ PrevStore(c, e, a) # 0
    BY DEF Handed
  <2>2. PrevStore(c, e, a) = r
    BY <2>1 DEF PrevStore
  <2>3. g \in DOMAIN c.insns /\ c.insns[g].op = "get"
    BY <2>1, BlockFacts DEF MergedGets
  <2>4. a \in Aliases
    BY <2>3 DEF CodeOK, InsnOK
  <2>5. r \in 1..k
    BY <2>1, <2>2, <2>4 DEF Stores
  <2>6. r \in 1..n
    BY <1>1, <2>5
  <2>7. d.binfo[p].store[d.insns[g].x] = r
    BY <1>3
  <2> HIDE DEF r
  <2>8. HostOf(d, r) = HostOf(c, r)
    BY <2>6 DEF SamePast, HostOf
  <2> QED BY <2>7, <2>8 DEF r
<1>8. {HostOf(d, d.binfo[p].store[d.insns[g].x]) : g \in Handed(d, s, p, n)}
        = {HostOf(c, c.binfo[p].store[c.insns[g].x]) : g \in Handed(c, s, p, n)}
  BY <1>6, <1>7
<1> QED BY <1>2, <1>6, <1>8 DEF Leaves

(* The allocation of an instruction leaves what is before it as it was. *)
LEMMA StepPast ==
  ASSUME NEW s, NEW b, NEW n, Here(s, b, n), NEW c, Scanned(c, s, b, n - 1), NEW d, Stepped(c, d, b, n)
  PROVE  SamePast(c, d, s, n - 1) /\ \A e \in DOMAIN s.blocks : d.binfo[e].initial = c.binfo[e].initial
<1> DEFINE N == Len(s.insns)
<1>1. N \in Nat /\ n \in 1..N /\ b \in DOMAIN s.blocks /\ InBlock(s, b) \subseteq 1..N
  BY HereFacts DEF Here
<1>2. /\ Shape(c, s) /\ Loads(c, s) /\ Promises(c, s, b, n - 1) /\ DOMAIN c.insns = 1..N /\ DOMAIN c.info = 0..N
  BY DEF Scanned, Static, Shape
<1>3. ASSUME NEW e \in DOMAIN s.blocks
      PROVE  d.binfo[e].store = c.binfo[e].store /\ d.binfo[e].initial = c.binfo[e].initial
  <2>1. d.binfo = c.binfo \/ d.binfo = Held(c, b, n)
    BY DEF Stepped, Took
  <2>2. DOMAIN c.binfo[e] = BlockFields /\ e \in DOMAIN c.binfo
    BY <1>2 DEF Shape
  <2> QED BY <2>1, <2>2 DEF Held, BlockFields
<1>4. ASSUME NEW r \in 1..(n - 1)
      PROVE  /\ d.info[r].host = c.info[r].host /\ d.info[r].merge = c.info[r].merge
             /\ d.info[r].host_merge = c.info[r].host_merge
             /\ \A k \in 0..(n - 1) : IsSpilled(d, k, r) <=> IsSpilled(c, k, r)
  <2>1. r \in DOMAIN c.info /\ r # n /\ r \in DOMAIN c.insns
    BY <1>1, <1>2
  <2>2. /\ Stays(c.info[r], d.info[r], n) /\ d.info[r].host_merge = c.info[r].host_merge
        /\ d.info[r].merge = c.info[r].merge \/ Revoked(c, b, r)
    BY <2>1 DEF Stepped
  <2>3. ASSUME Revoked(c, b, r) PROVE FALSE
    <3>1. c.info[r].merge /\ c.info[r].host_merge \in c.early /\ \E a \in Aliases : r = c.binfo[b].load[a]
      BY <2>3 DEF Revoked
    <3>2. PICK a \in Aliases : r = c.binfo[b].load[a]
      BY <3>1
    <3>3. r # 0
      BY <1>1
    <3>4. r \in InBlock(s, b) /\ c.insns[r].op = "get"
      BY <1>1, <1>2, <3>2, <3>3 DEF Loads
    <3>5. c.info[r].merge = TRUE
      BY <1>2, <2>1, <3>1 DEF Promises
    <3>6. c.info[r].host_merge \notin c.early
      BY <1>1, <1>2, <3>4, <3>5 DEF Promises
    <3> QED BY <3>1, <3>6
  <2>4. ASSUME NEW k \in 0..(n - 1) PROVE IsSpilled(d, k, r) <=> IsSpilled(c, k, r)
    BY <1>1, <2>2 DEF Stays, IsSpilled
  <2> QED BY <2>2, <2>3, <2>4 DEF Stays
<1> QED BY <1>3, <1>4 DEF SamePast, Stepped

(* A block has used the registers that are live on entry, and those of its merges. *)
Used(c, s, b, n) ==
  /\ \A h \in Hosts : c.binfo[b].initial[h] # 0 => h \in c.touched
  /\ \A g \in MergedGets(c, s, b, n) : c.info[g].host_merge \in c.touched

(* It may merge one more GET_ALIAS. *)
LEMMA StepMerges ==
  ASSUME NEW s, NEW b, NEW n, Here(s, b, n), NEW c, Scanned(c, s, b, n - 1), NEW d, Stepped(c, d, b, n)
  PROVE  /\ \A e \in DOMAIN s.blocks : e # b => MergedGets(d, s, e, n) = MergedGets(c, s, e, n - 1)
         /\ \/ d.binfo = c.binfo /\ MergedGets(d, s, b, n) = MergedGets(c, s, b, n - 1)
            \/ Took(c, d, b, n) /\ MergedGets(d, s, b, n) = MergedGets(c, s, b, n - 1) \cup {n}
                 /\ c.insns[n].op = "get"
<1>1. /\ Len(s.insns) \in Nat /\ n \in 1..Len(s.insns) /\ n - 1 \in Nat /\ b \in DOMAIN s.blocks /\ IsSkeleton(s)
      /\ n \in InBlock(s, b)
  BY HereFacts DEF Here
<1>2. SamePast(c, d, s, n - 1)
  BY StepPast
<1>3. \A e \in DOMAIN s.blocks : MergedGets(d, s, e, n - 1) = MergedGets(c, s, e, n - 1)
  BY <1>1, <1>2, PastMerges
<1>4. \A e \in DOMAIN s.blocks : InBlock(s, e) \subseteq Int
  BY <1>1, BlockFacts
<1>5. \A e \in DOMAIN s.blocks : n \in InBlock(s, e) => e = b
  BY <1>1, OneBlock
<1>6. d.insns = c.insns
  BY DEF Stepped
<1>7. \A e \in DOMAIN s.blocks : e # b => MergedGets(d, s, e, n) = MergedGets(d, s, e, n - 1)
  BY <1>1, <1>4, <1>5 DEF MergedGets
<1>8. CASE d.binfo = c.binfo /\ ~(c.insns[n].op = "get" /\ d.info[n].merge)
  <2>1. MergedGets(d, s, b, n) = MergedGets(d, s, b, n - 1)
    BY <1>1, <1>4, <1>6, <1>8 DEF MergedGets
  <2> QED BY <1>1, <1>3, <1>7, <1>8, <2>1
<1>9. CASE c.insns[n].op = "get" /\ Took(c, d, b, n)
  <2>1. MergedGets(d, s, b, n) = MergedGets(d, s, b, n - 1) \cup {n}
    BY <1>1, <1>4, <1>6, <1>9 DEF MergedGets, Took
  <2> QED BY <1>1, <1>3, <1>7, <1>9, <2>1
<1> QED BY <1>8, <1>9 DEF Stepped

(* An entry is of the block after the one that it is the end of. *)
LEMMA PrevBefore ==
  ASSUME NEW s, IsSkeleton(s), NEW c, c.blocks = s.blocks, NEW e \in DOMAIN s.blocks,
         NEW p, PrevOf(c, e) = p, p # None
  PROVE  p \in Before(s, e) /\ \A q \in Before(s, e) : q <= p
<1>1. Before(c, e) = Before(s, e)
  BY DEF Before
<1>2. Before(s, e) \subseteq Nat /\ e \in Nat /\ \A j \in Before(s, e) : j <= e
  BY BackwardFacts DEF Before
<1>3. Before(s, e) # {}
  BY <1>1 DEF PrevOf
<1>4. p = Latest(Before(s, e))
  BY <1>1, <1>3 DEF PrevOf
<1> HIDE DEF Before
<1> QED BY <1>2, <1>3, <1>4, LatestIn

(* What holds at instruction n of a block holds of the next. *)
LEMMA StepWithin ==
  ASSUME NEW s, NEW b, NEW n, Here(s, b, n), NEW c, Scanned(c, s, b, n - 1), NEW d, Stepped(c, d, b, n),
         NEW T, NEW P, T = Before(s, b) \cup {b}, P = Before(s, b),
         Within(c, s, T, P, n - 1), Used(c, s, b, n - 1)
  PROVE  Within(d, s, T, P, n) /\ Used(d, s, b, n)
<1> DEFINE N == Len(s.insns)
           m == n - 1
<1>1. /\ N \in Nat /\ n \in 1..N /\ m \in Nat /\ b \in DOMAIN s.blocks /\ IsSkeleton(s) /\ n \in InBlock(s, b)
      /\ m <= N /\ s.blocks[b].first <= n /\ n \notin 1..m /\ n \in Int
  BY HereFacts DEF Here
<1>2. /\ Shape(c, s) /\ Static(c, s) /\ c.blocks = s.blocks /\ DOMAIN c.insns = 1..N /\ CodeOK(c) /\ Stores(c, s)
  BY DEF Scanned, Static, Shape
<1>3. SamePast(c, d, s, m) /\ \A e \in DOMAIN s.blocks : d.binfo[e].initial = c.binfo[e].initial
  BY StepPast
<1>4. /\ \A e \in DOMAIN s.blocks : e # b => MergedGets(d, s, e, n) = MergedGets(c, s, e, m)
      /\ \/ d.binfo = c.binfo /\ MergedGets(d, s, b, n) = MergedGets(c, s, b, m)
         \/ Took(c, d, b, n) /\ MergedGets(d, s, b, n) = MergedGets(c, s, b, m) \cup {n}
              /\ c.insns[n].op = "get"
  BY StepMerges
<1>5. /\ T \subseteq DOMAIN s.blocks /\ P \subseteq DOMAIN s.blocks
      /\ \A t \in T : s.blocks[t].first <= m + 1
      /\ \A p \in P : s.blocks[p].last <= m
  <2>1. \A p \in P : s.blocks[p].last < s.blocks[b].first
    BY <1>1 DEF Before, IsSkeleton, IsBlocks
  <2>2. \A p \in P :
         s.blocks[p].first <= s.blocks[p].last /\ s.blocks[p].first \in Int /\ s.blocks[p].last \in Int
    BY <1>1, BlockFacts DEF Before
  <2>3. s.blocks[b].first \in Int
    BY <1>1, BlockFacts
  <2> QED BY <1>1, <2>1, <2>2, <2>3 DEF Before
<1>6. \A t \in T : MergedGets(d, s, t, m) = MergedGets(c, s, t, m) /\ Merged(d, s, t, m)
  BY <1>1, <1>3, <1>5, PastMerges DEF Within
<1>7. \A t \in T : Entered(d, s, t)
  BY <1>1, <1>3, <1>5, PastEntered DEF Within
<1>8. \A p \in P : Handed(d, s, p, m) = Handed(c, s, p, m) /\ Leaves(d, s, p, m) = Leaves(c, s, p, m)
  BY <1>1, <1>2, <1>3, <1>5, PastLeaves
<1>9. \A p \in P : c.binfo[p].end_live = Leaves(d, s, p, m)
  BY <1>8 DEF Within
<1>10. \A t \in T : t # b => Merged(d, s, t, n)
  BY <1>4, <1>5, <1>6 DEF Merged
<1>11. c.touched \subseteq d.touched /\ d.insns = c.insns /\ d.blocks = c.blocks
  BY DEF Stepped
<1>12. \A g \in MergedGets(c, s, b, m) : g \in 1..m /\ d.info[g].host_merge = c.info[g].host_merge
  <2>1. \A g \in MergedGets(c, s, b, m) : g \in 1..m
    BY <1>1, BlockFacts DEF MergedGets
  <2> QED BY <2>1, <1>3 DEF SamePast
<1>13. CASE d.binfo = c.binfo /\ MergedGets(d, s, b, n) = MergedGets(c, s, b, m)
  <2>1. \A e \in DOMAIN s.blocks : MergedGets(d, s, e, n) = MergedGets(d, s, e, m)
    BY <1>1, <1>3, <1>4, <1>13, PastMerges
  <2>2. \A e \in DOMAIN s.blocks : \A g \in MergedGets(d, s, e, m) : g \in 1..m
    BY <1>1, BlockFacts DEF MergedGets
  <2>3. \A p : Handed(d, s, p, n) = Handed(d, s, p, m)
    BY <1>1, <2>1, <2>2 DEF Handed
  <2>4. \A p : Leaves(d, s, p, n) = Leaves(d, s, p, m)
    BY <2>3 DEF Leaves
  <2>5. Merged(d, s, b, n)
    BY <1>1, <1>6, <2>1 DEF Merged
  <2>6. Within(d, s, T, P, n)
    BY <1>7, <1>9, <1>10, <1>13, <2>4, <2>5 DEF Within
  <2>7. Used(d, s, b, n)
    BY <1>1, <1>3, <1>11, <1>12, <1>13 DEF Used
  <2> QED BY <2>6, <2>7
<1>14. CASE /\ Took(c, d, b, n) /\ MergedGets(d, s, b, n) = MergedGets(c, s, b, m) \cup {n}
            /\ c.insns[n].op = "get"
  <2> DEFINE h == d.info[n].host_merge
             a == c.insns[n].x
             q == PrevStore(c, b, a)
             l == PrevOf(c, b)
  <2>1. h \in Hosts /\ h \notin c.touched /\ h \in d.touched /\ d.binfo = Held(c, b, n)
    BY <1>14 DEF Took
  <2>2. d.binfo[b].initial[h] = 0
    BY <1>1, <1>3, <2>1 DEF Used
  <2>3. \A g \in MergedGets(c, s, b, m) : c.info[g].host_merge \in c.touched
    BY DEF Used
  <2>4. Merged(d, s, b, n)
    BY <1>1, <1>6, <1>12, <1>14, <2>1, <2>2, <2>3 DEF Merged
  <2>5. Used(d, s, b, n)
    BY <1>1, <1>3, <1>11, <1>12, <1>14, <2>1, <2>3 DEF Used
  <2>6. \A e \in DOMAIN s.blocks : PrevOf(d, e) = PrevOf(c, e)
    BY <1>11 DEF PrevOf, Before
  <2>7. ASSUME NEW p \in P
        PROVE  Handed(d, s, p, n) = Handed(d, s, p, m) \cup (IF p = l /\ q # 0 THEN {n} ELSE {})
    <3>1. PrevStore(d, b, a) = PrevStore(c, b, a) \/ p # l
      <4>1. \A e \in DOMAIN s.blocks : d.binfo[e].store = c.binfo[e].store
        BY <1>3 DEF SamePast
      <4> QED BY <1>1, <1>5, <1>11, <2>6, <4>1 DEF PrevStore
    <3>2. \A e \in DOMAIN s.blocks : e # b => MergedGets(d, s, e, n) = MergedGets(d, s, e, m)
      BY <1>1, <1>3, <1>4, PastMerges
    <3>3. MergedGets(d, s, b, n) = MergedGets(d, s, b, m) \cup {n}
      BY <1>1, <1>3, <1>14, PastMerges
    <3>4. \A e \in DOMAIN s.blocks : \A g \in MergedGets(d, s, e, m) : g \in 1..m /\ g \in 1..n
      BY <1>1, BlockFacts DEF MergedGets
    <3>5. n \in 1..n /\ n \notin 1..m
      BY <1>1
    <3>6. d.insns[n].x = a
      BY <1>11
    <3> HIDE DEF q, m, h, a
    <3> QED BY <1>1, <2>6, <3>1, <3>2, <3>3, <3>4, <3>5, <3>6 DEF Handed, q
  <2>8. q # 0 => q \in 1..m /\ q = c.binfo[l].store[a] /\ HostOf(d, q) = HostOf(c, q)
    <3> SUFFICES ASSUME q # 0 PROVE q \in 1..m /\ q = c.binfo[l].store[a] /\ HostOf(d, q) = HostOf(c, q)
      OBVIOUS
    <3>1. a \in Aliases
      BY <1>1, <1>2, <1>14 DEF CodeOK, InsnOK
    <3>2. q \in 1..m
      BY <1>2, <3>1, PrevFacts
    <3>3. q = c.binfo[l].store[a]
      BY DEF PrevStore
    <3> HIDE DEF q
    <3> QED BY <1>3, <3>2, <3>3 DEF SamePast, HostOf
  <2>9. ASSUME NEW p \in P PROVE d.binfo[p].end_live = Leaves(d, s, p, n)
    <3>1. d.binfo[p].store = c.binfo[p].store /\ d.insns = c.insns
      BY <1>3, <1>5, <1>11 DEF SamePast
    <3>2. p \in DOMAIN c.binfo /\ DOMAIN c.binfo[p] = BlockFields
      BY <1>2, <1>5 DEF Shape
    <3> HIDE DEF q, l, m, h
    <3>3. CASE p = l /\ q # 0
      <4>1. d.binfo[p].end_live = c.binfo[p].end_live \cup {HostOf(c, q)}
        BY <2>1, <3>2, <3>3 DEF Held, BlockFields, q, l
      <4>2. HostOf(d, d.binfo[p].store[d.insns[n].x]) = HostOf(c, q)
        BY <2>8, <3>1, <3>3
      <4>3. Handed(d, s, p, n) = Handed(d, s, p, m) \cup {n}
        BY <2>7, <3>3
      <4>4. Leaves(d, s, p, n) = Leaves(d, s, p, m) \cup {HostOf(d, d.binfo[p].store[d.insns[n].x])}
        BY <4>3 DEF Leaves
      <4> QED BY <1>9, <4>1, <4>2, <4>4
    <3>4. CASE ~(p = l /\ q # 0)
      <4>1. d.binfo[p].end_live = c.binfo[p].end_live
        BY <2>1, <3>2, <3>4 DEF Held, q, l
      <4>2. Handed(d, s, p, n) = Handed(d, s, p, m)
        BY <2>7, <3>4
      <4>3. Leaves(d, s, p, n) = Leaves(d, s, p, m)
        BY <4>2 DEF Leaves
      <4> QED BY <1>9, <4>1, <4>3
    <3> QED BY <3>3, <3>4
  <2> QED BY <1>7, <1>10, <2>4, <2>5, <2>9 DEF Within
<1> QED BY <1>4, <1>13, <1>14

(* What the start of block b does, the promises of MERGE_REGS included. *)
Starts(c, d, s, b) ==
  /\ DOMAIN d = CtxFields /\ DOMAIN d.info = DOMAIN c.info
  /\ d.insns = c.insns /\ d.death = c.death /\ d.blocks = c.blocks
  /\ d.binfo = [c.binfo EXCEPT ![b].initial = c.map] /\ d.touched = Hosts \ Free(c)
  /\ \A r \in DOMAIN c.info :
       /\ DOMAIN d.info[r] = InfoFields
       /\ d.info[r].host = c.info[r].host /\ d.info[r].spilled = c.info[r].spilled
       /\ d.info[r].spill_insn = c.info[r].spill_insn
       /\ r \notin InBlock(s, b) => d.info[r] = c.info[r]

(* A promise is one of the block's instructions'. *)
LEMMA PromiseStarts ==
  ASSUME NEW s, NEW b, NEW c, NEW e, Starts(c, e, s, b), NEW n \in InBlock(s, b), n \in DOMAIN c.info,
         NEW d, d = Promise(e, b, n)
  PROVE  Starts(c, d, s, b)
<1> DEFINE entries   == e.blocks[b].entries
           store(k)  == e.binfo[entries[k]].store[e.insns[n].x]
           good(r)   == /\ r # 0 /\ e.info[r].allocated /\ ~e.info[r].spilled
                        /\ HostOf(e, r) \in Free(e) \ e.early
           sources   == {k \in DOMAIN entries : good(store(k))}
           h         == HostOf(e, store(Least(sources)))
           x == [e EXCEPT !.early = @ \cup {h}, !.info[n].merge = TRUE, !.info[n].host_merge = h]
<1>1. d = e \/ d = x
  BY DEF Promise
<1> HIDE DEF h
<1>2. CASE d = e
  BY <1>2
<1>3. CASE d = x
  <2>1. /\ DOMAIN d = CtxFields /\ d.insns = e.insns /\ d.death = e.death /\ d.blocks = e.blocks
        /\ d.binfo = e.binfo /\ d.touched = e.touched
        /\ d.info = [e.info EXCEPT ![n].merge = TRUE, ![n].host_merge = h]
    BY <1>3 DEF Starts, CtxFields
  <2>2. /\ DOMAIN d.info = DOMAIN e.info /\ \A r \in DOMAIN e.info : r # n => d.info[r] = e.info[r]
        /\ d.info[n] = [e.info[n] EXCEPT !.merge = TRUE, !.host_merge = h]
    BY <2>1 DEF Starts, InfoFields
  <2>3. /\ DOMAIN d.info[n] = InfoFields /\ d.info[n].host = e.info[n].host
        /\ d.info[n].spilled = e.info[n].spilled /\ d.info[n].spill_insn = e.info[n].spill_insn
    BY <2>2 DEF Starts, InfoFields
  <2> HIDE DEF x
  <2> QED BY <2>1, <2>2, <2>3 DEF Starts
<1> QED BY <1>1, <1>2, <1>3

(* All of them are. *)
LEMMA BlockStarts ==
  ASSUME NEW s, NEW b, NEW m, Ahead(s, b, m), NEW c, Shape(c, s), NEW d, d = StartBlock(c, b)
  PROVE  Starts(c, d, s, b)
<1> DEFINE n == Size(c, b)
           f == Promised(c, b)
           Good == {k \in Nat : k <= n => Starts(c, f[k], s, b)}
<1>1. /\ n \in Nat /\ \A k \in 1..n : Here(s, b, Insn(c, b, k))
  BY InsnHere DEF Shape
<1>2. \A k \in 0..n : f[k] = IF k = 0 THEN Opened(c, b) ELSE Promise(f[k - 1], b, Insn(c, b, k))
  <2> HIDE DEF n, f
  <2>1. f = [k \in 0..n |-> IF k = 0 THEN Opened(c, b) ELSE Promise(f[k - 1], b, Insn(c, b, k))]
    BY <1>1, PromisedRecur DEF n, f
  <2> QED BY <2>1
<1> HIDE DEF f
<1>3. Starts(c, Opened(c, b), s, b)
  <2> DEFINE o == Opened(c, b)
  <2>1. /\ DOMAIN o = CtxFields /\ o.insns = c.insns /\ o.death = c.death /\ o.blocks = c.blocks
        /\ o.binfo = [c.binfo EXCEPT ![b].initial = c.map] /\ o.touched = Hosts \ Free(c) /\ o.info = c.info
    BY DEF Opened, Shape, CtxFields
  <2> HIDE DEF o
  <2>2. \A r \in DOMAIN c.info : DOMAIN c.info[r] = InfoFields
    BY DEF Shape
  <2> QED BY <2>1, <2>2 DEF Starts, o
<1> HIDE DEF n
<1>4. 0 \in Good
  BY <1>1, <1>2, <1>3
<1>5. ASSUME NEW k \in Nat, k \in Good PROVE k + 1 \in Good
  <2> SUFFICES ASSUME k + 1 <= n PROVE Starts(c, f[k + 1], s, b)
    OBVIOUS
  <2> DEFINE i == Insn(c, b, k + 1)
  <2>1. k + 1 \in 0..n /\ k + 1 \in 1..n /\ k + 1 # 0 /\ (k + 1) - 1 = k /\ k <= n
    BY <1>1
  <2>2. f[k + 1] = Promise(f[k], b, i)
    BY <1>2, <2>1
  <2>3. Here(s, b, i)
    BY <1>1, <2>1
  <2> HIDE DEF i
  <2>4. i \in InBlock(s, b) /\ i \in DOMAIN c.info
    BY <2>3, HereFacts DEF Here, Shape
  <2> QED BY <1>5, <2>1, <2>2, <2>4, PromiseStarts
<1> HIDE DEF Good
<1>6. n \in Good
  BY <1>1, <1>4, <1>5, Induction
<1>7. Starts(c, f[n], s, b)
  BY <1>1, <1>6 DEF Good
<1> QED BY <1>3, <1>7 DEF StartBlock, f, n

(* Between the blocks, what is live is what the allocator has registers for. *)
LEMMA MapLives ==
  ASSUME NEW s, NEW c, Shape(c, s), NEW m \in Nat, m <= Len(s.insns), Len(s.insns) \in Nat,
         Placed(c, m, m), MapAlive(c, m), NEW h \in Hosts, NEW q
  PROVE  Lives(c, m, h, q) <=> q # 0 /\ c.map[h] = q
<1>1. ASSUME q # 0, c.map[h] = q PROVE Lives(c, m, h, q)
  <2>1. /\ q \in 1..m /\ c.insns[q].op \in Setters /\ c.info[q].host = h /\ c.info[q].spilled = FALSE
    BY <1>1 DEF Placed, MapOK
  <2>2. m < c.death[q]
    BY <1>1 DEF MapAlive
  <2> QED BY <2>1, <2>2 DEF Lives, IsSpilled
<1>2. ASSUME Lives(c, m, h, q) PROVE q # 0 /\ c.map[h] = q
  <2>1. q \in 1..m /\ c.insns[q].op \in Setters /\ c.info[q].host = h /\ m < c.death[q] /\ ~IsSpilled(c, m, q)
    BY <1>2 DEF Lives
  <2>2. c.death[q] \in Int
    BY <2>1 DEF Shape
  <2>3. c.info[q].spilled # TRUE
    <3> SUFFICES ASSUME c.info[q].spilled = TRUE PROVE FALSE
      OBVIOUS
    <3>1. c.info[q].spill_insn \in (q + 1)..m
      BY <2>1 DEF Placed, SpillsOK
    <3> QED BY <2>1, <3>1 DEF IsSpilled
  <2>4. c.map[h] = q
    <3>1. InPlace(c, m, m)
      BY DEF Placed
    <3>2. c.info[q].spilled = TRUE \/ c.death[q] <= m \/ c.map[c.info[q].host] = q
      BY <2>1, <3>1 DEF InPlace
    <3>3. ~(c.death[q] <= m)
      BY <2>1, <2>2
    <3> QED BY <2>1, <2>3, <3>2, <3>3
  <2> QED BY <2>1, <2>4
<1> QED BY <1>1, <1>2

(* The block that is started finds what the allocator has. *)
LEMMA StartWithin ==
  ASSUME NEW s, NEW b, NEW m, Ahead(s, b, m), NEW c, Between(c, s, m), NEW T, T = Before(s, b),
         Joined(c, s, T, m), NEW d, Starts(c, d, s, b)
  PROVE  Within(d, s, T \cup {b}, T, m) /\ Used(d, s, b, m)
<1> DEFINE N == Len(s.insns)
<1>1. /\ N \in Nat /\ m \in 0..N /\ m \in Nat /\ b \in DOMAIN s.blocks /\ IsSkeleton(s)
      /\ m + 1 = s.blocks[b].first /\ s.blocks[b].first - 1 = m /\ m <= N
  BY AheadFacts DEF Ahead
<1>2. /\ Shape(c, s) /\ CodeOK(c) /\ Stores(c, s) /\ c.blocks = s.blocks /\ DOMAIN c.insns = 1..N
      /\ DOMAIN c.info = 0..N /\ Placed(c, m, m) /\ MapAlive(c, m) /\ Within(c, s, T, T, m)
      /\ DOMAIN c.binfo = DOMAIN s.blocks
  BY DEF Between, Static, Shape, Joined
<1>3. /\ T \subseteq DOMAIN s.blocks /\ b \notin T
      /\ \A t \in T : s.blocks[t].first <= m + 1 /\ s.blocks[t].last <= m
  <2>1. \A p \in T : s.blocks[p].last < s.blocks[b].first
    BY <1>1 DEF Before, IsSkeleton, IsBlocks
  <2>2. \A p \in T :
         s.blocks[p].first <= s.blocks[p].last /\ s.blocks[p].first \in Int /\ s.blocks[p].last \in Int
    BY <1>1, BlockFacts DEF Before
  <2>3. b \in Nat
    BY <1>1, BlockFacts
  <2> QED BY <1>1, <2>1, <2>2, <2>3 DEF Before
<1>4. /\ d.binfo[b].initial = c.map /\ \A t \in T : d.binfo[t] = c.binfo[t]
      /\ \A e \in DOMAIN s.blocks : d.binfo[e].store = c.binfo[e].store
  <2>1. \A e \in DOMAIN s.blocks : DOMAIN c.binfo[e] = BlockFields
    BY <1>2 DEF Shape
  <2> QED BY <1>1, <1>2, <1>3, <2>1 DEF Starts, BlockFields
<1>5. SamePast(c, d, s, m)
  <2>1. ASSUME NEW r \in 1..m PROVE d.info[r] = c.info[r]
    <3>1. r \in DOMAIN c.info /\ r \notin InBlock(s, b)
      BY <1>1, <1>2 DEF InBlock
    <3> QED BY <3>1 DEF Starts
  <2> QED BY <1>4, <2>1 DEF SamePast, Starts, IsSpilled
<1>6. \A t \in T : Entered(d, s, t) /\ Merged(d, s, t, m)
  BY <1>1, <1>2, <1>3, <1>4, <1>5, PastEntered, PastMerges DEF Within
<1>7. \A t \in T : d.binfo[t].end_live = Leaves(d, s, t, m)
  BY <1>1, <1>2, <1>3, <1>4, <1>5, PastLeaves DEF Within
<1>8. Entered(d, s, b)
  <2>1. \A h \in Hosts : \A q : Lives(c, m, h, q) <=> q # 0 /\ c.map[h] = q
    BY <1>1, <1>2, MapLives
  <2>2. \A h, q : Lives(d, m, h, q) <=> Lives(c, m, h, q)
    BY <1>1, <1>5, PastLives
  <2> QED BY <1>1, <1>4, <2>1, <2>2 DEF Entered
<1>9. MergedGets(d, s, b, m) = {}
  BY <1>1, BlockFacts DEF MergedGets, InBlock
<1>10. Merged(d, s, b, m) /\ Used(d, s, b, m)
  BY <1>4, <1>9 DEF Merged, Used, Free, Starts
<1> QED BY <1>6, <1>7, <1>8, <1>10 DEF Within

(* The allocation changes no live range, and nothing about loops. *)
SameLoops(c, d, s) ==
  /\ d.insns = c.insns /\ d.death = c.death
  /\ \A e \in DOMAIN s.blocks : d.binfo[e].min_death = c.binfo[e].min_death

(* An instruction does not, *)
LEMMA StepLoops ==
  ASSUME NEW s, NEW b, NEW n, NEW c, Shape(c, s), NEW d, Stepped(c, d, b, n)
  PROVE  SameLoops(c, d, s)
<1>1. d.binfo = c.binfo \/ d.binfo = Held(c, b, n)
  BY DEF Stepped, Took
<1>2. \A e \in DOMAIN s.blocks : DOMAIN c.binfo[e] = BlockFields /\ e \in DOMAIN c.binfo
  BY DEF Shape
<1> QED BY <1>1, <1>2 DEF SameLoops, Stepped, Held, BlockFields

(* and all of its instructions hold of a block what held before. *)
LEMMA AllocatedWithin ==
  ASSUME NEW s, NEW b, NEW m, Ahead(s, b, m), NEW c, Between(c, s, m), NEW T, T = Before(s, b),
         Joined(c, s, T, m), NEW d, d = Allocated(c, b)[Size(c, b)]
  PROVE  Within(d, s, T \cup {b}, T, s.blocks[b].last) /\ SameLoops(c, d, s)
<1> DEFINE n == Size(c, b)
           f == Allocated(c, b)
           Good == {k \in Nat : k <= n => /\ Scanned(f[k], s, b, m + k) /\ SameLoops(c, f[k], s)
                                          /\ Within(f[k], s, T \cup {b}, T, m + k) /\ Used(f[k], s, b, m + k)}
<1>1. /\ n \in Nat /\ m \in Int /\ m + n = s.blocks[b].last
      /\ \A k \in 1..n : Here(s, b, Insn(c, b, k)) /\ Insn(c, b, k) = m + k
  <2>1. c.blocks = s.blocks
    BY DEF Between, Shape
  <2> QED BY <2>1, InsnHere, AheadFacts
<1>2. \A k \in 0..n : f[k] = IF k = 0 THEN StartBlock(c, b) ELSE AllocInsn(f[k - 1], b, Insn(c, b, k))
  <2> HIDE DEF n, f
  <2>1. f = [k \in 0..n |-> IF k = 0 THEN StartBlock(c, b) ELSE AllocInsn(f[k - 1], b, Insn(c, b, k))]
    BY <1>1, AllocatedRecur DEF n, f
  <2> QED BY <2>1
<1>0. d = f[n]
  OBVIOUS
<1> HIDE DEF f
<1> DEFINE e == StartBlock(c, b)
<1>3. Scanned(e, s, b, m) /\ SameLoops(c, e, s) /\ Within(e, s, T \cup {b}, T, m) /\ Used(e, s, b, m)
  <2>1. Shape(c, s)
    BY DEF Between
  <2> HIDE DEF e
  <2>2. Starts(c, e, s, b)
    BY <2>1, BlockStarts DEF e
  <2>3. Scanned(e, s, b, m)
    BY StartScans DEF e
  <2>4. SameLoops(c, e, s)
    <3>1. \A t \in DOMAIN s.blocks : DOMAIN c.binfo[t] = BlockFields /\ t \in DOMAIN c.binfo
      BY <2>1 DEF Shape
    <3> QED BY <2>2, <3>1 DEF Starts, SameLoops, BlockFields
  <2> QED BY <2>2, <2>3, <2>4, StartWithin
<1> HIDE DEF n
<1>4. 0 \in Good
  BY <1>1, <1>2, <1>3
<1>5. ASSUME NEW k \in Nat, k \in Good PROVE k + 1 \in Good
  <2> DEFINE i == Insn(c, b, k + 1)
  <2> SUFFICES ASSUME k + 1 <= n
               PROVE  /\ Scanned(f[k + 1], s, b, m + (k + 1)) /\ SameLoops(c, f[k + 1], s)
                      /\ Within(f[k + 1], s, T \cup {b}, T, m + (k + 1)) /\ Used(f[k + 1], s, b, m + (k + 1))
    OBVIOUS
  <2>1. k + 1 \in 0..n /\ k + 1 \in 1..n /\ k + 1 # 0 /\ (k + 1) - 1 = k /\ k <= n
    BY <1>1
  <2>2. f[k + 1] = AllocInsn(f[k], b, i)
    BY <1>2, <2>1
  <2>3. Here(s, b, i) /\ i = m + (k + 1) /\ i - 1 = m + k
    BY <1>1, <2>1
  <2>4. Scanned(f[k], s, b, i - 1) /\ Within(f[k], s, T \cup {b}, T, i - 1) /\ Used(f[k], s, b, i - 1)
    BY <1>5, <2>1, <2>3
  <2> HIDE DEF i
  <2>5. Scanned(f[k + 1], s, b, i)
    BY <2>2, <2>3, <2>4, InsnScans
  <2>6. Stepped(f[k], f[k + 1], b, i)
    BY <2>2, <2>3, <2>4, InsnSteps
  <2>7. Within(f[k + 1], s, T \cup {b}, T, i) /\ Used(f[k + 1], s, b, i)
    BY <2>3, <2>4, <2>6, StepWithin
  <2>8. SameLoops(c, f[k + 1], s)
    <3>1. SameLoops(f[k], f[k + 1], s)
      BY <2>4, <2>6, StepLoops DEF Scanned
    <3>2. SameLoops(c, f[k], s)
      BY <1>5, <2>1
    <3> QED BY <3>1, <3>2 DEF SameLoops
  <2> QED BY <2>3, <2>5, <2>7, <2>8
<1> HIDE DEF Good
<1>6. n \in Good
  BY <1>1, <1>4, <1>5, Induction
<1> QED BY <1>0, <1>1, <1>6 DEF Good

(* So block b joins the blocks before it. *)
LEMMA BlockJoins ==
  ASSUME NEW s, NEW b, NEW m, Ahead(s, b, m), NEW c, Between(c, s, m), NEW T, T = Before(s, b),
         Joined(c, s, T, m), NEW d, d = AllocBlock(c, b)
  PROVE  Joined(d, s, T \cup {b}, s.blocks[b].last) /\ SameLoops(c, d, s)
<1> DEFINE N == Len(s.insns)
           n == s.blocks[b].last
           a == Allocated(c, b)[Size(c, b)]
           R == {r \in DOMAIN a.death : a.death[r] <= n}
           e == Unassign(a, R)
<1>1. /\ N \in Nat /\ n \in Nat /\ n \in 1..N /\ b \in DOMAIN s.blocks /\ IsSkeleton(s) /\ n <= N
      /\ InBlock(s, b) \subseteq 1..N
  BY AheadFacts DEF Ahead
<1>2. Within(a, s, T \cup {b}, T, n) /\ Scanned(a, s, b, n) /\ SameLoops(c, a, s)
  <2> HIDE DEF a, n
  <2> QED BY AllocatedWithin, AllocatedScans DEF a, n
<1>3. /\ Shape(a, s) /\ CodeOK(a) /\ Stores(a, s) /\ a.blocks = s.blocks /\ DOMAIN a.insns = 1..N
      /\ DOMAIN a.binfo = DOMAIN s.blocks
  BY <1>2 DEF Scanned, Static, Shape
<1>4. Between(d, s, n)
  BY AllocBlockChanges
<1>5. d = EndBlock(a, b)
  BY DEF AllocBlock
<1> HIDE DEF a
<1>6. Drops(a, e, s, R)
  BY <1>3, UnassignChanges
<1>7. e.binfo = a.binfo /\ e.blocks = a.blocks
  BY <1>3 DEF Unassign, Shape, CtxFields
<1>8. d = [e EXCEPT !.binfo[b].end_live = Hosts \ Free(e), !.regs_touched = @ \cup a.touched]
  BY <1>3, <1>5 DEF EndBlock
<1>9. /\ d.insns = a.insns /\ d.death = a.death /\ d.blocks = a.blocks /\ d.info = a.info
      /\ d.map = e.map /\ d.binfo = [a.binfo EXCEPT ![b].end_live = Hosts \ Free(e)]
  <2> HIDE DEF e
  <2> QED BY <1>6, <1>7, <1>8 DEF Drops, KeepsUnit, Shape, CtxFields
<1> HIDE DEF e
<1>10. /\ d.binfo[b].end_live = Hosts \ Free(d)
       /\ \A t \in DOMAIN s.blocks : /\ d.binfo[t].initial = a.binfo[t].initial
                                     /\ d.binfo[t].store = a.binfo[t].store
                                     /\ d.binfo[t].min_death = a.binfo[t].min_death
                                     /\ t # b => d.binfo[t] = a.binfo[t]
  <2>1. \A t \in DOMAIN s.blocks : DOMAIN a.binfo[t] = BlockFields
    BY <1>3 DEF Shape
  <2> QED BY <1>1, <1>3, <1>9, <2>1 DEF BlockFields, Free
<1>11. SamePast(a, d, s, n)
  BY <1>9, <1>10 DEF SamePast, IsSpilled
<1>12. MapAlive(d, n)
  <2> SUFFICES ASSUME NEW h \in Hosts, d.map[h] # 0 PROVE n < d.death[d.map[h]]
    BY DEF MapAlive
  <2>1. d.map[h] = a.map[h] /\ a.map[h] \notin R
    BY <1>6, <1>9 DEF Drops
  <2>2. d.map[h] \in 1..n
    BY <1>4 DEF Between, Placed, MapOK
  <2>3. d.map[h] \in DOMAIN a.death /\ a.death[d.map[h]] \in Int
    BY <1>1, <1>3, <2>2 DEF Shape
  <2> QED BY <1>1, <1>9, <2>1, <2>3
<1>13. /\ T \subseteq DOMAIN s.blocks /\ b \notin T
       /\ \A t \in T : s.blocks[t].first <= n + 1 /\ s.blocks[t].last <= n
       /\ s.blocks[b].first <= n + 1
  <2>1. \A p \in T : s.blocks[p].last < s.blocks[b].first
    BY <1>1 DEF Before, IsSkeleton, IsBlocks
  <2>2. \A p \in DOMAIN s.blocks :
         s.blocks[p].first <= s.blocks[p].last /\ s.blocks[p].first \in Int /\ s.blocks[p].last \in Int
    BY <1>1, BlockFacts DEF Before
  <2>3. b \in Nat
    BY <1>1, BlockFacts
  <2> QED BY <1>1, <2>1, <2>2, <2>3 DEF Before
<1>14. \A t \in T \cup {b} : Entered(d, s, t) /\ Merged(d, s, t, n)
  BY <1>1, <1>2, <1>10, <1>11, <1>13, PastEntered, PastMerges DEF Within
<1>15. \A t \in T : d.binfo[t].end_live = Leaves(d, s, t, n)
  BY <1>1, <1>2, <1>3, <1>10, <1>11, <1>13, PastLeaves DEF Within
<1>16. d.binfo[b].end_live = Leaves(d, s, b, n)
  <2>1. \A h \in Hosts : \A q : Lives(d, n, h, q) <=> q # 0 /\ d.map[h] = q
    BY <1>1, <1>4, <1>12, MapLives DEF Between
  <2>2. \A h \in Hosts : d.map[h] # 0 => d.map[h] \in 1..n
    BY <1>4 DEF Between, Placed, MapOK
  <2>3. LiveHosts(d, n) = Hosts \ Free(d)
    BY <2>1, <2>2 DEF LiveHosts, Free
  <2>4. Handed(d, s, b, n) = {}
    <3> SUFFICES ASSUME NEW t \in DOMAIN s.blocks, PrevOf(d, t) = b, NEW g \in MergedGets(d, s, t, n)
                 PROVE  FALSE
      BY DEF Handed
    <3>1. d.blocks = s.blocks /\ b # None /\ b \in Nat
      BY <1>1, <1>3, <1>9, BlockFacts DEF None
    <3>2. b < t
      BY <1>1, <3>1, PrevBefore DEF Before
    <3>3. n < s.blocks[t].first
      BY <1>1, <3>2 DEF IsSkeleton, IsBlocks
    <3> QED BY <1>1, <3>3, BlockFacts DEF MergedGets, InBlock
  <2> QED BY <1>10, <2>3, <2>4 DEF Leaves
<1>17. SameLoops(c, d, s)
  BY <1>2, <1>9, <1>10 DEF SameLoops
<1> QED BY <1>12, <1>14, <1>15, <1>16, <1>17 DEF Joined, Within

(*************************** The inductive invariant ************************)

(* What holds, besides HInv, in each pass of the allocator. *)
EdgeInv ==
  LET before == Skeleton.blocks[block].first - 1
      all    == DOMAIN Skeleton.blocks
  IN  /\ phase = "live_ranges" => Looping(ctx, Skeleton, Before(Skeleton, block))
      /\ phase = "first_pass" => Living(ctx, Skeleton) /\ Blank(ctx, Skeleton, before)
      /\ phase \in {"aliases", "allocate", "code", "run"} =>
           Looped(ctx, Skeleton, all) /\ CodeFrom(ctx, Skeleton)
      /\ phase = "allocate" => Joined(ctx, Skeleton, Before(Skeleton, block), before)
      /\ phase \in {"code", "run"} => Joined(ctx, Skeleton, all, Len(Skeleton.insns))

(* It holds to begin with, and every step keeps it. *)
LEMMA EdgeSteps ==
  ASSUME HInv, EdgeInv, [Next]_hostVars
  PROVE  EdgeInv'
<1> DEFINE s == Skeleton
           all == DOMAIN s.blocks
           passes == {"live_ranges", "first_pass", "aliases", "allocate"}
<1>1. unit \in DOMAIN Skeletons /\ Drawn(s, insns)
  BY DEF HInv, HostInv
<1>2. IsSkeleton(s)
  BY <1>1, SkeletonsAssumption DEF Skeleton
<1>3. ASSUME block \in all, block' \in all
      PROVE  /\ s.blocks[block'].first - 1 = 0 => Before(s, block') = {}
             /\ s.blocks[block].last = Len(s.insns) => all = Before(s, block) \cup {block}
             /\ s.blocks[block'].first - 1 = s.blocks[block].last =>
                  Before(s, block') = Before(s, block) \cup {block}
  <2>1. s.blocks[block'].first \in Int
    BY <1>2, <1>3, BlockFacts
  <2>2. s.blocks[block'].first = 1 => Before(s, block') = {}
    BY <1>2, <1>3, BeforeFacts
  <2>3. /\ s.blocks[block].last = Len(s.insns) => all = Before(s, block) \cup {block}
        /\ s.blocks[block'].first - 1 = s.blocks[block].last =>
                  Before(s, block') = Before(s, block) \cup {block}
    BY <1>2, <1>3, BeforeFacts
  <2> QED BY <2>1, <2>2, <2>3
<1>4. CASE Build
  BY <1>4 DEF Build, EdgeInv
<1>5. CASE Start
  <2> DEFINE c == Context(insns, [r \in DOMAIN insns |-> LastUse(r)], s.blocks, s.opts)
  <2>1. /\ Len(insns) = Len(s.insns) /\ ctx' = c
        /\ phase' = "live_ranges" /\ block' = Entry /\ UNCHANGED <<unit, insns, machine>>
    BY <1>5 DEF Start
  <2>2. Looping(c, s, {})
    BY <1>1, <1>2, <2>1, ContextLives
  <2> HIDE DEF c
  <2>3. Skeleton' = s
    BY <2>1 DEF Skeleton
  <2>4. Entry \in all /\ s.blocks[Entry].first = 1
    <3>1. Entry = Least(DOMAIN s.blocks)
      BY DEF Entry
    <3> QED BY <1>2, <3>1, EntryFirst
  <2>5. Before(s, Entry) = {}
    BY <1>2, <2>4, BeforeFacts
  <2> QED BY <2>1, <2>2, <2>3, <2>5 DEF EdgeInv
<1>6. CASE UpdateLiveRanges
  <2> DEFINE d == ExtendOverLoop(ctx, block)
             T == Before(s, block) \cup {block}
  <2>1. Pass("live_ranges", "first_pass", d)
    BY <1>6 DEF UpdateLiveRanges
  <2>0. "live_ranges" \in passes /\ "first_pass" # "live_ranges"
    OBVIOUS
  <2> HIDE DEF d
  <2>2. /\ Skeleton' = s /\ phase = "live_ranges" /\ ctx' = d /\ block \in all /\ block' \in all
        /\ phase' = "live_ranges" => s.blocks[block'].first - 1 = s.blocks[block].last
        /\ phase' # "live_ranges" => /\ phase' = "first_pass" /\ s.blocks[block'].first - 1 = 0
                                     /\ s.blocks[block].last = Len(s.insns)
    BY <2>0, <2>1, PassKeeps
  <2>3. Passed(ctx, s, 0) /\ Looping(ctx, s, Before(s, block))
    BY <2>2 DEF HInv, HostInv, EdgeInv
  <2>4. Looping(d, s, T)
    BY <1>2, <2>2, <2>3, LoopLives DEF d
  <2>5. CASE phase' = "live_ranges"
    <3>1. Looping(ctx', Skeleton', Before(Skeleton', block'))
      BY <1>3, <2>2, <2>4, <2>5
    <3> QED BY <2>5, <3>1 DEF EdgeInv
  <2>6. CASE phase' # "live_ranges"
    <3>1. Looping(d, s, all)
      BY <1>3, <2>2, <2>4, <2>6
    <3>2. Living(ctx', Skeleton') /\ Blank(ctx', Skeleton', Skeleton'.blocks[block'].first - 1)
      BY <2>2, <2>6, <3>1 DEF Looping, Living
    <3> QED BY <2>2, <2>6, <3>2 DEF EdgeInv
  <2> QED BY <2>5, <2>6
<1>7. CASE FirstPasses
  <2> DEFINE d == FixedList(FirstPass(ctx, block))
             l == s.blocks[block].last
             m == s.blocks[block].first - 1
  <2>1. Pass("first_pass", "aliases", d)
    BY <1>7 DEF FirstPasses
  <2>0. "first_pass" \in passes /\ "aliases" # "first_pass"
    OBVIOUS
  <2>9. d = FixedList(FirstPass(ctx, block))
    OBVIOUS
  <2> HIDE DEF d
  <2>2. /\ Skeleton' = s /\ phase = "first_pass" /\ ctx' = d /\ block \in all /\ block' \in all
        /\ phase' = "first_pass" => s.blocks[block'].first - 1 = l
        /\ phase' # "first_pass" => phase' = "aliases"
    BY <2>0, <2>1, PassKeeps
  <2>3. Passed(ctx, s, m) /\ Ahead(s, block, m) /\ Living(ctx, s) /\ Blank(ctx, s, m)
    BY <1>2, <2>2 DEF HInv, HostInv, Ahead, EdgeInv
  <2>4. Living(d, s) /\ Blank(d, s, l)
    BY <2>3, <2>9, FirstPassLives
  <2> HIDE DEF l, m
  <2>5. CASE phase' = "first_pass"
    <3>1. Living(ctx', Skeleton') /\ Blank(ctx', Skeleton', Skeleton'.blocks[block'].first - 1)
      BY <2>2, <2>4, <2>5
    <3> QED BY <2>5, <3>1 DEF EdgeInv
  <2>6. CASE phase' # "first_pass"
    <3>1. Living(ctx', Skeleton')
      BY <2>2, <2>4
    <3> QED BY <2>2, <2>6, <3>1 DEF EdgeInv, Living
  <2> QED BY <2>5, <2>6
<1>8. CASE UpdateAliasRanges
  <2> DEFINE d == ExtendStores(ctx, block)
  <2>1. Pass("aliases", "allocate", d)
    BY <1>8 DEF UpdateAliasRanges
  <2>0. "aliases" \in passes /\ "allocate" # "aliases"
    OBVIOUS
  <2>9. d = ExtendStores(ctx, block)
    OBVIOUS
  <2> HIDE DEF d
  <2>2. /\ Skeleton' = s /\ phase = "aliases" /\ ctx' = d /\ block \in all /\ block' \in all
        /\ phase' # "aliases" => phase' = "allocate" /\ s.blocks[block'].first - 1 = 0
    BY <2>0, <2>1, PassKeeps
  <2>3. Waits(ctx, s) /\ Looped(ctx, s, all) /\ CodeFrom(ctx, s)
    BY <2>2 DEF HInv, HostInv, EdgeInv
  <2>4. Waits(d, s) /\ Looped(d, s, all) /\ d.insns = ctx.insns
    BY <1>2, <2>2, <2>3, <2>9, ExtendStoreWaits, ExtendStoresWaits, ExtendStoresSpans
  <2>5. CodeFrom(d, s)
    BY <2>3, <2>4 DEF CodeFrom
  <2>6. CASE phase' = "aliases"
    BY <2>2, <2>4, <2>5, <2>6 DEF EdgeInv
  <2>7. CASE phase' # "aliases"
    <3>1. \A h \in Hosts : d.map[h] = 0
      BY <2>4 DEF Waits, Between, Placed, MapOK
    <3>2. Joined(d, s, {}, 0)
      BY <3>1 DEF Joined, MapAlive, Within
    <3>3. Joined(ctx', Skeleton', Before(Skeleton', block'), Skeleton'.blocks[block'].first - 1)
      BY <1>3, <2>2, <2>7, <3>2
    <3> QED BY <2>2, <2>4, <2>5, <2>7, <3>3 DEF EdgeInv
  <2> QED BY <2>6, <2>7
<1>9. CASE AllocateBlock
  <2> DEFINE d == AllocBlock(ctx, block)
             l == s.blocks[block].last
             m == s.blocks[block].first - 1
             T == Before(s, block)
  <2>1. Pass("allocate", "code", d)
    BY <1>9 DEF AllocateBlock
  <2>0. "allocate" \in passes /\ "code" # "allocate"
    OBVIOUS
  <2>9. d = AllocBlock(ctx, block)
    OBVIOUS
  <2> HIDE DEF d
  <2>2. /\ Skeleton' = s /\ phase = "allocate" /\ ctx' = d /\ block \in all /\ block' \in all
        /\ phase' = "allocate" => s.blocks[block'].first - 1 = l
        /\ phase' # "allocate" => phase' = "code" /\ l = Len(s.insns)
    BY <2>0, <2>1, PassKeeps
  <2>3. /\ Between(ctx, s, m) /\ Ahead(s, block, m) /\ Joined(ctx, s, T, m)
        /\ Looped(ctx, s, all) /\ CodeFrom(ctx, s)
    BY <1>2, <2>2 DEF HInv, HostInv, Ahead, EdgeInv
  <2>4. Joined(d, s, T \cup {block}, l) /\ SameLoops(ctx, d, s)
    <3> HIDE DEF T, l, m
    <3> QED BY <2>3, <2>9, BlockJoins DEF T, l
  <2>5. Looped(d, s, all) /\ CodeFrom(d, s)
    BY <2>3, <2>4 DEF Looped, Spans, CodeFrom, SameLoops
  <2> HIDE DEF l, m, T
  <2>6. CASE phase' = "allocate"
    <3>1. Joined(ctx', Skeleton', Before(Skeleton', block'), Skeleton'.blocks[block'].first - 1)
      BY <1>3, <2>2, <2>4, <2>6 DEF T, l
    <3> QED BY <2>2, <2>5, <2>6, <3>1 DEF EdgeInv
  <2>7. CASE phase' # "allocate"
    <3>1. Joined(ctx', Skeleton', DOMAIN Skeleton'.blocks, Len(Skeleton'.insns))
      BY <1>3, <2>2, <2>4, <2>7 DEF T, l
    <3> QED BY <2>2, <2>5, <2>7, <3>1 DEF EdgeInv
  <2> QED BY <2>6, <2>7
<1>10. CASE Enter \/ RunToTarget \/ RunToNext \/ RunToReturn
  <2>1. phase \in {"code", "run"} /\ phase' = "run" /\ UNCHANGED <<unit, insns, ctx>>
    BY <1>10 DEF Enter, RunToTarget, RunToNext, RunToReturn, Running
  <2>2. Skeleton' = s
    BY <2>1 DEF Skeleton
  <2> QED BY <2>1, <2>2 DEF EdgeInv
<1>11. CASE UNCHANGED hostVars
  <2>1. UNCHANGED <<phase, unit, ctx, block>>
    BY <1>11 DEF hostVars
  <2>2. Skeleton' = Skeleton
    BY <2>1 DEF Skeleton
  <2> QED BY <2>1, <2>2 DEF EdgeInv
<1> QED BY <1>4, <1>5, <1>6, <1>7, <1>8, <1>9, <1>10, <1>11 DEF Next

(* When the allocator is done, all this holds of the whole unit. *)
Ended(c, s) ==
  /\ IsSkeleton(s) /\ Between(c, s, Len(s.insns))
  /\ Looped(c, s, DOMAIN s.blocks) /\ Joined(c, s, DOMAIN s.blocks, Len(s.insns))

(* What the lemmas below need of it. *)
LEMMA EndedFacts ==
  ASSUME NEW s, NEW c, Ended(c, s)
  PROVE  /\ c.blocks = s.blocks /\ DOMAIN c.binfo = DOMAIN s.blocks
         /\ Len(s.insns) \in Nat /\ DOMAIN c.insns = 1..Len(s.insns)
         /\ SpillsOK(c, Len(s.insns)) /\ Shared(c, Len(s.insns)) /\ Loads(c, s) /\ Stores(c, s)
         /\ \A r \in 1..Len(s.insns) : c.death[r] \in Int /\ c.info[r].host \in Hosts
         /\ \A t \in DOMAIN s.blocks : Entered(c, s, t) /\ Merged(c, s, t, Len(s.insns)) /\ Spans(c, s, t)
         /\ \A b \in DOMAIN s.blocks : c.binfo[b].end_live = Leaves(c, s, b, Len(s.insns))
         /\ \A b \in DOMAIN s.blocks :
              /\ s.blocks[b].first \in 1..Len(s.insns) /\ s.blocks[b].last \in 1..Len(s.insns)
              /\ s.blocks[b].first <= s.blocks[b].last /\ b \in Nat
<1> DEFINE N == Len(s.insns)
<1>1. IsSkeleton(s) /\ Between(c, s, N) /\ Looped(c, s, DOMAIN s.blocks) /\ Joined(c, s, DOMAIN s.blocks, N)
  BY DEF Ended
<1>2. N \in Nat
  BY <1>1 DEF IsSkeleton
<1>3. \A b \in DOMAIN s.blocks :
        /\ s.blocks[b].first \in 1..N /\ s.blocks[b].last \in 1..N
        /\ s.blocks[b].first <= s.blocks[b].last /\ b \in Nat
  BY <1>1, BlockFacts
<1>4. Shape(c, s) /\ Static(c, s) /\ Placed(c, N, N)
  BY <1>1 DEF Between
<1>5. Within(c, s, DOMAIN s.blocks, DOMAIN s.blocks, N)
  BY <1>1 DEF Joined
<1> HIDE DEF N
<1>6. /\ c.blocks = s.blocks /\ DOMAIN c.binfo = DOMAIN s.blocks /\ DOMAIN c.insns = 1..N
      /\ \A r \in 1..N : c.death[r] \in Int /\ c.info[r].host \in Hosts
  BY <1>2, <1>4 DEF Shape, N
<1>7. \A t \in DOMAIN s.blocks : Entered(c, s, t) /\ Merged(c, s, t, N) /\ Spans(c, s, t)
  BY <1>1, <1>5 DEF Within, Looped
<1>8. \A b \in DOMAIN s.blocks : c.binfo[b].end_live = Leaves(c, s, b, N)
  BY <1>5 DEF Within
<1>9. SpillsOK(c, N) /\ Shared(c, N) /\ Loads(c, s) /\ Stores(c, s)
  BY <1>4 DEF Placed, Static
<1> QED BY <1>2, <1>3, <1>6, <1>7, <1>8, <1>9 DEF N

(* The last register set in h is what is live there, unless it is dead, *)
LEMMA LastLives ==
  ASSUME NEW s, NEW c, Ended(c, s), NEW k \in 1..Len(s.insns), NEW h, NEW r, r = RegMap(c, k, h),
         r # 0, c.death[r] > k
  PROVE  Lives(c, k, h, r)
<1>1. /\ k \in Int /\ SpillsOK(c, Len(s.insns)) /\ Len(s.insns) \in Nat
  BY EndedFacts
<1>2. /\ r \in 1..k /\ c.insns[r].op \in Setters /\ c.info[r].host = h
      /\ \A m \in 1..k : c.insns[m].op \in Setters /\ c.info[m].host = h => m <= r
  BY <1>1, RegMapFacts
<1>3. r \in 1..Len(s.insns) /\ c.death[r] \in Int
  BY <1>1, <1>2, EndedFacts
<1>4. ~IsSpilled(c, k, r)
  <2> SUFFICES ASSUME IsSpilled(c, k, r) PROVE FALSE
    OBVIOUS
  <2> DEFINE m == c.info[r].spill_insn
  <2>1. c.info[r].spilled /\ m <= k
    BY DEF IsSpilled
  <2>2. m \in (r + 1)..Len(s.insns) /\ c.insns[m].op \in Setters /\ c.info[m].host = h
    BY <1>1, <1>2, <1>3, <2>1 DEF SpillsOK
  <2> HIDE DEF m
  <2>3. m \in 1..k
    BY <1>1, <1>2, <2>1, <2>2
  <2> QED BY <1>1, <1>2, <2>2, <2>3
<1> QED BY <1>1, <1>2, <1>3, <1>4 DEF Lives

(* and nothing else is. *)
LEMMA LivesLast ==
  ASSUME NEW s, NEW c, Ended(c, s), NEW k \in 1..Len(s.insns), NEW h, NEW q, Lives(c, k, h, q)
  PROVE  RegMap(c, k, h) = q
<1>1. Shared(c, Len(s.insns)) /\ Len(s.insns) \in Nat
  BY EndedFacts
<1>2. /\ q \in 1..k /\ c.insns[q].op \in Setters /\ c.info[q].host = h
      /\ k < c.death[q] /\ ~IsSpilled(c, k, q)
  BY DEF Lives
<1> DEFINE S == {r \in 1..k : Dest(c, r) = r /\ HostOf(c, r) = h}
<1>3. q \in S /\ S \subseteq Nat /\ \A j \in S : j <= k
  BY <1>2 DEF Dest, HostOf
<1>4. RegMap(c, k, h) = Latest(S)
  BY <1>3 DEF RegMap
<1>5. Latest(S) \in S /\ q <= Latest(S)
  <2>1. k \in Nat
    BY <1>1
  <2> HIDE DEF S
  <2> QED BY <1>3, <2>1, LatestIn
<1>6. CASE q < Latest(S)
  <2> DEFINE m == Latest(S)
  <2>1. m \in 1..k /\ c.insns[m].op \in Setters /\ c.info[m].host = h
    BY <1>5 DEF Dest, HostOf
  <2> HIDE DEF S, m
  <2>2. m \in 1..Len(s.insns) /\ q \in 1..(m - 1) /\ q \in 1..Len(s.insns)
    BY <1>1, <1>2, <1>6, <2>1 DEF m
  <2>3. c.death[q] > m
    BY <1>2, <2>1, <2>2, EndedFacts
  <2>4. c.info[q].spilled = TRUE /\ c.info[q].spill_insn <= m
    BY <1>1, <1>2, <2>1, <2>2, <2>3 DEF Shared
  <2>5. SpillsOK(c, Len(s.insns))
    BY EndedFacts
  <2>6. c.info[q].spill_insn \in Int
    BY <1>1, <2>2, <2>4, <2>5 DEF SpillsOK
  <2>7. k \in Int /\ m <= k
    BY <1>1, <2>1
  <2>8. c.info[q].spill_insn <= k
    BY <2>1, <2>4, <2>6, <2>7
  <2> QED BY <1>2, <2>4, <2>8 DEF IsSpilled
<1>7. CASE ~(q < Latest(S))
  <2>1. q \in Nat /\ Latest(S) \in Nat
    BY <1>3, <1>5
  <2> HIDE DEF S
  <2>2. Latest(S) = q
    BY <1>5, <1>7, <2>1
  <2> QED BY <1>4, <2>2
<1> QED BY <1>6, <1>7

(* LiveOut is what is live in end_live. *)
LEMMA LiveOutLives ==
  ASSUME NEW s, NEW c, Ended(c, s), NEW b \in DOMAIN s.blocks
  PROVE  LiveOut(c, b) = LiveHosts(c, s.blocks[b].last)
<1> DEFINE l == s.blocks[b].last
<1>1. l \in 1..Len(s.insns) /\ c.blocks[b].last = l
  BY EndedFacts
<1>2. \A h \in Hosts : LET r == RegMap(c, l, h) IN
        r # 0 /\ c.death[r] > l => r \in 1..l /\ Lives(c, l, h, r)
  BY <1>1, LastLives DEF Lives
<1>3. \A h \in Hosts : \A q \in 1..l : Lives(c, l, h, q) => q # 0 /\ RegMap(c, l, h) = q /\ c.death[q] > l
  <2> SUFFICES ASSUME NEW h \in Hosts, NEW q \in 1..l, Lives(c, l, h, q)
               PROVE  q # 0 /\ RegMap(c, l, h) = q /\ c.death[q] > l
    OBVIOUS
  <2> HIDE DEF l
  <2>0. RegMap(c, l, h) = q
    BY <1>1, LivesLast
  <2>1. l \in Int /\ q \in 1..Len(s.insns)
    BY <1>1
  <2>2. c.death[q] \in Int
    BY <2>1, EndedFacts
  <2> QED BY <2>0, <2>1, <2>2 DEF Lives
<1>4. LiveOut(c, b) = {h \in Hosts : LET r == RegMap(c, l, h) IN r # 0 /\ c.death[r] > l}
  BY <1>1 DEF LiveOut, LastOf
<1>5. LiveHosts(c, l) = {h \in Hosts : \E q \in 1..l : Lives(c, l, h, q)}
  BY DEF LiveHosts
<1> HIDE DEF l
<1>6. ASSUME NEW h \in Hosts
      PROVE  (LET r == RegMap(c, l, h) IN r # 0 /\ c.death[r] > l) <=> \E q \in 1..l : Lives(c, l, h, q)
  <2>1. CASE \E q \in 1..l : Lives(c, l, h, q)
    BY <1>3, <2>1
  <2>2. CASE RegMap(c, l, h) # 0 /\ c.death[RegMap(c, l, h)] > l
    BY <1>2, <2>2
  <2> QED BY <2>1, <2>2
<1>7. LiveOut(c, b) = LiveHosts(c, l)
  BY <1>4, <1>5, <1>6
<1> QED BY <1>7 DEF l

(* A merge that a block expects is one of its GET_ALIASes, the only one in that register,
   which has nothing live on entry. *)
LEMMA MergedAtFacts ==
  ASSUME NEW s, NEW c, Ended(c, s), NEW t \in DOMAIN s.blocks, NEW h \in Hosts,
         NEW a \in MergedAt(c, t, h), NEW g, g = c.binfo[t].load[a]
  PROVE  /\ a \in Aliases /\ g \in MergedGets(c, s, t, Len(s.insns)) /\ c.insns[g].x = a
         /\ c.binfo[t].initial[h] = 0
         /\ MergedAt(c, t, h) = {a} /\ Latest(MergedAt(c, t, h)) = a
<1> DEFINE N == Len(s.insns)
<1>1. /\ Loads(c, s) /\ Merged(c, s, t, N) /\ N \in Nat /\ InBlock(s, t) \subseteq 1..N
  BY EndedFacts, BlockFacts DEF Ended
<1> HIDE DEF N
<1>2. ASSUME NEW x \in MergedAt(c, t, h)
      PROVE  LET f == c.binfo[t].load[x] IN
             /\ x \in Aliases /\ f \in MergedGets(c, s, t, N) /\ c.insns[f].x = x
             /\ c.info[f].host_merge = h
  <2> DEFINE f == c.binfo[t].load[x]
  <2>1. x \in Aliases /\ f # 0 /\ c.info[f].merge /\ c.info[f].host_merge = h
    BY <1>2 DEF MergedAt
  <2>2. f \in InBlock(s, t) /\ c.insns[f].op = "get" /\ c.insns[f].x = x
    BY <1>1, <2>1 DEF Loads
  <2> HIDE DEF f
  <2>3. f \in 1..N /\ f <= N
    BY <1>1, <2>2
  <2>4. f \in MergedGets(c, s, t, N)
    BY <2>1, <2>2, <2>3 DEF MergedGets
  <2> QED BY <2>1, <2>2, <2>4 DEF f
<1>3. /\ a \in Aliases /\ g \in MergedGets(c, s, t, N) /\ c.insns[g].x = a /\ c.info[g].host_merge = h
  BY <1>2
<1>4. c.binfo[t].initial[h] = 0
  BY <1>1, <1>3 DEF Merged
<1>5. ASSUME NEW x \in MergedAt(c, t, h) PROVE x = a
  <2> DEFINE f == c.binfo[t].load[x]
  <2>1. f \in MergedGets(c, s, t, N) /\ c.insns[f].x = x /\ c.info[f].host_merge = h
    BY <1>2, <1>5
  <2> HIDE DEF f
  <2>2. f = g
    BY <1>1, <1>3, <2>1 DEF Merged
  <2> QED BY <1>3, <2>1, <2>2
<1>6. MergedAt(c, t, h) = {a}
  BY <1>5
<1>7. Latest({a}) = a
  <2>1. a \in Int
    BY <1>3 DEF Aliases
  <2> QED BY <2>1 DEF Latest
<1> QED BY <1>3, <1>4, <1>6, <1>7 DEF N

(* Nothing is expected to be live in a register but what is there on entry. *)
LEMMA LiveAtFacts ==
  ASSUME NEW s, NEW c, Ended(c, s), NEW b \in DOMAIN s.blocks, NEW t \in DOMAIN s.blocks,
         NEW h \in Hosts, LiveAt(c, b, t, h), NEW r, r = RegMap(c, s.blocks[b].last, h)
  PROVE  /\ r # 0 /\ c.binfo[t].initial[h] = r /\ ~IsSpilled(c, s.blocks[b].last, r)
         /\ s.blocks[b].last < s.blocks[t].first => s.blocks[b].last < c.death[r]
<1> DEFINE l == s.blocks[b].last
           f == s.blocks[t].first
<1>1. /\ l \in Int /\ f \in Int /\ l \in 1..Len(s.insns) /\ f \in 1..Len(s.insns)
      /\ Entered(c, s, t) /\ c.blocks = s.blocks /\ Len(s.insns) \in Nat
  BY EndedFacts
<1>2. /\ r # 0 /\ (f > l \/ r < f) /\ c.death[r] >= Later(f, l) /\ ~IsSpilled(c, Later(f, l), r)
  BY <1>1 DEF LiveAt, LastOf
<1> HIDE DEF l, f
<1>3. r \in 1..l /\ c.insns[r].op \in Setters /\ c.info[r].host = h
  BY <1>1, <1>2, RegMapFacts DEF l
<1>4. r \in 1..Len(s.insns) /\ r \in Int /\ c.death[r] \in Int
  BY <1>1, <1>3, EndedFacts
<1>5. /\ c.death[r] >= f /\ c.death[r] >= l /\ ~IsSpilled(c, l, r) /\ ~IsSpilled(c, f - 1, r)
      /\ r < f
  <2>0. SpillsOK(c, Len(s.insns))
    BY EndedFacts
  <2>1. c.info[r].spilled => c.info[r].spill_insn \in Int
    BY <1>1, <1>4, <2>0 DEF SpillsOK
  <2> QED BY <1>1, <1>2, <1>3, <1>4, <2>1 DEF Later, IsSpilled
<1>6. Lives(c, f - 1, h, r)
  BY <1>1, <1>3, <1>4, <1>5 DEF Lives
<1>7. c.binfo[t].initial[h] = r
  BY <1>1, <1>6 DEF Entered, f
<1>8. l < f => l < c.death[r]
  BY <1>1, <1>4, <1>5
<1> QED BY <1>2, <1>5, <1>7, <1>8 DEF l, f

(* An edge goes forward, or its target is where a loop begins: what was live on entry to
   that is live to the end of the block. *)
IsEdge(c, s, b, t) ==
  b \in DOMAIN s.blocks /\ t \in DOMAIN s.blocks /\ (~Forward(c, b, t) => b \in Backward(s, t))

(* What a loop expects on entry is live where the block that goes back to it ends. *)
LEMMA BackwardLives ==
  ASSUME NEW s, NEW c, Ended(c, s), NEW b, NEW t, IsEdge(c, s, b, t), ~Forward(c, b, t),
         NEW h \in Hosts, NEW r, r = c.binfo[t].initial[h], r # 0
  PROVE  c.death[r] >= s.blocks[b].last
<1> DEFINE l == s.blocks[b].last
           f == s.blocks[t].first
<1>1. b \in DOMAIN s.blocks /\ t \in DOMAIN s.blocks /\ b \in Backward(s, t)
  BY DEF IsEdge
<1>2. /\ l \in Int /\ f \in 1..Len(s.insns) /\ Entered(c, s, t) /\ Spans(c, s, t) /\ Len(s.insns) \in Nat
  BY <1>1, EndedFacts
<1>3. DOMAIN c.death = 1..Len(s.insns)
  BY DEF Ended, Between, Shape
<1> HIDE DEF l, f
<1>4. Lives(c, f - 1, h, r)
  BY <1>2 DEF Entered, f
<1>5. r \in 1..(f - 1) /\ f - 1 < c.death[r]
  BY <1>4 DEF Lives
<1>6. r \in DOMAIN c.death /\ r < f
  BY <1>2, <1>3, <1>5
<1>7. c.death[r] \in Int
  BY <1>3, <1>6, EndedFacts
<1>8. f <= c.death[r]
  BY <1>2, <1>5, <1>7
<1>9. l <= c.death[r]
  BY <1>1, <1>2, <1>6, <1>8 DEF Spans, f, l
<1> QED BY <1>2, <1>7, <1>9 DEF l

(* So the assertions of the reload code hold on it. *)
LEMMA EdgeHolds ==
  ASSUME NEW s, NEW c, Ended(c, s), NEW b, NEW t, IsEdge(c, s, b, t)
  PROVE  EdgeAsserts(c, b, t)
<1>1. b \in DOMAIN s.blocks /\ t \in DOMAIN s.blocks /\ c.blocks = s.blocks
  BY EndedFacts DEF IsEdge
<1>2. ASSUME NEW h \in Hosts, c.binfo[t].initial[h] # 0 PROVE MergedAt(c, t, h) = {}
  BY <1>1, <1>2, MergedAtFacts
<1>3. ASSUME NEW h \in Hosts, ~Forward(c, b, t), c.binfo[t].initial[h] # 0
      PROVE  MergedAt(c, t, h) = {} /\ c.death[c.binfo[t].initial[h]] >= LastOf(c, b)
  BY <1>1, <1>2, <1>3, BackwardLives DEF LastOf
<1>4. ASSUME NEW h \in Hosts, LiveAt(c, b, t, h)
      PROVE  MergedAt(c, t, h) = {} /\ ~Reloads(c, b, t, h)
  <2> DEFINE r == RegMap(c, s.blocks[b].last, h)
  <2>1. r # 0 /\ c.binfo[t].initial[h] = r /\ ~IsSpilled(c, s.blocks[b].last, r)
    BY <1>1, <1>4, LiveAtFacts
  <2> HIDE DEF r
  <2> QED BY <1>1, <1>2, <2>1 DEF Reloads, LastOf
<1>5. ASSUME NEW h \in Hosts PROVE Cardinality(MergedAt(c, t, h)) <= 1
  <2>1. CASE MergedAt(c, t, h) = {}
    BY <2>1, FS_EmptySet
  <2>2. CASE MergedAt(c, t, h) # {}
    <3>1. PICK a : a \in MergedAt(c, t, h)
      BY <2>2
    <3>2. MergedAt(c, t, h) = {a}
      BY <1>1, <3>1, MergedAtFacts
    <3>3. Cardinality(MergedAt(c, t, h)) = 1
      BY <3>2, FS_Singleton
    <3> QED BY <3>3
  <2> QED BY <2>1, <2>2
<1> QED BY <1>3, <1>4, <1>5 DEF EdgeAsserts

(* What the target of an edge expects of a register is one of HostReload's roles. *)
EdgeRoles == [is : {"merge"}, from : Hosts \cup {NumHosts, NumHosts + 1}]
               \cup [is : {"live", "reload", "free"}, from : {0}]

(* The value is in the alias's storage, in its spill slot or in a register, *)
LEMMA MergeSourceFacts ==
  ASSUME NEW s, NEW c, Ended(c, s), NEW b \in DOMAIN s.blocks, NEW a \in Aliases,
         NEW r, r = c.binfo[b].store[a], NEW source, source = MergeSource(c, b, a)
  PROVE  /\ r = 0 => source[1] = "alias"
         /\ r # 0 /\ IsSpilled(c, s.blocks[b].last, r) => source[1] = "spill"
         /\ r # 0 /\ ~IsSpilled(c, s.blocks[b].last, r) => /\ source[1] = "host" /\ source[2] = HostOf(c, r)
                                                            /\ source[2] \in Hosts
<1>1. c.blocks = s.blocks /\ Stores(c, s) /\ Len(s.insns) \in Nat /\ s.blocks[b].last \in 1..Len(s.insns)
  BY EndedFacts
<1>2. r # 0 => r \in 1..Len(s.insns)
  BY <1>1 DEF Stores
<1>3. r # 0 => c.info[r].host \in Hosts
  BY <1>2, EndedFacts
<1> QED BY <1>1, <1>3 DEF MergeSource, Loc, Mem, Slot, H, LastOf, HostOf

(* and every role is one of those. *)
LEMMA RoleOK ==
  ASSUME NEW s, NEW c, Ended(c, s), NEW b \in DOMAIN s.blocks, NEW t \in DOMAIN s.blocks, NEW h \in Hosts
  PROVE  /\ Role(c, b, t, h) \in EdgeRoles
         /\ Role(c, b, t, h).is = "reload" => Reloads(c, b, t, h)
         /\ Role(c, b, t, h).is = "live" => LiveAt(c, b, t, h)
         /\ Role(c, b, t, h).is = "merge" => MergedAt(c, t, h) # {}
<1> DEFINE source == MergeSource(c, b, Latest(MergedAt(c, t, h)))
           from == CASE source[1] = "host"  -> source[2]
                     [] source[1] = "spill" -> NumHosts
                     [] source[1] = "alias" -> NumHosts + 1
<1>1. CASE MergedAt(c, t, h) # {}
  <2>1. PICK a : a \in MergedAt(c, t, h)
    BY <1>1
  <2>2. a \in Aliases /\ Latest(MergedAt(c, t, h)) = a
    BY <2>1, MergedAtFacts
  <2>3. source = MergeSource(c, b, a)
    BY <2>2
  <2>4. /\ source[1] \in {"alias", "spill", "host"} /\ (source[1] = "host" => source[2] \in Hosts)
    <3> HIDE DEF source
    <3>1. c.binfo[b].store[a] = 0 => source[1] = "alias"
      BY <2>2, <2>3, MergeSourceFacts
    <3>2. c.binfo[b].store[a] # 0 /\ IsSpilled(c, s.blocks[b].last, c.binfo[b].store[a])
            => source[1] = "spill"
      BY <2>2, <2>3, MergeSourceFacts
    <3>3. c.binfo[b].store[a] # 0 /\ ~IsSpilled(c, s.blocks[b].last, c.binfo[b].store[a])
            => source[1] = "host" /\ source[2] \in Hosts
      BY <2>2, <2>3, MergeSourceFacts
    <3> QED BY <3>1, <3>2, <3>3
  <2>5. Role(c, b, t, h) = [is |-> "merge", from |-> from]
    BY <1>1 DEF Role
  <2> HIDE DEF source
  <2>6. from \in Hosts \cup {NumHosts, NumHosts + 1}
    BY <2>4
  <2> HIDE DEF from
  <2> QED BY <1>1, <2>5, <2>6 DEF EdgeRoles
<1>2. CASE MergedAt(c, t, h) = {}
  <2>1. Role(c, b, t, h) = IF Reloads(c, b, t, h) THEN [is |-> "reload", from |-> 0]
                           ELSE IF LiveAt(c, b, t, h) THEN [is |-> "live", from |-> 0]
                           ELSE [is |-> "free", from |-> 0]
    BY <1>2 DEF Role, Nothing
  <2> QED BY <2>1 DEF EdgeRoles
<1> QED BY <1>1, <1>2

(* The block before the next one is this one. *)
LEMMA NextPrev ==
  ASSUME NEW s, IsSkeleton(s), NEW c, c.blocks = s.blocks, NEW b \in DOMAIN s.blocks,
         NEW e \in DOMAIN s.blocks
  PROVE  /\ PrevOf(c, e) = b <=> NextOf(c, b) = e
         /\ NextOf(c, b) = e => b < e /\ \A x \in DOMAIN s.blocks : b < x => e <= x
<1>1. /\ b \in Nat /\ e \in Nat /\ DOMAIN s.blocks \subseteq Nat /\ None \notin Nat
  BY BackwardFacts DEF None
<1>2. ASSUME PrevOf(c, e) = b PROVE NextOf(c, b) = e
  <2>1. b \in Before(s, e) /\ \A q \in Before(s, e) : q <= b
    BY <1>1, <1>2, PrevBefore
  <2>2. /\ b < e /\ \A q \in DOMAIN s.blocks : q < e => q <= b
    BY <2>1 DEF Before
  <2>3. e \in After(c, b) /\ After(c, b) \subseteq Nat
    BY <1>1, <2>2 DEF After
  <2>4. NextOf(c, b) = Least(After(c, b))
    BY <2>3 DEF NextOf
  <2>5. Least(After(c, b)) \in After(c, b) /\ Least(After(c, b)) <= e
    <3> HIDE DEF After
    <3> QED BY <2>3, LeastIn
  <2>6. NextOf(c, b) \in DOMAIN s.blocks /\ NextOf(c, b) > b /\ NextOf(c, b) <= e
    BY <2>4, <2>5 DEF After
  <2> QED BY <1>1, <2>2, <2>6
<1>3. ASSUME NextOf(c, b) = e PROVE b < e /\ \A x \in DOMAIN s.blocks : b < x => e <= x
  <2>1. After(c, b) # {} /\ e = Least(After(c, b)) /\ After(c, b) \subseteq Nat
    BY <1>1, <1>3 DEF NextOf, After
  <2>2. e \in After(c, b) /\ \A x \in After(c, b) : e <= x
    <3> HIDE DEF After
    <3> QED BY <2>1, LeastIn
  <2> QED BY <1>1, <2>2 DEF After
<1>4. ASSUME NextOf(c, b) = e PROVE PrevOf(c, e) = b
  <2>1. b < e /\ \A x \in DOMAIN s.blocks : b < x => e <= x
    BY <1>3, <1>4
  <2>2. b \in Before(c, e)
    BY <2>1 DEF Before
  <2>3. PrevOf(c, e) = Latest(Before(c, e)) /\ Before(c, e) = Before(s, e)
    BY <2>2 DEF PrevOf, Before
  <2>4. Before(s, e) \subseteq Nat /\ \A j \in Before(s, e) : j <= e
    BY <1>1 DEF Before
  <2>5. Latest(Before(s, e)) \in Before(s, e) /\ b <= Latest(Before(s, e))
    <3> HIDE DEF Before
    <3> QED BY <1>1, <2>2, <2>3, <2>4, LatestIn
  <2>6. PrevOf(c, e) \in DOMAIN s.blocks /\ PrevOf(c, e) < e /\ b <= PrevOf(c, e)
    BY <2>3, <2>5 DEF Before
  <2> QED BY <1>1, <2>1, <2>6
<1> QED BY <1>2, <1>3, <1>4

(* What the next block merges, it takes from the register that the allocator has marked
   in end_live, unless it is spilled. *)
LEMMA MergeRole ==
  ASSUME NEW s, NEW c, Ended(c, s), NEW b \in DOMAIN s.blocks, NEW t \in DOMAIN s.blocks,
         NEW h \in Hosts, NEW a \in MergedAt(c, t, h), NEW r, r = c.binfo[b].store[a]
  PROVE  /\ Role(c, b, t, h).is = "merge" /\ MergedAt(c, t, h) # {}
         /\ Role(c, b, t, h).from \in Hosts =>
              /\ r # 0 /\ Role(c, b, t, h).from = HostOf(c, r)
         /\ r # 0 => Role(c, b, t, h).from = IF IsSpilled(c, s.blocks[b].last, r) THEN NumHosts
                                             ELSE HostOf(c, r)
<1> DEFINE source == MergeSource(c, b, a)
           from == CASE source[1] = "host"  -> source[2]
                     [] source[1] = "spill" -> NumHosts
                     [] source[1] = "alias" -> NumHosts + 1
<1>1. a \in Aliases /\ Latest(MergedAt(c, t, h)) = a
  BY MergedAtFacts
<1>2. Role(c, b, t, h) = [is |-> "merge", from |-> from]
  BY <1>1 DEF Role
<1>3. /\ r = 0 => source[1] = "alias"
      /\ r # 0 /\ IsSpilled(c, s.blocks[b].last, r) => source[1] = "spill"
      /\ r # 0 /\ ~IsSpilled(c, s.blocks[b].last, r) => /\ source[1] = "host" /\ source[2] = HostOf(c, r)
                                                         /\ source[2] \in Hosts
  <2> HIDE DEF source
  <2> QED BY <1>1, MergeSourceFacts DEF source
<1> HIDE DEF source
<1>4. NumHosts \notin Hosts /\ NumHosts + 1 \notin Hosts
  BY HostsAssumption DEF Hosts
<1>5. /\ from \in Hosts => r # 0 /\ from = HostOf(c, r)
      /\ r # 0 => from = IF IsSpilled(c, s.blocks[b].last, r) THEN NumHosts ELSE HostOf(c, r)
  BY <1>3, <1>4
<1> HIDE DEF from
<1> QED BY <1>2, <1>5

(* The registers that the next block merges values from, in the terms of HostReload. *)
Sources(c, b, e) == {Role(c, b, e, h).from : h \in {h \in Hosts : Role(c, b, e, h).is = "merge"}} \cap Hosts

(* So is the source of each merge in end_live, where nothing else is. *)
LEMMA EndLiveHolds ==
  ASSUME NEW s, NEW c, Ended(c, s), NEW b \in DOMAIN s.blocks, NEW e \in DOMAIN s.blocks,
         e = NextOf(c, b), s.blocks[b].exits # <<>>, s.blocks[b].exits[1] = e
  PROVE  /\ LiveOut(c, b) \cup Sources(c, b, e) \subseteq c.binfo[b].end_live
         /\ \/ \E h \in Hosts : Role(c, b, e, h).is = "merge" /\ Role(c, b, e, h).from = NumHosts
            \/ LiveOut(c, b) \cup Sources(c, b, e) = c.binfo[b].end_live
<1> DEFINE N == Len(s.insns)
           live == LiveHosts(c, s.blocks[b].last)
           handed == {HostOf(c, c.binfo[b].store[c.insns[g].x]) : g \in Handed(c, s, b, N)}
<1>1. /\ c.blocks = s.blocks /\ Loads(c, s) /\ Merged(c, s, e, N) /\ IsSkeleton(s)
      /\ c.binfo[b].end_live = Leaves(c, s, b, N)
  BY EndedFacts DEF Ended
<1>2. c.binfo[b].end_live = live \cup handed /\ LiveOut(c, b) = live
  BY <1>1, LiveOutLives DEF Leaves
<1>3. PrevOf(c, e) = b /\ b # None
  <2>1. b \in Nat
    BY BackwardFacts, <1>1
  <2> QED BY <1>1, <2>1, NextPrev DEF None
<1>4. \A a : PrevStore(c, e, a) = c.binfo[b].store[a]
  BY <1>1, <1>3 DEF PrevStore
<1>5. \A x \in DOMAIN s.blocks : PrevOf(c, x) = b => x = e
  BY <1>1, NextPrev
<1> HIDE DEF N, live, handed
<1>6. ASSUME NEW x \in Sources(c, b, e) PROVE x \in handed
  <2>1. PICK h \in Hosts : Role(c, b, e, h).is = "merge" /\ x = Role(c, b, e, h).from /\ x \in Hosts
    BY <1>6 DEF Sources
  <2>2. PICK a : a \in MergedAt(c, e, h)
    BY <2>1, RoleOK
  <2> DEFINE g == c.binfo[e].load[a]
  <2>3. a \in Aliases /\ g \in MergedGets(c, s, e, N) /\ c.insns[g].x = a
    BY <2>2, MergedAtFacts DEF N
  <2>4. c.binfo[b].store[a] # 0 /\ x = HostOf(c, c.binfo[b].store[a])
    BY <2>1, <2>2, MergeRole
  <2>5. g \in 1..N
    BY <1>1, <2>3, BlockFacts DEF MergedGets, N
  <2> HIDE DEF g
  <2>6. g \in Handed(c, s, b, N)
    BY <1>3, <1>4, <2>3, <2>4, <2>5 DEF Handed
  <2> QED BY <2>3, <2>4, <2>6 DEF handed
<1>7. ASSUME NEW x \in handed, \A h \in Hosts : Role(c, b, e, h).is = "merge" => Role(c, b, e, h).from # NumHosts
      PROVE  x \in Sources(c, b, e)
  <2>1. PICK g \in Handed(c, s, b, N) : x = HostOf(c, c.binfo[b].store[c.insns[g].x])
    BY DEF handed
  <2> DEFINE a == c.insns[g].x
             h == c.info[g].host_merge
             r == c.binfo[b].store[a]
  <2>2. g \in MergedGets(c, s, e, N) /\ r # 0
    <3>1. PICK y \in DOMAIN s.blocks : /\ PrevOf(c, y) = b /\ g \in MergedGets(c, s, y, N)
                                       /\ PrevStore(c, y, c.insns[g].x) # 0
      BY <2>1 DEF Handed
    <3>2. y = e
      BY <1>5, <3>1
    <3> QED BY <1>4, <3>1, <3>2
  <2>3. g \in InBlock(s, e) /\ c.insns[g].op = "get" /\ c.info[g].merge /\ h \in Hosts
    BY <1>1, <2>2 DEF MergedGets, Merged
  <2>4. a \in Aliases /\ c.binfo[e].load[a] = g /\ g # 0
    <3>1. g \in DOMAIN c.insns /\ g # 0
      BY <1>1, <2>3, BlockFacts, EndedFacts
    <3>2. CodeOK(c)
      BY DEF Ended, Between, Static
    <3> QED BY <1>1, <2>3, <3>1, <3>2 DEF Loads, CodeOK, InsnOK
  <2>5. a \in MergedAt(c, e, h)
    BY <2>3, <2>4 DEF MergedAt
  <2> HIDE DEF a, h, r
  <2>6. /\ Role(c, b, e, h).is = "merge"
        /\ Role(c, b, e, h).from = IF IsSpilled(c, s.blocks[b].last, r) THEN NumHosts ELSE HostOf(c, r)
    BY <2>2, <2>3, <2>5, MergeRole DEF r
  <2>7. ~IsSpilled(c, s.blocks[b].last, r)
    BY <1>7, <2>3, <2>6
  <2>8. x = HostOf(c, r)
    BY <2>1 DEF r, a
  <2>9. HostOf(c, r) \in Hosts
    <3>1. r \in 1..Len(s.insns)
      <4>1. Stores(c, s) /\ s.blocks[b].last \in 1..Len(s.insns) /\ Len(s.insns) \in Nat
        BY EndedFacts
      <4> QED BY <2>2, <2>4, <4>1 DEF Stores, r
    <3> QED BY <3>1, EndedFacts DEF HostOf
  <2> QED BY <2>3, <2>6, <2>7, <2>8, <2>9 DEF Sources
<1> QED BY <1>2, <1>6, <1>7

(* The ways out of a block are edges; to the next block, a forward one. *)
LEMMA EdgesOut ==
  ASSUME NEW s, NEW c, Ended(c, s), CodeFrom(c, s), NEW b \in DOMAIN s.blocks,
         NEW i, i = c.insns[s.blocks[b].last], i.op # "return", NEW e, e = NextOf(c, b)
  PROVE  /\ i.op \in {"if", "goto"} => IsEdge(c, s, b, i.x)
         /\ i.op # "goto" => /\ IsEdge(c, s, b, e) /\ Forward(c, b, e)
                             /\ s.blocks[b].last < s.blocks[e].first
         /\ i.op = "if" => s.blocks[b].exits # <<>> /\ s.blocks[b].exits[1] = e
<1>1. /\ IsSkeleton(s) /\ c.blocks = s.blocks /\ s.blocks[b].last \in DOMAIN c.insns
      /\ s.blocks[b].last \in Int
  <2>1. IsSkeleton(s)
    BY DEF Ended
  <2>2. c.blocks = s.blocks /\ s.blocks[b].last \in 1..Len(s.insns) /\ DOMAIN c.insns = 1..Len(s.insns)
    BY EndedFacts
  <2> QED BY <2>1, <2>2
<1>2. PICK j \in s.insns[s.blocks[b].last] : i = j \/ (j.op = "get" /\ i.op = "move")
  BY <1>1 DEF CodeFrom
<1>3. /\ j.op \in {"if", "goto"} => j.x \in DOMAIN s.blocks /\ b \in Range(s.blocks[j.x].entries)
      /\ j.op \notin {"goto", "return"} => NextOf(s, b) # None
      /\ j.op = "if" => s.blocks[b].exits # <<>> /\ s.blocks[b].exits[1] = NextOf(s, b)
  BY <1>1, <1>2 DEF IsSkeleton, IsGraph
<1>4. NextOf(s, b) = e
  BY <1>1 DEF NextOf, After
<1>5. /\ i.op \in {"if", "goto"} => i.x \in DOMAIN s.blocks /\ b \in Range(s.blocks[i.x].entries)
      /\ i.op # "goto" => e # None
      /\ i.op = "if" => s.blocks[b].exits # <<>> /\ s.blocks[b].exits[1] = e
  BY <1>2, <1>3, <1>4
<1>6. DOMAIN s.blocks \subseteq Nat /\ b \in Nat
  BY <1>1, BackwardFacts
<1>7. ASSUME NEW t \in DOMAIN s.blocks, b \in Range(s.blocks[t].entries) PROVE IsEdge(c, s, b, t)
  <2>1. ASSUME b < t PROVE Forward(c, b, t)
    <3>1. t \in After(c, b) /\ After(c, b) \subseteq Nat
      BY <1>1, <1>6, <1>7, <2>1 DEF After
    <3>2. Least(After(c, b)) <= t
      <4> HIDE DEF After
      <4> QED BY <3>1, LeastIn
    <3>3. NextOf(c, b) = Least(After(c, b)) /\ After(c, b) # {}
      BY <3>1 DEF NextOf
    <3>4. Least(After(c, b)) \in Nat
      <4> HIDE DEF After
      <4> QED BY <3>1, LeastIn
    <3> QED BY <1>6, <3>2, <3>3, <3>4 DEF Forward
  <2>2. ~(b < t) => b \in Backward(s, t)
    BY <1>6, <1>7 DEF Backward
  <2> QED BY <1>7, <2>1, <2>2 DEF IsEdge
<1>8. ASSUME e # None
      PROVE  IsEdge(c, s, b, e) /\ Forward(c, b, e) /\ s.blocks[b].last < s.blocks[e].first
  <2>1. e \in DOMAIN s.blocks /\ s.blocks[e].first - 1 = s.blocks[b].last
    BY <1>1, <1>8, NextFollows
  <2>2. s.blocks[e].first \in Int
    BY <2>1, EndedFacts
  <2>3. e \in Nat /\ After(c, b) # {}
    BY <1>6, <1>8, <2>1 DEF NextOf
  <2>4. Forward(c, b, e)
    BY <2>3 DEF Forward
  <2> QED BY <1>1, <2>1, <2>2, <2>4 DEF IsEdge
<1> QED BY <1>5, <1>7, <1>8

(* The roles that an edge gives are as HostReload has them at the end of a block. *)
LEMMA ForwardRoles ==
  ASSUME NEW s, NEW c, Ended(c, s), NEW b \in DOMAIN s.blocks, NEW t \in DOMAIN s.blocks,
         Forward(c, b, t), NEW h \in Hosts
  PROVE  /\ Role(c, b, t, h).is # "reload"
         /\ Role(c, b, t, h).is = "live" => h \in LiveOut(c, b)
<1>1. ~Reloads(c, b, t, h) /\ c.blocks = s.blocks
  BY EndedFacts DEF Reloads
<1>3. s.blocks[b].last < s.blocks[t].first
  <2>1. /\ IsSkeleton(s) /\ DOMAIN s.blocks \subseteq Nat
    BY BackwardFacts DEF Ended
  <2>2. After(c, b) # {} /\ t >= NextOf(c, b) /\ After(c, b) \subseteq Nat
    BY <1>1, <2>1 DEF Forward, After
  <2>3. NextOf(c, b) = Least(After(c, b))
    BY <2>2 DEF NextOf
  <2>4. NextOf(c, b) \in After(c, b)
    <3> HIDE DEF After
    <3> QED BY <2>2, <2>3, LeastIn
  <2>5. b < t
    BY <1>1, <2>1, <2>2, <2>4 DEF After
  <2> QED BY <2>1, <2>5, BlockOrder
<1>2. ASSUME LiveAt(c, b, t, h) PROVE h \in LiveOut(c, b)
  <2> DEFINE r == RegMap(c, s.blocks[b].last, h)
  <2>1. r # 0 /\ s.blocks[b].last < c.death[r]
    BY <1>2, <1>3, LiveAtFacts
  <2>2. s.blocks[b].last \in 1..Len(s.insns) /\ Len(s.insns) \in Nat
    BY EndedFacts
  <2>3. r \in 1..Len(s.insns)
    <3>1. s.blocks[b].last \in Int
      BY <2>2
    <3>2. r \in 1..s.blocks[b].last
      BY <2>1, <3>1, RegMapFacts
    <3> QED BY <2>2, <3>2
  <2>4. c.death[r] \in Int
    BY <2>3, EndedFacts
  <2> HIDE DEF r
  <2>5. c.death[r] > s.blocks[b].last
    BY <2>1, <2>2, <2>4
  <2> QED BY <1>1, <2>1, <2>5 DEF LiveOut, LastOf, r
<1> QED BY <1>1, <1>2, RoleOK

(* Nor does the next block merge through a register that is live there. *)
LEMMA NextRoles ==
  ASSUME NEW s, NEW c, Ended(c, s), NEW b \in DOMAIN s.blocks, NEW e \in DOMAIN s.blocks,
         e = NextOf(c, b), NEW h \in LiveOut(c, b)
  PROVE  Role(c, b, e, h).is # "merge"
<1>1. /\ IsSkeleton(s) /\ c.blocks = s.blocks /\ Entered(c, s, e)
      /\ s.blocks[b].last \in 1..Len(s.insns)
  BY EndedFacts DEF Ended
<1>2. h \in Hosts /\ RegMap(c, s.blocks[b].last, h) # 0
      /\ c.death[RegMap(c, s.blocks[b].last, h)] > s.blocks[b].last
  BY <1>1 DEF LiveOut, LastOf
<1>3. Lives(c, s.blocks[b].last, h, RegMap(c, s.blocks[b].last, h))
  BY <1>1, <1>2, LastLives
<1>4. s.blocks[e].first - 1 = s.blocks[b].last
  <2>1. e \in Nat
    BY <1>1, BackwardFacts
  <2> QED BY <1>1, <2>1, NextFollows DEF None
<1>5. c.binfo[e].initial[h] # 0
  BY <1>1, <1>2, <1>3, <1>4 DEF Entered
<1> QED BY <1>2, <1>5, RoleOK, MergedAtFacts

(* So every edge is one that HostReload starts from, *)
LEMMA ReloadStarts ==
  ASSUME NEW s, Ended(ctx, s), CodeFrom(ctx, s), NEW b \in DOMAIN s.blocks, LastOp(b) # "return"
  PROVE  /\ EdgeAsserts(ctx, b, BranchOf(b))
         /\ Conditional(b) => EdgeAsserts(ctx, b, NextOf(ctx, b))
         /\ Reload(b)!ReloadInit
<1> DEFINE t == BranchOf(b)
           e == NextOf(ctx, b)
           taken == Roles(ctx, b, t)
           next  == Roles(ctx, b, IF Conditional(b) THEN e ELSE None)
           backward == ~Forward(ctx, b, t)
           live  == IF Conditional(b) THEN LiveOut(ctx, b) ELSE {}
<1>1. LastOp(b) = ctx.insns[s.blocks[b].last].op
  BY EndedFacts DEF LastOp, LastOf
<1>2. IsEdge(ctx, s, b, t) /\ (Conditional(b) => IsEdge(ctx, s, b, e) /\ Forward(ctx, b, e))
  <2>1. ctx.blocks = s.blocks
    BY EndedFacts
  <2> QED BY <1>1, <2>1, EdgesOut DEF BranchOf, Conditional, LastOf
<1>3. t \in DOMAIN s.blocks /\ t # None /\ (Conditional(b) => e \in DOMAIN s.blocks /\ e # None)
  <2>1. \A x \in DOMAIN s.blocks : x # None
    BY EndedFacts DEF None
  <2> QED BY <1>2, <2>1 DEF IsEdge
<1> HIDE DEF t, e
<1>4. taken = [h \in Hosts |-> Role(ctx, b, t, h)]
  BY <1>3 DEF Roles
<1>5. next = IF Conditional(b) THEN [h \in Hosts |-> Role(ctx, b, e, h)] ELSE [h \in Hosts |-> Nothing]
  BY <1>3 DEF Roles
<1>6. taken \in [Hosts -> EdgeRoles]
  BY <1>3, <1>4, RoleOK
<1>7. next \in IF Conditional(b) THEN [Hosts -> EdgeRoles] ELSE {[h \in Hosts |-> Nothing]}
  BY <1>3, <1>5, RoleOK
<1>8. {h \in Hosts : next[h].is = "reload"} = {}
  <2>1. CASE Conditional(b)
    BY <1>2, <1>3, <1>5, <2>1, ForwardRoles
  <2>2. CASE ~Conditional(b)
    BY <1>5, <2>2 DEF Nothing
  <2> QED BY <2>1, <2>2
<1>9. ~backward => {h \in Hosts : taken[h].is = "reload"} = {}
  BY <1>3, <1>4, ForwardRoles
<1>10. live \in SUBSET Hosts
  BY DEF LiveOut
<1>11. IF Conditional(b) THEN /\ {h \in Hosts : next[h].is = "live"} \subseteq live
                              /\ {h \in Hosts : next[h].is = "merge"} \cap live = {}
       ELSE live = {}
  <2>1. CASE Conditional(b)
    <3>1. \A h \in Hosts : next[h].is = "live" => h \in live
      BY <1>2, <1>3, <1>5, <2>1, ForwardRoles
    <3>2. \A h \in live : next[h].is # "merge"
      BY <1>3, <1>5, <1>10, <2>1, NextRoles DEF e
    <3> QED BY <2>1, <3>1, <3>2
  <2>2. CASE ~Conditional(b)
    BY <2>2
  <2> QED BY <2>1, <2>2
<1>12. Conditional(b) /\ ~backward => {h \in Hosts : taken[h].is = "live"} \subseteq live
  BY <1>3, <1>4, ForwardRoles
<1>13. Conditional(b) \in BOOLEAN /\ backward \in BOOLEAN
  BY DEF Conditional, Forward
<1> HIDE DEF taken, next, backward, live
<1>14. Reload(b)!ReloadInit
  <2>1. Reload(b)!Hosts = Hosts /\ Reload(b)!Roles = EdgeRoles
    BY DEF Reload!Hosts, Reload!Roles, Reload!Spilled, Reload!Storage, Hosts, EdgeRoles
  <2> QED BY <1>6, <1>7, <1>8, <1>9, <1>10, <1>11, <1>12, <1>13, <2>1
          DEF Reload!ReloadInit, Reload!EndsMeetAllocation, Reload!Of, Reload!Free, Reload!Unset,
              Nothing, Hosts, taken, next, backward, live, t, e
<1>15. EdgeAsserts(ctx, b, t) /\ (Conditional(b) => EdgeAsserts(ctx, b, e))
  BY <1>2, EdgeHolds
<1> QED BY <1>14, <1>15 DEF t, e

(* and end_live is as check_reload_conflicts() takes it to be. *)
LEMMA EndLiveAgrees ==
  ASSUME NEW s, Ended(ctx, s), CodeFrom(ctx, s), NEW b \in DOMAIN s.blocks, Conditional(b)
  PROVE  /\ Reload(b)!EndLive \subseteq ctx.binfo[b].end_live
         /\ Reload(b)!StaleEndLive \/ Reload(b)!EndLive = ctx.binfo[b].end_live
<1> DEFINE e == NextOf(ctx, b)
           next == Roles(ctx, b, e)
<1>1. LastOp(b) = "if" /\ ctx.insns[s.blocks[b].last].op = "if" /\ ctx.blocks = s.blocks
  BY EndedFacts DEF Conditional, LastOp, LastOf
<1>2. IsEdge(ctx, s, b, e) /\ s.blocks[b].exits # <<>> /\ s.blocks[b].exits[1] = e
  BY <1>1, EdgesOut
<1>3. e \in DOMAIN s.blocks /\ e # None
  BY <1>2, EndedFacts DEF None, IsEdge
<1>4. next = [h \in Hosts |-> Role(ctx, b, e, h)]
  <2> HIDE DEF e
  <2> QED BY <1>3 DEF Roles
<1>5. /\ LiveOut(ctx, b) \cup Sources(ctx, b, e) \subseteq ctx.binfo[b].end_live
      /\ \/ \E h \in Hosts : Role(ctx, b, e, h).is = "merge" /\ Role(ctx, b, e, h).from = NumHosts
         \/ LiveOut(ctx, b) \cup Sources(ctx, b, e) = ctx.binfo[b].end_live
  BY <1>2, <1>3, EndLiveHolds
<1> HIDE DEF e, next
<1>6. Sources(ctx, b, e) = {next[h].from : h \in {h \in Hosts : next[h].is = "merge"}} \cap Hosts
  BY <1>4 DEF Sources
<1>7. Reload(b)!EndLive = LiveOut(ctx, b) \cup Sources(ctx, b, e)
  BY <1>6 DEF Reload!EndLive, Reload!SourcesOf, Reload!Of, Reload!Hosts, Hosts, next, e
<1>8. Reload(b)!StaleEndLive <=>
        \E h \in Hosts : Role(ctx, b, e, h).is = "merge" /\ Role(ctx, b, e, h).from = NumHosts
  BY <1>4 DEF Reload!StaleEndLive, Reload!Of, Reload!Spilled, Reload!Hosts, Hosts, next, e
<1> QED BY <1>5, <1>7, <1>8

(* So the reload code is right about every edge that is left to it. *)
LEMMA EdgesHold ==
  ASSUME HInv, EdgeInv
  PROVE  EdgesAreReloads
<1> SUFFICES ASSUME phase = "code", NEW b \in DOMAIN ctx.blocks, LastOp(b) # "return"
             PROVE  /\ EdgeAsserts(ctx, b, BranchOf(b))
                    /\ Conditional(b) => EdgeAsserts(ctx, b, NextOf(ctx, b))
                    /\ Reload(b)!ReloadInit
                    /\ Conditional(b) => /\ Reload(b)!EndLive \subseteq ctx.binfo[b].end_live
                                         /\ Reload(b)!StaleEndLive \/ Reload(b)!EndLive = ctx.binfo[b].end_live
  BY DEF EdgesAreReloads
<1>1. IsSkeleton(Skeleton) /\ Between(ctx, Skeleton, Len(Skeleton.insns))
  BY SkeletonsAssumption DEF HInv, HostInv, Skeleton
<1>2. /\ Looped(ctx, Skeleton, DOMAIN Skeleton.blocks) /\ CodeFrom(ctx, Skeleton)
      /\ Joined(ctx, Skeleton, DOMAIN Skeleton.blocks, Len(Skeleton.insns))
  BY DEF EdgeInv
<1>3. Ended(ctx, Skeleton) /\ b \in DOMAIN Skeleton.blocks
  BY <1>1, <1>2, EndedFacts DEF Ended
<1> QED BY <1>2, <1>3, ReloadStarts, EndLiveAgrees

(* Every edge that the allocator leaves, of whatever unit and for however many host
   registers, is one that the reload code is right about: see HostReload_proofs. *)
THEOREM EdgesStart == HostSpec => []EdgesAreReloads
<1>1. Init => HInv /\ EdgeInv
  <2>1. Init => EdgeInv
    BY DEF Init, EdgeInv
  <2> QED BY <2>1, InitHolds
<1>2. HInv /\ EdgeInv /\ [Next]_hostVars => (HInv /\ EdgeInv)'
  BY StepKeeps, EdgeSteps
<1>3. HInv /\ EdgeInv => EdgesAreReloads
  BY EdgesHold
<1> QED BY <1>1, <1>2, <1>3, PTL DEF HostSpec
=============================================================================
