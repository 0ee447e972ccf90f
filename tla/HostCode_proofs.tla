---------------------------- MODULE HostCode_proofs ----------------------------
(* The register allocator keeps its own assertions and those of the translator, for
   every unit that a front end may hand over and every number of host registers. *)
EXTENDS HostCode, TLAPS, WellFoundedInduction, FiniteSetTheorems

(******************************* The context *******************************)

CtxFields  == {"insns", "death", "blocks", "opts", "info", "binfo", "last_death", "fixed", "map",
               "early", "touched", "regs_touched", "transparent", "save", "ok", "natural"}
InfoFields == {"allocated", "host", "avoid", "spilled", "spill_insn", "merge", "host_merge", "temp"}
BlockFields == {"load", "store", "has_call", "min_death", "initial", "end_live"}
FixedHosts == {AX, CX, DX}

(* The parts of a context are where its code expects them. *)
Shape(c, s) ==
  /\ DOMAIN c = CtxFields /\ c.blocks = s.blocks /\ c.opts = s.opts
  /\ DOMAIN c.insns = 1..Len(s.insns) /\ DOMAIN c.death = 1..Len(s.insns)
  /\ \A r \in 1..Len(s.insns) : c.death[r] \in Int
  /\ DOMAIN c.info = 0..Len(s.insns)
  /\ \A r \in 0..Len(s.insns) : DOMAIN c.info[r] = InfoFields /\ c.info[r].host \in Hosts
  /\ DOMAIN c.binfo = DOMAIN s.blocks
  /\ \A b \in DOMAIN s.blocks : /\ DOMAIN c.binfo[b] = BlockFields
                                /\ DOMAIN c.binfo[b].load = Aliases
                                /\ DOMAIN c.binfo[b].store = Aliases
  /\ DOMAIN c.map = Hosts /\ c.early \subseteq Hosts

(* Operands have been set before. *)
SettersBefore(f, n) == {r \in 1..(n - 1) : f[r].op \in Setters}
InsnOK(f, n) ==
  /\ {f[n].s1, f[n].s2, f[n].s3} \subseteq SettersBefore(f, n) \cup {0}
  /\ f[n].op \in Reads \cup {"set", "move"} => f[n].s1 # 0
  /\ f[n].op \in Reads => f[n].s2 # 0
  /\ f[n].op \in {"get", "set"} => f[n].x \in Aliases
CodeOK(c) == \A n \in DOMAIN c.insns : InsnOK(c.insns, n)

(* The blocks divide the instructions among them. *)
InBlock(s, b) == s.blocks[b].first..s.blocks[b].last

(****************************** Small lemmas *******************************)

(* The host registers that instructions insist on, and two others. *)
LEMMA HostsFacts ==
  /\ FixedHosts \subseteq Hosts /\ Hosts \subseteq Nat /\ R15 \notin Hosts /\ None \notin Hosts
  /\ {3, 4} \subseteq Hosts /\ CalleeSaved \subseteq Hosts /\ CallerSaved \subseteq Hosts
  /\ R15 \in Nat /\ R15 # None /\ R15 \notin FixedHosts /\ None \notin FixedHosts
  /\ NumHosts \in Nat
  BY HostsAssumption DEF FixedHosts, AX, CX, DX, Hosts, R15, None, CallerSaved

(* A set of numbers that has 0, and with each number the next one, has them all. *)
LEMMA Induction ==
  ASSUME NEW S, 0 \in S, \A n \in Nat : n \in S => n + 1 \in S
  PROVE  Nat \subseteq S
<1> DEFINE R == OpToRel(<, Nat)
           T == Nat \ S
<1> SUFFICES ASSUME T # {} PROVE FALSE
  OBVIOUS
<1>1. T \subseteq Nat
  OBVIOUS
<1>2. PICK m \in T : \A k \in T : ~(<<k, m>> \in R)
  BY <1>1, WFMin, NatLessThanWellFounded
<1>3. \A k \in T : <<k, m>> \in R <=> k < m
  BY <1>1 DEF OpToRel
<1> HIDE DEF R
<1>4. m \in Nat /\ m # 0 /\ m \notin S
  BY <1>2
<1>5. m - 1 \in Nat /\ m - 1 < m
  BY <1>4
<1>6. m - 1 \notin T
  BY <1>2, <1>3, <1>5
<1> QED BY <1>4, <1>5, <1>6

(* A set of naturals that is not empty has a least member. *)
LEMMA LeastIn ==
  ASSUME NEW S, S \subseteq Nat, S # {}
  PROVE  Least(S) \in S /\ \A j \in S : Least(S) <= j
<1> DEFINE R == OpToRel(<, Nat)
<1>1. PICK m \in S : \A k \in S : ~(<<k, m>> \in R)
  BY WFMin, NatLessThanWellFounded
<1>2. \A k \in S : ~(k < m)
  BY <1>1 DEF OpToRel
<1>3. \A k \in S : m <= k
  BY <1>2
<1> QED BY <1>1, <1>3 DEF Least

(* A set of naturals that is bounded, and not empty, has a greatest one. *)
LEMMA LatestIn ==
  ASSUME NEW S, S \subseteq Nat, S # {}, NEW n \in Nat, \A j \in S : j <= n
  PROVE  Latest(S) \in S /\ \A j \in S : j <= Latest(S)
<1> DEFINE T == {n - j : j \in S}
<1>1. \A j \in S : j \in Nat /\ n - j \in Nat /\ n - j \in T
  OBVIOUS
<1>2. T \subseteq Nat /\ T # {}
  BY <1>1
<1>3. Least(T) \in T /\ \A t \in T : Least(T) <= t
  BY <1>2, LeastIn
<1>4. PICK m \in S : Least(T) = n - m
  BY <1>3
<1>5. \A j \in S : j <= m
  <2> TAKE j \in S
  <2>1. n - m <= n - j
    BY <1>1, <1>3, <1>4
  <2> QED BY <2>1, <1>1
<1> QED BY <1>4, <1>5 DEF Latest

(* And a set of host registers, which is bounded, has a greatest one. *)
LEMMA LatestHost ==
  ASSUME NEW S, S \subseteq Hosts, S # {}
  PROVE  Latest(S) \in S
<1>1. S \subseteq Nat /\ NumHosts \in Nat /\ \A j \in S : j <= NumHosts
  BY HostsFacts, HostsAssumption DEF Hosts
<1> QED BY <1>1, LatestIn

(* get_gpr() gives one of the registers it is offered. *)
LEMMA GetIn ==
  ASSUME NEW S, S \subseteq Hosts
  PROVE  /\ S # {} => Get(S) \in S
         /\ S = {} => Get(S) = None
         /\ Get(S) # None => Get(S) \in S
<1>1. CASE S \cap CallerSaved # {}
  <2>1. Least(S \cap CallerSaved) \in S \cap CallerSaved
    BY <1>1, LeastIn, HostsFacts
  <2> QED BY <1>1, <2>1 DEF Get
<1>2. CASE S \cap CallerSaved = {} /\ S # {}
  <2>1. Least(S) \in S
    BY <1>2, LeastIn, HostsFacts
  <2> QED BY <1>2, <2>1 DEF Get
<1>3. CASE S = {}
  BY <1>3 DEF Get
<1> QED BY <1>1, <1>2, <1>3

(***************************** The allocation ******************************)

(* What holds of a context when the first n instructions have their registers.
   A register in the map is one of theirs, which is where it was put, and has not
   been spilled; each of them has a register, which it keeps until it is spilled or
   dead; and what is spilled goes to the next one that is put there. *)
MapOK(c, n) == \A h \in Hosts : LET r == c.map[h] IN r # 0 =>
  /\ r \in 1..n /\ c.insns[r].op \in Setters
  /\ c.info[r].allocated = TRUE /\ c.info[r].host = h /\ c.info[r].spilled = FALSE
InPlace(c, n, d) == \A r \in 1..n : c.insns[r].op \in Setters =>
  /\ c.info[r].allocated = TRUE
  /\ c.info[r].spilled = TRUE \/ c.death[r] <= d \/ c.map[c.info[r].host] = r
SpillsOK(c, n) == \A r \in 1..n :
  \/ c.info[r].spilled = FALSE /\ c.info[r].spill_insn = 0
  \/ LET m == c.info[r].spill_insn IN
       /\ c.info[r].spilled = TRUE /\ m \in (r + 1)..n
       /\ c.insns[m].op \in Setters /\ c.info[m].host = c.info[r].host
Shared(c, n) == \A m \in 1..n : \A r \in 1..(m - 1) :
  /\ c.insns[m].op \in Setters /\ c.insns[r].op \in Setters
  /\ c.info[m].host = c.info[r].host /\ c.death[r] > m
  => c.info[r].spilled = TRUE /\ c.info[r].spill_insn <= m
Placed(c, n, d) == MapOK(c, n) /\ InPlace(c, n, d) /\ SpillsOK(c, n) /\ Shared(c, n)

(* The others have what the first pass has given them. *)
IsPending(c, r) == LET i == c.info[r] IN
  /\ i.spilled = FALSE /\ i.spill_insn = 0 /\ i.temp = None
  /\ i.host \in FixedHosts /\ i.avoid \subseteq FixedHosts
  /\ "FIXED_REGS" \in c.opts /\ c.insns[r].op = "shift" => CX \in i.avoid
  /\ "FIXED_REGS" \notin c.opts => i.allocated = FALSE /\ i.avoid = {}
Pending(c, n) == \A r \in DOMAIN c.insns : r > n => IsPending(c, r)

(* Instructions that are particular about registers have one that will do. *)
ResultOK(c, r) ==
  LET op == c.insns[r].op
      host    == c.info[r].host
      temp    == c.info[r].temp
      divisor == c.info[c.insns[r].s2].host
  IN  /\ op = "mulh" => host # AX /\ temp # DX
      /\ op = "div" => host \notin {divisor, DX} /\ temp \notin {AX, DX} /\ (divisor = DX => temp # None)
      /\ op = "mod" => host \notin {divisor, AX} /\ temp \notin {AX, DX} /\ (divisor = AX => temp # None)
      /\ op = "shift" => host # CX
Results(c, n) == \A r \in 1..n : c.insns[r].op \in Setters => ResultOK(c, r)

(* The promises of early merges: a register that is promised is free, and promised
   to one GET_ALIAS of the block that is still to come. *)
Promisees(c, s, b, n) ==
  {g \in InBlock(s, b) : g > n /\ c.insns[g].op = "get" /\ c.info[g].merge = TRUE}
Promises(c, s, b, n) ==
  /\ \A h \in c.early : c.map[h] = 0 /\ \E g \in Promisees(c, s, b, n) : c.info[g].host_merge = h
  /\ \A g \in Promisees(c, s, b, n) : c.info[g].host_merge \in c.early
  /\ \A g, f \in Promisees(c, s, b, n) : c.info[g].host_merge = c.info[f].host_merge => g = f
  /\ \A g \in InBlock(s, b) : g <= n /\ c.insns[g].op = "get" /\ c.info[g].merge = TRUE
                                => c.info[g].host_merge \notin c.early
  /\ \A r \in DOMAIN c.insns : r > s.blocks[b].last => c.info[r].merge = FALSE
  /\ \A r \in DOMAIN c.insns : c.info[r].merge \in BOOLEAN

(* What the first pass leaves behind, and the allocation does not change. *)
Loads(c, s) == \A b \in DOMAIN s.blocks :
  /\ \A g \in InBlock(s, b) : c.insns[g].op = "get" => c.binfo[b].load[c.insns[g].x] = g
  /\ \A a \in Aliases : LET g == c.binfo[b].load[a] IN
       g # 0 => g \in InBlock(s, b) /\ c.insns[g].op = "get" /\ c.insns[g].x = a
Stores(c, s) == \A b \in DOMAIN s.blocks : \A a \in Aliases : LET r == c.binfo[b].store[a] IN
  r # 0 => r \in 1..s.blocks[b].last /\ c.insns[r].op \in Setters
FixedOK(c) == c.fixed \subseteq DOMAIN c.insns /\ ("FIXED_REGS" \notin c.opts => c.fixed = {})
Static(c, s) == CodeOK(c) /\ Loads(c, s) /\ Stores(c, s) /\ FixedOK(c)

Asserts(c) == c.ok = TRUE /\ ("FIXED_REGS" \notin c.opts => c.natural = TRUE)

(* All of this, after instruction n of block b. *)
Scanned(c, s, b, n) ==
  /\ Shape(c, s) /\ Static(c, s) /\ Asserts(c)
  /\ Placed(c, n, n) /\ Pending(c, n) /\ Results(c, n) /\ Promises(c, s, b, n)

(* What most steps leave alone: the unit; and all of a register but its merge. *)
KeepsUnit(c, d) ==
  /\ d.insns = c.insns /\ d.death = c.death /\ d.fixed = c.fixed
  /\ \A b \in DOMAIN c.binfo : /\ d.binfo[b].load = c.binfo[b].load
                               /\ d.binfo[b].store = c.binfo[b].store
SamePlace(i, j) ==
  /\ j.allocated = i.allocated /\ j.host = i.host /\ j.avoid = i.avoid
  /\ j.spilled = i.spilled /\ j.spill_insn = i.spill_insn /\ j.temp = i.temp

(* A step that puts n in h. *)
Gives(c, d, n, h) ==
  /\ KeepsUnit(c, d) /\ d.early = c.early
  /\ d.map = [c.map EXCEPT ![h] = n]
  /\ d.info[n] = [c.info[n] EXCEPT !.allocated = TRUE, !.host = h]
  /\ \A r \in DOMAIN c.info : r \notin {n, c.map[h]} => d.info[r] = c.info[r]
  /\ c.map[h] # 0 => d.info[c.map[h]] = [c.info[c.map[h]] EXCEPT !.spilled = TRUE, !.spill_insn = n]

(*************************** What the steps change **************************)

(* assign_register() puts n in a register that is free. *)
LEMMA AssignChanges ==
  ASSUME NEW s, NEW c, Shape(c, s), NEW n \in 1..Len(s.insns), NEW h \in Hosts, c.map[h] = 0
  PROVE  /\ Shape(Assign(c, n, h), s) /\ Gives(c, Assign(c, n, h), n, h)
         /\ Asserts(c) => Asserts(Assign(c, n, h))
<1> DEFINE d == Assign(c, n, h)
<1>1. /\ DOMAIN d = CtxFields /\ d.blocks = c.blocks /\ d.opts = c.opts /\ d.insns = c.insns
      /\ d.death = c.death /\ d.binfo = c.binfo /\ d.fixed = c.fixed /\ d.early = c.early
      /\ d.map = [c.map EXCEPT ![h] = n] /\ d.natural = c.natural
      /\ d.info = [c.info EXCEPT ![n] = [@ EXCEPT !.allocated = TRUE, !.host = h]]
  BY DEF Assign, Touch, Asserted, Shape, CtxFields, InfoFields
<1>2. c.ok = TRUE => d.ok = TRUE
  BY DEF Assign, Touch, Asserted, Shape, CtxFields, InfoFields
<1> HIDE DEF d
<1>3. n \in DOMAIN c.info /\ n \in 0..Len(s.insns)
  BY DEF Shape
<1>4. Shape(d, s)
  BY <1>1, <1>3 DEF Shape, InfoFields
<1>5. Gives(c, d, n, h)
  BY <1>1, <1>3 DEF Gives, KeepsUnit
<1>6. Asserts(c) => Asserts(d)
  BY <1>1, <1>2 DEF Asserts
<1> QED BY <1>4, <1>5, <1>6 DEF d

(* allocate_register() puts n where a register was, which it spills. *)
LEMMA SpillChanges ==
  ASSUME NEW s, NEW c, Shape(c, s), NEW n \in 1..Len(s.insns), NEW h \in Hosts,
         c.map[h] # 0, c.map[h] \in 1..(n - 1), c.info[c.map[h]].spilled = FALSE
  PROVE  /\ Shape(Spill(c, n, h), s) /\ Gives(c, Spill(c, n, h), n, h)
         /\ Asserts(c) => Asserts(Spill(c, n, h))
<1> DEFINE d == Spill(c, n, h)
           v == c.map[h]
<1>0. n # v /\ v \in DOMAIN c.info /\ n \in DOMAIN c.info /\ n \in 0..Len(s.insns)
      /\ Len(s.insns) \in Int
  BY DEF Shape
<1>1. /\ DOMAIN d = CtxFields /\ d.blocks = c.blocks /\ d.opts = c.opts /\ d.insns = c.insns
      /\ d.death = c.death /\ d.binfo = c.binfo /\ d.fixed = c.fixed /\ d.early = c.early
      /\ d.map = [c.map EXCEPT ![h] = n] /\ d.natural = c.natural
  BY DEF Spill, Asserted, Shape, CtxFields, InfoFields
<1>2. /\ DOMAIN d.info = DOMAIN c.info
      /\ d.info[n] = [c.info[n] EXCEPT !.allocated = TRUE, !.host = h]
      /\ d.info[v] = [c.info[v] EXCEPT !.spilled = TRUE, !.spill_insn = n]
      /\ \A r \in DOMAIN c.info : r \notin {n, v} => d.info[r] = c.info[r]
  BY <1>0 DEF Spill, Asserted, Shape, CtxFields, InfoFields
<1>3. c.ok = TRUE => d.ok = TRUE
  BY DEF Spill, Asserted, Shape, CtxFields, InfoFields
<1> HIDE DEF d
<1>4. Shape(d, s)
  <2>1. ASSUME NEW r \in 0..Len(s.insns)
        PROVE  DOMAIN d.info[r] = InfoFields /\ d.info[r].host \in Hosts
    <3>1. r \in DOMAIN c.info /\ DOMAIN c.info[r] = InfoFields /\ c.info[r].host \in Hosts
      BY DEF Shape
    <3>2. CASE r = n
      BY <1>0, <1>2, <3>1, <3>2 DEF InfoFields
    <3>3. CASE r = v
      BY <1>0, <1>2, <3>1, <3>3 DEF InfoFields
    <3> QED BY <1>2, <3>1, <3>2, <3>3
  <2> QED BY <1>1, <1>2, <2>1 DEF Shape
<1>5. Gives(c, d, n, h)
  BY <1>1, <1>2 DEF Gives, KeepsUnit
<1>6. Asserts(c) => Asserts(d)
  BY <1>1, <1>3 DEF Asserts
<1> QED BY <1>4, <1>5, <1>6 DEF d

(* The instructions of a block are the unit's. *)
LEMMA BlockFacts ==
  ASSUME NEW s, IsSkeleton(s), NEW b \in DOMAIN s.blocks
  PROVE  /\ InBlock(s, b) \subseteq 1..Len(s.insns) /\ Len(s.insns) \in Nat
         /\ s.blocks[b].first \in 1..Len(s.insns) /\ s.blocks[b].last \in 1..Len(s.insns)
         /\ s.blocks[b].first <= s.blocks[b].last /\ b \in Nat
  BY DEF IsSkeleton, IsBlocks, InBlock

(* Instruction n, which is in block b of the unit. *)
Here(s, b, n) == IsSkeleton(s) /\ b \in DOMAIN s.blocks /\ n \in InBlock(s, b)

(* What the numbers of the block and of the instruction are. *)
LEMMA HereFacts ==
  ASSUME NEW s, NEW b, NEW n, Here(s, b, n)
  PROVE  /\ Len(s.insns) \in Nat /\ n \in 1..Len(s.insns) /\ n - 1 \in 0..Len(s.insns)
         /\ InBlock(s, b) \subseteq 1..Len(s.insns) /\ n \in Int /\ n - 1 \in Int
         /\ n <= s.blocks[b].last /\ s.blocks[b].first <= n
         /\ s.blocks[b].first \in 1..Len(s.insns) /\ s.blocks[b].last \in 1..Len(s.insns)
<1>1. IsSkeleton(s) /\ b \in DOMAIN s.blocks /\ n \in s.blocks[b].first..s.blocks[b].last
  BY DEF Here, InBlock
<1>2. /\ InBlock(s, b) \subseteq 1..Len(s.insns) /\ Len(s.insns) \in Nat
      /\ s.blocks[b].first \in 1..Len(s.insns) /\ s.blocks[b].last \in 1..Len(s.insns)
  BY <1>1, BlockFacts
<1> QED BY <1>1, <1>2

(* The values stay where they are, but the one that n takes the place of. *)
LEMMA GivesPlaces ==
  ASSUME NEW s, NEW b, NEW n, Here(s, b, n), NEW c, NEW d, Shape(c, s), Shape(d, s),
         NEW h \in Hosts, Gives(c, d, n, h),
         c.insns[n].op \in Setters, Placed(c, n - 1, n),
         c.info[n].spilled = FALSE, c.info[n].spill_insn = 0
  PROVE  Placed(d, n, n)
<1> DEFINE v == c.map[h]
<1>0. PICK N \in Nat : N = Len(s.insns) /\ n \in 1..N
  BY HereFacts
<1> n \in Int /\ n > 0 /\ n <= N /\ N = Len(s.insns)
  BY <1>0
<1>1. /\ d.insns = c.insns /\ d.death = c.death /\ DOMAIN c.map = Hosts
      /\ d.map = [c.map EXCEPT ![h] = n] /\ DOMAIN c.info = 0..N
      /\ DOMAIN c.info[n] = InfoFields
  BY DEF Gives, KeepsUnit, Shape
<1>2. /\ d.info[n].allocated = TRUE /\ d.info[n].host = h /\ d.info[n].spilled = FALSE
      /\ d.info[n].spill_insn = 0
  BY <1>1 DEF Gives, InfoFields
<1>3. d.map[h] = n /\ \A g \in Hosts : g # h => d.map[g] = c.map[g]
  BY <1>1
<1>4. \A r \in 0..N : r \notin {n, v} => d.info[r] = c.info[r]
  BY <1>1 DEF Gives
<1>5. v # 0 => /\ v \in 1..(n - 1) /\ v # n /\ c.insns[v].op \in Setters
               /\ c.info[v].host = h /\ c.info[v].spilled = FALSE /\ c.info[v].allocated = TRUE
  BY DEF Placed, MapOK
<1>6. v # 0 => /\ d.info[v].spilled = TRUE /\ d.info[v].spill_insn = n
               /\ d.info[v].host = h /\ d.info[v].allocated = TRUE
  <2>1. v # 0 => DOMAIN c.info[v] = InfoFields
    BY <1>5 DEF Shape
  <2> QED BY <1>5, <2>1 DEF Gives, InfoFields
<1>7. \A r \in 1..(n - 1) : /\ d.info[r].host = c.info[r].host
                            /\ d.info[r].allocated = c.info[r].allocated
  <2> TAKE r \in 1..(n - 1)
  <2>1. r \in 0..N /\ r # n
    OBVIOUS
  <2>2. CASE r # v
    BY <1>4, <2>1, <2>2
  <2>3. CASE r = v
    <3>1. v # 0
      BY <2>3
    <3>2. d.info[v].host = c.info[v].host /\ d.info[v].allocated = c.info[v].allocated
      BY <1>5, <1>6, <3>1
    <3> QED BY <2>3, <3>2
  <2> QED BY <2>2, <2>3
<1>8. \A r \in 1..(n - 1) : r # v => /\ d.info[r].spilled = c.info[r].spilled
                                     /\ d.info[r].spill_insn = c.info[r].spill_insn
  BY <1>4
<1>9. \A r \in 1..n : r = n \/ r \in 1..(n - 1)
  OBVIOUS
<1> HIDE DEF v
<1>10. MapOK(d, n)
  <2> SUFFICES ASSUME NEW g \in Hosts, d.map[g] # 0
               PROVE  LET r == d.map[g] IN
                        /\ r \in 1..n /\ d.insns[r].op \in Setters
                        /\ d.info[r].allocated = TRUE /\ d.info[r].host = g /\ d.info[r].spilled = FALSE
    BY DEF MapOK
  <2>1. CASE g = h
    BY <1>1, <1>2, <1>3, <2>1
  <2>2. CASE g # h
    <3>1. d.map[g] = c.map[g]
      BY <1>3, <2>2
    <3>2. /\ c.map[g] \in 1..(n - 1) /\ c.insns[c.map[g]].op \in Setters
          /\ c.info[c.map[g]].allocated = TRUE /\ c.info[c.map[g]].host = g
          /\ c.info[c.map[g]].spilled = FALSE
      BY <3>1 DEF Placed, MapOK
    <3>3. c.map[g] # v
      BY <1>5, <2>2, <3>2
    <3> QED BY <1>1, <1>7, <1>8, <3>1, <3>2, <3>3
  <2> QED BY <2>1, <2>2
<1>11. InPlace(d, n, n)
  <2> SUFFICES ASSUME NEW r \in 1..n, d.insns[r].op \in Setters
               PROVE  /\ d.info[r].allocated = TRUE
                      /\ \/ d.info[r].spilled = TRUE \/ d.death[r] <= n
                         \/ d.map[d.info[r].host] = r
    BY DEF InPlace
  <2>1. CASE r = n
    BY <1>2, <1>3, <2>1
  <2>2. CASE r \in 1..(n - 1)
    <3>1. /\ c.info[r].allocated = TRUE
          /\ c.info[r].spilled = TRUE \/ c.death[r] <= n \/ c.map[c.info[r].host] = r
      BY <1>1, <2>2 DEF Placed, InPlace
    <3>2. CASE r = v
      BY <1>6, <2>2, <3>2
    <3>3. CASE r # v
      <4>1. c.map[c.info[r].host] = r => c.info[r].host # h
        BY <3>3 DEF v
      <4>2. c.info[r].host \in Hosts
        BY <2>2 DEF Shape
      <4> QED BY <1>1, <1>3, <1>7, <1>8, <2>2, <3>1, <3>3, <4>1, <4>2
    <3> QED BY <3>2, <3>3
  <2> QED BY <1>9, <2>1, <2>2
<1>12. SpillsOK(d, n)
  <2> SUFFICES ASSUME NEW r \in 1..n
               PROVE  \/ d.info[r].spilled = FALSE /\ d.info[r].spill_insn = 0
                      \/ LET m == d.info[r].spill_insn IN
                           /\ d.info[r].spilled = TRUE /\ m \in (r + 1)..n
                           /\ d.insns[m].op \in Setters /\ d.info[m].host = d.info[r].host
    BY DEF SpillsOK
  <2>1. CASE r = n
    BY <1>2, <2>1
  <2>2. CASE r \in 1..(n - 1)
    <3>1. CASE r = v
      <4>1. n \in (r + 1)..n
        BY <2>2
      <4> QED BY <1>1, <1>2, <1>6, <2>2, <3>1, <4>1
    <3>2. CASE r # v
      <4>1. \/ c.info[r].spilled = FALSE /\ c.info[r].spill_insn = 0
            \/ LET m == c.info[r].spill_insn IN
                 /\ c.info[r].spilled = TRUE /\ m \in (r + 1)..(n - 1)
                 /\ c.insns[m].op \in Setters /\ c.info[m].host = c.info[r].host
        BY <2>2 DEF Placed, SpillsOK
      <4>2. \A m \in (r + 1)..(n - 1) : m \in 1..(n - 1) /\ m \in (r + 1)..n
        BY <2>2
      <4> QED BY <1>1, <1>7, <1>8, <2>2, <3>2, <4>1, <4>2
    <3> QED BY <3>1, <3>2
  <2> QED BY <1>9, <2>1, <2>2
<1>13. Shared(d, n)
  <2> SUFFICES ASSUME NEW m \in 1..n, NEW r \in 1..(m - 1),
                      d.insns[m].op \in Setters, d.insns[r].op \in Setters,
                      d.info[m].host = d.info[r].host, d.death[r] > m
               PROVE  d.info[r].spilled = TRUE /\ d.info[r].spill_insn <= m
    BY DEF Shared
  <2>0. r \in 1..(n - 1)
    OBVIOUS
  <2>1. CASE m = n
    <3>1. c.info[r].host = h
      BY <1>2, <1>7, <2>0, <2>1
    <3>2. CASE r = v
      BY <1>6, <2>0, <2>1, <3>2
    <3>3. CASE r # v
      <4>0. c.death[r] \in Int /\ ~(c.death[r] <= n) /\ c.map[h] # r
        BY <1>1, <2>0, <2>1, <3>3 DEF Shape, v
      <4>1. c.info[r].spilled = TRUE
        BY <1>1, <2>0, <3>1, <4>0 DEF Placed, InPlace
      <4>2. c.info[r].spill_insn \in (r + 1)..(n - 1)
        BY <2>0, <4>1 DEF Placed, SpillsOK
      <4> QED BY <1>8, <2>0, <2>1, <3>3, <4>1, <4>2
    <3> QED BY <3>2, <3>3
  <2>2. CASE m \in 1..(n - 1)
    <3>1. c.info[r].spilled = TRUE /\ c.info[r].spill_insn <= m
      BY <1>1, <1>7, <2>0, <2>2 DEF Placed, Shared
    <3>2. r # v
      BY <1>5, <2>0, <3>1
    <3> QED BY <1>8, <2>0, <3>1, <3>2
  <2> QED BY <1>9, <2>1, <2>2
<1> QED BY <1>2, <1>3, <1>10, <1>11, <1>12, <1>13 DEF Placed

(* A step that leaves all places as they are, but for what is known of x. *)
Steady(c, d, x) ==
  /\ KeepsUnit(c, d) /\ d.map = c.map
  /\ \A r \in DOMAIN c.insns : r # x => SamePlace(c.info[r], d.info[r])
SameMerges(c, d) ==
  /\ d.insns = c.insns /\ d.early = c.early
  /\ \A h \in c.early : c.map[h] = 0 => d.map[h] = 0
  /\ \A r \in DOMAIN c.insns : /\ d.info[r].merge = c.info[r].merge
                               /\ d.info[r].host_merge = c.info[r].host_merge

(* The first pass's results depend on nothing but the unit. *)
LEMMA StaticKept ==
  ASSUME NEW s, NEW c, NEW d, Shape(c, s), Shape(d, s), KeepsUnit(c, d), Static(c, s)
  PROVE  Static(d, s)
<1>1. /\ d.insns = c.insns /\ d.fixed = c.fixed /\ d.opts = c.opts /\ d.blocks = c.blocks
      /\ DOMAIN c.binfo = DOMAIN s.blocks
      /\ \A b \in DOMAIN s.blocks : /\ d.binfo[b].load = c.binfo[b].load
                                    /\ d.binfo[b].store = c.binfo[b].store
  BY DEF KeepsUnit, Shape
<1>2. CodeOK(d) /\ FixedOK(d)
  BY <1>1 DEF Static, CodeOK, FixedOK
<1>3. Loads(d, s)
  BY <1>1 DEF Static, Loads
<1>4. Stores(d, s)
  BY <1>1 DEF Static, Stores
<1> QED BY <1>2, <1>3, <1>4 DEF Static

(* So the values have the places they had, the reservations are good, and the results
   suit their instructions. *)
LEMMA SteadyKeeps ==
  ASSUME NEW s, NEW N \in Nat, N = Len(s.insns), NEW c, NEW d, Shape(c, s), Shape(d, s),
         NEW k \in 0..N, NEW x \in Int, x = 0 \/ x > k, Steady(c, d, x)
  PROVE  /\ \A e \in Int : Placed(c, k, e) => Placed(d, k, e)
         /\ \A n \in k..N : x <= n /\ Pending(c, n) => Pending(d, n)
         /\ CodeOK(c) /\ Results(c, k) => Results(d, k)
<1>1. /\ d.insns = c.insns /\ d.death = c.death /\ d.map = c.map /\ d.opts = c.opts
      /\ DOMAIN c.insns = 1..N
  BY DEF Steady, KeepsUnit, Shape
<1>2. \A r \in 1..N : r # x => SamePlace(c.info[r], d.info[r])
  BY <1>1 DEF Steady
<1>3. \A r \in 1..k : SamePlace(c.info[r], d.info[r])
  BY <1>2
<1>4. ASSUME NEW e \in Int, Placed(c, k, e) PROVE Placed(d, k, e)
  <2>1. MapOK(d, k)
    BY <1>1, <1>3, <1>4 DEF Placed, MapOK, SamePlace
  <2>2. InPlace(d, k, e)
    BY <1>1, <1>3, <1>4 DEF Placed, InPlace, SamePlace
  <2>3. SpillsOK(d, k)
    <3> SUFFICES ASSUME NEW r \in 1..k
                 PROVE  \/ d.info[r].spilled = FALSE /\ d.info[r].spill_insn = 0
                        \/ LET m == d.info[r].spill_insn IN
                             /\ d.info[r].spilled = TRUE /\ m \in (r + 1)..k
                             /\ d.insns[m].op \in Setters /\ d.info[m].host = d.info[r].host
      BY DEF SpillsOK
    <3>1. \/ c.info[r].spilled = FALSE /\ c.info[r].spill_insn = 0
          \/ LET m == c.info[r].spill_insn IN
               /\ c.info[r].spilled = TRUE /\ m \in (r + 1)..k
               /\ c.insns[m].op \in Setters /\ c.info[m].host = c.info[r].host
      BY <1>4 DEF Placed, SpillsOK
    <3>2. \A m \in (r + 1)..k : m \in 1..k /\ d.info[m].host = c.info[m].host
      BY <1>3 DEF SamePlace
    <3>3. d.info[r].spilled = c.info[r].spilled /\ d.info[r].spill_insn = c.info[r].spill_insn
          /\ d.info[r].host = c.info[r].host
      BY <1>3 DEF SamePlace
    <3> QED BY <1>1, <3>1, <3>2, <3>3
  <2>4. Shared(d, k)
    <3>1. \A m \in 1..k : \A r \in 1..(m - 1) : r \in 1..k
      OBVIOUS
    <3> QED BY <1>1, <1>3, <1>4, <3>1 DEF Placed, Shared, SamePlace
  <2> QED BY <2>1, <2>2, <2>3, <2>4 DEF Placed
<1>5. ASSUME NEW n \in k..N, x <= n, Pending(c, n) PROVE Pending(d, n)
  <2>1. ASSUME NEW r \in 1..N, r > n PROVE IsPending(d, r)
    <3>1. SamePlace(c.info[r], d.info[r]) /\ IsPending(c, r)
      BY <1>1, <1>2, <1>5, <2>1 DEF Pending
    <3> QED BY <1>1, <3>1 DEF IsPending, SamePlace
  <2> QED BY <1>1, <2>1 DEF Pending
<1>6. ASSUME CodeOK(c), Results(c, k) PROVE Results(d, k)
  <2>1. ASSUME NEW r \in 1..k, d.insns[r].op \in Setters PROVE ResultOK(d, r)
    <3>1. ResultOK(c, r) /\ r \in 1..N
      BY <1>1, <1>6, <2>1 DEF Results
    <3>2. c.insns[r].op \in Reads => c.insns[r].s2 \in 1..k
      BY <1>1, <1>6, <3>1 DEF CodeOK, InsnOK, SettersBefore
    <3>3. CASE c.insns[r].op \in Reads
      BY <1>1, <1>3, <3>1, <3>2, <3>3 DEF ResultOK, SamePlace
    <3>4. CASE c.insns[r].op \notin Reads
      BY <1>1, <3>4 DEF ResultOK, Reads
    <3> QED BY <3>3, <3>4
  <2> QED BY <2>1 DEF Results
<1> QED BY <1>4, <1>5, <1>6

(* Nor are promises changed by what leaves the merges, the map and the end of block alone. *)
LEMMA PromisesKept ==
  ASSUME NEW s, NEW c, NEW d, SameMerges(c, d), Shape(c, s), NEW b \in DOMAIN s.blocks,
         InBlock(s, b) \subseteq DOMAIN c.insns, NEW n, Promises(c, s, b, n)
  PROVE  Promises(d, s, b, n)
<1>1. d.insns = c.insns /\ d.early = c.early
  BY DEF SameMerges
<1>2. \A r \in DOMAIN c.insns : /\ d.info[r].merge = c.info[r].merge
                                /\ d.info[r].host_merge = c.info[r].host_merge
  BY DEF SameMerges
<1>3. Promisees(d, s, b, n) = Promisees(c, s, b, n)
  BY <1>1, <1>2 DEF Promisees
<1>4. Promisees(c, s, b, n) \subseteq DOMAIN c.insns
  BY DEF Promisees
<1>5. \A h \in c.early : d.map[h] = 0
  BY DEF SameMerges, Promises
<1> QED BY <1>1, <1>2, <1>3, <1>4, <1>5 DEF Promises

(* A step that is about something else; and one that takes registers away from the
   members of R. *)
Quiet(c, d, s) ==
  /\ Shape(d, s) /\ KeepsUnit(c, d) /\ (Asserts(c) => Asserts(d))
  /\ d.map = c.map /\ d.info = c.info /\ d.early = c.early
Drops(c, d, s, R) ==
  /\ Shape(d, s) /\ KeepsUnit(c, d)
  /\ d.map = [h \in Hosts |-> IF c.map[h] \in R THEN 0 ELSE c.map[h]]
  /\ d.info = c.info /\ d.early = c.early

(* A quiet step leaves all places and promises. *)
LEMMA QuietSteady ==
  ASSUME NEW s, NEW c, NEW d, Shape(c, s), Quiet(c, d, s)
  PROVE  Steady(c, d, 0) /\ SameMerges(c, d)
  BY DEF Quiet, Steady, SameMerges, KeepsUnit, SamePlace

(* To record that registers are written is one. *)
LEMMA TouchChanges ==
  ASSUME NEW s, NEW c, Shape(c, s), NEW T
  PROVE  Quiet(c, Touch(c, T), s)
<1> DEFINE d == Touch(c, T)
<1>1. /\ DOMAIN d = CtxFields /\ d.blocks = c.blocks /\ d.opts = c.opts /\ d.insns = c.insns
      /\ d.death = c.death /\ d.binfo = c.binfo /\ d.fixed = c.fixed /\ d.early = c.early
      /\ d.map = c.map /\ d.natural = c.natural /\ d.info = c.info /\ d.ok = c.ok
  BY DEF Touch, Shape, CtxFields
<1> HIDE DEF d
<1> QED BY <1>1 DEF Quiet, Shape, KeepsUnit, Asserts, d

(* So are what a call saves and clobbers, *)
LEMMA AtCallChanges ==
  ASSUME NEW s, NEW c, Shape(c, s), NEW n \in DOMAIN c.insns
  PROVE  Quiet(c, AtCall(c, n), s)
<1> DEFINE d == AtCall(c, n)
           saved == {h \in CallerSaved : c.map[h] # 0 \/ h \in c.early}
           c1 == [c EXCEPT !.save[n] = saved]
<1>1. /\ DOMAIN c1 = CtxFields /\ c1.blocks = c.blocks /\ c1.opts = c.opts /\ c1.insns = c.insns
      /\ c1.death = c.death /\ c1.binfo = c.binfo /\ c1.fixed = c.fixed /\ c1.early = c.early
      /\ c1.map = c.map /\ c1.natural = c.natural /\ c1.info = c.info /\ c1.ok = c.ok
  BY DEF Shape, CtxFields
<1>2. Shape(c1, s) /\ KeepsUnit(c, c1) /\ (Asserts(c) => Asserts(c1))
  BY <1>1 DEF Shape, KeepsUnit, Asserts
<1>3. d \in {Touch(c1, CallerSaved), [c1 EXCEPT !.transparent = TRUE], c}
  BY DEF AtCall
<1> HIDE DEF c1, d
<1>4. CASE d = Touch(c1, CallerSaved)
  <2>1. Quiet(c1, d, s)
    BY <1>2, <1>4, TouchChanges
  <2> QED BY <1>1, <1>2, <2>1 DEF Quiet, KeepsUnit, d
<1>5. CASE d = [c1 EXCEPT !.transparent = TRUE]
  <2>1. /\ DOMAIN d = CtxFields /\ d.blocks = c1.blocks /\ d.opts = c1.opts /\ d.insns = c1.insns
        /\ d.death = c1.death /\ d.binfo = c1.binfo /\ d.fixed = c1.fixed /\ d.early = c1.early
        /\ d.map = c1.map /\ d.natural = c1.natural /\ d.info = c1.info /\ d.ok = c1.ok
    BY <1>1, <1>5 DEF CtxFields
  <2>2. Quiet(c1, d, s)
    BY <1>2, <2>1 DEF Quiet, Shape, KeepsUnit, Asserts
  <2> QED BY <1>1, <1>2, <2>2 DEF Quiet, KeepsUnit, d
<1>6. CASE d = c
  <2>1. Quiet(c, c, s)
    BY DEF Quiet, KeepsUnit
  <2> QED BY <1>6, <2>1 DEF d
<1> QED BY <1>3, <1>4, <1>5, <1>6

(* and the use of R15 by a store of a spilled register. *)
LEMMA ReloadedChanges ==
  ASSUME NEW s, NEW c, Shape(c, s), NEW i
  PROVE  Quiet(c, ReloadedForStore(c, i), s)
<1>1. Quiet(c, c, s)
  BY DEF Quiet, KeepsUnit
<1> QED BY <1>1, TouchChanges DEF ReloadedForStore

(* unassign_register() is such a step. *)
LEMMA UnassignChanges ==
  ASSUME NEW s, NEW c, Shape(c, s), NEW R
  PROVE  Drops(c, Unassign(c, R), s, R) /\ (Asserts(c) => Asserts(Unassign(c, R)))
<1> DEFINE d == Unassign(c, R)
<1>1. /\ DOMAIN d = CtxFields /\ d.blocks = c.blocks /\ d.opts = c.opts /\ d.insns = c.insns
      /\ d.death = c.death /\ d.binfo = c.binfo /\ d.fixed = c.fixed /\ d.early = c.early
      /\ d.natural = c.natural /\ d.info = c.info /\ d.ok = c.ok
  BY DEF Unassign, Shape, CtxFields
<1>2. d.map = [h \in Hosts |-> IF c.map[h] \in R THEN 0 ELSE c.map[h]]
  BY DEF Unassign, Shape, CtxFields
<1> HIDE DEF d
<1> QED BY <1>1, <1>2 DEF Drops, Shape, KeepsUnit, Asserts, d

(* Registers that are dead may go. *)
DeadBy(c, R, k, f) == \A r \in 1..k : r \in R => c.death[r] <= f

(* The others are still where they were. *)
LEMMA DropsPlaced ==
  ASSUME NEW s, NEW N \in Nat, N = Len(s.insns), NEW c, NEW d, NEW R, Shape(c, s),
         Drops(c, d, s, R), NEW k \in 0..N, NEW e \in Int, NEW f \in Int, e <= f, Placed(c, k, e),
         DeadBy(c, R, k, f)
  PROVE  Placed(d, k, f)
<1>1. /\ d.insns = c.insns /\ d.death = c.death /\ d.info = c.info /\ DOMAIN d.map = Hosts
      /\ \A r \in 1..N : c.death[r] \in Int
  BY DEF Drops, KeepsUnit, Shape
<1>2. \A h \in Hosts : d.map[h] = 0 \/ d.map[h] = c.map[h]
  BY DEF Drops
<1>3. MapOK(d, k)
  BY <1>1, <1>2 DEF Placed, MapOK
<1>4. InPlace(d, k, f)
  <2> SUFFICES ASSUME NEW r \in 1..k, c.insns[r].op \in Setters
               PROVE  /\ c.info[r].allocated = TRUE
                      /\ c.info[r].spilled = TRUE \/ c.death[r] <= f \/ d.map[c.info[r].host] = r
    BY <1>1 DEF InPlace
  <2>1. /\ c.info[r].allocated = TRUE
        /\ c.info[r].spilled = TRUE \/ c.death[r] <= e \/ c.map[c.info[r].host] = r
    BY DEF Placed, InPlace
  <2>2. r \in 1..N /\ c.info[r].host \in Hosts /\ c.death[r] \in Int
    BY <1>1 DEF Shape
  <2>3. c.map[c.info[r].host] = r /\ r \notin R => d.map[c.info[r].host] = r
    BY <2>2 DEF Drops
  <2> QED BY <2>1, <2>2, <2>3 DEF DeadBy
<1>5. SpillsOK(d, k) /\ Shared(d, k)
  BY <1>1 DEF Placed, SpillsOK, Shared
<1> QED BY <1>3, <1>4, <1>5 DEF Placed

(* And the rest of what the scan relies on does not depend on the map. *)
LEMMA DropsKeeps ==
  ASSUME NEW s, NEW N \in Nat, N = Len(s.insns), NEW c, NEW d, NEW R, Shape(c, s),
         Drops(c, d, s, R), NEW k \in 0..N
  PROVE  /\ Static(c, s) => Static(d, s)
         /\ Pending(c, k) => Pending(d, k)
         /\ Results(c, k) => Results(d, k)
         /\ SameMerges(c, d)
<1>1. /\ d.insns = c.insns /\ d.death = c.death /\ d.info = c.info /\ d.opts = c.opts
      /\ d.early = c.early /\ Shape(d, s) /\ KeepsUnit(c, d)
  BY DEF Drops, KeepsUnit, Shape
<1>2. Static(c, s) => Static(d, s)
  BY <1>1, StaticKept
<1>3. Pending(c, k) => Pending(d, k)
  BY <1>1 DEF Pending, IsPending
<1>4. Results(c, k) => Results(d, k)
  BY <1>1 DEF Results, ResultOK
<1>5. \A h \in c.early : c.map[h] = 0 => d.map[h] = 0
  BY DEF Drops, Shape
<1>6. SameMerges(c, d)
  BY <1>1, <1>5 DEF SameMerges
<1> QED BY <1>2, <1>3, <1>4, <1>6

(* An operand that dies at n leaves its register to the result. *)
Operands(c, n) == {c.insns[n].s1, c.insns[n].s2, c.insns[n].s3} \ {0}
Vacated(c, n) == \A r \in Operands(c, n) :
  c.death[r] = n /\ c.info[r].spilled = FALSE => c.map[c.info[r].host] = 0

(* After the operands that die at n are released, n may take any free register. *)
LEMMA ReleaseChanges ==
  ASSUME NEW s, NEW N \in Nat, N = Len(s.insns), NEW c, Shape(c, s), Static(c, s), Asserts(c),
         NEW n \in 1..N, Placed(c, n - 1, n - 1)
  PROVE  LET d == Release(c, n)
             R == {r \in Operands(c, n) : c.death[r] = n}
         IN  Drops(c, d, s, R) /\ Asserts(d) /\ Placed(d, n - 1, n) /\ Vacated(d, n)
<1> DEFINE R == {r \in Operands(c, n) : c.death[r] = n}
           holds == \A r \in Operands(c, n) : c.info[r].allocated
           a == Asserted(c, holds)
           d == Release(c, n)
<1>1. Operands(c, n) \subseteq {r \in 1..(n - 1) : c.insns[r].op \in Setters}
  <2>1. n \in DOMAIN c.insns
    BY DEF Shape
  <2> QED BY <2>1 DEF Static, CodeOK, InsnOK, SettersBefore, Operands
<1>2. \A r \in Operands(c, n) : c.info[r].allocated = TRUE
  BY <1>1 DEF Placed, InPlace
<1>3. /\ DOMAIN a = CtxFields /\ a.blocks = c.blocks /\ a.opts = c.opts /\ a.insns = c.insns
      /\ a.death = c.death /\ a.binfo = c.binfo /\ a.fixed = c.fixed /\ a.early = c.early
      /\ a.map = c.map /\ a.natural = c.natural /\ a.info = c.info
  BY DEF Asserted, Shape, CtxFields
<1>4. a.ok = TRUE
  BY <1>2 DEF Asserted, Shape, CtxFields, Asserts
<1>5. Shape(a, s) /\ KeepsUnit(c, a) /\ Asserts(a)
  BY <1>3, <1>4 DEF Shape, KeepsUnit, Asserts
<1>6. d = Unassign(a, R)
  BY DEF Release, Operands
<1> HIDE DEF a, d, R
<1>7. Drops(a, d, s, R) /\ Asserts(d)
  BY <1>5, <1>6, UnassignChanges
<1>8. Drops(c, d, s, R)
  BY <1>3, <1>5, <1>7 DEF Drops, KeepsUnit
<1>9. Placed(d, n - 1, n)
  <2>1. n - 1 \in 0..N /\ n - 1 \in Int /\ n \in Int /\ n - 1 <= n
    OBVIOUS
  <2>2. \A r \in 1..(n - 1) : r \in R => c.death[r] <= n
    BY DEF R
  <2>3. DeadBy(c, R, n - 1, n)
    BY <2>2 DEF DeadBy
  <2> QED BY <1>8, <2>1, <2>3, DropsPlaced
<1>10. Vacated(d, n)
  <2>0. d.insns = c.insns /\ d.death = c.death /\ d.info = c.info
    BY <1>8 DEF Drops, KeepsUnit
  <2> SUFFICES ASSUME NEW r \in Operands(c, n), c.death[r] = n, c.info[r].spilled = FALSE
               PROVE  d.map[c.info[r].host] = 0
    BY <2>0 DEF Vacated, Operands
  <2>1. r \in 1..(n - 1) /\ c.insns[r].op \in Setters /\ r \in R
    BY <1>1 DEF R
  <2>2. c.map[c.info[r].host] = r
    BY <2>1 DEF Placed, InPlace
  <2>3. c.info[r].host \in Hosts
    BY <2>1 DEF Shape
  <2> QED BY <1>8, <2>1, <2>2, <2>3 DEF Drops
<1> QED BY <1>7, <1>8, <1>9, <1>10 DEF R, d

(* While the registers of n are chosen, and when its result has got one. *)
Core(c, s, n) ==
  /\ Shape(c, s) /\ Static(c, s) /\ Asserts(c) /\ Results(c, n - 1) /\ Pending(c, n)
  /\ c.info[n].spilled = FALSE /\ c.info[n].spill_insn = 0 /\ c.info[n].temp = None
Waiting(c, s, b, n) == Core(c, s, n) /\ Placed(c, n - 1, n) /\ Promises(c, s, b, n)
Given(c, s, b, n)   == Core(c, s, n) /\ Placed(c, n, n) /\ Promises(c, s, b, n)

(* Instruction n has got register h. *)
Granted(c, d, s, b, n, h) ==
  /\ Given(d, s, b, n) /\ d.insns = c.insns /\ d.death = c.death /\ d.early = c.early
  /\ d.info[n].host = h /\ d.info[n].allocated = TRUE
  /\ \A r \in 1..(n - 1) : d.info[r].host = c.info[r].host
  /\ \A g \in Hosts : c.map[g] # 0 => d.map[g] # 0

(* When n gets a register, every value has a place and no two the same. *)
LEMMA GivesKeeps ==
  ASSUME NEW s, NEW N \in Nat, N = Len(s.insns), NEW b, NEW n \in 1..N,
         Here(s, b, n), NEW c, Waiting(c, s, b, n),
         c.insns[n].op \in Setters, NEW d, Shape(d, s), Asserts(d),
         NEW h \in Hosts, h \notin c.early, Gives(c, d, n, h)
  PROVE  Granted(c, d, s, b, n, h)
<1> DEFINE v == c.map[h]
<1>0. N \in Nat /\ n \in 1..N /\ n - 1 \in 0..N /\ InBlock(s, b) \subseteq 1..N /\ n \in Int
      /\ b \in DOMAIN s.blocks
  BY HereFacts DEF Here
<1>1. /\ Core(c, s, n) /\ Placed(c, n - 1, n) /\ Promises(c, s, b, n)
      /\ Shape(c, s) /\ Static(c, s) /\ Results(c, n - 1) /\ Pending(c, n)
      /\ c.info[n].spilled = FALSE /\ c.info[n].spill_insn = 0 /\ c.info[n].temp = None
  BY DEF Waiting, Core
<1>2. Placed(d, n, n)
  BY <1>1, GivesPlaces
<1>3. /\ d.insns = c.insns /\ d.death = c.death /\ d.early = c.early /\ d.opts = c.opts
      /\ KeepsUnit(c, d) /\ DOMAIN c.insns = 1..N /\ DOMAIN c.info = 0..N /\ DOMAIN c.map = Hosts
      /\ d.map = [c.map EXCEPT ![h] = n]
  BY <1>1 DEF Gives, KeepsUnit, Shape
<1>4. v = 0 \/ v \in 1..(n - 1)
  BY <1>1 DEF Placed, MapOK
<1>5. \A r \in 0..N : DOMAIN c.info[r] = InfoFields
  BY <1>1 DEF Shape
<1>6. \A r \in 0..N : r \notin {n, v} => d.info[r] = c.info[r]
  BY <1>3 DEF Gives
<1>7. d.info[n] = [c.info[n] EXCEPT !.allocated = TRUE, !.host = h]
  BY DEF Gives
<1>8. v # 0 => d.info[v] = [c.info[v] EXCEPT !.spilled = TRUE, !.spill_insn = n]
  BY DEF Gives
<1>9. /\ d.info[n].host = h /\ d.info[n].allocated = TRUE /\ d.info[n].spilled = FALSE
      /\ d.info[n].spill_insn = 0 /\ d.info[n].temp = None
      /\ d.info[n].merge = c.info[n].merge /\ d.info[n].host_merge = c.info[n].host_merge
  BY <1>0, <1>1, <1>5, <1>7 DEF InfoFields
<1>10. v # 0 => /\ d.info[v].host = c.info[v].host /\ d.info[v].temp = c.info[v].temp
                /\ d.info[v].merge = c.info[v].merge /\ d.info[v].host_merge = c.info[v].host_merge
  <2>1. v # 0 => DOMAIN c.info[v] = InfoFields
    BY <1>0, <1>4, <1>5
  <2> QED BY <1>8, <2>1 DEF InfoFields
<1> HIDE DEF v
<1>11. \A r \in 1..N : r # n => d.info[r].host = c.info[r].host /\ d.info[r].temp = c.info[r].temp
  <2> SUFFICES ASSUME NEW r \in 1..N, r # n
               PROVE  d.info[r].host = c.info[r].host /\ d.info[r].temp = c.info[r].temp
    OBVIOUS
  <2>1. r \in 0..N /\ r # 0
    BY <1>0
  <2>2. CASE r = v
    BY <1>10, <2>1, <2>2
  <2> QED BY <1>6, <2>1, <2>2
<1>12. \A r \in 1..N : d.info[r].merge = c.info[r].merge /\ d.info[r].host_merge = c.info[r].host_merge
  <2> SUFFICES ASSUME NEW r \in 1..N
               PROVE  d.info[r].merge = c.info[r].merge /\ d.info[r].host_merge = c.info[r].host_merge
    OBVIOUS
  <2>1. r \in 0..N /\ r # 0
    BY <1>0
  <2>2. CASE r = n
    BY <1>9, <2>2
  <2>3. CASE r = v
    BY <1>10, <2>1, <2>3
  <2> QED BY <1>6, <2>1, <2>2, <2>3
<1>13. Static(d, s)
  BY <1>1, <1>3, StaticKept
<1>14. Pending(d, n)
  <2>1. ASSUME NEW r \in 1..N, r > n PROVE IsPending(d, r)
    <3>1. d.info[r] = c.info[r] /\ IsPending(c, r)
      BY <1>0, <1>1, <1>3, <1>4, <1>6, <2>1 DEF Pending
    <3> QED BY <1>3, <3>1 DEF IsPending
  <2> QED BY <1>3, <2>1 DEF Pending
<1>15. Results(d, n - 1)
  <2>1. ASSUME NEW r \in 1..(n - 1), d.insns[r].op \in Setters PROVE ResultOK(d, r)
    <3>1. ResultOK(c, r) /\ r \in 1..N /\ r # n /\ r \in DOMAIN c.insns
      BY <1>0, <1>1, <1>3, <2>1 DEF Results
    <3>2. c.insns[r].op \in Reads => c.insns[r].s2 \in 1..N /\ c.insns[r].s2 # n
      BY <1>0, <1>1, <1>3, <2>1, <3>1 DEF Static, CodeOK, InsnOK, SettersBefore
    <3>3. CASE c.insns[r].op \in Reads
      BY <1>3, <1>11, <3>1, <3>2, <3>3 DEF ResultOK
    <3>4. CASE c.insns[r].op \notin Reads
      BY <1>3, <3>4 DEF ResultOK, Reads
    <3> QED BY <3>3, <3>4
  <2> QED BY <2>1 DEF Results
<1>16. Promises(d, s, b, n)
  <2>1. \A g \in c.early : c.map[g] = 0 => d.map[g] = 0
    <3>1. c.early \subseteq Hosts
      BY <1>1 DEF Shape
    <3> QED BY <1>3, <3>1
  <2>2. SameMerges(c, d)
    BY <1>3, <1>12, <2>1 DEF SameMerges
  <2> QED BY <1>0, <1>1, <1>3, <2>2, PromisesKept
<1>17. Core(d, s, n)
  BY <1>9, <1>13, <1>14, <1>15 DEF Core
<1>18. \A r \in 1..(n - 1) : d.info[r].host = c.info[r].host
  BY <1>0, <1>11
<1>19. \A g \in Hosts : c.map[g] # 0 => d.map[g] # 0
  BY <1>0, <1>3
<1> QED BY <1>2, <1>3, <1>9, <1>16, <1>17, <1>18, <1>19 DEF Given, Granted

(* The same, without a number for the length of the unit. *)
LEMMA GivesGrants ==
  ASSUME NEW s, NEW b, NEW n, Here(s, b, n), NEW c, Waiting(c, s, b, n),
         c.insns[n].op \in Setters, NEW d, Shape(d, s), Asserts(d),
         NEW h, h \in Hosts, h \notin c.early, Gives(c, d, n, h)
  PROVE  Granted(c, d, s, b, n, h)
<1> DEFINE N == Len(s.insns)
<1>1. N \in Nat /\ n \in 1..N
  BY HereFacts
<1> HIDE DEF N
<1> QED BY <1>1, GivesKeeps DEF N

(* cancel_early_merge() finds the promise that it cancels. *)
Cancelled(c, d, s, b, n, h) ==
  /\ Shape(d, s) /\ Steady(c, d, 0) /\ Asserts(d) /\ Promises(d, s, b, n)
  /\ d.early = c.early \ {h}

(* It takes one promise back, and leaves the others. *)
LEMMA CancelChanges ==
  ASSUME NEW s, NEW b, NEW n, Here(s, b, n), NEW c, Shape(c, s), Static(c, s), Asserts(c),
         Promises(c, s, b, n), NEW h \in c.early
  PROVE  Cancelled(c, CancelMerge(c, b, h), s, b, n, h)
<1> DEFINE P == {a \in Aliases : LET r == c.binfo[b].load[a] IN
                   r # 0 /\ c.info[r].merge /\ c.info[r].host_merge = h}
           d == CancelMerge(c, b, h)
           r == c.binfo[b].load[Least(P)]
<1>0. PICK N \in Nat : N = Len(s.insns) /\ n \in 1..N /\ InBlock(s, b) \subseteq 1..N
  BY HereFacts
<1> n \in Int /\ n > 0 /\ n <= N /\ N = Len(s.insns) /\ b \in DOMAIN s.blocks
  BY <1>0 DEF Here
<1>1. /\ DOMAIN c.insns = 1..N /\ DOMAIN c.info = 0..N /\ h \in Hosts
      /\ DOMAIN c.binfo = DOMAIN s.blocks
  BY DEF Shape
<1>p. /\ P \subseteq Aliases
      /\ \A a \in Aliases : a \in P <=> /\ c.binfo[b].load[a] # 0
                                       /\ c.info[c.binfo[b].load[a]].merge
                                       /\ c.info[c.binfo[b].load[a]].host_merge = h
  OBVIOUS
<1>d. d = LET c1 == Asserted([c EXCEPT !.early = @ \ {h}], P # {}) IN
          IF P = {} THEN c1 ELSE [c1 EXCEPT !.info[r].merge = FALSE]
  BY DEF CancelMerge
<1>r. r = c.binfo[b].load[Least(P)]
  OBVIOUS
<1> HIDE DEF P, r, d
<1>2. PICK g \in Promisees(c, s, b, n) : c.info[g].host_merge = h
  BY DEF Promises
<1>3. g \in 1..N /\ g \in InBlock(s, b) /\ c.insns[g].op = "get" /\ c.info[g].merge = TRUE
  BY <1>0, <1>2 DEF Promisees
<1>4. c.insns[g].x \in Aliases /\ c.binfo[b].load[c.insns[g].x] = g
  BY <1>1, <1>3 DEF Static, CodeOK, InsnOK, Loads
<1>5. c.insns[g].x \in P
  BY <1>2, <1>3, <1>4, <1>p
<1>6. P # {} /\ Least(P) \in P /\ Least(P) \in Aliases
  <2>1. P \subseteq Nat /\ P # {}
    <3>1. Aliases \subseteq Nat
      BY DEF Aliases
    <3> QED BY <1>5, <1>p, <3>1
  <2> QED BY <1>p, <2>1, LeastIn
<1>7. r # 0 /\ c.info[r].merge = TRUE /\ c.info[r].host_merge = h
  BY <1>6, <1>p, <1>r
<1>8. r \in InBlock(s, b) /\ r \in 1..N /\ r # 0 /\ c.insns[r].op = "get"
  BY <1>0, <1>6, <1>7, <1>r DEF Static, Loads
<1>9. r > n
  BY <1>7, <1>8 DEF Promises
<1>10. r \in Promisees(c, s, b, n)
  BY <1>7, <1>8, <1>9 DEF Promisees
<1>11. d = [Asserted([c EXCEPT !.early = @ \ {h}], P # {}) EXCEPT !.info[r].merge = FALSE]
  BY <1>6, <1>d
<1> DEFINE a == Asserted([c EXCEPT !.early = @ \ {h}], P # {})
<1>a. /\ DOMAIN a = CtxFields /\ a.blocks = c.blocks /\ a.opts = c.opts /\ a.insns = c.insns
       /\ a.death = c.death /\ a.binfo = c.binfo /\ a.fixed = c.fixed /\ a.info = c.info
       /\ a.early = c.early \ {h} /\ a.map = c.map /\ a.natural = c.natural /\ a.ok = TRUE
  BY <1>6 DEF Asserted, Shape, CtxFields, Asserts
<1> HIDE DEF a
<1>b. d = [a EXCEPT !.info[r].merge = FALSE]
  BY <1>11 DEF a
<1>12. /\ DOMAIN d = CtxFields /\ d.blocks = c.blocks /\ d.opts = c.opts /\ d.insns = c.insns
       /\ d.death = c.death /\ d.binfo = c.binfo /\ d.fixed = c.fixed
       /\ d.early = c.early \ {h} /\ d.map = c.map /\ d.natural = c.natural
       /\ DOMAIN d.info = DOMAIN c.info
       /\ d.info[r] = [c.info[r] EXCEPT !.merge = FALSE]
       /\ \A q \in DOMAIN c.info : q # r => d.info[q] = c.info[q]
  BY <1>1, <1>8, <1>a, <1>b DEF CtxFields
<1>13. d.ok = TRUE
  BY <1>a, <1>b DEF CtxFields
<1>14. DOMAIN c.info[r] = InfoFields
  BY <1>8 DEF Shape
<1>15. /\ DOMAIN d.info[r] = InfoFields /\ SamePlace(c.info[r], d.info[r])
       /\ d.info[r].merge = FALSE /\ d.info[r].host_merge = h
  BY <1>7, <1>12, <1>14 DEF InfoFields, SamePlace
<1>16. Shape(d, s)
  <2>1. ASSUME NEW q \in 0..N PROVE DOMAIN d.info[q] = InfoFields /\ d.info[q].host \in Hosts
    <3>1. q \in DOMAIN c.info /\ DOMAIN c.info[q] = InfoFields /\ c.info[q].host \in Hosts
      BY <1>1 DEF Shape
    <3> QED BY <1>12, <1>15, <3>1 DEF SamePlace
  <2> QED BY <1>12, <2>1 DEF Shape
<1>17. Steady(c, d, 0)
  <2>1. ASSUME NEW q \in DOMAIN c.insns PROVE SamePlace(c.info[q], d.info[q])
    <3>1. q \in DOMAIN c.info
      BY <1>1
    <3> QED BY <1>12, <1>15, <3>1 DEF SamePlace
  <2> QED BY <1>12, <2>1 DEF Steady, KeepsUnit
<1>18. Asserts(d)
  BY <1>12, <1>13 DEF Asserts
<1>19. Promises(d, s, b, n)
  <2>1. Promisees(d, s, b, n) = Promisees(c, s, b, n) \ {r}
    <3>1. \A q \in InBlock(s, b) : q \in DOMAIN c.info
      BY <1>0, <1>1
    <3> QED BY <1>8, <1>9, <1>12, <1>15, <3>1 DEF Promisees
  <2>2. \A q \in Promisees(d, s, b, n) : q \in Promisees(c, s, b, n) /\ d.info[q] = c.info[q]
    <3>1. \A q \in Promisees(c, s, b, n) : q \in DOMAIN c.info
      BY <1>0, <1>1 DEF Promisees
    <3> QED BY <1>12, <2>1, <3>1
  <2>3. \A f \in d.early : d.map[f] = 0 /\ \E q \in Promisees(d, s, b, n) : d.info[q].host_merge = f
    <3> SUFFICES ASSUME NEW f \in d.early
                 PROVE  d.map[f] = 0 /\ \E q \in Promisees(d, s, b, n) : d.info[q].host_merge = f
      OBVIOUS
    <3>1. f \in c.early /\ f # h /\ c.map[f] = 0
      BY <1>12 DEF Promises
    <3>2. PICK q \in Promisees(c, s, b, n) : c.info[q].host_merge = f
      BY <3>1 DEF Promises
    <3>3. q # r
      BY <1>7, <3>1, <3>2
    <3> QED BY <1>12, <2>1, <2>2, <3>1, <3>2, <3>3
  <2>4. \A q \in Promisees(d, s, b, n) : d.info[q].host_merge \in d.early
    <3> SUFFICES ASSUME NEW q \in Promisees(d, s, b, n) PROVE d.info[q].host_merge \in d.early
      OBVIOUS
    <3>1. q \in Promisees(c, s, b, n) /\ q # r /\ d.info[q] = c.info[q]
      BY <2>1, <2>2
    <3>2. c.info[q].host_merge \in c.early /\ c.info[q].host_merge # h
      BY <1>7, <1>10, <3>1 DEF Promises
    <3> QED BY <1>12, <3>1, <3>2
  <2>5. \A q, f \in Promisees(d, s, b, n) : d.info[q].host_merge = d.info[f].host_merge => q = f
    BY <2>2 DEF Promises
  <2>6. \A q \in InBlock(s, b) : q <= n /\ d.insns[q].op = "get" /\ d.info[q].merge = TRUE
                                   => d.info[q].host_merge \notin d.early
    <3> SUFFICES ASSUME NEW q \in InBlock(s, b), q <= n, d.insns[q].op = "get", d.info[q].merge = TRUE
                 PROVE  d.info[q].host_merge \notin d.early
      OBVIOUS
    <3>1. q \in DOMAIN c.info /\ q # r
      BY <1>0, <1>1, <1>8, <1>9
    <3>2. d.info[q] = c.info[q]
      BY <1>12, <3>1
    <3> QED BY <1>12, <3>2 DEF Promises
  <2>7. \A q \in DOMAIN d.insns : q > s.blocks[b].last => d.info[q].merge = FALSE
    <3> SUFFICES ASSUME NEW q \in 1..N, q > s.blocks[b].last PROVE d.info[q].merge = FALSE
      BY <1>1, <1>12
    <3>1. c.info[q].merge = FALSE /\ q \in DOMAIN c.info
      BY <1>1 DEF Promises
    <3> QED BY <1>12, <1>15, <3>1
  <2>8. \A q \in DOMAIN d.insns : d.info[q].merge \in BOOLEAN
    <3> SUFFICES ASSUME NEW q \in 1..N PROVE d.info[q].merge \in BOOLEAN
      BY <1>1, <1>12
    <3>1. c.info[q].merge \in BOOLEAN /\ q \in DOMAIN c.info
      BY <1>1 DEF Promises
    <3> QED BY <1>12, <1>15, <3>1
  <2> QED BY <2>3, <2>4, <2>5, <2>6, <2>7, <2>8 DEF Promises
<1> QED BY <1>12, <1>16, <1>17, <1>18, <1>19 DEF Cancelled, d

(************************* The working of an instruction *********************)

(* What allocate_regs_for_insn() starts its choice from, and the local variables that
   it works with: what a result may be told to avoid are the registers that
   instructions insist on, and at most one other. *)
Ready(c, s, b, n) ==
  /\ Shape(c, s) /\ Static(c, s) /\ Asserts(c) /\ Results(c, n - 1) /\ Pending(c, n - 1)
  /\ Placed(c, n - 1, n) /\ Promises(c, s, b, n - 1) /\ Vacated(c, n)

WorkFields == {"c", "usable", "fixed", "avoid", "soft", "preferred"}
Unused(c, h) == h \in Hosts /\ c.map[h] = 0
Narrow(A) == \E x : A \subseteq FixedHosts \cup {x}
Suits(c, n, h) ==
  LET op      == c.insns[n].op
      divisor == HostOf(c, c.insns[n].s2)
  IN  /\ op = "mulh" => h # AX
      /\ op = "div" => h \notin {divisor, DX}
      /\ op = "mod" => h \notin {divisor, AX}
      /\ op = "shift" => h # CX
Choosing(w, n) ==
  /\ DOMAIN w = WorkFields /\ w.c.info[n].allocated = FALSE /\ Vacated(w.c, n)
  /\ w.fixed = None \/ Unused(w.c, w.fixed)
  /\ w.preferred = None \/ (Unused(w.c, w.preferred) /\ Suits(w.c, n, w.preferred))
  /\ "FIXED_REGS" \in w.c.opts /\ w.c.insns[n].op = "shift" => CX \in w.avoid
  /\ "FIXED_REGS" \notin w.c.opts => w.fixed = None
Clean(w) == w.avoid \subseteq FixedHosts /\ ("FIXED_REGS" \notin w.c.opts => w.avoid = {})
Mergeable(w) == w.usable \subseteq {h \in Hosts : w.c.map[h] = 0 /\ h \notin w.c.early}

(* That the operands have left does not depend on what is known of n. *)
LEMMA VacatedKept ==
  ASSUME NEW s, NEW b, NEW n, Here(s, b, n), NEW c, NEW d, Shape(c, s), Static(c, s),
         NEW x \in Int, x = 0 \/ x >= n, Steady(c, d, x), Vacated(c, n)
  PROVE  Vacated(d, n)
<1>0. PICK N \in Nat : N = Len(s.insns) /\ n \in 1..N
  BY HereFacts
<1> n \in Int /\ n > 0 /\ n <= N /\ N = Len(s.insns)
  BY <1>0
<1>1. DOMAIN c.insns = 1..N /\ d.insns = c.insns /\ d.death = c.death /\ d.map = c.map
  BY DEF Shape, Steady, KeepsUnit
<1>2. Operands(c, n) \subseteq 1..(n - 1) /\ Operands(d, n) = Operands(c, n)
  BY <1>1 DEF Static, CodeOK, InsnOK, SettersBefore, Operands
<1> SUFFICES ASSUME NEW r \in Operands(d, n), d.death[r] = n, d.info[r].spilled = FALSE
             PROVE  d.map[d.info[r].host] = 0
  BY DEF Vacated
<1>3. r \in 1..N /\ r # x /\ r \in Operands(c, n)
  BY <1>2
<1>4. d.info[r].host = c.info[r].host /\ d.info[r].spilled = c.info[r].spilled
  BY <1>1, <1>3 DEF Steady, SamePlace
<1> QED BY <1>1, <1>3, <1>4 DEF Vacated

(* SteadyKeeps, at instruction n. *)
LEMMA SteadyHere ==
  ASSUME NEW s, NEW b, NEW n, Here(s, b, n), NEW c, NEW d, Shape(c, s), Shape(d, s), Static(c, s),
         NEW x, x = 0 \/ x = n, Steady(c, d, x)
  PROVE  /\ Placed(c, n - 1, n) => Placed(d, n - 1, n)
         /\ Pending(c, n) => Pending(d, n)
         /\ Results(c, n - 1) => Results(d, n - 1)
<1> DEFINE N == Len(s.insns)
           k == n - 1
<1>1. N \in Nat /\ n \in Int /\ n \in k..N /\ k \in 0..N /\ x \in Int /\ x <= n /\ (x = 0 \/ x > k)
  BY HereFacts
<1>2. CodeOK(c)
  BY DEF Static
<1> HIDE DEF N, k
<1>3. /\ \A e \in Int : Placed(c, k, e) => Placed(d, k, e)
      /\ \A m \in k..N : x <= m /\ Pending(c, m) => Pending(d, m)
      /\ CodeOK(c) /\ Results(c, k) => Results(d, k)
  BY <1>1, SteadyKeeps DEF N
<1> QED BY <1>1, <1>2, <1>3 DEF k

(* Reservations before n is looked at are those after it, and its own. *)
LEMMA PendingLater ==
  ASSUME NEW c, NEW n \in Int, Pending(c, n - 1), DOMAIN c.insns \subseteq Int
  PROVE  Pending(c, n) /\ (n \in DOMAIN c.insns => IsPending(c, n))
  BY DEF Pending

(* The choice starts with nothing given to n, its own reservation among what it may take. *)
LEMMA LocalsChanges ==
  ASSUME NEW s, NEW b, NEW n, Here(s, b, n), NEW c, Ready(c, s, b, n), NEW w, w = Locals(c, n)
  PROVE  /\ Core(w.c, s, n) /\ Placed(w.c, n - 1, n) /\ Promises(w.c, s, b, n - 1)
         /\ Choosing(w, n) /\ Mergeable(w) /\ Clean(w)
<1>0. PICK N \in Nat : N = Len(s.insns) /\ n \in 1..N
  BY HereFacts
<1> n \in Int /\ n > 0 /\ n <= N /\ N = Len(s.insns)
  BY <1>0
<1> DEFINE d == [c EXCEPT !.info[n].allocated = FALSE]
           i == c.info[n]
           fixed == IF i.allocated /\ c.map[i.host] = 0 THEN i.host ELSE None
           pending == {r \in c.fixed : n < r /\ r < c.death[n]}
           avoid == i.avoid \cup ({HostOf(c, r) : r \in pending} \ {fixed})
<1>1. /\ Shape(c, s) /\ Static(c, s) /\ Asserts(c) /\ Results(c, n - 1) /\ Pending(c, n - 1)
      /\ Placed(c, n - 1, n) /\ Promises(c, s, b, n - 1) /\ Vacated(c, n)
  BY DEF Ready
<1>2. DOMAIN c.insns = 1..N /\ DOMAIN c.info = 0..N /\ n \in 0..N /\ DOMAIN c.info[n] = InfoFields
  BY <1>1 DEF Shape
<1>3. /\ DOMAIN d = CtxFields /\ d.blocks = c.blocks /\ d.opts = c.opts /\ d.insns = c.insns
      /\ d.death = c.death /\ d.binfo = c.binfo /\ d.fixed = c.fixed
      /\ d.early = c.early /\ d.map = c.map /\ d.natural = c.natural /\ d.ok = c.ok
      /\ DOMAIN d.info = DOMAIN c.info
      /\ d.info[n] = [c.info[n] EXCEPT !.allocated = FALSE]
      /\ \A q \in DOMAIN c.info : q # n => d.info[q] = c.info[q]
  BY <1>1, <1>2 DEF Shape, CtxFields
<1>4. /\ DOMAIN w = WorkFields /\ w.c = d /\ w.fixed = fixed /\ w.avoid = avoid
      /\ w.usable = Free(c) \ (c.touched \cup c.early) /\ w.preferred = None
  BY DEF Locals, WorkFields, HostOf
<1>5. /\ DOMAIN d.info[n] = InfoFields /\ d.info[n].allocated = FALSE
      /\ d.info[n].host = c.info[n].host /\ d.info[n].spilled = c.info[n].spilled
      /\ d.info[n].spill_insn = c.info[n].spill_insn /\ d.info[n].temp = c.info[n].temp
      /\ d.info[n].merge = c.info[n].merge /\ d.info[n].host_merge = c.info[n].host_merge
  BY <1>2, <1>3 DEF InfoFields
<1>6. Pending(c, n) /\ IsPending(c, n)
  <2>1. DOMAIN c.insns \subseteq Int /\ n \in DOMAIN c.insns
    BY <1>2
  <2> QED BY <1>1, <2>1, PendingLater
<1> HIDE DEF d
<1>7. Shape(d, s) /\ Asserts(d)
  <2>1. ASSUME NEW q \in 0..N PROVE DOMAIN d.info[q] = InfoFields /\ d.info[q].host \in Hosts
    <3>1. q \in DOMAIN c.info /\ DOMAIN c.info[q] = InfoFields /\ c.info[q].host \in Hosts
      BY <1>1, <1>2 DEF Shape
    <3> QED BY <1>3, <1>5, <3>1
  <2>2. Shape(d, s)
    BY <1>1, <1>3, <2>1 DEF Shape
  <2> QED BY <1>1, <1>3, <2>2 DEF Asserts
<1>8. Steady(c, d, n)
  BY <1>2, <1>3 DEF Steady, KeepsUnit, SamePlace
<1>9. SameMerges(c, d)
  <2>1. ASSUME NEW r \in 1..N
        PROVE  d.info[r].merge = c.info[r].merge /\ d.info[r].host_merge = c.info[r].host_merge
    <3>1. r \in DOMAIN c.info
      BY <1>2
    <3> QED BY <1>3, <1>5, <3>1
  <2> QED BY <1>2, <1>3, <2>1 DEF SameMerges
<1>10. Placed(d, n - 1, n) /\ Pending(d, n) /\ Results(d, n - 1)
  BY <1>1, <1>6, <1>7, <1>8, SteadyHere
<1>11. Static(d, s)
  BY <1>1, <1>7, <1>8, StaticKept DEF Steady
<1>12. Promises(d, s, b, n - 1)
  <2>1. b \in DOMAIN s.blocks /\ InBlock(s, b) \subseteq DOMAIN c.insns
    BY <1>2, HereFacts DEF Here
  <2> QED BY <1>1, <1>9, <2>1, PromisesKept
<1>13. Vacated(d, n)
  BY <1>1, <1>8, VacatedKept
<1>14. Core(d, s, n)
  BY <1>5, <1>6, <1>7, <1>10, <1>11 DEF Core, IsPending
<1>15. fixed = None \/ Unused(d, fixed)
  <2>1. i.host \in Hosts
    BY <1>1, <1>2 DEF Shape
  <2> QED BY <1>3, <2>1 DEF Unused
<1>16. avoid \subseteq FixedHosts
  <2>1. ASSUME NEW r \in pending PROVE HostOf(c, r) \in FixedHosts
    <3>1. r \in 1..N /\ r > n
      BY <1>1, <1>2 DEF Static, FixedOK
    <3> QED BY <1>2, <1>6, <3>1 DEF Pending, IsPending, HostOf
  <2> HIDE DEF pending
  <2> QED BY <1>6, <2>1 DEF IsPending
<1>17. "FIXED_REGS" \in d.opts /\ d.insns[n].op = "shift" => CX \in avoid
  BY <1>3, <1>6 DEF IsPending
<1>18. "FIXED_REGS" \notin d.opts => fixed = None /\ avoid = {}
  <2> SUFFICES ASSUME "FIXED_REGS" \notin c.opts PROVE fixed = None /\ avoid = {}
    BY <1>3
  <2>1. c.fixed = {} /\ c.info[n].allocated = FALSE /\ c.info[n].avoid = {}
    BY <1>1, <1>6 DEF IsPending, Static, FixedOK
  <2>2. pending = {}
    BY <2>1
  <2> HIDE DEF pending
  <2> QED BY <2>1, <2>2
<1>19. Mergeable(w)
  BY <1>3, <1>4 DEF Mergeable, Free
<1> HIDE DEF fixed, avoid
<1>20. Choosing(w, n)
  BY <1>4, <1>5, <1>13, <1>15, <1>17, <1>18 DEF Choosing
<1>21. Clean(w)
  BY <1>4, <1>16, <1>18 DEF Clean
<1> QED BY <1>4, <1>10, <1>12, <1>14, <1>19, <1>20, <1>21

(* Nothing was promised to n; or what was is given up. *)
LEMMA PromisesPass ==
  ASSUME NEW s, NEW b, NEW n, Here(s, b, n), NEW c, Promises(c, s, b, n - 1),
         ~(c.insns[n].op = "get" /\ c.info[n].merge = TRUE)
  PROVE  Promises(c, s, b, n)
<1>1. n \in Int /\ n \in InBlock(s, b) /\ InBlock(s, b) \subseteq Int
  BY HereFacts DEF Here
<1>2. \A g \in InBlock(s, b) : g > n - 1 <=> g > n \/ g = n
  BY <1>1
<1>3. Promisees(c, s, b, n) = Promisees(c, s, b, n - 1)
  BY <1>1, <1>2 DEF Promisees
<1>4. \A g \in InBlock(s, b) : g <= n => g <= n - 1 \/ g = n
  BY <1>1
<1>5. \A g \in InBlock(s, b) : g <= n /\ c.insns[g].op = "get" /\ c.info[g].merge = TRUE
                                => c.info[g].host_merge \notin c.early
  BY <1>4 DEF Promises
<1> QED BY <1>3, <1>5 DEF Promises

Takes(c, d, s, n, h) ==
  /\ d.insns = c.insns /\ d.map = c.map /\ d.early = c.early \ {h}
  /\ \A r \in 1..Len(s.insns) : r # n => /\ d.info[r].merge = c.info[r].merge
                                         /\ d.info[r].host_merge = c.info[r].host_merge
  /\ d.info[n].merge = TRUE => d.info[n].host_merge = h
  /\ d.info[n].merge \in BOOLEAN

(* A promise that is kept is no longer waited for. *)
LEMMA PromisesTaken ==
  ASSUME NEW s, NEW b, NEW n, Here(s, b, n), NEW c, Promises(c, s, b, n - 1),
         DOMAIN c.insns = 1..Len(s.insns),
         c.insns[n].op = "get", c.info[n].merge = TRUE,
         NEW h, h = c.info[n].host_merge, NEW d, Takes(c, d, s, n, h)
  PROVE  Promises(d, s, b, n)
<1> DEFINE N == Len(s.insns)
<1>1. /\ n \in Int /\ n \in InBlock(s, b) /\ InBlock(s, b) \subseteq 1..N /\ N \in Nat
      /\ n <= s.blocks[b].last /\ s.blocks[b].last \in Int /\ n \in 1..N
  BY HereFacts DEF Here
<1>2. /\ d.insns = c.insns /\ d.map = c.map /\ d.early = c.early \ {h} /\ DOMAIN c.insns = 1..N
      /\ \A r \in 1..N : r # n => /\ d.info[r].merge = c.info[r].merge
                                  /\ d.info[r].host_merge = c.info[r].host_merge
      /\ d.info[n].merge = TRUE => d.info[n].host_merge = h
      /\ d.info[n].merge \in BOOLEAN
  BY DEF Takes
<1> HIDE DEF N
<1>3. \A g \in InBlock(s, b) : g > n => g > n - 1 /\ g # n /\ g \in 1..N
  BY <1>1
<1>4. n \in Promisees(c, s, b, n - 1)
  BY <1>1 DEF Promisees
<1>5. \A g \in Promisees(d, s, b, n) :
        /\ g \in Promisees(c, s, b, n - 1) /\ g # n /\ g \in 1..N
        /\ d.info[g].host_merge = c.info[g].host_merge
  BY <1>2, <1>3 DEF Promisees
<1>6. \A g \in Promisees(c, s, b, n - 1) : g # n =>
        g \in Promisees(d, s, b, n) /\ d.info[g].host_merge = c.info[g].host_merge
  <2> SUFFICES ASSUME NEW g \in Promisees(c, s, b, n - 1), g # n
               PROVE  g \in Promisees(d, s, b, n) /\ d.info[g].host_merge = c.info[g].host_merge
    OBVIOUS
  <2>1. g \in InBlock(s, b) /\ g \in 1..N /\ g > n
    BY <1>1 DEF Promisees
  <2> QED BY <1>2, <2>1 DEF Promisees
<1>7. \A f \in d.early : d.map[f] = 0 /\ \E g \in Promisees(d, s, b, n) : d.info[g].host_merge = f
  <2> SUFFICES ASSUME NEW f \in d.early
               PROVE  d.map[f] = 0 /\ \E g \in Promisees(d, s, b, n) : d.info[g].host_merge = f
    OBVIOUS
  <2>1. f \in c.early /\ f # h
    BY <1>2
  <2>2. c.map[f] = 0 /\ \E g \in Promisees(c, s, b, n - 1) : c.info[g].host_merge = f
    BY <2>1 DEF Promises
  <2> QED BY <1>2, <1>6, <2>1, <2>2
<1>8. \A g \in Promisees(d, s, b, n) : d.info[g].host_merge \in d.early
  <2> SUFFICES ASSUME NEW g \in Promisees(d, s, b, n) PROVE d.info[g].host_merge \in d.early
    OBVIOUS
  <2>1. g \in Promisees(c, s, b, n - 1) /\ g # n /\ d.info[g].host_merge = c.info[g].host_merge
    BY <1>5
  <2>2. c.info[g].host_merge \in c.early /\ c.info[g].host_merge # h
    BY <1>4, <2>1 DEF Promises
  <2> QED BY <1>2, <2>1, <2>2
<1>9. \A g, f \in Promisees(d, s, b, n) : d.info[g].host_merge = d.info[f].host_merge => g = f
  BY <1>5 DEF Promises
<1>10. \A g \in InBlock(s, b) : g <= n /\ d.insns[g].op = "get" /\ d.info[g].merge = TRUE
                                 => d.info[g].host_merge \notin d.early
  <2> SUFFICES ASSUME NEW g \in InBlock(s, b), g <= n, d.insns[g].op = "get", d.info[g].merge = TRUE
               PROVE  d.info[g].host_merge \notin d.early
    OBVIOUS
  <2>1. CASE g = n
    BY <1>2, <2>1
  <2>2. CASE g # n
    <3>1. g <= n - 1 /\ g \in 1..N
      BY <1>1, <2>2
    <3>2. c.insns[g].op = "get" /\ c.info[g].merge = TRUE /\ d.info[g].host_merge = c.info[g].host_merge
      BY <1>2, <2>2, <3>1
    <3> QED BY <1>2, <3>1, <3>2 DEF Promises
  <2> QED BY <2>1, <2>2
<1>11. \A r \in DOMAIN d.insns : r > s.blocks[b].last => d.info[r].merge = FALSE
  <2> SUFFICES ASSUME NEW r \in 1..N, r > s.blocks[b].last PROVE d.info[r].merge = FALSE
    BY <1>2
  <2>1. r # n
    BY <1>1
  <2>2. c.info[r].merge = FALSE
    BY <1>2 DEF Promises
  <2> QED BY <1>2, <2>1, <2>2
<1>12. \A r \in DOMAIN d.insns : d.info[r].merge \in BOOLEAN
  BY <1>2 DEF Promises
<1> QED BY <1>7, <1>8, <1>9, <1>10, <1>11, <1>12 DEF Promises

(* What a merge may be through. *)
MergesWell(c, n) ==
  c.info[n].merge = TRUE => Unused(c, c.info[n].host_merge) /\ c.info[n].host_merge \notin c.early

(* A promise to n is kept or given up: nothing is promised to it from here on. *)
LEMMA TakePromiseChanges ==
  ASSUME NEW s, NEW b, NEW n, Here(s, b, n), NEW w, w.c.insns[n].op = "get",
         Core(w.c, s, n), Placed(w.c, n - 1, n), Promises(w.c, s, b, n - 1),
         Choosing(w, n), Mergeable(w), w.avoid \subseteq FixedHosts,
         NEW v, v = TakePromise(w, n)
  PROVE  /\ Waiting(v.c, s, b, n) /\ Choosing(v, n) /\ Mergeable(v) /\ Narrow(v.avoid)
         /\ MergesWell(v.c, n) /\ v.c.insns = w.c.insns
<1> DEFINE N == Len(s.insns)
           c == w.c
           h == c.info[n].host_merge
           c1 == Asserted([c EXCEPT !.early = @ \ {h}], h \in c.early)
           c2 == [c1 EXCEPT !.info[n].merge = FALSE]
<1>1. /\ N \in Nat /\ n \in Int /\ n \in 1..N /\ n \in 0..N /\ n \in InBlock(s, b)
      /\ b \in DOMAIN s.blocks /\ InBlock(s, b) \subseteq 1..N
  BY HereFacts DEF Here
<1> HIDE DEF N
<1>2. /\ Shape(c, s) /\ Static(c, s) /\ Asserts(c) /\ Results(c, n - 1) /\ Pending(c, n)
      /\ c.info[n].spilled = FALSE /\ c.info[n].spill_insn = 0 /\ c.info[n].temp = None
  BY DEF Core
<1>3. DOMAIN c.insns = 1..N /\ DOMAIN c.info = 0..N /\ DOMAIN c.info[n] = InfoFields
      /\ n \in DOMAIN c.info
  BY <1>1, <1>2 DEF Shape, N
<1>4. DOMAIN w = WorkFields
  BY DEF Choosing
<1>5. Narrow(w.avoid)
  BY DEF Narrow
<1>6. CASE c.info[n].merge = FALSE
  <2>1. v = w
    BY <1>6 DEF TakePromise
  <2>2. Promises(c, s, b, n)
    BY <1>6, PromisesPass
  <2> QED BY <1>2, <1>5, <1>6, <2>1, <2>2 DEF MergesWell, Waiting
<1>7. CASE c.info[n].merge = TRUE
  <2>1. n \in Promisees(c, s, b, n - 1)
    BY <1>1, <1>7 DEF Promisees
  <2>2. h \in c.early /\ c.map[h] = 0
    BY <2>1 DEF Promises
  <2>3. h \in Hosts
    BY <1>2, <2>2 DEF Shape
  <2>4. /\ DOMAIN c1 = CtxFields /\ c1.blocks = c.blocks /\ c1.opts = c.opts /\ c1.insns = c.insns
        /\ c1.death = c.death /\ c1.binfo = c.binfo /\ c1.fixed = c.fixed /\ c1.info = c.info
        /\ c1.early = c.early \ {h} /\ c1.map = c.map /\ c1.natural = c.natural /\ c1.ok = TRUE
    BY <1>2, <2>2 DEF Asserted, Shape, CtxFields, Asserts
  <2>5. v = IF h \in c.touched THEN [w EXCEPT !.c = c2]
            ELSE [w EXCEPT !.c = c1, !.avoid = (@ \cup {h}) \ (@ \cap {h})]
    BY <1>7 DEF TakePromise
  <2> HIDE DEF c1
  <2>6. /\ DOMAIN c2 = CtxFields /\ c2.blocks = c.blocks /\ c2.opts = c.opts /\ c2.insns = c.insns
        /\ c2.death = c.death /\ c2.binfo = c.binfo /\ c2.fixed = c.fixed
        /\ c2.early = c.early \ {h} /\ c2.map = c.map /\ c2.natural = c.natural /\ c2.ok = TRUE
        /\ DOMAIN c2.info = DOMAIN c.info
        /\ c2.info[n] = [c.info[n] EXCEPT !.merge = FALSE]
        /\ \A q \in DOMAIN c.info : q # n => c2.info[q] = c.info[q]
    BY <1>3, <2>4 DEF CtxFields
  <2> HIDE DEF c2, h
  <2>7. /\ DOMAIN c2.info[n] = InfoFields /\ SamePlace(c.info[n], c2.info[n])
        /\ c2.info[n].merge = FALSE
    BY <1>3, <2>6 DEF InfoFields, SamePlace
  <2>8. \A d \in {c1, c2} : Shape(d, s) /\ Steady(c, d, 0) /\ Asserts(d) /\ Takes(c, d, s, n, h)
                             /\ SamePlace(c.info[n], d.info[n])
    <3>1. Shape(c1, s) /\ Steady(c, c1, 0) /\ Asserts(c1) /\ Takes(c, c1, s, n, h)
          /\ SamePlace(c.info[n], c1.info[n])
      <4>1. Shape(c1, s)
        BY <1>2, <2>4 DEF Shape
      <4>2. Steady(c, c1, 0) /\ Asserts(c1) /\ SamePlace(c.info[n], c1.info[n])
        BY <1>2, <2>4 DEF Steady, KeepsUnit, SamePlace, Asserts
      <4>3. Takes(c, c1, s, n, h)
        BY <1>7, <2>4 DEF Takes, h
      <4> QED BY <4>1, <4>2, <4>3
    <3>2. Shape(c2, s) /\ Steady(c, c2, 0) /\ Asserts(c2) /\ Takes(c, c2, s, n, h)
      <4>1. ASSUME NEW q \in 0..N PROVE DOMAIN c2.info[q] = InfoFields /\ c2.info[q].host \in Hosts
        <5>1. q \in DOMAIN c.info /\ DOMAIN c.info[q] = InfoFields /\ c.info[q].host \in Hosts
          BY <1>2, <1>3 DEF Shape, N
        <5> QED BY <2>6, <2>7, <5>1 DEF SamePlace
      <4>2. Shape(c2, s)
        BY <1>2, <1>3, <2>6, <4>1 DEF Shape, N
      <4>3. \A r \in DOMAIN c.insns : SamePlace(c.info[r], c2.info[r])
        <5> SUFFICES ASSUME NEW r \in 1..N PROVE SamePlace(c.info[r], c2.info[r])
          BY <1>3
        <5>1. r \in DOMAIN c.info
          BY <1>1, <1>3
        <5> QED BY <2>6, <2>7, <5>1 DEF SamePlace
      <4>4. Steady(c, c2, 0) /\ Asserts(c2)
        BY <1>2, <2>6, <4>3 DEF Steady, KeepsUnit, Asserts
      <4>5. Takes(c, c2, s, n, h)
        <5>1. \A r \in 1..N : r \in DOMAIN c.info
          BY <1>1, <1>3
        <5> QED BY <2>6, <2>7, <5>1 DEF Takes, N
      <4> QED BY <4>2, <4>4, <4>5
    <3> QED BY <2>7, <3>1, <3>2
  <2>9. \A d \in {c1, c2} : Waiting(d, s, b, n) /\ Vacated(d, n) /\ d.info[n].allocated = FALSE
    <3> SUFFICES ASSUME NEW d, d \in {c1, c2}
                 PROVE  Waiting(d, s, b, n) /\ Vacated(d, n) /\ d.info[n].allocated = FALSE
      OBVIOUS
    <3>1. Shape(d, s) /\ Steady(c, d, 0) /\ Asserts(d) /\ Takes(c, d, s, n, h)
          /\ SamePlace(c.info[n], d.info[n]) /\ KeepsUnit(c, d)
      BY <2>8 DEF Steady
    <3>2. Placed(d, n - 1, n) /\ Pending(d, n) /\ Results(d, n - 1)
      BY <1>2, <3>1, SteadyHere
    <3>3. Static(d, s)
      BY <1>2, <3>1, StaticKept
    <3>4. Promises(d, s, b, n)
      <4>1. h = c.info[n].host_merge /\ DOMAIN c.insns = 1..Len(s.insns)
        BY <1>3 DEF h, N
      <4> QED BY <1>7, <3>1, <4>1, PromisesTaken
    <3>5. Vacated(c, n) /\ c.info[n].allocated = FALSE
      BY DEF Choosing
    <3>6. Vacated(d, n)
      <4>1. 0 \in Int
        OBVIOUS
      <4> QED BY <1>2, <3>1, <3>5, <4>1, VacatedKept
    <3> QED BY <1>2, <3>1, <3>2, <3>3, <3>4, <3>5, <3>6 DEF Waiting, Core, SamePlace
  <2>10. /\ c1.map = c.map /\ c2.map = c.map /\ c1.opts = c.opts /\ c2.opts = c.opts
         /\ c1.insns = c.insns /\ c2.insns = c.insns /\ c1.early \subseteq c.early
         /\ c2.early \subseteq c.early
    BY <2>4, <2>6
  <2>11. CASE h \in c.touched
    <3>1. /\ DOMAIN v = WorkFields /\ v.c = c2 /\ v.avoid = w.avoid /\ v.usable = w.usable
          /\ v.fixed = w.fixed /\ v.preferred = w.preferred
      BY <1>4, <2>5, <2>11 DEF WorkFields
    <3>2. Waiting(c2, s, b, n) /\ Vacated(c2, n) /\ c2.info[n].allocated = FALSE
      BY <2>9
    <3>3. Choosing(v, n) /\ Mergeable(v)
      BY <2>10, <3>1, <3>2 DEF Choosing, Mergeable, Unused, Suits
    <3>4. MergesWell(c2, n)
      BY <2>7 DEF MergesWell
    <3> QED BY <1>5, <2>10, <3>1, <3>2, <3>3, <3>4
  <2>12. CASE h \notin c.touched
    <3>1. /\ DOMAIN v = WorkFields /\ v.c = c1 /\ v.avoid = (w.avoid \cup {h}) \ (w.avoid \cap {h})
          /\ v.usable = w.usable /\ v.fixed = w.fixed /\ v.preferred = w.preferred
      BY <1>4, <2>5, <2>12 DEF WorkFields
    <3>2. Waiting(c1, s, b, n) /\ Vacated(c1, n) /\ c1.info[n].allocated = FALSE
      BY <2>9
    <3>3. Choosing(v, n) /\ Mergeable(v)
      BY <2>10, <3>1, <3>2 DEF Choosing, Mergeable, Unused, Suits
    <3>4. MergesWell(c1, n)
      BY <2>2, <2>3, <2>4 DEF MergesWell, Unused, h
    <3>5. Narrow(v.avoid)
      <4>1. v.avoid \subseteq FixedHosts \cup {h}
        BY <3>1
      <4> QED BY <4>1 DEF Narrow
    <3> QED BY <2>10, <3>1, <3>2, <3>3, <3>4, <3>5
  <2> QED BY <2>11, <2>12
<1>8. c.info[n].merge \in BOOLEAN
  BY <1>1, <1>3 DEF Promises
<1> QED BY <1>6, <1>7, <1>8

(* A quiet step keeps what the choice starts from and what it leaves. *)
LEMMA QuietHere ==
  ASSUME NEW s, NEW b, NEW n, Here(s, b, n), NEW c, NEW d, Shape(c, s), Static(c, s), Asserts(c),
         Quiet(c, d, s)
  PROVE  /\ Waiting(c, s, b, n) => Waiting(d, s, b, n)
         /\ Given(c, s, b, n) => Given(d, s, b, n)
         /\ Vacated(c, n) => Vacated(d, n)
<1> DEFINE N == Len(s.insns)
<1>1. N \in Nat /\ n \in Int /\ n \in 0..N /\ 0 \in Int /\ b \in DOMAIN s.blocks /\ InBlock(s, b) \subseteq 1..N
  BY HereFacts DEF Here
<1>2. Steady(c, d, 0) /\ SameMerges(c, d) /\ Shape(d, s) /\ Asserts(d) /\ KeepsUnit(c, d) /\ d.info = c.info
  BY QuietSteady DEF Quiet
<1>3. Static(d, s)
  BY <1>2, StaticKept
<1>4. /\ Placed(c, n - 1, n) => Placed(d, n - 1, n)
      /\ Pending(c, n) => Pending(d, n)
      /\ Results(c, n - 1) => Results(d, n - 1)
  BY <1>2, SteadyHere
<1>5. Vacated(c, n) => Vacated(d, n)
  BY <1>1, <1>2, VacatedKept
<1>6. Promises(c, s, b, n) => Promises(d, s, b, n)
  <2>1. InBlock(s, b) \subseteq DOMAIN c.insns
    BY <1>1 DEF Shape
  <2> QED BY <1>1, <1>2, <2>1, PromisesKept
<1>7. Placed(c, n, n) => Placed(d, n, n)
  <2> HIDE DEF N
  <2>1. \A e \in Int : Placed(c, n, e) => Placed(d, n, e)
    BY <1>1, <1>2, SteadyKeeps DEF N
  <2> QED BY <1>1, <2>1
<1>8. Core(c, s, n) => Core(d, s, n)
  BY <1>2, <1>3, <1>4 DEF Core
<1> QED BY <1>4, <1>5, <1>6, <1>7, <1>8 DEF Waiting, Given

(* The value that the block before stores has been set, in a block of the unit. *)
LEMMA PrevFacts ==
  ASSUME NEW s, NEW b, NEW n, Here(s, b, n), NEW c, Shape(c, s), Static(c, s), NEW a \in Aliases,
         PrevStore(c, b, a) # 0
  PROVE  /\ PrevStore(c, b, a) \in 1..(n - 1) /\ c.insns[PrevStore(c, b, a)].op \in Setters
         /\ PrevOf(c, b) \in DOMAIN c.binfo
<1> DEFINE p == PrevOf(c, b)
<1>1. c.blocks = s.blocks /\ DOMAIN c.binfo = DOMAIN s.blocks
  BY DEF Shape
<1>2. p # None /\ PrevStore(c, b, a) = c.binfo[p].store[a]
  BY DEF PrevStore
<1>3. Before(c, b) # {}
  BY <1>2 DEF PrevOf
<1>4. DOMAIN s.blocks \subseteq Nat /\ b \in DOMAIN s.blocks
  BY DEF Here, IsSkeleton, IsBlocks
<1>5. Before(c, b) \subseteq DOMAIN s.blocks /\ \A q \in Before(c, b) : q < b
  BY <1>1 DEF Before
<1>6. p \in Before(c, b)
  <2>1. Before(c, b) \subseteq Nat /\ b \in Nat /\ \A q \in Before(c, b) : q <= b
    BY <1>4, <1>5
  <2>2. Latest(Before(c, b)) \in Before(c, b)
    BY <1>3, <2>1, LatestIn
  <2> QED BY <1>3, <2>2 DEF PrevOf
<1> HIDE DEF p
<1>7. s.blocks[p].last < s.blocks[b].first
  BY <1>4, <1>5, <1>6 DEF Here, IsSkeleton, IsBlocks
<1>8. c.binfo[p].store[a] \in 1..s.blocks[p].last /\ c.insns[c.binfo[p].store[a]].op \in Setters
  BY <1>2, <1>5, <1>6 DEF Static, Stores
<1>9. s.blocks[b].first <= n /\ n \in Int /\ s.blocks[b].first \in Int /\ s.blocks[p].last \in Int
  BY <1>5, <1>6, HereFacts, BlockFacts DEF Here
<1> QED BY <1>1, <1>2, <1>5, <1>6, <1>7, <1>8, <1>9 DEF p

(* A GET_ALIAS is merged through a register that nobody has or was promised. *)
LEMMA MergeHostUnused ==
  ASSUME NEW s, NEW b, NEW n, Here(s, b, n), NEW w, Shape(w.c, s), Mergeable(w), MergesWell(w.c, n),
         NEW h, h = MergeHost(w, b, n), h # None
  PROVE  Unused(w.c, h) /\ h \notin w.c.early
<1> DEFINE c        == w.c
           a        == c.insns[n].x
           prev     == PrevStore(c, b, a)
           promised == c.info[n].merge
           entries  == c.blocks[b].entries
           store(k) == c.binfo[entries[k]].store[a]
           stores   == {k \in DOMAIN entries : entries[k] # b - 1 /\ store(k) # 0}
           usable(r) == c.info[r].allocated /\ HostOf(c, r) \in w.usable
           others   == {k \in stores : usable(store(k))}
           wanted   == ~promised /\ (prev # 0 \/ stores # {})
           G == Get(w.usable \ (w.avoid \cup c.early))
<1>1. \A g \in w.usable : g \in Hosts /\ Unused(c, g) /\ g \notin c.early
  BY DEF Mergeable, Unused
<1>2. DOMAIN entries \subseteq Nat
  BY DEF Shape, Here, IsSkeleton, IsBlocks
<1>3. others # {} => HostOf(c, store(Least(others))) \in w.usable
  <2>1. others \subseteq DOMAIN entries
    OBVIOUS
  <2>2. \A k \in others : HostOf(c, store(k)) \in w.usable
    OBVIOUS
  <2> HIDE DEF others, entries, store
  <2>3. others # {} => Least(others) \in others
    BY <1>2, <2>1, LeastIn
  <2> QED BY <2>2, <2>3
<1>4. G = None \/ G \in w.usable
  <2>1. w.usable \ (w.avoid \cup c.early) \subseteq Hosts
    BY <1>1
  <2> QED BY <2>1, GetIn
<1>5. h = IF wanted /\ w.fixed \in w.usable THEN w.fixed
          ELSE IF promised THEN c.info[n].host_merge
          ELSE IF prev # 0 /\ HostOf(c, prev) \in w.usable THEN HostOf(c, prev)
          ELSE IF others # {} THEN HostOf(c, store(Least(others)))
          ELSE IF wanted THEN G ELSE None
  BY DEF MergeHost
<1> HIDE DEF wanted, prev, others, store, G
<1>6. CASE h \in w.usable
  BY <1>1, <1>6
<1>7. CASE promised /\ h = c.info[n].host_merge
  BY <1>7 DEF MergesWell
<1> QED BY <1>3, <1>4, <1>5, <1>6, <1>7

(* What the choice of a register leaves: one that has been given, or more choices. *)
Choosable(w, s, b, n) == Waiting(w.c, s, b, n) /\ Choosing(w, n) /\ Narrow(w.avoid)
Chosen(w, s, b, n)    == Given(w.c, s, b, n) \/ Choosable(w, s, b, n)

Marked(c, d, s, b, n) ==
  /\ Waiting(d, s, b, n) /\ Vacated(d, n) /\ d.info[n].allocated = FALSE
  /\ d.early = c.early /\ d.map = c.map /\ d.insns = c.insns /\ d.opts = c.opts

(* To record the merge of n is no change of anyone's place. *)
LEMMA MarkChanges ==
  ASSUME NEW s, NEW b, NEW n, Here(s, b, n), NEW c, Waiting(c, s, b, n), Vacated(c, n),
         c.info[n].allocated = FALSE, NEW h, h \notin c.early,
         NEW e, e = [c EXCEPT !.info[n].merge = TRUE, !.info[n].host_merge = h]
  PROVE  Marked(c, e, s, b, n)
<1> SUFFICES ASSUME NEW d, d = e
             PROVE  /\ Waiting(d, s, b, n) /\ Vacated(d, n) /\ d.info[n].allocated = FALSE
                    /\ d.early = c.early /\ d.map = c.map /\ d.insns = c.insns /\ d.opts = c.opts
  BY DEF Marked
<1> DEFINE N == Len(s.insns)
<1>1. /\ N \in Nat /\ n \in Int /\ n \in 1..N /\ n \in 0..N /\ n \in InBlock(s, b)
      /\ b \in DOMAIN s.blocks /\ InBlock(s, b) \subseteq 1..N /\ n <= s.blocks[b].last
      /\ s.blocks[b].last \in Int
  BY HereFacts DEF Here
<1> HIDE DEF N
<1>2. /\ Shape(c, s) /\ Static(c, s) /\ Asserts(c) /\ Results(c, n - 1) /\ Pending(c, n)
      /\ c.info[n].spilled = FALSE /\ c.info[n].spill_insn = 0 /\ c.info[n].temp = None
      /\ Placed(c, n - 1, n) /\ Promises(c, s, b, n)
  BY DEF Waiting, Core
<1>3. DOMAIN c.insns = 1..N /\ DOMAIN c.info = 0..N /\ DOMAIN c.info[n] = InfoFields
      /\ n \in DOMAIN c.info
  BY <1>1, <1>2 DEF Shape, N
<1>4. /\ DOMAIN d = CtxFields /\ d.blocks = c.blocks /\ d.opts = c.opts /\ d.insns = c.insns
      /\ d.death = c.death /\ d.binfo = c.binfo /\ d.fixed = c.fixed
      /\ d.early = c.early /\ d.map = c.map /\ d.natural = c.natural /\ d.ok = c.ok
      /\ DOMAIN d.info = DOMAIN c.info
      /\ \A q \in DOMAIN c.info : q # n => d.info[q] = c.info[q]
  BY <1>2, <1>3 DEF Shape, CtxFields
<1>5. d.info[n] = [c.info[n] EXCEPT !.merge = TRUE, !.host_merge = h]
  BY <1>2, <1>3 DEF Shape, CtxFields, InfoFields
<1>6. /\ DOMAIN d.info[n] = InfoFields /\ SamePlace(c.info[n], d.info[n])
      /\ d.info[n].merge = TRUE /\ d.info[n].host_merge = h
  <2>1. DOMAIN c.info[n] = InfoFields
    BY <1>3
  <2>2. ASSUME NEW i, NEW j, DOMAIN i = InfoFields, j = [i EXCEPT !.merge = TRUE, !.host_merge = h]
        PROVE  DOMAIN j = InfoFields /\ SamePlace(i, j) /\ j.merge = TRUE /\ j.host_merge = h
    BY <2>2 DEF InfoFields, SamePlace
  <2> QED BY <1>5, <2>1, <2>2
<1>7. Shape(d, s)
  <2>1. ASSUME NEW q \in 0..N PROVE DOMAIN d.info[q] = InfoFields /\ d.info[q].host \in Hosts
    <3>1. q \in DOMAIN c.info /\ DOMAIN c.info[q] = InfoFields /\ c.info[q].host \in Hosts
      BY <1>2, <1>3 DEF Shape, N
    <3> QED BY <1>4, <1>6, <3>1 DEF SamePlace
  <2> QED BY <1>2, <1>3, <1>4, <2>1 DEF Shape, N
<1>8. Steady(c, d, 0) /\ KeepsUnit(c, d)
  <2>1. \A r \in DOMAIN c.insns : SamePlace(c.info[r], d.info[r])
    <3> SUFFICES ASSUME NEW r \in 1..N PROVE SamePlace(c.info[r], d.info[r])
      BY <1>3
    <3>1. r \in DOMAIN c.info
      BY <1>1, <1>3
    <3> QED BY <1>4, <1>6, <3>1 DEF SamePlace
  <2> QED BY <1>4, <2>1 DEF Steady, KeepsUnit
<1>9. Placed(d, n - 1, n) /\ Pending(d, n) /\ Results(d, n - 1)
  BY <1>2, <1>7, <1>8, SteadyHere
<1>10. Static(d, s)
  BY <1>2, <1>7, <1>8, StaticKept
<1>11. Vacated(d, n)
  <2>1. 0 \in Int
    OBVIOUS
  <2> QED BY <1>2, <1>8, <2>1, VacatedKept
<1>12. Promises(d, s, b, n)
  <2>1. \A g \in InBlock(s, b) : g \in DOMAIN c.info /\ (g # n => d.info[g] = c.info[g])
    BY <1>1, <1>3, <1>4
  <2>2. ~(n > n)
    BY <1>1
  <2>3. Promisees(d, s, b, n) = Promisees(c, s, b, n)
    BY <1>4, <2>1, <2>2 DEF Promisees
  <2>4. \A g \in Promisees(c, s, b, n) : d.info[g] = c.info[g]
    BY <2>1, <2>2 DEF Promisees
  <2>5. \A g \in InBlock(s, b) : g <= n /\ d.insns[g].op = "get" /\ d.info[g].merge = TRUE
                                   => d.info[g].host_merge \notin d.early
    <3> SUFFICES ASSUME NEW g \in InBlock(s, b), g <= n, d.insns[g].op = "get", d.info[g].merge = TRUE
                 PROVE  d.info[g].host_merge \notin d.early
      OBVIOUS
    <3>1. CASE g = n
      BY <1>4, <1>6, <3>1
    <3>2. CASE g # n
      BY <1>2, <1>4, <2>1, <3>2 DEF Promises
    <3> QED BY <3>1, <3>2
  <2>6. \A r \in DOMAIN d.insns : /\ r > s.blocks[b].last => d.info[r].merge = FALSE
                                  /\ d.info[r].merge \in BOOLEAN
    <3> SUFFICES ASSUME NEW r \in 1..N
                 PROVE  (r > s.blocks[b].last => d.info[r].merge = FALSE) /\ d.info[r].merge \in BOOLEAN
      BY <1>3, <1>4
    <3>1. r \in DOMAIN c.info /\ (r > s.blocks[b].last => r # n)
      BY <1>1, <1>3
    <3>2. (r > s.blocks[b].last => c.info[r].merge = FALSE) /\ c.info[r].merge \in BOOLEAN
      BY <1>2, <1>3 DEF Promises
    <3> QED BY <1>4, <1>6, <3>1, <3>2
  <2>7. /\ \A f \in d.early : d.map[f] = 0 /\ \E g \in Promisees(d, s, b, n) : d.info[g].host_merge = f
        /\ \A g \in Promisees(d, s, b, n) : d.info[g].host_merge \in d.early
        /\ \A g, f \in Promisees(d, s, b, n) : d.info[g].host_merge = d.info[f].host_merge => g = f
    <3>1. /\ \A f \in c.early : c.map[f] = 0 /\ \E g \in Promisees(c, s, b, n) : c.info[g].host_merge = f
          /\ \A g \in Promisees(c, s, b, n) : c.info[g].host_merge \in c.early
          /\ \A g, f \in Promisees(c, s, b, n) : c.info[g].host_merge = c.info[f].host_merge => g = f
      BY <1>2 DEF Promises
    <3>2. \A f \in d.early : d.map[f] = 0 /\ \E g \in Promisees(d, s, b, n) : d.info[g].host_merge = f
      <4> SUFFICES ASSUME NEW f \in d.early
                   PROVE  d.map[f] = 0 /\ \E g \in Promisees(d, s, b, n) : d.info[g].host_merge = f
        OBVIOUS
      <4>0. f \in c.early /\ d.map[f] = c.map[f]
        BY <1>4
      <4>1. c.map[f] = 0 /\ \E g \in Promisees(c, s, b, n) : c.info[g].host_merge = f
        BY <3>1, <4>0
      <4>2. PICK g \in Promisees(c, s, b, n) : c.info[g].host_merge = f
        BY <4>1
      <4>3. g \in Promisees(d, s, b, n) /\ d.info[g].host_merge = f
        BY <2>3, <2>4, <4>2
      <4> QED BY <4>0, <4>1, <4>3
    <3>3. \A g \in Promisees(d, s, b, n) : d.info[g].host_merge \in d.early
      BY <1>4, <2>3, <2>4, <3>1
    <3>4. \A g, f \in Promisees(d, s, b, n) : d.info[g].host_merge = d.info[f].host_merge => g = f
      BY <2>3, <2>4, <3>1
    <3> QED BY <3>2, <3>3, <3>4
  <2> QED BY <2>5, <2>6, <2>7 DEF Promises
<1>13. Asserts(d)
  BY <1>2, <1>4 DEF Asserts
<1> QED BY <1>2, <1>4, <1>6, <1>7, <1>9, <1>10, <1>11, <1>12, <1>13 DEF Waiting, Core, SamePlace

(* The value that the block before stores has a register: hold_at_end's assertion holds,
   and nothing else changes. *)
LEMMA HoldChanges ==
  ASSUME NEW s, NEW b, NEW n, Here(s, b, n), NEW c, Shape(c, s), Static(c, s), Asserts(c),
         NEW a \in Aliases, NEW r, r = PrevStore(c, b, a), r # 0,
         Placed(c, n - 1, n) \/ Placed(c, n, n)
  PROVE  Quiet(c, HoldAtEnd(c, b, r), s)
<1> DEFINE p == PrevOf(c, b)
           x == HostOf(c, r)
           c1 == Asserted(c, c.info[r].allocated)
           d == HoldAtEnd(c, b, r)
<1>1. r \in 1..(n - 1) /\ r \in 1..n /\ c.insns[r].op \in Setters /\ p \in DOMAIN c.binfo
  BY PrevFacts, HereFacts
<1>2. c.info[r].allocated = TRUE
  BY <1>1 DEF Placed, InPlace
<1>3. /\ DOMAIN c1 = CtxFields /\ c1.blocks = c.blocks /\ c1.opts = c.opts /\ c1.insns = c.insns
      /\ c1.death = c.death /\ c1.binfo = c.binfo /\ c1.fixed = c.fixed /\ c1.early = c.early
      /\ c1.map = c.map /\ c1.natural = c.natural /\ c1.info = c.info /\ c1.ok = TRUE
  BY <1>2 DEF Asserted, Shape, CtxFields, Asserts
<1>4. d = [c1 EXCEPT !.binfo[p].end_live = @ \cup {x}]
  BY DEF HoldAtEnd
<1> HIDE DEF c1, d, x, p
<1>5. /\ DOMAIN d = CtxFields /\ d.blocks = c.blocks /\ d.opts = c.opts /\ d.insns = c.insns
      /\ d.death = c.death /\ d.fixed = c.fixed /\ d.early = c.early
      /\ d.map = c.map /\ d.natural = c.natural /\ d.info = c.info /\ d.ok = TRUE
      /\ DOMAIN d.binfo = DOMAIN c.binfo
      /\ d.binfo[p] = [c.binfo[p] EXCEPT !.end_live = @ \cup {x}]
      /\ \A q \in DOMAIN c.binfo : q # p => d.binfo[q] = c.binfo[q]
  BY <1>1, <1>3, <1>4 DEF CtxFields
<1>6. DOMAIN c.binfo[p] = BlockFields
  BY <1>1 DEF Shape
<1>7. /\ DOMAIN d.binfo[p] = BlockFields /\ d.binfo[p].load = c.binfo[p].load
      /\ d.binfo[p].store = c.binfo[p].store
  BY <1>5, <1>6 DEF BlockFields
<1>8. ASSUME NEW q \in DOMAIN c.binfo
      PROVE  /\ DOMAIN d.binfo[q] = BlockFields /\ d.binfo[q].load = c.binfo[q].load
             /\ d.binfo[q].store = c.binfo[q].store
  <2>1. DOMAIN c.binfo[q] = BlockFields
    BY DEF Shape
  <2> QED BY <1>5, <1>7, <2>1
<1>9. Shape(d, s)
  BY <1>5, <1>8 DEF Shape
<1>10. KeepsUnit(c, d) /\ Asserts(d)
  BY <1>5, <1>8 DEF KeepsUnit, Asserts
<1> QED BY <1>5, <1>9, <1>10 DEF Quiet, d

(* What calls save has no part in the allocation. *)
LEMMA SaveChanges ==
  ASSUME NEW s, NEW c, Shape(c, s), NEW saved,
         NEW d, d = [c EXCEPT !.save = saved]
  PROVE  Quiet(c, d, s)
<1>1. /\ DOMAIN d = CtxFields /\ d.blocks = c.blocks /\ d.opts = c.opts /\ d.insns = c.insns
      /\ d.death = c.death /\ d.binfo = c.binfo /\ d.fixed = c.fixed /\ d.early = c.early
      /\ d.map = c.map /\ d.natural = c.natural /\ d.info = c.info /\ d.ok = c.ok
  BY DEF Shape, CtxFields
<1> QED BY <1>1 DEF Quiet, Shape, KeepsUnit, Asserts

(* The merge gives n a register, or leaves the choice of one as it was. *)
LEMMA MergeThroughChanges ==
  ASSUME NEW s, NEW b, NEW n, Here(s, b, n), NEW w, w.c.insns[n].op = "get", Choosable(w, s, b, n),
         NEW h, Unused(w.c, h), h \notin w.c.early, NEW v, v = MergeThrough(w, b, n, h)
  PROVE  Chosen(v, s, b, n) /\ v.c.insns = w.c.insns
<1> DEFINE a       == w.c.insns[n].x
           prev    == PrevStore(w.c, b, a)
           stays   == w.fixed \in {None, h}
           crossed == IF w.c.transparent /\ h \in CallerSaved
                      THEN {m \in w.c.blocks[b].first..(n - 1) : w.c.insns[m].op = "call_transparent"}
                      ELSE {}
           c1 == [w.c EXCEPT !.info[n].merge = TRUE, !.info[n].host_merge = h]
           c2 == IF stays THEN Assign(c1, n, h) ELSE Touch(c1, {h})
           c3 == IF prev = 0 THEN c2 ELSE HoldAtEnd(c2, b, prev)
           c4 == [c3 EXCEPT !.save = [m \in DOMAIN @ |-> IF m \in crossed THEN @[m] \cup {h} ELSE @[m]]]
           saved == [m \in DOMAIN c3.save |-> IF m \in crossed THEN c3.save[m] \cup {h} ELSE c3.save[m]]
<1>1. v = [w EXCEPT !.c = c4]
  BY DEF MergeThrough
<1>2. c4 = [c3 EXCEPT !.save = saved]
  OBVIOUS
<1>3. /\ Waiting(w.c, s, b, n) /\ Choosing(w, n) /\ Narrow(w.avoid) /\ Vacated(w.c, n)
      /\ w.c.info[n].allocated = FALSE /\ DOMAIN w = WorkFields /\ h \in Hosts /\ w.c.map[h] = 0
  BY DEF Choosable, Choosing, Unused
<1>4. /\ DOMAIN v = WorkFields /\ v.c = c4 /\ v.avoid = w.avoid /\ v.usable = w.usable
      /\ v.fixed = w.fixed /\ v.preferred = w.preferred
  BY <1>1, <1>3 DEF WorkFields
<1> HIDE DEF crossed, saved, c4
<1>m. Marked(w.c, c1, s, b, n)
  <2>1. \A e : e = [w.c EXCEPT !.info[n].merge = TRUE, !.info[n].host_merge = h] => Marked(w.c, e, s, b, n)
    BY <1>3, MarkChanges
  <2> QED BY <2>1
<1>5. /\ Waiting(c1, s, b, n) /\ Vacated(c1, n) /\ c1.info[n].allocated = FALSE
      /\ c1.early = w.c.early /\ c1.map = w.c.map /\ c1.insns = w.c.insns /\ c1.opts = w.c.opts
  BY <1>m DEF Marked
<1> HIDE DEF c1
<1>6. Shape(c1, s) /\ Static(c1, s) /\ Asserts(c1)
  BY <1>5 DEF Waiting, Core
<1>7. n \in 1..Len(s.insns) /\ n \in Int
  BY HereFacts
<1>8. a \in Aliases
  <2>1. n \in DOMAIN c1.insns
    BY <1>6, <1>7 DEF Shape
  <2> QED BY <1>5, <1>6, <2>1 DEF Static, CodeOK, InsnOK
<1>9. prev # 0 => prev = PrevStore(c1, b, a)
  <2>1. c1.blocks = w.c.blocks /\ \A p \in DOMAIN w.c.binfo : c1.binfo[p].store = w.c.binfo[p].store
    BY <1>3 DEF Waiting, Core, Shape, CtxFields, c1
  <2>2. c1.binfo = w.c.binfo
    BY <1>3 DEF Waiting, Core, Shape, CtxFields, c1
  <2> QED BY <2>1, <2>2 DEF PrevStore, PrevOf, Before
<1>10. ASSUME NEW c, Shape(c, s), Static(c, s), Asserts(c), KeepsUnit(c1, c),
              Waiting(c, s, b, n) \/ Given(c, s, b, n), c2 = c
       PROVE  Quiet(c, c3, s)
  <2>1. CASE prev = 0
    <3>1. Quiet(c, c, s)
      BY <1>10 DEF Quiet, KeepsUnit
    <3> QED BY <1>10, <2>1, <3>1
  <2>2. CASE prev # 0
    <3>1. c.blocks = c1.blocks /\ DOMAIN c1.binfo = DOMAIN s.blocks
      BY <1>6, <1>10 DEF Shape
    <3>2. PrevOf(c, b) = PrevOf(c1, b)
      BY <3>1 DEF PrevOf, Before
    <3>3. PrevStore(c1, b, a) # 0
      BY <1>9, <2>2
    <3>4. PrevOf(c1, b) \in DOMAIN c1.binfo
      BY <1>6, <1>8, <3>3, PrevFacts
    <3>5. c.binfo[PrevOf(c1, b)].store = c1.binfo[PrevOf(c1, b)].store
      BY <1>10, <3>4 DEF KeepsUnit
    <3>6. prev = PrevStore(c, b, a)
      BY <1>9, <2>2, <3>1, <3>2, <3>5 DEF PrevStore
    <3>7. Placed(c, n - 1, n) \/ Placed(c, n, n)
      BY <1>10 DEF Waiting, Given
    <3> HIDE DEF prev
    <3>8. Quiet(c, HoldAtEnd(c, b, prev), s)
      BY <1>8, <1>10, <2>2, <3>6, <3>7, HoldChanges
    <3> QED BY <1>10, <2>2, <3>8
  <2> QED BY <2>1, <2>2
<1> DEFINE d == c2
<1>11. CASE stays
  <2>1. c2 = Assign(c1, n, h)
    BY <1>11
  <2>2. c1.map[h] = 0 /\ h \notin c1.early
    BY <1>3, <1>5
  <2>3. Shape(c2, s) /\ Gives(c1, c2, n, h) /\ Asserts(c2)
    BY <1>3, <1>6, <1>7, <2>1, <2>2, AssignChanges
  <2> HIDE DEF c2, c3, a, prev
  <2>4. c1.insns[n].op \in Setters
    BY <1>5 DEF Setters
  <2>5. Given(c2, s, b, n) /\ c2.insns = c1.insns
    <3>1. Granted(c1, c2, s, b, n, h)
      BY <1>3, <1>5, <2>2, <2>3, <2>4, GivesGrants
    <3> QED BY <3>1 DEF Granted
  <2>6. Static(c2, s) /\ KeepsUnit(c1, c2)
    BY <2>3, <2>5 DEF Given, Core, Gives
  <2>7. Quiet(c2, c3, s)
    BY <1>10, <2>3, <2>5, <2>6
  <2>8. Given(c3, s, b, n)
    BY <2>3, <2>5, <2>6, <2>7, QuietHere
  <2>9. Shape(c3, s) /\ Static(c3, s) /\ Asserts(c3)
    BY <2>8 DEF Given, Core
  <2>10. Quiet(c3, c4, s)
    BY <1>2, <2>9, SaveChanges
  <2>11. Given(c4, s, b, n)
    BY <2>8, <2>9, <2>10, QuietHere
  <2>12. c4.insns = w.c.insns
    BY <1>5, <2>5, <2>7, <2>10 DEF Quiet, KeepsUnit
  <2> QED BY <1>4, <2>11, <2>12 DEF Chosen
<1>12. CASE ~stays
  <2>1. c2 = Touch(c1, {h})
    BY <1>12
  <2>2. Quiet(c1, c2, s)
    BY <1>6, <2>1, TouchChanges
  <2> HIDE DEF c2, c3, a, prev
  <2>3. Waiting(c2, s, b, n) /\ Vacated(c2, n)
    BY <1>5, <1>6, <2>2, QuietHere
  <2>4. Shape(c2, s) /\ Static(c2, s) /\ Asserts(c2) /\ KeepsUnit(c1, c2)
    BY <2>2, <2>3 DEF Waiting, Core, Quiet
  <2>5. Quiet(c2, c3, s)
    BY <1>10, <2>3, <2>4
  <2>6. Waiting(c3, s, b, n) /\ Vacated(c3, n)
    BY <2>3, <2>4, <2>5, QuietHere
  <2>7. Shape(c3, s) /\ Static(c3, s) /\ Asserts(c3)
    BY <2>6 DEF Waiting, Core
  <2>8. Quiet(c3, c4, s)
    BY <1>2, <2>7, SaveChanges
  <2>9. Waiting(c4, s, b, n) /\ Vacated(c4, n)
    BY <2>6, <2>7, <2>8, QuietHere
  <2>10. /\ c4.insns = w.c.insns /\ c4.map = w.c.map /\ c4.info = c1.info /\ c4.opts = w.c.opts
    <3>1. c4.opts = s.opts /\ w.c.opts = s.opts
      BY <1>3, <2>9 DEF Waiting, Core, Shape
    <3> QED BY <1>5, <2>2, <2>5, <2>8, <3>1 DEF Quiet, KeepsUnit
  <2>11. Choosing(v, n)
    BY <1>3, <1>4, <1>5, <2>9, <2>10 DEF Choosing, Unused, Suits
  <2> QED BY <1>3, <1>4, <2>9, <2>10, <2>11 DEF Chosen, Choosable
<1> QED BY <1>11, <1>12

(* So with any GET_ALIAS; other instructions have nothing to merge. *)
LEMMA MergeAliasChanges ==
  ASSUME NEW s, NEW b, NEW n, Here(s, b, n), NEW c, Ready(c, s, b, n),
         NEW v, v = MergeAlias(Locals(c, n), b, n)
  PROVE  /\ Chosen(v, s, b, n) /\ v.c.insns = c.insns
         /\ c.insns[n].op # "get" => Choosable(v, s, b, n) /\ Clean(v)
<1> DEFINE w == Locals(c, n)
           u == TakePromise(w, n)
<1>1. /\ Core(w.c, s, n) /\ Placed(w.c, n - 1, n) /\ Promises(w.c, s, b, n - 1)
      /\ Choosing(w, n) /\ Mergeable(w) /\ w.avoid \subseteq FixedHosts /\ Clean(w)
  BY LocalsChanges DEF Clean
<1>2. w.c.insns = c.insns
  BY DEF Locals, Ready, Shape, CtxFields
<1> HIDE DEF w
<1>3. Narrow(w.avoid)
  BY <1>1 DEF Narrow
<1>4. CASE c.insns[n].op # "get"
  <2>1. v = w
    BY <1>2, <1>4 DEF MergeAlias, w
  <2>2. Promises(w.c, s, b, n)
    BY <1>1, <1>2, <1>4, PromisesPass
  <2> QED BY <1>1, <1>2, <1>3, <2>1, <2>2 DEF Chosen, Choosable, Waiting
<1>5. CASE c.insns[n].op = "get"
  <2>1. v = MergePromised(u, b, n)
    BY <1>2, <1>5 DEF MergeAlias, w
  <2>2. /\ Waiting(u.c, s, b, n) /\ Choosing(u, n) /\ Mergeable(u) /\ Narrow(u.avoid)
        /\ MergesWell(u.c, n) /\ u.c.insns = w.c.insns
    BY <1>1, <1>2, <1>5, TakePromiseChanges
  <2>3. Choosable(u, s, b, n) /\ Shape(u.c, s) /\ u.c.insns[n].op = "get"
    BY <1>2, <1>5, <2>2 DEF Choosable, Waiting, Core
  <2> HIDE DEF u
  <2> DEFINE h == MergeHost(u, b, n)
  <2>4. v = IF h = None THEN u ELSE MergeThrough(u, b, n, h)
    BY <2>1 DEF MergePromised, MergeIfAny
  <2> HIDE DEF h
  <2>5. CASE h = None
    BY <1>2, <1>5, <2>2, <2>3, <2>4, <2>5 DEF Chosen
  <2>6. CASE h # None
    <3>1. Unused(u.c, h) /\ h \notin u.c.early
      BY <2>2, <2>3, <2>6, MergeHostUnused DEF h
    <3>2. Chosen(v, s, b, n) /\ v.c.insns = u.c.insns
      BY <2>3, <2>4, <2>6, <3>1, MergeThroughChanges
    <3> QED BY <1>2, <1>5, <2>2, <3>2
  <2> QED BY <2>5, <2>6
<1> QED BY <1>4, <1>5

(* What an instruction insists on is among what it avoids. *)
Barred(w, n) ==
  LET op == w.c.insns[n].op IN
  /\ op = "mulh" => AX \in w.avoid /\ (DX \in w.avoid \/ w.c.map[DX] # 0)
  /\ op \in {"div", "mod"} => {AX, DX, HostOf(w.c, w.c.insns[n].s2)} \subseteq w.avoid

(* More registers to avoid, if they are a fixed one or that of one operand. *)
LEMMA NarrowMore ==
  ASSUME NEW A, NEW B, A \subseteq FixedHosts, NEW x, B \subseteq FixedHosts \cup {x}
  PROVE  Narrow(A \cup B)
<1>1. A \cup B \subseteq FixedHosts \cup {x}
  OBVIOUS
<1> QED BY <1>1 DEF Narrow

(* The context is the same, and so are the other choices. *)
SameChoice(w, v) ==
  /\ DOMAIN v = WorkFields /\ v.c = w.c /\ v.fixed = w.fixed

(* To avoid more registers changes nothing else. *)
LEMMA AvoidingChanges ==
  ASSUME NEW s, NEW b, NEW n, NEW w, Choosable(w, s, b, n), NEW H0, Narrow(w.avoid \cup H0),
         NEW v, v = Avoiding(w, H0)
  PROVE  Choosable(v, s, b, n) /\ SameChoice(w, v) /\ v.avoid = w.avoid \cup H0
         /\ v.preferred = w.preferred
<1>1. DOMAIN w = WorkFields
  BY DEF Choosable, Choosing
<1>2. /\ DOMAIN v = WorkFields /\ v.c = w.c /\ v.fixed = w.fixed /\ v.preferred = w.preferred
      /\ v.avoid = w.avoid \cup H0
  BY <1>1 DEF Avoiding, WorkFields
<1> QED BY <1>2 DEF Choosable, Choosing, SameChoice

(* To prefer a register that is free and will do is a choice that can be made. *)
LEMMA PreferredChanges ==
  ASSUME NEW s, NEW b, NEW n, NEW w, Choosable(w, s, b, n), NEW h,
         Unused(w.c, h), Suits(w.c, n, h), NEW v, v = [w EXCEPT !.preferred = h]
  PROVE  Choosable(v, s, b, n) /\ SameChoice(w, v) /\ v.avoid = w.avoid /\ v.preferred = h
<1>1. DOMAIN w = WorkFields
  BY DEF Choosable, Choosing
<1>2. /\ DOMAIN v = WorkFields /\ v.c = w.c /\ v.fixed = w.fixed /\ v.preferred = h
      /\ v.avoid = w.avoid
  BY <1>1 DEF WorkFields
<1> QED BY <1>2 DEF Choosable, Choosing, SameChoice

Wanted(w, v, s, b, n, h) ==
  /\ Choosable(v, s, b, n) /\ v.avoid = w.avoid /\ v.preferred = h
  /\ v.c.insns = w.c.insns /\ v.c.map = w.c.map /\ v.c.info = w.c.info

(* A natural location is preferred, and it was not to be avoided. *)
LEMMA WantsChanges ==
  ASSUME NEW s, NEW b, NEW n, Here(s, b, n), NEW w, Choosable(w, s, b, n), Clean(w), NEW h,
         Unused(w.c, h), Suits(w.c, n, h), NEW v, v = Wants(w, h)
  PROVE  Wanted(w, v, s, b, n, h)
<1> DEFINE c == w.c
           d == [c EXCEPT !.natural = @ /\ h \notin w.avoid]
<1>1. /\ DOMAIN w = WorkFields /\ Waiting(c, s, b, n) /\ Shape(c, s) /\ Static(c, s) /\ Asserts(c)
      /\ Vacated(c, n)
  BY DEF Choosable, Choosing, Waiting, Core
<1>2. /\ DOMAIN v = WorkFields /\ v.c = d /\ v.fixed = w.fixed /\ v.preferred = h
      /\ v.avoid = w.avoid
  BY <1>1 DEF Wants, WorkFields
<1>3. /\ DOMAIN d = CtxFields /\ d.blocks = c.blocks /\ d.opts = c.opts /\ d.insns = c.insns
      /\ d.death = c.death /\ d.binfo = c.binfo /\ d.fixed = c.fixed /\ d.early = c.early
      /\ d.map = c.map /\ d.info = c.info /\ d.ok = c.ok
      /\ d.natural = (c.natural /\ h \notin w.avoid)
  BY <1>1 DEF Shape, CtxFields
<1> HIDE DEF d
<1>4. Asserts(d)
  <2>1. "FIXED_REGS" \notin c.opts => w.avoid = {} /\ c.natural = TRUE
    BY <1>1 DEF Clean, Asserts
  <2> QED BY <1>1, <1>3, <2>1 DEF Asserts
<1>5. Quiet(c, d, s)
  BY <1>1, <1>3, <1>4 DEF Quiet, Shape, KeepsUnit
<1>6. Waiting(d, s, b, n) /\ Vacated(d, n)
  BY <1>1, <1>5, QuietHere
<1>7. Choosable(v, s, b, n)
  BY <1>2, <1>3, <1>6 DEF Choosable, Choosing, Unused, Suits, HostOf
<1> QED BY <1>2, <1>3, <1>7 DEF Wanted

(* A register that n reads: an earlier one, which has a place. *)
LEMMA OperandFacts ==
  ASSUME NEW s, NEW b, NEW n, Here(s, b, n), NEW c, Waiting(c, s, b, n), Vacated(c, n)
  PROVE  /\ \A r \in Operands(c, n) :
              /\ c.info[r].spilled \in BOOLEAN /\ HostOf(c, r) \in Hosts
              /\ Dying(c, r, n) => Unused(c, HostOf(c, r))
         /\ c.insns[n].op \in Reads => {c.insns[n].s1, c.insns[n].s2} \subseteq Operands(c, n)
<1> DEFINE N == Len(s.insns)
<1>1. N \in Nat /\ n \in 1..N /\ n \in Int
  BY HereFacts
<1>2. /\ Shape(c, s) /\ CodeOK(c) /\ SpillsOK(c, n - 1) /\ DOMAIN c.insns = 1..N
  BY DEF Waiting, Core, Static, Placed, Shape
<1>3. Operands(c, n) \subseteq 1..(n - 1)
  BY <1>1, <1>2 DEF CodeOK, InsnOK, SettersBefore, Operands
<1>4. c.insns[n].op \in Reads => {c.insns[n].s1, c.insns[n].s2} \subseteq Operands(c, n)
  BY <1>1, <1>2 DEF CodeOK, InsnOK, Operands
<1>5. ASSUME NEW r \in Operands(c, n)
      PROVE  /\ c.info[r].spilled \in BOOLEAN /\ HostOf(c, r) \in Hosts
             /\ Dying(c, r, n) => Unused(c, HostOf(c, r))
  <2>1. r \in 1..(n - 1) /\ r \in 0..N
    BY <1>1, <1>3
  <2>2. c.info[r].spilled \in BOOLEAN
    BY <1>2, <2>1 DEF SpillsOK
  <2>3. HostOf(c, r) \in Hosts
    BY <1>2, <2>1 DEF Shape, HostOf
  <2>4. Dying(c, r, n) => c.map[HostOf(c, r)] = 0
    BY <2>2 DEF Dying, Vacated, HostOf
  <2> QED BY <2>2, <2>3, <2>4 DEF Unused
<1> QED BY <1>4, <1>5

Prefers(w, v, s, b, n) ==
  Choosable(v, s, b, n) /\ Barred(v, n) /\ v.c.insns = w.c.insns

(* MULH prefers rDX, and avoids rAX. *)
LEMMA PreferMulhChanges ==
  ASSUME NEW s, NEW b, NEW n, Here(s, b, n), NEW w, Choosable(w, s, b, n), Clean(w),
         w.c.insns[n].op = "mulh", NEW v, v = PreferMulh(w)
  PROVE  Prefers(w, v, s, b, n)
<1> DEFINE w1 == Wants(w, DX)
           w2 == Avoiding(w1, {DX})
           w3 == IF w.c.map[DX] = 0 THEN w2 ELSE w
<1>1. v = Avoiding(w3, {AX})
  BY DEF PreferMulh
<1>2. w.avoid \subseteq FixedHosts /\ DX \in FixedHosts /\ AX \in FixedHosts
  BY DEF Clean, FixedHosts
<1>3. \A A : A \subseteq FixedHosts => Narrow(A)
  BY DEF Narrow
<1>4. CASE w.c.map[DX] = 0
  <2>1. Unused(w.c, DX)
    BY <1>4, HostsFacts DEF Unused, FixedHosts
  <2>2. Suits(w.c, n, DX)
    BY DEF Suits, DX, AX
  <2>3. Wanted(w, w1, s, b, n, DX)
    BY <2>1, <2>2, WantsChanges
  <2> HIDE DEF w1
  <2>4. Choosable(w1, s, b, n) /\ Narrow(w1.avoid \cup {DX}) /\ w1.avoid = w.avoid
    BY <1>2, <1>3, <2>3 DEF Wanted
  <2>5. Choosable(w2, s, b, n) /\ SameChoice(w1, w2) /\ w2.avoid = w1.avoid \cup {DX}
    BY <2>4, AvoidingChanges
  <2>6. w3 = w2
    BY <1>4
  <2> HIDE DEF w2, w3
  <2>7. Narrow(w2.avoid \cup {AX})
    BY <1>2, <1>3, <2>4, <2>5
  <2>8. Choosable(v, s, b, n) /\ SameChoice(w2, v) /\ v.avoid = w2.avoid \cup {AX}
    BY <1>1, <2>5, <2>6, <2>7, AvoidingChanges
  <2>9. Barred(v, n) /\ v.c.insns = w.c.insns
    BY <2>3, <2>5, <2>8 DEF Barred, SameChoice, Wanted
  <2> QED BY <2>8, <2>9 DEF Prefers
<1>5. CASE w.c.map[DX] # 0
  <2>1. w3 = w
    BY <1>5
  <2> HIDE DEF w3
  <2>2. Narrow(w.avoid \cup {AX})
    BY <1>2, <1>3
  <2>3. Choosable(v, s, b, n) /\ SameChoice(w, v) /\ v.avoid = w.avoid \cup {AX}
    BY <1>1, <2>1, <2>2, AvoidingChanges
  <2>4. Barred(v, n) /\ v.c.insns = w.c.insns
    BY <1>5, <2>3 DEF Barred, SameChoice
  <2> QED BY <2>3, <2>4 DEF Prefers
<1> QED BY <1>4, <1>5

(* DIV and MOD prefer theirs unless the divisor is there, and avoid all three. *)
LEMMA PreferDivModChanges ==
  ASSUME NEW s, NEW b, NEW n, Here(s, b, n), NEW w, Choosable(w, s, b, n), Clean(w),
         NEW g, \/ w.c.insns[n].op = "div" /\ g = AX
                \/ w.c.insns[n].op = "mod" /\ g = DX,
         NEW v, v = PreferDivMod(w, n, g)
  PROVE  Prefers(w, v, s, b, n)
<1> DEFINE divisor == HostOf(w.c, w.c.insns[n].s2)
           w1 == IF w.c.map[g] = 0 /\ divisor # g THEN Wants(w, g) ELSE w
           A  == {AX, DX, divisor}
<1>1. v = Avoiding(w1, A)
  BY DEF PreferDivMod
<1>2. Choosable(w1, s, b, n) /\ w1.avoid = w.avoid /\ w1.c.insns = w.c.insns /\ w1.c.info = w.c.info
  <2>1. CASE w.c.map[g] = 0 /\ divisor # g
    <3>1. Unused(w.c, g)
      BY <2>1, HostsFacts DEF Unused, FixedHosts
    <3>2. Suits(w.c, n, g)
      BY <2>1 DEF Suits, DX, AX
    <3>3. Wanted(w, Wants(w, g), s, b, n, g)
      BY <3>1, <3>2, WantsChanges
    <3> QED BY <2>1, <3>3 DEF Wanted
  <2>2. CASE ~(w.c.map[g] = 0 /\ divisor # g)
    BY <2>2
  <2> QED BY <2>1, <2>2
<1> HIDE DEF w1, divisor
<1>3. Narrow(w1.avoid \cup A)
  <2>1. w1.avoid \cup A \subseteq FixedHosts \cup {divisor}
    BY <1>2 DEF Clean, FixedHosts
  <2> QED BY <2>1 DEF Narrow
<1> HIDE DEF A
<1>4. Choosable(v, s, b, n) /\ SameChoice(w1, v) /\ v.avoid = w1.avoid \cup A
  BY <1>1, <1>2, <1>3, AvoidingChanges
<1>5. Barred(v, n) /\ v.c.insns = w.c.insns
  BY <1>2, <1>4 DEF Barred, SameChoice, A, divisor, HostOf
<1> QED BY <1>4, <1>5 DEF Prefers

(* A comparison avoids its operands' registers if the first has been spilled. *)
LEMMA PreferSeqChanges ==
  ASSUME NEW s, NEW b, NEW n, Here(s, b, n), NEW w, Choosable(w, s, b, n), Clean(w),
         w.c.insns[n].op = "seq", NEW v, v = PreferSeq(w, n)
  PROVE  Prefers(w, v, s, b, n)
<1> DEFINE s1 == w.c.insns[n].s1
           s2 == w.c.insns[n].s2
           soft == {HostOf(w.c, r) : r \in {r \in {s1, s2} : ~w.c.info[r].spilled}}
<1>1. v = IF w.c.info[s1].spilled THEN Avoiding(w, soft) ELSE [w EXCEPT !.soft = soft]
  BY DEF PreferSeq
<1>2. w.c.info[s1].spilled \in BOOLEAN /\ w.c.info[s2].spilled \in BOOLEAN
  <2>1. Waiting(w.c, s, b, n) /\ Vacated(w.c, n)
    BY DEF Choosable, Choosing
  <2>2. w.c.insns[n].op \in Reads
    BY DEF Reads
  <2> QED BY <2>1, <2>2, OperandFacts
<1>3. w.c.info[s1].spilled = TRUE => soft \subseteq {HostOf(w.c, s2)}
  BY <1>2
<1> HIDE DEF soft, s1, s2
<1>4. CASE w.c.info[s1].spilled = TRUE
  <2>1. w.avoid \cup soft \subseteq FixedHosts \cup {HostOf(w.c, s2)}
    BY <1>3, <1>4 DEF Clean
  <2>2. Narrow(w.avoid \cup soft)
    BY <2>1 DEF Narrow
  <2>3. Choosable(v, s, b, n) /\ SameChoice(w, v)
    BY <1>1, <1>4, <2>2, AvoidingChanges
  <2> QED BY <2>3 DEF Prefers, Barred, SameChoice
<1>5. CASE w.c.info[s1].spilled = FALSE
  <2>1. DOMAIN w = WorkFields
    BY DEF Choosable, Choosing
  <2>2. /\ DOMAIN v = WorkFields /\ v.c = w.c /\ v.fixed = w.fixed /\ v.preferred = w.preferred
        /\ v.avoid = w.avoid
    BY <1>1, <1>5, <2>1 DEF WorkFields
  <2>3. Choosable(v, s, b, n)
    BY <2>2 DEF Choosable, Choosing
  <2> QED BY <2>2, <2>3 DEF Prefers, Barred
<1> QED BY <1>2, <1>4, <1>5

(* The others prefer the register of an operand that dies, if it will do. *)
LEMMA PreferOperandChanges ==
  ASSUME NEW s, NEW b, NEW n, Here(s, b, n), NEW w, Choosable(w, s, b, n),
         w.c.insns[n].op # "get" => Clean(w),
         w.c.insns[n].op \notin {"mulh", "div", "mod"}, NEW v, v = PreferOperand(w, n)
  PROVE  Prefers(w, v, s, b, n)
<1> DEFINE i     == w.c.insns[n]
           host1 == HostOf(w.c, i.s1)
           host2 == HostOf(w.c, i.s2)
           ok1   == /\ i.op = "shift" => host1 # CX /\ ~(i.s1 = i.s2 /\ w.c.map[CX] # 0)
                    /\ host1 \notin w.avoid
           w1    == IF ~Dying(w.c, i.s1, n) THEN w
                    ELSE IF ok1 THEN [w EXCEPT !.preferred = host1] ELSE Avoiding(w, {host1})
           ok2   == i.op \notin {"sub", "shift"} /\ host2 \notin w1.avoid
           A1    == IF Dying(w.c, i.s1, n) /\ ~ok1 THEN {host1} ELSE {}
           A2    == IF Dying(w.c, i.s2, n) /\ ~ok2 THEN {host2} ELSE {}
<1>1. v = IF ~Dying(w.c, i.s2, n) THEN w1
          ELSE IF ~ok2 THEN Avoiding(w1, {host2})
          ELSE IF w1.preferred = None THEN [w1 EXCEPT !.preferred = host2] ELSE w1
  BY DEF PreferOperand
<1>2. Waiting(w.c, s, b, n) /\ Vacated(w.c, n) /\ Narrow(w.avoid)
  BY DEF Choosable, Choosing
<1>3. \A r \in {i.s1, i.s2} : Dying(w.c, r, n) => Unused(w.c, HostOf(w.c, r))
  <2>1. \A r \in {i.s1, i.s2} : Dying(w.c, r, n) => r \in Operands(w.c, n)
    BY DEF Dying, Operands
  <2> QED BY <1>2, <2>1, OperandFacts
<1>4. \A h : (i.op = "shift" => h # CX) => Suits(w.c, n, h)
  BY DEF Suits
<1>5. Narrow(w.avoid \cup A1)
  <2>1. CASE A1 \subseteq w.avoid
    <3>1. w.avoid \cup A1 = w.avoid
      BY <2>1
    <3> QED BY <1>2, <3>1
  <2>2. CASE ~(A1 \subseteq w.avoid)
    <3>1. i.op = "shift" /\ A1 \subseteq {host1}
      BY <2>2
    <3>2. w.avoid \subseteq FixedHosts
      BY <3>1 DEF Clean
    <3>3. w.avoid \cup A1 \subseteq FixedHosts \cup {host1}
      BY <3>1, <3>2
    <3> QED BY <3>3 DEF Narrow
  <2> QED BY <2>1, <2>2
<1>6. Choosable(w1, s, b, n) /\ SameChoice(w, w1) /\ w1.avoid = w.avoid \cup A1
  <2>1. CASE ~Dying(w.c, i.s1, n)
    <3>1. w1 = w /\ A1 = {}
      BY <2>1
    <3>2. DOMAIN w = WorkFields
      BY DEF Choosable, Choosing
    <3> QED BY <3>1, <3>2 DEF SameChoice
  <2>2. CASE Dying(w.c, i.s1, n) /\ ok1
    <3>1. Unused(w.c, host1) /\ Suits(w.c, n, host1)
      BY <1>3, <1>4, <2>2
    <3>2. w1 = [w EXCEPT !.preferred = host1] /\ A1 = {}
      BY <2>2
    <3> HIDE DEF w1, host1, A1
    <3>3. Choosable(w1, s, b, n) /\ SameChoice(w, w1) /\ w1.avoid = w.avoid
      BY <3>1, <3>2, PreferredChanges
    <3> QED BY <3>2, <3>3
  <2>3. CASE Dying(w.c, i.s1, n) /\ ~ok1
    <3>1. w1 = Avoiding(w, {host1}) /\ A1 = {host1}
      BY <2>3
    <3> HIDE DEF w1, host1, A1
    <3> QED BY <1>5, <3>1, AvoidingChanges
  <2> QED BY <2>1, <2>2, <2>3
<1> HIDE DEF w1
<1>7. Narrow(w1.avoid \cup A2)
  <2>1. CASE A2 \subseteq w1.avoid
    <3>1. w1.avoid \cup A2 = w1.avoid
      BY <2>1
    <3> QED BY <1>5, <1>6, <3>1
  <2>2. CASE ~(A2 \subseteq w1.avoid)
    <3>1. i.op \in {"sub", "shift"} /\ A2 \subseteq {host2}
      BY <2>2
    <3>2. w.avoid \subseteq FixedHosts
      BY <3>1 DEF Clean
    <3>3. A1 \subseteq FixedHosts \cup {host2}
      <4>1. CASE i.op = "sub"
        <5>1. A1 \subseteq w.avoid
          BY <4>1
        <5> QED BY <3>2, <5>1
      <4>2. CASE i.op = "shift"
        <5>1. A1 \subseteq w.avoid \cup {CX, host2}
          BY <4>2
        <5> QED BY <3>2, <5>1 DEF FixedHosts
      <4> QED BY <3>1, <4>1, <4>2
    <3>4. w1.avoid \cup A2 \subseteq FixedHosts \cup {host2}
      BY <1>6, <3>1, <3>2, <3>3
    <3> QED BY <3>4 DEF Narrow
  <2> QED BY <2>1, <2>2
<1>8. Choosable(v, s, b, n) /\ SameChoice(w1, v)
  <2>0. DOMAIN w1 = WorkFields /\ w1.c = w.c
    BY <1>6 DEF SameChoice
  <2>1. CASE v = w1
    BY <1>6, <2>0, <2>1 DEF SameChoice
  <2>2. CASE Dying(w.c, i.s2, n) /\ ~ok2
    <3>1. v = Avoiding(w1, {host2}) /\ A2 = {host2}
      BY <1>1, <2>2
    <3> HIDE DEF host2, A2
    <3> QED BY <1>6, <1>7, <3>1, AvoidingChanges
  <2>3. CASE Dying(w.c, i.s2, n) /\ ok2 /\ v = [w1 EXCEPT !.preferred = host2]
    <3>1. Unused(w1.c, host2) /\ Suits(w1.c, n, host2)
      BY <1>3, <1>4, <2>0, <2>3
    <3>2. v = [w1 EXCEPT !.preferred = host2]
      BY <2>3
    <3> HIDE DEF host2
    <3> QED BY <1>6, <3>1, <3>2, PreferredChanges
  <2> QED BY <1>1, <2>1, <2>2, <2>3
<1> QED BY <1>6, <1>8 DEF Prefers, Barred, SameChoice

(* What is preferred will do, and what must be avoided is avoided. *)
LEMMA PreferChanges ==
  ASSUME NEW s, NEW b, NEW n, Here(s, b, n), NEW w, Choosable(w, s, b, n),
         w.c.insns[n].op # "get" => Clean(w), NEW v, v = Prefer(w, n)
  PROVE  Prefers(w, v, s, b, n)
<1> DEFINE op == w.c.insns[n].op
<1>1. CASE op = "mulh"
  <2>1. v = PreferMulh(w)
    BY <1>1 DEF Prefer
  <2> QED BY <1>1, <2>1, PreferMulhChanges
<1>2. CASE op = "div"
  <2>1. v = PreferDivMod(w, n, AX)
    BY <1>2 DEF Prefer
  <2> QED BY <1>2, <2>1, PreferDivModChanges
<1>3. CASE op = "mod"
  <2>1. v = PreferDivMod(w, n, DX)
    BY <1>3 DEF Prefer
  <2> QED BY <1>3, <2>1, PreferDivModChanges
<1>4. CASE op = "seq"
  <2>1. v = PreferSeq(w, n)
    BY <1>4 DEF Prefer
  <2> QED BY <1>4, <2>1, PreferSeqChanges
<1>5. CASE op = "call"
  <2>1. v = w
    BY <1>5 DEF Prefer
  <2> QED BY <1>5, <2>1 DEF Prefers, Barred
<1>6. CASE op \notin {"mulh", "div", "mod", "seq", "call"}
  <2>1. v = PreferOperand(w, n)
    BY <1>6 DEF Prefer
  <2> QED BY <1>6, <2>1, PreferOperandChanges
<1> QED BY <1>1, <1>2, <1>3, <1>4, <1>5, <1>6

(* Among some registers, one whose value dies last. *)
LEMMA LastOfAll ==
  ASSUME NEW V, V \subseteq Hosts, V # {}, NEW f, \A h \in V : f[h] \in Int
  PROVE  \E h \in V : \A g \in V : f[g] <= f[h]
<1> DEFINE Best(k) == \E h \in V : h <= k /\ \A g \in V : g <= k => f[g] <= f[h]
           S == {k \in Nat : (\E h \in V : h <= k) => Best(k)}
<1>1. V \subseteq Nat /\ NumHosts \in Nat /\ \A h \in V : h <= NumHosts
  BY HostsFacts DEF Hosts
<1>2. 0 \in S
  <2>1. \A h \in V : h <= 0 => h = 0
    BY <1>1
  <2>2. \A h \in V : h <= 0 => Best(0)
    BY <2>1
  <2> QED BY <2>2
<1>3. ASSUME NEW k \in Nat, k \in S PROVE k + 1 \in S
  <2> SUFFICES ASSUME \E h \in V : h <= k + 1 PROVE Best(k + 1)
    OBVIOUS
  <2>1. \A h \in V : h <= k + 1 <=> h <= k \/ h = k + 1
    <3> HIDE DEF Best, S
    <3> TAKE h \in V
    <3>1. h \in Nat
      BY <1>1
    <3> QED BY <3>1
  <2>2. CASE k + 1 \notin V
    <3>1. Best(k)
      BY <1>3, <2>1, <2>2
    <3> QED BY <2>1, <2>2, <3>1
  <2>3. CASE k + 1 \in V /\ ~(\E h \in V : h <= k)
    BY <2>1, <2>3
  <2>4. CASE k + 1 \in V /\ \E h \in V : h <= k
    <3>1. PICK h \in V : h <= k /\ \A g \in V : g <= k => f[g] <= f[h]
      BY <1>3, <2>4
    <3>2. CASE f[k + 1] <= f[h]
      BY <2>1, <3>1, <3>2
    <3>3. CASE ~(f[k + 1] <= f[h])
      <4>1. \A g \in V : g <= k + 1 => f[g] <= f[k + 1]
        BY <2>1, <2>4, <3>1, <3>3
      <4> QED BY <2>4, <4>1
    <3> QED BY <3>2, <3>3
  <2> QED BY <2>2, <2>3, <2>4
<1> HIDE DEF S
<1>4. NumHosts \in S
  BY <1>1, <1>2, <1>3, Induction
<1>5. Best(NumHosts)
  BY <1>1, <1>4 DEF S
<1> QED BY <1>1, <1>5

(* The context that an assignment of h starts from, after a promise of it is taken back. *)
Reclaimed(c, d, s, b, n, h) ==
  /\ Waiting(d, s, b, n) /\ d.insns = c.insns /\ d.map = c.map /\ d.death = c.death
  /\ \A r \in 1..Len(s.insns) : d.info[r].host = c.info[r].host
  /\ h \notin d.early

(* The register of a promise that is taken back may be assigned. *)
LEMMA CancelReclaims ==
  ASSUME NEW s, NEW b, NEW n, Here(s, b, n), NEW c, Waiting(c, s, b, n), NEW h, h \in c.early
  PROVE  Reclaimed(c, CancelMerge(c, b, h), s, b, n, h)
<1> DEFINE d == CancelMerge(c, b, h)
<1>1. /\ Shape(c, s) /\ Static(c, s) /\ Asserts(c) /\ Results(c, n - 1) /\ Pending(c, n)
      /\ c.info[n].spilled = FALSE /\ c.info[n].spill_insn = 0 /\ c.info[n].temp = None
      /\ Placed(c, n - 1, n) /\ Promises(c, s, b, n)
  BY DEF Waiting, Core
<1>2. Cancelled(c, d, s, b, n, h)
  BY <1>1, CancelChanges
<1> HIDE DEF d
<1>3. Shape(d, s) /\ Steady(c, d, 0) /\ Asserts(d) /\ Promises(d, s, b, n) /\ h \notin d.early
      /\ KeepsUnit(c, d)
  BY <1>2 DEF Cancelled, Steady
<1>4. Placed(d, n - 1, n) /\ Pending(d, n) /\ Results(d, n - 1)
  BY <1>1, <1>3, SteadyHere
<1>5. Static(d, s)
  BY <1>1, <1>3, StaticKept
<1>6. \A r \in 1..Len(s.insns) : SamePlace(c.info[r], d.info[r])
  <2>1. DOMAIN c.insns = 1..Len(s.insns) /\ Len(s.insns) \in Nat
    BY <1>1, HereFacts DEF Shape
  <2> QED BY <1>3, <2>1 DEF Steady
<1>7. n \in 1..Len(s.insns)
  BY HereFacts
<1>8. Core(d, s, n)
  BY <1>1, <1>3, <1>4, <1>5, <1>6, <1>7 DEF Core, SamePlace
<1>9. d.insns = c.insns /\ d.map = c.map /\ d.death = c.death
  BY <1>3 DEF Steady, KeepsUnit
<1> QED BY <1>3, <1>4, <1>6, <1>8, <1>9 DEF Reclaimed, Waiting, SamePlace, d

(* And so may one that was not promised. *)
LEMMA NothingReclaimed ==
  ASSUME NEW s, NEW b, NEW n, NEW c, Waiting(c, s, b, n), NEW h, h \notin c.early
  PROVE  Reclaimed(c, c, s, b, n, h)
  BY DEF Reclaimed

(* A free register is assigned, *)
LEMMA AssignGrants ==
  ASSUME NEW s, NEW b, NEW n, Here(s, b, n), NEW c, Waiting(c, s, b, n),
         c.insns[n].op \in Setters, NEW h, Unused(c, h), h \notin c.early
  PROVE  Granted(c, Assign(c, n, h), s, b, n, h)
<1>1. Shape(c, s) /\ Asserts(c) /\ n \in 1..Len(s.insns) /\ h \in Hosts /\ c.map[h] = 0
  BY HereFacts DEF Waiting, Core, Unused
<1>2. LET d == Assign(c, n, h) IN Shape(d, s) /\ Gives(c, d, n, h) /\ Asserts(d)
  BY <1>1, AssignChanges
<1> QED BY <1>1, <1>2, GivesGrants

(* or one whose value is spilled. *)
LEMMA SpillGrants ==
  ASSUME NEW s, NEW b, NEW n, Here(s, b, n), NEW c, Waiting(c, s, b, n),
         c.insns[n].op \in Setters, NEW h, h \in Hosts, c.map[h] # 0
  PROVE  Granted(c, Spill(c, n, h), s, b, n, h)
<1>1. Shape(c, s) /\ Asserts(c) /\ n \in 1..Len(s.insns) /\ h \in Hosts
  BY HereFacts DEF Waiting, Core
<1>2. c.map[h] \in 1..(n - 1) /\ c.info[c.map[h]].spilled = FALSE
  BY DEF Waiting, Placed, MapOK
<1>3. h \notin c.early
  BY DEF Waiting, Promises
<1>4. LET d == Spill(c, n, h) IN Shape(d, s) /\ Gives(c, d, n, h) /\ Asserts(d)
  BY <1>1, <1>2, SpillChanges
<1> QED BY <1>1, <1>3, <1>4, GivesGrants

(* The result has a register that will do. *)
Finished(v, s, b, n) ==
  Given(v.c, s, b, n) /\ Barred(v, n) /\ Suits(v.c, n, HostOf(v.c, n))

(* If it will do for the instruction, the choice is over. *)
LEMMA GrantFinishes ==
  ASSUME NEW s, NEW b, NEW n, Here(s, b, n), NEW w, NEW h,
         w.c.insns[n].op \in Setters, Waiting(w.c, s, b, n), Barred(w, n), Suits(w.c, n, h),
         NEW c, Reclaimed(w.c, c, s, b, n, h), NEW v, v.avoid = w.avoid,
         Granted(c, v.c, s, b, n, h)
  PROVE  Finished(v, s, b, n) /\ v.c.insns = w.c.insns
<1>1. n \in 1..Len(s.insns) /\ n \in Int /\ Len(s.insns) \in Nat
  BY HereFacts
<1>2. v.c.insns = w.c.insns /\ HostOf(v.c, n) = h /\ Given(v.c, s, b, n)
  BY DEF Reclaimed, Granted, HostOf
<1>3. w.c.insns[n].op \in Reads => HostOf(v.c, w.c.insns[n].s2) = HostOf(w.c, w.c.insns[n].s2)
  <2>1. w.c.insns[n].op \in Reads => w.c.insns[n].s2 \in 1..(n - 1)
    BY <1>1 DEF Waiting, Core, Static, CodeOK, Shape, InsnOK, SettersBefore
  <2>2. \A r \in 1..(n - 1) : r \in 1..Len(s.insns)
    BY <1>1
  <2> QED BY <2>1, <2>2 DEF Reclaimed, Granted, HostOf
<1>4. Suits(v.c, n, h)
  BY <1>2, <1>3 DEF Suits, Reads
<1>5. \A g \in Hosts : w.c.map[g] # 0 => v.c.map[g] # 0
  BY DEF Reclaimed, Granted
<1>6. Barred(v, n)
  <2>1. DX \in Hosts
    BY HostsFacts DEF FixedHosts
  <2> QED BY <1>2, <1>3, <1>5, <2>1 DEF Barred, Reads
<1> QED BY <1>2, <1>4, <1>6 DEF Finished

(* A reserved or preferred register is given, or the choice goes on. *)
LEMMA SettleChanges ==
  ASSUME NEW s, NEW b, NEW n, Here(s, b, n), NEW w, Choosable(w, s, b, n), Barred(w, n),
         w.c.insns[n].op \in Setters, NEW v, v = Settle(w, b, n)
  PROVE  (Finished(v, s, b, n) \/ v = w) /\ v.c.insns = w.c.insns
<1> DEFINE c == w.c
           h == w.fixed
           c1 == IF h \in c.early THEN CancelMerge(c, b, h) ELSE c
           takes == h # None /\ (h = w.preferred \/ h \notin w.avoid)
<1>1. v = IF takes THEN [w EXCEPT !.c = Assign(c1, n, h)]
          ELSE IF w.preferred \in Hosts \ c.early THEN [w EXCEPT !.c = Assign(c, n, w.preferred)]
          ELSE w
  BY DEF Settle
<1>2. /\ Waiting(c, s, b, n) /\ DOMAIN w = WorkFields
      /\ h = None \/ Unused(c, h)
      /\ w.preferred = None \/ (Unused(c, w.preferred) /\ Suits(c, n, w.preferred))
      /\ "FIXED_REGS" \in c.opts /\ c.insns[n].op = "shift" => CX \in w.avoid
      /\ "FIXED_REGS" \notin c.opts => h = None
  BY DEF Choosable, Choosing
<1>3. \A d : LET u == [w EXCEPT !.c = d] IN u.c = d /\ u.avoid = w.avoid
  BY <1>2 DEF WorkFields
<1> HIDE DEF c1
<1>4. CASE takes
  <2>1. Unused(c, h)
    BY <1>2, <1>4
  <2>2. Suits(c, n, h)
    <3>1. CASE h = w.preferred
      BY <1>2, <1>4, <3>1
    <3>2. CASE h \notin w.avoid
      BY <1>2, <1>4, <3>2 DEF Suits, Barred
    <3> QED BY <1>4, <3>1, <3>2
  <2>3. Reclaimed(c, c1, s, b, n, h)
    BY <1>2, CancelReclaims, NothingReclaimed DEF c1
  <2>4. Waiting(c1, s, b, n) /\ c1.insns[n].op \in Setters /\ Unused(c1, h) /\ h \notin c1.early
    BY <2>1, <2>3 DEF Reclaimed, Unused
  <2>5. Granted(c1, Assign(c1, n, h), s, b, n, h)
    BY <2>4, AssignGrants
  <2>6. v.c = Assign(c1, n, h) /\ v.avoid = w.avoid
    BY <1>1, <1>3, <1>4
  <2>7. Granted(c1, v.c, s, b, n, h)
    BY <2>5, <2>6
  <2> QED BY <1>2, <2>2, <2>3, <2>6, <2>7, GrantFinishes
<1>5. CASE ~takes /\ w.preferred \in Hosts \ c.early
  <2>1. Unused(c, w.preferred) /\ Suits(c, n, w.preferred)
    BY <1>2, <1>5, HostsFacts
  <2>2. Reclaimed(c, c, s, b, n, w.preferred)
    BY <1>2, <1>5, NothingReclaimed
  <2>3. Granted(c, Assign(c, n, w.preferred), s, b, n, w.preferred)
    BY <1>2, <1>5, <2>1, AssignGrants
  <2>4. v.c = Assign(c, n, w.preferred) /\ v.avoid = w.avoid
    BY <1>1, <1>3, <1>5
  <2>5. Granted(c, v.c, s, b, n, w.preferred)
    BY <2>3, <2>4
  <2> QED BY <1>2, <2>1, <2>2, <2>4, <2>5, GrantFinishes
<1>6. CASE ~takes /\ ~(w.preferred \in Hosts \ c.early)
  BY <1>1, <1>6
<1> QED BY <1>4, <1>5, <1>6

(* There is always a register to take. *)
LEMMA AllocateGrants ==
  ASSUME NEW s, NEW b, NEW n, Here(s, b, n), NEW w, Waiting(w.c, s, b, n), Narrow(w.avoid),
         w.c.insns[n].op \in Setters
  PROVE  \E h, c : h \notin w.avoid /\ Reclaimed(w.c, c, s, b, n, h)
                     /\ Granted(c, Allocate(w, b, n), s, b, n, h)
<1> DEFINE c       == w.c
           avoid   == w.avoid \cup c.early
           S1      == (Free(c) \cap CalleeSaved) \ (avoid \cup w.soft)
           S2      == Free(c) \ (avoid \cup w.soft)
           S3      == Free(c) \ avoid
           kept    == IF AcrossCall(c, n) THEN Get(S1) ELSE None
           liked   == IF kept # None THEN kept ELSE Get(S2)
           choice  == IF liked # None THEN liked ELSE Get(S3)
           promise == c.early \ w.avoid
           victims == {h \in Hosts \ w.avoid : c.map[h] # 0}
           last    == {h \in victims : \A g \in victims : c.death[c.map[g]] <= c.death[c.map[h]]}
<1>1. Shape(c, s) /\ c.early \subseteq Hosts /\ \A h \in c.early : c.map[h] = 0
  BY DEF Waiting, Core, Shape, Promises
<1>2. Allocate(w, b, n) =
        CASE choice # None -> Assign(c, n, choice)
          [] choice = None /\ promise # {} ->
               Assign(CancelMerge(c, b, Least(promise)), n, Least(promise))
          [] choice = None /\ promise = {} /\ victims # {} -> Spill(c, n, Latest(last))
          [] OTHER -> Asserted(c, FALSE)
  BY DEF Allocate
<1>3. choice # None => choice \in S3
  <2>1. S1 \subseteq S3 /\ S2 \subseteq S3 /\ S3 \subseteq Hosts
    BY DEF Free
  <2> HIDE DEF S1, S2, S3
  <2>2. /\ Get(S1) = None \/ Get(S1) \in S3
        /\ Get(S2) = None \/ Get(S2) \in S3
        /\ Get(S3) = None \/ Get(S3) \in S3
    <3>1. S1 \subseteq Hosts /\ S2 \subseteq Hosts
      BY <2>1
    <3> QED BY <2>1, <3>1, GetIn
  <2> QED BY <2>2
<1>4. choice = None => S3 = {}
  <2>1. S3 \subseteq Hosts
    BY DEF Free
  <2> HIDE DEF S1, S2, S3
  <2>2. S3 # {} => Get(S3) # None
    BY <2>1, GetIn, HostsFacts
  <2> QED BY <2>2
<1>5. PICK g \in {3, 4} : g \notin w.avoid
  <2>1. PICK x : w.avoid \subseteq FixedHosts \cup {x}
    BY DEF Narrow
  <2> QED BY <2>1 DEF FixedHosts, AX, CX, DX
<1>6. g \in Hosts
  BY HostsFacts
<1> HIDE DEF choice, last, S3
<1>7. CASE choice # None
  <2>1. choice \in Hosts /\ Unused(c, choice) /\ choice \notin w.avoid /\ choice \notin c.early
    BY <1>3, <1>7 DEF S3, Free, Unused
  <2>2. Granted(c, Assign(c, n, choice), s, b, n, choice)
    BY <2>1, AssignGrants
  <2>3. Reclaimed(c, c, s, b, n, choice)
    BY <2>1, NothingReclaimed
  <2>4. Allocate(w, b, n) = Assign(c, n, choice)
    BY <1>2, <1>7
  <2> QED BY <2>1, <2>2, <2>3, <2>4
<1>8. CASE choice = None /\ promise # {}
  <2> DEFINE h == Least(promise)
  <2>1. h \in promise
    BY <1>1, <1>8, LeastIn, HostsFacts
  <2>2. Allocate(w, b, n) = Assign(CancelMerge(c, b, h), n, h)
    BY <1>2, <1>8
  <2> HIDE DEF h
  <2>3. h \in c.early /\ h \in Hosts /\ h \notin w.avoid /\ c.map[h] = 0
    BY <1>1, <2>1
  <2> DEFINE d == CancelMerge(c, b, h)
  <2>4. Reclaimed(c, d, s, b, n, h)
    BY <2>3, CancelReclaims
  <2> HIDE DEF d
  <2>5. Waiting(d, s, b, n) /\ d.insns[n].op \in Setters /\ Unused(d, h) /\ h \notin d.early
    BY <2>3, <2>4 DEF Reclaimed, Unused
  <2>6. Granted(d, Assign(d, n, h), s, b, n, h)
    BY <2>5, AssignGrants
  <2> QED BY <2>2, <2>3, <2>4, <2>6 DEF d
<1>9. CASE choice = None /\ promise = {}
  <2>1. S3 = {}
    BY <1>4, <1>9
  <2>2. c.map[g] # 0
    BY <1>5, <1>6, <1>9, <2>1 DEF S3, Free
  <2>3. g \in victims
    BY <1>5, <1>6, <2>2
  <2>4. Allocate(w, b, n) = Spill(c, n, Latest(last))
    BY <1>2, <1>9, <2>3
  <2>5. \A h \in victims : c.death[c.map[h]] \in Int
    <3>1. \A h \in victims : c.map[h] \in 1..(n - 1)
      BY DEF Waiting, Placed, MapOK
    <3>2. \A r \in 1..(n - 1) : r \in 1..Len(s.insns)
      BY HereFacts
    <3> QED BY <1>1, <3>1, <3>2 DEF Shape
  <2>6. last # {} /\ last \subseteq victims
    <3> DEFINE f == [h \in victims |-> c.death[c.map[h]]]
    <3>1. victims \subseteq Hosts /\ victims # {}
      BY <2>3
    <3>2. \A h \in victims : f[h] = c.death[c.map[h]]
      OBVIOUS
    <3> HIDE DEF f, victims
    <3>3. \E h \in victims : \A q \in victims : f[q] <= f[h]
      BY <2>5, <3>1, <3>2, LastOfAll
    <3> QED BY <3>2, <3>3 DEF last
  <2> DEFINE h == Latest(last)
  <2>7. h \in last
    <3>1. last \subseteq Hosts
      BY <2>6
    <3> QED BY <2>6, <3>1, LatestHost
  <2> HIDE DEF h
  <2>8. h \in Hosts /\ h \notin w.avoid /\ c.map[h] # 0
    BY <2>6, <2>7
  <2>9. h \notin c.early
    BY <1>1, <2>8
  <2>10. Granted(c, Spill(c, n, h), s, b, n, h)
    BY <2>8, SpillGrants
  <2>11. Reclaimed(c, c, s, b, n, h)
    BY <2>9, NothingReclaimed
  <2> QED BY <2>4, <2>8, <2>10, <2>11 DEF h
<1> QED BY <1>7, <1>8, <1>9

(* The choice comes to an end: a result has a register when all has been tried. *)
LEMMA ChoiceEnds ==
  ASSUME NEW s, NEW b, NEW n, Here(s, b, n), NEW w, w.c.insns[n].op \in Setters
  PROVE  /\ Given(w.c, s, b, n) => w.c.info[n].allocated = TRUE
         /\ Choosable(w, s, b, n) => w.c.info[n].allocated = FALSE
<1>1. n \in 1..n
  BY HereFacts
<1> QED BY <1>1 DEF Given, Placed, InPlace, Choosable, Choosing

(* allocate_register() gives an instruction a register that will do. *)
LEMMA AnyFinishes ==
  ASSUME NEW s, NEW b, NEW n, Here(s, b, n), NEW w, Choosable(w, s, b, n), Barred(w, n),
         w.c.insns[n].op \in Setters, w.c.insns[n].op = "shift" => CX \in w.avoid,
         NEW v, v = AllocateAny(w, b, n)
  PROVE  Finished(v, s, b, n) /\ v.c.insns = w.c.insns
<1>1. DOMAIN w = WorkFields /\ Waiting(w.c, s, b, n) /\ Narrow(w.avoid)
  BY DEF Choosable, Choosing
<1>2. v.c = Allocate(w, b, n) /\ v.avoid = w.avoid
  BY <1>1 DEF AllocateAny, WorkFields
<1>3. PICK h, c : h \notin w.avoid /\ Reclaimed(w.c, c, s, b, n, h)
                     /\ Granted(c, Allocate(w, b, n), s, b, n, h)
  BY <1>1, AllocateGrants
<1>4. Suits(w.c, n, h)
  BY <1>3 DEF Suits, Barred
<1>5. Granted(c, v.c, s, b, n, h)
  BY <1>2, <1>3
<1>6. Reclaimed(w.c, c, s, b, n, h)
  BY <1>3
<1>7. v.avoid = w.avoid /\ Waiting(w.c, s, b, n)
  BY <1>1, <1>2
<1> QED BY <1>4, <1>5, <1>6, <1>7, GrantFinishes

(* One of allocate_regs_for_insn()'s steps finds a register for the result. *)
LEMMA ChoiceFinishes ==
  ASSUME NEW s, NEW b, NEW n, Here(s, b, n), NEW c, Ready(c, s, b, n), c.insns[n].op \in Setters,
         NEW m, m = MergeAlias(Locals(c, n), b, n), NEW u, u = SettlePreferred(m, b, n),
         NEW v, v = AllocateRest(u, b, n)
  PROVE  Finished(v, s, b, n) /\ v.c.insns = c.insns
<1>1. /\ Chosen(m, s, b, n) /\ m.c.insns = c.insns
      /\ c.insns[n].op # "get" => Choosable(m, s, b, n) /\ Clean(m)
  BY MergeAliasChanges
<1>2. CASE Given(m.c, s, b, n)
  <2>1. m.c.info[n].allocated = TRUE
    BY <1>1, <1>2, ChoiceEnds
  <2>2. c.insns[n].op = "get"
    BY <1>1, <2>1, ChoiceEnds
  <2>3. u = m /\ v = m
    BY <2>1 DEF SettlePreferred, AllocateRest
  <2> QED BY <1>1, <1>2, <2>2, <2>3 DEF Finished, Barred, Suits
<1>3. CASE Choosable(m, s, b, n)
  <2>1. m.c.info[n].allocated = FALSE
    BY <1>1, <1>3, ChoiceEnds
  <2> DEFINE p == Prefer(m, n)
  <2>2. Prefers(m, p, s, b, n)
    BY <1>1, <1>3, PreferChanges
  <2>3. u = Settle(p, b, n)
    BY <2>1 DEF SettlePreferred
  <2> HIDE DEF p
  <2>4. Choosable(p, s, b, n) /\ Barred(p, n) /\ p.c.insns = c.insns
    BY <1>1, <2>2 DEF Prefers
  <2>5. (Finished(u, s, b, n) \/ u = p) /\ u.c.insns = c.insns
    BY <2>3, <2>4, SettleChanges
  <2>6. CASE Finished(u, s, b, n)
    <3>1. u.c.info[n].allocated = TRUE
      BY <2>5, <2>6, ChoiceEnds DEF Finished
    <3>2. v = u
      BY <3>1 DEF AllocateRest
    <3> QED BY <2>5, <2>6, <3>2
  <2>7. CASE u = p
    <3>1. u.c.info[n].allocated = FALSE
      BY <2>4, <2>7, ChoiceEnds
    <3> DEFINE q == IF u.c.insns[n].op = "shift" THEN Avoiding(u, {CX}) ELSE u
    <3>2. v = AllocateAny(q, b, n)
      BY <3>1 DEF AllocateRest
    <3>3. /\ Choosable(q, s, b, n) /\ Barred(q, n) /\ q.c.insns = c.insns
          /\ c.insns[n].op = "shift" => CX \in q.avoid
      <4>1. CASE c.insns[n].op = "shift"
        <5>1. q = Avoiding(u, {CX})
          BY <2>5, <4>1
        <5> HIDE DEF q
        <5>2. Narrow(u.avoid)
          BY <2>4, <2>7 DEF Choosable
        <5>3. Narrow(u.avoid \cup {CX})
          BY <5>2 DEF Narrow, FixedHosts
        <5>4. Choosable(q, s, b, n) /\ SameChoice(u, q) /\ q.avoid = u.avoid \cup {CX}
          BY <2>4, <2>7, <5>1, <5>3, AvoidingChanges
        <5> QED BY <2>5, <4>1, <5>4 DEF SameChoice, Barred
      <4>2. CASE c.insns[n].op # "shift"
        BY <2>4, <2>5, <2>7, <4>2
      <4> QED BY <4>1, <4>2
    <3> HIDE DEF q
    <3> QED BY <3>2, <3>3, AnyFinishes
  <2> QED BY <2>5, <2>6, <2>7
<1> QED BY <1>1, <1>2, <1>3 DEF Chosen

(* Where values are does not depend on what else is known of them. *)
SameHomes(c, d, n) ==
  /\ d.insns = c.insns /\ d.death = c.death /\ d.map = c.map
  /\ \A r \in 1..n : /\ d.info[r].allocated = c.info[r].allocated /\ d.info[r].host = c.info[r].host
                     /\ d.info[r].spilled = c.info[r].spilled
                     /\ d.info[r].spill_insn = c.info[r].spill_insn

(* Placed is about homes only. *)
LEMMA HomesPlaced ==
  ASSUME NEW c, NEW d, NEW n \in Nat, SameHomes(c, d, n), NEW e, Placed(c, n, e)
  PROVE  Placed(d, n, e)
<1>1. MapOK(d, n)
  BY DEF Placed, MapOK, SameHomes
<1>2. InPlace(d, n, e)
  BY DEF Placed, InPlace, SameHomes
<1>3. SpillsOK(d, n)
  <2> SUFFICES ASSUME NEW r \in 1..n
               PROVE  \/ d.info[r].spilled = FALSE /\ d.info[r].spill_insn = 0
                      \/ LET m == d.info[r].spill_insn IN
                           /\ d.info[r].spilled = TRUE /\ m \in (r + 1)..n
                           /\ d.insns[m].op \in Setters /\ d.info[m].host = d.info[r].host
    BY DEF SpillsOK
  <2>1. \/ c.info[r].spilled = FALSE /\ c.info[r].spill_insn = 0
        \/ LET m == c.info[r].spill_insn IN
             /\ c.info[r].spilled = TRUE /\ m \in (r + 1)..n
             /\ c.insns[m].op \in Setters /\ c.info[m].host = c.info[r].host
    BY DEF Placed, SpillsOK
  <2>2. \A m \in (r + 1)..n : m \in 1..n /\ d.info[m].host = c.info[m].host
    BY DEF SameHomes
  <2> QED BY <2>1, <2>2 DEF SameHomes
<1>4. Shared(d, n)
  <2>1. \A m \in 1..n : \A r \in 1..(m - 1) : r \in 1..n
    OBVIOUS
  <2> QED BY <2>1 DEF Placed, Shared, SameHomes
<1> QED BY <1>1, <1>2, <1>3, <1>4 DEF Placed

(* The temporary, if one is needed, is a register that nobody has or the reserved one,
   and none of those that the instruction avoids. *)
TempSuits(c, n, avoid, temp) ==
  IF NeedsTemporary(c, n) THEN temp = R15 \/ (temp \in Free(c) /\ temp \notin avoid) ELSE temp = None

(* The temporary is one of those, and nothing else changes. *)
LEMMA TemporaryChanges ==
  ASSUME NEW s, NEW b, NEW n, Here(s, b, n), NEW c, Given(c, s, b, n), NEW avoid,
         NEW d, d = Temporary(c, n, avoid)
  PROVE  /\ Shape(d, s) /\ Steady(c, d, n) /\ SameHomes(c, d, n) /\ SameMerges(c, d) /\ Asserts(d)
         /\ TempSuits(c, n, avoid, d.info[n].temp)
<1> DEFINE N == Len(s.insns)
           also  == IF c.insns[n].op = "shift" THEN {} ELSE {HostOf(c, c.insns[n].s1), HostOf(c, c.insns[n].s2)}
           S     == Free(c) \ (avoid \cup c.early \cup also)
           temp  == IF Get(S) = None THEN R15 ELSE Get(S)
           e     == [c EXCEPT !.info[n].temp = temp]
<1>1. N \in Nat /\ n \in Int /\ n \in 1..N /\ n \in 0..N
  BY HereFacts
<1> HIDE DEF N
<1>2. Shape(c, s) /\ Asserts(c) /\ c.info[n].temp = None
  BY DEF Given, Core
<1>3. DOMAIN c.insns = 1..N /\ DOMAIN c.info = 0..N /\ DOMAIN c.info[n] = InfoFields /\ n \in DOMAIN c.info
  BY <1>1, <1>2 DEF Shape, N
<1>4. d = IF NeedsTemporary(c, n) THEN Touch(e, {temp}) ELSE c
  BY DEF Temporary
<1>5. temp = R15 \/ (temp \in Free(c) /\ temp \notin avoid)
  <2>1. S \subseteq Hosts /\ S \subseteq Free(c) \ avoid
    BY DEF Free
  <2> HIDE DEF S
  <2>2. Get(S) # None => Get(S) \in S
    BY <2>1, GetIn
  <2> QED BY <2>1, <2>2
<1> HIDE DEF temp
<1>6. CASE ~NeedsTemporary(c, n)
  <2>1. d = c
    BY <1>4, <1>6
  <2>2. Steady(c, c, n) /\ SameHomes(c, c, n) /\ SameMerges(c, c)
    BY DEF Steady, KeepsUnit, SamePlace, SameHomes, SameMerges
  <2> QED BY <1>2, <1>6, <2>1, <2>2 DEF TempSuits
<1>7. CASE NeedsTemporary(c, n)
  <2>1. /\ DOMAIN e = CtxFields /\ e.blocks = c.blocks /\ e.opts = c.opts /\ e.insns = c.insns
        /\ e.death = c.death /\ e.binfo = c.binfo /\ e.fixed = c.fixed
        /\ e.early = c.early /\ e.map = c.map /\ e.natural = c.natural /\ e.ok = c.ok
        /\ DOMAIN e.info = DOMAIN c.info
        /\ e.info[n] = [c.info[n] EXCEPT !.temp = temp]
        /\ \A q \in DOMAIN c.info : q # n => e.info[q] = c.info[q]
    BY <1>2, <1>3 DEF Shape, CtxFields
  <2> HIDE DEF e
  <2>2. /\ DOMAIN e.info[n] = InfoFields /\ e.info[n].temp = temp
        /\ e.info[n].allocated = c.info[n].allocated
        /\ e.info[n].host = c.info[n].host /\ e.info[n].spilled = c.info[n].spilled
        /\ e.info[n].spill_insn = c.info[n].spill_insn
        /\ e.info[n].merge = c.info[n].merge /\ e.info[n].host_merge = c.info[n].host_merge
    BY <1>3, <2>1 DEF InfoFields
  <2>3. Shape(e, s) /\ Asserts(e)
    <3>1. ASSUME NEW q \in 0..N PROVE DOMAIN e.info[q] = InfoFields /\ e.info[q].host \in Hosts
      <4>1. q \in DOMAIN c.info /\ DOMAIN c.info[q] = InfoFields /\ c.info[q].host \in Hosts
        BY <1>2, <1>3 DEF Shape, N
      <4> QED BY <2>1, <2>2, <4>1
    <3>2. Shape(e, s)
      BY <1>2, <2>1, <3>1 DEF Shape, N
    <3> QED BY <1>2, <2>1, <3>2 DEF Asserts
  <2>4. Steady(c, e, n)
    BY <1>3, <2>1 DEF Steady, KeepsUnit, SamePlace
  <2>5. SameHomes(c, e, n)
    <3>1. \A r \in 1..n : r \in DOMAIN c.info
      BY <1>1, <1>3
    <3> QED BY <2>1, <2>2, <3>1 DEF SameHomes
  <2>6. SameMerges(c, e)
    <3>1. \A r \in 1..N : r \in DOMAIN c.info
      BY <1>3
    <3> QED BY <1>3, <2>1, <2>2, <3>1 DEF SameMerges
  <2>7. d = Touch(e, {temp})
    BY <1>4, <1>7
  <2>8. Quiet(e, d, s)
    BY <2>3, <2>7, TouchChanges
  <2>9. /\ Shape(d, s) /\ Asserts(d) /\ d.insns = e.insns /\ d.death = e.death /\ d.fixed = e.fixed
        /\ d.map = e.map /\ d.info = e.info /\ d.early = e.early /\ KeepsUnit(e, d)
    BY <2>3, <2>8 DEF Quiet, KeepsUnit
  <2>10. Steady(c, d, n)
    <3>1. DOMAIN e.binfo = DOMAIN c.binfo
      BY <2>1
    <3> QED BY <2>4, <2>9, <3>1 DEF Steady, KeepsUnit
  <2>11. SameHomes(c, d, n)
    BY <2>5, <2>9 DEF SameHomes
  <2>12. SameMerges(c, d)
    BY <2>6, <2>9 DEF SameMerges
  <2>13. TempSuits(c, n, avoid, d.info[n].temp)
    BY <1>5, <1>7, <2>2, <2>9 DEF TempSuits
  <2> QED BY <2>9, <2>10, <2>11, <2>12, <2>13
<1> QED BY <1>6, <1>7

(* With its temporary the result is allocated as all before it. *)
LEMMA TemporaryScans ==
  ASSUME NEW s, NEW b, NEW n, Here(s, b, n), NEW v, Finished(v, s, b, n), v.c.insns[n].op \in Setters,
         NEW d, d = Temporary(v.c, n, v.avoid)
  PROVE  Scanned(d, s, b, n)
<1> DEFINE c == v.c
           N == Len(s.insns)
           temp == d.info[n].temp
<1>1. /\ Given(c, s, b, n) /\ Barred(v, n) /\ Suits(c, n, HostOf(c, n))
      /\ Shape(c, s) /\ Static(c, s) /\ Results(c, n - 1) /\ Pending(c, n) /\ Placed(c, n, n)
      /\ Promises(c, s, b, n)
  BY DEF Finished, Given, Core
<1>2. /\ Shape(d, s) /\ Steady(c, d, n) /\ SameHomes(c, d, n) /\ SameMerges(c, d) /\ Asserts(d)
      /\ TempSuits(c, n, v.avoid, temp)
  BY <1>1, TemporaryChanges
<1>3. /\ N \in Nat /\ n \in Nat /\ n \in 1..n /\ n \in 1..N /\ b \in DOMAIN s.blocks
      /\ InBlock(s, b) \subseteq 1..N /\ DOMAIN c.insns = 1..N
  BY <1>1, HereFacts DEF Here, Shape
<1>4. Static(d, s)
  BY <1>1, <1>2, StaticKept DEF Steady
<1>5. Placed(d, n, n)
  BY <1>1, <1>2, <1>3, HomesPlaced
<1>6. Pending(d, n) /\ Results(d, n - 1)
  BY <1>1, <1>2, SteadyHere
<1>7. Promises(d, s, b, n)
  BY <1>1, <1>2, <1>3, PromisesKept
<1>8. ResultOK(d, n)
  <2>1. /\ d.insns = c.insns /\ d.info[n].host = c.info[n].host
        /\ \A r \in 1..(n - 1) : d.info[r].host = c.info[r].host
    BY <1>2, <1>3 DEF SameHomes
  <2>2. c.insns[n].op \in Reads => c.insns[n].s2 \in 1..(n - 1)
    BY <1>1, <1>3 DEF Static, CodeOK, InsnOK, SettersBefore
  <2>3. /\ DX \in Hosts /\ AX \in Hosts /\ R15 \notin {AX, DX} /\ R15 # None /\ None \notin {AX, DX}
        /\ AX # DX
    BY HostsFacts DEF FixedHosts, AX, DX
  <2>4. \A h \in Hosts : h \in Free(c) <=> c.map[h] = 0
    BY DEF Free
  <2> DEFINE op == c.insns[n].op
             divisor == HostOf(c, c.insns[n].s2)
  <2>5. CASE op = "mulh"
    <3>1. d.info[n].host # AX
      BY <1>1, <2>1, <2>5 DEF Suits, HostOf
    <3>2. temp # DX
      BY <1>1, <1>2, <2>3, <2>4, <2>5 DEF Barred, TempSuits
    <3> QED BY <2>1, <2>5, <3>1, <3>2 DEF ResultOK
  <2>6. CASE op \in {"div", "mod"}
    <3>1. d.info[c.insns[n].s2].host = divisor
      BY <2>1, <2>2, <2>6 DEF Reads, HostOf
    <3>2. temp \notin {AX, DX}
      BY <1>1, <1>2, <2>3, <2>6 DEF Barred, TempSuits
    <3>3. divisor = SavedFor(op) => NeedsTemporary(c, n)
      BY <2>6 DEF NeedsTemporary
    <3>4. divisor = SavedFor(op) => temp # None
      <4>1. None \notin Free(c)
        BY HostsFacts DEF Free
      <4> QED BY <1>2, <2>3, <3>3, <4>1 DEF TempSuits
    <3>5. /\ op = "div" => SavedFor(op) = DX /\ d.info[n].host \notin {divisor, DX}
          /\ op = "mod" => SavedFor(op) = AX /\ d.info[n].host \notin {divisor, AX}
      BY <1>1, <2>1 DEF SavedFor, Suits, HostOf
    <3> QED BY <2>1, <2>6, <3>1, <3>2, <3>4, <3>5 DEF ResultOK
  <2>7. CASE op \notin {"mulh", "div", "mod"}
    BY <1>1, <2>1, <2>7 DEF ResultOK, Suits, HostOf
  <2> QED BY <2>5, <2>6, <2>7
<1>9. Results(d, n)
  <2>1. \A r \in 1..n : r = n \/ r \in 1..(n - 1)
    BY <1>3
  <2> QED BY <1>6, <1>8, <2>1 DEF Results
<1> QED BY <1>2, <1>4, <1>5, <1>6, <1>7, <1>9 DEF Scanned

(* Dead registers may go, and other state may change, once n is done. *)
LEMMA DropScans ==
  ASSUME NEW s, NEW b, NEW n, Here(s, b, n), NEW c, Scanned(c, s, b, n), NEW d, d = DropIfDead(c, n)
  PROVE  Scanned(d, s, b, n)
<1> DEFINE N == Len(s.insns)
<1>1. /\ Shape(c, s) /\ Static(c, s) /\ Asserts(c)
      /\ Placed(c, n, n) /\ Pending(c, n) /\ Results(c, n) /\ Promises(c, s, b, n)
  BY DEF Scanned
<1>2. /\ N \in Nat /\ n \in Int /\ n \in 0..N /\ b \in DOMAIN s.blocks
      /\ InBlock(s, b) \subseteq DOMAIN c.insns
  BY <1>1, HereFacts DEF Here, Shape
<1>3. CASE c.death[n] # n
  BY <1>3 DEF DropIfDead
<1>4. CASE c.death[n] = n
  <2>1. d = Unassign(c, {n})
    BY <1>4 DEF DropIfDead
  <2>2. Drops(c, d, s, {n}) /\ Asserts(d)
    BY <1>1, <2>1, UnassignChanges
  <2>3. DeadBy(c, {n}, n, n)
    BY <1>2, <1>4 DEF DeadBy
  <2>4. n <= n
    BY <1>2
  <2> HIDE DEF N
  <2>5. Placed(d, n, n)
    BY <1>1, <1>2, <2>2, <2>3, <2>4, DropsPlaced DEF N
  <2>6. /\ Static(c, s) => Static(d, s)
        /\ Pending(c, n) => Pending(d, n)
        /\ Results(c, n) => Results(d, n)
        /\ SameMerges(c, d)
    BY <1>1, <1>2, <2>2, DropsKeeps DEF N
  <2>7. Promises(d, s, b, n)
    BY <1>1, <1>2, <2>6, PromisesKept
  <2>8. Shape(d, s)
    BY <2>2 DEF Drops
  <2> QED BY <1>1, <2>2, <2>5, <2>6, <2>7, <2>8 DEF Scanned
<1> QED BY <1>3, <1>4

(* A quiet step after that changes nothing of it. *)
LEMMA QuietScans ==
  ASSUME NEW s, NEW b, NEW n, n \in 0..Len(s.insns), Len(s.insns) \in Nat, b \in DOMAIN s.blocks,
         InBlock(s, b) \subseteq 1..Len(s.insns), NEW c, Scanned(c, s, b, n), NEW d, Quiet(c, d, s)
  PROVE  Scanned(d, s, b, n)
<1> DEFINE N == Len(s.insns)
<1>1. /\ Shape(c, s) /\ Static(c, s) /\ Asserts(c)
      /\ Placed(c, n, n) /\ Pending(c, n) /\ Results(c, n) /\ Promises(c, s, b, n)
  BY DEF Scanned
<1>2. N \in Nat /\ n \in Int /\ n \in 0..N /\ 0 \in Int /\ n \in n..N /\ 0 <= n
      /\ InBlock(s, b) \subseteq DOMAIN c.insns
  BY <1>1 DEF Shape
<1>3. Steady(c, d, 0) /\ SameMerges(c, d) /\ Shape(d, s) /\ Asserts(d) /\ KeepsUnit(c, d)
  BY <1>1, QuietSteady DEF Quiet
<1>4. CodeOK(c) /\ Static(d, s)
  BY <1>1, <1>3, StaticKept DEF Static
<1> HIDE DEF N
<1>5. /\ \A e \in Int : Placed(c, n, e) => Placed(d, n, e)
      /\ \A m \in n..N : 0 <= m /\ Pending(c, m) => Pending(d, m)
      /\ CodeOK(c) /\ Results(c, n) => Results(d, n)
  BY <1>1, <1>2, <1>3, SteadyKeeps DEF N
<1>6. Promises(d, s, b, n)
  BY <1>1, <1>2, <1>3, PromisesKept
<1> QED BY <1>1, <1>2, <1>3, <1>4, <1>5, <1>6 DEF Scanned

(* An instruction that has no result leaves the registers as they are. *)
LEMMA NoResult ==
  ASSUME NEW c, NEW n \in Nat, n > 0, Placed(c, n - 1, n), c.insns[n].op \notin Setters,
         c.info[n].spilled = FALSE, c.info[n].spill_insn = 0
  PROVE  Placed(c, n, n)
<1>1. \A r \in 1..n : r = n \/ r \in 1..(n - 1)
  OBVIOUS
<1>2. MapOK(c, n)
  BY DEF Placed, MapOK
<1>3. InPlace(c, n, n)
  BY <1>1 DEF Placed, InPlace
<1>4. SpillsOK(c, n)
  <2> SUFFICES ASSUME NEW r \in 1..n
               PROVE  \/ c.info[r].spilled = FALSE /\ c.info[r].spill_insn = 0
                      \/ LET m == c.info[r].spill_insn IN
                           /\ c.info[r].spilled = TRUE /\ m \in (r + 1)..n
                           /\ c.insns[m].op \in Setters /\ c.info[m].host = c.info[r].host
    BY DEF SpillsOK
  <2>1. CASE r = n
    BY <2>1
  <2>2. CASE r \in 1..(n - 1)
    <3>1. \A m \in (r + 1)..(n - 1) : m \in (r + 1)..n
      OBVIOUS
    <3> QED BY <2>2, <3>1 DEF Placed, SpillsOK
  <2> QED BY <1>1, <2>1, <2>2
<1>5. Shared(c, n)
  BY <1>1 DEF Placed, Shared
<1> QED BY <1>2, <1>3, <1>4, <1>5 DEF Placed

(* Every instruction, with a result or without, ends up so. *)
LEMMA ResultScans ==
  ASSUME NEW s, NEW b, NEW n, Here(s, b, n), NEW c, Ready(c, s, b, n), NEW d, d = AllocResult(c, b, n)
  PROVE  Scanned(d, s, b, n)
<1>1. CASE c.insns[n].op \in Setters
  <2> DEFINE m == MergeAlias(Locals(c, n), b, n)
             u == SettlePreferred(m, b, n)
             v == AllocateRest(u, b, n)
             t == Temporary(v.c, n, v.avoid)
  <2>1. d = DropIfDead(t, n)
    BY <1>1 DEF AllocResult, AllocDest, TemporaryAfter
  <2>2. Finished(v, s, b, n) /\ v.c.insns = c.insns
    BY <1>1, ChoiceFinishes
  <2> HIDE DEF v
  <2>3. Scanned(t, s, b, n)
    BY <1>1, <2>2, TemporaryScans
  <2> HIDE DEF t
  <2> QED BY <2>1, <2>3, DropScans
<1>2. CASE c.insns[n].op \notin Setters
  <2>1. d = c
    BY <1>2 DEF AllocResult
  <2>2. /\ Shape(c, s) /\ Static(c, s) /\ Asserts(c) /\ Results(c, n - 1) /\ Pending(c, n - 1)
        /\ Placed(c, n - 1, n) /\ Promises(c, s, b, n - 1)
    BY DEF Ready
  <2>3. n \in Int /\ n \in Nat /\ n > 0 /\ DOMAIN c.insns \subseteq Int /\ n \in DOMAIN c.insns
    BY <2>2, HereFacts DEF Shape
  <2>4. Pending(c, n) /\ IsPending(c, n)
    BY <2>2, <2>3, PendingLater
  <2>5. Placed(c, n, n)
    BY <1>2, <2>2, <2>3, <2>4, NoResult DEF IsPending
  <2>6. Promises(c, s, b, n)
    <3>1. c.insns[n].op # "get"
      BY <1>2 DEF Setters
    <3> QED BY <2>2, <3>1, PromisesPass
  <2>7. Results(c, n)
    <3>1. \A r \in 1..n : r = n \/ r \in 1..(n - 1)
      BY <2>3
    <3> QED BY <1>2, <2>2, <3>1 DEF Results
  <2> QED BY <2>1, <2>2, <2>4, <2>5, <2>6, <2>7 DEF Scanned
<1> QED BY <1>1, <1>2

(* The call's record changes nothing that an instruction starts from. *)
LEMMA QuietReady ==
  ASSUME NEW s, NEW b, NEW n, Here(s, b, n), NEW c, Ready(c, s, b, n), NEW d, Quiet(c, d, s)
  PROVE  Ready(d, s, b, n)
<1> DEFINE N == Len(s.insns)
           k == n - 1
<1>1. /\ Shape(c, s) /\ Static(c, s) /\ Asserts(c) /\ Results(c, k) /\ Pending(c, k)
      /\ Placed(c, k, n) /\ Promises(c, s, b, k) /\ Vacated(c, n)
  BY DEF Ready
<1>2. /\ N \in Nat /\ n \in Int /\ k \in Int /\ k \in 0..N /\ 0 \in Int /\ k \in k..N /\ 0 <= k
      /\ b \in DOMAIN s.blocks /\ InBlock(s, b) \subseteq DOMAIN c.insns
  BY <1>1, HereFacts DEF Here, Shape
<1>3. Steady(c, d, 0) /\ SameMerges(c, d) /\ Shape(d, s) /\ Asserts(d) /\ KeepsUnit(c, d)
  BY <1>1, QuietSteady DEF Quiet
<1>4. CodeOK(c) /\ Static(d, s)
  BY <1>1, <1>3, StaticKept DEF Static
<1>5. Vacated(d, n)
  BY <1>1, <1>2, <1>3, VacatedKept
<1> HIDE DEF N, k
<1>6. /\ \A e \in Int : Placed(c, k, e) => Placed(d, k, e)
      /\ \A m \in k..N : 0 <= m /\ Pending(c, m) => Pending(d, m)
      /\ CodeOK(c) /\ Results(c, k) => Results(d, k)
  BY <1>1, <1>2, <1>3, SteadyKeeps DEF N
<1>7. Promises(d, s, b, k)
  BY <1>1, <1>2, <1>3, PromisesKept
<1> QED BY <1>1, <1>2, <1>3, <1>4, <1>5, <1>6, <1>7 DEF Ready, k

(* The operands' registers are released before the result is given one. *)
LEMMA BeforeResult ==
  ASSUME NEW s, NEW b, NEW n, Here(s, b, n), NEW c, Scanned(c, s, b, n - 1)
  PROVE  Ready(AtCall(Release(ReloadedForStore(c, c.insns[n]), n), n), s, b, n)
<1> DEFINE N == Len(s.insns)
           k == n - 1
           c1 == ReloadedForStore(c, c.insns[n])
           c2 == Release(c1, n)
           c3 == AtCall(c2, n)
           R == {r \in Operands(c1, n) : c1.death[r] = n}
<1>1. /\ N \in Nat /\ n \in Int /\ k \in Int /\ k \in 0..N /\ n \in 0..N /\ n \in 1..N
      /\ b \in DOMAIN s.blocks /\ InBlock(s, b) \subseteq 1..N
  BY HereFacts DEF Here
<1>3. Shape(c, s)
  BY DEF Scanned
<1>4. Scanned(c1, s, b, k)
  <2>1. Quiet(c, c1, s)
    BY <1>3, ReloadedChanges
  <2> HIDE DEF c1, k
  <2> QED BY <1>1, <2>1, QuietScans DEF k
<1> HIDE DEF c1
<1>5. /\ Shape(c1, s) /\ Static(c1, s) /\ Asserts(c1)
      /\ Placed(c1, k, k) /\ Pending(c1, k) /\ Results(c1, k) /\ Promises(c1, s, b, k)
  BY <1>4 DEF Scanned
<1>6. Drops(c1, c2, s, R) /\ Asserts(c2) /\ Placed(c2, k, n) /\ Vacated(c2, n)
  <2> HIDE DEF N
  <2> QED BY <1>1, <1>5, ReleaseChanges DEF N
<1> HIDE DEF c2, R
<1>7. /\ Static(c1, s) => Static(c2, s)
      /\ Pending(c1, k) => Pending(c2, k)
      /\ Results(c1, k) => Results(c2, k)
      /\ SameMerges(c1, c2)
  <2> HIDE DEF N, k
  <2> QED BY <1>1, <1>5, <1>6, DropsKeeps DEF N
<1>8. Promises(c2, s, b, k)
  <2>1. InBlock(s, b) \subseteq DOMAIN c1.insns
    BY <1>1, <1>5 DEF Shape
  <2> QED BY <1>1, <1>5, <1>7, <2>1, PromisesKept
<1>9. Ready(c2, s, b, n)
  BY <1>5, <1>6, <1>7, <1>8 DEF Ready, Drops
<1>10. Ready(c3, s, b, n)
  <2>1. Shape(c2, s) /\ n \in DOMAIN c2.insns
    BY <1>1, <1>9 DEF Ready, Shape
  <2>2. Quiet(c2, c3, s)
    BY <2>1, AtCallChanges
  <2> HIDE DEF c3
  <2> QED BY <1>9, <2>2, QuietReady
<1> QED BY <1>10 DEF c2, c1

(* All of allocate_regs_for_insn(). *)
LEMMA InsnScans ==
  ASSUME NEW s, NEW b, NEW n, Here(s, b, n), NEW c, Scanned(c, s, b, n - 1), NEW d, d = AllocInsn(c, b, n)
  PROVE  Scanned(d, s, b, n)
<1> DEFINE c3 == AtCall(Release(ReloadedForStore(c, c.insns[n]), n), n)
           c4 == AllocResult(c3, b, n)
<1>1. /\ Len(s.insns) \in Nat /\ n \in 0..Len(s.insns) /\ b \in DOMAIN s.blocks
      /\ InBlock(s, b) \subseteq 1..Len(s.insns)
  BY HereFacts DEF Here
<1>2. d = Touch(c4, Clobbers(c.insns[n].op))
  BY DEF AllocInsn
<1>10. Ready(c3, s, b, n)
  BY BeforeResult
<1> HIDE DEF c3
<1>11. Scanned(c4, s, b, n)
  BY <1>10, ResultScans
<1> HIDE DEF c4
<1>12. Quiet(c4, d, s)
  <2>1. Shape(c4, s)
    BY <1>11 DEF Scanned
  <2> QED BY <1>2, <2>1, TouchChanges
<1> QED BY <1>1, <1>11, <1>12, QuietScans

(* The promises of a block are made one load after the other. *)
LEMMA PromisedRecur ==
  ASSUME NEW c, NEW b, NEW n \in Nat, n = Size(c, b)
  PROVE  Promised(c, b) = [i \in 0..n |-> IF i = 0 THEN Opened(c, b) ELSE Promise(Promised(c, b)[i - 1], b, Insn(c, b, i))]
<1> DEFINE Good(f, m) == f = [i \in 0..m |-> IF i = 0 THEN Opened(c, b) ELSE Promise(f[i - 1], b, Insn(c, b, i))]
           Upto == {m \in Nat : \E f : Good(f, m)}
<1>1. 0 \in Upto
  <2>1. Good([i \in 0..0 |-> Opened(c, b)], 0)
    OBVIOUS
  <2> QED BY <2>1
<1>2. ASSUME NEW m \in Nat, m \in Upto PROVE m + 1 \in Upto
  <2>1. PICK f : Good(f, m)
    BY <1>2
  <2> DEFINE g == [i \in 0..(m + 1) |-> IF i = m + 1 THEN Promise(f[m], b, Insn(c, b, m + 1)) ELSE f[i]]
  <2>2. \A i \in 0..m : g[i] = f[i] /\ f[i] = IF i = 0 THEN Opened(c, b) ELSE Promise(f[i - 1], b, Insn(c, b, i))
    BY <2>1
  <2>3. g[m + 1] = Promise(f[m], b, Insn(c, b, m + 1))
    OBVIOUS
  <2>4. g = [i \in 0..(m + 1) |-> g[i]]
    OBVIOUS
  <2> HIDE DEF g
  <2>5. ASSUME NEW i \in 0..(m + 1)
        PROVE  g[i] = IF i = 0 THEN Opened(c, b) ELSE Promise(g[i - 1], b, Insn(c, b, i))
    <3>1. CASE i = m + 1
      <4>1. g[m] = f[m]
        BY <2>2
      <4>2. i - 1 = m /\ i # 0
        BY <3>1
      <4> QED BY <2>3, <3>1, <4>1, <4>2
    <3>2. CASE i # m + 1
      <4>1. i \in 0..m /\ (i # 0 => i - 1 \in 0..m)
        BY <3>2
      <4> QED BY <2>2, <4>1
    <3> QED BY <3>1, <3>2
  <2>6. Good(g, m + 1)
    BY <2>4, <2>5
  <2> QED BY <2>6
<1>3. n \in Upto
  BY <1>1, <1>2, Induction
<1>4. \E f : Good(f, n)
  BY <1>3
<1>5. Promised(c, b) = CHOOSE f : f = [i \in 0..n |-> IF i = 0 THEN Opened(c, b) ELSE Promise(f[i - 1], b, Insn(c, b, i))]
  BY DEF Promised
<1> QED BY <1>4, <1>5

(* The instructions of a block are looked at one after the other. *)
LEMMA AllocatedRecur ==
  ASSUME NEW c, NEW b, NEW n \in Nat, n = Size(c, b)
  PROVE  Allocated(c, b) = [i \in 0..n |-> IF i = 0 THEN StartBlock(c, b) ELSE AllocInsn(Allocated(c, b)[i - 1], b, Insn(c, b, i))]
<1> DEFINE Good(f, m) == f = [i \in 0..m |-> IF i = 0 THEN StartBlock(c, b) ELSE AllocInsn(f[i - 1], b, Insn(c, b, i))]
           Upto == {m \in Nat : \E f : Good(f, m)}
<1>1. 0 \in Upto
  <2>1. Good([i \in 0..0 |-> StartBlock(c, b)], 0)
    OBVIOUS
  <2> QED BY <2>1
<1>2. ASSUME NEW m \in Nat, m \in Upto PROVE m + 1 \in Upto
  <2>1. PICK f : Good(f, m)
    BY <1>2
  <2> DEFINE g == [i \in 0..(m + 1) |-> IF i = m + 1 THEN AllocInsn(f[m], b, Insn(c, b, m + 1)) ELSE f[i]]
  <2>2. \A i \in 0..m : g[i] = f[i] /\ f[i] = IF i = 0 THEN StartBlock(c, b) ELSE AllocInsn(f[i - 1], b, Insn(c, b, i))
    BY <2>1
  <2>3. g[m + 1] = AllocInsn(f[m], b, Insn(c, b, m + 1))
    OBVIOUS
  <2>4. g = [i \in 0..(m + 1) |-> g[i]]
    OBVIOUS
  <2> HIDE DEF g
  <2>5. ASSUME NEW i \in 0..(m + 1)
        PROVE  g[i] = IF i = 0 THEN StartBlock(c, b) ELSE AllocInsn(g[i - 1], b, Insn(c, b, i))
    <3>1. CASE i = m + 1
      <4>1. g[m] = f[m]
        BY <2>2
      <4>2. i - 1 = m /\ i # 0
        BY <3>1
      <4> QED BY <2>3, <3>1, <4>1, <4>2
    <3>2. CASE i # m + 1
      <4>1. i \in 0..m /\ (i # 0 => i - 1 \in 0..m)
        BY <3>2
      <4> QED BY <2>2, <4>1
    <3> QED BY <3>1, <3>2
  <2>6. Good(g, m + 1)
    BY <2>4, <2>5
  <2> QED BY <2>6
<1>3. n \in Upto
  BY <1>1, <1>2, Induction
<1>4. \E f : Good(f, n)
  BY <1>3
<1>5. Allocated(c, b) = CHOOSE f : f = [i \in 0..n |-> IF i = 0 THEN StartBlock(c, b) ELSE AllocInsn(f[i - 1], b, Insn(c, b, i))]
  BY DEF Allocated
<1> QED BY <1>4, <1>5

(* And so are those of the first pass. *)
LEMMA FirstPassedRecur ==
  ASSUME NEW c, NEW b, NEW n \in Nat, n = Size(c, b)
  PROVE  FirstPassed(c, b) = [i \in 0..n |-> IF i = 0 THEN c ELSE FirstPassInsn(FirstPassed(c, b)[i - 1], b, Insn(c, b, i))]
<1> DEFINE Good(f, m) == f = [i \in 0..m |-> IF i = 0 THEN c ELSE FirstPassInsn(f[i - 1], b, Insn(c, b, i))]
           Upto == {m \in Nat : \E f : Good(f, m)}
<1>1. 0 \in Upto
  <2>1. Good([i \in 0..0 |-> c], 0)
    OBVIOUS
  <2> QED BY <2>1
<1>2. ASSUME NEW m \in Nat, m \in Upto PROVE m + 1 \in Upto
  <2>1. PICK f : Good(f, m)
    BY <1>2
  <2> DEFINE g == [i \in 0..(m + 1) |-> IF i = m + 1 THEN FirstPassInsn(f[m], b, Insn(c, b, m + 1)) ELSE f[i]]
  <2>2. \A i \in 0..m : g[i] = f[i] /\ f[i] = IF i = 0 THEN c ELSE FirstPassInsn(f[i - 1], b, Insn(c, b, i))
    BY <2>1
  <2>3. g[m + 1] = FirstPassInsn(f[m], b, Insn(c, b, m + 1))
    OBVIOUS
  <2>4. g = [i \in 0..(m + 1) |-> g[i]]
    OBVIOUS
  <2> HIDE DEF g
  <2>5. ASSUME NEW i \in 0..(m + 1)
        PROVE  g[i] = IF i = 0 THEN c ELSE FirstPassInsn(g[i - 1], b, Insn(c, b, i))
    <3>1. CASE i = m + 1
      <4>1. g[m] = f[m]
        BY <2>2
      <4>2. i - 1 = m /\ i # 0
        BY <3>1
      <4> QED BY <2>3, <3>1, <4>1, <4>2
    <3>2. CASE i # m + 1
      <4>1. i \in 0..m /\ (i # 0 => i - 1 \in 0..m)
        BY <3>2
      <4> QED BY <2>2, <4>1
    <3> QED BY <3>1, <3>2
  <2>6. Good(g, m + 1)
    BY <2>4, <2>5
  <2> QED BY <2>6
<1>3. n \in Upto
  BY <1>1, <1>2, Induction
<1>4. \E f : Good(f, n)
  BY <1>3
<1>5. FirstPassed(c, b) = CHOOSE f : f = [i \in 0..n |-> IF i = 0 THEN c ELSE FirstPassInsn(f[i - 1], b, Insn(c, b, i))]
  BY DEF FirstPassed
<1> QED BY <1>4, <1>5

(* How long a value is live, loop by loop. *)
LEMMA LiveUntilRecur ==
  ASSUME NEW c, NEW d, NEW n \in Nat, n = Latest(DOMAIN c.blocks) + 1
  PROVE  LiveUntil(c, d) = [i \in 0..n |-> IF i = 0 THEN d ELSE Through(c, i - 1, LiveUntil(c, d)[i - 1])]
<1> DEFINE Good(f, m) == f = [i \in 0..m |-> IF i = 0 THEN d ELSE Through(c, i - 1, f[i - 1])]
           Upto == {m \in Nat : \E f : Good(f, m)}
<1>1. 0 \in Upto
  <2>1. Good([i \in 0..0 |-> d], 0)
    OBVIOUS
  <2> QED BY <2>1
<1>2. ASSUME NEW m \in Nat, m \in Upto PROVE m + 1 \in Upto
  <2>1. PICK f : Good(f, m)
    BY <1>2
  <2> DEFINE g == [i \in 0..(m + 1) |-> IF i = m + 1 THEN Through(c, m + 1 - 1, f[m]) ELSE f[i]]
  <2>2. \A i \in 0..m : g[i] = f[i] /\ f[i] = IF i = 0 THEN d ELSE Through(c, i - 1, f[i - 1])
    BY <2>1
  <2>3. g[m + 1] = Through(c, m + 1 - 1, f[m])
    OBVIOUS
  <2>4. g = [i \in 0..(m + 1) |-> g[i]]
    OBVIOUS
  <2> HIDE DEF g
  <2>5. ASSUME NEW i \in 0..(m + 1)
        PROVE  g[i] = IF i = 0 THEN d ELSE Through(c, i - 1, g[i - 1])
    <3>1. CASE i = m + 1
      <4>1. g[m] = f[m]
        BY <2>2
      <4>2. i - 1 = m /\ i # 0
        BY <3>1
      <4> QED BY <2>3, <3>1, <4>1, <4>2
    <3>2. CASE i # m + 1
      <4>1. i \in 0..m /\ (i # 0 => i - 1 \in 0..m)
        BY <3>2
      <4> QED BY <2>2, <4>1
    <3> QED BY <3>1, <3>2
  <2>6. Good(g, m + 1)
    BY <2>4, <2>5
  <2> QED BY <2>6
<1>3. n \in Upto
  BY <1>1, <1>2, Induction
<1>4. \E f : Good(f, n)
  BY <1>3
<1>5. LiveUntil(c, d) = CHOOSE f : f = [i \in 0..n |-> IF i = 0 THEN d ELSE Through(c, i - 1, f[i - 1])]
  BY DEF LiveUntil
<1> QED BY <1>4, <1>5

(* The live ranges of what is stored, predecessor by predecessor. *)
LEMMA StoresExtendedRecur ==
  ASSUME NEW c, NEW b, NEW a, NEW n \in Nat, n = Len(c.blocks[b].entries)
  PROVE  StoresExtended(c, b, a) = [i \in 0..n |-> IF i = 0 THEN c ELSE ExtendStore(StoresExtended(c, b, a)[i - 1], a, c.blocks[b].entries[i])]
<1> DEFINE Good(f, m) == f = [i \in 0..m |-> IF i = 0 THEN c ELSE ExtendStore(f[i - 1], a, c.blocks[b].entries[i])]
           Upto == {m \in Nat : \E f : Good(f, m)}
<1>1. 0 \in Upto
  <2>1. Good([i \in 0..0 |-> c], 0)
    OBVIOUS
  <2> QED BY <2>1
<1>2. ASSUME NEW m \in Nat, m \in Upto PROVE m + 1 \in Upto
  <2>1. PICK f : Good(f, m)
    BY <1>2
  <2> DEFINE g == [i \in 0..(m + 1) |-> IF i = m + 1 THEN ExtendStore(f[m], a, c.blocks[b].entries[m + 1]) ELSE f[i]]
  <2>2. \A i \in 0..m : g[i] = f[i] /\ f[i] = IF i = 0 THEN c ELSE ExtendStore(f[i - 1], a, c.blocks[b].entries[i])
    BY <2>1
  <2>3. g[m + 1] = ExtendStore(f[m], a, c.blocks[b].entries[m + 1])
    OBVIOUS
  <2>4. g = [i \in 0..(m + 1) |-> g[i]]
    OBVIOUS
  <2> HIDE DEF g
  <2>5. ASSUME NEW i \in 0..(m + 1)
        PROVE  g[i] = IF i = 0 THEN c ELSE ExtendStore(g[i - 1], a, c.blocks[b].entries[i])
    <3>1. CASE i = m + 1
      <4>1. g[m] = f[m]
        BY <2>2
      <4>2. i - 1 = m /\ i # 0
        BY <3>1
      <4> QED BY <2>3, <3>1, <4>1, <4>2
    <3>2. CASE i # m + 1
      <4>1. i \in 0..m /\ (i # 0 => i - 1 \in 0..m)
        BY <3>2
      <4> QED BY <2>2, <4>1
    <3> QED BY <3>1, <3>2
  <2>6. Good(g, m + 1)
    BY <2>4, <2>5
  <2> QED BY <2>6
<1>3. n \in Upto
  BY <1>1, <1>2, Induction
<1>4. \E f : Good(f, n)
  BY <1>3
<1>5. StoresExtended(c, b, a) = CHOOSE f : f = [i \in 0..n |-> IF i = 0 THEN c ELSE ExtendStore(f[i - 1], a, c.blocks[b].entries[i])]
  BY DEF StoresExtended
<1> QED BY <1>4, <1>5

(* The aliases, one after the other. *)
LEMMA AliasesExtendedRecur ==
  ASSUME NEW c, NEW b, NEW n \in Nat, n = NumAliases
  PROVE  AliasesExtended(c, b) = [i \in 0..n |-> IF i = 0 THEN c ELSE ExtendAlias(AliasesExtended(c, b)[i - 1], b, i)]
<1> DEFINE Good(f, m) == f = [i \in 0..m |-> IF i = 0 THEN c ELSE ExtendAlias(f[i - 1], b, i)]
           Upto == {m \in Nat : \E f : Good(f, m)}
<1>1. 0 \in Upto
  <2>1. Good([i \in 0..0 |-> c], 0)
    OBVIOUS
  <2> QED BY <2>1
<1>2. ASSUME NEW m \in Nat, m \in Upto PROVE m + 1 \in Upto
  <2>1. PICK f : Good(f, m)
    BY <1>2
  <2> DEFINE g == [i \in 0..(m + 1) |-> IF i = m + 1 THEN ExtendAlias(f[m], b, m + 1) ELSE f[i]]
  <2>2. \A i \in 0..m : g[i] = f[i] /\ f[i] = IF i = 0 THEN c ELSE ExtendAlias(f[i - 1], b, i)
    BY <2>1
  <2>3. g[m + 1] = ExtendAlias(f[m], b, m + 1)
    OBVIOUS
  <2>4. g = [i \in 0..(m + 1) |-> g[i]]
    OBVIOUS
  <2> HIDE DEF g
  <2>5. ASSUME NEW i \in 0..(m + 1)
        PROVE  g[i] = IF i = 0 THEN c ELSE ExtendAlias(g[i - 1], b, i)
    <3>1. CASE i = m + 1
      <4>1. g[m] = f[m]
        BY <2>2
      <4>2. i - 1 = m /\ i # 0
        BY <3>1
      <4> QED BY <2>3, <3>1, <4>1, <4>2
    <3>2. CASE i # m + 1
      <4>1. i \in 0..m /\ (i # 0 => i - 1 \in 0..m)
        BY <3>2
      <4> QED BY <2>2, <4>1
    <3> QED BY <3>1, <3>2
  <2>6. Good(g, m + 1)
    BY <2>4, <2>5
  <2> QED BY <2>6
<1>3. n \in Upto
  BY <1>1, <1>2, Induction
<1>4. \E f : Good(f, n)
  BY <1>3
<1>5. AliasesExtended(c, b) = CHOOSE f : f = [i \in 0..n |-> IF i = 0 THEN c ELSE ExtendAlias(f[i - 1], b, i)]
  BY DEF AliasesExtended
<1> QED BY <1>4, <1>5

(******************************* The blocks ********************************)

(* Between the blocks nothing is promised; and the blocks before, up to instruction n,
   have their registers. *)
Unpromised(c, n) == \A r \in DOMAIN c.insns :
  c.info[r].merge \in BOOLEAN /\ (r > n => c.info[r].merge = FALSE)
Between(c, s, n) ==
  /\ Shape(c, s) /\ Static(c, s) /\ Asserts(c)
  /\ Placed(c, n, n) /\ Pending(c, n) /\ Results(c, n) /\ Unpromised(c, n)

(* The instruction before block b. *)
Ahead(s, b, m) == IsSkeleton(s) /\ b \in DOMAIN s.blocks /\ m = s.blocks[b].first - 1

(* What the numbers are. *)
LEMMA AheadFacts ==
  ASSUME NEW s, NEW b, NEW m, Ahead(s, b, m)
  PROVE  /\ m \in 0..Len(s.insns) /\ m \in Nat /\ m \in Int /\ Len(s.insns) \in Nat
         /\ b \in DOMAIN s.blocks /\ InBlock(s, b) \subseteq 1..Len(s.insns)
         /\ m + 1 = s.blocks[b].first /\ m < s.blocks[b].last
         /\ s.blocks[b].last \in 1..Len(s.insns) /\ s.blocks[b].last - m \in Nat
<1>1. IsSkeleton(s) /\ b \in DOMAIN s.blocks /\ m = s.blocks[b].first - 1
  BY DEF Ahead
<1>2. /\ InBlock(s, b) \subseteq 1..Len(s.insns) /\ Len(s.insns) \in Nat
      /\ s.blocks[b].first \in 1..Len(s.insns) /\ s.blocks[b].last \in 1..Len(s.insns)
      /\ s.blocks[b].first <= s.blocks[b].last
  BY <1>1, BlockFacts
<1> QED BY <1>1, <1>2

(* The block starts with what its predecessors leave, and no promises. *)
LEMMA OpenedScans ==
  ASSUME NEW s, NEW b, NEW m, Ahead(s, b, m), NEW c, Between(c, s, m), NEW d, d = Opened(c, b)
  PROVE  Scanned(d, s, b, m) /\ Unpromised(d, m)
<1> DEFINE N == Len(s.insns)
<1>1. /\ Shape(c, s) /\ Static(c, s) /\ Asserts(c)
      /\ Placed(c, m, m) /\ Pending(c, m) /\ Results(c, m) /\ Unpromised(c, m)
  BY DEF Between
<1>2. /\ m \in 0..N /\ m \in Int /\ N \in Nat /\ 0 \in Int /\ m \in m..N /\ 0 <= m
      /\ b \in DOMAIN c.binfo /\ DOMAIN c.insns = 1..N /\ InBlock(s, b) \subseteq 1..N
      /\ m < s.blocks[b].last /\ s.blocks[b].last \in Int
  BY <1>1, AheadFacts DEF Shape
<1>3. /\ DOMAIN d = CtxFields /\ d.blocks = c.blocks /\ d.opts = c.opts /\ d.insns = c.insns
      /\ d.death = c.death /\ d.fixed = c.fixed /\ d.early = {} /\ d.map = c.map
      /\ d.natural = c.natural /\ d.ok = c.ok /\ d.info = c.info /\ DOMAIN d.binfo = DOMAIN c.binfo
      /\ d.binfo[b] = [c.binfo[b] EXCEPT !.initial = c.map]
      /\ \A e \in DOMAIN c.binfo : e # b => d.binfo[e] = c.binfo[e]
  BY <1>1, <1>2 DEF Opened, Shape, CtxFields, BlockFields
<1> HIDE DEF N
<1>4. /\ DOMAIN d.binfo[b] = BlockFields /\ d.binfo[b].load = c.binfo[b].load
      /\ d.binfo[b].store = c.binfo[b].store
  <2>1. DOMAIN c.binfo[b] = BlockFields
    BY <1>1, <1>2 DEF Shape
  <2> QED BY <1>3, <2>1 DEF BlockFields
<1>5. KeepsUnit(c, d)
  BY <1>3, <1>4 DEF KeepsUnit
<1>6. Shape(d, s)
  <2>1. ASSUME NEW e \in DOMAIN s.blocks
        PROVE  /\ DOMAIN d.binfo[e] = BlockFields
               /\ DOMAIN d.binfo[e].load = Aliases /\ DOMAIN d.binfo[e].store = Aliases
    <3>1. /\ DOMAIN c.binfo[e] = BlockFields
          /\ DOMAIN c.binfo[e].load = Aliases /\ DOMAIN c.binfo[e].store = Aliases
          /\ e \in DOMAIN c.binfo
      BY <1>1 DEF Shape
    <3> QED BY <1>3, <1>4, <3>1
  <2> QED BY <1>1, <1>3, <2>1 DEF Shape
<1>7. Steady(c, d, 0)
  BY <1>3, <1>5 DEF Steady, SamePlace
<1>8. CodeOK(c) /\ Static(d, s) /\ Asserts(d)
  BY <1>1, <1>3, <1>5, <1>6, StaticKept DEF Static, Asserts
<1>9. /\ \A e \in Int : Placed(c, m, e) => Placed(d, m, e)
      /\ \A q \in m..N : 0 <= q /\ Pending(c, q) => Pending(d, q)
      /\ CodeOK(c) /\ Results(c, m) => Results(d, m)
  BY <1>1, <1>2, <1>6, <1>7, SteadyKeeps DEF N
<1>10. Unpromised(d, m)
  BY <1>1, <1>3 DEF Unpromised
<1>11. Promises(d, s, b, m)
  <2>1. \A g \in InBlock(s, b) : g \in DOMAIN d.insns
    BY <1>2, <1>3
  <2>2. Promisees(d, s, b, m) = {}
    BY <1>10, <2>1 DEF Promisees, Unpromised
  <2>3. \A r \in DOMAIN d.insns : r > s.blocks[b].last => d.info[r].merge = FALSE
    <3> SUFFICES ASSUME NEW r \in 1..N, r > s.blocks[b].last PROVE d.info[r].merge = FALSE
      BY <1>2, <1>3
    <3>1. r > m
      BY <1>2
    <3> QED BY <1>2, <1>3, <1>10, <3>1 DEF Unpromised
  <2> QED BY <1>3, <1>10, <2>1, <2>2, <2>3 DEF Promises, Unpromised
<1> QED BY <1>1, <1>2, <1>6, <1>8, <1>9, <1>10, <1>11 DEF Scanned

(* A promise is of a register that is free, and has not been promised yet. *)
LEMMA PromiseChanges ==
  ASSUME NEW s, NEW b, NEW m, Ahead(s, b, m), NEW n, Here(s, b, n),
         NEW c, Scanned(c, s, b, m), Unpromised(c, n - 1), NEW d, d = Promise(c, b, n)
  PROVE  Scanned(d, s, b, m) /\ Unpromised(d, n)
<1> DEFINE N == Len(s.insns)
           entries   == c.blocks[b].entries
           store(k)  == c.binfo[entries[k]].store[c.insns[n].x]
           good(r)   == /\ r # 0 /\ c.info[r].allocated /\ ~c.info[r].spilled
                        /\ HostOf(c, r) \in Free(c) \ c.early
           sources   == {k \in DOMAIN entries : good(store(k))}
           h         == HostOf(c, store(Least(sources)))
           a         == [c EXCEPT !.early = @ \cup {h}]
           e         == [a EXCEPT !.info[n].merge = TRUE, !.info[n].host_merge = h]
<1>1. /\ Shape(c, s) /\ Static(c, s) /\ Asserts(c)
      /\ Placed(c, m, m) /\ Pending(c, m) /\ Results(c, m) /\ Promises(c, s, b, m)
  BY DEF Scanned
<1>2. /\ m \in 0..N /\ m \in Int /\ N \in Nat /\ 0 \in Int /\ m \in m..N /\ 0 <= m
      /\ DOMAIN c.insns = 1..N /\ DOMAIN c.info = 0..N /\ InBlock(s, b) \subseteq 1..N
      /\ m < n /\ n \in 1..N /\ n \in InBlock(s, b) /\ n <= s.blocks[b].last /\ s.blocks[b].last \in Int
  <2>1. m < n
    BY AheadFacts, HereFacts
  <2> QED BY <1>1, <2>1, AheadFacts, HereFacts DEF Shape, Here
<1>3. Unpromised(c, n)
  BY <1>2 DEF Unpromised
<1>4. d = IF c.insns[n].op # "get" \/ sources = {} THEN c ELSE e
  BY DEF Promise
<1>5. sources # {} => h \in Hosts /\ c.map[h] = 0 /\ h \notin c.early
  <2>0. DOMAIN entries \subseteq Nat
    BY <1>1 DEF Shape, Ahead, IsSkeleton, IsBlocks
  <2>1. sources \subseteq DOMAIN entries
    OBVIOUS
  <2>2. \A k \in sources : HostOf(c, store(k)) \in Free(c) \ c.early
    OBVIOUS
  <2> HIDE DEF sources, entries, store
  <2>3. sources # {} => Least(sources) \in sources
    BY <2>0, <2>1, LeastIn
  <2> QED BY <2>2, <2>3 DEF Free
<1> HIDE DEF sources, h, N
<1>6. CASE c.insns[n].op # "get" \/ sources = {}
  BY <1>3, <1>4, <1>6
<1>7. CASE c.insns[n].op = "get" /\ sources # {}
  <2>0. d = e /\ h \in Hosts /\ c.map[h] = 0 /\ h \notin c.early
    BY <1>4, <1>5, <1>7
  <2>a. /\ DOMAIN a = CtxFields /\ a.blocks = c.blocks /\ a.opts = c.opts /\ a.insns = c.insns
        /\ a.death = c.death /\ a.binfo = c.binfo /\ a.fixed = c.fixed
        /\ a.early = c.early \cup {h} /\ a.map = c.map /\ a.natural = c.natural /\ a.ok = c.ok
        /\ a.info = c.info
    BY <1>1 DEF Shape, CtxFields
  <2> HIDE DEF a
  <2>1. /\ DOMAIN e = CtxFields /\ e.blocks = c.blocks /\ e.opts = c.opts /\ e.insns = c.insns
        /\ e.death = c.death /\ e.binfo = c.binfo /\ e.fixed = c.fixed
        /\ e.early = c.early \cup {h} /\ e.map = c.map /\ e.natural = c.natural /\ e.ok = c.ok
        /\ DOMAIN e.info = DOMAIN c.info
        /\ \A q \in DOMAIN c.info : q # n => e.info[q] = c.info[q]
    BY <1>2, <2>a DEF CtxFields
  <2>2. e.info[n] = [c.info[n] EXCEPT !.merge = TRUE, !.host_merge = h]
    <3> DEFINE a1 == [a EXCEPT !.info[n].merge = TRUE]
    <3>0. DOMAIN c.info[n] = InfoFields /\ n \in DOMAIN a.info
      BY <1>1, <1>2, <2>a DEF Shape, N
    <3>1. a1.info[n] = [c.info[n] EXCEPT !.merge = TRUE]
      BY <2>a, <3>0 DEF CtxFields
    <3>2. DOMAIN a1 = CtxFields /\ n \in DOMAIN a1.info
      BY <2>a, <3>0 DEF CtxFields
    <3>3. e = [a1 EXCEPT !.info[n].host_merge = h]
      OBVIOUS
    <3> HIDE DEF a1, e
    <3>4. e.info[n] = [a1.info[n] EXCEPT !.host_merge = h]
      BY <3>2, <3>3 DEF CtxFields
    <3> QED BY <3>1, <3>4
  <2> HIDE DEF e
  <2>3. /\ DOMAIN e.info[n] = InfoFields /\ SamePlace(c.info[n], e.info[n])
        /\ e.info[n].merge = TRUE /\ e.info[n].host_merge = h
    <3>1. DOMAIN c.info[n] = InfoFields
      BY <1>1, <1>2 DEF Shape, N
    <3>2. ASSUME NEW i, NEW j, DOMAIN i = InfoFields, j = [i EXCEPT !.merge = TRUE, !.host_merge = h]
          PROVE  DOMAIN j = InfoFields /\ SamePlace(i, j) /\ j.merge = TRUE /\ j.host_merge = h
      BY <3>2 DEF InfoFields, SamePlace
    <3> QED BY <2>2, <3>1, <3>2
  <2>4. Shape(e, s)
    <3>1. ASSUME NEW q \in 0..N PROVE DOMAIN e.info[q] = InfoFields /\ e.info[q].host \in Hosts
      <4>1. q \in DOMAIN c.info /\ DOMAIN c.info[q] = InfoFields /\ c.info[q].host \in Hosts
        BY <1>1, <1>2 DEF Shape, N
      <4> QED BY <2>1, <2>3, <4>1 DEF SamePlace
    <3>2. c.early \cup {h} \subseteq Hosts
      BY <1>1, <2>0 DEF Shape
    <3> QED BY <1>1, <2>1, <3>1, <3>2 DEF Shape, N
  <2>5. KeepsUnit(c, e)
    BY <2>1 DEF KeepsUnit
  <2>6. Steady(c, e, 0)
    <3>1. \A r \in DOMAIN c.insns : SamePlace(c.info[r], e.info[r])
      <4> SUFFICES ASSUME NEW r \in 1..N PROVE SamePlace(c.info[r], e.info[r])
        BY <1>2
      <4>1. r \in DOMAIN c.info
        BY <1>2
      <4> QED BY <2>1, <2>3, <4>1 DEF SamePlace
    <3> QED BY <2>1, <2>5, <3>1 DEF Steady
  <2>7. CodeOK(c) /\ Static(e, s) /\ Asserts(e)
    BY <1>1, <2>1, <2>4, <2>5, StaticKept DEF Static, Asserts
  <2>8. /\ \A q \in Int : Placed(c, m, q) => Placed(e, m, q)
        /\ \A q \in m..N : 0 <= q /\ Pending(c, q) => Pending(e, q)
        /\ CodeOK(c) /\ Results(c, m) => Results(e, m)
    BY <1>1, <1>2, <2>4, <2>6, SteadyKeeps DEF N
  <2>9. Unpromised(e, n)
    <3> SUFFICES ASSUME NEW r \in 1..N
                 PROVE  e.info[r].merge \in BOOLEAN /\ (r > n => e.info[r].merge = FALSE)
      BY <1>2, <2>1 DEF Unpromised
    <3>1. CASE r = n
      <4>1. ~(r > n)
        BY <1>2, <3>1
      <4>2. e.info[r].merge \in BOOLEAN
        BY <2>3, <3>1
      <4> QED BY <4>1, <4>2
    <3>2. CASE r # n
      <4>1. e.info[r] = c.info[r]
        BY <1>2, <2>1, <3>2
      <4> QED BY <1>2, <1>3, <4>1 DEF Unpromised
    <3> QED BY <3>1, <3>2
  <2>10. Promises(e, s, b, m)
    <3>1. \A g \in InBlock(s, b) : g \in DOMAIN c.info /\ (g # n => e.info[g] = c.info[g])
      BY <1>2, <2>1
    <3>2. c.info[n].merge = FALSE
      BY <1>2 DEF Unpromised
    <3>3. Promisees(e, s, b, m) = Promisees(c, s, b, m) \cup {n}
      BY <1>2, <1>7, <2>1, <2>3, <3>1, <3>2 DEF Promisees
    <3>4. \A g \in Promisees(c, s, b, m) : g # n /\ e.info[g] = c.info[g]
      BY <3>1, <3>2 DEF Promisees
    <3>5. \A f \in e.early : e.map[f] = 0 /\ \E g \in Promisees(e, s, b, m) : e.info[g].host_merge = f
      <4> SUFFICES ASSUME NEW f \in e.early
                   PROVE  e.map[f] = 0 /\ \E g \in Promisees(e, s, b, m) : e.info[g].host_merge = f
        OBVIOUS
      <4>1. CASE f = h
        BY <2>0, <2>1, <2>3, <3>3, <4>1
      <4>2. CASE f \in c.early
        <5>1. c.map[f] = 0 /\ \E g \in Promisees(c, s, b, m) : c.info[g].host_merge = f
          BY <1>1, <4>2 DEF Promises
        <5> QED BY <2>1, <3>3, <3>4, <5>1
      <4> QED BY <2>1, <4>1, <4>2
    <3>6. \A g \in Promisees(e, s, b, m) : e.info[g].host_merge \in e.early
      <4> SUFFICES ASSUME NEW g \in Promisees(e, s, b, m) PROVE e.info[g].host_merge \in e.early
        OBVIOUS
      <4>1. CASE g = n
        BY <2>1, <2>3, <4>1
      <4>2. CASE g \in Promisees(c, s, b, m)
        <5>1. c.info[g].host_merge \in c.early
          BY <1>1, <4>2 DEF Promises
        <5> QED BY <2>1, <3>4, <4>2, <5>1
      <4> QED BY <3>3, <4>1, <4>2
    <3>7. \A g \in Promisees(c, s, b, m) : c.info[g].host_merge # h
      BY <1>1, <2>0 DEF Promises
    <3>8. \A g, f \in Promisees(e, s, b, m) : e.info[g].host_merge = e.info[f].host_merge => g = f
      <4> SUFFICES ASSUME NEW g \in Promisees(e, s, b, m), NEW f \in Promisees(e, s, b, m),
                          e.info[g].host_merge = e.info[f].host_merge
                   PROVE  g = f
        OBVIOUS
      <4>1. CASE g = n /\ f = n
        BY <4>1
      <4>2. CASE g = n /\ f # n
        <5>1. f \in Promisees(c, s, b, m)
          BY <3>3, <4>2
        <5> QED BY <2>3, <3>4, <3>7, <4>2, <5>1
      <4>3. CASE g # n /\ f = n
        <5>1. g \in Promisees(c, s, b, m)
          BY <3>3, <4>3
        <5> QED BY <2>3, <3>4, <3>7, <4>3, <5>1
      <4>4. CASE g # n /\ f # n
        <5>1. g \in Promisees(c, s, b, m) /\ f \in Promisees(c, s, b, m)
          BY <3>3, <4>4
        <5> QED BY <1>1, <3>4, <5>1 DEF Promises
      <4> QED BY <4>1, <4>2, <4>3, <4>4
    <3>9. \A g \in InBlock(s, b) : ~(g <= m)
      BY <1>2, AheadFacts DEF InBlock
    <3>10. \A r \in DOMAIN e.insns : r > s.blocks[b].last => e.info[r].merge = FALSE
      <4> SUFFICES ASSUME NEW r \in 1..N, r > s.blocks[b].last PROVE e.info[r].merge = FALSE
        BY <1>2, <2>1
      <4>1. r > n
        BY <1>2
      <4> QED BY <1>2, <2>1, <2>9, <4>1 DEF Unpromised
    <3> QED BY <2>9, <3>5, <3>6, <3>8, <3>9, <3>10 DEF Promises, Unpromised
  <2> QED BY <1>1, <1>2, <2>0, <2>4, <2>7, <2>8, <2>9, <2>10 DEF Scanned
<1> QED BY <1>6, <1>7

(* The k-th instruction of a block. *)
LEMMA InsnHere ==
  ASSUME NEW s, NEW b, NEW m, Ahead(s, b, m), NEW c, c.blocks = s.blocks
  PROVE  /\ Size(c, b) \in Nat /\ m + Size(c, b) = s.blocks[b].last
         /\ \A k \in 1..Size(c, b) : Here(s, b, Insn(c, b, k)) /\ Insn(c, b, k) = m + k
<1>1. /\ m \in Int /\ m + 1 = s.blocks[b].first /\ s.blocks[b].last \in Int
      /\ s.blocks[b].last - m \in Nat
  BY AheadFacts
<1>2. Size(c, b) = s.blocks[b].last - m
  BY <1>1 DEF Size
<1>3. \A k \in 1..Size(c, b) : Insn(c, b, k) = m + k /\ m + k \in InBlock(s, b)
  BY <1>1, <1>2 DEF Insn, InBlock
<1> QED BY <1>1, <1>2, <1>3 DEF Here, Ahead

(* And with promises, of MERGE_REGS, that are good. *)
LEMMA StartScans ==
  ASSUME NEW s, NEW b, NEW m, Ahead(s, b, m), NEW c, Between(c, s, m), NEW d, d = StartBlock(c, b)
  PROVE  Scanned(d, s, b, m)
<1> DEFINE n == Size(c, b)
           f == Promised(c, b)
           Good == {k \in Nat : k <= n => Scanned(f[k], s, b, m) /\ Unpromised(f[k], m + k)}
<1>1. /\ n \in Nat /\ m \in Int
      /\ \A k \in 1..n : Here(s, b, Insn(c, b, k)) /\ Insn(c, b, k) = m + k
  <2>1. c.blocks = s.blocks
    BY DEF Between, Shape
  <2> QED BY <2>1, InsnHere, AheadFacts
<1>2. \A k \in 0..n : f[k] = IF k = 0 THEN Opened(c, b) ELSE Promise(f[k - 1], b, Insn(c, b, k))
  <2> HIDE DEF n, f
  <2>1. f = [k \in 0..n |-> IF k = 0 THEN Opened(c, b) ELSE Promise(f[k - 1], b, Insn(c, b, k))]
    BY <1>1, PromisedRecur DEF n, f
  <2> QED BY <2>1
<1> HIDE DEF f
<1>3. Scanned(Opened(c, b), s, b, m) /\ Unpromised(Opened(c, b), m)
  BY OpenedScans
<1> HIDE DEF n
<1>4. 0 \in Good
  BY <1>1, <1>2, <1>3
<1>5. ASSUME NEW k \in Nat, k \in Good PROVE k + 1 \in Good
  <2> SUFFICES ASSUME k + 1 <= n
               PROVE  Scanned(f[k + 1], s, b, m) /\ Unpromised(f[k + 1], m + (k + 1))
    OBVIOUS
  <2> DEFINE i == Insn(c, b, k + 1)
  <2>1. k + 1 \in 0..n /\ k + 1 \in 1..n /\ k + 1 # 0 /\ (k + 1) - 1 = k /\ k <= n
    BY <1>1
  <2>2. f[k + 1] = Promise(f[k], b, i)
    BY <1>2, <2>1
  <2>3. Here(s, b, i) /\ i = m + (k + 1) /\ i - 1 = m + k
    BY <1>1, <2>1
  <2>4. Scanned(f[k], s, b, m) /\ Unpromised(f[k], i - 1)
    BY <1>5, <2>1, <2>3
  <2> HIDE DEF i
  <2>5. Scanned(f[k + 1], s, b, m) /\ Unpromised(f[k + 1], i)
    BY <2>2, <2>3, <2>4, PromiseChanges
  <2> QED BY <2>3, <2>5
<1> HIDE DEF Good
<1>6. n \in Good
  BY <1>1, <1>4, <1>5, Induction
<1>7. Scanned(f[n], s, b, m)
  BY <1>1, <1>6 DEF Good
<1> QED BY <1>3, <1>7 DEF StartBlock, f, n

(* All of its instructions are allocated. *)
LEMMA AllocatedScans ==
  ASSUME NEW s, NEW b, NEW m, Ahead(s, b, m), NEW c, Between(c, s, m),
         NEW d, d = Allocated(c, b)[Size(c, b)]
  PROVE  Scanned(d, s, b, s.blocks[b].last)
<1> DEFINE n == Size(c, b)
           f == Allocated(c, b)
           Good == {k \in Nat : k <= n => Scanned(f[k], s, b, m + k)}
<1>1. /\ n \in Nat /\ m \in Int /\ m + n = s.blocks[b].last
      /\ \A k \in 1..n : Here(s, b, Insn(c, b, k)) /\ Insn(c, b, k) = m + k
  <2>1. c.blocks = s.blocks
    BY DEF Between, Shape
  <2> QED BY <2>1, InsnHere, AheadFacts
<1>2. \A k \in 0..n : f[k] = IF k = 0 THEN StartBlock(c, b) ELSE AllocInsn(f[k - 1], b, Insn(c, b, k))
  <2> HIDE DEF n, f
  <2>1. f = [k \in 0..n |-> IF k = 0 THEN StartBlock(c, b) ELSE AllocInsn(f[k - 1], b, Insn(c, b, k))]
    BY <1>1, AllocatedRecur DEF n, f
  <2> QED BY <2>1
<1>0. d = f[n]
  OBVIOUS
<1> HIDE DEF f
<1>3. Scanned(StartBlock(c, b), s, b, m)
  BY StartScans
<1> HIDE DEF n
<1>4. 0 \in Good
  BY <1>1, <1>2, <1>3
<1>5. ASSUME NEW k \in Nat, k \in Good PROVE k + 1 \in Good
  <2> SUFFICES ASSUME k + 1 <= n PROVE Scanned(f[k + 1], s, b, m + (k + 1))
    OBVIOUS
  <2> DEFINE i == Insn(c, b, k + 1)
  <2>1. k + 1 \in 0..n /\ k + 1 \in 1..n /\ k + 1 # 0 /\ (k + 1) - 1 = k /\ k <= n
    BY <1>1
  <2>2. f[k + 1] = AllocInsn(f[k], b, i)
    BY <1>2, <2>1
  <2>3. Here(s, b, i) /\ i = m + (k + 1) /\ i - 1 = m + k
    BY <1>1, <2>1
  <2>4. Scanned(f[k], s, b, i - 1)
    BY <1>5, <2>1, <2>3
  <2> HIDE DEF i
  <2>5. Scanned(f[k + 1], s, b, i)
    BY <2>2, <2>3, <2>4, InsnScans
  <2> QED BY <2>3, <2>5
<1> HIDE DEF Good
<1>6. n \in Good
  BY <1>1, <1>4, <1>5, Induction
<1> QED BY <1>0, <1>1, <1>6 DEF Good

(* The allocation of a block, from what its predecessors leave to what it leaves. *)
LEMMA AllocBlockChanges ==
  ASSUME NEW s, NEW b, NEW m, Ahead(s, b, m), NEW c, Between(c, s, m), NEW d, d = AllocBlock(c, b)
  PROVE  Between(d, s, s.blocks[b].last)
<1> DEFINE N == Len(s.insns)
           n == s.blocks[b].last
           a == Allocated(c, b)[Size(c, b)]
           R == {r \in DOMAIN a.death : a.death[r] <= n}
           e == Unassign(a, R)
<1>1. /\ N \in Nat /\ n \in Int /\ n \in 0..N /\ b \in DOMAIN s.blocks
      /\ InBlock(s, b) \subseteq 1..N
  BY AheadFacts
<1>2. Scanned(a, s, b, n)
  BY AllocatedScans
<1>3. d = EndBlock(a, b)
  BY DEF AllocBlock
<1> HIDE DEF a, N
<1>4. /\ Shape(a, s) /\ Static(a, s) /\ Asserts(a)
      /\ Placed(a, n, n) /\ Pending(a, n) /\ Results(a, n) /\ Promises(a, s, b, n)
      /\ a.blocks = s.blocks
  BY <1>2 DEF Scanned, Shape
<1>5. Drops(a, e, s, R) /\ Asserts(e)
  BY <1>4, UnassignChanges
<1>6. DeadBy(a, R, n, n)
  BY DEF DeadBy
<1>7. d = [e EXCEPT !.binfo[b].end_live = Hosts \ Free(e), !.regs_touched = @ \cup a.touched]
  BY <1>3, <1>4 DEF EndBlock
<1> HIDE DEF e, R, n
<1>8. n <= n
  BY <1>1
<1>9. Placed(e, n, n)
  BY <1>1, <1>4, <1>5, <1>6, <1>8, DropsPlaced DEF N
<1>10. /\ Static(a, s) => Static(e, s)
       /\ Pending(a, n) => Pending(e, n)
       /\ Results(a, n) => Results(e, n)
       /\ SameMerges(a, e)
  BY <1>1, <1>4, <1>5, DropsKeeps DEF N
<1>11. Unpromised(e, n)
  BY <1>4, <1>10 DEF Promises, Unpromised, SameMerges, n
<1>12. Shape(e, s) /\ Static(e, s) /\ Pending(e, n) /\ Results(e, n)
  BY <1>4, <1>5, <1>10 DEF Drops
<1>13. b \in DOMAIN e.binfo /\ DOMAIN e.binfo[b] = BlockFields
  BY <1>1, <1>12 DEF Shape
<1>14. /\ DOMAIN d = CtxFields /\ d.blocks = e.blocks /\ d.opts = e.opts /\ d.insns = e.insns
       /\ d.death = e.death /\ d.fixed = e.fixed /\ d.early = e.early /\ d.map = e.map
       /\ d.natural = e.natural /\ d.ok = e.ok /\ d.info = e.info /\ DOMAIN d.binfo = DOMAIN e.binfo
       /\ d.binfo[b] = [e.binfo[b] EXCEPT !.end_live = Hosts \ Free(e)]
       /\ \A q \in DOMAIN e.binfo : q # b => d.binfo[q] = e.binfo[q]
  BY <1>7, <1>12, <1>13 DEF Shape, CtxFields
<1>15. /\ DOMAIN d.binfo[b] = BlockFields /\ d.binfo[b].load = e.binfo[b].load
       /\ d.binfo[b].store = e.binfo[b].store
  BY <1>13, <1>14 DEF BlockFields
<1>16. Quiet(e, d, s)
  <2>1. KeepsUnit(e, d)
    BY <1>14, <1>15 DEF KeepsUnit
  <2>2. ASSUME NEW q \in DOMAIN s.blocks
        PROVE  /\ DOMAIN d.binfo[q] = BlockFields
               /\ DOMAIN d.binfo[q].load = Aliases /\ DOMAIN d.binfo[q].store = Aliases
    <3>1. /\ DOMAIN e.binfo[q] = BlockFields
          /\ DOMAIN e.binfo[q].load = Aliases /\ DOMAIN e.binfo[q].store = Aliases
          /\ q \in DOMAIN e.binfo
      BY <1>12 DEF Shape
    <3> QED BY <1>14, <1>15, <3>1
  <2>3. Shape(d, s)
    BY <1>12, <1>14, <2>2 DEF Shape
  <2> QED BY <1>14, <2>1, <2>3 DEF Quiet, Asserts
<1>17. Promises(e, s, b, n)
  <2>1. InBlock(s, b) \subseteq DOMAIN a.insns
    BY <1>1, <1>4 DEF Shape, N
  <2> QED BY <1>1, <1>4, <1>10, <2>1, PromisesKept
<1>18. Scanned(d, s, b, n)
  <2>1. Scanned(e, s, b, n)
    BY <1>5, <1>9, <1>12, <1>17 DEF Scanned
  <2> QED BY <1>1, <1>16, <2>1, QuietScans DEF N
<1>19. Unpromised(d, n)
  BY <1>11, <1>14 DEF Unpromised
<1> QED BY <1>18, <1>19 DEF Between, Scanned, n

(***************************** The first pass ******************************)

(* What holds when the first n instructions have been looked at, before the first one
   is given a register. *)
FirstInfo(c, r) == LET i == c.info[r] IN
  /\ i.spilled = FALSE /\ i.spill_insn = 0 /\ i.temp = None /\ i.merge = FALSE
  /\ i.host \in FixedHosts /\ i.avoid \subseteq FixedHosts
  /\ "FIXED_REGS" \notin c.opts => i.allocated = FALSE /\ i.avoid = {}
Infos(c, n) == \A r \in DOMAIN c.insns : FirstInfo(c, r) /\
  (r <= n /\ "FIXED_REGS" \in c.opts /\ c.insns[r].op = "shift" => CX \in c.info[r].avoid)
LoadsTo(c, s, n) == \A b \in DOMAIN s.blocks :
  /\ \A g \in InBlock(s, b) : g <= n /\ c.insns[g].op = "get" => c.binfo[b].load[c.insns[g].x] = g
  /\ \A a \in Aliases : LET g == c.binfo[b].load[a] IN
       g # 0 => g \in InBlock(s, b) /\ g <= n /\ c.insns[g].op = "get" /\ c.insns[g].x = a
StoresTo(c, s, n) == \A b \in DOMAIN s.blocks : \A a \in Aliases : LET r == c.binfo[b].store[a] IN
  r # 0 => r \in 1..n /\ r <= s.blocks[b].last /\ c.insns[r].op \in Setters
MinDeaths(c, s) == \A b \in DOMAIN s.blocks : c.binfo[b].min_death \in Int
Untouched(c) == c.ok = TRUE /\ c.natural = TRUE /\ c.early = {} /\ \A h \in Hosts : c.map[h] = 0
Passed(c, s, n) ==
  /\ Shape(c, s) /\ CodeOK(c) /\ FixedOK(c) /\ Untouched(c)
  /\ Infos(c, n) /\ LoadsTo(c, s, n) /\ StoresTo(c, s, n) /\ MinDeaths(c, s)

(* A step that reserves registers, or has values avoid them, and does no more. *)
MoreInfo(c, d, r) == LET i == c.info[r] j == d.info[r] IN
  /\ j.spilled = i.spilled /\ j.spill_insn = i.spill_insn /\ j.temp = i.temp /\ j.merge = i.merge
  /\ i.host \in FixedHosts => j.host \in FixedHosts
  /\ i.avoid \subseteq FixedHosts => j.avoid \subseteq FixedHosts
  /\ i.avoid \subseteq j.avoid
Reserves(c, d, s) ==
  /\ Shape(d, s) /\ d.insns = c.insns /\ d.death = c.death /\ d.binfo = c.binfo /\ d.fixed = c.fixed
  /\ d.early = c.early /\ d.map = c.map /\ d.natural = c.natural /\ d.ok = c.ok
  /\ \A r \in DOMAIN c.insns : MoreInfo(c, d, r)

(* To do nothing is one, *)
LEMMA ReservesNothing ==
  ASSUME NEW s, NEW c, Shape(c, s)
  PROVE  Reserves(c, c, s)
  BY DEF Reserves, MoreInfo

(* and two in a row are one. *)
LEMMA ReservesMore ==
  ASSUME NEW s, NEW c, NEW d, NEW e, Reserves(c, d, s), Reserves(d, e, s)
  PROVE  Reserves(c, e, s)
<1>1. /\ Shape(e, s) /\ e.insns = c.insns /\ e.death = c.death /\ e.binfo = c.binfo /\ e.fixed = c.fixed
      /\ e.early = c.early /\ e.map = c.map /\ e.natural = c.natural /\ e.ok = c.ok
      /\ d.insns = c.insns
  BY DEF Reserves
<1>2. ASSUME NEW r \in DOMAIN c.insns PROVE MoreInfo(c, e, r)
  <2>1. MoreInfo(c, d, r) /\ MoreInfo(d, e, r)
    BY <1>1 DEF Reserves
  <2> QED BY <2>1 DEF MoreInfo
<1> QED BY <1>1, <1>2 DEF Reserves

(* A register is reserved for a value, *)
LEMMA FixReserves ==
  ASSUME NEW s, NEW c, Shape(c, s), NEW r, r \in DOMAIN c.insns, NEW h, h \in FixedHosts,
         NEW d, d = Fix(c, r, h)
  PROVE  Reserves(c, d, s)
<1> DEFINE N == Len(s.insns)
           i == c.info[r]
           j == [i EXCEPT !.allocated = TRUE, !.host = h]
<1>1. DOMAIN c.insns = 1..N /\ DOMAIN c.info = 0..N
  BY DEF Shape
<1>2. r \in 0..N /\ r \in DOMAIN c.info /\ DOMAIN i = InfoFields
  <2>1. r \in 0..N
    BY <1>1
  <2> QED BY <1>1, <2>1 DEF Shape
<1>3. /\ DOMAIN j = InfoFields /\ j.host = h /\ j.spilled = i.spilled
      /\ j.spill_insn = i.spill_insn /\ j.temp = i.temp /\ j.merge = i.merge /\ j.avoid = i.avoid
  BY <1>2 DEF InfoFields
<1>4. /\ DOMAIN d = CtxFields /\ d.blocks = c.blocks /\ d.opts = c.opts /\ d.insns = c.insns
      /\ d.death = c.death /\ d.binfo = c.binfo /\ d.fixed = c.fixed
      /\ d.early = c.early /\ d.map = c.map /\ d.natural = c.natural /\ d.ok = c.ok
      /\ d.info = [c.info EXCEPT ![r] = j]
  BY DEF Fix, Shape, CtxFields, InfoFields
<1> HIDE DEF N, j
<1>5. DOMAIN d.info = DOMAIN c.info /\ d.info[r] = j /\ \A q \in DOMAIN c.info : q # r => d.info[q] = c.info[q]
  BY <1>2, <1>4
<1>6. h \in Hosts
  BY HostsFacts
<1>7. Shape(d, s)
  <2>1. ASSUME NEW q \in 0..N PROVE DOMAIN d.info[q] = InfoFields /\ d.info[q].host \in Hosts
    <3>1. q \in DOMAIN c.info /\ DOMAIN c.info[q] = InfoFields /\ c.info[q].host \in Hosts
      BY <1>1 DEF Shape, N
    <3> QED BY <1>3, <1>5, <1>6, <3>1
  <2> QED BY <1>4, <1>5, <2>1 DEF Shape, N
<1>8. ASSUME NEW q \in DOMAIN c.insns PROVE MoreInfo(c, d, q)
  <2>1. q \in DOMAIN c.info
    BY <1>1
  <2>2. CASE q = r
    BY <1>3, <1>5, <2>2 DEF MoreInfo
  <2>3. CASE q # r
    BY <1>5, <2>1, <2>3 DEF MoreInfo
  <2> QED BY <2>2, <2>3
<1> QED BY <1>4, <1>7, <1>8 DEF Reserves

(* or a value avoids some. *)
LEMMA AvoidsReserves ==
  ASSUME NEW s, NEW c, Shape(c, s), NEW r, r \in DOMAIN c.insns, NEW S, S \subseteq FixedHosts,
         NEW d, d = Avoids(c, r, S)
  PROVE  Reserves(c, d, s) /\ S \subseteq d.info[r].avoid
<1> DEFINE N == Len(s.insns)
           i == c.info[r]
           j == [i EXCEPT !.avoid = @ \cup S]
<1>1. DOMAIN c.insns = 1..N /\ DOMAIN c.info = 0..N
  BY DEF Shape
<1>2. r \in 0..N /\ r \in DOMAIN c.info /\ DOMAIN i = InfoFields
  <2>1. r \in 0..N
    BY <1>1
  <2> QED BY <1>1, <2>1 DEF Shape
<1>3. /\ DOMAIN j = InfoFields /\ j.host = i.host /\ j.spilled = i.spilled
      /\ j.spill_insn = i.spill_insn /\ j.temp = i.temp /\ j.merge = i.merge
      /\ j.avoid = i.avoid \cup S
  BY <1>2 DEF InfoFields
<1>4. /\ DOMAIN d = CtxFields /\ d.blocks = c.blocks /\ d.opts = c.opts /\ d.insns = c.insns
      /\ d.death = c.death /\ d.binfo = c.binfo /\ d.fixed = c.fixed
      /\ d.early = c.early /\ d.map = c.map /\ d.natural = c.natural /\ d.ok = c.ok
      /\ d.info = [c.info EXCEPT ![r] = j]
  BY DEF Avoids, Shape, CtxFields, InfoFields
<1> HIDE DEF N, j
<1>5. DOMAIN d.info = DOMAIN c.info /\ d.info[r] = j /\ \A q \in DOMAIN c.info : q # r => d.info[q] = c.info[q]
  BY <1>2, <1>4
<1>6. Shape(d, s)
  <2>1. ASSUME NEW q \in 0..N PROVE DOMAIN d.info[q] = InfoFields /\ d.info[q].host \in Hosts
    <3>1. q \in DOMAIN c.info /\ DOMAIN c.info[q] = InfoFields /\ c.info[q].host \in Hosts
      BY <1>1 DEF Shape, N
    <3> QED BY <1>3, <1>5, <3>1
  <2> QED BY <1>4, <1>5, <2>1 DEF Shape, N
<1>7. ASSUME NEW q \in DOMAIN c.insns PROVE MoreInfo(c, d, q)
  <2>1. q \in DOMAIN c.info
    BY <1>1
  <2>2. CASE q = r
    BY <1>3, <1>5, <2>2 DEF MoreInfo
  <2>3. CASE q # r
    BY <1>5, <2>1, <2>3 DEF MoreInfo
  <2> QED BY <2>2, <2>3
<1> QED BY <1>3, <1>4, <1>5, <1>6, <1>7 DEF Reserves

(* How long a register is reserved is a matter of its own. *)
LEMMA LastDeathReserves ==
  ASSUME NEW s, NEW c, Shape(c, s), NEW h, NEW x, NEW d, d = [c EXCEPT !.last_death[h] = x]
  PROVE  Reserves(c, d, s)
<1>1. /\ DOMAIN d = CtxFields /\ d.blocks = c.blocks /\ d.opts = c.opts /\ d.insns = c.insns
      /\ d.death = c.death /\ d.binfo = c.binfo /\ d.fixed = c.fixed /\ d.info = c.info
      /\ d.early = c.early /\ d.map = c.map /\ d.natural = c.natural /\ d.ok = c.ok
  BY DEF Shape, CtxFields
<1> QED BY <1>1 DEF Reserves, Shape, MoreInfo

(* A reservation with its length is one. *)
LEMMA FixToReserves ==
  ASSUME NEW s, NEW c, Shape(c, s), NEW r, r \in DOMAIN c.insns, NEW h, h \in FixedHosts,
         NEW d, d = FixTo(c, r, h)
  PROVE  Reserves(c, d, s)
<1> DEFINE e == Fix(c, r, h)
<1>1. Reserves(c, e, s)
  BY FixReserves
<1>2. d = [e EXCEPT !.last_death[h] = c.death[r]]
  BY DEF FixTo
<1> HIDE DEF e
<1>0. Shape(e, s)
  BY <1>1 DEF Reserves
<1>3. Reserves(e, d, s)
  BY <1>0, <1>2, LastDeathReserves
<1> QED BY <1>1, <1>3, ReservesMore

(* Each of alloc_fixed_regs_*() reserves registers, and a shift avoids rCX. *)
LEMMA FixMulhReserves ==
  ASSUME NEW s, NEW c, Shape(c, s), NEW n, n \in DOMAIN c.insns,
         c.insns[n].s1 \in DOMAIN c.insns, c.insns[n].s2 \in DOMAIN c.insns,
         NEW d, d = FixMulh(c, n)
  PROVE  Reserves(c, d, s)
<1> DEFINE i       == c.insns[n]
           free    == c.last_death[DX] <= n
           c1      == IF free THEN FixTo(c, n, DX) ELSE c
           in_ax(r) == MayFix(c, r, AX) /\ r >= c.last_death[AX]
           in_dx(r) == free /\ MayFix(c, r, DX) /\ c.death[r] = n /\ r >= c.last_death[DX]
           second  == i.s2 # i.s1
           ax      == IF in_ax(i.s1) /\ ~(second /\ in_ax(i.s2) /\ in_dx(i.s1)) THEN i.s1
                      ELSE IF second /\ in_ax(i.s2) THEN i.s2 ELSE 0
           dx      == IF in_dx(i.s1) /\ ax # i.s1 THEN i.s1
                      ELSE IF second /\ in_dx(i.s2) /\ ax # i.s2 THEN i.s2 ELSE 0
           c2      == IF ax # 0 THEN FixTo(c1, ax, AX) ELSE c1
<1>1. d = IF dx # 0 THEN Fix(c2, dx, DX) ELSE c2
  BY DEF FixMulh
<1>2. (ax = 0 \/ ax \in DOMAIN c.insns) /\ (dx = 0 \/ dx \in DOMAIN c.insns)
  OBVIOUS
<1>3. AX \in FixedHosts /\ DX \in FixedHosts
  BY DEF FixedHosts
<1> HIDE DEF dx, ax
<1>4. Reserves(c, c1, s)
  BY <1>3, FixToReserves, ReservesNothing
<1> HIDE DEF c1
<1>5. Shape(c1, s) /\ c1.insns = c.insns
  BY <1>4 DEF Reserves
<1>6. Reserves(c1, c2, s)
  BY <1>2, <1>3, <1>5, FixToReserves, ReservesNothing
<1> HIDE DEF c2
<1>7. Shape(c2, s) /\ c2.insns = c.insns
  BY <1>5, <1>6 DEF Reserves
<1>8. Reserves(c2, d, s)
  BY <1>1, <1>2, <1>3, <1>7, FixReserves, ReservesNothing
<1>9. Reserves(c, c2, s)
  BY <1>4, <1>6, ReservesMore
<1> QED BY <1>8, <1>9, ReservesMore

(* The divisor is kept out of rAX and rDX unless it has a register. *)
LEMMA KeepOutReserves ==
  ASSUME NEW s, NEW c, Shape(c, s), NEW r, r \in DOMAIN c.insns, NEW d, d = KeepOut(c, r)
  PROVE  Reserves(c, d, s)
<1>1. {AX, DX} \subseteq FixedHosts
  BY DEF FixedHosts
<1>2. d = c \/ d = Avoids(c, r, {AX, DX})
  BY DEF KeepOut
<1>3. CASE d = c
  BY <1>3, ReservesNothing
<1>4. CASE d = Avoids(c, r, {AX, DX})
  <2> DEFINE S == {AX, DX}
  <2>1. S \subseteq FixedHosts /\ d = Avoids(c, r, S)
    BY <1>1, <1>4
  <2> HIDE DEF S
  <2> QED BY <2>1, AvoidsReserves
<1> QED BY <1>2, <1>3, <1>4

(* alloc_fixed_regs_div(). *)
LEMMA FixDivReserves ==
  ASSUME NEW s, NEW c, Shape(c, s), NEW n, n \in DOMAIN c.insns,
         c.insns[n].s1 \in DOMAIN c.insns, c.insns[n].s2 \in DOMAIN c.insns,
         NEW d, d = FixDiv(c, n)
  PROVE  Reserves(c, d, s)
<1> DEFINE i     == c.insns[n]
           takes == c.last_death[AX] <= n /\ ~Sits(c, i.s2, AX)
           c1    == IF takes THEN Fix(c, n, AX) ELSE c
           c2    == IF takes /\ MayFix(c, i.s1, AX) /\ c.death[i.s1] = n /\ i.s1 >= c.last_death[AX]
                    THEN Fix(c1, i.s1, AX) ELSE c1
           c3    == IF takes THEN [c2 EXCEPT !.last_death[AX] = c.death[n]] ELSE c2
<1>1. d = KeepOut(c3, i.s2)
  BY DEF FixDiv
<1>2. AX \in FixedHosts
  BY DEF FixedHosts
<1> HIDE DEF takes
<1>3. Reserves(c, c1, s)
  BY <1>2, FixReserves, ReservesNothing
<1> HIDE DEF c1
<1>4. Shape(c1, s) /\ c1.insns = c.insns
  BY <1>3 DEF Reserves
<1>5. Reserves(c1, c2, s)
  BY <1>2, <1>4, FixReserves, ReservesNothing
<1> HIDE DEF c2
<1>6. Shape(c2, s) /\ c2.insns = c.insns
  BY <1>4, <1>5 DEF Reserves
<1>7. Reserves(c2, c3, s)
  BY <1>6, LastDeathReserves, ReservesNothing
<1> HIDE DEF c3
<1>8. Shape(c3, s) /\ c3.insns = c.insns
  BY <1>6, <1>7 DEF Reserves
<1>9. Reserves(c3, d, s)
  BY <1>1, <1>8, KeepOutReserves
<1>10. Reserves(c, c2, s)
  BY <1>3, <1>5, ReservesMore
<1>11. Reserves(c, c3, s)
  BY <1>7, <1>10, ReservesMore
<1> QED BY <1>9, <1>11, ReservesMore

(* alloc_fixed_regs_mod(). *)
LEMMA FixModReserves ==
  ASSUME NEW s, NEW c, Shape(c, s), NEW n, n \in DOMAIN c.insns,
         c.insns[n].s1 \in DOMAIN c.insns, c.insns[n].s2 \in DOMAIN c.insns,
         NEW d, d = FixMod(c, n)
  PROVE  Reserves(c, d, s)
<1> DEFINE i  == c.insns[n]
           c1 == IF c.last_death[DX] <= n /\ ~Sits(c, i.s2, DX) THEN FixTo(c, n, DX) ELSE c
           c2 == IF MayFix(c, i.s1, AX) /\ i.s1 > c.last_death[AX] THEN FixTo(c1, i.s1, AX) ELSE c1
<1>1. d = KeepOut(c2, i.s2)
  BY DEF FixMod
<1>2. AX \in FixedHosts /\ DX \in FixedHosts
  BY DEF FixedHosts
<1>3. Reserves(c, c1, s)
  BY <1>2, FixToReserves, ReservesNothing
<1> HIDE DEF c1
<1>4. Shape(c1, s) /\ c1.insns = c.insns
  BY <1>3 DEF Reserves
<1>5. Reserves(c1, c2, s)
  BY <1>2, <1>4, FixToReserves, ReservesNothing
<1> HIDE DEF c2
<1>6. Shape(c2, s) /\ c2.insns = c.insns
  BY <1>4, <1>5 DEF Reserves
<1>7. Reserves(c2, d, s)
  BY <1>1, <1>6, KeepOutReserves
<1>8. Reserves(c, c2, s)
  BY <1>3, <1>5, ReservesMore
<1> QED BY <1>7, <1>8, ReservesMore

(* A shift's count, and the value that is returned. *)
LEMMA FixAtReserves ==
  ASSUME NEW s, NEW c, Shape(c, s), NEW r, r \in DOMAIN c.insns, NEW h, h \in FixedHosts,
         NEW d, d = FixAt(c, r, h)
  PROVE  Reserves(c, d, s)
  BY FixToReserves, ReservesNothing DEF FixAt

(* All of them; without FIXED_REGS nothing is reserved. *)
LEMMA FixRegsReserves ==
  ASSUME NEW s, NEW c, Shape(c, s), CodeOK(c), NEW n, n \in DOMAIN c.insns, NEW d, d = FixRegs(c, n)
  PROVE  /\ Reserves(c, d, s)
         /\ "FIXED_REGS" \notin c.opts => d = c
         /\ "FIXED_REGS" \in c.opts /\ c.insns[n].op = "shift" => CX \in d.info[n].avoid
<1> DEFINE i == c.insns[n]
<1>1. CASE "FIXED_REGS" \notin c.opts
  BY <1>1, ReservesNothing DEF FixRegs
<1>2. CASE "FIXED_REGS" \in c.opts
  <2>0. /\ i.op \in Reads => i.s1 \in DOMAIN c.insns /\ i.s2 \in DOMAIN c.insns
        /\ i.s1 = 0 \/ i.s1 \in DOMAIN c.insns
    <3>1. InsnOK(c.insns, n) /\ n \in Int /\ SettersBefore(c.insns, n) \subseteq DOMAIN c.insns
      BY DEF CodeOK, Shape, SettersBefore
    <3> QED BY <3>1 DEF InsnOK
  <2>1. CASE i.op = "mulh"
    <3>1. d = FixMulh(c, n)
      BY <1>2, <2>1 DEF FixRegs
    <3>2. i.s1 \in DOMAIN c.insns /\ i.s2 \in DOMAIN c.insns
      BY <2>0, <2>1 DEF Reads
    <3>3. Reserves(c, d, s)
      BY <3>1, <3>2, FixMulhReserves
    <3> QED BY <1>2, <2>1, <3>3
  <2>2. CASE i.op = "div"
    <3>1. d = FixDiv(c, n)
      BY <1>2, <2>2 DEF FixRegs
    <3>2. i.s1 \in DOMAIN c.insns /\ i.s2 \in DOMAIN c.insns
      BY <2>0, <2>2 DEF Reads
    <3>3. Reserves(c, d, s)
      BY <3>1, <3>2, FixDivReserves
    <3> QED BY <1>2, <2>2, <3>3
  <2>3. CASE i.op = "mod"
    <3>1. d = FixMod(c, n)
      BY <1>2, <2>3 DEF FixRegs
    <3>2. i.s1 \in DOMAIN c.insns /\ i.s2 \in DOMAIN c.insns
      BY <2>0, <2>3 DEF Reads
    <3>3. Reserves(c, d, s)
      BY <3>1, <3>2, FixModReserves
    <3> QED BY <1>2, <2>3, <3>3
  <2>4. CASE i.op = "shift"
    <3> DEFINE e == FixAt(c, i.s2, CX)
               S == {CX}
    <3>1. d = Avoids(e, n, S)
      BY <1>2, <2>4 DEF FixRegs, FixShift
    <3>2. i.s2 \in DOMAIN c.insns /\ CX \in FixedHosts /\ S \subseteq FixedHosts /\ CX \in S
      BY <2>0, <2>4 DEF Reads, FixedHosts
    <3>3. Reserves(c, e, s)
      BY <3>2, FixAtReserves
    <3> HIDE DEF e, S
    <3>4. Shape(e, s) /\ n \in DOMAIN e.insns
      BY <3>3 DEF Reserves
    <3>5. Reserves(e, d, s) /\ S \subseteq d.info[n].avoid
      BY <3>1, <3>2, <3>4, AvoidsReserves
    <3>6. Reserves(c, d, s)
      BY <3>3, <3>5, ReservesMore
    <3> QED BY <1>2, <3>2, <3>5, <3>6
  <2>5. CASE i.op = "return"
    <3>1. d = FixReturn(c, n)
      BY <1>2, <2>5 DEF FixRegs
    <3>2. AX \in FixedHosts
      BY DEF FixedHosts
    <3>3. Reserves(c, d, s)
      BY <2>0, <3>1, <3>2, FixAtReserves, ReservesNothing DEF FixReturn
    <3> QED BY <1>2, <2>5, <3>3
  <2>6. CASE i.op \notin {"mulh", "div", "mod", "shift", "return"}
    <3>1. d = c
      BY <1>2, <2>6 DEF FixRegs
    <3> QED BY <1>2, <2>6, <3>1, ReservesNothing
  <2> QED BY <2>1, <2>2, <2>3, <2>4, <2>5, <2>6
<1> QED BY <1>1, <1>2

(* A step that leaves the loads of the blocks alone, at an instruction that is none. *)
SameLoads(c, d, s) == \A e \in DOMAIN s.blocks : d.binfo[e].load = c.binfo[e].load

(* Then no block loads anything new. *)
LEMMA NoLoad ==
  ASSUME NEW s, NEW b, NEW n, Here(s, b, n), NEW c, NEW d, LoadsTo(c, s, n - 1),
         c.insns[n].op # "get", d.insns = c.insns, SameLoads(c, d, s)
  PROVE  LoadsTo(d, s, n)
<1>0. \A e \in DOMAIN s.blocks : d.binfo[e].load = c.binfo[e].load
  BY DEF SameLoads
<1>1. n \in Int /\ \A e \in DOMAIN s.blocks : InBlock(s, e) \subseteq Int
  BY HereFacts DEF InBlock
<1>2. ASSUME NEW e \in DOMAIN s.blocks, NEW g \in InBlock(s, e), g <= n, d.insns[g].op = "get"
      PROVE  d.binfo[e].load[d.insns[g].x] = g
  <2>1. g # n /\ g <= n - 1
    BY <1>1, <1>2
  <2> QED BY <1>0, <1>2, <2>1 DEF LoadsTo
<1>3. ASSUME NEW e \in DOMAIN s.blocks, NEW a \in Aliases, d.binfo[e].load[a] # 0
      PROVE  LET g == d.binfo[e].load[a] IN
               g \in InBlock(s, e) /\ g <= n /\ d.insns[g].op = "get" /\ d.insns[g].x = a
  <2> DEFINE g == c.binfo[e].load[a]
  <2>1. g \in InBlock(s, e) /\ g <= n - 1 /\ c.insns[g].op = "get" /\ c.insns[g].x = a
    BY <1>0, <1>3 DEF LoadsTo
  <2>2. g <= n
    BY <1>1, <2>1
  <2> QED BY <1>0, <2>1, <2>2
<1> QED BY <1>2, <1>3 DEF LoadsTo

(* And when the stores are left alone, they are still of values that have been set. *)
LEMMA NoStore ==
  ASSUME NEW s, NEW b, NEW n, Here(s, b, n), NEW c, NEW d, StoresTo(c, s, n - 1),
         \A r \in 1..(n - 1) : c.insns[r].op \in Setters => d.insns[r].op \in Setters,
         \A e \in DOMAIN s.blocks : d.binfo[e].store = c.binfo[e].store
  PROVE  StoresTo(d, s, n)
<1>1. n \in Int
  BY HereFacts
<1>2. ASSUME NEW e \in DOMAIN s.blocks, NEW a \in Aliases, d.binfo[e].store[a] # 0
      PROVE  LET r == d.binfo[e].store[a] IN
               r \in 1..n /\ r <= s.blocks[e].last /\ d.insns[r].op \in Setters
  <2> DEFINE r == c.binfo[e].store[a]
  <2>1. r \in 1..(n - 1) /\ r <= s.blocks[e].last /\ c.insns[r].op \in Setters
    BY <1>2 DEF StoresTo
  <2>2. r \in 1..n
    BY <1>1, <2>1
  <2> QED BY <1>2, <2>1, <2>2
<1> QED BY <1>2 DEF StoresTo

(* A register that GET_ALIAS loads has been set before. *)
LEMMA LoadedBefore ==
  ASSUME NEW s, IsSkeleton(s), NEW n \in Int, NEW c, LoadsTo(c, s, n), NEW e \in DOMAIN s.blocks,
         NEW a \in Aliases, NEW g, g = c.binfo[e].load[a], g # 0
  PROVE  g \in 1..n /\ g \in InBlock(s, e) /\ c.insns[g].op = "get" /\ c.insns[g].x = a
<1>1. g \in InBlock(s, e) /\ g <= n /\ c.insns[g].op = "get" /\ c.insns[g].x = a
  BY DEF LoadsTo
<1>2. g \in Int /\ 1 <= g
  BY <1>1, BlockFacts
<1> QED BY <1>1, <1>2

(* An instruction is in one block only. *)
LEMMA OneBlock ==
  ASSUME NEW s, IsSkeleton(s), NEW e \in DOMAIN s.blocks, NEW b \in DOMAIN s.blocks,
         NEW n \in InBlock(s, e), n \in InBlock(s, b)
  PROVE  e = b
<1>1. /\ e \in Nat /\ b \in Nat /\ n \in Int
      /\ s.blocks[e].first <= n /\ n <= s.blocks[e].last
      /\ s.blocks[b].first <= n /\ n <= s.blocks[b].last
      /\ s.blocks[e].first \in Int /\ s.blocks[b].first \in Int
      /\ s.blocks[e].last \in Int /\ s.blocks[b].last \in Int
  BY BlockFacts DEF InBlock
<1>2. /\ e < b => s.blocks[e].last < s.blocks[b].first
      /\ b < e => s.blocks[b].last < s.blocks[e].first
  BY DEF IsSkeleton, IsBlocks
<1> QED BY <1>1, <1>2

(* A GET_ALIAS is the load of its block, or becomes a MOVE of a value set before. *)
LEMMA FirstGetPasses ==
  ASSUME NEW s, NEW b, NEW n, Here(s, b, n), NEW c, Passed(c, s, n - 1), c.insns[n].op = "get",
         NEW d, d = FirstGet(c, b, n)
  PROVE  Passed(d, s, n)
<1> DEFINE N == Len(s.insns)
           a == c.insns[n].x
           store == c.binfo[b].store[a]
           load == c.binfo[b].load[a]
           r == IF store # 0 THEN store ELSE load
<1>1. /\ IsSkeleton(s) /\ b \in DOMAIN s.blocks /\ n \in InBlock(s, b) /\ n \in 1..N /\ N \in Nat
      /\ n \in Int /\ n - 1 \in Int /\ n <= s.blocks[b].last /\ s.blocks[b].last \in Int
      /\ \A e \in DOMAIN s.blocks : InBlock(s, e) \subseteq 1..N
  BY HereFacts, BlockFacts DEF Here
<1> HIDE DEF N
<1>2. /\ Shape(c, s) /\ CodeOK(c) /\ FixedOK(c) /\ Untouched(c) /\ Infos(c, n - 1)
      /\ LoadsTo(c, s, n - 1) /\ StoresTo(c, s, n - 1) /\ MinDeaths(c, s)
  BY DEF Passed
<1>3. /\ DOMAIN c = CtxFields /\ DOMAIN c.insns = 1..N /\ DOMAIN c.death = 1..N
      /\ DOMAIN c.binfo = DOMAIN s.blocks /\ DOMAIN c.binfo[b] = BlockFields
      /\ DOMAIN c.binfo[b].load = Aliases /\ DOMAIN c.binfo[b].store = Aliases
  BY <1>1, <1>2 DEF Shape, N
<1>4. a \in Aliases /\ InsnOK(c.insns, n)
  BY <1>1, <1>2, <1>3 DEF CodeOK, InsnOK
<1>5. CASE r = 0
  <2>0. load = 0
    BY <1>5
  <2>1. d = [c EXCEPT !.binfo[b].load[a] = n]
    BY <1>5 DEF FirstGet
  <2>2. /\ DOMAIN d = CtxFields /\ d.blocks = c.blocks /\ d.opts = c.opts /\ d.insns = c.insns
        /\ d.death = c.death /\ d.fixed = c.fixed /\ d.early = c.early /\ d.map = c.map
        /\ d.natural = c.natural /\ d.ok = c.ok /\ d.info = c.info /\ DOMAIN d.binfo = DOMAIN c.binfo
        /\ d.binfo[b] = [c.binfo[b] EXCEPT !.load = [c.binfo[b].load EXCEPT ![a] = n]]
        /\ \A e \in DOMAIN c.binfo : e # b => d.binfo[e] = c.binfo[e]
    BY <1>1, <1>3, <1>4, <2>1 DEF CtxFields, BlockFields
  <2> HIDE DEF a, r
  <2>3. /\ DOMAIN d.binfo[b] = BlockFields /\ d.binfo[b].store = c.binfo[b].store
        /\ d.binfo[b].min_death = c.binfo[b].min_death
        /\ d.binfo[b].load = [c.binfo[b].load EXCEPT ![a] = n]
        /\ DOMAIN d.binfo[b].load = Aliases
    BY <1>3, <2>2 DEF BlockFields
  <2>4. Shape(d, s)
    <3>1. ASSUME NEW e \in DOMAIN s.blocks
          PROVE  /\ DOMAIN d.binfo[e] = BlockFields
                 /\ DOMAIN d.binfo[e].load = Aliases /\ DOMAIN d.binfo[e].store = Aliases
      <4>1. /\ DOMAIN c.binfo[e] = BlockFields /\ e \in DOMAIN c.binfo
            /\ DOMAIN c.binfo[e].load = Aliases /\ DOMAIN c.binfo[e].store = Aliases
        BY <1>2 DEF Shape
      <4> QED BY <2>2, <2>3, <4>1
    <3> QED BY <1>2, <2>2, <3>1 DEF Shape
  <2>5. CodeOK(d) /\ FixedOK(d) /\ Untouched(d)
    BY <1>2, <2>2 DEF CodeOK, FixedOK, Untouched
  <2>6. MinDeaths(d, s)
    BY <1>2, <1>3, <2>2, <2>3 DEF MinDeaths
  <2>7. Infos(d, n)
    <3> SUFFICES ASSUME NEW q \in 1..N
                 PROVE  /\ FirstInfo(d, q)
                        /\ q <= n /\ "FIXED_REGS" \in d.opts /\ d.insns[q].op = "shift"
                             => CX \in d.info[q].avoid
      BY <1>3, <2>2 DEF Infos
    <3>1. FirstInfo(c, q) /\ (q <= n - 1 /\ "FIXED_REGS" \in c.opts /\ c.insns[q].op = "shift"
                                => CX \in c.info[q].avoid)
      BY <1>2, <1>3 DEF Infos
    <3>2. c.insns[q].op = "shift" /\ q <= n => q <= n - 1
      BY <1>1
    <3> QED BY <2>2, <3>1, <3>2 DEF FirstInfo
  <2>8. StoresTo(d, s, n)
    <3>1. \A e \in DOMAIN s.blocks : d.binfo[e].store = c.binfo[e].store
      BY <1>3, <2>2, <2>3
    <3> QED BY <1>2, <2>2, <3>1, NoStore
  <2>9. LoadsTo(d, s, n)
    <3>0. \A f \in DOMAIN s.blocks : n \in InBlock(s, f) => f = b
      BY <1>1, OneBlock
    <3>1. ASSUME NEW e \in DOMAIN s.blocks, NEW g \in InBlock(s, e), g <= n, d.insns[g].op = "get"
          PROVE  d.binfo[e].load[d.insns[g].x] = g
      <4>1. CASE g = n
        <5>1. e = b /\ d.insns[g].x = a
          BY <2>2, <3>0, <4>1 DEF a
        <5>2. a \in DOMAIN c.binfo[b].load
          BY <1>3, <1>4
        <5>3. d.binfo[b].load[a] = n
          BY <2>3, <5>2
        <5> QED BY <4>1, <5>1, <5>3
      <4>2. CASE g # n
        <5>1. g <= n - 1 /\ g # 0
          BY <1>1, <3>1, <4>2
        <5>2. c.insns[g].op = "get" /\ c.binfo[e].load[c.insns[g].x] = g
          BY <1>2, <2>2, <3>1, <5>1 DEF LoadsTo
        <5>3. CASE e = b
          <6>1. c.insns[g].x # a
            BY <2>0, <5>1, <5>2, <5>3
          <6>2. g \in DOMAIN c.insns
            BY <1>1, <1>3
          <6>3. c.insns[g].x \in Aliases
            BY <1>2, <5>2, <6>2 DEF CodeOK, InsnOK
          <6>4. d.binfo[e].load = [c.binfo[b].load EXCEPT ![a] = n]
            BY <2>3, <5>3
          <6>5. d.insns[g].x = c.insns[g].x
            BY <2>2
          <6>6. d.binfo[e].load[c.insns[g].x] = c.binfo[b].load[c.insns[g].x]
            BY <1>3, <6>1, <6>3, <6>4
          <6> QED BY <5>2, <5>3, <6>5, <6>6
        <5>4. CASE e # b
          BY <1>3, <2>2, <5>2, <5>4
        <5> QED BY <5>3, <5>4
      <4> QED BY <4>1, <4>2
    <3>2. ASSUME NEW e \in DOMAIN s.blocks, NEW x \in Aliases, d.binfo[e].load[x] # 0
          PROVE  LET g == d.binfo[e].load[x] IN
                   g \in InBlock(s, e) /\ g <= n /\ d.insns[g].op = "get" /\ d.insns[g].x = x
      <4>1. CASE e = b /\ x = a
        <5>1. a \in DOMAIN c.binfo[b].load /\ c.insns[n].x = a
          BY <1>3, <1>4 DEF a
        <5>2. d.binfo[e].load[x] = n
          BY <2>3, <4>1, <5>1
        <5>3. n \in InBlock(s, e) /\ n <= n /\ d.insns[n].op = "get" /\ d.insns[n].x = x
          BY <1>1, <2>2, <4>1, <5>1
        <5> QED BY <5>2, <5>3
      <4>2. CASE ~(e = b /\ x = a)
        <5> DEFINE g == c.binfo[e].load[x]
        <5>1. d.binfo[e].load[x] = g
          BY <1>3, <2>2, <2>3, <4>2
        <5>2. g # 0
          BY <3>2, <5>1
        <5>3. g \in 1..(n - 1) /\ g \in InBlock(s, e) /\ c.insns[g].op = "get" /\ c.insns[g].x = x
          <6> HIDE DEF g
          <6> QED BY <1>1, <1>2, <5>2, LoadedBefore DEF g
        <5>4. g <= n
          BY <1>1, <5>3
        <5> QED BY <2>2, <5>1, <5>3, <5>4
      <4> QED BY <4>1, <4>2
    <3> QED BY <3>1, <3>2 DEF LoadsTo
  <2> QED BY <2>4, <2>5, <2>6, <2>7, <2>8, <2>9 DEF Passed
<1>6. CASE r # 0
  <2>1. r \in 1..(n - 1) /\ c.insns[r].op \in Setters
    <3>1. CASE store # 0
      <4>1. store \in 1..(n - 1) /\ c.insns[store].op \in Setters
        BY <1>1, <1>2, <1>4, <3>1 DEF StoresTo
      <4> QED BY <3>1, <4>1
    <3>2. CASE store = 0
      <4>1. r = load /\ load # 0
        BY <1>6, <3>2
      <4> HIDE DEF load, a
      <4>2. load \in 1..(n - 1) /\ c.insns[load].op = "get"
        BY <1>1, <1>2, <1>4, <4>1, LoadedBefore DEF load
      <4> QED BY <4>1, <4>2 DEF Setters
    <3> QED BY <3>1, <3>2
  <2>2. d = [c EXCEPT !.insns[n] = [op |-> "move", s1 |-> r, s2 |-> 0, s3 |-> 0, x |-> 0],
                      !.death[r] = Later(@, n)]
    BY <1>6 DEF FirstGet
  <2> HIDE DEF r, a, load, store
  <2>3. /\ DOMAIN d = CtxFields /\ d.blocks = c.blocks /\ d.opts = c.opts
        /\ d.insns = [c.insns EXCEPT ![n] = [op |-> "move", s1 |-> r, s2 |-> 0, s3 |-> 0, x |-> 0]]
        /\ d.death = [c.death EXCEPT ![r] = Later(c.death[r], n)]
        /\ d.fixed = c.fixed /\ d.early = c.early /\ d.map = c.map
        /\ d.natural = c.natural /\ d.ok = c.ok /\ d.info = c.info /\ d.binfo = c.binfo
    BY <1>3, <2>2 DEF CtxFields
  <2>4. /\ DOMAIN d.insns = 1..N /\ DOMAIN d.death = 1..N
        /\ d.insns[n] = [op |-> "move", s1 |-> r, s2 |-> 0, s3 |-> 0, x |-> 0]
        /\ \A q \in 1..N : q # n => d.insns[q] = c.insns[q]
    BY <1>1, <1>3, <2>3
  <2>5. \A q \in 1..N : d.death[q] \in Int
    <3> TAKE q \in 1..N
    <3>1. c.death[q] \in Int
      BY <1>2 DEF Shape, N
    <3> QED BY <1>1, <1>3, <2>3, <3>1 DEF Later
  <2>6. Shape(d, s)
    BY <1>2, <2>3, <2>4, <2>5 DEF Shape, N
  <2>7. CodeOK(d)
    <3> SUFFICES ASSUME NEW q \in 1..N PROVE InsnOK(d.insns, q)
      BY <2>4 DEF CodeOK
    <3>1. InsnOK(c.insns, q)
      BY <1>2, <1>3 DEF CodeOK
    <3>2. SettersBefore(c.insns, q) \subseteq SettersBefore(d.insns, q)
      <4> SUFFICES ASSUME NEW p \in 1..(q - 1), c.insns[p].op \in Setters
                   PROVE  d.insns[p].op \in Setters
        BY DEF SettersBefore
      <4>1. p \in 1..N
        BY <1>1
      <4> QED BY <2>4, <4>1 DEF Setters
    <3>3. CASE q # n
      BY <2>4, <3>1, <3>2, <3>3 DEF InsnOK
    <3>4. CASE q = n
      <4>1. r \in SettersBefore(d.insns, n)
        <5>1. r \in SettersBefore(c.insns, n)
          BY <2>1 DEF SettersBefore
        <5> QED BY <3>2, <3>4, <5>1
      <4>2. "move" \notin Reads /\ "move" \notin {"get", "set"} /\ r # 0
        BY <1>6 DEF Reads
      <4> QED BY <2>4, <3>4, <4>1, <4>2 DEF InsnOK
    <3> QED BY <3>3, <3>4
  <2>8. FixedOK(d) /\ Untouched(d) /\ MinDeaths(d, s)
    <3>1. DOMAIN d.insns = DOMAIN c.insns
      BY <1>3, <2>4
    <3>2. FixedOK(d)
      BY <1>2, <2>3, <3>1 DEF FixedOK
    <3>3. Untouched(d)
      BY <1>2, <2>3 DEF Untouched
    <3>4. MinDeaths(d, s)
      BY <1>2, <2>3 DEF MinDeaths
    <3> QED BY <3>2, <3>3, <3>4
  <2>9. Infos(d, n)
    <3> SUFFICES ASSUME NEW q \in 1..N
                 PROVE  /\ FirstInfo(d, q)
                        /\ q <= n /\ "FIXED_REGS" \in d.opts /\ d.insns[q].op = "shift"
                             => CX \in d.info[q].avoid
      BY <2>4 DEF Infos
    <3>1. FirstInfo(c, q) /\ (q <= n - 1 /\ "FIXED_REGS" \in c.opts /\ c.insns[q].op = "shift"
                                => CX \in c.info[q].avoid)
      BY <1>2, <1>3 DEF Infos
    <3>2. d.insns[q].op = "shift" /\ q <= n => q <= n - 1 /\ c.insns[q].op = "shift"
      BY <1>1, <2>4
    <3> QED BY <2>3, <3>1, <3>2 DEF FirstInfo
  <2>10. StoresTo(d, s, n)
    <3>1. \A q \in 1..(n - 1) : c.insns[q].op \in Setters => d.insns[q].op \in Setters
      BY <1>1, <2>4
    <3> QED BY <1>2, <2>3, <3>1, NoStore
  <2>11. LoadsTo(d, s, n)
    <3>1. ASSUME NEW e \in DOMAIN s.blocks, NEW g \in InBlock(s, e), g <= n, d.insns[g].op = "get"
          PROVE  d.binfo[e].load[d.insns[g].x] = g
      <4>1. g # n /\ g \in 1..N
        BY <1>1, <2>4, <3>1
      <4>2. g <= n - 1 /\ d.insns[g] = c.insns[g]
        BY <1>1, <2>4, <3>1, <4>1
      <4> QED BY <1>2, <2>3, <3>1, <4>2 DEF LoadsTo
    <3>2. ASSUME NEW e \in DOMAIN s.blocks, NEW x \in Aliases, d.binfo[e].load[x] # 0
          PROVE  LET g == d.binfo[e].load[x] IN
                   g \in InBlock(s, e) /\ g <= n /\ d.insns[g].op = "get" /\ d.insns[g].x = x
      <4> DEFINE g == c.binfo[e].load[x]
      <4>0. g = c.binfo[e].load[x]
        OBVIOUS
      <4>1. d.binfo[e].load[x] = g /\ g # 0
        BY <2>3, <3>2
      <4> HIDE DEF g
      <4>2. g \in 1..(n - 1) /\ g \in InBlock(s, e) /\ c.insns[g].op = "get" /\ c.insns[g].x = x
        BY <1>1, <1>2, <4>0, <4>1, LoadedBefore
      <4>3. g \in 1..N /\ g # n /\ g <= n
        BY <1>1, <4>2
      <4> QED BY <2>4, <4>1, <4>2, <4>3
    <3> QED BY <3>1, <3>2 DEF LoadsTo
  <2> QED BY <2>6, <2>7, <2>8, <2>9, <2>10, <2>11 DEF Passed
<1> QED BY <1>5, <1>6

(* What the other instructions change: the block's stores, and whether it has a call. *)
MoreStores(c, b, n, i) ==
  /\ DOMAIN i = BlockFields /\ DOMAIN i.store = Aliases
  /\ i.load = c.binfo[b].load /\ i.min_death = c.binfo[b].min_death
  /\ \A a \in Aliases : \/ i.store[a] = c.binfo[b].store[a]
                        \/ i.store[a] \in 1..(n - 1) /\ c.insns[i.store[a]].op \in Setters

(* Such a step passes over the instruction. *)
LEMMA BlockPasses ==
  ASSUME NEW s, NEW b, NEW n, Here(s, b, n), NEW c, Passed(c, s, n - 1),
         c.insns[n].op # "get", c.insns[n].op # "shift",
         NEW d, NEW i, d = [c EXCEPT !.binfo[b] = i], MoreStores(c, b, n, i)
  PROVE  Passed(d, s, n)
<1> DEFINE N == Len(s.insns)
<1>1. /\ b \in DOMAIN s.blocks /\ n \in 1..N /\ N \in Nat
      /\ n \in Int /\ n - 1 \in Int /\ n <= s.blocks[b].last /\ s.blocks[b].last \in Int
  BY HereFacts DEF Here
<1> HIDE DEF N
<1>2. /\ Shape(c, s) /\ CodeOK(c) /\ FixedOK(c) /\ Untouched(c) /\ Infos(c, n - 1)
      /\ LoadsTo(c, s, n - 1) /\ StoresTo(c, s, n - 1) /\ MinDeaths(c, s)
  BY DEF Passed
<1>3. DOMAIN c = CtxFields /\ DOMAIN c.insns = 1..N /\ DOMAIN c.binfo = DOMAIN s.blocks
  BY <1>1, <1>2 DEF Shape, N
<1>0. /\ DOMAIN i = BlockFields /\ DOMAIN i.store = Aliases
      /\ i.load = c.binfo[b].load /\ i.min_death = c.binfo[b].min_death
      /\ \A a \in Aliases : \/ i.store[a] = c.binfo[b].store[a]
                            \/ i.store[a] \in 1..(n - 1) /\ c.insns[i.store[a]].op \in Setters
  BY DEF MoreStores
<1>4. /\ DOMAIN d = CtxFields /\ d.blocks = c.blocks /\ d.opts = c.opts /\ d.insns = c.insns
      /\ d.death = c.death /\ d.fixed = c.fixed /\ d.early = c.early /\ d.map = c.map
      /\ d.natural = c.natural /\ d.ok = c.ok /\ d.info = c.info /\ DOMAIN d.binfo = DOMAIN c.binfo
      /\ d.binfo[b] = i /\ \A e \in DOMAIN c.binfo : e # b => d.binfo[e] = c.binfo[e]
  BY <1>1, <1>3 DEF CtxFields
<1>5. Shape(d, s)
  <2>1. ASSUME NEW e \in DOMAIN s.blocks
        PROVE  /\ DOMAIN d.binfo[e] = BlockFields
               /\ DOMAIN d.binfo[e].load = Aliases /\ DOMAIN d.binfo[e].store = Aliases
    <3>1. /\ DOMAIN c.binfo[e] = BlockFields /\ e \in DOMAIN c.binfo
          /\ DOMAIN c.binfo[e].load = Aliases /\ DOMAIN c.binfo[e].store = Aliases
      BY <1>2 DEF Shape
    <3> QED BY <1>0, <1>4, <3>1
  <2> QED BY <1>2, <1>4, <2>1 DEF Shape
<1>6. CodeOK(d) /\ FixedOK(d) /\ Untouched(d)
  BY <1>2, <1>4 DEF CodeOK, FixedOK, Untouched
<1>7. MinDeaths(d, s)
  BY <1>0, <1>2, <1>3, <1>4 DEF MinDeaths
<1>8. Infos(d, n)
  <2> SUFFICES ASSUME NEW q \in 1..N
               PROVE  /\ FirstInfo(d, q)
                      /\ q <= n /\ "FIXED_REGS" \in d.opts /\ d.insns[q].op = "shift"
                           => CX \in d.info[q].avoid
    BY <1>3, <1>4 DEF Infos
  <2>1. FirstInfo(c, q) /\ (q <= n - 1 /\ "FIXED_REGS" \in c.opts /\ c.insns[q].op = "shift"
                              => CX \in c.info[q].avoid)
    BY <1>2, <1>3 DEF Infos
  <2>2. c.insns[q].op = "shift" /\ q <= n => q <= n - 1
    BY <1>1
  <2> QED BY <1>4, <2>1, <2>2 DEF FirstInfo
<1>9. LoadsTo(d, s, n)
  <2>1. SameLoads(c, d, s)
    BY <1>0, <1>3, <1>4 DEF SameLoads
  <2> QED BY <1>2, <1>4, <2>1, NoLoad
<1>10. StoresTo(d, s, n)
  <2>1. ASSUME NEW e \in DOMAIN s.blocks, NEW a \in Aliases, d.binfo[e].store[a] # 0
        PROVE  LET r == d.binfo[e].store[a] IN
                 r \in 1..n /\ r <= s.blocks[e].last /\ d.insns[r].op \in Setters
    <3> DEFINE r == d.binfo[e].store[a]
    <3>1. CASE r = c.binfo[e].store[a]
      <4>1. r \in 1..(n - 1) /\ r <= s.blocks[e].last /\ c.insns[r].op \in Setters
        BY <1>2, <2>1, <3>1 DEF StoresTo
      <4>2. r \in 1..n
        BY <1>1, <4>1
      <4> QED BY <1>4, <4>1, <4>2
    <3>2. CASE r # c.binfo[e].store[a]
      <4>1. e = b
        BY <1>3, <1>4, <3>2
      <4>2. r \in 1..(n - 1) /\ c.insns[r].op \in Setters
        BY <1>0, <1>4, <3>2, <4>1
      <4>3. r \in 1..n /\ r <= s.blocks[e].last
        BY <1>1, <4>1, <4>2
      <4> QED BY <1>4, <4>2, <4>3
    <3> QED BY <3>1, <3>2
  <2> QED BY <2>1 DEF StoresTo
<1> QED BY <1>5, <1>6, <1>7, <1>8, <1>9, <1>10 DEF Passed

(* And so do the reservations. *)
LEMMA FixRegsPasses ==
  ASSUME NEW s, NEW b, NEW n, Here(s, b, n), NEW c, Passed(c, s, n - 1), c.insns[n].op # "get",
         NEW d, d = FixRegs(c, n)
  PROVE  Passed(d, s, n)
<1> DEFINE N == Len(s.insns)
<1>1. b \in DOMAIN s.blocks /\ n \in 1..N /\ N \in Nat /\ n \in Int /\ n - 1 \in Int
  BY HereFacts DEF Here
<1> HIDE DEF N
<1>2. /\ Shape(c, s) /\ CodeOK(c) /\ FixedOK(c) /\ Untouched(c) /\ Infos(c, n - 1)
      /\ LoadsTo(c, s, n - 1) /\ StoresTo(c, s, n - 1) /\ MinDeaths(c, s)
  BY DEF Passed
<1>3. DOMAIN c.insns = 1..N /\ n \in DOMAIN c.insns
  BY <1>1, <1>2 DEF Shape, N
<1>4. /\ Reserves(c, d, s)
      /\ "FIXED_REGS" \notin c.opts => d = c
      /\ "FIXED_REGS" \in c.opts /\ c.insns[n].op = "shift" => CX \in d.info[n].avoid
  BY <1>2, <1>3, FixRegsReserves
<1>5. /\ Shape(d, s) /\ d.insns = c.insns /\ d.binfo = c.binfo /\ d.fixed = c.fixed
      /\ d.early = c.early /\ d.map = c.map /\ d.natural = c.natural /\ d.ok = c.ok
      /\ d.opts = c.opts
  BY <1>2, <1>4 DEF Reserves, Shape
<1>6. CodeOK(d) /\ FixedOK(d) /\ Untouched(d) /\ MinDeaths(d, s)
  BY <1>2, <1>5 DEF CodeOK, FixedOK, Untouched, MinDeaths
<1>7. LoadsTo(d, s, n) /\ StoresTo(d, s, n)
  BY <1>2, <1>5, NoLoad, NoStore DEF SameLoads
<1>8. Infos(d, n)
  <2> SUFFICES ASSUME NEW q \in 1..N
               PROVE  /\ FirstInfo(d, q)
                      /\ q <= n /\ "FIXED_REGS" \in d.opts /\ d.insns[q].op = "shift"
                           => CX \in d.info[q].avoid
    BY <1>3, <1>5 DEF Infos
  <2>1. FirstInfo(c, q) /\ (q <= n - 1 /\ "FIXED_REGS" \in c.opts /\ c.insns[q].op = "shift"
                              => CX \in c.info[q].avoid)
    BY <1>2, <1>3 DEF Infos
  <2>2. MoreInfo(c, d, q)
    BY <1>3, <1>4 DEF Reserves
  <2>3. FirstInfo(d, q)
    <3>1. CASE "FIXED_REGS" \notin c.opts
      BY <1>4, <2>1, <3>1
    <3>2. CASE "FIXED_REGS" \in c.opts
      BY <1>5, <2>1, <2>2, <3>2 DEF FirstInfo, MoreInfo
    <3> QED BY <3>1, <3>2
  <2>4. q <= n => q = n \/ q <= n - 1
    BY <1>1
  <2> QED BY <1>4, <1>5, <2>1, <2>2, <2>3, <2>4 DEF MoreInfo
<1> QED BY <1>5, <1>6, <1>7, <1>8 DEF Passed

(* One instruction, whichever it is. *)
LEMMA FirstPassInsnPasses ==
  ASSUME NEW s, NEW b, NEW n, Here(s, b, n), NEW c, Passed(c, s, n - 1),
         NEW d, d = FirstPassInsn(c, b, n)
  PROVE  Passed(d, s, n)
<1> DEFINE i == c.insns[n]
           N == Len(s.insns)
<1>1. b \in DOMAIN s.blocks /\ n \in 1..N /\ Shape(c, s) /\ CodeOK(c)
  BY HereFacts DEF Here, Passed
<1>2. /\ DOMAIN c = CtxFields /\ n \in DOMAIN c.insns /\ b \in DOMAIN c.binfo
      /\ DOMAIN c.binfo[b] = BlockFields /\ DOMAIN c.binfo[b].store = Aliases
  BY <1>1 DEF Shape
<1>3. CASE i.op = "get"
  <2>1. d = FirstGet(c, b, n)
    BY <1>3 DEF FirstPassInsn, IsCall, NontailCalls
  <2> QED BY <1>3, <2>1, FirstGetPasses
<1>4. CASE i.op = "set"
  <2> DEFINE j == [c.binfo[b] EXCEPT !.store[i.x] = i.s1]
  <2>1. ~IsCall(c, n) \/ TRUE
    OBVIOUS
  <2>2. d = [c EXCEPT !.binfo[b].store[i.x] = i.s1]
    BY <1>4 DEF FirstPassInsn, IsCall, NontailCalls
  <2>3. d = [c EXCEPT !.binfo[b] = j]
    BY <1>2, <2>2 DEF CtxFields
  <2>4. /\ i.s1 \in 1..(n - 1) /\ c.insns[i.s1].op \in Setters /\ i.x \in Aliases
    <3>1. InsnOK(c.insns, n)
      BY <1>1, <1>2 DEF CodeOK
    <3> QED BY <1>4, <3>1 DEF InsnOK, SettersBefore
  <2>5. /\ DOMAIN j = BlockFields /\ j.load = c.binfo[b].load /\ j.min_death = c.binfo[b].min_death
        /\ j.store = [c.binfo[b].store EXCEPT ![i.x] = i.s1]
    BY <1>2 DEF BlockFields
  <2>7. c.insns[n].op # "get" /\ c.insns[n].op # "shift"
    BY <1>4
  <2> HIDE DEF i, j
  <2>6. /\ DOMAIN j.store = Aliases
        /\ \A a \in Aliases : \/ j.store[a] = c.binfo[b].store[a]
                              \/ j.store[a] \in 1..(n - 1) /\ c.insns[j.store[a]].op \in Setters
    BY <1>2, <2>4, <2>5
  <2>8. MoreStores(c, b, n, j)
    BY <2>5, <2>6 DEF MoreStores
  <2> QED BY <2>3, <2>7, <2>8, BlockPasses
<1>5. CASE IsCall(c, n)
  <2> DEFINE j == [c.binfo[b] EXCEPT !.has_call = TRUE]
  <2>1. i.op \notin {"get", "set", "shift"}
    BY <1>5 DEF IsCall, NontailCalls
  <2>2. d = [c EXCEPT !.binfo[b].has_call = TRUE]
    BY <1>5, <2>1 DEF FirstPassInsn
  <2>3. d = [c EXCEPT !.binfo[b] = j]
    BY <1>2, <2>2 DEF CtxFields
  <2>4. /\ DOMAIN j = BlockFields /\ j.load = c.binfo[b].load /\ j.min_death = c.binfo[b].min_death
        /\ j.store = c.binfo[b].store
    BY <1>2 DEF BlockFields
  <2>5. c.insns[n].op # "get" /\ c.insns[n].op # "shift"
    BY <2>1
  <2> HIDE DEF i, j
  <2>6. MoreStores(c, b, n, j)
    BY <1>2, <2>4 DEF MoreStores
  <2> QED BY <2>3, <2>5, <2>6, BlockPasses
<1>6. CASE i.op \notin {"get", "set"} /\ ~IsCall(c, n)
  <2>1. d = FixRegs(c, n)
    BY <1>6 DEF FirstPassInsn
  <2> QED BY <1>6, <2>1, FixRegsPasses
<1> QED BY <1>3, <1>4, <1>5, <1>6

(* The first pass over a block. *)
LEMMA FirstPassedPasses ==
  ASSUME NEW s, NEW b, NEW m, Ahead(s, b, m), NEW c, Passed(c, s, m),
         NEW d, d = FirstPassed(c, b)[Size(c, b)]
  PROVE  Passed(d, s, s.blocks[b].last)
<1> DEFINE n == Size(c, b)
           f == FirstPassed(c, b)
           Good == {k \in Nat : k <= n => Passed(f[k], s, m + k)}
<1>1. /\ n \in Nat /\ m \in Int /\ m + n = s.blocks[b].last
      /\ \A k \in 1..n : Here(s, b, Insn(c, b, k)) /\ Insn(c, b, k) = m + k
  <2>1. c.blocks = s.blocks
    BY DEF Passed, Shape
  <2> QED BY <2>1, InsnHere, AheadFacts
<1>2. \A k \in 0..n : f[k] = IF k = 0 THEN c ELSE FirstPassInsn(f[k - 1], b, Insn(c, b, k))
  <2> HIDE DEF n, f
  <2>1. f = [k \in 0..n |-> IF k = 0 THEN c ELSE FirstPassInsn(f[k - 1], b, Insn(c, b, k))]
    BY <1>1, FirstPassedRecur DEF n, f
  <2> QED BY <2>1
<1>0. d = f[n]
  OBVIOUS
<1> HIDE DEF f, n
<1>3. m + 0 = m
  BY <1>1
<1>4. 0 \in Good
  BY <1>1, <1>2, <1>3
<1>5. ASSUME NEW k \in Nat, k \in Good PROVE k + 1 \in Good
  <2> SUFFICES ASSUME k + 1 <= n PROVE Passed(f[k + 1], s, m + (k + 1))
    OBVIOUS
  <2> DEFINE i == Insn(c, b, k + 1)
  <2>1. k + 1 \in 0..n /\ k + 1 \in 1..n /\ k + 1 # 0 /\ (k + 1) - 1 = k /\ k <= n
    BY <1>1
  <2>2. f[k + 1] = FirstPassInsn(f[k], b, i)
    BY <1>2, <2>1
  <2>3. Here(s, b, i) /\ i = m + (k + 1) /\ i - 1 = m + k
    BY <1>1, <2>1
  <2>4. Passed(f[k], s, i - 1)
    BY <1>5, <2>1, <2>3
  <2> HIDE DEF i
  <2>5. Passed(f[k + 1], s, i)
    BY <2>2, <2>3, <2>4, FirstPassInsnPasses
  <2> QED BY <2>3, <2>5
<1> HIDE DEF Good
<1>6. n \in Good
  BY <1>1, <1>4, <1>5, Induction
<1> QED BY <1>0, <1>1, <1>6 DEF Good

(* The stores of a predecessor come before the block. *)
LEMMA ForwardStoresPasses ==
  ASSUME NEW s, NEW b, NEW m, Ahead(s, b, m), NEW n, n = s.blocks[b].last, NEW c, Passed(c, s, n),
         NEW d, d = ForwardStores(c, b)
  PROVE  Passed(d, s, n)
<1> DEFINE N == Len(s.insns)
           entries == c.blocks[b].entries
           i       == c.binfo[b]
           f       == [a \in Aliases |-> IF i.load[a] = 0 /\ i.store[a] = 0
                                         THEN c.binfo[entries[1]].store[a] ELSE i.store[a]]
<1>1. /\ IsSkeleton(s) /\ b \in DOMAIN s.blocks /\ n \in 1..N /\ N \in Nat /\ n \in Int /\ b \in Nat
      /\ s.blocks[b].first <= n /\ s.blocks[b].first \in Int
  BY AheadFacts, BlockFacts DEF Ahead
<1> HIDE DEF N
<1>2. /\ Shape(c, s) /\ CodeOK(c) /\ FixedOK(c) /\ Untouched(c) /\ Infos(c, n)
      /\ LoadsTo(c, s, n) /\ StoresTo(c, s, n) /\ MinDeaths(c, s)
  BY DEF Passed
<1>3. /\ DOMAIN c = CtxFields /\ DOMAIN c.insns = 1..N /\ DOMAIN c.binfo = DOMAIN s.blocks
      /\ c.blocks = s.blocks /\ DOMAIN i = BlockFields
  BY <1>1, <1>2 DEF Shape, N
<1>4. CASE Len(entries) # 1 \/ entries[1] >= b
  BY <1>4 DEF ForwardStores
<1>5. CASE ~(Len(entries) # 1 \/ entries[1] >= b)
  <2>1. d = [c EXCEPT !.binfo[b].store = f]
    BY <1>5 DEF ForwardStores
  <2>2. entries[1] \in DOMAIN s.blocks /\ entries[1] < b
    <3>1. entries \in Seq(DOMAIN s.blocks) /\ Len(entries) = 1
      BY <1>1, <1>3, <1>5 DEF IsSkeleton, IsBlocks
    <3>2. entries[1] \in DOMAIN s.blocks
      BY <3>1
    <3>3. entries[1] \in Nat
      BY <1>1, <3>2, BlockFacts
    <3> QED BY <1>1, <1>5, <3>2, <3>3
  <2>3. s.blocks[entries[1]].last < s.blocks[b].first /\ s.blocks[entries[1]].last \in Int
    <3> DEFINE p == entries[1]
    <3> HIDE DEF p
    <3>1. p \in DOMAIN s.blocks /\ p < b
      BY <2>2 DEF p
    <3>2. s.blocks[p].last \in 1..N
      BY <1>1, <3>1, BlockFacts DEF N
    <3>3. s.blocks[p].last < s.blocks[b].first
      BY <1>1, <3>1 DEF IsSkeleton, IsBlocks
    <3> QED BY <1>1, <3>2, <3>3 DEF p
  <2>4. \A a \in Aliases : f[a] # 0 => f[a] \in 1..n /\ c.insns[f[a]].op \in Setters
    <3> SUFFICES ASSUME NEW a \in Aliases, f[a] # 0
                 PROVE  f[a] \in 1..n /\ c.insns[f[a]].op \in Setters
      OBVIOUS
    <3>1. CASE f[a] = c.binfo[entries[1]].store[a]
      BY <1>2, <2>2, <3>1 DEF StoresTo
    <3>2. CASE f[a] = i.store[a]
      BY <1>1, <1>2, <3>2 DEF StoresTo
    <3> QED BY <3>1, <3>2
  <2>5. DOMAIN f = Aliases
    OBVIOUS
  <2> HIDE DEF f, entries
  <2>6. /\ DOMAIN d = CtxFields /\ d.blocks = c.blocks /\ d.opts = c.opts /\ d.insns = c.insns
        /\ d.death = c.death /\ d.fixed = c.fixed /\ d.early = c.early /\ d.map = c.map
        /\ d.natural = c.natural /\ d.ok = c.ok /\ d.info = c.info /\ DOMAIN d.binfo = DOMAIN c.binfo
        /\ d.binfo[b] = [i EXCEPT !.store = f]
        /\ \A e \in DOMAIN c.binfo : e # b => d.binfo[e] = c.binfo[e]
    BY <1>1, <1>3, <2>1 DEF CtxFields
  <2>7. /\ DOMAIN d.binfo[b] = BlockFields /\ d.binfo[b].load = i.load
        /\ d.binfo[b].min_death = i.min_death /\ d.binfo[b].store = f
    BY <1>3, <2>6 DEF BlockFields
  <2>8. Shape(d, s)
    <3>1. ASSUME NEW e \in DOMAIN s.blocks
          PROVE  /\ DOMAIN d.binfo[e] = BlockFields
                 /\ DOMAIN d.binfo[e].load = Aliases /\ DOMAIN d.binfo[e].store = Aliases
      <4>1. /\ DOMAIN c.binfo[e] = BlockFields /\ e \in DOMAIN c.binfo
            /\ DOMAIN c.binfo[e].load = Aliases /\ DOMAIN c.binfo[e].store = Aliases
        BY <1>2 DEF Shape
      <4> QED BY <2>5, <2>6, <2>7, <4>1
    <3> QED BY <1>2, <2>6, <3>1 DEF Shape
  <2>9. CodeOK(d) /\ FixedOK(d) /\ Untouched(d) /\ Infos(d, n)
    BY <1>2, <2>6 DEF CodeOK, FixedOK, Untouched, Infos, FirstInfo
  <2>10. MinDeaths(d, s)
    BY <1>2, <1>3, <2>6, <2>7 DEF MinDeaths
  <2>11. \A e \in DOMAIN s.blocks : d.binfo[e].load = c.binfo[e].load
    BY <1>3, <2>6, <2>7
  <2>12. LoadsTo(d, s, n)
    BY <1>2, <2>6, <2>11 DEF LoadsTo
  <2>13. StoresTo(d, s, n)
    <3> SUFFICES ASSUME NEW e \in DOMAIN s.blocks, NEW a \in Aliases, d.binfo[e].store[a] # 0
                 PROVE  LET r == d.binfo[e].store[a] IN
                          r \in 1..n /\ r <= s.blocks[e].last /\ d.insns[r].op \in Setters
      BY DEF StoresTo
    <3>1. CASE e = b
      <4>1. f[a] # 0 /\ d.binfo[e].store[a] = f[a]
        BY <2>7, <3>1
      <4>2. f[a] \in 1..n /\ c.insns[f[a]].op \in Setters
        BY <2>4, <4>1
      <4> QED BY <1>1, <2>6, <3>1, <4>1, <4>2
    <3>2. CASE e # b
      <4>1. d.binfo[e] = c.binfo[e]
        BY <1>3, <2>6, <3>2
      <4> QED BY <1>2, <2>6, <4>1 DEF StoresTo
    <3> QED BY <3>1, <3>2
  <2> QED BY <2>8, <2>9, <2>10, <2>12, <2>13 DEF Passed
<1> QED BY <1>4, <1>5

(* And then ForwardStores and the list of reserved registers. *)
LEMMA FirstPassPasses ==
  ASSUME NEW s, NEW b, NEW m, Ahead(s, b, m), NEW c, Passed(c, s, m),
         NEW d, d = FixedList(FirstPass(c, b))
  PROVE  Passed(d, s, s.blocks[b].last)
<1> DEFINE n == s.blocks[b].last
           a == FirstPassed(c, b)[Size(c, b)]
           e == ForwardStores(a, b)
<1>1. Passed(a, s, n)
  BY FirstPassedPasses
<1>2. d = FixedList(e)
  BY DEF FirstPass
<1> HIDE DEF a, n
<1>3. Passed(e, s, n)
  BY <1>1, ForwardStoresPasses DEF n
<1> HIDE DEF e
<1>4. /\ Shape(e, s) /\ CodeOK(e) /\ FixedOK(e) /\ Untouched(e) /\ Infos(e, n)
      /\ LoadsTo(e, s, n) /\ StoresTo(e, s, n) /\ MinDeaths(e, s) /\ DOMAIN e = CtxFields
  BY <1>3 DEF Passed, Shape
<1>5. /\ DOMAIN d = CtxFields /\ d.blocks = e.blocks /\ d.opts = e.opts /\ d.insns = e.insns
      /\ d.death = e.death /\ d.early = e.early /\ d.map = e.map
      /\ d.natural = e.natural /\ d.ok = e.ok /\ d.info = e.info /\ d.binfo = e.binfo
      /\ d.fixed = {r \in DOMAIN e.insns : Dest(e, r) = r /\ e.info[r].allocated}
  BY <1>2, <1>4 DEF FixedList, CtxFields
<1>6. Shape(d, s)
  BY <1>4, <1>5 DEF Shape
<1>7. FixedOK(d)
  <2>1. d.fixed \subseteq DOMAIN d.insns
    BY <1>5
  <2>2. ASSUME "FIXED_REGS" \notin d.opts PROVE d.fixed = {}
    <3>1. \A r \in DOMAIN e.insns : e.info[r].allocated = FALSE
      BY <1>4, <1>5, <2>2 DEF Infos, FirstInfo
    <3> QED BY <1>5, <3>1
  <2> QED BY <2>1, <2>2 DEF FixedOK
<1>8. CodeOK(d) /\ Untouched(d) /\ Infos(d, n)
  BY <1>4, <1>5 DEF CodeOK, Untouched, Infos, FirstInfo
<1>9. LoadsTo(d, s, n) /\ StoresTo(d, s, n) /\ MinDeaths(d, s)
  BY <1>4, <1>5 DEF LoadsTo, StoresTo, MinDeaths
<1> QED BY <1>6, <1>7, <1>8, <1>9 DEF Passed, n

(* When the first pass is over, nothing has a register yet. *)
LEMMA PassedAll ==
  ASSUME NEW s, IsSkeleton(s), NEW c, Passed(c, s, Len(s.insns))
  PROVE  Between(c, s, 0) /\ MinDeaths(c, s)
<1> DEFINE N == Len(s.insns)
<1>1. /\ Shape(c, s) /\ CodeOK(c) /\ FixedOK(c) /\ Untouched(c) /\ Infos(c, N)
      /\ LoadsTo(c, s, N) /\ StoresTo(c, s, N) /\ MinDeaths(c, s) /\ DOMAIN c.insns = 1..N
  BY DEF Passed, Shape
<1>2. /\ N \in Nat /\ \A b \in DOMAIN s.blocks : InBlock(s, b) \subseteq 1..N
      /\ \A b \in DOMAIN s.blocks : s.blocks[b].last \in Int
  BY BlockFacts DEF IsSkeleton
<1> HIDE DEF N
<1>3. Loads(c, s)
  <2>1. ASSUME NEW b \in DOMAIN s.blocks, NEW g \in InBlock(s, b), c.insns[g].op = "get"
        PROVE  c.binfo[b].load[c.insns[g].x] = g
    <3>1. g <= N
      BY <1>2
    <3> QED BY <1>1, <2>1, <3>1 DEF LoadsTo
  <2>2. ASSUME NEW b \in DOMAIN s.blocks, NEW a \in Aliases, c.binfo[b].load[a] # 0
        PROVE  LET g == c.binfo[b].load[a] IN
                 g \in InBlock(s, b) /\ c.insns[g].op = "get" /\ c.insns[g].x = a
    BY <1>1, <2>2 DEF LoadsTo
  <2> QED BY <2>1, <2>2 DEF Loads
<1>4. Stores(c, s)
  <2> SUFFICES ASSUME NEW b \in DOMAIN s.blocks, NEW a \in Aliases, c.binfo[b].store[a] # 0
               PROVE  LET r == c.binfo[b].store[a] IN
                        r \in 1..s.blocks[b].last /\ c.insns[r].op \in Setters
    BY DEF Stores
  <2>1. LET r == c.binfo[b].store[a] IN
          r \in 1..N /\ r <= s.blocks[b].last /\ c.insns[r].op \in Setters
    BY <1>1 DEF StoresTo
  <2> QED BY <1>2, <2>1
<1>5. Static(c, s) /\ Asserts(c)
  BY <1>1, <1>3, <1>4 DEF Static, Asserts, Untouched
<1>6. Pending(c, 0)
  <2> SUFFICES ASSUME NEW r \in 1..N PROVE IsPending(c, r)
    BY <1>1 DEF Pending
  <2>1. FirstInfo(c, r) /\ ("FIXED_REGS" \in c.opts /\ c.insns[r].op = "shift" => CX \in c.info[r].avoid)
    BY <1>1, <1>2 DEF Infos
  <2> QED BY <2>1 DEF IsPending, FirstInfo
<1>7. Unpromised(c, 0)
  BY <1>1 DEF Unpromised, Infos, FirstInfo
<1>8. Placed(c, 0, 0) /\ Results(c, 0)
  BY <1>1 DEF Placed, MapOK, InPlace, SpillsOK, Shared, Results, Untouched
<1> QED BY <1>1, <1>5, <1>6, <1>7, <1>8 DEF Between

(******************************* Live ranges *******************************)

(* A finite set of numbers has a bound. *)
LEMMA Bounded ==
  ASSUME NEW S, S \subseteq Nat, IsFiniteSet(S)
  PROVE  \E n \in Nat : \A i \in S : i <= n
<1>1. PICK n \in Nat : ExistsBijection(1..n, S)
  BY FS_NatBijection
<1>2. PICK f \in Bijection(1..n, S) : TRUE
  BY <1>1 DEF ExistsBijection
<1>3. f \in [1..n -> S] /\ \A i \in S : \E k \in 1..n : f[k] = i
  BY <1>2 DEF Bijection, Injection, Surjection, IsInjective
<1> DEFINE B == {k \in Nat : \E m \in Nat : \A j \in 1..n : j <= k => f[j] <= m}
<1>4. 0 \in B
  OBVIOUS
<1>5. ASSUME NEW k \in Nat, k \in B PROVE k + 1 \in B
  <2>1. PICK m \in Nat : \A j \in 1..n : j <= k => f[j] <= m
    BY <1>5
  <2>2. CASE k + 1 \in 1..n
    <3> DEFINE q == IF f[k + 1] > m THEN f[k + 1] ELSE m
    <3>1. f[k + 1] \in Nat
      BY <1>3, <2>2
    <3>2. q \in Nat /\ f[k + 1] <= q /\ m <= q
      BY <3>1
    <3> HIDE DEF q
    <3>3. ASSUME NEW j \in 1..n, j <= k + 1 PROVE f[j] <= q
      <4>1. f[j] \in Nat
        BY <1>3
      <4>2. CASE j = k + 1
        BY <3>2, <4>2
      <4>3. CASE j <= k
        BY <2>1, <3>2, <4>1, <4>3
      <4> QED BY <3>3, <4>2, <4>3
    <3> QED BY <3>2, <3>3
  <2>3. CASE k + 1 \notin 1..n
    <3>1. \A j \in 1..n : j <= k + 1 => j <= k
      BY <2>3
    <3>2. \A j \in 1..n : j <= k + 1 => f[j] <= m
      BY <2>1, <3>1
    <3>3. k + 1 \in Nat
      OBVIOUS
    <3> QED BY <3>2, <3>3
  <2> QED BY <2>2, <2>3
<1> HIDE DEF B
<1>6. n \in B
  BY <1>4, <1>5, Induction
<1>7. PICK m \in Nat : \A j \in 1..n : j <= n => f[j] <= m
  BY <1>6 DEF B
<1>8. \A j \in 1..n : j <= n
  OBVIOUS
<1> QED BY <1>3, <1>7, <1>8

(* So it has a greatest member, unless it is empty. *)
LEMMA LatestOrNone ==
  ASSUME NEW S, S \subseteq Nat, IsFiniteSet(S)
  PROVE  /\ Latest(S \cup {None}) \in S \cup {None}
         /\ \A j \in S : j <= Latest(S \cup {None})
<1>1. PICK n \in Nat : \A i \in S : i <= n
  BY Bounded
<1>2. \E i \in S \cup {None} : \A j \in S \cup {None} : i >= j
  <2>1. CASE S = {}
    BY <2>1 DEF None
  <2>2. CASE S # {}
    <3>1. Latest(S) \in S /\ \A j \in S : j <= Latest(S)
      BY <1>1, <2>2, LatestIn
    <3>2. Latest(S) \in Nat
      BY <3>1
    <3> QED BY <3>1, <3>2 DEF None
  <2> QED BY <2>1, <2>2
<1> QED BY <1>2 DEF Latest

(* A step that changes how long registers live, and no more. *)
Outlives(c, d, s) ==
  /\ Shape(d, s) /\ d.insns = c.insns /\ d.info = c.info /\ d.fixed = c.fixed /\ d.early = c.early
  /\ d.map = c.map /\ d.natural = c.natural /\ d.ok = c.ok /\ MinDeaths(d, s)
  /\ \A e \in DOMAIN s.blocks : d.binfo[e].load = c.binfo[e].load /\ d.binfo[e].store = c.binfo[e].store

(* The first pass does not depend on it, *)
LEMMA OutlivesPasses ==
  ASSUME NEW s, NEW n, NEW c, NEW d, Outlives(c, d, s), Passed(c, s, n)
  PROVE  Passed(d, s, n)
<1>1. /\ Shape(c, s) /\ CodeOK(c) /\ FixedOK(c) /\ Untouched(c) /\ Infos(c, n)
      /\ LoadsTo(c, s, n) /\ StoresTo(c, s, n)
  BY DEF Passed
<1>2. /\ Shape(d, s) /\ d.insns = c.insns /\ d.info = c.info /\ d.fixed = c.fixed /\ d.early = c.early
      /\ d.map = c.map /\ d.natural = c.natural /\ d.ok = c.ok /\ MinDeaths(d, s) /\ d.opts = c.opts
  BY <1>1 DEF Outlives, Shape
<1>3. CodeOK(d) /\ FixedOK(d) /\ Untouched(d) /\ Infos(d, n)
  BY <1>1, <1>2 DEF CodeOK, FixedOK, Untouched, Infos, FirstInfo
<1>4. \A e \in DOMAIN s.blocks : d.binfo[e].load = c.binfo[e].load /\ d.binfo[e].store = c.binfo[e].store
  BY DEF Outlives
<1>5. LoadsTo(d, s, n)
  BY <1>1, <1>2, <1>4 DEF LoadsTo
<1>6. StoresTo(d, s, n)
  BY <1>1, <1>2, <1>4 DEF StoresTo
<1> QED BY <1>2, <1>3, <1>5, <1>6 DEF Passed

(* nor does what the allocation starts from. *)
LEMMA OutlivesBetween ==
  ASSUME NEW s, NEW c, NEW d, Outlives(c, d, s), Between(c, s, 0)
  PROVE  Between(d, s, 0)
<1>1. /\ Shape(c, s) /\ Static(c, s) /\ Asserts(c)
      /\ Placed(c, 0, 0) /\ Pending(c, 0) /\ Results(c, 0) /\ Unpromised(c, 0)
  BY DEF Between
<1>2. /\ Shape(d, s) /\ d.insns = c.insns /\ d.info = c.info /\ d.fixed = c.fixed /\ d.early = c.early
      /\ d.map = c.map /\ d.natural = c.natural /\ d.ok = c.ok /\ d.opts = c.opts
  BY <1>1 DEF Outlives, Shape
<1>4. \A e \in DOMAIN s.blocks : d.binfo[e].load = c.binfo[e].load /\ d.binfo[e].store = c.binfo[e].store
  BY DEF Outlives
<1>5. Loads(d, s)
  BY <1>1, <1>2, <1>4 DEF Loads, Static
<1>6. Stores(d, s)
  BY <1>1, <1>2, <1>4 DEF Stores, Static
<1>7. Static(d, s) /\ Asserts(d)
  BY <1>1, <1>2, <1>5, <1>6 DEF Static, Asserts, CodeOK, FixedOK
<1>8. Pending(d, 0) /\ Unpromised(d, 0)
  BY <1>1, <1>2 DEF Pending, IsPending, Unpromised
<1>9. Placed(d, 0, 0) /\ Results(d, 0)
  BY <1>1, <1>2 DEF Placed, MapOK, InPlace, SpillsOK, Shared, Results
<1> QED BY <1>2, <1>7, <1>8, <1>9 DEF Between

(* rtl_update_live_ranges() is one: a loop lengthens lives. *)
LEMMA LoopOutlives ==
  ASSUME NEW s, IsSkeleton(s), NEW b \in DOMAIN s.blocks, NEW c, Shape(c, s), MinDeaths(c, s),
         NEW d, d = ExtendOverLoop(c, b)
  PROVE  Outlives(c, d, s)
<1> DEFINE N == Len(s.insns)
           first  == c.blocks[b].first
           S      == Range(c.blocks[b].entries)
           latest == Latest(S \cup {None})
           until  == c.blocks[latest].last
           extended(r) == IF r < first /\ c.death[r] >= first THEN Later(c.death[r], until)
                          ELSE c.death[r]
           f == [r \in DOMAIN c.death |-> extended(r)]
<1>1. /\ DOMAIN c = CtxFields /\ c.blocks = s.blocks /\ DOMAIN c.death = 1..N
      /\ \A r \in 1..N : c.death[r] \in Int
      /\ DOMAIN c.binfo = DOMAIN s.blocks /\ DOMAIN c.binfo[b] = BlockFields
  BY DEF Shape
<1>2. d = IF latest < b THEN c ELSE [c EXCEPT !.binfo[b].min_death = until, !.death = f]
  BY DEF ExtendOverLoop
<1>3. S \subseteq DOMAIN s.blocks /\ DOMAIN s.blocks \subseteq Nat /\ IsFiniteSet(DOMAIN s.blocks)
  <2>1. s.blocks[b].entries \in Seq(DOMAIN s.blocks)
    BY DEF IsSkeleton, IsBlocks
  <2>2. S \subseteq DOMAIN s.blocks
    BY <1>1, <2>1 DEF Range
  <2> QED BY <2>2 DEF IsSkeleton, IsBlocks
<1> HIDE DEF S
<1>4. latest \in S \cup {None}
  <2>1. S \subseteq Nat /\ IsFiniteSet(S)
    BY <1>3, FS_Subset
  <2> QED BY <2>1, LatestOrNone
<1> HIDE DEF latest
<1>5. CASE latest < b
  BY <1>2, <1>5 DEF Outlives
<1>6. CASE ~(latest < b)
  <2>1. latest \in DOMAIN s.blocks
    BY <1>3, <1>4, <1>6 DEF None
  <2>2. until \in Int
    BY <1>1, <2>1, BlockFacts
  <2> HIDE DEF until, first
  <2>3. DOMAIN f = 1..N /\ \A r \in 1..N : f[r] \in Int
    BY <1>1, <2>2 DEF Later
  <2> HIDE DEF f
  <2>4. /\ DOMAIN d = CtxFields /\ d.blocks = c.blocks /\ d.opts = c.opts /\ d.insns = c.insns
        /\ d.death = f /\ d.fixed = c.fixed /\ d.early = c.early /\ d.map = c.map
        /\ d.natural = c.natural /\ d.ok = c.ok /\ d.info = c.info /\ DOMAIN d.binfo = DOMAIN c.binfo
        /\ d.binfo[b] = [c.binfo[b] EXCEPT !.min_death = until]
        /\ \A e \in DOMAIN c.binfo : e # b => d.binfo[e] = c.binfo[e]
    BY <1>1, <1>2, <1>6 DEF CtxFields
  <2>5. /\ DOMAIN d.binfo[b] = BlockFields /\ d.binfo[b].load = c.binfo[b].load
        /\ d.binfo[b].min_death = until /\ d.binfo[b].store = c.binfo[b].store
    BY <1>1, <2>4 DEF BlockFields
  <2>6. Shape(d, s)
    <3>1. ASSUME NEW e \in DOMAIN s.blocks
          PROVE  /\ DOMAIN d.binfo[e] = BlockFields
                 /\ DOMAIN d.binfo[e].load = Aliases /\ DOMAIN d.binfo[e].store = Aliases
      <4>1. /\ DOMAIN c.binfo[e] = BlockFields /\ e \in DOMAIN c.binfo
            /\ DOMAIN c.binfo[e].load = Aliases /\ DOMAIN c.binfo[e].store = Aliases
        BY DEF Shape
      <4> QED BY <2>4, <2>5, <4>1
    <3> QED BY <2>3, <2>4, <3>1 DEF Shape, N
  <2>7. MinDeaths(d, s)
    BY <1>1, <2>2, <2>4, <2>5 DEF MinDeaths
  <2>8. \A e \in DOMAIN s.blocks : d.binfo[e].load = c.binfo[e].load /\ d.binfo[e].store = c.binfo[e].store
    BY <1>1, <2>4, <2>5
  <2> QED BY <2>4, <2>6, <2>7, <2>8 DEF Outlives
<1> QED BY <1>5, <1>6

(* Between the first pass and the allocation. *)
Waits(c, s) == Between(c, s, 0) /\ MinDeaths(c, s)

(* A value lives to an instruction, however many loops it goes through. *)
LEMMA LiveUntilInt ==
  ASSUME NEW s, IsSkeleton(s), NEW c, Shape(c, s), MinDeaths(c, s), NEW e \in Int
  PROVE  LiveUntil(c, e)[Latest(DOMAIN c.blocks) + 1] \in Int
<1> DEFINE n == Latest(DOMAIN c.blocks) + 1
           f == LiveUntil(c, e)
           Good == {k \in Nat : k <= n => f[k] \in Int}
<1>1. c.blocks = s.blocks /\ DOMAIN c.blocks \subseteq Nat /\ DOMAIN c.blocks # {}
      /\ IsFiniteSet(DOMAIN c.blocks)
  BY DEF Shape, IsSkeleton, IsBlocks
<1>2. n \in Nat
  <2>1. PICK q \in Nat : \A i \in DOMAIN c.blocks : i <= q
    BY <1>1, Bounded
  <2>2. Latest(DOMAIN c.blocks) \in DOMAIN c.blocks
    BY <1>1, <2>1, LatestIn
  <2> QED BY <1>1, <2>2
<1>3. \A k \in 0..n : f[k] = IF k = 0 THEN e ELSE Through(c, k - 1, f[k - 1])
  <2> HIDE DEF n, f
  <2>1. f = [k \in 0..n |-> IF k = 0 THEN e ELSE Through(c, k - 1, f[k - 1])]
    BY <1>2, LiveUntilRecur DEF n, f
  <2> QED BY <2>1
<1> HIDE DEF f, n
<1>4. 0 \in Good
  BY <1>2, <1>3
<1>5. ASSUME NEW k \in Nat, k \in Good PROVE k + 1 \in Good
  <2> SUFFICES ASSUME k + 1 <= n PROVE f[k + 1] \in Int
    OBVIOUS
  <2>1. k + 1 \in 0..n /\ k + 1 # 0 /\ (k + 1) - 1 = k /\ k <= n
    BY <1>2
  <2>2. f[k + 1] = Through(c, k, f[k]) /\ f[k] \in Int
    BY <1>3, <1>5, <2>1
  <2>3. k \in DOMAIN c.blocks => c.binfo[k].min_death \in Int
    BY <1>1 DEF MinDeaths
  <2> QED BY <2>2, <2>3 DEF Through, Later
<1> HIDE DEF Good
<1>6. n \in Good
  BY <1>2, <1>4, <1>5, Induction
<1> QED BY <1>2, <1>6 DEF Good, n, f

(* The store of one predecessor, which lives longer, *)
LEMMA ExtendStoreWaits ==
  ASSUME NEW s, IsSkeleton(s), NEW c, Waits(c, s), NEW p \in DOMAIN s.blocks, NEW a \in Aliases,
         NEW d, d = ExtendStore(c, a, p)
  PROVE  Waits(d, s)
<1> DEFINE N == Len(s.insns)
           r == c.binfo[p].store[a]
           e == c.blocks[p].last
           x == LiveUntil(c, e)[Latest(DOMAIN c.blocks) + 1]
<1>1. Between(c, s, 0) /\ MinDeaths(c, s) /\ Shape(c, s) /\ Stores(c, s) /\ DOMAIN c = CtxFields
      /\ DOMAIN c.death = 1..N /\ \A q \in 1..N : c.death[q] \in Int
  BY DEF Waits, Between, Static, Shape
<1>2. d = c \/ (r # 0 /\ d = [c EXCEPT !.death[r] = x])
  BY DEF ExtendStore, LiveThrough
<1>3. e \in Int
  BY <1>1, BlockFacts DEF Shape
<1>4. x \in Int
  <2> HIDE DEF e
  <2> QED BY <1>1, <1>3, LiveUntilInt
<1> HIDE DEF x, r
<1>5. CASE d = [c EXCEPT !.death[r] = x]
  <2>1. /\ DOMAIN d = CtxFields /\ d.blocks = c.blocks /\ d.opts = c.opts /\ d.insns = c.insns
        /\ d.fixed = c.fixed /\ d.early = c.early /\ d.map = c.map
        /\ d.natural = c.natural /\ d.ok = c.ok /\ d.info = c.info /\ d.binfo = c.binfo
        /\ d.death = [c.death EXCEPT ![r] = x]
    BY <1>1, <1>5 DEF CtxFields
  <2>2. DOMAIN d.death = 1..N /\ \A q \in 1..N : d.death[q] \in Int
    BY <1>1, <1>4, <2>1
  <2>3. Shape(d, s)
    BY <1>1, <2>1, <2>2 DEF Shape, N
  <2>4. MinDeaths(d, s)
    BY <1>1, <2>1 DEF MinDeaths
  <2>5. Outlives(c, d, s)
    BY <2>1, <2>3, <2>4 DEF Outlives
  <2> QED BY <1>1, <2>4, <2>5, OutlivesBetween DEF Waits
<1> QED BY <1>2, <1>5

(* those of all of them, *)
LEMMA StoresExtendedWaits ==
  ASSUME NEW s, IsSkeleton(s), NEW c, Waits(c, s), NEW b \in DOMAIN s.blocks, NEW a \in Aliases,
         NEW d, d = ExtendAlias(c, b, a)
  PROVE  Waits(d, s)
<1> DEFINE entries == c.blocks[b].entries
           n == Len(entries)
           f == StoresExtended(c, b, a)
           Good == {k \in Nat : k <= n => Waits(f[k], s)}
<1>1. n \in Nat /\ \A k \in 1..n : entries[k] \in DOMAIN s.blocks
  <2>1. c.blocks = s.blocks
    BY DEF Waits, Between, Shape
  <2>2. entries \in Seq(DOMAIN s.blocks)
    BY <2>1 DEF IsSkeleton, IsBlocks
  <2> QED BY <2>2
<1>2. \A k \in 0..n : f[k] = IF k = 0 THEN c ELSE ExtendStore(f[k - 1], a, entries[k])
  <2> HIDE DEF n, f
  <2>1. f = [k \in 0..n |-> IF k = 0 THEN c ELSE ExtendStore(f[k - 1], a, entries[k])]
    BY <1>1, StoresExtendedRecur DEF n, f
  <2> QED BY <2>1
<1>3. d = c \/ d = f[n]
  BY DEF ExtendAlias
<1> HIDE DEF f, n, entries
<1>4. 0 \in Good
  BY <1>1, <1>2
<1>5. ASSUME NEW k \in Nat, k \in Good PROVE k + 1 \in Good
  <2> SUFFICES ASSUME k + 1 <= n PROVE Waits(f[k + 1], s)
    OBVIOUS
  <2>1. k + 1 \in 0..n /\ k + 1 \in 1..n /\ k + 1 # 0 /\ (k + 1) - 1 = k /\ k <= n
    BY <1>1
  <2>2. f[k + 1] = ExtendStore(f[k], a, entries[k + 1]) /\ Waits(f[k], s)
    BY <1>2, <1>5, <2>1
  <2>3. entries[k + 1] \in DOMAIN s.blocks
    BY <1>1, <2>1
  <2> QED BY <2>2, <2>3, ExtendStoreWaits
<1> HIDE DEF Good
<1>6. n \in Good
  BY <1>1, <1>4, <1>5, Induction
<1> QED BY <1>1, <1>3, <1>6 DEF Good

(* and of all aliases that the block loads. *)
LEMMA ExtendStoresWaits ==
  ASSUME NEW s, IsSkeleton(s), NEW c, Waits(c, s), NEW b \in DOMAIN s.blocks,
         NEW d, d = ExtendStores(c, b)
  PROVE  Waits(d, s)
<1> DEFINE n == NumAliases
           f == AliasesExtended(c, b)
           Good == {k \in Nat : k <= n => Waits(f[k], s)}
<1>1. n \in Nat
  BY HostsAssumption
<1>2. \A k \in 0..n : f[k] = IF k = 0 THEN c ELSE ExtendAlias(f[k - 1], b, k)
  <2> HIDE DEF n, f
  <2>1. f = [k \in 0..n |-> IF k = 0 THEN c ELSE ExtendAlias(f[k - 1], b, k)]
    BY <1>1, AliasesExtendedRecur DEF n, f
  <2> QED BY <2>1
<1>3. d = f[n]
  BY DEF ExtendStores
<1> HIDE DEF f
<1>4. 0 \in Good
  BY <1>1, <1>2
<1>5. ASSUME NEW k \in Nat, k \in Good PROVE k + 1 \in Good
  <2> SUFFICES ASSUME k + 1 <= n PROVE Waits(f[k + 1], s)
    OBVIOUS
  <2>1. k + 1 \in 0..n /\ k + 1 \in Aliases /\ k + 1 # 0 /\ (k + 1) - 1 = k /\ k <= n
    BY <1>1 DEF Aliases
  <2>2. f[k + 1] = ExtendAlias(f[k], b, k + 1) /\ Waits(f[k], s)
    BY <1>2, <1>5, <2>1
  <2> QED BY <2>1, <2>2, StoresExtendedWaits
<1> HIDE DEF Good
<1>6. n \in Good
  BY <1>1, <1>4, <1>5, Induction
<1> QED BY <1>1, <1>3, <1>6 DEF Good

(******************************* The result ********************************)

(* The last register set in h by instruction n, in the order of the code. *)
LEMMA RegMapFacts ==
  ASSUME NEW c, NEW n \in Int, NEW h, NEW r, r = RegMap(c, n, h), r # 0
  PROVE  /\ r \in 1..n /\ c.insns[r].op \in Setters /\ c.info[r].host = h
         /\ \A m \in 1..n : c.insns[m].op \in Setters /\ c.info[m].host = h => m <= r
<1> DEFINE setters == {m \in 1..n : Dest(c, m) = m /\ HostOf(c, m) = h}
<1>1. r = IF setters = {} THEN 0 ELSE Latest(setters)
  BY DEF RegMap
<1>2. \A m \in 1..n : m \in setters <=> c.insns[m].op \in Setters /\ c.info[m].host = h
  BY DEF Dest, HostOf
<1>3. setters \subseteq 1..n
  OBVIOUS
<1> HIDE DEF setters
<1>4. setters # {} /\ r = Latest(setters)
  BY <1>1
<1>5. n \in Nat /\ setters \subseteq Nat /\ \A m \in setters : m <= n
  <2>1. PICK m \in setters : TRUE
    BY <1>4
  <2>2. m \in 1..n
    BY <1>3, <2>1
  <2>3. n \in Nat
    BY <2>2
  <2> QED BY <1>3, <2>3
<1>6. r \in setters /\ \A m \in setters : m <= r
  BY <1>4, <1>5, LatestIn
<1> QED BY <1>2, <1>3, <1>6

(* What is in the way of a result has been spilled there. *)
LEMMA EvictHolds ==
  ASSUME NEW c, NEW N \in Nat, Placed(c, N, N), NEW n \in 1..N, c.insns[n].op \in Setters
  PROVE  EvictAsserts(c, n)
<1> DEFINE r == Evicted(c, n)
           h == c.info[n].host
           m == c.info[r].spill_insn
<1> SUFFICES ASSUME r # 0 PROVE c.info[r].spilled /\ m = n
  BY DEF EvictAsserts
<1>1. r = RegMap(c, n - 1, h) /\ c.death[r] > n
  BY DEF Evicted, CurrentReg, HostOf
<1> HIDE DEF r, h
<1>2. /\ r \in 1..(n - 1) /\ c.insns[r].op \in Setters /\ c.info[r].host = h
      /\ \A q \in 1..(n - 1) : c.insns[q].op \in Setters /\ c.info[q].host = h => q <= r
  BY <1>1, RegMapFacts
<1>3. c.info[r].spilled = TRUE /\ m <= n
  BY <1>1, <1>2 DEF Placed, Shared, h
<1>4. m \in (r + 1)..N /\ c.insns[m].op \in Setters /\ c.info[m].host = h
  <2>1. r \in 1..N
    BY <1>2
  <2> QED BY <1>2, <1>3, <2>1 DEF Placed, SpillsOK
<1> HIDE DEF m
<1>5. m \in 1..(n - 1) => m <= r
  BY <1>2, <1>4
<1> QED BY <1>2, <1>3, <1>4, <1>5

(* Nor does a branch jump over a spill that has been done. *)
LEMMA CrossedHolds ==
  ASSUME NEW c, NEW N \in Nat, Placed(c, N, N), NEW b, c.blocks[b].last \in 1..N, NEW t
  PROVE  CrossedAsserts(c, b, t)
<1> DEFINE l == c.blocks[b].last
<1> SUFFICES ASSUME NEW r \in Crossed(c, b, t), IsSpilled(c, l, r) PROVE FALSE
  BY DEF CrossedAsserts, LastOf
<1>1. r # 0 /\ \E h \in Hosts : r = RegMap(c, l, h)
  BY DEF Crossed, LastOf
<1>2. PICK h \in Hosts : r = RegMap(c, l, h)
  BY <1>1
<1>3. l \in Int /\ l \in 1..N
  OBVIOUS
<1> DEFINE m == c.info[r].spill_insn
<1> HIDE DEF l
<1>4. /\ r \in 1..l /\ c.insns[r].op \in Setters /\ c.info[r].host = h
      /\ \A q \in 1..l : c.insns[q].op \in Setters /\ c.info[q].host = h => q <= r
  BY <1>1, <1>2, <1>3, RegMapFacts
<1>5. c.info[r].spilled /\ m <= l
  BY DEF IsSpilled
<1>6. m \in (r + 1)..N /\ c.insns[m].op \in Setters /\ c.info[m].host = h
  <2>1. r \in 1..N
    BY <1>3, <1>4
  <2> QED BY <1>4, <1>5, <2>1 DEF Placed, SpillsOK
<1> HIDE DEF m
<1>7. m \in 1..l
  BY <1>3, <1>4, <1>5, <1>6
<1>8. m <= r
  BY <1>4, <1>6, <1>7
<1> QED BY <1>4, <1>6, <1>8

(* Nor is an operand of a multiplication, division or shift where the result or a fixed
   register would overwrite it. *)
LEMMA ArithmeticHolds ==
  ASSUME NEW c, NEW n, ResultOK(c, n)
  PROVE  ArithmeticAsserts(c, n)
<1> DEFINE op == c.insns[n].op
           host    == c.info[n].host
           temp    == c.info[n].temp
           divisor == c.info[c.insns[n].s2].host
<1>1. /\ op = "mulh" => host # AX /\ temp # DX
      /\ op = "div" => host \notin {divisor, DX} /\ temp \notin {AX, DX} /\ (divisor = DX => temp # None)
      /\ op = "mod" => host \notin {divisor, AX} /\ temp \notin {AX, DX} /\ (divisor = AX => temp # None)
      /\ op = "shift" => host # CX
  BY DEF ResultOK
<1>2. ASSUME op = "div" PROVE Divisor(c, n, AX, DX) \notin {AX, DX}
  <2>1. OutOf(c, n, DX) = IF temp # None /\ divisor = DX THEN temp ELSE divisor
    BY DEF OutOf, HostOf
  <2>2. OutOf(c, n, DX) # DX /\ (OutOf(c, n, DX) = AX => divisor = AX)
    BY <1>1, <1>2, <2>1
  <2>3. OutOf(c, n, DX) = AX => Saves(c, n, AX, DX)
    BY <1>1, <1>2, <2>2 DEF Saves, HostOf
  <2>4. Divisor(c, n, AX, DX) = IF OutOf(c, n, DX) = AX THEN host ELSE OutOf(c, n, DX)
    BY <2>3 DEF Divisor, HostOf
  <2> QED BY <1>1, <1>2, <2>2, <2>4
<1>3. ASSUME op = "mod" PROVE OutOf(c, n, AX) # AX /\ Divisor(c, n, DX, AX) # DX
  <2>1. OutOf(c, n, AX) = IF temp # None /\ divisor = AX THEN temp ELSE divisor
    BY DEF OutOf, HostOf
  <2>2. OutOf(c, n, AX) # AX /\ (OutOf(c, n, AX) = DX => divisor = DX)
    BY <1>1, <1>3, <2>1
  <2>3. OutOf(c, n, AX) = DX => Saves(c, n, DX, AX)
    BY <1>1, <1>3, <2>2 DEF Saves, HostOf
  <2>4. Divisor(c, n, DX, AX) = IF OutOf(c, n, AX) = DX THEN host ELSE OutOf(c, n, AX)
    BY <2>3 DEF Divisor, HostOf
  <2> QED BY <1>1, <1>3, <2>2, <2>4
<1> QED BY <1>1, <1>2, <1>3 DEF ArithmeticAsserts, HostOf

(*************************** The passes in order ***************************)

(* The blocks follow one another, from the first instruction to the last. *)
LEMMA EntryFirst ==
  ASSUME NEW s, IsSkeleton(s), NEW b, b = Least(DOMAIN s.blocks)
  PROVE  b \in DOMAIN s.blocks /\ s.blocks[b].first = 1
<1>1. b \in DOMAIN s.blocks /\ \A e \in DOMAIN s.blocks : b <= e
  <2>1. DOMAIN s.blocks \subseteq Nat /\ DOMAIN s.blocks # {}
    BY DEF IsSkeleton, IsBlocks
  <2> QED BY <2>1, LeastIn
<1>2. Len(s.insns) \in Nat /\ s.blocks[b].first \in 1..Len(s.insns) /\ b \in Nat
      /\ s.blocks[b].last \in 1..Len(s.insns)
  BY <1>1, BlockFacts
<1>3. 1 \in DOMAIN s.insns
  BY <1>2 DEF IsSkeleton
<1>4. PICK e \in DOMAIN s.blocks : 1 \in s.blocks[e].first..s.blocks[e].last
  BY <1>3 DEF IsSkeleton, IsBlocks
<1>5. e \in Nat /\ s.blocks[e].first \in 1..Len(s.insns)
  BY BlockFacts
<1>6. b < e => s.blocks[b].last < s.blocks[e].first
  BY <1>1 DEF IsSkeleton, IsBlocks
<1>7. b <= e
  BY <1>1
<1>8. s.blocks[e].first = 1
  BY <1>4, <1>5
<1>9. b = e
  BY <1>2, <1>5, <1>6, <1>7, <1>8
<1> QED BY <1>1, <1>8, <1>9

(* The next block starts where this one ends; after the last one there are no instructions. *)
LEMMA NextFollows ==
  ASSUME NEW s, IsSkeleton(s), NEW c, c.blocks = s.blocks, NEW b \in DOMAIN s.blocks,
         NEW e, e = NextOf(c, b)
  PROVE  /\ e = None => s.blocks[b].last = Len(s.insns)
         /\ e # None => e \in DOMAIN s.blocks /\ s.blocks[e].first - 1 = s.blocks[b].last
<1> DEFINE N == Len(s.insns)
           A == {p \in DOMAIN s.blocks : p > b}
           l == s.blocks[b].last
<1>1. /\ N \in Nat /\ b \in Nat /\ l \in 1..N
      /\ \A p \in DOMAIN s.blocks :
           /\ p \in Nat /\ s.blocks[p].first \in 1..N /\ s.blocks[p].last \in 1..N
           /\ s.blocks[p].first <= s.blocks[p].last
  BY BlockFacts
<1>2. \A n \in 1..N : \E p \in DOMAIN s.blocks : n \in s.blocks[p].first..s.blocks[p].last
  BY DEF IsSkeleton, IsBlocks
<1>3. \A p, q \in DOMAIN s.blocks : p < q => s.blocks[p].last < s.blocks[q].first
  BY DEF IsSkeleton, IsBlocks
<1>4. e = IF A = {} THEN None ELSE Least(A)
  BY DEF NextOf, After
<1>5. CASE A = {}
  <2>1. e = None
    BY <1>4, <1>5
  <2>0. N \in 1..N
    BY <1>1
  <2>2. PICK p \in DOMAIN s.blocks : N \in s.blocks[p].first..s.blocks[p].last
    BY <1>2, <2>0
  <2>3. p <= b
    BY <1>1, <1>5
  <2>4. CASE p = b
    BY <1>1, <2>1, <2>2, <2>4
  <2>5. CASE p < b
    <3>1. s.blocks[p].last < s.blocks[b].first
      BY <1>3, <2>5
    <3> QED BY <1>1, <2>2, <3>1
  <2> QED BY <1>1, <2>3, <2>4, <2>5
<1>6. CASE A # {}
  <2>1. e \in A /\ \A p \in A : e <= p
    BY <1>1, <1>4, <1>6, LeastIn
  <2>2. e \in DOMAIN s.blocks /\ e > b /\ e # None
    BY <1>1, <2>1 DEF None
  <2>3. l < s.blocks[e].first
    BY <1>1, <1>3, <2>2
  <2>4. l + 1 \in 1..N
    BY <1>1, <2>2, <2>3
  <2>5. PICK p \in DOMAIN s.blocks : l + 1 \in s.blocks[p].first..s.blocks[p].last
    BY <1>2, <2>4
  <2>6. ~(p <= b)
    <3> SUFFICES ASSUME p <= b PROVE FALSE
      OBVIOUS
    <3>1. CASE p = b
      BY <1>1, <2>5, <3>1
    <3>2. CASE p < b
      <4>1. s.blocks[p].last < s.blocks[b].first
        BY <1>3, <3>2
      <4> QED BY <1>1, <2>5, <4>1
    <3> QED BY <1>1, <3>1, <3>2
  <2>7. e <= p
    BY <1>1, <2>1, <2>6
  <2>8. ~(e < p)
    <3> SUFFICES ASSUME e < p PROVE FALSE
      OBVIOUS
    <3>1. s.blocks[e].last < s.blocks[p].first
      BY <1>3, <2>2
    <3> QED BY <1>1, <2>2, <2>3, <2>5, <3>1
  <2>9. p = e
    BY <1>1, <2>2, <2>7, <2>8
  <2> QED BY <1>1, <2>2, <2>3, <2>5, <2>9
<1> QED BY <1>5, <1>6

(* Instructions chosen from those of a skeleton. *)
Drawn(s, f) == /\ DOMAIN f = 1..Len(f) /\ Len(f) \in Nat /\ Len(f) <= Len(s.insns)
                /\ \A j \in 1..Len(f) : f[j] \in s.insns[j]

(* Their operands have been set before, as the skeleton says. *)
LEMMA ChosenOK ==
  ASSUME NEW s, IsSkeleton(s), NEW f, Drawn(s, f), Len(f) = Len(s.insns), NEW n \in 1..Len(f)
  PROVE  InsnOK(f, n)
<1> DEFINE values == {r \in 1..(n - 1) : \A j \in s.insns[r] : j.op \in Setters}
<1>1. n \in DOMAIN s.insns /\ Len(f) \in Nat /\ f[n] \in s.insns[n]
  BY DEF IsSkeleton, Drawn
<1>2. IsInsn(s, n, f[n])
  BY <1>1 DEF IsSkeleton
<1>3. values \subseteq SettersBefore(f, n)
  <2> SUFFICES ASSUME NEW r \in 1..(n - 1), \A j \in s.insns[r] : j.op \in Setters
               PROVE  f[r].op \in Setters
    BY DEF SettersBefore
  <2>1. r \in 1..Len(f)
    BY <1>1
  <2>2. f[r] \in s.insns[r]
    BY <2>1 DEF Drawn
  <2> QED BY <2>2
<1>4. /\ {f[n].s1, f[n].s2, f[n].s3} \subseteq values \cup {0}
      /\ f[n].op \in Reads \cup {"set", "move"} => f[n].s1 # 0
      /\ f[n].op \in Reads => f[n].s2 # 0
      /\ f[n].op \in {"get", "set"} => f[n].x \in Aliases
  BY <1>2 DEF IsInsn
<1> HIDE DEF values
<1>5. {f[n].s1, f[n].s2, f[n].s3} \subseteq SettersBefore(f, n) \cup {0}
  BY <1>3, <1>4
<1> QED BY <1>4, <1>5 DEF InsnOK

(* The new context is where the first pass starts. *)
LEMMA ContextPasses ==
  ASSUME NEW s, IsSkeleton(s), NEW f, Drawn(s, f), Len(f) = Len(s.insns),
         NEW death, DOMAIN death = 1..Len(f), \A r \in 1..Len(f) : death[r] \in Int,
         NEW c, c = Context(f, death, s.blocks, s.opts)
  PROVE  Passed(c, s, 0)
<1> DEFINE N == Len(s.insns)
<1>1. N \in Nat /\ DOMAIN f = 1..N /\ \A b \in DOMAIN s.blocks : InBlock(s, b) \subseteq 1..N
  BY BlockFacts DEF Drawn
<1>2. /\ DOMAIN c = CtxFields /\ c.blocks = s.blocks /\ c.opts = s.opts /\ c.insns = f
      /\ c.death = death /\ c.fixed = {} /\ c.early = {} /\ c.ok = TRUE /\ c.natural = TRUE
      /\ c.map = [h \in Hosts |-> 0] /\ c.info = [r \in 0..N |-> NoInfo]
      /\ c.binfo = [b \in DOMAIN s.blocks |-> NoBlock]
  BY DEF Context, CtxFields
<1> HIDE DEF N
<1>3. /\ DOMAIN NoInfo = InfoFields /\ NoInfo.host = AX /\ NoInfo.spilled = FALSE
      /\ NoInfo.spill_insn = 0 /\ NoInfo.temp = None /\ NoInfo.merge = FALSE
      /\ NoInfo.avoid = {} /\ NoInfo.allocated = FALSE
  BY DEF NoInfo, InfoFields, AX
<1>4. /\ DOMAIN NoBlock = BlockFields /\ NoBlock.load = [a \in Aliases |-> 0]
      /\ NoBlock.store = [a \in Aliases |-> 0] /\ NoBlock.min_death = 0
  BY DEF NoBlock, BlockFields
<1>5. AX \in Hosts /\ AX \in FixedHosts
  BY HostsFacts DEF FixedHosts
<1>6. /\ \A r \in 0..N : c.info[r] = NoInfo
      /\ \A b \in DOMAIN s.blocks : c.binfo[b] = NoBlock
      /\ \A h \in Hosts : c.map[h] = 0
      /\ DOMAIN c.info = 0..N /\ DOMAIN c.binfo = DOMAIN s.blocks /\ DOMAIN c.map = Hosts
  BY <1>2
<1>7. Shape(c, s)
  <2>1. \A r \in 0..N : DOMAIN c.info[r] = InfoFields /\ c.info[r].host \in Hosts
    BY <1>3, <1>5, <1>6
  <2>2. \A b \in DOMAIN s.blocks : /\ DOMAIN c.binfo[b] = BlockFields
                                   /\ DOMAIN c.binfo[b].load = Aliases
                                   /\ DOMAIN c.binfo[b].store = Aliases
    BY <1>4, <1>6
  <2> QED BY <1>1, <1>2, <1>6, <2>1, <2>2 DEF Shape, N
<1>8. CodeOK(c)
  BY <1>1, <1>2, ChosenOK DEF CodeOK, N
<1>9. FixedOK(c) /\ Untouched(c)
  BY <1>2, <1>6 DEF FixedOK, Untouched
<1>10. MinDeaths(c, s)
  BY <1>4, <1>6 DEF MinDeaths
<1>11. Infos(c, 0)
  <2> SUFFICES ASSUME NEW r \in 1..N PROVE FirstInfo(c, r) /\ ~(r <= 0)
    BY <1>1, <1>2 DEF Infos
  <2>1. r \in 0..N /\ ~(r <= 0)
    BY <1>1
  <2>2. c.info[r] = NoInfo
    BY <1>6, <2>1
  <2> QED BY <1>3, <1>5, <2>1, <2>2 DEF FirstInfo
<1>12. LoadsTo(c, s, 0)
  <2>1. \A b \in DOMAIN s.blocks : \A g \in InBlock(s, b) : ~(g <= 0)
    BY <1>1
  <2>2. \A b \in DOMAIN s.blocks : \A a \in Aliases : c.binfo[b].load[a] = 0
    BY <1>4, <1>6
  <2> QED BY <2>1, <2>2 DEF LoadsTo
<1>13. StoresTo(c, s, 0)
  <2>2. \A b \in DOMAIN s.blocks : \A a \in Aliases : c.binfo[b].store[a] = 0
    BY <1>4, <1>6
  <2> QED BY <2>2 DEF StoresTo
<1> QED BY <1>7, <1>8, <1>9, <1>10, <1>11, <1>12, <1>13 DEF Passed

(* A register dies at its last use. *)
LEMMA LastUseInt ==
  ASSUME NEW N \in Nat, DOMAIN insns = 1..N, NEW r \in 1..N
  PROVE  LastUse(r) \in Int
<1> DEFINE S == {r} \cup {n \in DOMAIN insns : r \in {insns[n].s1, insns[n].s2, insns[n].s3}}
<1>1. S \subseteq Nat /\ S # {} /\ \A j \in S : j <= N
  OBVIOUS
<1>2. Latest(S) \in S
  BY <1>1, LatestIn
<1> QED BY <1>1, <1>2 DEF LastUse

(* What holds in each of the translator's phases: the allocator's asserts, and what
   they rest on. *)
HostInv ==
  LET before == Skeleton.blocks[block].first - 1
      all    == Len(Skeleton.insns)
  IN  /\ unit \in DOMAIN Skeletons /\ Drawn(Skeleton, insns)
      /\ phase # "build" => Len(insns) = all
      /\ phase \in {"live_ranges", "first_pass", "aliases", "allocate"} =>
           block \in DOMAIN Skeleton.blocks
      /\ phase = "live_ranges" => Passed(ctx, Skeleton, 0)
      /\ phase = "first_pass" => Passed(ctx, Skeleton, before)
      /\ phase = "aliases" => Waits(ctx, Skeleton)
      /\ phase = "allocate" => Between(ctx, Skeleton, before)
      /\ phase \in {"code", "run"} => Between(ctx, Skeleton, all)
      /\ phase \in {"build", "live_ranges", "first_pass", "aliases", "allocate", "code", "run"}
InsnsSeq == insns \in Seq(UNION {Skeleton.insns[j] : j \in DOMAIN Skeleton.insns})
HInv == HostInv /\ InsnsSeq

(* A unit that is not built yet has no context. *)
LEMMA InitHolds ==
  ASSUME Init
  PROVE  HInv
<1>1. /\ phase = "build" /\ unit \in DOMAIN Skeletons /\ insns = <<>>
  BY DEF Init
<1>2. IsSkeleton(Skeleton)
  BY <1>1, SkeletonsAssumption DEF Skeleton
<1>3. Len(Skeleton.insns) \in Nat
  BY <1>2 DEF IsSkeleton
<1>4. Drawn(Skeleton, insns)
  BY <1>1, <1>3 DEF Drawn
<1>5. InsnsSeq
  BY <1>1 DEF InsnsSeq
<1> QED BY <1>1, <1>4, <1>5 DEF HInv, HostInv

(* A pass over one block, and on to the next block or the next pass. *)
LEMMA PassKeeps ==
  ASSUME HInv, NEW this, NEW then, NEW d, Pass(this, then, d), then # this,
         this \in {"live_ranges", "first_pass", "aliases", "allocate"}
  PROVE  /\ Skeleton' = Skeleton /\ unit' \in DOMAIN Skeletons /\ Drawn(Skeleton, insns)' /\ InsnsSeq'
         /\ Len(insns') = Len(Skeleton'.insns) /\ IsSkeleton(Skeleton) /\ phase = this /\ ctx' = d
         /\ block \in DOMAIN Skeleton.blocks /\ block' \in DOMAIN Skeleton.blocks
         /\ phase' = this => Skeleton.blocks[block'].first - 1 = Skeleton.blocks[block].last
         /\ phase' # this => /\ phase' = then /\ Skeleton.blocks[block'].first - 1 = 0
                             /\ Skeleton.blocks[block].last = Len(Skeleton.insns)
<1>1. /\ phase = this /\ ctx' = d /\ UNCHANGED <<unit, insns, machine>>
      /\ LET next == NextOf(ctx, block) IN
           IF next # None THEN phase' = this /\ block' = next ELSE phase' = then /\ block' = Entry
  BY DEF Pass
<1>2. /\ unit \in DOMAIN Skeletons /\ Drawn(Skeleton, insns) /\ Len(insns) = Len(Skeleton.insns)
      /\ block \in DOMAIN Skeleton.blocks /\ InsnsSeq
  BY <1>1 DEF HInv, HostInv
<1>3. IsSkeleton(Skeleton)
  BY <1>2, SkeletonsAssumption DEF Skeleton
<1>4. ctx.blocks = Skeleton.blocks
  BY <1>1 DEF HInv, HostInv, Passed, Waits, Between, Shape
<1>5. Skeleton' = Skeleton
  BY <1>1 DEF Skeleton
<1>6. Drawn(Skeleton, insns)' /\ InsnsSeq' /\ Len(insns') = Len(Skeleton'.insns) /\ unit' \in DOMAIN Skeletons
  BY <1>1, <1>2, <1>5 DEF Drawn, InsnsSeq
<1> DEFINE next == NextOf(ctx, block)
<1>7. /\ next = None => Skeleton.blocks[block].last = Len(Skeleton.insns)
      /\ next # None => /\ next \in DOMAIN Skeleton.blocks
                        /\ Skeleton.blocks[next].first - 1 = Skeleton.blocks[block].last
  BY <1>2, <1>3, <1>4, NextFollows
<1>8. Entry \in DOMAIN Skeleton.blocks /\ Skeleton.blocks[Entry].first - 1 = 0
  <2>1. Entry = Least(DOMAIN Skeleton.blocks)
    BY DEF Entry
  <2>2. Entry \in DOMAIN Skeleton.blocks /\ Skeleton.blocks[Entry].first = 1
    BY <1>3, <2>1, EntryFirst
  <2> QED BY <2>2
<1>9. IF next # None THEN phase' = this /\ block' = next ELSE phase' = then /\ block' = Entry
  BY <1>1
<1> HIDE DEF next
<1>10. block' \in DOMAIN Skeleton.blocks
  BY <1>7, <1>8, <1>9
<1>11. ASSUME phase' = this PROVE Skeleton.blocks[block'].first - 1 = Skeleton.blocks[block].last
  <2>1. next # None
    BY <1>8, <1>9, <1>11
  <2> QED BY <1>7, <1>9, <2>1
<1>12. ASSUME phase' # this
       PROVE  /\ phase' = then /\ Skeleton.blocks[block'].first - 1 = 0
              /\ Skeleton.blocks[block].last = Len(Skeleton.insns)
  BY <1>7, <1>8, <1>9, <1>12
<1> QED BY <1>1, <1>2, <1>3, <1>5, <1>6, <1>10, <1>11, <1>12

(* Each phase leaves what the next one starts from: one pass after the other, block by block. *)
LEMMA StepKeeps ==
  ASSUME HInv, [Next]_hostVars
  PROVE  HInv'
<1> DEFINE s == Skeleton
<1>1. unit \in DOMAIN Skeletons /\ Drawn(s, insns) /\ InsnsSeq
  BY DEF HInv, HostInv
<1>2. IsSkeleton(s)
  BY <1>1, SkeletonsAssumption DEF Skeleton
<1>3. Len(s.insns) \in Nat /\ DOMAIN s.insns = 1..Len(s.insns)
  BY <1>2 DEF IsSkeleton
<1>4. CASE Build
  <2>1. /\ phase = "build" /\ Len(insns) < Len(s.insns) /\ phase' = phase /\ unit' = unit
        /\ \E i \in s.insns[Len(insns) + 1] : insns' = Append(insns, i)
    BY <1>4 DEF Build
  <2>2. Skeleton' = s
    BY <2>1 DEF Skeleton
  <2>3. PICK i \in s.insns[Len(insns) + 1] : insns' = Append(insns, i)
    BY <2>1
  <2> DEFINE T == UNION {s.insns[j] : j \in DOMAIN s.insns}
  <2>4. Len(insns) \in Nat /\ Len(insns) + 1 \in DOMAIN s.insns
    BY <1>1, <1>3, <2>1 DEF Drawn
  <2>5. i \in T
    BY <2>3, <2>4
  <2>6. insns \in Seq(T)
    BY <1>1 DEF InsnsSeq
  <2> HIDE DEF T
  <2>7. /\ insns' \in Seq(T) /\ Len(insns') = Len(insns) + 1 /\ DOMAIN insns' = 1..(Len(insns) + 1)
        /\ insns'[Len(insns) + 1] = i /\ \A j \in 1..Len(insns) : insns'[j] = insns[j]
    BY <2>3, <2>5, <2>6
  <2>8. ASSUME NEW j \in 1..(Len(insns) + 1) PROVE insns'[j] \in s.insns[j]
    <3>1. CASE j = Len(insns) + 1
      BY <2>3, <2>7, <3>1
    <3>2. CASE j # Len(insns) + 1
      <4>1. j \in 1..Len(insns)
        BY <2>4, <3>2
      <4> QED BY <1>1, <2>7, <4>1 DEF Drawn
    <3> QED BY <3>1, <3>2
  <2>9. Len(insns) + 1 <= Len(s.insns) /\ Len(insns) + 1 \in Nat
    BY <1>3, <2>1, <2>4
  <2>10. Drawn(s, insns')
    BY <2>7, <2>8, <2>9 DEF Drawn
  <2>11. InsnsSeq'
    BY <2>2, <2>7 DEF InsnsSeq, T
  <2>12. phase' = "build" /\ unit' \in DOMAIN Skeletons
    BY <1>1, <2>1
  <2> QED BY <2>2, <2>10, <2>11, <2>12 DEF HInv, HostInv
<1>5. CASE Start
  <2> DEFINE death == [r \in DOMAIN insns |-> LastUse(r)]
             c == Context(insns, death, s.blocks, s.opts)
  <2>1. /\ Len(insns) = Len(s.insns) /\ ctx' = c
        /\ phase' = "live_ranges" /\ block' = Entry /\ UNCHANGED <<unit, insns, machine>>
    BY <1>5 DEF Start
  <2>2. DOMAIN insns = 1..Len(insns) /\ Len(insns) \in Nat
    BY <1>1 DEF Drawn
  <2>3. DOMAIN death = 1..Len(insns) /\ \A r \in 1..Len(insns) : death[r] \in Int
    BY <2>2, LastUseInt
  <2> HIDE DEF death
  <2>4. Passed(c, s, 0)
    BY <1>1, <1>2, <2>1, <2>3, ContextPasses
  <2> HIDE DEF c
  <2>5. Skeleton' = s
    BY <2>1 DEF Skeleton
  <2>6. Drawn(s, insns)' /\ InsnsSeq'
    BY <1>1, <2>1, <2>5 DEF Drawn, InsnsSeq
  <2>7. Entry \in DOMAIN s.blocks
    <3>1. Entry = Least(DOMAIN s.blocks)
      BY DEF Entry
    <3> QED BY <1>2, <3>1, EntryFirst
  <2>8. Passed(ctx', s, 0) /\ block' \in DOMAIN s.blocks /\ Len(insns') = Len(s.insns) /\ unit' \in DOMAIN Skeletons
    BY <1>1, <2>1, <2>4, <2>7
  <2> QED BY <2>1, <2>5, <2>6, <2>8 DEF HInv, HostInv
<1>6. CASE UpdateLiveRanges
  <2> DEFINE d == ExtendOverLoop(ctx, block)
  <2>1. Pass("live_ranges", "first_pass", d)
    BY <1>6 DEF UpdateLiveRanges
  <2>0. "live_ranges" \in {"live_ranges", "first_pass", "aliases", "allocate"} /\ "first_pass" # "live_ranges"
    OBVIOUS
  <2> HIDE DEF d
  <2>2. /\ Skeleton' = s /\ unit' \in DOMAIN Skeletons /\ Drawn(Skeleton, insns)' /\ InsnsSeq'
        /\ Len(insns') = Len(Skeleton'.insns) /\ phase = "live_ranges" /\ ctx' = d
        /\ block \in DOMAIN s.blocks /\ block' \in DOMAIN s.blocks
        /\ phase' # "live_ranges" => phase' = "first_pass" /\ s.blocks[block'].first - 1 = 0
    BY <2>0, <2>1, PassKeeps
  <2>3. Passed(ctx, s, 0)
    BY <2>2 DEF HInv, HostInv
  <2>4. Shape(ctx, s) /\ MinDeaths(ctx, s)
    BY <2>3 DEF Passed
  <2>5. Outlives(ctx, d, s)
    BY <1>2, <2>2, <2>4, LoopOutlives DEF d
  <2>6. Passed(d, s, 0)
    BY <2>3, <2>5, OutlivesPasses
  <2>7. CASE phase' = "live_ranges"
    BY <2>2, <2>6, <2>7 DEF HInv, HostInv
  <2>8. CASE phase' # "live_ranges"
    BY <2>2, <2>6, <2>8 DEF HInv, HostInv
  <2> QED BY <2>7, <2>8
<1>7. CASE FirstPasses
  <2> DEFINE d == FixedList(FirstPass(ctx, block))
             l == s.blocks[block].last
             m == s.blocks[block].first - 1
  <2>1. Pass("first_pass", "aliases", d)
    BY <1>7 DEF FirstPasses
  <2>0. "first_pass" \in {"live_ranges", "first_pass", "aliases", "allocate"} /\ "aliases" # "first_pass"
    OBVIOUS
  <2>9. d = FixedList(FirstPass(ctx, block))
    OBVIOUS
  <2> HIDE DEF d
  <2>2. /\ Skeleton' = s /\ unit' \in DOMAIN Skeletons /\ Drawn(Skeleton, insns)' /\ InsnsSeq'
        /\ Len(insns') = Len(Skeleton'.insns) /\ phase = "first_pass" /\ ctx' = d
        /\ block \in DOMAIN s.blocks /\ block' \in DOMAIN s.blocks
        /\ phase' = "first_pass" => s.blocks[block'].first - 1 = l
        /\ phase' # "first_pass" => phase' = "aliases" /\ l = Len(s.insns)
    BY <2>0, <2>1, PassKeeps
  <2>3. Passed(ctx, s, m) /\ Ahead(s, block, m)
    BY <1>2, <2>2 DEF HInv, HostInv, Ahead
  <2>4. Passed(d, s, l)
    BY <2>3, <2>9, FirstPassPasses
  <2> HIDE DEF l, m
  <2>5. CASE phase' = "first_pass"
    <3>1. Passed(ctx', Skeleton', Skeleton'.blocks[block'].first - 1)
      BY <2>2, <2>4, <2>5
    <3> QED BY <2>2, <2>5, <3>1 DEF HInv, HostInv
  <2>6. CASE phase' # "first_pass"
    <3>1. Passed(d, s, Len(s.insns))
      BY <2>2, <2>4, <2>6
    <3>2. Waits(d, s)
      BY <1>2, <3>1, PassedAll DEF Waits
    <3> QED BY <2>2, <2>6, <3>2 DEF HInv, HostInv
  <2> QED BY <2>5, <2>6
<1>8. CASE UpdateAliasRanges
  <2> DEFINE d == ExtendStores(ctx, block)
  <2>1. Pass("aliases", "allocate", d)
    BY <1>8 DEF UpdateAliasRanges
  <2>0. "aliases" \in {"live_ranges", "first_pass", "aliases", "allocate"} /\ "allocate" # "aliases"
    OBVIOUS
  <2>9. d = ExtendStores(ctx, block)
    OBVIOUS
  <2> HIDE DEF d
  <2>2. /\ Skeleton' = s /\ unit' \in DOMAIN Skeletons /\ Drawn(Skeleton, insns)' /\ InsnsSeq'
        /\ Len(insns') = Len(Skeleton'.insns) /\ phase = "aliases" /\ ctx' = d
        /\ block \in DOMAIN s.blocks /\ block' \in DOMAIN s.blocks
        /\ phase' # "aliases" => phase' = "allocate" /\ s.blocks[block'].first - 1 = 0
    BY <2>0, <2>1, PassKeeps
  <2>3. Waits(ctx, s)
    BY <2>2 DEF HInv, HostInv
  <2>4. Waits(d, s)
    BY <1>2, <2>2, <2>3, <2>9, ExtendStoresWaits
  <2>5. CASE phase' = "aliases"
    BY <2>2, <2>4, <2>5 DEF HInv, HostInv
  <2>6. CASE phase' # "aliases"
    <3>1. Between(ctx', Skeleton', Skeleton'.blocks[block'].first - 1)
      BY <2>2, <2>4, <2>6 DEF Waits
    <3> QED BY <2>2, <2>6, <3>1 DEF HInv, HostInv
  <2> QED BY <2>5, <2>6
<1>9. CASE AllocateBlock
  <2> DEFINE d == AllocBlock(ctx, block)
             l == s.blocks[block].last
             m == s.blocks[block].first - 1
  <2>1. Pass("allocate", "code", d)
    BY <1>9 DEF AllocateBlock
  <2>0. "allocate" \in {"live_ranges", "first_pass", "aliases", "allocate"} /\ "code" # "allocate"
    OBVIOUS
  <2>9. d = AllocBlock(ctx, block)
    OBVIOUS
  <2> HIDE DEF d
  <2>2. /\ Skeleton' = s /\ unit' \in DOMAIN Skeletons /\ Drawn(Skeleton, insns)' /\ InsnsSeq'
        /\ Len(insns') = Len(Skeleton'.insns) /\ phase = "allocate" /\ ctx' = d
        /\ block \in DOMAIN s.blocks /\ block' \in DOMAIN s.blocks
        /\ phase' = "allocate" => s.blocks[block'].first - 1 = l
        /\ phase' # "allocate" => phase' = "code" /\ l = Len(s.insns)
    BY <2>0, <2>1, PassKeeps
  <2>3. Between(ctx, s, m) /\ Ahead(s, block, m)
    BY <1>2, <2>2 DEF HInv, HostInv, Ahead
  <2>4. Between(d, s, l)
    BY <2>3, <2>9, AllocBlockChanges
  <2> HIDE DEF l, m
  <2>5. CASE phase' = "allocate"
    <3>1. Between(ctx', Skeleton', Skeleton'.blocks[block'].first - 1)
      BY <2>2, <2>4, <2>5
    <3> QED BY <2>2, <2>5, <3>1 DEF HInv, HostInv
  <2>6. CASE phase' # "allocate"
    <3>1. Between(ctx', Skeleton', Len(Skeleton'.insns))
      BY <2>2, <2>4, <2>6
    <3> QED BY <2>2, <2>6, <3>1 DEF HInv, HostInv
  <2> QED BY <2>5, <2>6
<1>10. CASE Enter \/ RunToTarget \/ RunToNext \/ RunToReturn
  <2>1. phase \in {"code", "run"} /\ phase' = "run" /\ UNCHANGED <<unit, insns, ctx>>
    BY <1>10 DEF Enter, RunToTarget, RunToNext, RunToReturn, Running
  <2>2. Between(ctx, s, Len(s.insns)) /\ Len(insns) = Len(s.insns)
    BY <2>1 DEF HInv, HostInv
  <2>3. Skeleton' = s
    BY <2>1 DEF Skeleton
  <2>4. Drawn(Skeleton, insns)' /\ InsnsSeq'
    BY <1>1, <2>1, <2>3 DEF Drawn, InsnsSeq
  <2> QED BY <1>1, <2>1, <2>2, <2>3, <2>4 DEF HInv, HostInv
<1>11. CASE UNCHANGED hostVars
  <2>1. UNCHANGED <<phase, unit, insns, ctx, block>>
    BY <1>11 DEF hostVars
  <2>2. Skeleton' = Skeleton
    BY <2>1 DEF Skeleton
  <2>3. InsnsSeq'
    BY <1>1, <2>1, <2>2 DEF InsnsSeq
  <2>4. HostInv
    BY DEF HInv
  <2>5. HostInv'
    BY <2>1, <2>2, <2>4 DEF HostInv
  <2> QED BY <2>3, <2>5 DEF HInv
<1> QED BY <1>4, <1>5, <1>6, <1>7, <1>8, <1>9, <1>10, <1>11 DEF Next

(* What AllocInv says of the map, of a context that the allocator leaves. *)
LEMMA MapHolds ==
  ASSUME NEW n \in Nat, Placed(ctx, n, n)
  PROVE  MapAgrees
<1> SUFFICES ASSUME NEW h \in Hosts, ctx.map[h] # 0
             PROVE  LET r == ctx.map[h] IN
                      ctx.info[r].allocated /\ HostOf(ctx, r) = h /\ ctx.info[r].spill_insn = 0
  BY DEF MapAgrees
<1>1. LET r == ctx.map[h] IN
        /\ r \in 1..n /\ ctx.info[r].allocated = TRUE /\ ctx.info[r].host = h
        /\ ctx.info[r].spilled = FALSE
  BY DEF Placed, MapOK
<1>2. ctx.info[ctx.map[h]].spill_insn = 0
  BY <1>1 DEF Placed, SpillsOK
<1> QED BY <1>1, <1>2 DEF HostOf

(* This is enough for the allocator's and the translator's assertions. *)
LEMMA InvHolds ==
  ASSUME HInv
  PROVE  AllocInv
<1> DEFINE s == Skeleton
           N == Len(s.insns)
<1>1. unit \in DOMAIN Skeletons /\ Drawn(s, insns)
  BY DEF HInv, HostInv
<1>2. IsSkeleton(s)
  BY <1>1, SkeletonsAssumption DEF Skeleton
<1>3. N \in Nat /\ \A b \in DOMAIN s.blocks : /\ s.blocks[b].last \in 1..N /\ s.blocks[b].first \in 1..N
  BY <1>2, BlockFacts DEF IsSkeleton
<1>4. ASSUME phase \in {"live_ranges", "first_pass"}
      PROVE  ctx.ok /\ MapAgrees /\ ctx.natural
  <2>1. Untouched(ctx)
    BY <1>4 DEF HInv, HostInv, Passed
  <2> QED BY <2>1 DEF Untouched, MapAgrees
<1>5. ASSUME NEW n \in Nat, Between(ctx, s, n)
      PROVE  ctx.ok /\ MapAgrees /\ ("FIXED_REGS" \notin ctx.opts => ctx.natural)
  <2>1. Asserts(ctx) /\ Placed(ctx, n, n)
    BY <1>5 DEF Between
  <2> QED BY <2>1, MapHolds DEF Asserts
<1>6. ASSUME phase = "code" PROVE TranslatorAsserts
  <2>1. Between(ctx, s, N) /\ Len(insns) = N
    BY <1>6 DEF HInv, HostInv
  <2>2. Placed(ctx, N, N) /\ Results(ctx, N) /\ ctx.blocks = s.blocks
    BY <2>1 DEF Between, Shape
  <2>3. DOMAIN insns = 1..N
    BY <1>1, <2>1 DEF Drawn
  <2> HIDE DEF N, s
  <2>4. ASSUME NEW n \in 1..N, Dest(ctx, n) = n
        PROVE  EvictAsserts(ctx, n) /\ ArithmeticAsserts(ctx, n)
    <3>1. ctx.insns[n].op \in Setters
      BY <2>4 DEF Dest
    <3>2. ResultOK(ctx, n)
      BY <2>2, <3>1 DEF Results
    <3> QED BY <1>3, <2>2, <3>1, <3>2, EvictHolds, ArithmeticHolds
  <2>5. ASSUME NEW b \in DOMAIN ctx.blocks PROVE CrossedAsserts(ctx, b, BranchOf(b))
    <3>1. ctx.blocks[b].last \in 1..N
      BY <1>3, <2>2
    <3> QED BY <1>3, <2>2, <3>1, CrossedHolds
  <2> QED BY <2>3, <2>4, <2>5 DEF TranslatorAsserts
<1>7. ASSUME phase \notin {"build", "live_ranges", "first_pass"}
      PROVE  \E n \in Nat : Between(ctx, s, n)
  <2>1. CASE phase = "aliases"
    <3>1. Between(ctx, s, 0)
      BY <2>1 DEF HInv, HostInv, Waits
    <3> QED BY <3>1
  <2>2. CASE phase = "allocate"
    <3>1. block \in DOMAIN s.blocks /\ Between(ctx, s, s.blocks[block].first - 1)
      BY <2>2 DEF HInv, HostInv
    <3>2. s.blocks[block].first - 1 \in Nat
      BY <1>3, <3>1
    <3> QED BY <3>1, <3>2
  <2>3. CASE phase \in {"code", "run"}
    BY <1>3, <2>3 DEF HInv, HostInv
  <2>4. phase \in {"aliases", "allocate", "code", "run"}
    BY <1>7 DEF HInv, HostInv
  <2> QED BY <2>1, <2>2, <2>3, <2>4
<1>8. ASSUME phase # "build"
      PROVE  ctx.ok /\ MapAgrees /\ ("FIXED_REGS" \notin ctx.opts => ctx.natural)
  <2> HIDE DEF s
  <2>1. CASE phase \in {"live_ranges", "first_pass"}
    BY <1>4, <2>1
  <2>2. CASE phase \notin {"live_ranges", "first_pass"}
    BY <1>5, <1>7, <1>8, <2>2
  <2> QED BY <2>1, <2>2
<1> QED BY <1>6, <1>8 DEF AllocInv

(* Every state that the translator and its code can reach has this invariant. *)
THEOREM HostInvariant == HostSpec => []HInv
<1>1. Init => HInv
  BY InitHolds
<1>2. HInv /\ [Next]_hostVars => HInv'
  BY StepKeeps
<1> QED BY <1>1, <1>2, PTL DEF HostSpec

(* The allocator has a place for every value, never two values in one place, and
   every assertion of it and of the translator about that holds. *)
THEOREM AllocatorSound == HostSpec => []AllocInv
<1>1. HInv => AllocInv
  BY InvHolds
<1> QED BY <1>1, HostInvariant, PTL
=============================================================================
