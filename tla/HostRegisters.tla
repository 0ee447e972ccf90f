---------------------------- MODULE HostRegisters ----------------------------
(* The register allocator of the x86 translator (host-x86-registers.c), for the
   general-purpose registers: a first pass over the blocks, which records what
   they do to aliases and reserves the registers that instructions insist on; the
   extension of live ranges to the edges that carry aliases; and linear scan with
   spilling.  Each operator takes the translator's context and gives the context
   after the code it stands for.

   An RTL register is named by the instruction that sets it; 0 is no register.
   A host register is named by its number, in the order ctz32() finds them; RSP
   and R15 are left out, which the allocator never hands out, and so are those
   that alias bases occupy, which are never spilled: NumHosts are left. *)
EXTENDS Integers, Sequences, FiniteSets, Functions

CONSTANTS NumHosts,        \* registers the allocator may use
          CalleeSaved,     \* callee_saved_regs
          NumAliases       \* aliases, all with bound storage

ASSUME HostsAssumption ==
  NumHosts \in Nat \ 0..4 /\ CalleeSaved \subseteq 3..(NumHosts - 1) /\ NumAliases \in Nat

AX == 0
CX == 1
DX == 2
R15         == NumHosts            \* the reserved temporary
Hosts       == 0..(NumHosts - 1)
CallerSaved == Hosts \ CalleeSaved
Aliases     == 1..NumAliases
None        == -1

Least(S) == CHOOSE i \in S : \A j \in S : i <= j
Latest(S) == CHOOSE i \in S : \A j \in S : i >= j
Later(i, j) == IF i > j THEN i ELSE j

(* An instruction: s1, s2 and s3 are its operands; "get" and "set" have an alias in
   x, branches their target block.  "value" stands for those that only set a
   register, "sub" and "add" for those that overwrite their first operand or one
   of two that commute, "seq" for comparisons, "shift" for shifts by rCX. *)
Setters == {"value", "add", "sub", "seq", "shift", "mulh", "div", "mod", "get", "move", "call"}
Reads   == {"add", "sub", "seq", "shift", "mulh", "div", "mod"}

(* The context: the RTL unit, HostX86RegInfo of each register, HostX86BlockInfo
   of each block, and the state of the scan. *)
NoInfo == [allocated |-> FALSE, host |-> 0, avoid |-> {}, spilled |-> FALSE, spill_insn |-> 0,
           merge |-> FALSE, host_merge |-> 0, temp |-> None]
NoBlock == [load |-> [a \in Aliases |-> 0], store |-> [a \in Aliases |-> 0], has_call |-> FALSE,
            min_death |-> 0, initial |-> [h \in Hosts |-> 0], end_live |-> {}]
Context(insns, death, blocks, opts) ==
  [insns |-> insns, death |-> death, blocks |-> blocks, opts |-> opts,
   info |-> [r \in 0..Len(insns) |-> NoInfo], binfo |-> [b \in DOMAIN blocks |-> NoBlock],
   last_death |-> [h \in {AX, CX, DX} |-> 0], fixed |-> {},
   map |-> [h \in Hosts |-> 0], early |-> {}, touched |-> {}, regs_touched |-> {},
   transparent |-> FALSE, save |-> [n \in 1..Len(insns) |-> {}], ok |-> TRUE, natural |-> TRUE]

Dest(c, n)   == IF c.insns[n].op \in Setters THEN n ELSE 0
Size(c, b)   == c.blocks[b].last - c.blocks[b].first + 1
Insn(c, b, k) == c.blocks[b].first + k - 1           \* the k-th of block b
Before(c, b) == {p \in DOMAIN c.blocks : p < b}
After(c, b)  == {p \in DOMAIN c.blocks : p > b}
NextOf(c, b) == IF After(c, b) = {} THEN None ELSE Least(After(c, b))

(****************************** Live ranges *******************************)

(* rtl_update_live_ranges(): what is live on entry to a loop is live until its
   last backward branch. *)
ExtendOverLoop(c, b) ==
  LET first  == c.blocks[b].first
      latest == Latest(Range(c.blocks[b].entries) \cup {None})
      until  == c.blocks[latest].last
      extended(r) == IF r < first /\ c.death[r] >= first THEN Later(c.death[r], until)
                     ELSE c.death[r]
  IN  IF latest < b THEN c
      ELSE [c EXCEPT !.binfo[b].min_death = until,
                     !.death = [r \in DOMAIN c.death |-> extended(r)]]

(* update_alias_live_ranges(): a register that block p stores in an alias is
   live to the end of p if a successor loads the alias; and so on for loops, in the
   order of the blocks: until[b] is how long, when the loop has come to block b. *)
Through(c, b, e) ==
  IF b \in DOMAIN c.blocks /\ c.blocks[b].first <= e THEN Later(e, c.binfo[b].min_death) ELSE e
LiveUntil(c, d) ==
  LET until[b \in 0..(Latest(DOMAIN c.blocks) + 1)] ==
        IF b = 0 THEN d ELSE Through(c, b - 1, until[b - 1])
  IN  until
LiveThrough(c, r, d) == [c EXCEPT !.death[r] = LiveUntil(c, d)[Latest(DOMAIN c.blocks) + 1]]

ExtendStore(c, a, p) ==
  LET r == c.binfo[p].store[a] IN
  IF r # 0 /\ c.death[r] < c.blocks[p].last THEN LiveThrough(c, r, c.blocks[p].last) ELSE c
StoresExtended(c, b, a) ==
  LET entries == c.blocks[b].entries
      after[k \in 0..Len(entries)] ==
        IF k = 0 THEN c ELSE ExtendStore(after[k - 1], a, entries[k])
  IN  after
ExtendAlias(c, b, a) ==
  IF c.binfo[b].load[a] = 0 THEN c ELSE StoresExtended(c, b, a)[Len(c.blocks[b].entries)]
AliasesExtended(c, b) ==
  LET after[a \in 0..NumAliases] == IF a = 0 THEN c ELSE ExtendAlias(after[a - 1], b, a)
  IN  after
ExtendStores(c, b) == AliasesExtended(c, b)[NumAliases]

(******************************* First pass *******************************)

(* FIXED_REGS: a value is given the register an instruction wants it in, unless
   that register is in use by then; each such register is in use to the death
   of the value it was last given to. *)
Fix(c, r, h)    == [c EXCEPT !.info[r].allocated = TRUE, !.info[r].host = h]
FixTo(c, r, h)  == [Fix(c, r, h) EXCEPT !.last_death[h] = c.death[r]]
MayFix(c, r, h) == ~c.info[r].allocated /\ h \notin c.info[r].avoid
Sits(c, r, h)   == c.info[r].allocated /\ c.info[r].host = h
Avoids(c, r, H) == [c EXCEPT !.info[r].avoid = @ \cup H]

(* alloc_fixed_regs_mulh(): one operand in rAX, the other in rDX if it dies. *)
FixMulh(c, n) ==
  LET i       == c.insns[n]
      free    == c.last_death[DX] <= n
      c1      == IF free THEN FixTo(c, n, DX) ELSE c
      in_ax(r) == MayFix(c, r, AX) /\ r >= c.last_death[AX]
      in_dx(r) == free /\ MayFix(c, r, DX) /\ c.death[r] = n /\ r >= c.last_death[DX]
      second  == i.s2 # i.s1
      ax      == IF in_ax(i.s1) /\ ~(second /\ in_ax(i.s2) /\ in_dx(i.s1)) THEN i.s1
                 ELSE IF second /\ in_ax(i.s2) THEN i.s2 ELSE 0
      dx      == IF in_dx(i.s1) /\ ax # i.s1 THEN i.s1
                 ELSE IF second /\ in_dx(i.s2) /\ ax # i.s2 THEN i.s2 ELSE 0
      c2      == IF ax # 0 THEN FixTo(c1, ax, AX) ELSE c1
  IN  IF dx # 0 THEN Fix(c2, dx, DX) ELSE c2

(* alloc_fixed_regs_div() and alloc_fixed_regs_mod(): the result in rAX or rDX,
   the dividend in rAX, the divisor in neither. *)
KeepOut(c, r) == IF c.info[r].allocated THEN c ELSE Avoids(c, r, {AX, DX})
FixDiv(c, n) ==
  LET i     == c.insns[n]
      takes == c.last_death[AX] <= n /\ ~Sits(c, i.s2, AX)
      c1    == IF takes THEN Fix(c, n, AX) ELSE c
      c2    == IF takes /\ MayFix(c, i.s1, AX) /\ c.death[i.s1] = n /\ i.s1 >= c.last_death[AX]
               THEN Fix(c1, i.s1, AX) ELSE c1
      c3    == IF takes THEN [c2 EXCEPT !.last_death[AX] = c.death[n]] ELSE c2
  IN  KeepOut(c3, i.s2)
FixMod(c, n) ==
  LET i  == c.insns[n]
      c1 == IF c.last_death[DX] <= n /\ ~Sits(c, i.s2, DX) THEN FixTo(c, n, DX) ELSE c
      c2 == IF MayFix(c, i.s1, AX) /\ i.s1 > c.last_death[AX] THEN FixTo(c1, i.s1, AX) ELSE c1
  IN  KeepOut(c2, i.s2)

(* alloc_fixed_regs_shift() and alloc_fixed_regs_return(). *)
FixAt(c, r, h) == IF MayFix(c, r, h) /\ r >= c.last_death[h] THEN FixTo(c, r, h) ELSE c
FixShift(c, n)  == Avoids(FixAt(c, c.insns[n].s2, CX), n, {CX})
FixReturn(c, n) == IF c.insns[n].s1 = 0 THEN c ELSE FixAt(c, c.insns[n].s1, AX)

FixRegs(c, n) ==
  IF "FIXED_REGS" \notin c.opts THEN c
  ELSE CASE c.insns[n].op = "mulh"   -> FixMulh(c, n)
         [] c.insns[n].op = "div"    -> FixDiv(c, n)
         [] c.insns[n].op = "mod"    -> FixMod(c, n)
         [] c.insns[n].op = "shift"  -> FixShift(c, n)
         [] c.insns[n].op = "return" -> FixReturn(c, n)
         [] OTHER -> c

(* GET_ALIAS of an alias that the block has stored or loaded becomes a MOVE. *)
FirstGet(c, b, n) ==
  LET a == c.insns[n].x
      r == IF c.binfo[b].store[a] # 0 THEN c.binfo[b].store[a] ELSE c.binfo[b].load[a]
  IN  IF r = 0 THEN [c EXCEPT !.binfo[b].load[a] = n]
      ELSE [c EXCEPT !.insns[n] = [op |-> "move", s1 |-> r, s2 |-> 0, s3 |-> 0, x |-> 0],
                     !.death[r] = Later(@, n)]

(* A call in tail position is a jump: nothing is live across it. *)
IsTail(c, n) ==
  /\ c.insns[n].op = "call"
  /\ n < Len(c.insns) => c.insns[n + 1].op = "return" /\ c.insns[n + 1].s1 \in {0, n}
NontailCalls(c) == {n \in DOMAIN c.insns : c.insns[n].op = "call" /\ ~IsTail(c, n)}
IsCall(c, n)    == n \in NontailCalls(c) \/ c.insns[n].op = "call_transparent"

FirstPassInsn(c, b, n) ==
  LET i == c.insns[n] IN
  CASE i.op = "get"  -> FirstGet(c, b, n)
    [] i.op = "set"  -> [c EXCEPT !.binfo[b].store[i.x] = i.s1]
    [] IsCall(c, n)  -> [c EXCEPT !.binfo[b].has_call = TRUE]
    [] OTHER         -> FixRegs(c, n)

(* Aliases that a block does not touch carry over from its only predecessor. *)
ForwardStores(c, b) ==
  LET entries == c.blocks[b].entries
      i       == c.binfo[b]
  IN  IF Len(entries) # 1 \/ entries[1] >= b THEN c
      ELSE [c EXCEPT !.binfo[b].store = [a \in Aliases |->
              IF i.load[a] = 0 /\ i.store[a] = 0
              THEN c.binfo[entries[1]].store[a] ELSE i.store[a]]]

FirstPassed(c, b) ==
  LET after[k \in 0..Size(c, b)] ==
        IF k = 0 THEN c ELSE FirstPassInsn(after[k - 1], b, Insn(c, b, k))
  IN  after
FirstPass(c, b) == ForwardStores(FirstPassed(c, b)[Size(c, b)], b)

(* The list of reserved registers, sorted by birth: its head is the first one
   that is still to come. *)
FixedList(c) == [c EXCEPT !.fixed = {r \in DOMAIN c.insns : Dest(c, r) = r /\ c.info[r].allocated}]

(****************************** Linear scan *******************************)

Free(c)      == {h \in Hosts : c.map[h] = 0}
HostOf(c, r) == c.info[r].host

(* get_gpr(): a caller-saved register if there is one. *)
Get(S) == IF S \cap CallerSaved # {} THEN Least(S \cap CallerSaved)
          ELSE IF S # {} THEN Least(S) ELSE None

Asserted(c, holds) == [c EXCEPT !.ok = @ /\ holds]
Touch(c, H)      == [c EXCEPT !.touched = @ \cup H]

(* assign_register(), and the record of it. *)
Assign(c, r, h) ==
  [Touch(Asserted(c, c.map[h] = 0), {h})
     EXCEPT !.map[h] = r, !.info[r].allocated = TRUE, !.info[r].host = h]

(* unassign_register(). *)
Unassign(c, R) == [c EXCEPT !.map = [h \in Hosts |-> IF @[h] \in R THEN 0 ELSE @[h]]]

(* The operands that die at the instruction give up their registers. *)
Release(c, n) ==
  LET operands == {c.insns[n].s1, c.insns[n].s2, c.insns[n].s3} \ {0} IN
  Unassign(Asserted(c, \A r \in operands : c.info[r].allocated),
           {r \in operands : c.death[r] = n})

(* The registers a call has to save; and what it clobbers. *)
AtCall(c, n) ==
  LET saved == {h \in CallerSaved : c.map[h] # 0 \/ h \in c.early}
      c1    == [c EXCEPT !.save[n] = saved]
  IN  CASE n \in NontailCalls(c)                -> Touch(c1, CallerSaved)
        [] c.insns[n].op = "call_transparent" -> [c1 EXCEPT !.transparent = TRUE]
        [] OTHER -> c

(* cancel_early_merge(). *)
CancelMerge(c, b, h) ==
  LET promised == {a \in Aliases : LET r == c.binfo[b].load[a] IN
                     r # 0 /\ c.info[r].merge /\ c.info[r].host_merge = h}
      c1 == Asserted([c EXCEPT !.early = @ \ {h}], promised # {})
  IN  IF promised = {} THEN c1
      ELSE [c1 EXCEPT !.info[c.binfo[b].load[Least(promised)]].merge = FALSE]

(* The local variables of allocate_regs_for_insn(): registers that a GET_ALIAS
   may merge through; the reserved register, unless it is taken; those to avoid,
   among them the ones reserved for values born before this one dies. *)
Locals(c, n) ==
  LET i       == c.info[n]
      fixed   == IF i.allocated /\ c.map[i.host] = 0 THEN i.host ELSE None
      pending == {r \in c.fixed : n < r /\ r < c.death[n]}
  IN  [c |-> [c EXCEPT !.info[n].allocated = FALSE],
       usable |-> Free(c) \ (c.touched \cup c.early),
       fixed |-> fixed,
       avoid |-> i.avoid \cup ({HostOf(c, r) : r \in pending} \ {fixed}),
       soft |-> {}, preferred |-> None]

(* GET_ALIAS: the register it is merged through.  In order: the one reserved for
   it, if it has a predecessor that stores the alias; the one MERGE_REGS promised;
   the one that holds the value at the end of the block before, if that falls
   through; of another predecessor; any that the block has not used. *)
PrevOf(c, b) == IF Before(c, b) = {} THEN None ELSE Latest(Before(c, b))
PrevStore(c, b, a) ==
  LET p == PrevOf(c, b) IN
  IF p # None /\ c.blocks[p].exits # <<>> /\ c.blocks[p].exits[1] = b
  THEN c.binfo[p].store[a] ELSE 0

TakePromise(w, n) ==
  LET h == w.c.info[n].host_merge
      c == Asserted([w.c EXCEPT !.early = @ \ {h}], h \in w.c.early)
  IN  IF ~w.c.info[n].merge THEN w
      ELSE IF h \in w.c.touched THEN [w EXCEPT !.c = [c EXCEPT !.info[n].merge = FALSE]]
      ELSE [w EXCEPT !.c = c, !.avoid = (@ \cup {h}) \ (@ \cap {h})]

MergeHost(w, b, n) ==
  LET c        == w.c
      a        == c.insns[n].x
      prev     == PrevStore(c, b, a)
      promised == c.info[n].merge
      entries  == c.blocks[b].entries
      store(k) == c.binfo[entries[k]].store[a]
      stores   == {k \in DOMAIN entries : entries[k] # b - 1 /\ store(k) # 0}
      usable(r) == c.info[r].allocated /\ HostOf(c, r) \in w.usable
      others   == {k \in stores : usable(store(k))}
      wanted   == ~promised /\ (prev # 0 \/ stores # {})
  IN  IF wanted /\ w.fixed \in w.usable THEN w.fixed
      ELSE IF promised THEN c.info[n].host_merge
      ELSE IF prev # 0 /\ HostOf(c, prev) \in w.usable THEN HostOf(c, prev)
      ELSE IF others # {} THEN HostOf(c, store(Least(others)))
      ELSE IF wanted THEN Get(w.usable \ (w.avoid \cup c.early)) ELSE None

(* What follows from the choice: unless another register is reserved, the value
   stays where it is merged; the block before holds a value past its end; and
   the register was live at the transparent calls the block has made. *)
BugHoldAtEnd(c, b, r) == c
HoldAtEnd(c, b, r) ==
  [Asserted(c, c.info[r].allocated) EXCEPT !.binfo[PrevOf(c, b)].end_live = @ \cup {HostOf(c, r)}]

MergeThrough(w, b, n, h) ==
  LET prev    == PrevStore(w.c, b, w.c.insns[n].x)
      stays   == w.fixed \in {None, h}
      crossed == IF w.c.transparent /\ h \in CallerSaved
                 THEN {m \in w.c.blocks[b].first..(n - 1) : w.c.insns[m].op = "call_transparent"}
                 ELSE {}
      c1 == [w.c EXCEPT !.info[n].merge = TRUE, !.info[n].host_merge = h]
      c2 == IF stays THEN Assign(c1, n, h) ELSE Touch(c1, {h})
      c3 == IF prev = 0 THEN c2 ELSE HoldAtEnd(c2, b, prev)
  IN  [w EXCEPT !.c = [c3 EXCEPT !.save =
                         [m \in DOMAIN @ |-> IF m \in crossed THEN @[m] \cup {h} ELSE @[m]]]]

MergeIfAny(w, b, n, h) == IF h = None THEN w ELSE MergeThrough(w, b, n, h)
MergePromised(w, b, n) == MergeIfAny(w, b, n, MergeHost(w, b, n))
MergeAlias(w, b, n)    ==
  IF w.c.insns[n].op = "get" THEN MergePromised(TakePromise(w, n), b, n) ELSE w

(* The register an instruction would like for its result, and those it cannot
   have: a comparison does without the registers of its operands if it can. *)
Dying(c, r, n)  == r # 0 /\ ~c.info[r].spilled /\ c.death[r] = n
Wants(w, h)     == [w EXCEPT !.c.natural = @ /\ h \notin w.avoid, !.preferred = h]
Avoiding(w, H)  == [w EXCEPT !.avoid = @ \cup H]

PreferMulh(w) ==
  Avoiding(IF w.c.map[DX] = 0 THEN Avoiding(Wants(w, DX), {DX}) ELSE w, {AX})
BugPreferDivMod(w, n, result) ==
  Avoiding(IF w.c.map[result] = 0 THEN Wants(w, result) ELSE w, {AX, DX})
PreferDivMod(w, n, result) ==
  LET divisor == HostOf(w.c, w.c.insns[n].s2) IN
  Avoiding(IF w.c.map[result] = 0 /\ divisor # result THEN Wants(w, result) ELSE w,
           {AX, DX, divisor})
PreferSeq(w, n) ==
  LET s1 == w.c.insns[n].s1
      s2 == w.c.insns[n].s2
      soft == {HostOf(w.c, r) : r \in {r \in {s1, s2} : ~w.c.info[r].spilled}}
  IN  IF w.c.info[s1].spilled THEN Avoiding(w, soft) ELSE [w EXCEPT !.soft = soft]

PreferOperand(w, n) ==
  LET i     == w.c.insns[n]
      host1 == HostOf(w.c, i.s1)
      host2 == HostOf(w.c, i.s2)
      ok1   == /\ i.op = "shift" => host1 # CX /\ ~(i.s1 = i.s2 /\ w.c.map[CX] # 0)
               /\ host1 \notin w.avoid
      w1    == IF ~Dying(w.c, i.s1, n) THEN w
               ELSE IF ok1 THEN [w EXCEPT !.preferred = host1] ELSE Avoiding(w, {host1})
      ok2   == i.op \notin {"sub", "shift"} /\ host2 \notin w1.avoid
  IN  IF ~Dying(w.c, i.s2, n) THEN w1
      ELSE IF ~ok2 THEN Avoiding(w1, {host2})
      ELSE IF w1.preferred = None THEN [w1 EXCEPT !.preferred = host2] ELSE w1

Prefer(w, n) ==
  CASE w.c.insns[n].op = "mulh" -> PreferMulh(w)
    [] w.c.insns[n].op = "div"  -> PreferDivMod(w, n, AX)
    [] w.c.insns[n].op = "mod"  -> PreferDivMod(w, n, DX)
    [] w.c.insns[n].op = "seq"  -> PreferSeq(w, n)
    [] w.c.insns[n].op = "call" -> w
    [] OTHER -> PreferOperand(w, n)

(* A reserved register has precedence over early merges, which have precedence
   over a preference. *)
Settle(w, b, n) ==
  LET c == w.c IN
  IF w.fixed # None /\ (w.fixed = w.preferred \/ w.fixed \notin w.avoid)
  THEN [w EXCEPT !.c = Assign(IF w.fixed \in c.early THEN CancelMerge(c, b, w.fixed) ELSE c,
                              n, w.fixed)]
  ELSE IF w.preferred \in Hosts \ c.early THEN [w EXCEPT !.c = Assign(c, n, w.preferred)]
  ELSE w

(* allocate_register(): a free register, one whose early merge is cancelled, or
   that of the value that dies last, which is spilled. *)
AcrossCall(c, n) == \E m \in NontailCalls(c) : n < m /\ m < c.death[n]
Spill(c, n, h) ==
  LET r == c.map[h] IN
  [Asserted(c, ~c.info[r].spilled)
     EXCEPT !.info[r].spilled = TRUE, !.info[r].spill_insn = n, !.map[h] = n,
            !.info[n].allocated = TRUE, !.info[n].host = h]

Allocate(w, b, n) ==
  LET c       == w.c
      avoid   == w.avoid \cup c.early
      kept    == IF AcrossCall(c, n) THEN Get((Free(c) \cap CalleeSaved) \ (avoid \cup w.soft))
                 ELSE None
      liked   == IF kept # None THEN kept ELSE Get(Free(c) \ (avoid \cup w.soft))
      choice  == IF liked # None THEN liked ELSE Get(Free(c) \ avoid)
      promise == c.early \ w.avoid
      victims == {h \in Hosts \ w.avoid : c.map[h] # 0}
      last    == {h \in victims : \A g \in victims : c.death[c.map[g]] <= c.death[c.map[h]]}
  IN  CASE choice # None -> Assign(c, n, choice)
        [] choice = None /\ promise # {} ->
             Assign(CancelMerge(c, b, Least(promise)), n, Least(promise))
        [] choice = None /\ promise = {} /\ victims # {} -> Spill(c, n, Latest(last))
        [] OTHER -> Asserted(c, FALSE)

(* The temporary of an instruction that clobbers a register in use. *)
SavedFor(op) == CASE op \in {"mulh", "mod"} -> AX [] op = "div" -> DX [] OTHER -> CX
BugNeedsTemporary(c, n) ==
  LET i == c.insns[n] IN
  /\ i.op \in {"mulh", "div", "mod"}
  /\ c.map[SavedFor(i.op)] # 0 \/ (i.op # "mulh" /\ HostOf(c, i.s2) = SavedFor(i.op))
NeedsTemporary(c, n) ==
  LET i      == c.insns[n]
      in_use == c.map[SavedFor(i.op)] # 0
  IN  \/ i.op = "mulh" /\ in_use
      \/ i.op \in {"div", "mod"} /\ (in_use \/ HostOf(c, i.s2) = SavedFor(i.op))
      \/ i.op = "shift" /\ in_use /\ c.info[i.s2].spilled

Temporary(c, n, avoid) ==
  LET i     == c.insns[n]
      also  == IF i.op = "shift" THEN {} ELSE {HostOf(c, i.s1), HostOf(c, i.s2)}
      found == Get(Free(c) \ (avoid \cup c.early \cup also))
      temp  == IF found = None THEN R15 ELSE found
  IN  IF NeedsTemporary(c, n) THEN Touch([c EXCEPT !.info[n].temp = temp], {temp}) ELSE c

Clobbers(op) == CASE op \in {"mulh", "div", "mod"} -> {AX, DX} [] op = "shift" -> {CX} [] OTHER -> {}

(* allocate_regs_for_insn(): what it does for a result, in order, while none of the
   steps before has found a register. *)
SettlePreferred(w, b, n) == IF w.c.info[n].allocated THEN w ELSE Settle(Prefer(w, n), b, n)
AllocateAny(w, b, n)     == [w EXCEPT !.c = Allocate(w, b, n)]
AllocateRest(w, b, n)    ==
  IF w.c.info[n].allocated THEN w
  ELSE AllocateAny(IF w.c.insns[n].op = "shift" THEN Avoiding(w, {CX}) ELSE w, b, n)
DropIfDead(c, n)      == IF c.death[n] = n THEN Unassign(c, {n}) ELSE c
TemporaryAfter(w, n)  == DropIfDead(Temporary(w.c, n, w.avoid), n)
AllocDest(c, b, n)    ==
  TemporaryAfter(AllocateRest(SettlePreferred(MergeAlias(Locals(c, n), b, n), b, n), b, n), n)

AllocResult(c, b, n)   == IF c.insns[n].op \in Setters THEN AllocDest(c, b, n) ELSE c
ReloadedForStore(c, i) == IF i.op = "set" /\ c.info[i.s1].spilled THEN Touch(c, {R15}) ELSE c
AllocInsn(c, b, n)     ==
  Touch(AllocResult(AtCall(Release(ReloadedForStore(c, c.insns[n]), n), n), b, n),
        Clobbers(c.insns[n].op))

(* MERGE_REGS: before a block is looked at, each of its loads is promised the
   register that a predecessor leaves the value in. *)
Promise(c, b, n) ==
  LET entries   == c.blocks[b].entries
      store(k)  == c.binfo[entries[k]].store[c.insns[n].x]
      good(r)   == /\ r # 0 /\ c.info[r].allocated /\ ~c.info[r].spilled
                   /\ HostOf(c, r) \in Free(c) \ c.early
      sources   == {k \in DOMAIN entries : good(store(k))}
      h         == HostOf(c, store(Least(sources)))
  IN  IF c.insns[n].op # "get" \/ sources = {} THEN c
      ELSE [c EXCEPT !.early = @ \cup {h}, !.info[n].merge = TRUE, !.info[n].host_merge = h]

Opened(c, b) == [c EXCEPT !.binfo[b].initial = c.map, !.touched = Hosts \ Free(c), !.early = {},
                          !.transparent = FALSE]
Promised(c, b) ==
  LET after[k \in 0..Size(c, b)] ==
        IF k = 0 THEN Opened(c, b) ELSE Promise(after[k - 1], b, Insn(c, b, k))
  IN  after
StartBlock(c, b) ==
  IF "MERGE_REGS" \in c.opts THEN Promised(c, b)[Size(c, b)] ELSE Opened(c, b)

Allocated(c, b) ==
  LET after[k \in 0..Size(c, b)] ==
        IF k = 0 THEN StartBlock(c, b) ELSE AllocInsn(after[k - 1], b, Insn(c, b, k))
  IN  after

EndBlock(c, b) ==
  LET c1 == Unassign(c, {r \in DOMAIN c.death : c.death[r] <= c.blocks[b].last})
  IN  [c1 EXCEPT !.binfo[b].end_live = Hosts \ Free(c1), !.regs_touched = @ \cup c.touched]
AllocBlock(c, b) == EndBlock(Allocated(c, b)[Size(c, b)], b)
==============================================================================
