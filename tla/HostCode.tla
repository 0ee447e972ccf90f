------------------------------- MODULE HostCode -------------------------------
(* The code that the x86 translator (host-x86-translate.c) generates for a unit
   after its registers are allocated, and what it does when it runs: where each
   value is at each point, whichever way the branches go.

   The machine is a map from locations to those whose current value is there: RTL
   registers, aliases, which are named by their number negated, and the caller's
   registers.  What is nobody's current value is left out. *)
EXTENDS HostRegisters, SequencesExt, FiniteSetsExt

CONSTANTS Skeletons        \* a sequence of those that units are built from: see Build

(* A skeleton gives the options, the blocks that are in the code stream (those that
   have been removed leave a gap in the numbering) and the sets that their
   instructions are chosen from.  It is held to what the makers of RTL instructions
   and of blocks assert: operands have been set before, and every instruction is in
   one of the blocks, which follow one another; and to what rtl_finalize_unit() makes of
   them: a block goes on to the next one, the first of its exits then, or to one that
   has it among its entries.  The front end puts a RETURN at the end of the unit. *)
IsInsn(s, n, i) ==
  LET values == {r \in 1..(n - 1) : \A j \in s.insns[r] : j.op \in Setters} IN
  /\ i = [op |-> i.op, s1 |-> i.s1, s2 |-> i.s2, s3 |-> i.s3, x |-> i.x]
  /\ {i.s1, i.s2, i.s3} \subseteq values \cup {0}
  /\ i.op \in Reads \cup {"set", "move"} => i.s1 # 0
  /\ i.op \in Reads => i.s2 # 0
  /\ i.op \in {"get", "set"} => i.x \in Aliases
IsBlocks(s) ==
  /\ DOMAIN s.blocks \subseteq Nat /\ 0 \in DOMAIN s.blocks /\ IsFiniteSet(DOMAIN s.blocks)
  /\ \A b \in DOMAIN s.blocks :
       /\ s.blocks[b].first \in DOMAIN s.insns /\ s.blocks[b].last \in DOMAIN s.insns
       /\ s.blocks[b].first <= s.blocks[b].last
       /\ s.blocks[b].entries \in Seq(DOMAIN s.blocks)
       /\ \A d \in DOMAIN s.blocks : b < d => s.blocks[b].last < s.blocks[d].first
  /\ \A n \in DOMAIN s.insns :
       \E b \in DOMAIN s.blocks : n \in s.blocks[b].first..s.blocks[b].last
IsGraph(s) ==
  \A b \in DOMAIN s.blocks : \A i \in s.insns[s.blocks[b].last] :
    /\ i.op \in {"if", "goto"} => i.x \in DOMAIN s.blocks /\ b \in Range(s.blocks[i.x].entries)
    /\ i.op \notin {"goto", "return"} => NextOf(s, b) # None
    /\ i.op = "if" => s.blocks[b].exits # <<>> /\ s.blocks[b].exits[1] = NextOf(s, b)
IsSkeleton(s) ==
  /\ DOMAIN s.insns = 1..Len(s.insns) /\ Len(s.insns) \in Nat
  /\ \A n \in DOMAIN s.insns : \A i \in s.insns[n] : IsInsn(s, n, i)
  /\ IsBlocks(s) /\ IsGraph(s)
ASSUME SkeletonsAssumption == \A u \in DOMAIN Skeletons : IsSkeleton(Skeletons[u])

VARIABLES
  phase,       \* what the translator does, or "run": what its code does
  unit, insns, \* which skeleton the unit is built from, and its instructions
  ctx,         \* HostX86Context
  block,       \* the block that is worked on
  machine

hostVars == <<phase, unit, insns, ctx, block, machine>>

(* Locations: host registers, spill slots of the frame, slots that registers are saved
   in, and the storage of aliases. *)
H(h)      == <<"host", h>>
Slot(r)   == <<"spill", r>>
Saved(h)  == <<"saved", h>>
Mem(a)    == <<"alias", a>>
Locations(c) == {H(h) : h \in Hosts \cup {R15}} \cup {Slot(r) : r \in DOMAIN c.insns}
                  \cup {Saved(h) : h \in Hosts \cup {R15}} \cup {Mem(a) : a \in Aliases}

(* The registers that the caller wants back, and what it has in them. *)
CallersOwn == CalleeSaved \cup {R15}
Caller(h)  == -(NumAliases + 1 + h)

(* What one x86 instruction does: "use" reads the value of v at a location, "set"
   leaves a new one there, "lose" leaves nobody's; "same" gives v the value of u. *)
Mov(to, from)  == [do |-> "mov", to |-> to, from |-> from]
Xchg(to, from) == [do |-> "xchg", to |-> to, from |-> from]
Use(at, v)     == [do |-> "use", at |-> at, v |-> v]
Set(at, v)     == [do |-> "set", at |-> at, v |-> v]
Same(v, u)     == [do |-> "same", v |-> v, u |-> u]
Lose(S)        == [do |-> "lose", at |-> S]
When(condition, code) == IF condition THEN code ELSE <<>>

Run(m, i) ==
  CASE i.do = "mov"  -> [m EXCEPT !.at[i.to] = m.at[i.from]]
    [] i.do = "xchg" -> [m EXCEPT !.at[i.to] = m.at[i.from], !.at[i.from] = m.at[i.to]]
    [] i.do = "use"  -> [m EXCEPT !.right = @ /\ i.v \in m.at[i.at]]
    [] i.do = "set"  -> [m EXCEPT !.at = [l \in DOMAIN @ |->
                           IF l = i.at THEN {i.v} ELSE @[l] \ {i.v}]]
    [] i.do = "same" -> [m EXCEPT !.at = [l \in DOMAIN @ |->
                           (@[l] \ {i.v}) \cup (IF i.u \in @[l] THEN {i.v} ELSE {})]]
    [] i.do = "lose" -> [m EXCEPT !.at = [l \in DOMAIN @ |-> IF l \in i.at THEN {} ELSE @[l]]]

(* append_prologue() and append_epilogue(): the caller's registers are saved if
   some block writes them.  Whoever the code goes to next, by a return or a call, finds
   the storage of the aliases up to date. *)
SavedByPrologue(c) == c.regs_touched \cap CallersOwn
NewMachine(c) ==
  [at |-> [l \in Locations(c) |->
             CASE l[1] = "alias"                               -> {-l[2]}
               [] l[1] = "host" /\ l[2] \in CallersOwn          -> {Caller(l[2])}
               [] l[1] = "saved" /\ l[2] \in SavedByPrologue(c) -> {Caller(l[2])}
               [] OTHER                                        -> {}],
   right |-> TRUE]
Each(S, Code(_)) == LET list == SetToSortSeq(S, <) IN [j \in DOMAIN list |-> Code(list[j])]
Epilogue(c)  == Each(SavedByPrologue(c), LAMBDA h : Mov(H(h), Saved(h)))
                  \o Each(CallersOwn, LAMBDA h : Use(H(h), Caller(h)))
StorageIsCurrent == Each(Aliases, LAMBDA a : Use(Mem(a), -a))

(*************************** Register bookkeeping ***************************)

(* is_spilled(). *)
IsSpilled(c, n, r) == c.info[r].spilled /\ c.info[r].spill_insn <= n

(* ctx->reg_map[] after instruction n: the last register set in h, in the order
   of the code; current_reg(): if it is live past instruction m. *)
RegMap(c, n, h) ==
  LET setters == {r \in 1..n : Dest(c, r) = r /\ HostOf(c, r) = h}
  IN  IF setters = {} THEN 0 ELSE Latest(setters)
CurrentReg(c, n, m, h) ==
  LET r == RegMap(c, n, h) IN IF r # 0 /\ c.death[r] > m THEN r ELSE 0
Busy(c, n, h) == CurrentReg(c, n, n, h) # 0

(* Where an operand is; append_move_or_load_gpr(). *)
Loc(c, n, r) == IF IsSpilled(c, n, r) THEN Slot(r) ELSE H(HostOf(c, r))

(* The occupant of the destination register is evicted; it has been spilled here. *)
Evicted(c, n)      == CurrentReg(c, n - 1, n, HostOf(c, n))
Evict(c, n)        == IF Evicted(c, n) = 0 THEN <<>>
                      ELSE <<Mov(Slot(Evicted(c, n)), H(HostOf(c, n)))>>
EvictAsserts(c, n) == LET r == Evicted(c, n) IN
  r # 0 => c.info[r].spilled /\ c.info[r].spill_insn = n

(****************************** Instructions ******************************)

(* ADD, SUB and the like: the second operand may be in the destination. *)
Arithmetic(c, n) ==
  LET i == c.insns[n]
      d == H(HostOf(c, n))
  IN  IF HostOf(c, n) = HostOf(c, i.s2) /\ ~IsSpilled(c, n, i.s2)
      THEN <<Use(d, IF i.op = "sub" THEN i.s1 ELSE i.s2),
             Use(Loc(c, n, i.s1), IF i.op = "sub" THEN i.s2 ELSE i.s1), Set(d, n)>>
      ELSE <<Mov(d, Loc(c, n, i.s1)), Use(d, i.s1), Use(Loc(c, n, i.s2), i.s2), Set(d, n)>>

(* A comparison clears its destination first, unless an operand is there. *)
Compare(c, n) ==
  LET i == c.insns[n]
      d == H(HostOf(c, n))
      clear == d \notin {Loc(c, n, i.s1), Loc(c, n, i.s2)} /\ ~IsSpilled(c, n, i.s1)
      first == IF IsSpilled(c, n, i.s1) THEN d ELSE Loc(c, n, i.s1)
  IN  When(IsSpilled(c, n, i.s1), <<Mov(d, Slot(i.s1))>>) \o When(clear, <<Lose({d})>>)
        \o <<Use(first, i.s1), Use(Loc(c, n, i.s2), i.s2), Set(d, n)>>

(* MULH: rAX times an operand, with the result in rDX. *)
MulH(c, n) ==
  LET i     == c.insns[n]
      dest  == HostOf(c, n)
      host1 == HostOf(c, i.s1)
      host2 == HostOf(c, i.s2)
      temp  == c.info[n].temp
      busy    == dest # DX /\ Busy(c, n, DX)
      swapped == busy /\ dest \in {host1, host2}
      moved(h) == IF ~swapped THEN h ELSE IF h = DX THEN dest ELSE IF h = dest THEN DX ELSE h
      in_ax == host2 = AX /\ ~IsSpilled(c, n, i.s2)
      mult  == IF in_ax THEN i.s1 ELSE i.s2
      at    == IF IsSpilled(c, n, mult) THEN Slot(mult) ELSE H(moved(HostOf(c, mult)))
  IN  When(busy, <<IF swapped THEN Xchg(H(dest), H(DX)) ELSE Mov(H(dest), H(DX))>>)
        \o When(temp # None, <<Mov(H(temp), H(AX))>>)
        \o (IF in_ax THEN <<Use(H(AX), i.s2)>>
            ELSE <<Mov(H(AX), IF IsSpilled(c, n, i.s1) THEN Slot(i.s1)
                              ELSE H(IF host1 = AX THEN AX ELSE moved(host1))),
                   Use(H(AX), i.s1)>>)
        \o <<Use(at, mult), Lose({H(AX)}), Set(H(DX), n)>>
        \o When(dest # DX, <<IF busy THEN Xchg(H(DX), H(dest)) ELSE Mov(H(dest), H(DX))>>)
        \o When(temp # None, <<Mov(H(AX), H(temp))>>)

(* DIV and MOD: rDX:rAX by an operand, with the result in rAX or rDX; the other,
   which is clobbered, is kept in the temporary.  What is in the result's way goes
   where the result will be, with the divisor if that is there. *)
OutOf(c, n, other) ==
  LET divisor == HostOf(c, c.insns[n].s2) IN
  IF c.info[n].temp # None /\ divisor = other THEN c.info[n].temp ELSE divisor
Saves(c, n, result, other) ==
  HostOf(c, n) # result /\ (Busy(c, n, result) \/ OutOf(c, n, other) = result)
Divisor(c, n, result, other) ==
  IF Saves(c, n, result, other) /\ OutOf(c, n, other) = result THEN HostOf(c, n)
  ELSE OutOf(c, n, other)
DivisorAt(c, n, result, other) ==
  LET r == c.insns[n].s2 IN
  IF IsSpilled(c, n, r) THEN Slot(r) ELSE H(Divisor(c, n, result, other))

Div(c, n) ==
  LET i    == c.insns[n]
      dest == HostOf(c, n)
      temp == c.info[n].temp
      save    == Saves(c, n, AX, DX)
      swapped == save /\ HostOf(c, i.s1) = dest
  IN  When(temp # None, <<Mov(H(temp), H(DX))>>)
        \o When(save, <<IF swapped THEN Xchg(H(dest), H(AX)) ELSE Mov(H(dest), H(AX))>>)
        \o <<Mov(H(AX), IF swapped /\ ~IsSpilled(c, n, i.s1) THEN H(AX) ELSE Loc(c, n, i.s1)),
             Use(H(AX), i.s1), Lose({H(DX)}), Use(DivisorAt(c, n, AX, DX), i.s2), Set(H(AX), n)>>
        \o When(dest # AX, <<IF Busy(c, n, AX) THEN Xchg(H(AX), H(dest)) ELSE Mov(H(dest), H(AX))>>)
        \o When(temp # None, <<Mov(H(DX), H(temp))>>)

Mod(c, n) ==
  LET i    == c.insns[n]
      dest == HostOf(c, n)
      temp == c.info[n].temp
  IN  When(temp # None, <<Mov(H(temp), H(AX))>>)
        \o <<Mov(H(AX), Loc(c, n, i.s1)), Use(H(AX), i.s1)>>
        \o When(Saves(c, n, DX, AX), <<Mov(H(dest), H(DX))>>)
        \o <<Lose({H(DX)}), Use(DivisorAt(c, n, DX, AX), i.s2),
             Use(H(AX), i.s1), Lose({H(AX)}), Set(H(DX), n)>>
        \o When(dest # DX, <<IF Busy(c, n, DX) THEN Xchg(H(DX), H(dest)) ELSE Mov(H(dest), H(DX))>>)
        \o When(temp # None, <<Mov(H(AX), H(temp))>>)

(* Shifts take the count in rCX, which is swapped with what is there. *)
Shift(c, n) ==
  LET i     == c.insns[n]
      dest  == H(HostOf(c, n))
      count == H(HostOf(c, i.s2))
      temp  == c.info[n].temp
      swapped == ~IsSpilled(c, n, i.s2) /\ count # H(CX) /\ Busy(c, n, CX)
  IN  <<Mov(dest, Loc(c, n, i.s1))>>
        \o When(temp # None, <<Mov(H(temp), H(CX))>>)
        \o <<IF swapped THEN Xchg(H(CX), count) ELSE Mov(H(CX), Loc(c, n, i.s2)),
             Use(H(CX), i.s2), Use(dest, i.s1), Set(dest, n)>>
        \o (CASE temp # None -> <<Mov(H(CX), H(temp))>>
              [] temp = None /\ swapped ->
                   <<IF c.death[i.s2] = n THEN Mov(H(CX), count) ELSE Xchg(H(CX), count)>>
              [] OTHER -> <<>>)

(* The translator's assertions about these. *)
ArithmeticAsserts(c, n) ==
  LET dest    == HostOf(c, n)
      temp    == c.info[n].temp
      divisor == HostOf(c, c.insns[n].s2)
  IN  /\ c.insns[n].op = "mulh" => dest # AX /\ temp # DX
      /\ c.insns[n].op = "div" =>
           dest \notin {divisor, DX} /\ temp # AX /\ Divisor(c, n, AX, DX) \notin {AX, DX}
      /\ c.insns[n].op = "mod" =>
           /\ dest \notin {divisor, AX} /\ temp # DX
           /\ OutOf(c, n, AX) # AX /\ Divisor(c, n, DX, AX) # DX
      /\ c.insns[n].op = "shift" => dest # CX

(******************************** Aliases *********************************)

(* The store of SET_ALIAS is left out if every successor takes the value over
   in a register and stores the alias itself. *)
TakesOver(c, p, a) ==
  LET r == c.binfo[p].load[a] IN
  r # 0 /\ c.info[r].merge /\ c.binfo[p].store[a] # 0 /\ ~c.binfo[p].has_call
NeedStore(c, b, a) ==
  \/ c.blocks[b].exits = <<>> \/ c.binfo[b].has_call
  \/ \E p \in ToSet(c.blocks[b].exits) : ~TakesOver(c, p, a)

SetAlias(c, b, n) ==
  LET a == c.insns[n].x
      r == c.insns[n].s1
  IN  <<Same(-a, r)>>
        \o When(NeedStore(c, b, a),
             <<Use(Loc(c, n, r), r)>> \o
             (IF IsSpilled(c, n, r) THEN <<Mov(H(R15), Slot(r)), Mov(Mem(a), H(R15))>>
              ELSE <<Mov(Mem(a), H(HostOf(c, r)))>>))

GetAlias(c, n) ==
  LET a    == c.insns[n].x
      from == IF c.info[n].merge THEN H(c.info[n].host_merge) ELSE Mem(a)
  IN  <<Use(from, -a), Mov(H(HostOf(c, n)), from), Same(n, -a)>>

(********************************* Calls **********************************)

(* do_call_setup(): the arguments go to rCX and rDX (the Windows ABI), and the
   call's target to rAX or R11 if it is in the way.  t, a and b are where the
   target and the arguments are. *)
R11 == NumHosts - 1
ASSUME R11Assumption == R11 \in CallerSaved \ {AX, CX, DX}

Aside(other)        == IF other = H(AX) THEN H(R11) ELSE H(AX)
Keep(t, at, other)  == When(t = H(at), <<Mov(Aside(other), H(at))>>)
Kept(t, at, other)  == IF t = H(at) THEN Aside(other) ELSE t
Renamed(t, from, to) == IF t = H(from) THEN H(to) ELSE t

OneArgument(t, a) ==
  IF a = H(CX) THEN [code |-> <<>>, target |-> t]
  ELSE [code |-> Keep(t, CX, a) \o <<Mov(H(CX), a)>>, target |-> Kept(t, CX, a)]

TwoArguments(t, a, b) ==
  CASE a = H(CX) /\ b = H(DX) -> [code |-> <<>>, target |-> t]
    [] a = H(CX) /\ b # H(DX) ->
         [code |-> Keep(t, DX, b) \o <<Mov(H(DX), b)>>, target |-> Kept(t, DX, b)]
    [] a = H(DX) /\ b = H(CX) ->
         [code |-> <<Xchg(H(DX), H(CX))>>,
          target |-> IF t = H(CX) THEN H(DX) ELSE Renamed(t, DX, CX)]
    [] a = H(DX) /\ b # H(CX) ->
         [code |-> Keep(t, CX, b) \o <<Mov(H(CX), H(DX)), Mov(H(DX), b)>>,
          target |-> Renamed(Kept(t, CX, b), DX, CX)]
    [] b = H(CX) /\ a # H(DX) /\ t = H(DX) ->
         [code |-> <<Mov(H(R11), a), Mov(H(AX), H(DX)), Mov(H(DX), H(CX)), Mov(H(CX), H(R11))>>,
          target |-> H(AX)]
    [] b = H(CX) /\ a # H(DX) /\ t # H(DX) ->
         [code |-> <<Mov(H(DX), H(CX)), Mov(H(CX), a)>>, target |-> Renamed(t, CX, DX)]
    [] b = H(DX) /\ a \notin {H(CX), H(DX)} ->
         [code |-> Keep(t, CX, a) \o <<Mov(H(CX), a)>>, target |-> Kept(t, CX, a)]
    [] OTHER ->
         IF t = H(CX)
         THEN [code |-> <<Mov(H(DX), b)>> \o Keep(t, CX, a) \o <<Mov(H(CX), a)>>,
               target |-> Aside(a)]
         ELSE [code |-> <<Mov(H(CX), a)>> \o Keep(t, DX, b) \o <<Mov(H(DX), b)>>,
               target |-> Kept(t, DX, b)]

CallSetup(c, n) ==
  LET i == c.insns[n]
      t == Loc(c, n, i.s1)
      s == CASE i.s2 = 0 -> [code |-> <<>>, target |-> t]
             [] i.s2 # 0 /\ i.s3 = 0 -> OneArgument(t, Loc(c, n, i.s2))
             [] OTHER -> TwoArguments(t, Loc(c, n, i.s2), Loc(c, n, i.s3))
      spilled == s.target[1] = "spill"
  IN  [code |-> s.code \o When(spilled, <<Mov(H(AX), s.target)>>),
       target |-> IF spilled THEN H(AX) ELSE s.target]

(* What the callee reads: its address, its arguments and the aliases' storage. *)
Called(c, n, target) ==
  LET i == c.insns[n] IN
  <<Use(target, i.s1)>> \o When(i.s2 # 0, <<Use(H(CX), i.s2)>>)
    \o When(i.s3 # 0, <<Use(H(DX), i.s3)>>) \o StorageIsCurrent

(* A call saves the live registers, except the one that gets the result. *)
Call(c, n) ==
  LET saved == c.save[n] \ (IF Dest(c, n) = n THEN {HostOf(c, n)} ELSE {})
      setup == CallSetup(c, n)
  IN  Each(saved, LAMBDA h : Mov(Saved(h), H(h)))
        \o setup.code \o Called(c, n, setup.target) \o <<Lose({H(h) : h \in CallerSaved})>>
        \o When(Dest(c, n) = n, <<Set(H(AX), n), Mov(H(HostOf(c, n)), H(AX))>>)
        \o Each(saved, LAMBDA h : Mov(H(h), Saved(h)))

(* A tail call is a jump after the epilogue. *)
TailCall(c, n) ==
  LET setup  == CallSetup(c, n)
      moved  == setup.target \in {H(h) : h \in CalleeSaved}
      target == IF moved THEN H(AX) ELSE setup.target
  IN  setup.code \o When(moved, <<Mov(H(AX), setup.target)>>)
        \o Epilogue(c) \o Called(c, n, target)

Return(c, n) ==
  LET r == c.insns[n].s1 IN
  IF n > 1 /\ IsTail(c, n - 1) THEN <<>>
  ELSE When(r # 0, <<Mov(H(AX), Loc(c, n, r))>>) \o Epilogue(c)
         \o When(r # 0, <<Use(H(AX), r)>>) \o StorageIsCurrent

(* translate_block(): the code of an instruction. *)
InsnCode(c, b, n) ==
  LET op == c.insns[n].op
      d  == H(HostOf(c, n))
      r  == c.insns[n].s1
  IN  When(Dest(c, n) = n, Evict(c, n)) \o
      (CASE op = "value"         -> <<Set(d, n)>>
         [] op = "move"          -> <<Mov(d, Loc(c, n, r)), Use(d, r), Set(d, n)>>
         [] op \in {"add", "sub"} -> Arithmetic(c, n)
         [] op = "seq"           -> Compare(c, n)
         [] op = "shift"         -> Shift(c, n)
         [] op = "mulh"          -> MulH(c, n)
         [] op = "div"           -> Div(c, n)
         [] op = "mod"           -> Mod(c, n)
         [] op = "get"           -> GetAlias(c, n)
         [] op = "set"           -> SetAlias(c, b, n)
         [] op = "if"            -> <<Use(Loc(c, n, r), r)>>
         [] op = "return"        -> Return(c, n)
         [] op \in {"label", "goto"} -> <<>>
         [] op \in {"call", "call_transparent"} ->
              IF IsTail(c, n) THEN TailCall(c, n) ELSE Call(c, n))

(********************************* Edges **********************************)

(* What block t expects of a host register on the edge from block b, in the
   terms of HostReload, and where the value is that it expects. *)
LastOf(c, b)      == c.blocks[b].last
Forward(c, b, t)  == After(c, b) # {} /\ t >= NextOf(c, b)
MergedAt(c, t, h) == {a \in Aliases : LET g == c.binfo[t].load[a] IN
                        g # 0 /\ c.info[g].merge /\ c.info[g].host_merge = h}
LiveAt(c, b, t, h) ==
  LET last  == LastOf(c, b)
      first == c.blocks[t].first
      r     == RegMap(c, last, h)
  IN  /\ r # 0 /\ (first > last \/ r < first)
      /\ c.death[r] >= Later(first, last) /\ ~IsSpilled(c, Later(first, last), r)
Reloads(c, b, t, h) ==
  LET r == c.binfo[t].initial[h] IN
  ~Forward(c, b, t) /\ r # 0 /\ IsSpilled(c, LastOf(c, b), r)

MergeSource(c, b, a) ==
  LET r == c.binfo[b].store[a] IN
  IF r = 0 THEN Mem(a) ELSE Loc(c, LastOf(c, b), r)
SourceLoc(c, b, t, h) ==
  LET merged == MergedAt(c, t, h) IN
  CASE merged # {} -> MergeSource(c, b, Latest(merged))
    [] merged = {} /\ Reloads(c, b, t, h) -> Slot(c.binfo[t].initial[h])
    [] OTHER -> H(h)

(* The assertions of reload_regs_for_block(). *)
EdgeAsserts(c, b, t) ==
  /\ \A h \in Hosts : LET r == c.binfo[t].initial[h] IN
       ~Forward(c, b, t) /\ r # 0 => MergedAt(c, t, h) = {} /\ c.death[r] >= LastOf(c, b)
  /\ \A h \in Hosts : LiveAt(c, b, t, h) => MergedAt(c, t, h) = {} /\ ~Reloads(c, b, t, h)
  /\ \A h \in Hosts : Cardinality(MergedAt(c, t, h)) <= 1

(* An edge in the terms of HostReload: what block t expects of each register. *)
Nothing == [is |-> "free", from |-> 0]
Role(c, b, t, h) ==
  LET merged == MergedAt(c, t, h)
      source == MergeSource(c, b, Latest(merged))
  IN  CASE merged # {} -> [is |-> "merge",
                           from |-> CASE source[1] = "host"  -> source[2]
                                      [] source[1] = "spill" -> NumHosts
                                      [] source[1] = "alias" -> NumHosts + 1]
        [] merged = {} /\ Reloads(c, b, t, h) -> [is |-> "reload", from |-> 0]
        [] merged = {} /\ ~Reloads(c, b, t, h) /\ LiveAt(c, b, t, h) -> [is |-> "live", from |-> 0]
        [] OTHER -> Nothing
Roles(c, b, t) == [h \in Hosts |-> IF t = None THEN Nothing ELSE Role(c, b, t, h)]

(* A forward branch does the spills it jumps over.  Then every register gets
   what is expected of it: HostReload shows that. *)
Crossed(c, b, t) ==
  {r \in {RegMap(c, LastOf(c, b), h) : h \in Hosts} \ {0} :
     /\ After(c, b) # {} /\ t > NextOf(c, b)
     /\ c.death[r] >= c.blocks[t].first /\ IsSpilled(c, c.blocks[t].first, r)}
CrossedAsserts(c, b, t) == \A r \in Crossed(c, b, t) : ~IsSpilled(c, LastOf(c, b), r)
CrossedSpills(c, b, t) == Each(Crossed(c, b, t), LAMBDA r : Mov(Slot(r), H(HostOf(c, r))))

Deliver(c, m, b, t) ==
  [m EXCEPT !.at = [l \in DOMAIN @ |->
     IF l[1] = "host" /\ l[2] # R15 THEN m.at[SourceLoc(c, b, t, l[2])] ELSE @[l]]]
Taken(c, m, b, t) == Deliver(c, FoldLeft(Run, m, CrossedSpills(c, b, t)), b, t)

(* When a conditional branch is not taken, the reload code for its target may have
   run as well: what it writes is lost, unless the next block expects something of it. *)
LiveOut(c, b) == {h \in Hosts : LET r == RegMap(c, LastOf(c, b), h) IN
                    r # 0 /\ c.death[r] > LastOf(c, b)}
NotTaken(c, m, b, t) ==
  LET target == c.insns[LastOf(c, b)].x
      lost   == {h \in Hosts \ LiveOut(c, b) :
                   MergedAt(c, t, h) = {} /\ Role(c, b, target, h) # Nothing}
  IN  Run(Deliver(c, m, b, t), Lose({H(h) : h \in lost}))

(***************************** The translator *****************************)

Skeleton == Skeletons[unit]
Entry    == Least(DOMAIN Skeleton.blocks)
Init ==
  /\ phase = "build" /\ unit \in DOMAIN Skeletons /\ insns = <<>>
  /\ ctx = <<>> /\ block = None /\ machine = <<>>

Build ==
  /\ phase = "build" /\ Len(insns) < Len(Skeleton.insns)
  /\ \E i \in Skeleton.insns[Len(insns) + 1] : insns' = Append(insns, i)
  /\ UNCHANGED <<phase, unit, ctx, block, machine>>

LastUse(r) == Latest({r} \cup {n \in DOMAIN insns : r \in {insns[n].s1, insns[n].s2, insns[n].s3}})

Start ==
  /\ phase = "build" /\ Len(insns) = Len(Skeleton.insns)
  /\ ctx' = Context(insns, [r \in DOMAIN insns |-> LastUse(r)], Skeleton.blocks, Skeleton.opts)
  /\ phase' = "live_ranges" /\ block' = Entry
  /\ UNCHANGED <<unit, insns, machine>>

(* A pass takes the blocks in the order of the code stream; then the next one starts. *)
Pass(this, then, c) ==
  /\ phase = this /\ ctx' = c
  /\ LET next == NextOf(ctx, block) IN
       IF next # None THEN phase' = this /\ block' = next ELSE phase' = then /\ block' = Entry
  /\ UNCHANGED <<unit, insns, machine>>

(* host_x86_allocate_registers(). *)
UpdateLiveRanges  == Pass("live_ranges", "first_pass", ExtendOverLoop(ctx, block))
FirstPasses       == Pass("first_pass", "aliases", FixedList(FirstPass(ctx, block)))
UpdateAliasRanges == Pass("aliases", "allocate", ExtendStores(ctx, block))
AllocateBlock     == Pass("allocate", "code", AllocBlock(ctx, block))

Enter ==
  /\ phase = "code"
  /\ phase' = "run" /\ machine' = NewMachine(ctx)
  /\ UNCHANGED <<unit, insns, ctx, block>>

(* The code of a block runs, and of one of the edges out of it. *)
AtEnd == FoldLeft(Run, machine,
           FlattenSeq([k \in 1..Size(ctx, block) |-> InsnCode(ctx, block, Insn(ctx, block, k))]))
LastInsn == ctx.insns[LastOf(ctx, block)]
Branches == LastInsn.op \in {"if", "goto"}
Running  == phase = "run" /\ block # None

RunToTarget ==
  /\ Running /\ Branches
  /\ block' = LastInsn.x /\ machine' = Taken(ctx, AtEnd, block, LastInsn.x)
  /\ UNCHANGED <<phase, unit, insns, ctx>>

RunToNext ==
  /\ Running /\ LastInsn.op \notin {"goto", "return"}
  /\ LET next == NextOf(ctx, block) IN
       /\ next # None
       /\ block' = next
       /\ machine' = IF Branches THEN NotTaken(ctx, AtEnd, block, next)
                     ELSE Taken(ctx, AtEnd, block, next)
  /\ UNCHANGED <<phase, unit, insns, ctx>>

RunToReturn ==
  /\ Running /\ LastInsn.op = "return"
  /\ block' = None /\ machine' = AtEnd
  /\ UNCHANGED <<phase, unit, insns, ctx>>

Next ==
  \/ Build \/ Start
  \/ UpdateLiveRanges \/ FirstPasses \/ UpdateAliasRanges \/ AllocateBlock
  \/ Enter \/ RunToTarget \/ RunToNext \/ RunToReturn
HostSpec == Init /\ [][Next]_hostVars

(* The end of block b in HostReload. *)
LastOp(b)      == ctx.insns[LastOf(ctx, b)].op
BranchOf(b)     == IF LastOp(b) \in {"if", "goto"} THEN ctx.insns[LastOf(ctx, b)].x
                   ELSE NextOf(ctx, b)
Conditional(b)  == LastOp(b) = "if"
Reload(b) == INSTANCE HostReload WITH
  taken <- Roles(ctx, b, BranchOf(b)),
  next <- Roles(ctx, b, IF Conditional(b) THEN NextOf(ctx, b) ELSE None),
  conditional <- Conditional(b), backward <- ~Forward(ctx, b, BranchOf(b)),
  liveOut <- IF Conditional(b) THEN LiveOut(ctx, b) ELSE {},
  at <- "branch", edge <- Roles(ctx, b, BranchOf(b)), regs <- [h \in Hosts |-> h],
  targets <- {}, pass <- {}, resolved <- FALSE,
  srcMap <- [h \in Hosts |-> -1], valueMap <- [h \in Hosts |-> -1],
  srcCount <- [h \in Hosts |-> 0]

(******************************* Properties *******************************)

(* No instruction's natural location is among those that it has to avoid, as the
   allocator asserts.  This holds without FIXED_REGS only: with it, a quotient that is a
   divisor later may have been told to avoid rAX, which was reserved until then for a
   value that has been spilled since, so that rAX is free again. *)
NaturalLocation == phase # "build" => ctx.natural

(* The other assertions of the allocator and those of the translator hold, and the
   allocator never has a register for two values nor a value in a register of another. *)
MapAgrees ==
  \A h \in Hosts : LET r == ctx.map[h] IN
    r # 0 => ctx.info[r].allocated /\ HostOf(ctx, r) = h /\ ctx.info[r].spill_insn = 0
TranslatorAsserts ==
  /\ \A n \in DOMAIN insns :
       Dest(ctx, n) = n => EvictAsserts(ctx, n) /\ ArithmeticAsserts(ctx, n)
  /\ \A b \in DOMAIN ctx.blocks : LastOp(b) # "return" => CrossedAsserts(ctx, b, BranchOf(b))
AllocInv ==
  /\ phase # "build" => ctx.ok /\ MapAgrees
  /\ phase # "build" /\ "FIXED_REGS" \notin ctx.opts => ctx.natural
  /\ phase = "code" => TranslatorAsserts

(* Every instruction finds its operands where the code takes them from, whichever
   way execution has come; and whoever is called or returned to finds the arguments
   or the result, the aliases' storage, although stores are left out where a successor
   takes the value over, and the caller's registers. *)
ValuesInPlace == phase = "run" => machine.right

(* The assertions of the reload code hold on every edge, and every edge that the
   allocator leaves is one that HostReload starts from, with the registers that
   check_reload_conflicts() is told are live among those that it assumes: so the
   moves deliver what Deliver says. *)
EdgesAreReloads ==
  phase = "code" =>
    \A b \in DOMAIN ctx.blocks : LastOp(b) # "return" =>
      /\ EdgeAsserts(ctx, b, BranchOf(b))
      /\ Conditional(b) => EdgeAsserts(ctx, b, NextOf(ctx, b))
      /\ Reload(b)!ReloadInit
      /\ Conditional(b) => /\ Reload(b)!EndLive \subseteq ctx.binfo[b].end_live
                           /\ Reload(b)!StaleEndLive \/ Reload(b)!EndLive = ctx.binfo[b].end_live
==============================================================================
