------------------------------- MODULE RTLInsnOpt -------------------------------
(* The passes of rtl_optimize_unit() that rewrite instructions (rtl-opt.c): the
   folding of constants, vectors and read-only loads, deconditioning, dead store
   elimination, and the removal of dead blocks and branches, together with the
   live ranges they maintain and rtl_update_live_ranges() (rtl-util.c), which the
   host translator calls next.

   A front end writes a program with rtl_add_insn() (RTLInsns), and the passes
   run on it one after the other.  Branch threading and the alias analysis are
   RTLFlowOpt and RTLAliasFlow.  The flow graph is read off the code, which
   RTLFlowOpt shows it to agree with. *)
EXTENDS RTLInsns

CONSTANTS Pool(_, _),       \* the instructions a front end may add: mode and unit
          Modes, FlagSets(_),
          MaxInsns,         \* bound: instructions of a unit
          Fuel,             \* bound: instructions executed in a run
          Inputs,           \* values of the arguments
          Membase,          \* the register of rtl_set_membase_pointer()
          HostBase,         \* guest_memory_base, the host address of guest address 0
          Rom,              \* the read-only bytes: guest address -> byte
          Defects           \* conditions the code does not handle, left out

ASSUME InsnOptAssumption ==
  /\ MaxInsns \in Nat /\ Fuel \in Nat /\ Membase \in Regs
  /\ DOMAIN Rom \subseteq 0..(2^Word - 1)
  /\ Defects \subseteq {"cascade", "fcmp", "first_live", "label_flag", "fnmadd", "mulhu"}

VARIABLES unit, phase, flags, mode,
          expected   \* history variable: what the program did when it was finished

optVars == <<unit, phase, flags, mode, expected>>

SideEffects == {"ATOMIC_INC", "CMPXCHG", "CALL", "CALL_TRANSPARENT"}
RaisingOps  == ConvertOps \cup FloatOps \cup FmaOps \cup {"VFCVT", "VFCMP"}
VectorOps   == {"VBUILD2", "VBROADCAST", "VEXTRACT", "VINSERT", "VFCVT", "VFCMP"}

IsConstant(u, r) == u.regs[r].source = "constant"
Largest(s) == CHOOSE x \in s : \A y \in s : x >= y
Reads(i, r) == r # 0 /\ r \in {i.src1, i.src2, Src3Of(i), BaseOf(i)}

--------------------------------------------------------------------------------
(* Live ranges. *)

BugPrevRegUse(u, r, n) ==      \* the base of an alias is not a use
  Largest({u.regs[r].birth}
            \cup {p \in (u.regs[r].birth + 1)..(n - 1) :
                    LET i == u.insns[p] IN r \in {i.src1, i.src2, Src3Of(i)}})
PrevRegUse(u, r, n) ==
  Largest({u.regs[r].birth}
            \cup {p \in (u.regs[r].birth + 1)..(n - 1) : Reads(u.insns[p], r)})
Rollback(u, r) == [u EXCEPT !.regs[r].death = PrevRegUse(u, r, @)]
RollbackAt(u, r, n) == IF r # 0 /\ u.regs[r].death = n THEN Rollback(u, r) ELSE u

BugKillInsn(u, n, ignore, dse) ==      \* the operands' last use is not looked for again
  LET i == u.insns[n]
  IN  IF ~ignore /\ i.op \in RaisingOps THEN u
      ELSE [u EXCEPT !.insns[n] = NoInsn,
                     !.regs[i.dest].live = IF i.dest # 0 THEN FALSE ELSE @]

RECURSIVE KillInsn(_, _, _, _)
KillInsn(u, n, ignore, dse) ==
  LET i    == u.insns[n]
      src1 == IF i.op = "GET_ALIAS" THEN BaseOf(i) ELSE i.src1
      src2 == IF i.op = "SET_ALIAS" THEN BaseOf(i) ELSE i.src2
      gone == [u EXCEPT !.insns[n] = NoInsn,
                        !.regs[i.dest].live = IF i.dest # 0 THEN FALSE ELSE @,
                        !.labels = IF i.op = "LABEL" THEN [@ EXCEPT ![i.other] = 0] ELSE @]
      Release(v, r) ==
        IF r = 0 \/ v.regs[r].death # n THEN v
        ELSE LET w == Rollback(v, r)
             IN  IF dse /\ w.regs[r].death = w.regs[r].birth
                 THEN KillInsn(w, w.regs[r].birth, ignore, dse) ELSE w
  IN  IF ~ignore /\ i.op \in RaisingOps THEN u
      ELSE Release(Release(Release(gone, Src3Of(i)), src2), src1)

--------------------------------------------------------------------------------
(* rtl_opt_fold_registers(). *)

(* SELECT with a constant condition, or between a register and itself. *)
ReduceSelect(u, n) ==
  LET i == u.insns[n]
      Move(src) == [u EXCEPT !.insns[n] = [i EXCEPT !.op = "MOVE", !.src1 = src,
                                                   !.src2 = 0, !.src3 = 0]]
      kept   == IF u.regs[i.src3].value # 0 THEN i.src1 ELSE i.src2
      unused == IF u.regs[i.src3].value # 0 THEN i.src2 ELSE i.src1
      loose(r) == IF r \in {i.src1, i.src2} THEN 0 ELSE r
  IN  CASE i.op # "SELECT"    -> u
        [] i.op = "SELECT" /\ i.src1 = i.src2 -> RollbackAt(Move(i.src1), loose(i.src3), n)
        [] i.op = "SELECT" /\ i.src1 # i.src2 /\ IsConstant(u, i.src3) ->
             RollbackAt(RollbackAt(Move(kept), unused, n), loose(i.src3), n)
        [] OTHER              -> u

ShouldFold(u, i, n, foldFp) ==
  CASE i.op = "MOVE" -> u.regs[i.src1].death = n
    [] i.op # "MOVE" /\ foldFp -> i.op \notin VectorOps
    [] OTHER -> i.op \notin VectorOps \cup ConvertOps \cup FloatOps \cup FmaOps \cup {"FCMP"}

(* The operation with its constant operand as an immediate; "none" if there is
   none, or the constant does not fit. *)
ImmOf(op, onSrc2) ==
  CASE op \in {"ADD", "MUL", "AND", "OR", "XOR", "SEQ"} ->
         [ADD |-> "ADDI", MUL |-> "MULI", AND |-> "ANDI", OR |-> "ORI",
          XOR |-> "XORI", SEQ |-> "SEQI"][op]
    [] onSrc2 /\ op \in {"SUB", "SLL", "SRL", "SRA", "ROL", "ROR"} ->
         [SUB |-> "ADDI", SLL |-> "SLLI", SRL |-> "SRLI", SRA |-> "SRAI",
          ROL |-> "RORI", ROR |-> "RORI"][op]
    [] op \in {"SLTU", "SLTS", "SGTU", "SGTS"} ->
         IF onSrc2 THEN [SLTU |-> "SLTUI", SLTS |-> "SLTSI", SGTU |-> "SGTUI", SGTS |-> "SGTSI"][op]
                   ELSE [SLTU |-> "SGTUI", SLTS |-> "SGTSI", SGTU |-> "SLTUI", SGTS |-> "SLTSI"][op]
    [] OTHER -> "none"

ConvertToRegimm(u, i) ==
  LET onSrc2 == ~IsConstant(u, i.src1)
      const  == IF onSrc2 THEN i.src2 ELSE i.src1
      value  == u.regs[const].value
      fits   == Type(u, const) = "int32" \/ U(Long, value + 2^(Word - 1)) < 2^Word
      minimum == i.op = "SUB" /\ i.type # "int32" /\ value = U(Long, -2^(Word - 1))
      imm    == IF i.op \in {"SUB", "ROL"} THEN S(Word, -value) ELSE S(Word, value)
  IN  IF ~fits \/ minimum \/ ImmOf(i.op, onSrc2) = "none" THEN i
      ELSE [i EXCEPT !.op = ImmOf(i.op, onSrc2), !.other = imm,
                     !.src1 = IF onSrc2 THEN i.src1 ELSE i.src2, !.src2 = 0]

FoldOneRegConstant(u, n, foldFp) ==
  LET v    == ReduceSelect(u, n)
      i    == v.insns[n]
      srcs == {i.src1, i.src2, Src3Of(i)} \ {0}
      Value(r) == v.regs[r].value
      x    == FoldConstant(i.op, Type(v, i.src1), i.type, Value(i.src1), Value(i.src2),
                           Value(i.src3), i.other)
      folded == [v EXCEPT !.regs[i.dest].source = "constant",
                          !.regs[i.dest].value = IF i.type = "int32" THEN U(Word, x) ELSE x,
                          !.insns[n] = [NoInsn EXCEPT !.op = "LOAD_IMM", !.type = i.type, !.dest = i.dest,
                                          !.other = IF i.type = "int32" THEN U(Word, x) ELSE x]]
      j    == ConvertToRegimm(v, i)
      Constants(w) == FoldLeft(LAMBDA y, r : IF IsConstant(v, r) THEN RollbackAt(y, r, n) ELSE y,
                               w, <<i.src1, i.src2, Src3Of(i)>>)
  IN  IF i.op = "SELECT" THEN v
      ELSE IF \A r \in srcs : IsConstant(v, r)
      THEN IF ShouldFold(v, i, n, foldFp) THEN Constants(folded) ELSE v
      ELSE IF Src3Of(i) = 0 /\ (\E r \in srcs : IsConstant(v, r)) /\ j # i
      THEN Constants([v EXCEPT !.insns[n] = j]) ELSE v

(* VEXTRACT of an element whose register is known becomes MOVE; VINSERT into a
   vector made for it alone takes over the vector's other element. *)
FoldOneRegVector(u, n) ==
  LET i    == u.insns[n]
      made == u.insns[u.regs[i.src1].birth]
      vec  == IsVector(Type(u, i.src1)) /\ u.regs[i.src1].source = "nofold"
      elem(k) == CASE made.op = "VBUILD2"    -> IF k = 0 THEN made.src1 ELSE made.src2
                   [] made.op = "VBROADCAST" -> made.src1
                   [] made.op = "VINSERT"    -> IF made.other = k THEN made.src2 ELSE 0
                   [] OTHER                  -> 0
      other == 1 - i.other
      alone == u.regs[i.src1].death = n /\ PrevRegUse(u, i.src1, n) = u.regs[i.src1].birth
      Forward(j, r) ==
        LET v == [u EXCEPT !.insns[n] = j]
        IN  RollbackAt([v EXCEPT !.regs[r].death = IF @ < n THEN n ELSE @], i.src1, n)
  IN  CASE i.op = "VEXTRACT" /\ vec /\ elem(i.other) # 0 ->
             Forward([i EXCEPT !.op = "MOVE", !.src1 = elem(i.other), !.other = 0], elem(i.other))
        [] i.op = "VINSERT" /\ vec /\ alone /\ elem(other) # 0 ->
             Forward([i EXCEPT !.op = "VBUILD2", !.other = 0,
                               !.src1 = IF i.other = 0 THEN i.src2 ELSE elem(other),
                               !.src2 = IF i.other = 0 THEN elem(other) ELSE i.src2], elem(other))
        [] i.op = "VINSERT" /\ vec /\ alone /\ made.op = "VINSERT" /\ made.other = i.other ->
             Forward([i EXCEPT !.src1 = made.src1], made.src1)
        [] OTHER -> u

NotGuest == -1
(* get_readonly_ptr(): the guest address a load reads, if it is known. *)
GuestAddress(u, i) ==
  LET base == u.regs[i.src1]
      j    == u.insns[base.birth]
      At(x) == U(Word, U(Word, x) + i.other)
      other == IF j.src1 = Membase THEN j.src2 ELSE j.src1
  IN  CASE i.src1 = Membase -> At(0)
        [] i.src1 # Membase /\ base.source = "nofold" /\ j.op = "ADDI" /\ j.src1 = Membase -> At(j.other)
        [] /\ i.src1 # Membase /\ base.source = "nofold" /\ j.op = "ADD"
           /\ Membase \in {j.src1, j.src2} /\ IsConstant(u, other) -> At(u.regs[other].value)
        [] OTHER -> NotGuest

(* fold_readonly_load() on a little-endian host. *)
ByteReversed == {"LOAD_BR", "LOAD_U16_BR", "LOAD_S16_BR"}
LoadedValue(i, B(_)) ==
  LET size  == CASE i.op \in {"LOAD_U8", "LOAD_S8"} -> 1
                 [] i.op \in NarrowLoads \ {"LOAD_U8", "LOAD_S8"} -> 2
                 [] OTHER -> Width[i.type]
      value == OfBits(size, LAMBDA k : IF i.op \in ByteReversed THEN B(size - 1 - k) ELSE B(k))
  IN  IF i.op \in {"LOAD_S8", "LOAD_S16", "LOAD_S16_BR"} THEN U(Word, S(size, value)) ELSE value
FoldReadonlyLoad(u, n) ==
  LET i == u.insns[n]
      a == GuestAddress(u, i)
      x == LoadedValue(i, LAMBDA k : IF a + k \in DOMAIN Rom THEN Rom[a + k] ELSE 0)
  IN  IF a \notin DOMAIN Rom \/ IsVector(i.type) THEN u
      ELSE RollbackAt([u EXCEPT !.regs[i.dest].source = "constant", !.regs[i.dest].value = x,
                                !.insns[n] = [NoInsn EXCEPT !.op = "LOAD_IMM", !.type = i.type,
                                                            !.dest = i.dest, !.other = x]],
                      i.src1, n)

FoldInsn(u, n, f) ==
  LET i == u.insns[n]
      v == [u EXCEPT !.regs[i.dest].source = "nofold"]
      w == IF f.vectors THEN FoldOneRegVector(v, n) ELSE v
  IN  CASE i.dest # 0 /\ u.regs[i.dest].source = "result" ->
             IF f.fold THEN FoldOneRegConstant(w, n, f.fold_fp) ELSE w
        [] i.dest # 0 /\ u.regs[i.dest].source = "memory" /\ f.fold -> FoldReadonlyLoad(u, n)
        [] OTHER -> u

--------------------------------------------------------------------------------
(* The flow graph, off the code. *)

Blocks(u) == DOMAIN u.blocks
Chain(u)  == {b \in Blocks(u) : ~u.blocks[b].dropped}
InsnsOf(u, b) == u.blocks[b].first..u.blocks[b].last
LastOf(u, b)  == IF InsnsOf(u, b) = {} THEN NoInsn ELSE u.insns[u.blocks[b].last]
NextBlock(u, b) == {c \in Chain(u) : c > b /\ \A d \in Chain(u) : d > b => c <= d}
ExitsOf(u, b) ==
  LET i == LastOf(u, b)
  IN  (IF i.op \in {"GOTO", "RETURN"} THEN {} ELSE NextBlock(u, b))
        \cup (IF i.op \in Branches THEN {u.labels[i.other]} ELSE {})

RECURSIVE Closure(_, _)
Closure(From(_), s) == LET t == s \cup UNION {From(b) : b \in s}
                       IN  IF t = s THEN s ELSE Closure(From, t)
Reachable(u) == Closure(LAMBDA b : ExitsOf(u, b), {1})

FoldRegisters(u, f) == FoldLeft(LAMBDA v, n : FoldInsn(v, n, f), u, [n \in DOMAIN u.insns |-> n])

(* rtl_opt_decondition(): a branch on a constant always or never goes. *)
Deconditioned(u, b) ==
  LET n == u.blocks[b].last
      i == LastOf(u, b)
      goes == (i.op = "GOTO_IF_Z") = (u.regs[i.src1].value = 0)
      j == IF goes THEN [i EXCEPT !.op = "GOTO", !.src1 = 0] ELSE NoInsn
  IN  IF i.op \in {"GOTO_IF_Z", "GOTO_IF_NZ"} /\ IsConstant(u, i.src1)
      THEN RollbackAt([u EXCEPT !.insns[n] = j], i.src1, n) ELSE u
DeconditionAll(u) == FoldLeft(Deconditioned, u, [b \in Blocks(u) |-> b])

(* rtl_opt_drop_dead_stores() and maybe_kill_store(). *)
DropStore(u, r, ignore) ==
  LET x == u.regs[r]
  IN  IF x.live /\ x.death = x.birth /\ u.insns[x.birth].op \notin SideEffects
      THEN KillInsn(u, x.birth, ignore, TRUE) ELSE u
DropDeadStores(u, ignore) ==
  FoldLeft(LAMBDA v, r : DropStore(v, r, ignore), u, [r \in 1..(u.next_reg - 1) |-> r])

(* rtl_opt_drop_dead_blocks(): the last block first, and its last instruction
   first.  A register that is still used keeps its instruction. *)
KillIfUnused(u, n) == LET d == u.insns[n].dest
                      IN  IF d # 0 /\ u.regs[d].death > n THEN u ELSE KillInsn(u, n, TRUE, FALSE)
DropBlock(u, b) ==
  LET v == [u EXCEPT !.blocks[b].dropped = TRUE]
      k == u.blocks[b].last
  IN  FoldLeft(KillIfUnused, v, [n \in 1..(k - u.blocks[b].first + 1) |-> k - n + 1])
DropDeadBlocks(u) ==
  LET dead == Chain(u) \ Reachable(u)
      last == Len(u.blocks)
  IN  FoldLeft(LAMBDA v, k : IF (last - k + 1) \in dead THEN DropBlock(v, last - k + 1) ELSE v,
               u, [k \in 1..last |-> k])

(* rtl_opt_drop_dead_branches(): the src1 field of a LABEL is borrowed to mark the
   labels that branches still name; the others are dropped. *)
DropBranch(u, b, ignore, dse) ==
  LET i == LastOf(u, b)
      target == u.labels[i.other]
  IN  IF b \notin Chain(u) \/ i.op \notin Branches THEN u
      ELSE IF {target} = NextBlock(u, b) THEN KillInsn(u, u.blocks[b].last, ignore, dse)
      ELSE [u EXCEPT !.insns[u.blocks[target].first].src1 = 1]
DropLabel(u, l) ==
  IF u.labels[l] = 0 THEN u
  ELSE LET n == u.blocks[u.labels[l]].first
       IN  IF u.insns[n].src1 = 1 THEN [u EXCEPT !.insns[n].src1 = 0]
           ELSE [u EXCEPT !.insns[n] = NoInsn, !.labels[l] = 0]
DropDeadBranches(u, ignore, dse) ==
  FoldLeft(DropLabel, FoldLeft(LAMBDA v, b : DropBranch(v, b, ignore, dse), u, [b \in Blocks(u) |-> b]),
           [l \in 1..MaxLabel |-> l])

(* rtl_update_live_ranges(): a register live into a block stays live to the end
   of the last block that branches back to it. *)
BugExtendRanges(u, b) ==      \* the first block that branches back
  LET back == {c \in Chain(u) : b \in ExitsOf(u, c) /\ c >= b}
      end  == u.blocks[CHOOSE c \in back : \A d \in back : c <= d].last
      open(r) == /\ r \in u.first_live..u.blocks[b].max_live
                 /\ u.regs[r].birth < u.blocks[b].first
                 /\ u.regs[r].death \in u.blocks[b].first..(end - 1)
  IN  IF b \notin Chain(u) \/ back = {} THEN u
      ELSE [u EXCEPT !.regs = [r \in Regs |-> IF open(r) THEN [@[r] EXCEPT !.death = end] ELSE @[r]]]
ExtendRanges(u, b) ==
  LET latest == {c \in Chain(u) : b \in ExitsOf(u, c) /\ c >= b}
      end    == u.blocks[Largest(latest)].last
      open(r) == /\ r \in u.first_live..u.blocks[b].max_live
                 /\ u.regs[r].birth < u.blocks[b].first
                 /\ u.regs[r].death \in u.blocks[b].first..(end - 1)
  IN  IF b \notin Chain(u) \/ latest = {} THEN u
      ELSE [u EXCEPT !.regs = [r \in Regs |-> IF open(r) THEN [@[r] EXCEPT !.death = end] ELSE @[r]]]
UpdateLiveRanges(u) == FoldLeft(ExtendRanges, u, [b \in Blocks(u) |-> b])

--------------------------------------------------------------------------------
(* What a unit does when it runs, by rtl.h. *)

Lost == -2     \* the value of a register nothing has set

Start == [pc |-> 1, regs |-> [r \in Regs |-> IF r = 0 THEN 0 ELSE Lost],
          alias |-> [a \in DOMAIN Aliases |-> a], raised |-> FALSE, round |-> 0,
          trace |-> <<>>, fuel |-> Fuel, status |-> "run"]

Arg(t, k, x) == IF k = 0 THEN HostBase ELSE U(Width[t], x)
Byte(x, a) == IF a - HostBase \in DOMAIN Rom THEN Rom[a - HostBase] ELSE Bit(x + a, a % 3)
InGuest(a, bytes) == a \in HostBase..(HostBase + 2^Word - bytes) /\ a % bytes = 0
SizeOf(u, i) == CASE i.op \in {"LOAD_U8", "LOAD_S8", "STORE_I8"} -> 1
                  [] i.op \in WideLoads -> Width[i.type]
                  [] i.op \in {"STORE", "STORE_BR"} -> Width[Type(u, i.src2)]
                  [] i.op \in {"ATOMIC_INC", "CMPXCHG"} -> Width[i.type]
                  [] OTHER -> 2

PureOps == CastOps \cup ArithOps \cup DivideOps \cup LogicOps \cup ShiftOps \cup CountOps
             \cup CompareOps \cup FieldOps \cup AluImmOps \cup CmpImmOps \cup ConvertOps
             \cup SignOps \cup FloatOps \cup FmaOps \cup VectorOps
             \cup {"MOVE", "SELECT", "BITCAST", "FCMP"}
Memory  == WideLoads \cup NarrowLoads \cup {"STORE", "STORE_BR", "STORE_I8", "STORE_I16", "STORE_I16_BR"}
             \cup {"ATOMIC_INC", "CMPXCHG"}
Raises(op) == op \in RaisingOps \/ (op = "FCMP" /\ "fcmp" \notin Defects)

(* An fpstate is the exception flag and the rounding mode.  The flag is only
   looked at when the passes have to preserve it. *)
StateOp(e, i, a, b, strict) ==
  CASE i.op = "FGETSTATE"  -> 2 * e.round + Bool(e.raised /\ strict)
    [] i.op = "FTESTEXC"   -> a % 2
    [] i.op = "FCLEAREXC"  -> a - (a % 2)
    [] i.op = "FSETROUND"  -> (a % 2) + 2 * i.other
    [] i.op = "FCOPYROUND" -> (a % 2) + 2 * (b \div 2)
StateOps == {"FGETSTATE", "FTESTEXC", "FCLEAREXC", "FSETROUND", "FCOPYROUND"}

(* A value computed from a lost one is lost. *)
Computed(u, e, i, x, strict) ==
  LET a == e.regs[i.src1]
      b == e.regs[i.src2]
      c == e.regs[Src3Of(i)]
      lost == Lost \in {a, b, c}
  IN  CASE i.op = "GET_ALIAS" -> e.alias[i.other]
        [] i.op = "LOAD_IMM"  -> i.other
        [] i.op = "LOAD_ARG"  -> Arg(i.type, i.other, x)
        [] i.op \in WideLoads \cup NarrowLoads \cup {"ATOMIC_INC", "CMPXCHG"} ->
             IF lost THEN Lost ELSE LoadedValue(i, LAMBDA k : Byte(x, U(Long, a + i.other) + k))
        [] i.op \in {"CALL", "CALL_TRANSPARENT"} -> IF lost THEN Lost ELSE U(Word, a + b + c)
        [] i.op \in StateOps -> IF lost THEN Lost ELSE StateOp(e, i, a, b, strict)
        [] i.op \in PureOps  -> IF lost THEN Lost
                                ELSE Meaning(i.op, Type(u, i.src1), i.type, a, b, c, i.other)
        [] OTHER -> 0

Visible == SideEffects \cup {"CHAIN", "CHAIN_RESOLVE", "FSETSTATE", "STORE", "STORE_BR",
                             "STORE_I8", "STORE_I16", "STORE_I16_BR"}

Execute(u, e, x, strict) ==
  LET i == u.insns[e.pc]
      a == e.regs[i.src1]
      v == Computed(u, e, i, x, strict)
      effect == <<i.op, a, e.regs[i.src2], e.regs[Src3Of(i)], i.other>>
      goes == i.op = "GOTO" \/ (i.op \in Branches /\ (i.op = "GOTO_IF_Z") = (a = 0))
      wild == i.op \in Memory /\ a # Lost /\ ~InGuest(U(Long, a + i.other), SizeOf(u, i))
  IN  CASE i.op = "NOP"    -> [e EXCEPT !.pc = @ + 1]
        [] i.op # "NOP" /\ (v = Undefined \/ wild) -> [e EXCEPT !.status = "undefined"]
        [] i.op = "RETURN" ->
             [e EXCEPT !.status = "done",
                       !.trace  = Append(@, <<"RETURN", a, 0, 0, 0>>)
                                    \o [k \in DOMAIN Aliases |->
                                          <<"alias", IF Aliases[k].base = 0 THEN 0 ELSE e.alias[k], 0, 0, 0>>]]
        [] OTHER ->
             [e EXCEPT !.pc     = IF goes THEN u.blocks[u.labels[i.other]].first ELSE @ + 1,
                       !.regs   = IF i.dest = 0 THEN @ ELSE [@ EXCEPT ![i.dest] = v],
                       !.alias  = IF i.op = "SET_ALIAS" THEN [@ EXCEPT ![i.other] = a] ELSE @,
                       !.raised = IF i.op = "FSETSTATE" THEN a % 2 = 1 ELSE @ \/ Raises(i.op),
                       !.round  = IF i.op = "FSETSTATE" THEN a \div 2 ELSE @,
                       !.trace  = IF i.op \in Visible THEN Append(@, effect) ELSE @,
                       !.fuel   = @ - 1]

RECURSIVE RunFrom(_, _, _, _)
RunFrom(u, e, x, strict) ==
  CASE e.status # "run"        -> [status |-> e.status, trace |-> e.trace]
    [] e.status = "run" /\ e.fuel = 0 -> [status |-> "long", trace |-> e.trace]
    [] e.status = "run" /\ e.fuel > 0 /\ e.pc > Len(u.insns) -> [status |-> "done", trace |-> e.trace]
    [] OTHER                   -> RunFrom(u, Execute(u, e, x, strict), x, strict)
Strict(f) == ~f.fold_fp /\ ~f.dse_fp
Outcome(u, x, f) == RunFrom(u, Start, x, Strict(f))

--------------------------------------------------------------------------------
(* Programs a front end may hand over: every branch names a label of the unit, and
   no register is read where it may not have been set. *)

BlockOf(u, n)  == CHOOSE b \in Blocks(u) : n \in InsnsOf(u, b)
UsesOf(u, r)   == {n \in DOMAIN u.insns : Reads(u.insns[n], r)}
UseBlocks(u, r) == {BlockOf(u, n) : n \in UsesOf(u, r)}
Without(u, b)  == IF b = 1 THEN {} ELSE Closure(LAMBDA c : ExitsOf(u, c) \ {b}, {1})

WellFormed(u) ==
  /\ \A n \in DOMAIN u.insns : u.insns[n].op \in Branches => u.labels[u.insns[n].other] # 0
  /\ \A r \in Regs \ {0} : u.regs[r].live =>
       LET born == BlockOf(u, u.regs[r].birth)
       IN  \A b \in UseBlocks(u, r) \ {born} : b \notin Without(u, born)

(* The conditions of Defects: the value of an instruction with a side effect goes
   nowhere but into values nobody uses; the first register marked live is not the
   one with the lowest index; FNMADD or FNMSUB is folded; a 64-bit MULHU is folded
   whose middle sum does not fit in 64 bits. *)
NotHandled(u, f) ==
  \/ /\ "cascade" \in Defects /\ f.dse
     /\ \E n \in DOMAIN u.insns :
          /\ u.insns[n].op \in SideEffects /\ u.insns[n].dest # 0
          /\ UsesOf(u, u.insns[n].dest) # {}
          /\ \A k \in UsesOf(u, u.insns[n].dest) : u.insns[k].dest # 0
  \/ "first_live" \in Defects /\ \E r \in 1..(u.first_live - 1) : u.regs[r].live
  \/ /\ "fnmadd" \in Defects /\ f.fold_fp
     /\ \E n \in DOMAIN u.insns : u.insns[n].op \in {"FNMADD", "FNMSUB"}
  \/ /\ "mulhu" \in Defects /\ f.fold
     /\ \E n \in DOMAIN u.insns :
          LET i == u.insns[n]
          IN  /\ i.op = "MULHU" /\ Width[i.type] = Long
              /\ IsConstant(u, i.src1) /\ IsConstant(u, i.src2)
              /\ MiddleSum(u.regs[i.src1].value, u.regs[i.src2].value) >= 2^Long

--------------------------------------------------------------------------------
OptInit ==
  /\ mode \in Modes
  /\ unit = EmptyUnit /\ phase = "build"
  /\ flags = [fold |-> FALSE, fold_fp |-> FALSE, vectors |-> FALSE, decond |-> FALSE,
              dse |-> FALSE, dse_fp |-> FALSE, basic |-> FALSE]
  /\ expected = [x \in Inputs |-> [status |-> "none", trace |-> <<>>]]

AddInsn(i) ==
  /\ phase = "build" /\ Len(unit.insns) < MaxInsns
  /\ Accepts(unit, i)
  /\ unit' = AddTo(unit, i)
  /\ UNCHANGED <<phase, flags, mode, expected>>

(* rtl_finalize_unit(), and the optimizations the caller has asked for. *)
Finalize(f) ==
  /\ phase = "build" /\ unit.insns # <<>>
  /\ unit' = Closed(unit)
  /\ WellFormed(unit') /\ ~NotHandled(unit', f)
  /\ phase' = "fold" /\ flags' = f
  /\ expected' = [x \in Inputs |-> Outcome(unit', x, f)]
  /\ UNCHANGED mode

Pass(from, to, new) ==
  /\ phase = from /\ phase' = to
  /\ unit' = new
  /\ UNCHANGED <<flags, mode, expected>>

Fold       == Pass("fold", "decond", IF flags.fold \/ flags.vectors THEN FoldRegisters(unit, flags) ELSE unit)
Decondition == Pass("decond", "dse", IF flags.decond THEN DeconditionAll(unit) ELSE unit)
DropStores == Pass("dse", "blocks", IF flags.dse THEN DropDeadStores(unit, flags.dse_fp) ELSE unit)
DropBlocks == Pass("blocks", "branches", IF flags.basic THEN DropDeadBlocks(unit) ELSE unit)
DropBranches == Pass("branches", "ranges",
                     IF flags.basic THEN DropDeadBranches(unit, flags.dse_fp, flags.dse) ELSE unit)
UpdateRanges == Pass("ranges", "done", UpdateLiveRanges(unit))

OptNext ==
  \/ \E i \in Pool(mode, unit) : AddInsn(i)
  \/ \E f \in FlagSets(mode) : Finalize(f)
  \/ Fold
  \/ Decondition
  \/ DropStores
  \/ DropBlocks
  \/ DropBranches
  \/ UpdateRanges

OptSpec == OptInit /\ [][OptNext]_optVars

--------------------------------------------------------------------------------
(* After every pass the unit still does what the program did: the same stores,
   calls and atomic operations with the same operands, the same floating-point
   state, the same final aliases and result.  It covers what fold_constant()
   computes, which operations may become immediates, which vectors may be looked
   through, which loads may be read in advance, and that nothing needed is killed. *)
SameMeaning ==
  phase # "build" =>
    \A x \in Inputs : expected[x].status = "done" => Outcome(unit, x, flags) = expected[x]

LiveIn(u, r) ==
  LET born == BlockOf(u, u.regs[r].birth)
  IN  Closure(LAMBDA c : {b \in Chain(u) : c \in ExitsOf(u, b)} \ {born}, UseBlocks(u, r) \ {born})

(* When the host translator allocates registers, the live range of each register
   holds every instruction at which some path may still read it, round every loop,
   nested or overlapping: otherwise the allocator would give its host register
   away (rtl_update_live_ranges()). *)
LiveRangesCover ==
  phase = "done" =>
    \A r \in 1..MaxReg : unit.regs[r].live =>
      /\ \A n \in UsesOf(unit, r) : n \in unit.regs[r].birth..unit.regs[r].death
      /\ \A b \in Chain(unit) :
           ExitsOf(unit, b) \cap LiveIn(unit, r) # {} /\ InsnsOf(unit, b) # {}
             => unit.blocks[b].last \in unit.regs[r].birth..unit.regs[r].death

(* Until then, a register dies exactly where it is last read, or where it is set
   if nothing reads it, and an instruction whose value is read is never killed:
   what rollback_reg_death() and rtl_opt_kill_insn() keep true as they remove one
   reader after another, alias accesses being readers of the alias's base. *)
DeathIsLastUse ==
  phase # "done" =>
    \A r \in 1..MaxReg :
      \/ ~unit.regs[r].live /\ UsesOf(unit, r) = {}
      \/ unit.regs[r].live /\ unit.regs[r].death = Largest({unit.regs[r].birth} \cup UsesOf(unit, r))
      \/ "label_flag" \in Defects /\ phase = "ranges" /\ r = 1

(* After dead store elimination no instruction is left whose value nobody reads,
   but those with a side effect and, unless BINREC_OPT_DSE_FP allows it, those
   that may raise a floating-point exception (rtl_opt_drop_dead_stores()). *)
NothingUnused ==
  phase = "blocks" /\ flags.dse =>
    \A n \in DOMAIN unit.insns :
      LET i == unit.insns[n]
      IN  i.dest # 0 /\ UsesOf(unit, i.dest) = {} =>
            i.op \in SideEffects \/ (i.op \in RaisingOps /\ ~flags.dse_fp)
================================================================================
