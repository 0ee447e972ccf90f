-------------------------------- MODULE RTLInsns --------------------------------
(* rtl-insn.c: what the maker of each instruction accepts (its OPERAND_ASSERTs),
   the source it gives the destination, and the registers it marks live.

   A unit is a record: the instructions, the registers, the blocks as
   rtl_add_insn() cuts them (RTLUnit has their construction in full), the block
   of each label, and the first register marked live.  Instructions and blocks
   count from 1.  RTLRegister.result repeats the operands of the instruction that
   sets the register, so it is read from there. *)
EXTENDS RTLValues, Sequences, SequencesExt

CONSTANTS MaxReg,     \* bound: registers of a unit
          MaxLabel,   \* bound: labels of a unit
          Aliases     \* a sequence of [type, base], base 0 for an unbound alias

Regs   == 0..MaxReg
NoReg  == [type |-> "none", source |-> "undefined", live |-> FALSE,
           birth |-> 0, death |-> 0, value |-> 0]
NoInsn == [op |-> "NOP", type |-> "none", dest |-> 0, src1 |-> 0, src2 |-> 0,
           src3 |-> 0, other |-> 0]
EmptyUnit == [insns |-> <<>>, regs |-> [r \in Regs |-> NoReg], blocks |-> <<>>,
              labels |-> [l \in 1..MaxLabel |-> 0], open |-> FALSE,
              first_live |-> 0, next_reg |-> 1]

HasSrc3(op)  == op \in {"SELECT", "FMADD", "FMSUB", "FNMADD", "FNMSUB", "CMPXCHG",
                        "CALL", "CALL_TRANSPARENT"}
HasAlias(op) == op \in {"GET_ALIAS", "SET_ALIAS"}
BaseOf(i)    == IF HasAlias(i.op) THEN Aliases[i.other].base ELSE 0
Src3Of(i)    == IF HasSrc3(i.op) THEN i.src3 ELSE 0

--------------------------------------------------------------------------------
(* The makers.  i.type is the type dest was allocated with. *)

Maker(ok, source, marks) == [ok |-> ok, source |-> source, marks |-> marks]
Given(regs)   == SelectSeq(regs, LAMBDA r : r # 0)
Type(u, r)    == u.regs[r].type
IsInt(t)      == t \in IntTypes
IsFloat(t)    == t \in FloatTypes
IsVector(t)   == t \in VecTypes
IsScalar(t)   == IsInt(t) \/ IsFloat(t)
Int32Range    == (-2^(Word - 1))..(2^(Word - 1) - 1)
Result1(i, ok) == Maker(ok, "result", <<i.dest, i.src1>>)
Result2(i, ok) == Maker(ok, "result", <<i.dest, i.src1, i.src2>>)
Result3(i, ok) == Maker(ok, "result", <<i.dest, i.src1, i.src2, i.src3>>)

MakeNop(u, i) == Maker(i.src1 # 0 \/ i.src2 = 0, "nofold", Given(<<i.dest, i.src1, i.src2>>))

MakeSetAlias(u, i) ==
  Maker(i.dest = 0 /\ Type(u, i.src1) = Aliases[i.other].type, "none",
        <<i.src1>> \o Given(<<BaseOf(i)>>))
MakeGetAlias(u, i) ==
  Maker(i.type = Aliases[i.other].type, "alias", <<i.dest>> \o Given(<<BaseOf(i)>>))

MakeMove(u, i)   == Result1(i, Type(u, i.src1) = i.type)
MakeSelect(u, i) == Result3(i, /\ Type(u, i.src1) = i.type /\ Type(u, i.src2) = i.type
                               /\ IsInt(Type(u, i.src3)))

MakeIntcast(u, i) == Result1(i, IsInt(i.type) /\ IsInt(Type(u, i.src1)))
MakeAlu1op(u, i)  == Result1(i, IsInt(i.type) /\ Type(u, i.src1) = i.type)
MakeAlu2op(u, i)  == Result2(i, /\ IsInt(i.type)
                                /\ Type(u, i.src1) = i.type /\ Type(u, i.src2) = i.type)
MakeShift(u, i)   == Result2(i, /\ IsInt(i.type) /\ Type(u, i.src1) = i.type
                                /\ IsInt(Type(u, i.src2)))
MakeAluImm(u, i)  == Result1(i, /\ IsInt(i.type) /\ Type(u, i.src1) = i.type
                                /\ i.other \in Int32Range)
MakeClz(u, i)     == Result1(i, IsInt(i.type) /\ IsInt(Type(u, i.src1)))
MakeCmp(u, i)     == Result2(i, IsInt(i.type) /\ Type(u, i.src2) = Type(u, i.src1))
MakeCmpImm(u, i)  == Result1(i, /\ IsInt(i.type) /\ IsInt(Type(u, i.src1))
                                /\ i.other \in Int32Range)
MakeBitfield(u, i) ==
  Maker(/\ IsInt(i.type) /\ Type(u, i.src1) = i.type
        /\ i.op = "BFINS" => Type(u, i.src2) = i.type,
        "result", <<i.dest, i.src1>> \o Given(<<i.src2>>))

MakeBitcast(u, i) ==
  Result1(i, {i.type, Type(u, i.src1)} \in {{"int32", "float32"}, {"int64", "float64"}})
MakeFcvt(u, i)    == Result1(i, /\ IsFloat(i.type) /\ IsFloat(Type(u, i.src1))
                                /\ Type(u, i.src1) # i.type)
MakeFicast(u, i)  == Result1(i, IsFloat(i.type) /\ IsInt(Type(u, i.src1)))
MakeFroundi(u, i) == Result1(i, IsInt(i.type) /\ IsFloat(Type(u, i.src1)))
FpuType(t) == IsFloat(t) \/ IsVector(t)
MakeFpu1op(u, i)  == Result1(i, FpuType(i.type) /\ Type(u, i.src1) = i.type)
MakeFpu2op(u, i)  == Result2(i, /\ FpuType(i.type)
                                /\ Type(u, i.src1) = i.type /\ Type(u, i.src2) = i.type)
MakeFpu3op(u, i)  == Result3(i, /\ FpuType(i.type) /\ Type(u, i.src1) = i.type
                                /\ Type(u, i.src2) = i.type /\ Type(u, i.src3) = i.type)
IsFcmp(other)     == other \in 0..31 /\ other % 8 <= 5
MakeFcmp(u, i)    == Result2(i, /\ IsInt(i.type) /\ IsFloat(Type(u, i.src1))
                                /\ Type(u, i.src2) = Type(u, i.src1) /\ IsFcmp(i.other))

NoFold(ok, marks) == Maker(ok, "nofold", marks)
MakeFgetstate(u, i)  == NoFold(i.type = "fpstate", <<i.dest>>)
MakeFsetstate(u, i)  == Maker(i.dest = 0 /\ Type(u, i.src1) = "fpstate", "none", <<i.src1>>)
MakeFtestexc(u, i)   == NoFold(IsInt(i.type) /\ Type(u, i.src1) = "fpstate", <<i.dest, i.src1>>)
MakeFclearexc(u, i)  == NoFold(i.type = "fpstate" /\ Type(u, i.src1) = "fpstate", <<i.dest, i.src1>>)
MakeFsetround(u, i)  == NoFold(i.type = "fpstate" /\ Type(u, i.src1) = "fpstate", <<i.dest, i.src1>>)
MakeFcopyround(u, i) == NoFold(/\ i.type = "fpstate" /\ Type(u, i.src1) = "fpstate"
                               /\ Type(u, i.src2) = "fpstate", <<i.dest, i.src1, i.src2>>)

IsElemOf(t, v) == IsVector(v) /\ t = ElemOf[v]
MakeVbuild2(u, i)    == Result2(i, /\ IsElemOf(Type(u, i.src1), i.type)
                                   /\ Type(u, i.src2) = Type(u, i.src1))
MakeVbroadcast(u, i) == Result1(i, IsElemOf(Type(u, i.src1), i.type))
MakeVextract(u, i)   == Result1(i, IsElemOf(i.type, Type(u, i.src1)) /\ i.other < 2)
MakeVinsert(u, i)    == Result2(i, /\ Type(u, i.src1) = i.type /\ i.other < 2
                                   /\ IsElemOf(Type(u, i.src2), i.type))
MakeVfcvt(u, i)      == Result1(i, /\ IsVector(i.type) /\ IsVector(Type(u, i.src1))
                                   /\ Type(u, i.src1) # i.type)
MakeVfcmp(u, i)      == Result2(i, /\ i.type = "int64" /\ IsVector(Type(u, i.src1))
                                   /\ Type(u, i.src2) = Type(u, i.src1) /\ IsFcmp(i.other))

MakeLoadImm(u, i) == Maker(IsScalar(i.type) /\ i.other \in 0..(2^Width[i.type] - 1), "constant", <<i.dest>>)
MakeLoadArg(u, i) == Maker(IsInt(i.type), "arg", <<i.dest>>)
MakeLoad(u, i)    == Maker(Type(u, i.src1) = "address", "memory", <<i.dest, i.src1>>)
MakeLoadNarrow(u, i) ==
  Maker(i.type = "int32" /\ Type(u, i.src1) = "address", "memory", <<i.dest, i.src1>>)
MakeStore(u, i)   == Maker(i.dest = 0 /\ Type(u, i.src1) = "address", "none", <<i.src1, i.src2>>)
MakeStoreNarrow(u, i) ==
  Maker(/\ i.dest = 0 /\ Type(u, i.src1) = "address"
        /\ Type(u, i.src2) = "int32", "none", <<i.src1, i.src2>>)
MakeAtomicInc(u, i) == NoFold(IsInt(i.type) /\ Type(u, i.src1) = "address", <<i.dest, i.src1>>)
MakeCmpxchg(u, i) ==
  NoFold(/\ IsInt(i.type) /\ Type(u, i.src1) = "address"
         /\ Type(u, i.src2) = i.type /\ Type(u, i.src3) = i.type,
         <<i.dest, i.src1, i.src2, i.src3>>)

MakeLabel(u, i)    == Maker(u.labels[i.other] = 0, "none", <<>>)
MakeGoto(u, i)     == Maker(TRUE, "none", <<>>)
MakeGotoCond(u, i) == Maker(IsInt(Type(u, i.src1)), "none", <<i.src1>>)
MakeCall(u, i) ==
  NoFold(/\ i.dest # 0 => IsInt(i.type)
         /\ Type(u, i.src1) = "address"
         /\ (i.src2 # 0 \/ i.src3 = 0)
         /\ \A r \in {i.src2, i.src3} \ {0} : IsInt(Type(u, r)),
         Given(<<i.dest>>) \o <<i.src1>> \o Given(<<i.src2, i.src3>>))
MakeReturn(u, i) ==
  Maker(i.src1 # 0 => IsInt(Type(u, i.src1)), "none", Given(<<i.src1>>))
MakeChain(u, i) ==
  Maker(/\ (i.src1 # 0 \/ i.src2 = 0)
        /\ \A r \in {i.src1, i.src2} \ {0} : IsInt(Type(u, r)), "none", <<i.src1, i.src2>>)
MakeChainResolve(u, i) ==
  Maker(/\ Type(u, i.src1) = "address" /\ i.other \in DOMAIN u.insns
        /\ u.insns[i.other].op = "CHAIN", "none", <<i.src1>>)

WideLoads   == {"LOAD", "LOAD_BR"}
NarrowLoads == {"LOAD_U8", "LOAD_S8", "LOAD_U16", "LOAD_S16", "LOAD_U16_BR", "LOAD_S16_BR"}
Branches    == {"GOTO", "GOTO_IF_Z", "GOTO_IF_NZ"}

(* makefunc_table[]. *)
Make(u, i) ==
  CASE i.op = "NOP"                      -> MakeNop(u, i)
    [] i.op = "SET_ALIAS"                -> MakeSetAlias(u, i)
    [] i.op = "GET_ALIAS"                -> MakeGetAlias(u, i)
    [] i.op = "MOVE"                     -> MakeMove(u, i)
    [] i.op = "SELECT"                   -> MakeSelect(u, i)
    [] i.op \in CastOps                  -> MakeIntcast(u, i)
    [] i.op \in {"NEG", "NOT", "BSWAP"}  -> MakeAlu1op(u, i)
    [] i.op \in (ArithOps \cup DivideOps \cup LogicOps) \ {"NEG", "NOT"} -> MakeAlu2op(u, i)
    [] i.op \in ShiftOps                 -> MakeShift(u, i)
    [] i.op \in AluImmOps                -> MakeAluImm(u, i)
    [] i.op = "CLZ"                      -> MakeClz(u, i)
    [] i.op \in CompareOps               -> MakeCmp(u, i)
    [] i.op \in CmpImmOps                -> MakeCmpImm(u, i)
    [] i.op \in FieldOps                 -> MakeBitfield(u, i)
    [] i.op = "BITCAST"                  -> MakeBitcast(u, i)
    [] i.op = "FCVT"                     -> MakeFcvt(u, i)
    [] i.op \in {"FSCAST", "FZCAST"}     -> MakeFicast(u, i)
    [] i.op \in {"FROUNDI", "FTRUNCI"}   -> MakeFroundi(u, i)
    [] i.op \in SignOps \cup {"FSQRT"}   -> MakeFpu1op(u, i)
    [] i.op \in FloatOps \ {"FSQRT"}     -> MakeFpu2op(u, i)
    [] i.op \in FmaOps                   -> MakeFpu3op(u, i)
    [] i.op = "FCMP"                     -> MakeFcmp(u, i)
    [] i.op = "FGETSTATE"                -> MakeFgetstate(u, i)
    [] i.op = "FSETSTATE"                -> MakeFsetstate(u, i)
    [] i.op = "FTESTEXC"                 -> MakeFtestexc(u, i)
    [] i.op = "FCLEAREXC"                -> MakeFclearexc(u, i)
    [] i.op = "FSETROUND"                -> MakeFsetround(u, i)
    [] i.op = "FCOPYROUND"               -> MakeFcopyround(u, i)
    [] i.op = "VBUILD2"                  -> MakeVbuild2(u, i)
    [] i.op = "VBROADCAST"               -> MakeVbroadcast(u, i)
    [] i.op = "VEXTRACT"                 -> MakeVextract(u, i)
    [] i.op = "VINSERT"                  -> MakeVinsert(u, i)
    [] i.op = "VFCVT"                    -> MakeVfcvt(u, i)
    [] i.op = "VFCMP"                    -> MakeVfcmp(u, i)
    [] i.op = "LOAD_IMM"                 -> MakeLoadImm(u, i)
    [] i.op = "LOAD_ARG"                 -> MakeLoadArg(u, i)
    [] i.op \in WideLoads                -> MakeLoad(u, i)
    [] i.op \in NarrowLoads              -> MakeLoadNarrow(u, i)
    [] i.op \in {"STORE", "STORE_BR"}    -> MakeStore(u, i)
    [] i.op \in {"STORE_I8", "STORE_I16", "STORE_I16_BR"} -> MakeStoreNarrow(u, i)
    [] i.op = "ATOMIC_INC"               -> MakeAtomicInc(u, i)
    [] i.op = "CMPXCHG"                  -> MakeCmpxchg(u, i)
    [] i.op = "LABEL"                    -> MakeLabel(u, i)
    [] i.op = "GOTO"                     -> MakeGoto(u, i)
    [] i.op \in {"GOTO_IF_Z", "GOTO_IF_NZ"} -> MakeGotoCond(u, i)
    [] i.op \in {"CALL", "CALL_TRANSPARENT"} -> MakeCall(u, i)
    [] i.op = "RETURN"                   -> MakeReturn(u, i)
    [] i.op = "CHAIN"                    -> MakeChain(u, i)
    [] i.op = "CHAIN_RESOLVE"            -> MakeChainResolve(u, i)

(* Every operand names a register that has a value, and dest one that has none:
   the asserts the makers share. *)
Accepts(u, i) ==
  LET m == Make(u, i)
  IN  /\ m.ok
      /\ i.dest # 0 => u.regs[i.dest].source = "undefined"
      /\ \A n \in DOMAIN m.marks : m.marks[n] \notin {0, i.dest} => u.regs[m.marks[n]].source # "undefined"

--------------------------------------------------------------------------------
(* rtl_add_insn(): the blocks, the maker's marks, the end of a block. *)

(* rtl_alloc_register(), for dest and any register the caller skips. *)
Alloc(u, i) == [u EXCEPT !.next_reg = IF i.dest >= u.next_reg THEN i.dest + 1 ELSE u.next_reg]

NewBlock(u, n) ==
  [u EXCEPT !.open = TRUE,
            !.blocks = Append(u.blocks, [first |-> n, last |-> n - 1, dropped |-> FALSE,
                                         max_live |-> u.next_reg - 1])]
EndBlock(u, n) == [u EXCEPT !.blocks[Len(u.blocks)].last = n]

MarkLive(u, n, r) ==
  LET b == Len(u.blocks)
  IN  [u EXCEPT !.regs[r].birth = IF u.regs[r].live THEN @ ELSE n,
                !.regs[r].live  = TRUE,
                !.regs[r].death = n,
                !.first_live    = IF u.regs[r].live \/ u.first_live # 0 THEN @ ELSE r,
                !.blocks[b].max_live = IF @ < r THEN r ELSE @]

AddTo(u, i) ==
  LET n == Len(u.insns) + 1
      a == IF u.open THEN Alloc(u, i) ELSE NewBlock(Alloc(u, i), n)
      b == IF i.op = "LABEL" /\ a.blocks[Len(a.blocks)].first # n
           THEN NewBlock(EndBlock(a, n - 1), n) ELSE a
      m == Make(b, i)
      c == IF i.dest = 0 THEN b
           ELSE [b EXCEPT !.regs[i.dest].type = i.type, !.regs[i.dest].source = m.source,
                          !.regs[i.dest].value = IF i.op = "LOAD_IMM" THEN i.other ELSE 0]
      d == FoldLeft(LAMBDA v, r : MarkLive(v, n, r), c, m.marks)
      e == [d EXCEPT !.insns = Append(@, i)]
  IN  CASE i.op = "LABEL"   -> [e EXCEPT !.labels[i.other] = Len(e.blocks)]
        [] i.op \in {"GOTO", "RETURN"} -> [EndBlock(e, n) EXCEPT !.open = FALSE]
        [] i.op \in {"GOTO_IF_Z", "GOTO_IF_NZ"} -> NewBlock(EndBlock(e, n), n + 1)
        [] OTHER            -> e

(* rtl_finalize_unit(): the open block ends with the last instruction. *)
Closed(u) == IF u.open THEN [EndBlock(u, Len(u.insns)) EXCEPT !.open = FALSE] ELSE u
================================================================================
