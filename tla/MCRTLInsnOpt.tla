------------------------------ MODULE MCRTLInsnOpt ------------------------------
(* Small programs for RTLInsnOpt, one family per mode.  The instruction at
   position n sets register n, if it sets one. *)
EXTENDS RTLInsnOpt

N(op, type, dest, src1, src2, src3, other) ==
  [op |-> op, type |-> type, dest |-> dest, src1 |-> src1, src2 |-> src2,
   src3 |-> src3, other |-> other]
Unary(ops, n, to, from, others) == {N(op, to, n, r, 0, 0, o) : op \in ops, r \in from, o \in others}
Binary(ops, n, to, as, bs) == {N(op, to, n, a, b, 0, 0) : op \in ops, a \in as, b \in bs}
Imm(n, t, values) == {N("LOAD_IMM", t, n, 0, 0, 0, v) : v \in values}
ArgOf(n, t, k)    == {N("LOAD_ARG", t, n, 0, 0, 0, k)}
Return(regs)      == {N("RETURN", "none", 0, r, 0, 0, 0) : r \in regs}

MCAliases == <<[type |-> "int32", base |-> 0], [type |-> "int32", base |-> 1]>>
MCRom     == [a \in 0..7 |-> (<<1, 0, 1, 1, 0, 0, 1, 0>>)[a + 1]]
MCModes   == {"unary", "binary32", "binary64", "select", "float", "vector", "stores",
              "flow", "loops", "rom", "romcast", "state"}

Ints32 == {0, 1, 6, 8, 15}
Ints64 == {0, 1, 7, 128, 248, 255}
Floats == {0, 2, 5, 7, 10}      \* 0, 1, 2.5, NaN, -1
IntOps == ((ArithOps \cup DivideOps \cup LogicOps) \ {"NEG", "NOT"}) \cup ShiftOps \cup CompareOps

(* One instruction on a constant or an argument. *)
UnaryPool(u, n) ==
  LET t == u.regs[1].type
      fields == {2, 1 + 16, 1 + 32}
  IN  CASE n = 1 -> Imm(1, "int32", Ints32) \cup Imm(1, "int64", Ints64)
                      \cup ArgOf(1, "int32", 1) \cup ArgOf(1, "int64", 1)
        [] n = 2 -> Unary({"NEG", "NOT", "BSWAP", "MOVE"}, 2, t, {1}, {0})
                      \cup Unary(AluImmOps, 2, t, {1}, {-8, -1, 0, 1, 3, 7})
                      \cup Unary(CastOps \cup {"CLZ"}, 2, "int32", {1}, {0})
                      \cup Unary(CastOps \cup {"CLZ"}, 2, "int64", {1}, {0})
                      \cup Unary(CmpImmOps, 2, "int32", {1}, {-8, -1, 0, 1, 7})
                      \cup Unary({"SLTUI", "SGTSI"}, 2, "int64", {1}, {-8, -1, 1})
                      \cup Unary({"BFEXT"}, 2, t, {1}, fields)
        [] n = 3 -> Return({2})
        [] OTHER -> {}

BinaryPool(u, n, t, values) ==
  CASE n \in 1..2 -> Imm(n, t, values) \cup ArgOf(n, t, n)
    [] n = 3 -> Binary(IntOps, 3, t, {1}, {2})
                  \cup {N("BFINS", t, 3, 1, 2, 0, o) : o \in {2, 1 + 32}}
    [] n = 4 -> Return({3})
    [] OTHER -> {}

SelectPool(u, n) ==
  CASE n \in 1..2 -> Imm(n, "int32", {0, 6}) \cup ArgOf(n, "int32", n)
    [] n = 3 -> Imm(n, "int32", {0, 8}) \cup ArgOf(n, "int32", n) \cup Binary({"ADD"}, 3, "int32", {1}, {2})
    [] n = 4 -> {N("SELECT", "int32", 4, a, b, c, 0) : a, b, c \in 1..3}
    [] n = 5 -> Return({4})
    [] OTHER -> {}

(* An operation of the floating-point unit, its result returned as an integer. *)
FloatPool(u, n) ==
  LET t == u.regs[3].type
  IN  CASE n \in 1..2 -> Imm(n, "float32", Floats)
        [] n = 3 -> Binary(FloatOps \ {"FSQRT"}, 3, "float32", {1}, {2})
                      \cup Unary(SignOps \cup {"FSQRT"}, 3, "float32", {1}, {0})
                      \cup {N(op, "float32", 3, 1, 2, c, 0) : op \in FmaOps, c \in {1, 2}}
                      \cup Unary({"FCVT"}, 3, "float64", {1}, {0})
                      \cup Unary({"FROUNDI", "FTRUNCI"}, 3, "int32", {1}, {0})
                      \cup Unary({"BITCAST"}, 3, "int32", {1}, {0})
                      \cup {N("FCMP", "int32", 3, 1, 2, 0, o) : o \in (0..5) \cup {8, 11, 18}}
        [] n = 4 -> CASE t = "float32" -> Unary({"BITCAST"}, 4, "int32", {3}, {0})
                      [] t = "float64" -> Unary({"BITCAST"}, 4, "int64", {3}, {0})
                      [] OTHER -> Unary({"FSCAST", "FZCAST"}, 4, "float32", {3}, {0})
        [] n = 5 -> IF u.regs[4].type = "float32" THEN Unary({"BITCAST"}, 5, "int64", {4}, {0}) \cup Return({3})
                    ELSE Return({4})
        [] OTHER -> {}

Vectors(u, n) == {r \in 1..(n - 1) : IsVector(Type(u, r)) /\ u.regs[r].source # "undefined"}
VectorPool(u, n) ==
  LET v == "v2float32"
      f == "float32"
      Inserts(m) == {N("VINSERT", v, m, r, e, 0, o) : r \in Vectors(u, m), e \in {1, 2}, o \in 0..1}
  IN  CASE n = 1 -> Imm(1, f, {2})
        [] n = 2 -> Imm(2, f, {5})
        [] n = 3 -> Binary({"VBUILD2"}, 3, v, {1}, {2}) \cup Unary({"VBROADCAST"}, 3, v, {1}, {0})
        [] n = 4 -> Inserts(4) \cup Unary({"VBROADCAST"}, 4, v, {2}, {0})
                      \cup Binary({"FADD"}, 4, v, {3}, {3})
        [] n = 5 -> Inserts(5) \cup Unary({"VEXTRACT"}, 5, f, Vectors(u, 5), 0..1)
                      \cup Binary({"VFCMP"}, 5, "int64", {3}, {4})
                      \cup Unary({"VFCVT"}, 5, "v2float64", {4}, {0})
        [] n = 6 -> {N("VEXTRACT", ElemOf[Type(u, r)], 6, r, 0, 0, o) : r \in Vectors(u, 6), o \in 0..1}
        [] n = 7 -> Unary({"BITCAST"}, 7, IF Type(u, 6) = f THEN "int32" ELSE "int64", {6}, {0})
        [] n = 8 -> Return({7})
        [] OTHER -> {}

(* Values nobody reads, of instructions of every kind, and the values that only
   those read. *)
StoresPool(u, n) ==
  LET t == "int32"
      ints == {r \in 2..(n - 1) : Type(u, r) = t /\ u.regs[r].source # "undefined"}
      floats == {r \in 2..(n - 1) : Type(u, r) = "float32" /\ u.regs[r].source # "undefined"}
      any == Binary({"ADD"}, n, t, ints, {2})
               \cup Unary({"LOAD", "ATOMIC_INC"}, n, t, {1}, {0})
               \cup {N("CMPXCHG", t, n, 1, r, 2, 0) : r \in ints}
               \cup {N("CALL", t, n, 1, r, 0, 0) : r \in ints}
               \cup {N("CALL_TRANSPARENT", "none", 0, 1, r, 0, 0) : r \in ints}
               \cup {N("NOP", t, n, r, 0, 0, 0) : r \in {0} \cup ints}
               \cup {N("GET_ALIAS", t, n, 0, 0, 0, a) : a \in DOMAIN Aliases}
               \cup {N("SET_ALIAS", "none", 0, r, 0, 0, a) : r \in ints, a \in DOMAIN Aliases}
               \cup Unary({"BITCAST"}, n, "float32", ints, {0})
               \cup Binary({"FADD"}, n, "float32", floats, floats)
               \cup {N(op, "none", 0, 1, r, 0, 0) : op \in {"STORE", "STORE_I8"}, r \in ints}
  IN  CASE n = 1 -> ArgOf(1, "address", 0)
        [] n = 2 -> ArgOf(2, t, 1)
        [] n \in 3..4 -> any
        [] n = 5 -> {i \in any : i.op \in {"ADD", "BITCAST", "FADD", "CALL", "SET_ALIAS", "STORE"}}
        [] n = 6 -> Return({0} \cup {Largest(ints)})
        [] OTHER -> {}

BranchTo(labels, regs) ==
  {N("GOTO", "none", 0, 0, 0, 0, l) : l \in labels}
    \cup {N(op, "none", 0, r, 0, 0, l) : op \in {"GOTO_IF_Z", "GOTO_IF_NZ"}, r \in regs, l \in labels}
Label(l) == {N("LABEL", "none", 0, 0, 0, 0, l)}

FlowPool(u, n) ==
  CASE n = 1 -> ArgOf(1, "int32", 1) \cup Imm(1, "int32", {0, 3})
    [] n \in 2..5 -> BranchTo(1..2, {1}) \cup Label(1) \cup Label(2)
                       \cup Unary({"ADDI"}, n, "int32", {1}, {1})
    [] n = 6 -> Return({r \in 1..5 : u.regs[r].source # "undefined"})
    [] OTHER -> {}

(* Loops: nested, overlapping, with several branches back to one label. *)
LoopsPool(u, n) ==
  CASE n = 1 -> ArgOf(1, "int32", 1) \cup ArgOf(2, "int32", 1)
    [] n = 2 -> ArgOf(1, "int32", 2) \cup ArgOf(2, "int32", 2)
    [] n = 3 -> Label(1)
    [] n = 4 -> Label(2) \cup Unary({"ADDI"}, 4, "int32", {1, 2}, {1}) \cup BranchTo({2}, {1})
    [] n = 5 -> Label(2) \cup Unary({"ADDI"}, 5, "int32", {1, 2}, {1}) \cup BranchTo({1, 2}, {2})
    [] n \in 6..7 -> BranchTo({1, 2}, {1, 2}) \cup Unary({"ADDI"}, n, "int32", {1}, {1}) \cup Label(2)
    [] n = 8 -> Return({1, 2})
    [] OTHER -> {}

LoadOps == WideLoads \cup NarrowLoads
Loads(n, addresses) ==
  {N(op, "int32", n, r, 0, 0, o) : op \in LoadOps, r \in addresses, o \in {-2, 0, 1, 4}}
    \cup {N(op, "int64", n, r, 0, 0, o) : op \in WideLoads, r \in addresses, o \in {0, 4}}
RomPool(u, n) ==
  CASE n = 1 -> ArgOf(1, "address", 0)
    [] n = 2 -> Imm(2, "address", {0, 3, 4, 6, 8}) \cup ArgOf(2, "address", 1)
    [] n = 3 -> Binary({"ADD"}, 3, "address", {1}, {2}) \cup Binary({"ADD"}, 3, "address", {2}, {1})
                  \cup Unary({"ADDI"}, 3, "address", {1}, {2, 4})
    [] n = 4 -> Loads(4, {1, 3})
    [] n = 5 -> Return({4})
    [] OTHER -> {}
RomCastPool(u, n) ==
  CASE n = 1 -> ArgOf(1, "address", 0)
    [] n = 2 -> Imm(2, "int32", {0, 4, 12})
    [] n = 3 -> Unary({"ZCAST", "SCAST"}, 3, "address", {2}, {0})
    [] n = 4 -> Binary({"ADD"}, 4, "address", {1}, {3})
    [] n = 5 -> Loads(5, {4})
    [] n = 6 -> Return({5})
    [] OTHER -> {}

(* Floating-point state read, changed and written back around operations that
   raise exceptions. *)
StatePool(u, n) ==
  LET t == "fpstate"
      states == {r \in 2..(n - 1) : Type(u, r) = t /\ u.regs[r].source # "undefined"}
      any == Unary({"FGETSTATE"}, n, t, {0}, {0})
               \cup Unary({"FCLEAREXC"}, n, t, states, {0})
               \cup Unary({"FSETROUND"}, n, t, states, {1})
               \cup Binary({"FCOPYROUND"}, n, t, states, states)
               \cup Binary({"FADD"}, n, "float32", {1}, {1})
               \cup {N("FCMP", "int32", n, 1, 1, 0, 2)}
               \cup {N("FSETSTATE", "none", 0, r, 0, 0, 0) : r \in states}
  IN  CASE n = 1 -> Imm(1, "float32", {2})
        [] n = 2 -> Unary({"FGETSTATE"}, 2, t, {0}, {0})
        [] n \in 3..4 -> any
        [] n = 5 -> {i \in any : i.op \in {"FGETSTATE", "FADD", "FCOPYROUND"}}
        [] n = 6 -> Unary({"FTESTEXC"}, 6, "int32", states, {0}) \cup {N("FSETSTATE", "none", 0, r, 0, 0, 0) : r \in states}
        [] n = 7 -> Return({0} \cup {r \in {6} : u.regs[r].source # "undefined"})
        [] OTHER -> {}

MCPool(m, u) ==
  LET n == Len(u.insns) + 1
  IN  CASE m = "unary"    -> UnaryPool(u, n)
        [] m = "binary32" -> BinaryPool(u, n, "int32", Ints32)
        [] m = "binary64" -> BinaryPool(u, n, "int64", Ints64)
        [] m = "select"   -> SelectPool(u, n)
        [] m = "float"    -> FloatPool(u, n)
        [] m = "vector"   -> VectorPool(u, n)
        [] m = "stores"   -> StoresPool(u, n)
        [] m = "flow"     -> FlowPool(u, n)
        [] m = "loops"    -> LoopsPool(u, n)
        [] m = "rom"      -> RomPool(u, n)
        [] m = "romcast"  -> RomCastPool(u, n)
        [] m = "state"    -> StatePool(u, n)

NoFlags == [fold |-> FALSE, fold_fp |-> FALSE, vectors |-> FALSE, decond |-> FALSE,
            dse |-> FALSE, dse_fp |-> FALSE, basic |-> FALSE]
AllFlags == [f \in DOMAIN NoFlags |-> TRUE]
MCFlagSets(m) ==
  CASE m \in {"unary", "binary32", "binary64", "select", "rom", "romcast"} ->
         {[NoFlags EXCEPT !.fold = TRUE, !.dse = d] : d \in BOOLEAN}
    [] m = "float"   -> {[NoFlags EXCEPT !.fold = TRUE, !.fold_fp = d] : d \in BOOLEAN}
    [] m = "vector"  -> {[NoFlags EXCEPT !.vectors = TRUE, !.fold = d, !.dse = d, !.dse_fp = d] : d \in BOOLEAN}
    [] m \in {"stores", "state"} -> {[NoFlags EXCEPT !.dse = TRUE, !.dse_fp = d] : d \in BOOLEAN}
    [] m = "flow"    -> {AllFlags, [AllFlags EXCEPT !.dse = FALSE]}
    [] m = "loops"   -> {[AllFlags EXCEPT !.dse = FALSE]}
================================================================================
