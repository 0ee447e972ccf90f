------------------------------- MODULE RTLValues -------------------------------
(* What the operations of the RTL compute, twice: Fold.. is the arithmetic that
   fold_constant() (rtl-opt.c) does in C on 64-bit values, and Meaning is what
   rtl.h says each operation means.

   A byte is one bit here: INT32 and FLOAT32 have 4 bits, INT64, ADDRESS and
   FLOAT64 have 8, and a vector holds its elements one above the other.  A
   floating-point value is a sign and a count of halves, the largest count being
   NaN; the operations of the host's floating-point unit round to nearest. *)
EXTENDS Integers, FiniteSets, Bitwise

Undefined == -1   \* the operation has no defined result

IntTypes   == {"int32", "int64", "address"}
FloatTypes == {"float32", "float64"}
VecTypes   == {"v2float32", "v2float64"}
ElemOf     == [v2float32 |-> "float32", v2float64 |-> "float64"]
Width      == [int32 |-> 4, int64 |-> 8, address |-> 8, float32 |-> 4,
               float64 |-> 8, v2float32 |-> 8, v2float64 |-> 16, fpstate |-> 8]
Word == Width["int32"]
Long == Width["int64"]

U(w, x) == x % 2^w
S(w, x) == IF U(w, x) >= 2^(w - 1) THEN U(w, x) - 2^w ELSE U(w, x)
Bit(x, n) == (x \div 2^n) % 2
Bool(p) == IF p THEN 1 ELSE 0
Abs(x) == IF x < 0 THEN -x ELSE x
Quotient(a, b) == IF (a < 0) = (b < 0) THEN Abs(a) \div Abs(b)
                                       ELSE -(Abs(a) \div Abs(b))
OfBits(n, B(_)) == LET sum[i \in 0..n] == IF i = 0 THEN 0
                                          ELSE sum[i - 1] + B(i - 1) * 2^(i - 1)
                   IN  sum[n]

--------------------------------------------------------------------------------
(* Floating point: the host's unit. *)

NaNOf(t) == 2^(Width[t] - 1) - 1
Negative(t, x) == Bit(x, Width[t] - 1)
Halves(t, x) == U(Width[t] - 1, x)
IsNaN(t, x) == Halves(t, x) = NaNOf(t)
Real(t, x) == IF Negative(t, x) = 1 THEN -Halves(t, x) ELSE Halves(t, x)
SignBit(t) == 2^(Width[t] - 1)
Negated(t, x) == IF Negative(t, x) = 1 THEN x - SignBit(t) ELSE x + SignBit(t)

(* a/b to the nearest whole number, a tie to the even one. *)
Nearest(a, b) == LET q == Abs(a) \div b
                     r == 2 * (Abs(a) % b)
                     n == IF r > b \/ (r = b /\ q % 2 = 1) THEN q + 1 ELSE q
                 IN  IF a < 0 THEN -n ELSE n
(* The value of that many halves; zero takes the sign given for it. *)
ToFloat(t, h, zero) == IF Abs(h) >= NaNOf(t) THEN NaNOf(t)
                       ELSE IF h < 0 \/ (h = 0 /\ zero = 1) THEN Abs(h) + SignBit(t)
                       ELSE h

HostAdd(t, a, b) ==
  IF IsNaN(t, a) \/ IsNaN(t, b) THEN NaNOf(t)
  ELSE ToFloat(t, Real(t, a) + Real(t, b), Negative(t, a) * Negative(t, b))
SignOfProduct(t, a, b) == (Negative(t, a) + Negative(t, b)) % 2
HostMul(t, a, b) ==
  IF IsNaN(t, a) \/ IsNaN(t, b) THEN NaNOf(t)
  ELSE ToFloat(t, Nearest(Real(t, a) * Real(t, b), 2), SignOfProduct(t, a, b))
HostDiv(t, a, b) ==
  IF IsNaN(t, a) \/ IsNaN(t, b) \/ Halves(t, b) = 0 THEN NaNOf(t)
  ELSE LET q == Nearest(2 * Halves(t, a), Halves(t, b))
           s == SignOfProduct(t, a, b)
       IN  ToFloat(t, IF s = 1 THEN -q ELSE q, s)
HostSqrt(t, a) ==
  IF IsNaN(t, a) \/ Real(t, a) < 0 THEN NaNOf(t)
  ELSE ToFloat(t, CHOOSE s \in 0..NaNOf(t) : /\ s = 0 \/ (2*s - 1) * (2*s - 1) <= 8 * Halves(t, a)
                                             /\ 8 * Halves(t, a) < (2*s + 1) * (2*s + 1),
               Negative(t, a))
HostFma(t, a, b, c) ==
  IF IsNaN(t, a) \/ IsNaN(t, b) \/ IsNaN(t, c) THEN NaNOf(t)
  ELSE ToFloat(t, Nearest(Real(t, a) * Real(t, b) + 2 * Real(t, c), 2),
               SignOfProduct(t, a, b) * Negative(t, c))
HostCvt(t, to, a) == IF IsNaN(t, a) THEN NaNOf(to)
                     ELSE ToFloat(to, Real(t, a), Negative(t, a))

--------------------------------------------------------------------------------
(* fold_constant(): w is the width of src1, a and b the operands' value.i64. *)

Ror(w, x, count) == LET n == count % w
                    IN  (x \div 2^n) + (x % 2^n) * 2^(w - n) * Bool(n # 0)
Clz(w, x) == w - Cardinality({n \in 0..(w - 1) : x >= 2^n})
Swapped(w, x) == OfBits(w, LAMBDA n : Bit(x, w - 1 - n))

(* The high half of a product, put together from the products of the halves: the
   products of unlike halves are added to what low carries over in 64 bits, and a
   carry out of that sum is lost. *)
MiddleSum(x, y) == (x \div 2^Word) * U(Word, y) + U(Word, x) * (y \div 2^Word)
                     + ((U(Word, x) * U(Word, y)) \div 2^Word)
Mulh64(a, b, isSigned) ==
  LET aNeg == isSigned /\ Bit(a, Long - 1) = 1
      bNeg == isSigned /\ Bit(b, Long - 1) = 1
      x    == IF aNeg THEN U(Long, -a) ELSE a
      y    == IF bNeg THEN U(Long, -b) ELSE b
      high == (x \div 2^Word) * (y \div 2^Word)
      top  == high + (U(Long, MiddleSum(x, y)) \div 2^Word)
  IN  IF aNeg = bNeg THEN U(Long, top)
      ELSE U(Long, -top - Bool(U(Long, a * b) # 0))

FoldCast(op, w, a) ==
  CASE op = "SCAST"  -> U(Long, S(w, a))
    [] op = "ZCAST"  -> U(w, a)
    [] op = "SEXT8"  -> U(Long, S(1, a))
    [] op = "SEXT16" -> U(Long, S(2, a))

FoldArith(op, w, a, b) ==
  CASE op = "ADD"   -> U(w, a + b)
    [] op = "SUB"   -> U(w, a - b)
    [] op = "NEG"   -> U(w, -a)
    [] op = "MUL"   -> U(w, a * b)
    [] op = "MULHU" -> IF w = Word THEN (a * b) \div 2^Word ELSE Mulh64(a, b, FALSE)
    [] op = "MULHS" -> IF w = Word THEN U(Long, (S(w, a) * S(w, b)) \div 2^Word)
                                   ELSE Mulh64(a, b, TRUE)

FoldDivide(op, w, a, b) ==
  LET q        == Quotient(S(w, a), S(w, b))
      overflow == a = 2^(w - 1) /\ S(w, b) = -1
  IN  IF b = 0 THEN 0
      ELSE CASE op = "DIVU" -> a \div b
             [] op = "MODU" -> a % b
             [] op = "DIVS" -> IF overflow THEN a ELSE U(Long, q)
             [] op = "MODS" -> IF overflow THEN 0 ELSE U(Long, S(w, a) - S(w, b) * q)

FoldLogic(op, w, a, b) ==
  CASE op = "AND" -> a & b
    [] op = "OR"  -> a | b
    [] op = "XOR" -> a ^^ b
    [] op = "NOT" -> U(w, -a - 1)

(* A shift by the width or more is undefined in C. *)
FoldShift(op, w, a, b) ==
  IF op \in {"SLL", "SRL", "SRA"} /\ b \notin 0..(w - 1) THEN 0
  ELSE CASE op = "SLL" -> U(w, a * 2^b)
         [] op = "SRL" -> a \div 2^b
         [] op = "SRA" -> U(Long, S(w, a) \div 2^b)
         [] op = "ROL" -> Ror(w, a, -b)
         [] op = "ROR" -> Ror(w, a, b)

FoldCount(op, w, a) == IF op = "CLZ" THEN Clz(w, a) ELSE Swapped(w, a)

BugFoldCompare(op, w, a, b) ==
  CASE op = "SEQ"  -> Bool(a = b)
    [] op = "SLTU" -> Bool(a < b)
    [] op = "SGTU" -> Bool(a > b)
    [] op = "SLTS" -> Bool(S(Long, a) < S(Long, b))
    [] op = "SGTS" -> Bool(S(Long, a) > S(Long, b))
FoldCompare(op, w, a, b) ==
  CASE op = "SEQ"  -> Bool(a = b)
    [] op = "SLTU" -> Bool(a < b)
    [] op = "SGTU" -> Bool(a > b)
    [] op = "SLTS" -> Bool(S(w, a) < S(w, b))
    [] op = "SGTS" -> Bool(S(w, a) > S(w, b))

FoldField(op, w, a, b, start, count) ==
  LET mask == U(w, (2^count - 1) * 2^start)
  IN  IF op = "BFEXT" THEN (a \div 2^start) & (2^count - 1)
      ELSE (a & U(w, -mask - 1)) | (U(Long, b * 2^start) & mask)

(* The 32-bit immediate is sign-extended for the wider types. *)
FoldImm(op, w, a, imm) ==
  CASE op = "ADDI"  -> FoldArith("ADD", w, a, imm)
    [] op = "MULI"  -> FoldArith("MUL", w, a, imm)
    [] op = "ANDI"  -> a & U(w, imm)
    [] op = "ORI"   -> a | U(w, imm)
    [] op = "XORI"  -> a ^^ U(w, imm)
    [] op = "SLLI"  -> FoldShift("SLL", w, a, imm)
    [] op = "SRLI"  -> FoldShift("SRL", w, a, imm)
    [] op = "SRAI"  -> FoldShift("SRA", w, a, imm)
    [] op = "RORI"  -> Ror(w, a, imm)
    [] op = "SEQI"  -> FoldCompare("SEQ", w, a, U(w, imm))
    [] op = "SLTUI" -> FoldCompare("SLTU", w, a, U(w, imm))
    [] op = "SLTSI" -> FoldCompare("SLTS", w, a, imm)
    [] op = "SGTUI" -> FoldCompare("SGTU", w, a, U(w, imm))
    [] op = "SGTSI" -> FoldCompare("SGTS", w, a, imm)

(* The least integer: what the x86's conversions to integer give for NaN and for
   a value out of the integer's range. *)
Minimum(to) == 2^(Width[to] - 1)
ToInteger(t, to, a, n) ==
  IF IsNaN(t, a) \/ n \notin -Minimum(to)..(Minimum(to) - 1) THEN Minimum(to) ELSE U(Width[to], n)

(* A value out of the integer's range is undefined in C, in which FROUNDI and
   FTRUNCI are casts; the cast is that one instruction of the x86. *)
FoldConvert(op, t, to, a) ==
  CASE op = "BITCAST" -> a
    [] op = "FCVT"    -> HostCvt(t, to, a)
    [] op = "FSCAST"  -> ToFloat(to, 2 * S(Width[t], a), 0)
    [] op = "FZCAST"  -> ToFloat(to, 2 * a, 0)
    [] op = "FROUNDI" -> ToInteger(t, to, a, Nearest(Real(t, a), 2))
    [] op = "FTRUNCI" -> ToInteger(t, to, a, Quotient(Real(t, a), 2))

FoldSign(op, t, a) ==
  CASE op = "FNEG"  -> a ^^ SignBit(t)
    [] op = "FABS"  -> Halves(t, a)
    [] op = "FNABS" -> a | SignBit(t)

FoldFloat(op, t, a, b) ==
  CASE op = "FADD"  -> HostAdd(t, a, b)
    [] op = "FSUB"  -> HostAdd(t, a, Negated(t, b))
    [] op = "FMUL"  -> HostMul(t, a, b)
    [] op = "FDIV"  -> HostDiv(t, a, b)
    [] op = "FSQRT" -> HostSqrt(t, a)

(* The comparisons in the order of RTLFloatCompare; bit 3 inverts them. *)
FoldFcmp(t, a, b, fcmp) ==
  LET both   == ~IsNaN(t, a) /\ ~IsNaN(t, b)
      x      == Real("float64", HostCvt(t, "float64", a))
      y      == Real("float64", HostCvt(t, "float64", b))
      passes == CASE fcmp % 8 = 0 -> both /\ x < y
                  [] fcmp % 8 = 1 -> both /\ x <= y
                  [] fcmp % 8 = 2 -> both /\ x > y
                  [] fcmp % 8 = 3 -> both /\ x >= y
                  [] fcmp % 8 = 4 -> both /\ x = y
                  [] fcmp % 8 = 5 -> ~both
  IN  Bool(passes # (Bit(fcmp, 3) = 1))

FoldFma(op, t, a, b, c) ==
  CASE op = "FMADD"  -> HostFma(t, a, b, c)
    [] op = "FMSUB"  -> HostFma(t, a, b, Negated(t, c))
    [] op = "FNMADD" -> Negated(t, HostFma(t, a, b, c))
    [] op = "FNMSUB" -> Negated(t, HostFma(t, a, b, Negated(t, c)))

CastOps    == {"SCAST", "ZCAST", "SEXT8", "SEXT16"}
ArithOps   == {"ADD", "SUB", "NEG", "MUL", "MULHU", "MULHS"}
DivideOps  == {"DIVU", "DIVS", "MODU", "MODS"}
LogicOps   == {"AND", "OR", "XOR", "NOT"}
ShiftOps   == {"SLL", "SRL", "SRA", "ROL", "ROR"}
CountOps   == {"CLZ", "BSWAP"}
CompareOps == {"SEQ", "SLTU", "SLTS", "SGTU", "SGTS"}
FieldOps   == {"BFEXT", "BFINS"}
AluImmOps  == {"ADDI", "MULI", "ANDI", "ORI", "XORI", "SLLI", "SRLI", "SRAI", "RORI"}
CmpImmOps  == {"SEQI", "SLTUI", "SLTSI", "SGTUI", "SGTSI"}
ConvertOps == {"FCVT", "FSCAST", "FZCAST", "FROUNDI", "FTRUNCI"}
SignOps    == {"FNEG", "FABS", "FNABS"}
FloatOps   == {"FADD", "FSUB", "FMUL", "FDIV", "FSQRT"}
FmaOps     == {"FMADD", "FMSUB", "FNMADD", "FNMSUB"}

(* t is the type of src1 and to the type of dest. *)
FoldConstant(op, t, to, a, b, c, other) ==
  LET w == Width[t]
  IN  CASE op = "MOVE"         -> a
        [] op \in CastOps      -> FoldCast(op, w, a)
        [] op \in ArithOps     -> FoldArith(op, w, a, b)
        [] op \in DivideOps    -> FoldDivide(op, w, a, b)
        [] op \in LogicOps     -> FoldLogic(op, w, a, b)
        [] op \in ShiftOps     -> FoldShift(op, w, a, b)
        [] op \in CountOps     -> FoldCount(op, w, a)
        [] op \in CompareOps   -> FoldCompare(op, w, a, b)
        [] op \in FieldOps     -> FoldField(op, w, a, b, other % 16, other \div 16)
        [] op \in AluImmOps \cup CmpImmOps -> FoldImm(op, w, a, other)
        [] op \in ConvertOps \cup {"BITCAST"} -> FoldConvert(op, t, to, a)
        [] op \in SignOps      -> FoldSign(op, t, a)
        [] op \in FloatOps     -> FoldFloat(op, t, a, b)
        [] op = "FCMP"         -> FoldFcmp(t, a, b, other)
        [] op \in FmaOps       -> FoldFma(op, t, a, b, c)

--------------------------------------------------------------------------------
(* rtl.h: what the operations mean, on the numbers the operands stand for. *)

IntMeaning(op, w, to, a, b) ==
  LET wide  == Width[to]
      x     == S(w, a)
      y     == S(w, b)
      Each(F(_, _)) == OfBits(w, LAMBDA n : Bool(F(Bit(a, n) = 1, Bit(b, n) = 1)))
      count == b % w
      none  == \/ op \in DivideOps /\ b = 0
               \/ op \in {"SLL", "SRL", "SRA"} /\ b \notin 0..(w - 1)
  IN  IF none THEN Undefined ELSE
      CASE op = "SCAST"  -> U(wide, x)
        [] op = "ZCAST"  -> U(wide, a)
        [] op = "SEXT8"  -> U(wide, -Bit(a, 0))
        [] op = "SEXT16" -> U(wide, Bit(a, 0) - 2 * Bit(a, 1))
        [] op = "ADD"    -> U(w, x + y)
        [] op = "SUB"    -> U(w, x - y)
        [] op = "NEG"    -> U(w, -x)
        [] op = "MUL"    -> U(w, x * y)
        [] op = "MULHU"  -> (a * b) \div 2^w
        [] op = "MULHS"  -> U(w, (x * y) \div 2^w)
        [] op = "DIVU"   -> a \div b
        [] op = "MODU"   -> a % b
        [] op = "DIVS"   -> U(w, Quotient(x, y))
        [] op = "MODS"   -> U(w, x - y * Quotient(x, y))
        [] op = "AND"    -> Each(LAMBDA p, q : p /\ q)
        [] op = "OR"     -> Each(LAMBDA p, q : p \/ q)
        [] op = "XOR"    -> Each(LAMBDA p, q : p # q)
        [] op = "NOT"    -> Each(LAMBDA p, q : ~p)
        [] op = "SLL"    -> U(w, a * 2^b)
        [] op = "SRL"    -> a \div 2^b
        [] op = "SRA"    -> U(w, x \div 2^b)
        [] op = "ROL"    -> OfBits(w, LAMBDA n : Bit(a, (n - count) % w))
        [] op = "ROR"    -> OfBits(w, LAMBDA n : Bit(a, (n + count) % w))
        [] op = "CLZ"    -> Cardinality({n \in 0..(w - 1) : a < 2^n})
        [] op = "BSWAP"  -> OfBits(w, LAMBDA n : Bit(a, w - 1 - n))
        [] op = "SEQ"    -> Bool(a = b)
        [] op = "SLTU"   -> Bool(a < b)
        [] op = "SLTS"   -> Bool(x < y)
        [] op = "SGTU"   -> Bool(a > b)
        [] op = "SGTS"   -> Bool(x > y)

RegRegOf == [ADDI |-> "ADD", MULI |-> "MUL", ANDI |-> "AND", ORI |-> "OR",
             XORI |-> "XOR", SLLI |-> "SLL", SRLI |-> "SRL", SRAI |-> "SRA",
             RORI |-> "ROR", SEQI |-> "SEQ", SLTUI |-> "SLTU", SLTSI |-> "SLTS",
             SGTUI |-> "SGTU", SGTSI |-> "SGTS"]
ImmMeaning(op, w, to, a, imm) ==
  IF op \in {"SLLI", "SRLI", "SRAI", "RORI"} THEN IntMeaning(RegRegOf[op], w, to, a, imm)
                                             ELSE IntMeaning(RegRegOf[op], w, to, a, U(w, imm))

(* A field of the whole width would need 1 << width: undefined. *)
FieldMeaning(op, w, a, b, start, count) ==
  LET in(n) == n \in start..(start + count - 1)
  IN  IF start + count > w \/ count = w THEN Undefined
      ELSE IF op = "BFEXT" THEN OfBits(count, LAMBDA n : Bit(a, n + start))
      ELSE OfBits(w, LAMBDA n : IF in(n) THEN Bit(b, n - start) ELSE Bit(a, n))

(* NaN and a value below the range become the least integer; for a value above it
   the x86 gives the least integer too, as rtl.h allows. *)
ToIntMeaning(op, t, to, a) ==
  LET whole == Abs(Real(t, a)) \div 2
      half  == Abs(Real(t, a)) % 2 = 1
      n     == IF op = "FROUNDI" /\ half /\ whole % 2 = 1 THEN whole + 1 ELSE whole
      least == -2^(Width[to] - 1)
      exact == IF Real(t, a) < 0 THEN -n ELSE n
  IN  U(Width[to], IF IsNaN(t, a) \/ exact < least \/ exact >= -least THEN least ELSE exact)

FcmpMeaning(t, a, b, fcmp) ==
  LET holds == CASE IsNaN(t, a) \/ IsNaN(t, b) -> fcmp % 8 = 5
                 [] Real(t, a) < Real(t, b) -> fcmp % 8 \in {0, 1}
                 [] Real(t, a) > Real(t, b) -> fcmp % 8 \in {2, 3}
                 [] OTHER                   -> fcmp % 8 \in {1, 3, 4}
  IN  Bool(IF Bit(fcmp, 3) = 0 THEN holds ELSE ~holds)

FmaMeaning(op, t, a, b, c) ==
  HostFma(t, IF op \in {"FNMADD", "FNMSUB"} THEN Negated(t, a) ELSE a, b,
             IF op \in {"FMSUB", "FNMSUB"} THEN Negated(t, c) ELSE c)

(* The meaning on scalars; floating-point operations take vectors one element at
   a time. *)
ScalarMeaning(op, t, to, a, b, c, other) ==
  LET w == Width[t]
  IN  CASE op \in {"MOVE", "BITCAST"} -> a
        [] op \in AluImmOps \cup CmpImmOps -> ImmMeaning(op, w, to, a, other)
        [] op \in FieldOps -> FieldMeaning(op, w, a, b, other % 16, other \div 16)
        [] op \in {"FCVT", "VFCVT"} -> HostCvt(t, to, a)
        [] op = "FSCAST"   -> ToFloat(to, 2 * S(w, a), 0)
        [] op = "FZCAST"   -> ToFloat(to, 2 * a, 0)
        [] op \in {"FROUNDI", "FTRUNCI"} -> ToIntMeaning(op, t, to, a)
        [] op = "FNEG"     -> Negated(t, a)
        [] op = "FABS"     -> IF Negative(t, a) = 1 THEN Negated(t, a) ELSE a
        [] op = "FNABS"    -> IF Negative(t, a) = 1 THEN a ELSE Negated(t, a)
        [] op \in FloatOps -> FoldFloat(op, t, a, b)
        [] op = "FCMP"     -> FcmpMeaning(t, a, b, other)
        [] op \in FmaOps   -> FmaMeaning(op, t, a, b, c)
        [] OTHER           -> IntMeaning(op, w, to, a, b)

Elem(t, v, n) == U(Width[t], v \div 2^(n * Width[t]))
Vector(t, x, y) == x + y * 2^Width[t]

Meaning(op, t, to, a, b, c, other) ==
  CASE op = "SELECT"     -> IF c # 0 THEN a ELSE b
    [] op = "VBUILD2"    -> Vector(t, a, b)
    [] op = "VBROADCAST" -> Vector(t, a, a)
    [] op = "VEXTRACT"   -> Elem(to, a, other)
    [] op = "VINSERT"    -> IF other = 0 THEN Vector(ElemOf[to], b, Elem(ElemOf[to], a, 1))
                                         ELSE Vector(ElemOf[to], Elem(ElemOf[to], a, 0), b)
    [] op = "VFCMP"      -> LET e == ElemOf[t]
                                Ones(n) == (2^Word - 1) * FcmpMeaning(e, Elem(e, a, n), Elem(e, b, n), other)
                            IN  Ones(0) + 2^Word * Ones(1)
    [] t \in VecTypes /\ op \in SignOps \cup FloatOps \cup FmaOps \cup {"VFCVT"} ->
         LET e == ElemOf[t]
             At(n) == ScalarMeaning(op, e, ElemOf[to], Elem(e, a, n), Elem(e, b, n),
                                    Elem(e, c, n), other)
         IN  Vector(ElemOf[to], At(0), At(1))
    [] OTHER -> ScalarMeaning(op, t, to, a, b, c, other)
================================================================================
