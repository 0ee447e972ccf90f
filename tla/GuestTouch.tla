------------------------------ MODULE GuestTouch ------------------------------
(* update_used_changed() of guest-ppc-scan.c, which marks before translation the
   guest registers that each instruction touches, and init_unit() of
   guest-ppc-translate.c, which makes an alias for what is marked.  A translator
   that accesses a register whose alias does not exist uses alias 0. *)
EXTENDS GuestFloat

(***************************** Marks ******************************************)

(* mark_gpr_used(), mark_fpr_used() and the like: the operands that the
   instruction names *)
NamedRegs(i) ==
  ({i.d, i.c} \cup (IF Has(i, "ra0") THEN {} ELSE {i.a}) \cup {i.b}) \cap (GPRs \cup FPRs)

(* mark_crb_used(), mark_crf_changed(): init_unit() makes an alias for a bit only
   if the unit changes it, but always one for CR. *)
BitAliases(b) == {"cr"} \cup IF mode.split /\ b # "cru" THEN {FieldOf[b]} ELSE {}
NamedBits(i)  == UNION {BitAliases(b) : b \in {i.d, i.a, i.b} \cap DOMAIN FieldOf}

(* mark_xer_so_used(), mark_fr_fi_fprf_used() *)
SoAliases   == IF mode.split THEN {"xer", "so"} ELSE {"xer"}
FprfAliases == IF mode.split THEN {"fpscr", "fprf"} ELSE {"fpscr"}

(* The Rc bit of an integer instruction *)
RcTouches(i) == IF Has(i, "rc") THEN SoAliases \cup BitAliases("cr0") ELSE {}

(* fpscr_used_changed_unless_no_state(), check_fp_Rc() *)
StateTouches == IF mode.fps THEN FprfAliases ELSE {}
FpRcTouches(i) == IF Has(i, "rc") THEN {"fpscr"} \cup BitAliases("cr1") ELSE {}

(***************************** By opcode **************************************)

(* Immediate operands, loads, stores and shifts; branches and traps *)
BranchTouches(i) ==
  {r \in {"ctr", "lr"} : Has(i, r)} \cup (IF Has(i, "lk") THEN {"lr"} ELSE {})
    \cup (IF Has(i, "cctr") THEN {"ctr"} ELSE {})
ImmediateTouches(i) == (IF Has(i, "ca") THEN {"xer"} ELSE {}) \cup RcTouches(i)
MemoryTouches(i) == IF i.kind = "multiple" THEN GPRs ELSE {}

(* Opcode 31 *)
ArithTouches(i) ==
  (IF i.with \cap {"oe", "ca", "cin", "sra"} # {} THEN {"xer"} ELSE {}) \cup RcTouches(i)
MoveTouches(i) ==
  CASE i.kind = "mtcrf" /\ Has(i, "all") -> {"cr", "crb0", "crb1"}
    [] i.kind = "mfcr"  -> {"cr"} \cup RcTouches(i)
    [] i.kind = "mcrxr" -> {"xer"}
    [] i.kind = "compare" -> SoAliases
    [] i.kind \in {"mfspr", "mtspr"} -> {i.b}
    [] i.kind = "sc" /\ Has(i, "blr") -> {"lr"}
    [] OTHER -> {}
StringTouches(i) == IF Has(i, "imm") THEN {} ELSE GPRs \cup {"xer"}
ReserveTouches(i) == IF i.kind = "stwcx" THEN SoAliases \cup BitAliases("cr0") ELSE {}

(* Floating point: opcodes 4, 59 and 63 *)
FmaTouches(i) == IF ~mode.simd /\ (i.kind = "ps_fma" \/ Has(i, "single")) THEN {"fpscr"} ELSE {}
PsTouches(i) == StateTouches \cup FmaTouches(i) \cup FpRcTouches(i)
FpTouches(i) == StateTouches \cup FmaTouches(i) \cup FpRcTouches(i)
FpscrTouches(i) ==
  (IF i.kind \in {"mffs", "mtfsf"} \/ Has(i, "fprf") THEN FprfAliases ELSE {"fpscr"}) \cup FpRcTouches(i)

ArithKinds  == {"addsub", "divide", "multiply", "logic", "rotate", "shift", "cntlzw"}
FpscrKinds  == {"mcrfs", "mtfsb", "mtfsfi", "mffs", "mtfsf"}
FpMoveKinds == {"fmr", "fsel", "ps_sel", "ps_merge"}
FpMathKinds == {"fcmp", "fctiw", "fp_arith", "frsp", "fp_fma", "fp_recip", "fcfi"}
PsMathKinds == {"ps_arith", "ps_fma", "ps_res", "ps_rsqrte", "ps_sum"}

Touched(i) ==
  NamedRegs(i) \cup NamedBits(i) \cup
  CASE i.kind = "arith_imm"  -> ImmediateTouches(i)
    [] i.kind \in ArithKinds -> ArithTouches(i)
    [] i.kind \in {"branch", "branch_out"} -> BranchTouches(i)
    [] i.kind \in {"lwarx", "stwcx"} -> ReserveTouches(i)
    [] i.kind = "string"     -> StringTouches(i)
    [] i.kind = "multiple"   -> MemoryTouches(i)
    [] i.kind \in FpscrKinds -> FpscrTouches(i)
    [] i.kind \in FpMathKinds -> FpTouches(i)
    [] i.kind \in PsMathKinds -> PsTouches(i)
    [] i.kind \in FpMoveKinds -> FpRcTouches(i)
    [] OTHER -> MoveTouches(i)

(* The FPRs that are taken for paired singles because of the instruction *)
BugSecondsOf(i) ==
  FPRs \cap
  CASE i.kind \in {"ps_arith", "ps_fma", "ps_sel", "ps_sum", "ps_res", "ps_rsqrte", "psq_l", "psq_st"} ->
         {i.d, i.a, i.b, i.c}
    [] i.kind = "fmr" /\ Has(i, "paired") -> {i.d, i.b}
    [] i.kind = "fcmp" /\ Has(i, "ps1")   -> {i.a, i.b}
    [] OTHER -> {}
SecondsOf(i) ==
  FPRs \cap
  CASE i.kind \in {"ps_arith", "ps_fma", "ps_sel", "ps_sum", "ps_res", "ps_rsqrte", "psq_l", "psq_st"} ->
         {i.d, i.a, i.b, i.c}
    [] i.kind = "fmr" /\ Has(i, "paired") -> {i.d, i.b}
    [] i.kind = "fcmp" /\ Has(i, "ps1")   -> {i.a, i.b}
    [] i.kind = "ps_merge" ->
         {i.d} \cup {f \in {i.a} : Has(i, "a1")} \cup {f \in {i.b} : Has(i, "b1")}
    [] OTHER -> {}
=============================================================================
