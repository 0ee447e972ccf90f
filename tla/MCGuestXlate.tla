------------------------------ MODULE MCGuestXlate ------------------------------
(* GuestXlate for TLC: two general and two floating-point registers, the CR fields
   cr0, cr1 and cru (a field the unit only reads), and for every translator the
   operand combinations that its code tells apart: destination and operands the
   same or different, register or immediate, with and without Rc, OE, LK and so
   on.  The kinds are split into four programs, since general and floating-point
   registers meet only in the loads and stores and in the exits, which are in
   both. *)
EXTENDS GuestXlate

I(k, d, a, b, w) == Insn(k, d, a, b, w)
IntInsns ==
  {I("arith_imm", "r1", "r1", "", {}), I("arith_imm", "r1", "r2", "", {"ca", "rc"}), I("arith_imm", "r1", "r2", "", {"li"}),
   I("addsub", "r1", "r1", "r2", {"b", "oe", "rc"}), I("addsub", "r1", "r2", "r1", {"b", "cin", "ca", "oe"}),
   I("divide", "r1", "r1", "r2", {"oe", "rc"}), I("divide", "r1", "r2", "r1", {}), I("multiply", "r1", "r2", "r1", {"oe", "rc"}),
   I("compare", "cr0", "r1", "r2", {"b"}), I("compare", "cr1", "r2", "", {}),
   I("logic", "r1", "r1", "r2", {"rc"}), I("rotate", "r2", "r1", "r2", {"insert", "b"}), I("shift", "r2", "r1", "", {"sra"}),
   I("cntlzw", "r1", "r2", "r1", {"rc"}),
   I("load", "r1", "r2", "", {"w", "u"}), I("load", "r1", "r1", "r2", {"w", "x"}), I("load", "r1", "r2", "", {}),
   I("store", "r1", "r1", "", {"w", "u"}), I("store", "r1", "r2", "r1", {"x"}), I("store", "r1", "r2", "", {"w"}),
   I("multiple", "r1", "", "", {"ra0"}), I("multiple", "r1", "r2", "", {"store"}),
   I("string", "r1", "r2", "r1", {}), I("string", "r1", "r2", "", {"imm"}), I("string", "r1", "r2", "", {"imm", "store"}),
   I("lwarx", "r1", "r2", "r1", {"x"}), I("stwcx", "r1", "r2", "r1", {"x"}), I("dcbz", "", "r1", "r2", {"x"})}

(* Condition register, special registers, branches, traps and calls. *)
SysInsns ==
  {I("arith_imm", "r1", "r2", "", {"ca", "rc"}), 
   I("compare", "cr1", "r2", "", {}), I("logic_crb", "cr0", "cr1", "cru", {}), I("logic_crb", "cr1", "", "", {"const"}),
   I("mcrf", "cr1", "cr0", "", {}), I("mcrf", "cr0", "cru", "", {}), I("mcrxr", "cr0", "", "", {}),
   I("mtcrf", "", "r1", "", {"all"}), I("mtcrf", "cr0", "r1", "", {}), I("mfcr", "r1", "", "", {}),
   I("mfcr", "r1", "r1", "cru", {"bit"}), I("mfcr", "r1", "r2", "cr1", {"bit", "rc"}),
   I("mfspr", "r1", "", "xer", {}), I("mfspr", "r1", "", "lr", {}), I("mtspr", "r1", "", "xer", {}), I("mtspr", "r1", "", "ctr", {}),
   I("mtspr", "r1", "", "lr", {}), I("mftb", "r1", "", "", {}),
   I("branch", "", "", "", {}), I("branch", "", "", "cr0", {"cr"}), I("branch", "", "", "cr1", {"cr", "ctr"}), I("branch", "", "", "", {"ctr"}),
   I("branch_out", "", "", "", {"lk"}), I("branch_out", "", "", "cru", {"cr", "ctr", "lk"}), I("branch_out", "", "", "cr0", {"cr", "lr", "lk"}),
   I("branch_out", "", "", "", {"cctr"}),
   I("trap", "", "r1", "r2", {"b", "cond"}), I("trap", "", "r1", "", {}), I("sc", "", "", "", {}), I("sc", "", "", "", {"blr"}),
   I("icbi", "", "", "", {}), I("none", "", "", "", {}), I("mtgqr", "", "r1", "", {})}

(* Options of the handle, and what the scan or the generated code found: split
   CR fields, callbacks, chaining, store forwarding and the optimizations of
   binrec.h that change a translator. *)
Mode == [code |-> "float", split |-> TRUE, callbacks |-> FALSE, chain |-> TRUE, forward |-> FALSE, pairs |-> TRUE,
         exit_test |-> FALSE, fps |-> TRUE, vx |-> TRUE, nan |-> FALSE, recip |-> FALSE,
         simd |-> FALSE, stfs |-> FALSE, sp_inputs |-> FALSE, gqr |-> "unknown", paired |-> {}]
IntModes ==
  {[Mode EXCEPT !.code = c, !.forward = TRUE] : c \in {"integer", "system"}} \cup
  {[Mode EXCEPT !.code = c, !.split = FALSE, !.callbacks = TRUE, !.chain = FALSE, !.pairs = FALSE, !.exit_test = TRUE]
     : c \in {"integer", "system"}}
FpModes ==
  {[Mode EXCEPT !.forward = TRUE],
   [Mode EXCEPT !.split = FALSE, !.vx = FALSE, !.nan = TRUE, !.recip = TRUE, !.simd = TRUE],
   [Mode EXCEPT !.fps = FALSE, !.callbacks = TRUE, !.forward = TRUE, !.stfs = TRUE, !.sp_inputs = TRUE]}
PsModes == {[m EXCEPT !.code = "paired", !.paired = p, !.gqr = q] : m \in FpModes, p \in {{"f1"}, {"f1", "f2"}}, q \in {"float", "int", "unknown"}}
MCModes == IntModes \cup FpModes \cup PsModes

(* Floating point: opcodes 59 and 63, loads, stores and the FPSCR. *)
FpInsns ==
  {I("fcmp", "cr0", "f1", "f2", {"ordered"}), I("fctiw", "f1", "", "f1", {"rc"}), I("fctiw", "f2", "", "f1", {}),
   I("fp_arith", "f1", "f1", "f2", {"single", "rc"}), I("fp_arith", "f2", "f1", "f2", {"div"}), I("fp_arith", "f1", "f2", "f1", {"single", "div"}),
   I("frsp", "f1", "", "f1", {}), I("frsp", "f2", "", "f1", {"cast"}),
   Insn4("fp_fma", "f1", "f1", "f2", "f1", {"single"}), Insn4("fp_fma", "f2", "f1", "f2", "f1", {"rc"}),
   I("fp_recip", "f1", "", "f1", {}), I("fp_recip", "f2", "", "f1", {"rsqrte", "rc"}),
   Insn4("fsel", "f1", "f1", "f2", "f1", {}), I("fmr", "f1", "", "f2", {}), I("fmr", "f2", "", "f1", {"rc"}),
   I("fcfi", "f1", "", "", {}), I("stfiwx", "f1", "r1", "r2", {"x"}),
   I("lf", "f1", "r1", "", {"single"}), I("lf", "f1", "r1", "", {"u"}), I("stf", "f1", "r1", "r2", {"x", "single"}), I("stf", "f1", "r1", "", {"u"}),
   I("mcrfs", "cr0", "", "", {"ctl", "fprf"}), I("mcrfs", "cr0", "", "", {"ctl"}), I("mcrfs", "cr0", "", "", {"fprf"}),
   I("mtfsb", "", "", "", {"ctl", "rn"}), I("mtfsb", "", "", "", {"fprf", "rc"}), I("mtfsfi", "", "", "", {"ctl", "fprf"}),
   I("mffs", "f1", "", "", {"rc"}), I("mtfsf", "", "", "f1", {"ctl", "fprf", "all", "rn"}), I("mtfsf", "", "", "f2", {"fprf"}),
   I("trap", "", "r1", "", {}), I("branch_out", "", "", "", {"ctr"})}

(* Paired singles, among scalar instructions on the same registers. *)
PsInsns ==
  {I("psq_l", "f1", "r1", "", {"both"}), I("psq_l", "f1", "r1", "r2", {"x", "u"}), I("psq_st", "f1", "r1", "", {"both"}), I("psq_st", "f1", "r1", "", {}),
   I("ps_arith", "f1", "f1", "f1", {"div", "rc"}), I("ps_arith", "f1", "f1", "f2", {}),
   Insn4("ps_fma", "f1", "f1", "f2", "f1", {"negate"}), Insn4("ps_fma", "f1", "f1", "f1", "f1", {}),
   I("ps_merge", "f1", "f1", "f1", {"b1"}), I("ps_merge", "f1", "f2", "f1", {"a1"}), I("ps_merge", "f1", "f1", "f2", {"a1", "b1"}),
   I("ps_res", "f1", "", "f1", {}), I("ps_rsqrte", "f1", "", "f2", {"rc"}),
   Insn4("ps_sel", "f1", "f1", "f2", "f1", {}), Insn4("ps_sum", "f1", "f1", "f2", "f1", {}), Insn4("ps_sum", "f1", "f2", "f1", "f2", {"sum1"}),
   I("fcmp", "cr1", "f1", "f2", {"ps1"}), I("fmr", "f1", "", "f2", {"paired"}), I("fmr", "f2", "", "f1", {"paired"}),
   I("fp_arith", "f1", "f1", "f2", {"single"}), I("fp_arith", "f2", "f1", "f2", {"div"}), I("lf", "f1", "r1", "", {"single"}), I("lf", "f2", "r1", "", {}),
   I("stf", "f1", "r1", "r2", {"x", "single"}), I("fcfi", "f1", "", "", {}), I("fmr", "f2", "", "f1", {}),
   I("frsp", "f1", "", "f1", {}), I("ps_merge", "f2", "f1", "f1", {"a1"}), I("trap", "", "r1", "", {})}

MCInstructions(code) ==
  CASE code = "integer" -> IntInsns [] code = "system" -> SysInsns
    [] code = "float" -> FpInsns    [] code = "paired" -> PsInsns
================================================================================
