------------------------------ MODULE GuestFloat ------------------------------
(* The floating-point and paired-single translators of guest-ppc-rtl.c, as
   programs over GuestRegs like those of GuestInsns.

   Unless NO_FPSCR_STATE is given (mode.fps), an arithmetic instruction sets
   FPSCR from the host's exceptions, and its result depends on the exceptions
   that FPSCR enables: the generated code has paths that write the destination
   and paths that do not.  The option flags that change what a translator does
   to registers are fields of mode: vx (~IGNORE_FPSCR_VXFOO), nan
   (NATIVE_IEEE_NAN), recip (NATIVE_RECIPROCAL), simd (FAST_FMADDS), stfs
   (FAST_STFS), sp_inputs (SINGLE_PREC_INPUTS), gqr (what the GQR is taken to
   be: "unknown", or the constant "float" or "int"). *)
EXTENDS GuestInsns

(***************************** Programs ***************************************)

GetAs(fs, rule)    == << <<"getas", fs, rule>> >>   \* get_fpr_as_type() of each
GetSecond(f)       == << <<"getps1", f>> >>
GetTemporary(f, keep) == << <<"gettemp", f, keep>> >>
SetF(f, t, n)      == << <<"setfpr", f, t, n>> >>
StoreF(f, t, src, n, safe) == << <<"setflush", f, t, src, n, safe>> >>
FlushF(f, clear)   == << <<"flushfpr", f, clear>> >>
Save(f)            == << <<"savefpr", f>> >>
SaveAlias(f)       == << <<"savealias", f>> >>
Restore(f)         == << <<"restore", f>> >>        \* set_fpr_and_flush(saved_frD)
SafeF(f, t)        == << <<"safe", ValueCells(f, t)>> >>
Unsafe(C)          == << <<"unsafe", C>> >>
CopySafe(from, to) == << <<"copysafe", from, to>> >>
GetStatus          == << <<"getfprf">> >>
SetStatus          == << <<"setfprf">> >>
StoreStatus        == << <<"setfprfflush">> >>
Exception(when)    == << <<"exc", when>> >>
Know(c, v)         == << <<"know", c, v>> >>
IfSingle(p, e)     == << <<"ifsingle", p, e>> >>    \* the type GetAs has chosen

Clean     == << {}, {} >>                           \* no SNaN
Memory    == << {"memory"}, {"memory"} >>           \* any value
Rc1(i)    == When(Has(i, "rc"), Get("fpscr") \o SetBit("cr1"))   \* update_cr1()
RoundMode == Get("fpscr")                           \* update_rounding_mode()

(* set_fpscr_exceptions() for exceptions that are tested one by one at the end:
   XX, OX and UX do the same to registers. *)
MaybeException == JumpIf("", TRUE, "quiet") \o Exception("now") \o Label("quiet")

(* "FPSCR is changed conditionally, so we can't save it." *)
HoldFpscr == Get("fpscr") \o << <<"hold">> >> \o Clear({"fpscr", "fprf"})
Abort     == GetStatus \o StoreStatus \o Jump("out")

(***************************** Results ****************************************)

(* set_fp_result(): the invalid-operation part.  v says which VXFOO bits the
   operation has: "", "one", "div" (VXIDI or VXZDZ) or "fma" (VXIMZ or VXISI). *)
WhichException(v) ==
  IF v \in {"div", "fma"}
    THEN JumpIf("", TRUE, "other") \o Exception("saved")
           \o Jump(IF mode.nan THEN "check_ve_snan" ELSE "check_ve")
           \o Label("other") \o Exception("saved")
    ELSE Exception("saved")
DefaultNaN(f, t, src) ==
  IF mode.nan THEN Jump("check_ve_snan")
  ELSE Label("check_ve") \o JumpIf("ve", FALSE, "no_ve_default_nan") \o Abort
         \o Label("no_ve_default_nan") \o StoreF(f, t, src, Clean, TRUE) \o StoreStatus \o Jump("out")
NoSNaN(f, t, v, src) ==
  JumpIf("", TRUE, "snan") \o When(v = "fma", JumpIf("", TRUE, "frB_snan"))
    \o WhichException(v) \o DefaultNaN(f, t, src)
    \o When(v = "fma", Label("frB_snan") \o JumpIf("", FALSE, "snan")
                         \o Exception("saved") \o Jump("check_ve_snan"))
    \o Label("snan")
CheckInvalid(f, t, v, src) ==
  JumpIf("vx", FALSE, "no_vx") \o Know("zx", FALSE)      \* VX and ZX exclude each other
    \o When(v # "" /\ mode.vx, NoSNaN(f, t, v, src))
    \o Exception("saved") \o Label("check_ve_snan") \o JumpIf("ve", FALSE, "no_vx")
    \o Abort \o Label("no_vx")

(* The division-by-zero part.  A scalar goes back to the code of Abort above,
   here a copy of it. *)
CheckZeroDivide(t) ==
  JumpIf("zx", FALSE, "no_zx") \o Exception("saved") \o JumpIf("ze", FALSE, "no_zx")
    \o (IF IsVec(t) THEN MaybeException \o StoreStatus \o Jump("out") ELSE Abort)
    \o Label("no_zx")

(* set_fp_result(), with src and n as in SetFpr. *)
FpResult(f, t, v, vx, zx, src, n, safe) ==
  IF ~mode.fps THEN SetF(f, t, n) \o When(safe, SafeF(f, t))
  ELSE HoldFpscr \o FlushF(f, TRUE)
         \o When(vx, CheckInvalid(f, t, v, src)) \o When(zx, CheckZeroDivide(t))
         \o StoreF(f, t, src, n, safe) \o StoreStatus \o MaybeException \o Label("out")

(* set_ps_result().  "We use the frD alias as a temporary for simplicity's
   sake": one slot after the other goes through it if the operation was invalid. *)
Anew          == << <<"forget", {"vx", "zx"}>> >>
Slot(f, v, vx, zx, keep) ==
  Anew \o FpResult(f, "F32", v, vx, zx, "temp", Clean, TRUE) \o GetTemporary(f, keep)
PsResult(i, zx, v) ==
  When(mode.fps /\ (mode.vx \/ ~mode.nan),
       JumpIf("", FALSE, "do_set_result") \o Save(i.d)
         \o Slot(i.d, v, TRUE, zx, FALSE) \o GetStatus
         \o Slot(i.d, v, TRUE, zx, FALSE) \o When(i.kind # "ps_rsqrte", GetStatus)
         \o StoreStatus \o RawGet("fpscr", "fsave") \o JumpIf("ve", FALSE, "no_ve")
         \o Restore(i.d) \o Jump("skip_set_result")
         \o Label("no_ve") \o StoreF(i.d, "V64", "new", Clean, TRUE) \o Jump("skip_set_result")
         \o Label("do_set_result"))
    \o Anew \o FpResult(i.d, "V32", "", FALSE, zx, "new", Clean, TRUE) \o Label("skip_set_result")

(***************************** Scalars ****************************************)

(* translate_compare_fp() *)
CompareFp(i) ==
  (IF Has(i, "ps1") THEN GetSecond(i.a) \o GetSecond(i.b) ELSE GetAs(<<i.a, i.b>>, "F64"))
    \o SetBit(i.d)
    \o When(mode.fps,
            GetStatus \o SetStatus \o JumpIf("", FALSE, "out")
              \o Get("fpscr") \o << <<"hold">> >> \o Clear({"fpscr"})
              \o When(Has(i, "ordered") /\ mode.vx,
                      JumpIf("", TRUE, "snan") \o Exception("saved") \o Jump("out")
                        \o Label("snan") \o JumpIf("", TRUE, "no_vxvc")
                        \o Exception("saved") \o Jump("out") \o Label("no_vxvc"))
              \o Exception("saved") \o Label("out"))

(* translate_fctiw() *)
Fctiw(i) ==
  GetAs(<<i.b>>, "own")
    \o (IF ~mode.fps THEN SetF(i.d, "F64", Clean) \o SafeF(i.d, "F64")
        ELSE HoldFpscr \o FlushF(i.d, TRUE) \o JumpIf("", FALSE, "no_vx")
               \o When(mode.vx, JumpIf("", TRUE, "snan") \o Exception("saved")
                                  \o Jump("check_ve_snan") \o Label("snan"))
               \o Exception("saved") \o Label("check_ve_snan") \o JumpIf("ve", FALSE, "no_vx")
               \o Abort \o Label("no_vx")
               \o StoreF(i.d, "F64", "new", Clean, TRUE) \o StoreStatus \o MaybeException \o Label("out"))
    \o Rc1(i)

(* translate_fp_arith(), frsp *)
ResultType(i) == IF Has(i, "single") THEN "F32" ELSE "F64"
FpArith(i) ==
  GetAs(<<i.a, i.b>>, IF Has(i, "single") THEN "single" ELSE "F64")
    \o FpResult(i.d, ResultType(i), IF Has(i, "div") THEN "div" ELSE "one", TRUE, Has(i, "div"),
                "new", Clean, TRUE) \o Rc1(i)
Frsp(i) ==
  GetAs(<<i.b>>, "F64") \o FpResult(i.d, "F32", "", ~Has(i, "cast"), FALSE, "new", Clean, TRUE) \o Rc1(i)

(* translate_fp_fma().  round_fma_result_to_single() looks at FPSCR. *)
RoundFma == When(~mode.simd, IfSingle(<<>>, Get("fpscr")))
FpFma(i) ==
  GetAs(<<i.a, i.c, i.b>>, IF Has(i, "single") THEN "single" ELSE "F64")
    \o When(Has(i, "single"), RoundFma)
    \o FpResult(i.d, ResultType(i), "fma", TRUE, FALSE, "new", Clean, TRUE) \o Rc1(i)

(* translate_fres_lookup(), translate_frsqrte_lookup().  Mantissa, exponent and FI
   are aliases of their own, which the paths of the code set and read; if an
   exception is enabled the destination is not written.  Where the code jumps
   back to "finalize", the parts are in another order here. *)
Temporary(t)   == << <<"def", t>> >>
Use(t)         == << <<"use", t>> >>
LookupStatus   == When(mode.fps, StoreStatus) \o Jump("found")
LookupExc(abort) ==
  When(mode.fps, Exception("now") \o When(abort, JumpIf("", TRUE, "pre_abort")))
LookupNaN ==
  Label("nan") \o When(mode.fps, JumpIf("", TRUE, "snan") \o LookupStatus \o Label("snan"))
    \o LookupExc(TRUE) \o LookupStatus
LookupZero ==
  Label("exp_0") \o JumpIf("", TRUE, "not_zero") \o LookupExc(TRUE) \o LookupStatus
LookupAbort ==
  When(mode.fps, Label("pre_abort") \o GetStatus \o StoreStatus \o Jump("abort")) \o Label("found")

FresDenormal ==
  Label("not_zero") \o JumpIf("", TRUE, "no_overflow") \o LookupExc(FALSE) \o LookupStatus
    \o Label("no_overflow") \o Temporary("mant") \o JumpIf("", TRUE, "normalized")
    \o Temporary("exp") \o Temporary("mant") \o Label("normalized") \o Use("mant") \o Temporary("mant")
FresEstimate ==
  Label("continue") \o Use("mant") \o Use("exp") \o Temporary("exp")
    \o When(mode.fps, Temporary("fi")) \o Temporary("mant")
FresDenormalize ==
  JumpIf("", TRUE, "denormalize_1") \o JumpIf("", FALSE, "finalize")
    \o Temporary("exp") \o Label("denormalize_1")
    \o Use("mant") \o When(mode.fps, Use("fi") \o Temporary("fi")) \o Temporary("mant")
FresFinalize ==
  Label("finalize") \o Use("mant") \o Use("exp")
    \o When(mode.fps, Use("fi") \o JumpIf("", TRUE, "no_ux") \o LookupExc(FALSE) \o Label("no_ux"))
    \o LookupStatus
FresLookup ==
  When(mode.fps, HoldFpscr) \o Temporary("mant") \o Temporary("exp")
    \o JumpIf("", TRUE, "exp_0") \o JumpIf("", FALSE, "continue")
    \o JumpIf("", TRUE, "nan") \o LookupStatus
    \o LookupNaN \o LookupZero \o FresDenormal \o FresEstimate \o FresDenormalize
    \o FresFinalize \o LookupAbort

FrsqrteEstimate ==
  Label("not_zero") \o JumpIf("", TRUE, "vxsqrt") \o Temporary("exp") \o Temporary("mant")
    \o Label("continue") \o Use("mant") \o Use("exp") \o LookupStatus
FrsqrteLookup ==
  When(mode.fps, HoldFpscr) \o Temporary("mant") \o Temporary("exp")
    \o JumpIf("", TRUE, "exp_0") \o JumpIf("", TRUE, "exp_max") \o JumpIf("", TRUE, "vxsqrt")
    \o Jump("continue")
    \o Label("exp_max") \o JumpIf("", TRUE, "nan") \o JumpIf("", TRUE, "vxsqrt") \o LookupStatus
    \o LookupNaN \o LookupZero \o FrsqrteEstimate
    \o Label("vxsqrt") \o LookupExc(TRUE) \o LookupStatus \o LookupAbort

(* translate_fp_recip() *)
FpRecip(i) ==
  LET t      == IF Has(i, "rsqrte") THEN "F64" ELSE "F32"
      lookup == IF Has(i, "rsqrte") THEN FrsqrteLookup ELSE FresLookup
  IN
  GetAs(<<i.b>>, t)
    \o (CASE mode.recip -> FpResult(i.d, t, IF Has(i, "rsqrte") THEN "one" ELSE "", TRUE, TRUE,
                                    "new", Clean, TRUE)
          [] ~mode.recip /\ mode.fps ->
               FlushF(i.d, TRUE) \o lookup \o StoreF(i.d, t, "new", Clean, TRUE) \o Label("abort")
          [] OTHER -> lookup \o SetF(i.d, t, Clean))
    \o Rc1(i)

(* fsel, translate_move_fpr() *)
Fsel(i) ==
  GetAs(<<i.a>>, "own") \o GetAs(<<i.c, i.b>>, "F64") \o SetF(i.d, "F64", << {i.c, i.b}, {} >>) \o Rc1(i)
MoveFpr(i) ==
  IF Has(i, "paired")
    THEN GetAs(<<i.b>>, "V32") \o SetF(i.d, "V32", << {i.b}, {Ps1Of[i.b]} >>)
           \o CopySafe(i.b, i.d) \o CopySafe(Ps1Of[i.b], Ps1Of[i.d]) \o Rc1(i)
    ELSE GetAs(<<i.b>>, "F64") \o SetF(i.d, "F64", << {i.b}, {} >>) \o CopySafe(i.b, i.d) \o Rc1(i)

(* The conversion of an integer that guest_ppc_detect_fcfi_emul() recognizes *)
Fcfi(i) ==
  SetF(i.d, "F64", Clean) \o SafeF(i.d, "F64") \o When(mode.fps, SetStatus)

(***************************** Loads and stores *******************************)

(* store_float64_as_32(): the high bits are taken out on one path and, to flush a
   denormal value, used on another. *)
StoreAs32(flush) ==
  JumpIf("", TRUE, "normal") \o JumpIf("", TRUE, "denormal")
    \o Label("normal") \o << <<"def", "high">> >> \o Jump("stored")
    \o Label("denormal") \o When(flush, << <<"use", "high">> >>) \o Label("stored")

(* translate_load_store_fpr() *)
LoadFloat(i) ==
  Address(i) \o SetF(i.d, ResultType(i), Memory) \o When(mode.forward, SetRaw(i.d)) \o Update(i)
StoreFloat(i) == Address(i) \o << <<"storefpr", i.d, Has(i, "single")>> >> \o Update(i)
Stfiwx(i)   == Address(i) \o GetAs(<<i.d>>, "F64")

(* translate_load_store_ps(): with a GQR that is not known, floats and integers
   are two paths of the code.  Two of the four integer formats stand for all. *)
BugPsValue(i) == SetF(i.d, "V32", << {"memory"}, IF Has(i, "both") THEN {"memory"} ELSE {} >>)
PsValue(i) ==
  LET both == Has(i, "both") IN
  (IF both THEN Unsafe({Ps1Of[i.d]}) ELSE << <<"safe", {Ps1Of[i.d]}>> >>) \o Unsafe({i.d})
    \o SetF(i.d, "V32", << {"memory"}, IF both THEN {"memory"} ELSE {} >>)
PsLoad(i) ==
  Address(i)
    \o (CASE mode.gqr = "float" -> PsValue(i) \o When(mode.forward /\ Has(i, "both"), SetRaw(Ps1Of[i.d]))
          [] mode.gqr = "int"   -> SetF(i.d, "V32", Clean) \o SafeF(i.d, "V32")
          [] OTHER -> JumpIf("", TRUE, "int") \o PsValue(i) \o FlushF(i.d, TRUE) \o Jump("out")
                        \o Label("int") \o JumpIf("", TRUE, "int16")
                        \o StoreF(i.d, "V32", "new", Clean, TRUE) \o Jump("out")
                        \o Label("int16") \o StoreF(i.d, "V32", "new", Clean, TRUE) \o Label("out"))
    \o Update(i)
StoreInts(i) == << <<"ifpair", i.d, GetAs(<<i.d>>, "V32"), GetAs(<<i.d>>, "V64")>> >>
PsStore(i) ==
  When(mode.gqr = "unknown", Get(i.d)) \o Address(i)
    \o (CASE mode.gqr = "float" -> << <<"storeps", i.d, Has(i, "both"), TRUE>> >>
          [] mode.gqr = "int"   -> StoreInts(i)
          [] OTHER -> JumpIf("", TRUE, "int") \o << <<"storeps", i.d, Has(i, "both"), FALSE>> >>
                        \o Jump("out") \o Label("int") \o StoreInts(i) \o Label("out"))
    \o Update(i)

(***************************** Paired singles *********************************)

(* translate_ps_arith() *)
PsArith(i) ==
  GetAs(<<i.a, i.b>>, "paired") \o PsResult(i, Has(i, "div"), IF Has(i, "div") THEN "div" ELSE "one")
    \o Rc1(i)

(* translate_ps_fma() *)
PsFmaSlot(i) == RoundFma \o Slot(i.d, "fma", TRUE, FALSE, TRUE) \o GetStatus
PsFma(i) ==
  GetAs(<<i.a, i.c, i.b>>, "paired")
    \o (CASE mode.nan /\ mode.simd /\ ~(mode.vx /\ mode.fps) /\ ~Has(i, "negate") ->
               FpResult(i.d, "V32", "", TRUE, FALSE, "new", Clean, TRUE)
          [] ~mode.fps -> RoundFma \o SetF(i.d, "V32", Clean) \o SafeF(i.d, "V32")
          [] OTHER ->
               FlushF(i.d, FALSE) \o SaveAlias(i.d) \o PsFmaSlot(i) \o PsFmaSlot(i) \o StoreStatus
                 \o JumpIf("", FALSE, "do_result") \o RawGet("fpscr", "fsave")
                 \o JumpIf("ve", FALSE, "do_result") \o Restore(i.d) \o Jump("skip_result")
                 \o Label("do_result") \o StoreF(i.d, "V64", "new", Clean, TRUE) \o Label("skip_result"))
    \o Rc1(i)

(* translate_ps_merge(): i.with says which slots are from ps1. *)
SlotCell(f, second) == IF second THEN Ps1Of[f] ELSE f
PsMerge(i) ==
  LET first == SlotCell(i.a, Has(i, "a1"))
      other == SlotCell(i.b, Has(i, "b1"))
  IN  (IF Has(i, "a1") THEN GetSecond(i.a) ELSE GetAs(<<i.a>>, "F32"))
        \o (IF Has(i, "b1") THEN GetSecond(i.b) ELSE GetAs(<<i.b>>, IF mode.sp_inputs THEN "F32" ELSE "own"))
        \o SetF(i.d, "V32", << {first}, {other} >>)
        \o CopySafe(first, i.d) \o CopySafe(other, Ps1Of[i.d]) \o Rc1(i)

(* translate_ps_recip() *)
PsLookup(i) ==
  (IF i.kind = "ps_rsqrte" THEN FrsqrteLookup ELSE FresLookup)
    \o When(mode.fps, Jump("do_set") \o Label("abort") \o Know("skip", TRUE) \o Label("do_set"))
PsRecip(i) ==
  GetAs(<<i.b>>, "V32")
    \o (CASE mode.recip -> PsResult(i, TRUE, IF i.kind = "ps_rsqrte" THEN "one" ELSE "")
          [] ~mode.recip /\ mode.fps ->
               FlushF(i.d, TRUE) \o Know("skip", FALSE) \o PsLookup(i) \o GetStatus
                 \o PsLookup(i) \o When(i.kind = "ps_res", GetStatus) \o StoreStatus
                 \o JumpIf("skip", TRUE, "skip_set") \o StoreF(i.d, "V32", "new", Clean, TRUE)
                 \o Label("skip_set")
          [] OTHER -> PsLookup(i) \o PsLookup(i) \o SetF(i.d, "V32", Clean) \o SafeF(i.d, "V32"))
    \o Rc1(i)

(* translate_ps_sel() *)
PsSel(i) ==
  GetAs(<<i.a>>, "both") \o GetAs(<<i.c, i.b>>, "both")
    \o LET n == << {i.c, i.b}, {Ps1Of[i.c], Ps1Of[i.b]} >>
       IN  IfSingle(SetF(i.d, "V32", n), SetF(i.d, "V64", n)) \o Rc1(i)

(* translate_ps_sum(): the sum goes to one slot, a copy from frC to the other. *)
PsSum(i) ==
  LET n == IF Has(i, "sum1") THEN << {i.c}, {} >> ELSE << {}, {Ps1Of[i.c]} >> IN
  GetAs(<<i.a>>, "own") \o GetSecond(i.b) \o (IF Has(i, "sum1") THEN GetAs(<<i.c>>, "F32") ELSE GetSecond(i.c))
    \o (IF mode.fps /\ ~mode.nan
          THEN JumpIf("vx", FALSE, "do_result")
                 \o FpResult(i.d, "F32", "one", TRUE, FALSE, "temp", Clean, TRUE)
                 \o RawGet("fpscr", "fsave") \o JumpIf("ve", TRUE, "skip_result")
                 \o << <<"setboth", i.d, n>> >> \o Jump("skip_result")
                 \o Label("do_result") \o FpResult(i.d, "V32", "", FALSE, FALSE, "new", n, FALSE)
                 \o Label("skip_result")
          ELSE FpResult(i.d, "V32", "one", TRUE, FALSE, "new", n, FALSE))
    \o Rc1(i)

(***************************** FPSCR ******************************************)

FpscrCells == IF mode.split THEN {"ctl"} ELSE {"ctl", "fprf"}
SetFpscr(C) == SetPart("fpscr", C)

(* mcrfs, by the field it reads *)
Mcrfs(i) ==
  CASE Has(i, "fprf") /\ ~Has(i, "ctl") -> GetStatus \o SetBit(i.d)
    [] Has(i, "fprf")                   -> Get("fpscr") \o GetStatus \o SetBit(i.d) \o SetFpscr({"ctl"})
    [] OTHER                            -> Get("fpscr") \o SetBit(i.d) \o SetFpscr({"ctl"})

(* mtfsb0, mtfsb1 *)
Mtfsb(i) ==
  (CASE Has(i, "fprf") -> GetStatus \o SetStatus
     [] Has(i, "ctl")  -> Get("fpscr") \o SetFpscr({"ctl"}) \o When(Has(i, "rn"), RoundMode)
     [] OTHER          -> <<>>) \o Rc1(i)

(* mtfsfi *)
Mtfsfi(i) ==
  (IF mode.split
     THEN When(Has(i, "ctl"), Get("fpscr") \o SetFpscr({"ctl"})) \o When(Has(i, "fprf"), GetStatus \o SetStatus)
     ELSE Get("fpscr") \o SetFpscr(i.with \cap {"ctl", "fprf"})) \o Rc1(i)

(* mffs *)
Mffs(i) ==
  Get("fpscr") \o << <<"wholefpscr">> >> \o SetF(i.d, "F64", Clean) \o SafeF(i.d, "F64")
    \o When(Has(i, "rc"), SetBit("cr1"))

(* mtfsf: i.with says which parts FM selects, and whether all of each. *)
Mtfsf(i) ==
  GetAs(<<i.b>>, "F64")
    \o When(Has(i, "ctl") \/ (Has(i, "fprf") /\ ~mode.split),
            When(~Has(i, "all"), Get("fpscr"))
              \o SetFpscr(IF Has(i, "all") THEN FpscrCells ELSE i.with \cap FpscrCells)
              \o When(Has(i, "rn"), RoundMode))
    \o When(Has(i, "fprf") /\ mode.split, When(~Has(i, "all"), GetStatus) \o SetStatus)
    \o Rc1(i)
=============================================================================
