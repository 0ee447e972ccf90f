------------------------------ MODULE GuestInsns ------------------------------
(* The instruction translators of guest-ppc-rtl.c, integer part: what each one
   does to guest registers, in the order in which it does it, as a program of
   the helpers of GuestRegs and of the jumps inside the generated code.  What an
   instruction computes is left out; which registers it reads and writes, on
   which paths, is not.  Touched is update_used_changed() of guest-ppc-scan.c,
   which decides beforehand which registers get an alias. *)
EXTENDS GuestRegs

(* An instruction: its kind, registers, and what its variant does. *)
Insn(kind, d, a, b, with) == [kind |-> kind, d |-> d, a |-> a, b |-> b, c |-> "", with |-> with]
Insn4(kind, d, a, b, c, with) == [Insn(kind, d, a, b, with) EXCEPT !.c = c]
Has(i, w) == w \in i.with

(***************************** Programs ***************************************)

When(c, prog)  == IF c THEN prog ELSE <<>>
Get(r)         == << <<"get", r>> >>
GetResult(r)   == << <<"getreg", r>> >>
GetStored(r)   == << <<"getstored", r>> >>      \* gpr_raw, fpr_raw if there is one
SetRaw(r)      == << <<"setraw", r>> >>
Set(r)         == << <<"set", r, MergedOwn[r], r>> >>
SetPart(r, W)  == << <<"set", r, W, r>> >>
RawSet(r, W)   == << <<"aset", r, W, r>> >>     \* SET_ALIAS alone
RawGet(r, t)   == << <<"aget", r, t>> >>        \* GET_ALIAS alone
RawSetSo       == When(mode.split, << <<"acopy", "so", "xer">> >>)   \* the same value twice
SetXerFrom(W, so) == << <<"setxer", W, so>> >>
GetSoBit       == << <<"getso">> >>
GetBit(b)      == << <<"getcrb", b>> >>
TestBit(b)     == << <<"testcrb", b>> >>
SetBit(b)      == << <<"setcrb", b>> >>
WholeCR        == << <<"wholecr">> >>
Clear(R)       == << <<"drop", R>> >>
FlushReg(r)    == << <<"flushgpr", r>> >>
FlushAll(c)    == << <<"flushall", c>> >>
MergeFlags(l)  == << <<"flushcr", l>> >>
MergeStatus    == << <<"flushfpscr">> >>
JumpIf(c, v, l) == << <<"if", c, v, l>> >>      \* c is then known on either path
Jump(l)        == << <<"goto", l>> >>
Label(l)       == << <<"label", l>> >>
LookAt(how)    == << <<"look", how>> >>
Return         == << <<"return">> >>

GetXer == Get("xer")
UpdateCr0 == GetSoBit \o SetBit("cr0")
Rc(i)  == When(Has(i, "rc"), UpdateCr0)

(* post_insn_callback(), return_from_unit().  The epilogue is a label. *)
PostCallback == When(mode.callbacks, FlushAll(FALSE) \o LookAt("callback"))
ReturnFromUnit(constant, flush) ==
  When(flush, FlushAll(TRUE)) \o PostCallback \o
  IF mode.chain /\ constant
    THEN MergeFlags(FALSE) \o MergeStatus \o LookAt("call") \o Return
    ELSE Jump("epilogue")

(***************************** Arithmetic and logic ***************************)

(* translate_arith_imm(), and subfic *)
ArithImm(i) ==
  When(~Has(i, "li"), Get(i.a)) \o Set(i.d)
    \o When(Has(i, "ca"), GetXer \o SetXerFrom({"ca"}, "keep")) \o Rc(i)

(* translate_addsub_reg(), and the variants of subf, neg and add without it *)
AddSub(i) ==
  Get(i.a) \o When(Has(i, "b"), Get(i.b)) \o When(Has(i, "cin"), GetXer) \o Set(i.d)
    \o When(Has(i, "ca"), GetXer \o SetXerFrom({"ca"}, "keep"))
    \o When(Has(i, "oe"), GetXer \o SetXerFrom({"so"}, "alias")) \o Rc(i)

(* translate_muldiv_reg().  A quotient that is undefined is not stored. *)
BugDivide(i) ==
  Get(i.a) \o Get(i.b) \o When(Has(i, "oe"), GetXer)
    \o JumpIf("", TRUE, "skip") \o RawSet(i.d, {i.d})
    \o When(Has(i, "oe"), SetXerFrom({}, "alias") \o Clear({"xer", "so"}) \o Jump("continue"))
    \o Label("skip")
    \o When(Has(i, "oe"), RawSet("xer", {"so"}) \o RawSetSo)
    \o Label("continue")
    \o Rc(i)
Divide(i) ==
  Get(i.a) \o Get(i.b) \o FlushReg(i.d) \o When(Has(i, "oe"), GetXer)
    \o JumpIf("", TRUE, "skip") \o RawSet(i.d, {i.d})
    \o When(Has(i, "oe"), SetXerFrom({}, "alias") \o Clear({"xer", "so"}) \o Jump("continue"))
    \o Label("skip")
    \o When(Has(i, "oe"), RawSet("xer", {"so"}) \o RawSetSo)
    \o Label("continue")
    \o Rc(i)
Multiply(i) ==
  Get(i.a) \o Get(i.b) \o Set(i.d)
    \o When(Has(i, "oe"), GetXer \o SetXerFrom({"so"}, "alias")) \o Rc(i)

(* translate_compare() *)
Compare(i) == Get(i.a) \o When(Has(i, "b"), Get(i.b)) \o GetSoBit \o SetBit(i.d)

(* translate_logic_imm(), translate_logic_reg(), mr, translate_bitmisc(); the
   destination is rA. *)
Logic(i) == Get(i.d) \o When(Has(i, "b"), Get(i.b)) \o Set(i.a) \o Rc(i)

(* translate_rotate_mask() *)
Rotate(i) ==
  Get(i.d) \o When(Has(i, "insert"), Get(i.a)) \o When(Has(i, "b"), Get(i.b)) \o Set(i.a) \o Rc(i)

(* translate_shift() *)
Shift(i) ==
  Get(i.d) \o When(Has(i, "b"), Get(i.b)) \o Set(i.a)
    \o When(Has(i, "sra"), GetXer \o SetXerFrom({"ca"}, "keep")) \o Rc(i)

(* translate_logic_crb(), crset and crclr *)
LogicCrb(i) == When(~Has(i, "const"), GetBit(i.a) \o GetBit(i.b)) \o SetBit(i.d)

(***************************** Condition register *****************************)

(* mcrf *)
Mcrf(i) == IF mode.split THEN GetBit(i.a) \o SetBit(i.d) ELSE Get("cr") \o SetPart("cr", {i.d})

(* mcrxr *)
Mcrxr(i) == GetXer \o SetBit(i.d) \o SetXerFrom({"so", "ca"}, "imm")

(* mtcrf: CRM is all of CR or one field. *)
MtcrfAll(i) ==
  Get(i.a) \o << <<"set", "cr", IF mode.split THEN {"cru"} ELSE AllOfCR, "cr">> >>
    \o When(mode.split, SetBit("cr0") \o SetBit("cr1"))
Mtcrf(i) ==
  IF Has(i, "all") THEN MtcrfAll(i)
  ELSE Get(i.a) \o (IF mode.split THEN SetBit(i.d) ELSE Get("cr") \o SetPart("cr", {i.d}))

(* mfcr, alone or with the rlwinm after it that extracts a bit *)
MfcrBit(i) == GetBit(i.b) \o Set(i.a) \o Rc(i)
Mfcr(i) ==
  When(i.a # i.d \/ ~Has(i, "bit"), MergeFlags(TRUE) \o WholeCR \o Set(i.d))
    \o When(Has(i, "bit"), MfcrBit(i))

(* cntlzw, with the rlwinm after it that makes a truth value of it *)
CntlzwPair(i) ==
  Get(i.b) \o When(i.d # i.a, Get(i.b) \o Set(i.d)) \o Set(i.a) \o Rc(i)

(***************************** Memory *****************************************)

(* get_ea_base(), get_ea_indexed(), gen_load_store_address() *)
Address(i) ==
  When(~Has(i, "ra0"), Get(i.a)) \o When(Has(i, "x"), Get(i.b))
Update(i) == When(Has(i, "u"), Set(i.a))

(* translate_load_store_gpr() *)
Load(i)  == Address(i) \o Set(i.d) \o When(mode.forward /\ Has(i, "w"), SetRaw(i.d)) \o Update(i)
Store(i) == Address(i) \o (IF Has(i, "w") THEN GetStored(i.d) ELSE Get(i.d)) \o Update(i)

(* translate_load_store_multiple() *)
Multiple(i) ==
  Address(i) \o IF Has(i, "store") THEN Get("r1") \o Get("r2") ELSE Set("r1") \o Set("r2")

(* translate_load_store_string() goes through the processor state block, which
   the aliases of GPRs are part of. *)
StringSet(i) == IF Has(i, "imm") THEN {i.d} ELSE GPRs
StringAddress(i) ==
  FlushAll(TRUE) \o When(~Has(i, "ra0"), RawGet(i.a, "old")) \o When(~Has(i, "imm"), RawGet(i.b, "old"))
String(i) ==
  StringAddress(i) \o When(~Has(i, "imm"), GetXer)
    \o << <<"string", StringSet(i), Has(i, "store")>> >>

(* translate_dcbz() *)
Dcbz(i) == Address(i)

(* translate_lwarx() *)
Lwarx(i) == Address(i) \o Set(i.d) \o << <<"lwarx", i.d>> >>

(* translate_stwcx().  It need not look at memory if the register it stores is
   the one that the lwarx loaded.  CR0.EQ is written twice. *)
StwcxClear ==
  GetSoBit \o IF mode.split THEN SetBit("cr0") \o Clear({"crb0"})
              ELSE Get("cr") \o SetPart("cr", {"cr0"}) \o Clear({"cr"})
StwcxSuccess ==
  IF mode.split THEN RawSet("crb0", {"cr0"}) ELSE GetResult("cr") \o SetPart("cr", {"cr0"}) \o Clear({"cr"})
StwcxStore(i, paired) ==
  StwcxClear \o When(~paired, JumpIf("", FALSE, "skip")) \o Get(i.d) \o Address(i)
    \o JumpIf("", FALSE, "skip") \o StwcxSuccess \o Label("skip")
Stwcx(i) ==
  << <<"stwcx", i.d, GetSoBit \o (IF mode.split THEN SetBit("cr0") ELSE Get("cr") \o SetPart("cr", {"cr0"})),
       StwcxStore(i, TRUE), StwcxStore(i, FALSE)>> >>
    \o When(mode.split /\ mode.callbacks, GetBit("cr0") \o Get("cr") \o SetPart("cr", {}))

(***************************** Branches, traps, system ************************)

(* translate_branch_label(): within the unit.  i.with says whether CTR counts and
   CR is tested; a jump that leaves the block goes to "block". *)
Decrement(i) == When(Has(i, "ctr"), Get("ctr") \o Set("ctr"))
BranchSkips(i) == (Has(i, "ctr") /\ Has(i, "cr")) \/ ((Has(i, "ctr") \/ Has(i, "cr")) /\ mode.exit_test)
BranchLabel(i) ==
  Decrement(i) \o FlushAll(FALSE)
    \o When(Has(i, "ctr") /\ BranchSkips(i), JumpIf("", TRUE, "skip"))
    \o When(Has(i, "cr"), TestBit(i.b))
    \o When(Has(i, "cr") /\ mode.exit_test, JumpIf("", TRUE, "skip"))
    \o PostCallback
    \o (IF mode.exit_test THEN JumpIf("", TRUE, "block") \o Jump("epilogue")
        ELSE IF Has(i, "ctr") \/ Has(i, "cr") THEN JumpIf("", TRUE, "block")
        ELSE Jump("block"))
    \o Label("skip")

(* translate_branch_terminal(): out of the unit, to a constant or to LR or CTR *)
BugBranchTerminal(i) ==
  Decrement(i)
    \o When(Has(i, "ctr"), JumpIf("", TRUE, "skip")) \o FlushAll(FALSE)
    \o When(Has(i, "cr"), TestBit(i.b) \o JumpIf("", TRUE, "skip"))
    \o When(Has(i, "lr"), Get("lr")) \o When(Has(i, "cctr"), Get("ctr"))
    \o When(Has(i, "lk"), RawSet("lr", {"lr"}))
    \o ReturnFromUnit(~Has(i, "lr") /\ ~Has(i, "cctr"), FALSE) \o Label("skip")
BranchTerminal(i) ==
  Decrement(i) \o FlushAll(FALSE)
    \o When(Has(i, "ctr"), JumpIf("", TRUE, "skip"))
    \o When(Has(i, "cr"), TestBit(i.b) \o JumpIf("", TRUE, "skip"))
    \o When(Has(i, "lr"), GetResult("lr")) \o When(Has(i, "cctr"), GetResult("ctr"))
    \o When(Has(i, "lk"), RawSet("lr", {"lr"}))
    \o ReturnFromUnit(~Has(i, "lr") /\ ~Has(i, "cctr"), FALSE) \o Label("skip")

(* translate_trap() *)
TrapExit ==
  FlushAll(FALSE) \o MergeFlags(FALSE) \o MergeStatus \o PostCallback \o LookAt("call") \o Return
Trap(i) ==
  When(Has(i, "b"), Get(i.b)) \o Get(i.a) \o When(Has(i, "cond"), JumpIf("", TRUE, "skip"))
    \o TrapExit \o Label("skip")

(* sc, alone or with the blr after it *)
SystemCall(i) ==
  When(Has(i, "blr"), Get("lr")) \o MergeFlags(FALSE) \o MergeStatus \o FlushAll(TRUE)
    \o LookAt("call") \o PostCallback \o Return

(* icbi, and mtspr of a GQR that is taken to be constant *)
LeaveUnit(i) == When(i.kind = "mtgqr", Get(i.a)) \o ReturnFromUnit(TRUE, TRUE)

(* translate_move_spr() *)
SprOf(i)  == i.b
FromSpr(i) == Get(SprOf(i)) \o Set(i.d)
ToSpr(i)  == Get(i.d) \o IF SprOf(i) = "xer" THEN SetXerFrom({"so", "ca"}, "alias") ELSE Set(SprOf(i))
TimeBase(i) ==
  FlushReg(i.d) \o JumpIf("", TRUE, "none") \o RawSet(i.d, {i.d}) \o Jump("end")
    \o Label("none") \o RawSet(i.d, {i.d}) \o Label("end")
=============================================================================
