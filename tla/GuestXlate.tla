------------------------------ MODULE GuestXlate ------------------------------
(* Translation of the instructions of a unit to RTL (guest-ppc-rtl.c), seen from
   the guest's registers: guest_ppc_translate_block() takes one instruction after
   the other through translate_insn(), which leaves the generator's tables, and
   the generated code, in a state that the next one relies on. *)
EXTENDS GuestTouch, TLC

CONSTANTS Instructions(_),  \* the instructions of a block, by the kind of code
          Modes,            \* the options that a unit may be translated with
          MaxInsns,         \* instructions of a block
          Defects           \* conditions the code does not handle, not explored

AllDefects == {"trap", "stwcx", "mtcrf", "string", "ps_result", "get_ps1", "safe",
               "merge_safe", "flush_denormal"}
ASSUME XlateAssumption == MaxInsns \in Nat \ {0} /\ Defects \subseteq AllDefects

VARIABLES
  gen,       \* the generator: its tables, and the state along the paths to here
  count,     \* instructions translated in this block
  ended      \* the last of them ends the block

xlateVars == <<mode, gen, count, ended>>

(***************************** Running a program ******************************)

Parked(g, l)  == {q[2] : q \in {z \in g.park : z[1] = l}}
MayJump(p, c, v) == c = "" \/ <<c, ~v>> \notin p.tg
Knowing(p, c, v) == IF c = "" THEN p ELSE [p EXCEPT !.tg = @ \cup {<<c, v>>}]
DoJumpIf(g, c, v, l) ==
  [g EXCEPT !.park = @ \cup {<<l, Knowing(p, c, v)>> : p \in {z \in g.cur : MayJump(z, c, v)}},
            !.cur  = {Knowing(p, c, ~v) : p \in {z \in @ : MayJump(z, c, ~v)}}]

UseStored(g, r) ==
  IF r \in g.raw THEN Requires(g, "stale", LAMBDA p : r \in p.rw) ELSE GetOperand(g, r)

DoString(g, R, store) ==
  IF store THEN Requires(g, "stale", LAMBDA p : \A r \in R : <<r, r>> \in p.al)
  ELSE OnPaths(g, LAMBDA p : [Written(p, R) EXCEPT !.al = @ \cup {<<r, r>> : r \in R}])

(* stfs and stfd, psq_st: a copy in the byte order of memory is stored as it is
   if it has the width of the access. *)
StoresBits(g, f, single) == single /\ ~mode.stfs /\ ScalarType(g, f) = "F64"
DoStoreFloat(g, f, single) ==
  CASE StoresBits(g, f, single) -> FprOperandAs(g, f, "F64")
    [] ~StoresBits(g, f, single) /\ f \in g.raw /\ single = (g.ty[f] = "F32") -> UseStored(g, f)
    [] OTHER -> FprOperandAs(g, f, IF single THEN "F32" ELSE "F64")
DoStorePair(g, f, both, raw) ==
  LET t == IF mode.stfs THEN "F32" ELSE ScalarType(g, f) IN
  CASE raw /\ both /\ Ps1Of[f] \in g.raw -> UseStored(g, Ps1Of[f])
    [] both  -> FprOperandAs(g, f, IF t = "F32" THEN "V32" ELSE "V64")
    [] OTHER -> FprOperandAs(g, f, t)
ConvertedStore(g, f, single, flush) == IF StoresBits(g, f, single) THEN StoreAs32(flush) ELSE <<>>

RECURSIVE GetEach(_, _, _)
GetEach(g, fs, t) == IF fs = <<>> THEN g ELSE GetEach(FprOperandAs(g, Head(fs), t), Tail(fs), t)
GetOperands(g, fs, rule) ==
  LET t == OperandType(g, fs, rule) IN GetEach([g EXCEPT !.ty["op"] = t], fs, t)

(* set_ps_result()'s saved_frD *)
SaveFpr(g, f) ==
  IF f \in g.live
    THEN [CopyOf(LiveRead(g, f), f, "dsave") EXCEPT
            !.ty["dsave"] = g.ty[f], !.live = @ \ {f}, !.dirty = @ \ {f},
            !.safe = @ \ SafeBits(f), !.raw = @ \ SafeBits(f)]
    ELSE [ReadAlias(g, f, "dsave") EXCEPT !.ty["dsave"] = "V64"]
GetTemp(g, f, keep) ==
  LET h == IF f \in g.live THEN Fault(g, "temp", TRUE) ELSE Access(g, f)
  IN  IF keep THEN OnPaths([h EXCEPT !.live = @ \cup {f}, !.ty[f] = "V64"],
                           LAMBDA p : [p EXCEPT !.rg = Put(@, f, Holds(p.al, f))])
      ELSE h
SetBoth(g, f, n) ==
  LET W == SafeBits(f) IN
  [Access(g, f) EXCEPT !.wrote = @ \cup W,
     !.cur = {[Written(p, W) EXCEPT !.al = Put(@, f, W), !.sn = @ \cup SNaNs(p, f, "V64", n)] : p \in @}]
WholeFpscr(g) ==
  LET r == IF mode.split THEN "merged" ELSE "fpscr"
      h == IF mode.split THEN [MergeFpscr(g, TRUE) EXCEPT !.may = g.may] ELSE g
  IN  Requires(h, "stale", LAMBDA p : {"ctl", "fprf"} \subseteq Holds(p.rg, r))
DoKnow(g, c, v) == OnPaths(g, LAMBDA p : [p EXCEPT !.tg = {k \in @ : k[1] # c} \cup {<<c, v>>}])

StwcxIsPaired(g) == mode.pairs /\ g.pair \notin {"none", "closed"}

DoFloat(g, op) ==
  LET o == op[1] IN
  CASE o = "getas"    -> GetOperands(g, op[2], op[3])
    [] o = "getps1"   -> GetPs1(g, op[2])
    [] o = "gettemp"  -> GetTemp(g, op[2], op[3])
    [] o = "setfpr"   -> SetFpr(g, op[2], op[3], "new", op[4])
    [] o = "setflush" -> SetFprAndFlush(g, op[2], op[3], op[4], op[5], op[6])
    [] o = "flushfpr" -> FlushFpr(g, op[2], op[3])
    [] o = "savefpr"  -> SaveFpr(g, op[2])
    [] o = "savealias" -> [ReadAlias(g, op[2], "dsave") EXCEPT !.ty["dsave"] = "V64"]
    [] o = "restore"  -> SetFprAndFlush(g, op[2], g.ty["dsave"], "dsave", Clean, FALSE)
    [] o = "safe"     -> [g EXCEPT !.safe = @ \cup op[2]]
    [] o = "unsafe"   -> [g EXCEPT !.safe = @ \ op[2]]
    [] o = "copysafe" -> [g EXCEPT !.safe = IF op[2] \in @ THEN @ \cup {op[3]} ELSE @ \ {op[3]}]
    [] o = "getfprf"  -> GetFprf(g)
    [] o = "setfprf"  -> SetFprf(g)
    [] o = "setfprfflush" -> SetFprfAndFlush(g)
    [] o = "hold"     -> CopyOf(g, "fpscr", "fsave")
    [] o = "exc"      -> SetExceptions(g, op[2])
    [] o = "know"     -> DoKnow(g, op[2], op[3])
    [] o = "forget"   -> OnPaths(g, LAMBDA p : [p EXCEPT !.tg = {k \in @ : k[1] \notin op[2]}])
    [] o = "def"      -> OnPaths(g, LAMBDA p : [p EXCEPT !.rg = Put(@, op[2], {op[2]})])
    [] o = "use"      -> Requires(g, "stale", LAMBDA p : op[2] \in Holds(p.rg, op[2]))
    [] o = "setboth"  -> SetBoth(g, op[2], op[3])
    [] o = "wholefpscr" -> WholeFpscr(g)

RECURSIVE Run(_, _)
RECURSIVE Do(_, _)
Do(g, op) ==
  LET o == op[1] IN
  CASE o = "get"      -> GetOperand(g, op[2])
    [] o = "getreg"   -> GetReg(g, op[2])
    [] o = "getstored" -> UseStored(g, op[2])
    [] o = "setraw"   -> OnPaths([g EXCEPT !.raw = @ \cup {op[2]}],
                                 LAMBDA p : [p EXCEPT !.rw = @ \cup {op[2]}])
    [] o = "set"      -> SetReg(g, op[2], op[3], op[4])
    [] o = "aset"     -> WriteAlias(g, op[2], op[3], op[4])
    [] o = "acopy"    -> OnPaths(g, LAMBDA p : [p EXCEPT !.al =
                                   Put(@, op[2], Holds(p.al, op[3]) \cap Own(op[2]))])
    [] o = "aget"     -> ReadAlias(g, op[2], op[3])
    [] o = "setxer"   -> SetXer(g, op[2], op[3])
    [] o = "getso"    -> GetSo(g)
    [] o = "getcrb"   -> GetCrb(g, op[2])
    [] o = "testcrb"  -> TestCrb(g, op[2])
    [] o = "setcrb"   -> SetCrb(g, op[2])
    [] o = "wholecr"  -> Requires(GetReg(g, "cr"), "stale", LAMBDA p : AllOfCR \subseteq Holds(p.rg, "cr"))
    [] o = "drop"     -> Drop(g, op[2])
    [] o = "flushgpr" -> FlushGpr(g, op[2])
    [] o = "flushall" -> FlushLiveRegs(g, op[2])
    [] o = "flushcr"  -> FlushCr(g, op[2])
    [] o = "flushfpscr" -> FlushFpscr(g)
    [] o = "if"       -> DoJumpIf(g, op[2], op[3], op[4])
    [] o = "goto"     -> [g EXCEPT !.park = @ \cup {<<op[2], p>> : p \in g.cur}, !.cur = {}]
    [] o = "label"    -> [g EXCEPT !.cur = @ \cup Parked(g, op[2]),
                                   !.park = {q \in @ : q[1] # op[2]}]
    [] o = "look"     -> Look(g, op[2])
    [] o = "return"   -> Leave(g, "return")
    [] o = "string"   -> DoString(g, op[2], op[3])
    [] o = "lwarx"    -> IF g.pair = "closed" THEN g ELSE [g EXCEPT !.pair = op[2]]
    [] o = "stwcx"    -> [Run(g, CASE ~StwcxIsPaired(g)     -> op[5]
                                    [] g.pair = op[2]     -> op[3]
                                    [] OTHER              -> op[4]) EXCEPT !.pair = "closed"]
    [] o = "ifsingle" -> Run(g, IF g.ty["op"] \in {"F32", "V32"} THEN op[2] ELSE op[3])
    [] o = "ifpair"   -> Run(g, IF op[2] \in g.live /\ g.ty[op[2]] = "V32" THEN op[3] ELSE op[4])
    [] o = "storefpr" -> Run(DoStoreFloat(g, op[2], op[3]), ConvertedStore(g, op[2], op[3], FALSE))
    [] o = "storeps"  -> Run(DoStorePair(g, op[2], op[3], op[4]), ConvertedStore(g, op[2], TRUE, TRUE))
    [] OTHER          -> DoFloat(g, op)
Run(g, prog) == IF prog = <<>> \/ g.fault # {} THEN g ELSE Run(Do(g, Head(prog)), Tail(prog))

(* The instruction is done: jumps to its end have arrived, the paths that leave
   the block have left it. *)
Gone(g, l) == Leave([g EXCEPT !.cur = Parked(g, l)], l)
Exits(g) ==
  LET h == Gone(Gone(g, "block"), "epilogue")
  IN  [g EXCEPT !.fault = h.fault \cup (IF \E q \in g.park : q[1] \notin {"block", "epilogue"}
                                        THEN {"label"} ELSE {}),
                !.seen = h.seen, !.park = {}]
Trimmed(g, p) ==
  [p EXCEPT !.rg = {q \in @ : q[1] \in g.live}, !.st = @ \cap g.last, !.rw = @ \cap g.raw, !.tg = {}]
Finish(g) ==
  LET h == Exits(g) IN
  [h EXCEPT !.cur = {Trimmed(h, p) : p \in @}, !.wrote = {}, !.may = {},
            !.pair = IF @ \in GPRs /\ (@ \notin h.live \/ @ \in h.wrote) THEN "open" ELSE @,
            !.ty = [f \in DOMAIN @ |-> IF f \in h.live THEN h.ty[f] ELSE "F64"]]

(***************************** The translator's loop **************************)

(* translate_insn(), translate_x1F(), translate_x3F() *)
FpscrProgram(i) ==
  LET k == i.kind IN
  CASE k = "fcmp" -> CompareFp(i)   [] k = "frsp" -> Frsp(i)
    [] k = "fctiw" -> Fctiw(i)      [] k = "fmr" -> MoveFpr(i)
    [] k = "mcrfs" -> Mcrfs(i)      [] k = "mtfsb" -> Mtfsb(i)
    [] k = "mtfsfi" -> Mtfsfi(i)    [] k = "mffs" -> Mffs(i)
    [] k = "mtfsf" -> Mtfsf(i)      [] k = "none" -> <<>>
DoubleProgram(i) ==
  LET k == i.kind IN
  CASE k = "fp_arith" -> FpArith(i) [] k = "fcfi" -> Fcfi(i)
    [] k = "fsel" -> Fsel(i)        [] k = "fp_recip" -> FpRecip(i)
    [] k = "fp_fma" -> FpFma(i)     [] OTHER -> FpscrProgram(i)
PairedProgram(i) ==
  LET k == i.kind IN
  CASE k = "ps_arith" -> PsArith(i) [] k = "ps_fma" -> PsFma(i)
    [] k = "ps_merge" -> PsMerge(i) [] k \in {"ps_res", "ps_rsqrte"} -> PsRecip(i)
    [] k = "ps_sel" -> PsSel(i)     [] k = "ps_sum" -> PsSum(i)
    [] OTHER -> DoubleProgram(i)
ShiftProgram(i) ==
  LET k == i.kind IN
  CASE k = "shift" -> Shift(i)      [] k = "cntlzw" -> CntlzwPair(i)
    [] k = "logic" -> Logic(i)      [] OTHER -> PairedProgram(i)
IndexedProgram(i) ==
  LET k == i.kind IN
  CASE k = "dcbz" -> Dcbz(i)        [] k = "stfiwx" -> Stfiwx(i)
    [] k = "load" -> Load(i)        [] k = "store" -> Store(i)
    [] k = "icbi" -> LeaveUnit(i)   [] OTHER -> ShiftProgram(i)
MoveProgram(i) ==
  LET k == i.kind IN
  CASE k = "mtcrf" -> Mtcrf(i)      [] k = "mfcr" -> Mfcr(i)
    [] k = "mfspr" -> FromSpr(i)    [] k = "mtspr" -> ToSpr(i)
    [] k = "mftb" -> TimeBase(i)    [] k = "mtgqr" -> LeaveUnit(i)
    [] k = "lwarx" -> Lwarx(i)      [] k = "stwcx" -> Stwcx(i)
    [] k = "string" -> String(i)    [] OTHER -> IndexedProgram(i)
ArithProgram(i) ==
  LET k == i.kind IN
  CASE k = "compare" -> Compare(i)  [] k = "mcrxr" -> Mcrxr(i)
    [] k = "addsub" -> AddSub(i)    [] k = "multiply" -> Multiply(i)
    [] k = "divide" -> Divide(i)    [] k = "trap" -> Trap(i)
    [] OTHER -> MoveProgram(i)
StoreProgram(i) ==
  LET k == i.kind IN
  CASE k = "rotate" -> Rotate(i)    [] k = "multiple" -> Multiple(i)
    [] k = "lf" -> LoadFloat(i)     [] k = "stf" -> StoreFloat(i)
    [] k = "psq_l" -> PsLoad(i)     [] k = "psq_st" -> PsStore(i)
    [] OTHER -> ArithProgram(i)
Program(i) ==
  LET k == i.kind IN
  CASE k = "arith_imm" -> ArithImm(i) [] k = "sc" -> SystemCall(i)
    [] k = "branch" -> BranchLabel(i) [] k = "branch_out" -> BranchTerminal(i)
    [] k = "mcrf" -> Mcrf(i)          [] k = "logic_crb" -> LogicCrb(i)
    [] OTHER -> StoreProgram(i)

Ends(i) == i.kind \in {"branch", "branch_out", "trap", "sc", "icbi", "mtgqr"}

Fresh ==
  [al |-> {<<HomeInPsb(c), c>> : c \in Cells}
            \cup (IF mode.split THEN {<<Home(c), c>> : c \in Cells} \cup {<<"so", "so">>} ELSE {}),
   rg |-> {}, st |-> {}, rw |-> {}, sn |-> FPRs \cup Ps1s \cup {"memory"}, tg |-> {}]
Tables == [live |-> {}, last |-> {}, dirty |-> {}, safe |-> {}, raw |-> {},
           ty |-> [f \in FPRs \cup {"dsave", "op"} |-> "F64"], pair |-> "none", may |-> {}, wrote |-> {},
           seen |-> {}, park |-> {}, fault |-> {}]

XlateInit ==
  /\ mode \in Modes
  /\ gen = Tables @@ [cur |-> {Fresh}]
  /\ count = 0 /\ ended = FALSE

Operands(i) == {i.d} \cup (IF Has(i, "ra0") THEN {} ELSE {i.a}) \cup (IF Has(i, "x") THEN {i.b} ELSE {})

(* Operands whose second slot alone is wanted, and instructions that go through
   set_ps_result() with exceptions *)
Ps1Operands(i) ==
  CASE i.kind = "ps_merge" -> {f \in {i.a} : Has(i, "a1")} \cup {f \in {i.b} : Has(i, "b1")}
    [] i.kind = "ps_sum"   -> {i.b} \cup {f \in {i.c} : ~Has(i, "sum1")}
    [] i.kind = "fcmp" /\ Has(i, "ps1") -> {i.a, i.b}
    [] OTHER -> {}
SplitsResult(i) ==
  /\ mode.fps /\ (mode.vx \/ ~mode.nan)
  /\ i.kind = "ps_arith" \/ (i.kind \in {"ps_res", "ps_rsqrte"} /\ mode.recip)

(* What the code does not handle; a run leaves out the steps that meet one of the
   Defects it names.
   trap: translate_trap() flushes inside the code that a false condition skips.
   stwcx: the operands of an unpaired stwcx. are first read on one of two paths.
   mtcrf: mtcrf of all fields leaves the live bits that the unit never changes.
   string: a string load leaves gpr_raw.
   ps_result: set_ps_result() forgets that frD was dirty, and what its type was.
   get_ps1: the register is live as a double.
   safe: a new value leaves fpr_is_safe.
   merge_safe: ps_merge has changed the flag of frD when it reads that of frB.
   flush_denormal: store_float64_as_32() uses a register that it has not set. *)
Trips(d, i) ==
  CASE d = "trap"   -> i.kind = "trap" /\ Has(i, "cond") /\ gen.dirty # {}
    [] d = "stwcx"  -> i.kind = "stwcx" /\ ~StwcxIsPaired(gen) /\ ~(Operands(i) \subseteq gen.live)
    [] d = "mtcrf"  -> mode.split /\ i.kind = "mtcrf" /\ Has(i, "all") /\ "crbu" \in gen.live
    [] d = "string" -> i.kind = "string" /\ ~Has(i, "store") /\ gen.raw \cap StringSet(i) # {}
    [] d = "ps_result" -> /\ SplitsResult(i) /\ i.d \in gen.dirty
                          /\ i.kind # "ps_arith" \/ Has(i, "div") \/ gen.ty[i.d] = "F64"
    [] d = "get_ps1"   -> \E f \in Ps1Operands(i) : f \in gen.live /\ gen.ty[f] = "F64"
    [] d = "safe"      -> /\ i.kind \in {"lf", "fsel", "ps_sel"} \/ (i.kind = "ps_sum" /\ ~mode.fps)
                          /\ i.d \in gen.live /\ SafeBits(i.d) \cap gen.safe # {}
    [] d = "merge_safe" -> i.kind = "ps_merge" /\ i.d = i.b /\ ~Has(i, "b1")
    [] d = "flush_denormal" -> i.kind = "psq_st" /\ mode.gqr # "int" /\ StoresBits(gen, i.d, TRUE)

(* A round of guest_ppc_translate_block()'s loop. *)
PreCallback(g) == IF mode.callbacks THEN Look(FlushLiveRegs(g, FALSE), "callback") ELSE g
Translate(i) ==
  /\ ~ended /\ count < MaxInsns
  /\ SecondsOf(i) \subseteq mode.paired
  /\ \A d \in Defects : ~Trips(d, i)
  /\ LET g == [PreCallback(gen) EXCEPT !.may = Touched(i)]
     IN  gen' = Finish(Run(g, Program(i) \o PostCallback))
  /\ count' = count + 1 /\ ended' = Ends(i)
  /\ UNCHANGED mode

(* The end of the block, and the start of another, which control may reach from
   anywhere with the aliases alone. *)
EndBlock ==
  /\ count > 0
  /\ LET g == FlushLiveRegs(gen, TRUE)
         h == Leave(g, "block")
     IN  gen' = [Tables EXCEPT !.fault = h.fault] @@ [cur |-> {Fresh}]
  /\ count' = 0 /\ ended' = FALSE
  /\ UNCHANGED mode

XlateNext == EndBlock \/ \E i \in Instructions(mode.code) : Translate(i)
XlateSpec == XlateInit /\ [][XlateNext]_xlateVars

(***************************** Properties *************************************)

(* An instruction reads the current values of the registers it names: a live RTL
   register, an alias or a byte-reversed copy that is used holds what the guest's
   register holds at that point of the generated code, on whichever path control
   came, and no operand is read after the instruction has overwritten it.  So
   does every table entry that the next instruction will find. *)
ReadsCurrent ==
  /\ {"stale", "late"} \cap gen.fault = {}
  /\ ended \/ \A p \in gen.cur : /\ \A r \in gen.live : LiveCells(gen, r) \subseteq Holds(p.rg, r)
                                 /\ gen.raw \subseteq p.rw

(* No write to a guest register is lost: where control leaves the block, the unit
   or the generated code, the aliases hold all current values, and the processor
   state block those that the caller or a callback looks at. *)
NothingLost == "lost" \notin gen.fault

(* A store that set_gpr() and its like take back, because a later store of the
   same register makes it redundant, has not been seen by anything in between: no
   load of the alias, no callback, no code outside, on any path. *)
KilledUnread == "killed" \notin gen.fault

(* A register that fpr_is_safe or ps1_is_safe names holds no signalling NaN on any
   path, so that the conversions that rely on it keep every value. *)
SafeIsSafe == \A p \in gen.cur : \A c \in gen.safe : RawOf(c) \cap gen.live # {} => c \notin p.sn

(* Every alias that a translator uses has been allocated: the scan has marked the
   register for that instruction. *)
AliasesAllocated == "no alias" \notin gen.fault

(* The RTL type of a live floating-point register fits what is done to it: no
   assertion about types fails, pairs live only in registers that the scan has
   found to be paired, and a temporary is where the code looks for it. *)
TypesFit == {"assert", "temp", "label"} \cap gen.fault = {}

(* What update_used_changed() promises the translators: the marks it makes are
   enough for every access they will make. *)
MarksSuffice == AliasesAllocated /\ TypesFit
=============================================================================
