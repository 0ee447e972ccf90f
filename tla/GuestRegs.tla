------------------------------ MODULE GuestRegs ------------------------------
(* Guest registers in the code that guest-ppc-rtl.c generates.

   The value of a guest register may be in several places: its RTL alias (the
   processor state block, for most), the RTL register that ctx->live names, the
   byte-reversed copy of gpr_raw and fpr_raw, or, for a split field, an alias of
   its own.  This module is the helpers through which every translator reads and
   writes guest registers.  They work on a record g, the generator, with the
   context's tables (live, last_set, fpr_dirty ...) and, because generated code
   has jumps inside an instruction, the paths along which control may have come
   to this point of the code: a path says which places hold current values.

   Two GPRs and two FPRs stand for the 32 of each; CR has two fields the unit
   changes ("cr0", "cr1"), and one that it only reads ("cru"). *)
EXTENDS Integers, Sequences, FiniteSets

VARIABLE mode   \* the options of the unit

GPRs  == {"r1", "r2"}
FPRs  == {"f1", "f2"}
Ps1Of == [f1 |-> "f1s", f2 |-> "f2s"]          \* the second slot of an FPR
Ps1s  == {"f1s", "f2s"}

Cells == GPRs \cup FPRs \cup Ps1s
           \cup {"cr0", "cr1", "cru", "lr", "ctr", "so", "ca", "ctl", "fprf"}
PsbAliases == GPRs \cup FPRs \cup {"cr", "lr", "ctr", "xer", "fpscr"}
FieldOf    == [cr0 |-> "crb0", cr1 |-> "crb1", cru |-> "crbu"]
SplitRegs  == {"crb0", "crb1", "crbu", "so", "fprf"}
Regs       == PsbAliases \cup SplitRegs        \* the entries of live and alias

(* The cells a register stands for: CR and FPSCR lose those with an alias of
   their own.  "ctl" is FPSCR without FR, FI and FPRF. *)
SplitOwn ==
  [r \in Regs |-> CASE r \in GPRs -> {r}
                    [] r \in FPRs -> {r, Ps1Of[r]}
                    [] r = "cr" -> {"cru"}       [] r = "crb0" -> {"cr0"}
                    [] r = "crb1" -> {"cr1"}     [] r = "crbu" -> {"cru"}
                    [] r = "xer" -> {"so", "ca"} [] r = "fpscr" -> {"ctl"}
                    [] OTHER -> {r}]
MergedOwn == [SplitOwn EXCEPT !["cr"] = {"cr0", "cr1", "cru"},
                              !["fpscr"] = {"ctl", "fprf"}]
Own(r) == IF mode.split THEN SplitOwn[r] ELSE MergedOwn[r]
Paired(f) == f \in mode.paired                 \* fpr_is_ps
AliasCells(r) == IF r \in FPRs /\ ~Paired(r) THEN {r} ELSE Own(r)

Types      == {"F32", "F64", "V32", "V64"}
IsVec(t)   == t \in {"V32", "V64"}
LiveCells(g, r) == IF r \in FPRs /\ g.ty[r] = "F64" THEN {r} ELSE Own(r)

(* A path: al and rg are the pairs <<place, cell>> of aliases and RTL registers
   that hold the cell's current value, st the stores of last_set it executed, rw
   the raw copies that are current, sn the FPR slots whose value may be an SNaN,
   tg what it has learnt of the conditions of this instruction. *)
Holds(S, r)    == {q[2] : q \in {z \in S : z[1] = r}}
Without(S, R)  == {q \in S : q[1] \notin R}
Stale(S, W)    == {q \in S : q[2] \notin W}
Put(S, r, N)   == Without(S, {r}) \cup {<<r, c>> : c \in N}
OnPaths(g, Op(_)) == [g EXCEPT !.cur = {Op(p) : p \in @}]
Fault(g, what, bad) == IF bad THEN [g EXCEPT !.fault = @ \cup {what}] ELSE g
Requires(g, what, OK(_)) == Fault(g, what, \E p \in g.cur : ~OK(p))

(* The guest's registers W get new values: every other copy is out of date. *)
RawOf(r) == IF r \in Ps1s THEN {r, CHOOSE f \in FPRs : Ps1Of[f] = r} ELSE {r}
Written(p, W) ==
  [p EXCEPT !.al = Stale(@, W), !.rg = Stale(@, W),
            !.rw = {r \in @ : RawOf(r) \cap W = {}}, !.sn = @ \ W]

(* The alias of r is accessed: init_unit() has made one for what the scan marked. *)
Access(g, r) == Fault(g, "no alias", r \notin g.may)

AnyAlias(g) == [g EXCEPT !.may = Regs]

(***************************** Reading registers ******************************)

(* GET_ALIAS into the RTL register t. *)
ReadAlias(g, r, t) ==
  LET h == Requires(Access(g, r), "stale", LAMBDA p : AliasCells(r) \subseteq Holds(p.al, r))
  IN  OnPaths([h EXCEPT !.seen = IF \E p \in g.cur : r \in p.st THEN @ \cup {r} ELSE @],
              LAMBDA p : [p EXCEPT !.rg = Put(@, t, Holds(p.al, r))])

LiveRead(g, r) == Requires(g, "stale", LAMBDA p : LiveCells(g, r) \subseteq Holds(p.rg, r))

(* get_gpr(), get_fpr(), get_cr(), get_lr(), get_ctr(), get_xer(), get_fpscr(). *)
GetReg(g, r) ==
  IF r \in g.live THEN LiveRead(g, r)
  ELSE [ReadAlias(g, r, r) EXCEPT !.live = @ \cup {r},
          !.ty = IF r \in FPRs THEN [@ EXCEPT ![r] = IF Paired(r) THEN "V64" ELSE "F64"] ELSE @]

(* An operand has to be read before the instruction overwrites it. *)
GetOperand(g, r) == GetReg(Fault(g, "late", r \in g.wrote), r)

(* get_crb() and test_crb(): a bit the unit never changes is extracted from CR;
   only get_crb() keeps the extracted bit. *)
CopyOf(g, from, to) == OnPaths(g, LAMBDA p : [p EXCEPT !.rg = Put(@, to, Holds(p.rg, from))])
CopyLive(g, from, to) ==
  OnPaths([g EXCEPT !.live = @ \cup {to}],
          LAMBDA p : [p EXCEPT !.rg = Put(@, to, Holds(p.rg, from) \cap Own(to))])
BitFromCR(g, b, keep) ==
  LET h == GetReg(g, "cr") IN IF keep /\ mode.split THEN CopyLive(h, "cr", FieldOf[b]) ELSE h
GetCrb(g, b) ==
  CASE FieldOf[b] \in g.live     -> LiveRead(g, FieldOf[b])
    [] mode.split /\ b # "cru"   -> GetReg(g, FieldOf[b])
    [] OTHER                     -> BitFromCR(g, b, TRUE)
TestCrb(g, b) ==
  CASE FieldOf[b] \in g.live     -> LiveRead(g, FieldOf[b])
    [] mode.split /\ b # "cru"   -> GetReg(g, FieldOf[b])
    [] OTHER                     -> BitFromCR(g, b, FALSE)

(* get_fr_fi_fprf() *)
GetFprf(g) ==
  CASE mode.split         -> GetReg(g, "fprf")
    [] "fpscr" \in g.live -> LiveRead(g, "fpscr")
    [] OTHER              -> ReadAlias(g, "fpscr", "fprf")

(* get_xer_so() *)
GetSo(g) ==
  CASE "so" \in g.live -> LiveRead(g, "so")
    [] mode.split      -> GetReg(g, "so")
    [] OTHER           -> CopyLive(GetReg(g, "xer"), "xer", "so")

(***************************** Writing registers ******************************)

(* rtl_opt_kill_insn() on the store of last_set, made on whichever paths. *)
Unstored(p, r) == IF r \in p.st THEN [p EXCEPT !.al = Without(@, {r}), !.st = @ \ {r}] ELSE p
KillStore(g, r) ==
  IF r \notin g.last THEN g
  ELSE [Fault(g, "killed", r \in g.seen) EXCEPT
          !.cur = {Unstored(p, r) : p \in @},
          !.park = {<<q[1], Unstored(q[2], r)>> : q \in @}, !.seen = @ \ {r}]

(* SET_ALIAS alone: W are cells whose new value it stores, the others are copied
   from the RTL register src. *)
AfterSet(p, r, W, src) == W \cup (Holds(p.rg, src) \cap MergedOwn[r])
WriteAlias(g, r, W, src) ==
  OnPaths([Access(g, r) EXCEPT !.wrote = @ \cup W],
          LAMBDA p : [Written(p, W) EXCEPT !.al = Put(@, r, AfterSet(p, r, W, src))])

(* set_gpr(), set_cr(), set_lr(), set_ctr(), set_fpscr(), and set_xer() without
   its SO part. *)
SetReg(g, r, W, src) ==
  LET h == WriteAlias(KillStore(g, r), r, W, src)
  IN  OnPaths([h EXCEPT !.live = @ \cup {r}, !.last = @ \cup {r}, !.raw = @ \ {r}],
              LAMBDA p : [p EXCEPT !.rg = Put(@, r, Holds(p.al, r)), !.st = @ \cup {r}])

(* The SO part of set_xer(): a copy in an alias of its own, or none at all. *)
SetSo(g, imm) ==
  CASE mode.split    -> [SetReg(AnyAlias(g), "so", {}, "xer") EXCEPT !.may = g.may]
    [] imm           -> CopyLive(g, "xer", "so")
    [] OTHER         -> [g EXCEPT !.live = @ \ {"so"}]
SetXer(g, W, so) ==
  LET h == SetReg(g, "xer", W, "xer") IN IF so = "keep" THEN h ELSE SetSo(h, so = "imm")

(* set_crb(), set_crf() *)
SetCrb(g, b) ==
  IF mode.split THEN SetReg(g, FieldOf[b], {b}, FieldOf[b])
  ELSE SetReg(GetReg(g, "cr"), "cr", {b}, "cr")

(* set_fr_fi_fprf(), set_fr_fi_fprf_and_flush() *)
SetFprf(g) ==
  IF mode.split THEN SetReg(g, "fprf", {"fprf"}, "fprf")
  ELSE SetReg(GetReg(g, "fpscr"), "fpscr", {"fprf"}, "fpscr")

(* Entries of live and last_set are cleared. *)
Unlast(g, R) == OnPaths([g EXCEPT !.last = @ \ R, !.seen = @ \ R,
                                  !.park = {<<q[1], [q[2] EXCEPT !.st = @ \ R]>> : q \in @}],
                        LAMBDA p : [p EXCEPT !.st = @ \ R])
Drop(g, R)   == [Unlast(g, R) EXCEPT !.live = @ \ R]
SetFprfAndFlush(g) == Drop(SetFprf(g), {IF mode.split THEN "fprf" ELSE "fpscr"})

(* flush_gpr() *)
FlushGpr(g, r) == [Drop(g, {r}) EXCEPT !.raw = @ \ {r}]

(***************************** Floating point *********************************)

(* set_fpr(): a double-precision value goes into the first slot alone.  src says
   what is written: a new value of the guest's register ("new"), the one it had
   before the instruction ("dsave"), or something else for the time being
   ("temp").  n names the cells from which an SNaN may reach each slot. *)
SafeBits(f) == {f, Ps1Of[f]}
KeepsPs1(g, f, t) == f \in g.live /\ t = "F64" /\ g.ty[f] # "F64"
NewType(g, f, t)  == IF KeepsPs1(g, f, t) /\ (IsVec(g.ty[f]) \/ Paired(f)) THEN "V64" ELSE t
StoresPs1(g, f, t) == KeepsPs1(g, f, t) /\ NewType(g, f, t) = "F64"
ValueCells(f, t)  == IF t = "F64" THEN {f} ELSE SafeBits(f)
SNaNs(p, f, t, n) == {c \in ValueCells(f, t) : p.sn \cap (IF c = f THEN n[1] ELSE n[2]) # {}}
PathSetFpr(g, p, f, t, src, n) ==
  LET W     == IF src = "new" THEN ValueCells(f, t) ELSE {}
      value == IF src = "new" THEN W ELSE Holds(p.rg, src) \cap ValueCells(f, t)
      ps1   == IF KeepsPs1(g, f, t) THEN Holds(p.rg, f) \cap {Ps1Of[f]} ELSE {}
      al    == IF StoresPs1(g, f, t) THEN Put(p.al, Ps1Of[f], ps1) ELSE p.al
  IN  [Written([p EXCEPT !.al = al], W) EXCEPT
         !.rg = Put(@, f, value \cup (IF StoresPs1(g, f, t) THEN {} ELSE ps1)),
         !.sn = @ \cup (IF src = "new" THEN SNaNs(p, f, t, n) ELSE {})]
SetFpr(g, f, t, src, n) ==
  [Access(g, f) EXCEPT !.cur = {PathSetFpr(g, p, f, t, src, n) : p \in @}, !.ty[f] = NewType(g, f, t),
            !.live = @ \cup {f}, !.dirty = @ \cup {f}, !.raw = @ \ SafeBits(f),
            !.wrote = @ \cup (IF src = "new" THEN ValueCells(f, t) ELSE {})]

(* flush_fpr().  convert_fpr() completes a scalar of a paired register with the
   second slot that the alias has; single precision fills both slots. *)
FlushedAlias(g, p, f) ==
  LET v == Holds(p.rg, f) \cap LiveCells(g, f) IN
  IF g.ty[f] = "F64"
    THEN Put(p.al, f, v \cup (IF Paired(f) THEN Holds(p.al, f) \cap {Ps1Of[f]} ELSE {}))
    ELSE IF Paired(f) THEN Put(p.al, f, v)
    ELSE Put(Put(p.al, f, v \cap {f}), Ps1Of[f], v \ {f})
StoreFpr(g, f) ==
  IF f \notin g.dirty THEN g
  ELSE [g EXCEPT !.cur = {[p EXCEPT !.al = FlushedAlias(g, p, f)] : p \in @},
                 !.dirty = @ \ {f}]
FlushFpr(g, f, clear) ==
  LET h == StoreFpr(g, f)
  IN  [h EXCEPT !.live = IF clear THEN @ \ {f} ELSE @,
                !.safe = IF clear THEN @ \ SafeBits(f) ELSE @, !.raw = @ \ SafeBits(f)]
MarkSafe(g, f, t) == [g EXCEPT !.safe = @ \cup ValueCells(f, t)]
SetFprAndFlush(g, f, t, src, n, safe) ==
  LET h == SetFpr(g, f, t, src, n)
  IN  FlushFpr(IF safe THEN MarkSafe(h, f, t) ELSE h, f, TRUE)

(* get_fpr_as_type().  A pair of singles that is needed as a double is stored. *)
GetFprAs(g, f, t) ==
  LET h == GetReg(g, f) IN
  CASE h.ty[f] = "V32" /\ t = "F64" ->
         OnPaths([Fault(h, "assert", ~Paired(f)) EXCEPT !.ty[f] = "V64", !.raw = @ \ {f}],
                 LAMBDA p : [p EXCEPT !.al = Put(@, f, Holds(p.rg, f))])
    [] h.ty[f] = "F64" /\ IsVec(t) ->
         Requires(Fault(h, "assert", ~Paired(f)), "stale", LAMBDA p : Ps1Of[f] \in Holds(p.al, f))
    [] OTHER -> h
FprOperandAs(g, f, t) == GetFprAs(Fault(g, "late", f \in g.wrote), f, t)

(* get_ps1() *)
GetPs1(g, f) == Fault(GetOperand(g, f), "assert", f \in g.live /\ g.ty[f] = "F64")

(* get_fpr_scalar_type(), and the type in which an instruction works on the FPRs
   fs: single precision if all of them have it (or any, with
   SINGLE_PREC_INPUTS). *)
ScalarType(g, f) == IF f \in g.live /\ g.ty[f] \in {"F32", "V32"} THEN "F32" ELSE "F64"
OperandType(g, fs, rule) ==
  LET single == {n \in DOMAIN fs : ScalarType(g, fs[n]) = "F32"}
      small  == IF mode.sp_inputs /\ rule \in {"single", "paired"} THEN single # {}
                ELSE single = DOMAIN fs
  IN  CASE rule \in Types -> rule
        [] rule \in {"single", "own"}  -> IF small THEN "F32" ELSE "F64"
        [] rule \in {"paired", "both"} -> IF small THEN "V32" ELSE "V64"

(* set_fpscr_exceptions(): sets exception bits in a copy of FPSCR that was read
   before, or in the alias as it is (then "now"). *)
SetExceptions(g, when) ==
  LET h == IF when = "now" THEN ReadAlias(g, "fpscr", "fsave") ELSE g
  IN  WriteAlias(Requires(h, "stale", LAMBDA p : Own("fpscr") \subseteq Holds(p.rg, "fsave")),
                 "fpscr", {"ctl"}, "fsave")

(***************************** Flushing and leaving ***************************)

FlushDirty(g) ==
  LET h == IF "f1" \in g.dirty THEN FlushFpr(g, "f1", FALSE) ELSE g
  IN  IF "f2" \in h.dirty THEN FlushFpr(h, "f2", FALSE) ELSE h

(* flush_live_regs() *)
BugFlushLiveRegs(g, clear) ==
  IF clear THEN [Drop(FlushDirty(g), Regs) EXCEPT !.safe = {}] ELSE FlushDirty(g)
FlushLiveRegs(g, clear) ==
  LET h == FlushDirty(g)
  IN  IF clear THEN [Drop(h, Regs) EXCEPT !.safe = {}]
      ELSE Unlast(h, PsbAliases \ FPRs)

(* merge_cr(), guest_ppc_flush_cr(): each cell comes from the register that "from"
   names.  The aliases involved are there whenever there is something to merge. *)
AllOfCR == {"cr0", "cr1", "cru"}
Merged(g, from) ==
  OnPaths(g, LAMBDA p : [p EXCEPT !.rg =
    Put(@, "merged", {c \in DOMAIN from : <<from[c], c>> \in p.rg})])
OldValue(g, r, live) ==
  IF live \/ r \in g.live THEN CopyOf(GetReg(g, r), r, "old") ELSE ReadAlias(g, r, "old")
MergeCr(g, live) ==
  Merged(GetCrb(GetCrb(OldValue(AnyAlias(g), "cr", live), "cr0"), "cr1"),
         [cr0 |-> "crb0", cr1 |-> "crb1", cru |-> "old"])
StoreMerged(g, r) == OnPaths(g, LAMBDA p : [p EXCEPT !.al = Put(@, r, Holds(p.rg, "merged"))])
FlushCr(g, live) ==
  LET h == IF live THEN SetReg(MergeCr(g, TRUE), "cr", {}, "merged")
           ELSE StoreMerged(MergeCr(g, FALSE), "cr")
      k == IF live THEN Drop(h, {"crb0", "crb1", "crbu"}) ELSE h
  IN  IF mode.split THEN [k EXCEPT !.may = g.may] ELSE g

(* merge_fpscr(), guest_ppc_flush_fpscr() *)
MergeFpscr(g, live) ==
  Merged(GetFprf(OldValue(AnyAlias(g), "fpscr", live)), [ctl |-> "old", fprf |-> "fprf"])
FlushFpscr(g) ==
  LET h == StoreMerged(MergeFpscr(g, FALSE), "fpscr")
      k == IF "fpscr" \in h.live THEN Unlast(CopyOf(h, "merged", "fpscr"), {"fpscr"}) ELSE h
  IN  IF mode.split THEN [k EXCEPT !.may = g.may] ELSE g

(* Where a cell is while no block is active, and where the caller of translated
   code finds it. *)
PsbHome == [c \in Cells |->
  CASE c \in GPRs \cup FPRs \cup {"lr", "ctr"} -> c
    [] c \in AllOfCR -> "cr"   [] c \in {"so", "ca"} -> "xer"
    [] c \in {"ctl", "fprf"} -> "fpscr"
    [] c = "f1s" -> "f1"       [] c = "f2s" -> "f2"]
HomeInPsb(c) == IF c \in Ps1s /\ ~Paired(PsbHome[c]) THEN c ELSE PsbHome[c]
Home(c) == CASE mode.split /\ c \in {"cr0", "cr1"} -> FieldOf[c]
             [] mode.split /\ c = "fprf" -> "fprf"
             [] OTHER -> HomeInPsb(c)
AtHome(p)     == \A c \in Cells : <<Home(c), c>> \in p.al
InPsb(p)      == \A c \in Cells : <<HomeInPsb(c), c>> \in p.al
Consistent(p) == AtHome(p) /\ (mode.split => <<"so", "so">> \in p.al)

(* Control leaves: for the epilogue (which merges CR and FPSCR), for the caller,
   or for code outside that looks at the processor state and comes back. *)
Sees(g, rs) == [g EXCEPT !.seen = @ \cup (rs \cap UNION {p.st : p \in g.cur})]
Look(g, how) ==
  Sees(Requires(g, "lost", LAMBDA p : IF how = "call" THEN InPsb(p) ELSE AtHome(p)), PsbAliases)
Leave(g, how) ==
  [Sees(Requires(g, "lost", LAMBDA p : IF how = "return" THEN InPsb(p) ELSE Consistent(p)), Regs)
     EXCEPT !.cur = {}]
=============================================================================
