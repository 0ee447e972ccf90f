------------------------------ MODULE HostReload ------------------------------
(* The end of a block in the x86 translator (host-x86-translate.c):
   check_reload_conflicts() and reload_regs_for_block(), which bring the host
   registers into the state a successor block expects.  A block ends in a
   branch to a "taken" block, and may instead fall through to the "next" one.

   What a successor expects of a host register is its role there: it is
     "merge"   host_merge of a GET_ALIAS, to hold what SET_ALIAS last stored: a
               value in a host register, one that is spilled, or one that only
               the alias's storage has;
     "live"    occupied by the same RTL register in both blocks;
     "reload"  occupied, on entry, by a register that is spilled by now (only
               at the end of a loop);
     "free"    none of these.
   The value a host register holds at the branch is named by its number.  GPRs
   and XMM registers are two disjoint instances of the same algorithm. *)
EXTENDS Integers, FiniteSets

CONSTANT NumHosts            \* host registers of a class

ASSUME ReloadAssumption == NumHosts \in Nat \ {0}

VARIABLES
  taken, next,       \* the roles of the host registers in the two successors
  conditional,       \* may the branch fall through?
  backward,          \* is it a backward one?
  liveOut,           \* registers live past the branch
  at,                \* where the generated code has come to
  edge,              \* the roles reload_regs_for_block() is working on
  regs,              \* contents of the host registers
  targets, pass, resolved,      \* move_targets, move_targets_pass, resolved_any
  srcMap, valueMap, srcCount    \* src_map, value_map, src_count

ends       == <<taken, next, conditional, backward, liveOut>>
maps       == <<srcMap, valueMap, srcCount>>
reloadVars == <<ends, at, edge, regs, targets, pass, resolved, maps>>

Hosts    == 0..(NumHosts - 1)
Spilled  == NumHosts             \* values that come from memory
Storage  == NumHosts + 1
Reloaded == NumHosts + 2
Values   == 0..Reloaded
Unset    == -1
RoleKinds == {"merge", "live", "reload", "free"}
Free      == [is |-> "free", from |-> 0]
Roles     == [is : {"merge"}, from : Hosts \cup {Spilled, Storage}]
               \cup [is : {"live", "reload", "free"}, from : {0}]
Of(e, kind)  == {h \in Hosts : e[h].is = kind}
SourcesOf(e) == {e[h].from : h \in Of(e, "merge")} \cap Hosts

(* The register allocator gives a merge a register that is not occupied on
   entry to the block, and leaves what is live where it is up to the first
   instruction of the next one, which may spill it.  A register live at a later
   block is live all the way there; only a backward branch finds registers that
   have been spilled since. *)
EndsMeetAllocation ==
  /\ conditional \in BOOLEAN /\ backward \in BOOLEAN
  /\ taken \in [Hosts -> Roles]
  /\ next \in IF conditional THEN [Hosts -> Roles] ELSE {[h \in Hosts |-> Free]}
  /\ Of(next, "reload") = {} /\ (~backward => Of(taken, "reload") = {})
  /\ liveOut \in SUBSET Hosts
  /\ IF conditional THEN Of(next, "live") \subseteq liveOut /\ Of(next, "merge") \cap liveOut = {}
     ELSE liveOut = {}
  /\ conditional /\ ~backward => Of(taken, "live") \subseteq liveOut

ReloadInit ==
  /\ EndsMeetAllocation
  /\ at = "branch" /\ edge = taken /\ regs = [h \in Hosts |-> h]
  /\ targets = {} /\ pass = {} /\ resolved = FALSE
  /\ srcMap = [h \in Hosts |-> Unset] /\ valueMap = srcMap /\ srcCount = [h \in Hosts |-> 0]

(******************************* Conflicts ********************************)

(* HostX86BlockInfo.end_live: registers live past the branch, and those whose
   values the next block merges, although they may be dead. *)
BugEndLive == liveOut
EndLive    == liveOut \cup SourcesOf(next)

(* check_reload_conflicts().  A merge without a preceding store has source
   register 0, which reads as host register 0. *)
SourceHost(r) == IF r.from \in Hosts THEN {r.from} ELSE IF r.from = Storage THEN {0} ELSE {}
ConflictRegs    == EndLive \cup UNION {SourceHost(taken[h]) : h \in Of(taken, "merge")}
MoveRequired(h) == taken[h].from # h
ReloadConflict    == backward /\ EndLive \cap Of(taken, "reload") # {}
Conflict == \/ \E h \in Of(taken, "merge") : MoveRequired(h) /\ h \in ConflictRegs
            \/ ReloadConflict

(* end_live also holds the former register of a spilled value that the next
   block merges, which may be any. *)
StaleEndLive == \E h \in Of(next, "merge") : next[h].from = Spilled

(* The sense of a conditional branch is inverted if there is a conflict, so
   that the reload code only runs when the branch is taken. *)
Inverted    == conditional /\ (Conflict \/ StaleEndLive)
NotInverted == conditional /\ ~Conflict

(**************************** Register shuffle ****************************)

Moves(e) == {h \in Of(e, "merge") : e[h].from \in Hosts} \cup Of(e, "live")
MoveSource(h) == IF edge[h].is = "live" THEN h ELSE edge[h].from

(* The maps are only written for registers that take part. *)
Setup(e) ==
  LET from(h) == IF e[h].is = "live" THEN h ELSE e[h].from
      used    == {from(h) : h \in Moves(e)} IN
  /\ edge' = e
  /\ targets' = Moves(e) /\ pass' = Moves(e) /\ resolved' = FALSE
  /\ srcMap' = [h \in Hosts |-> IF h \in used THEN h ELSE Unset]
  /\ valueMap' = [h \in Hosts |-> IF h \in used \cup Of(e, "merge") THEN h ELSE Unset]
  /\ srcCount' = [h \in Hosts |-> Cardinality({t \in Moves(e) : from(t) = h})]

ReloadForTaken ==
  /\ at = "branch"
  /\ \/ NotInverted /\ at' = "shuffle_both"
     \/ (Inverted \/ ~conditional) /\ at' = "shuffle_taken"
  /\ Setup(taken)
  /\ UNCHANGED <<ends, regs>>

ReloadForNext ==
  /\ \/ at = "branch" /\ Inverted
     \/ at = "not_taken"
  /\ at' = "shuffle_next"
  /\ Setup(next)
  /\ UNCHANGED <<ends, regs>>

Shuffling == at \in {"shuffle_both", "shuffle_taken", "shuffle_next"}
Lowest(S) == CHOOSE h \in S : \A g \in S : h <= g          \* ctz32()
Dest      == Lowest(pass)
Source(h) == srcMap[MoveSource(h)]

BugStillNeeded(h) == FALSE
StillNeeded(h)    == srcCount[valueMap[h]] > 0

Skip ==
  /\ Shuffling /\ pass # {}
  /\ Source(Dest) # Dest /\ StillNeeded(Dest)
  /\ pass' = pass \ {Dest}
  /\ UNCHANGED <<ends, at, edge, regs, targets, resolved, maps>>

Uncounted(h) == [srcCount EXCEPT ![MoveSource(h)] = @ - 1]

Move ==
  /\ Shuffling /\ pass # {}
  /\ Source(Dest) # Dest => ~StillNeeded(Dest)
  /\ regs' = [regs EXCEPT ![Dest] = regs[Source(Dest)]]
  /\ targets' = targets \ {Dest} /\ pass' = pass \ {Dest} /\ resolved' = TRUE
  /\ srcCount' = Uncounted(Dest)
  /\ UNCHANGED <<ends, at, edge, srcMap, valueMap>>

BugCleared == resolved
Cleared    == FALSE

NewPass ==
  /\ Shuffling /\ pass = {} /\ targets # {} /\ resolved
  /\ pass' = targets /\ resolved' = Cleared
  /\ UNCHANGED <<ends, at, edge, regs, targets, maps>>

(* All that remains is cycles: one target is swapped with its source. *)
BugSrcMapSwapped(d, s) == [srcMap EXCEPT ![MoveSource(d)] = d]
SrcMapSwapped(d, s)    == [srcMap EXCEPT ![valueMap[d]] = s, ![MoveSource(d)] = d]

Swap ==
  /\ Shuffling /\ pass = {} /\ targets # {} /\ ~resolved
  /\ LET d == Lowest(targets)
         s == Source(d) IN
       /\ regs' = [regs EXCEPT ![d] = regs[s], ![s] = regs[d]]
       /\ targets' = targets \ {d} /\ pass' = targets \ {d}
       /\ srcMap' = SrcMapSwapped(d, s)
       /\ valueMap' = [valueMap EXCEPT ![s] = valueMap[d], ![d] = MoveSource(d)]
  /\ UNCHANGED <<ends, at, edge, resolved, srcCount>>

(* The values that come from memory are loaded last. *)
Loaded ==
  [h \in Hosts |-> IF edge[h].is = "merge" /\ edge[h].from \notin Hosts THEN edge[h].from
                   ELSE IF edge[h].is = "reload" THEN Reloaded ELSE regs[h]]

Load ==
  /\ Shuffling /\ targets = {}
  /\ regs' = Loaded
  /\ at' \in CASE at = "shuffle_both"  -> {"at_taken", "not_taken"}
               [] at = "shuffle_taken" -> {"at_taken"}
               [] at = "shuffle_next"  -> {"at_next"}
  /\ UNCHANGED <<ends, edge, targets, pass, resolved, maps>>

ReloadNext == ReloadForTaken \/ ReloadForNext \/ Skip \/ Move \/ NewPass \/ Swap \/ Load
ReloadSpec == ReloadInit /\ [][ReloadNext]_reloadVars

(***************************** Properties *********************************)

ReloadTypeOK ==
  /\ taken \in [Hosts -> Roles] /\ next \in [Hosts -> Roles] /\ edge \in {taken, next}
  /\ liveOut \subseteq Hosts /\ regs \in [Hosts -> Values]
  /\ pass \subseteq targets /\ targets \subseteq Hosts
  /\ srcMap \in [Hosts -> Hosts \cup {Unset}] /\ valueMap \in [Hosts -> Hosts \cup {Unset}]
  /\ srcCount \in [Hosts -> 0..NumHosts]

(* Whatever the moves, the registers of the block that is entered hold what it
   expects: merged values arrive where GET_ALIAS looks for them, and no live
   register has been lost on the way; on the fall-through path, even after the
   reload code of the branch that was not taken.  Registers that nothing is
   expected of keep their values too, if no reload code that runs is about them. *)
Expected(e, h) == CASE e[h].is = "merge"  -> e[h].from
                    [] e[h].is = "reload" -> Reloaded
                    [] OTHER              -> h
PathsDelivered ==
  /\ at = "at_taken" => \A h \in Hosts : regs[h] = Expected(taken, h)
  /\ at = "at_next"  => \A h \in (Hosts \ Of(next, "free")) \cup liveOut \cup Of(taken, "free") :
                           regs[h] = Expected(next, h)

(* src_map and value_map tell where each value is: a target that has not been
   written yet finds its value where they say, and nothing read is unset. *)
MapsTrackValues ==
  Shuffling => \A h \in targets :
    /\ Source(h) \in Hosts /\ valueMap[h] \in Hosts
    /\ regs[Source(h)] = MoveSource(h)

(* "Or it would already be resolved": a swap is between two registers. *)
SwapAssertHolds == Shuffling /\ pass = {} /\ targets # {} /\ ~resolved =>
                     Source(Lowest(targets)) # Lowest(targets)

(* The invariant of the shuffle: types, maps and its assertion. *)
ReloadInv == ReloadTypeOK /\ MapsTrackValues /\ SwapAssertHolds

(* The while (move_targets) loop ends: every step of it resolves a target, or
   starts a pass that has to resolve one, or goes on in its pass; when only
   cycles are left, the swap resolves the target it picks. *)
Remaining == (NumHosts + 1) * (2 * Cardinality(targets) + IF resolved THEN 1 ELSE 0)
               + Cardinality(pass)
ShuffleProgresses == [][Shuffling /\ Shuffling' => Remaining' < Remaining]_reloadVars

(************************** Inductive invariant ***************************)

(* WantedBy(v): the targets that are still to get the value of register v. *)
WantedBy(v) == {h \in targets : MoveSource(h) = v}

(* What the reload code that is running leaves alone, unless it is a target: all
   that was live, and what the code of the other path had no business with. *)
Untouched == EndLive \cup Of(taken, "free")

(* The maps and the registers, at any point of the shuffle.  The value of a target
   that is wanted is recorded there, and only there (so a swap never meets
   a register that is done with); its count is exact, while a swap leaves the count of the
   value it delivers too high; and a pass that resolves nothing has seen
   none but targets whose value is wanted. *)
ShuffleInv ==
  /\ targets \subseteq Moves(edge)
  /\ MapsTrackValues
  /\ \A h \in targets : Source(h) \in targets => valueMap[Source(h)] = MoveSource(h)
  /\ \A h \in targets : WantedBy(valueMap[h]) # {} => srcMap[valueMap[h]] = h
  /\ \A h \in targets : srcCount[valueMap[h]] = Cardinality(WantedBy(valueMap[h]))
  /\ \A v \in Hosts : srcCount[v] >= Cardinality(WantedBy(v))
  /\ \A h \in Moves(edge) \ targets : regs[h] = MoveSource(h)
  /\ \A h \in (IF at = "shuffle_next" THEN Untouched ELSE Hosts) \ Moves(edge) : regs[h] = h
  /\ ~resolved => \A h \in targets \ pass : Source(h) # h /\ StillNeeded(h)

PlacesOK ==
  /\ at \in {"branch", "shuffle_both", "shuffle_taken", "at_taken", "not_taken", "shuffle_next",
             "at_next"}
  /\ at = "branch" => \A h \in Hosts : regs[h] = h
  /\ at \in {"shuffle_both", "shuffle_taken"} => edge = taken
  /\ at = "shuffle_both" => NotInverted
  /\ at = "shuffle_next" => edge = next /\ conditional
  /\ at = "not_taken" => conditional /\ \A h \in Untouched : regs[h] = h

ReloadIInv ==
  ReloadTypeOK /\ EndsMeetAllocation /\ PlacesOK /\ (Shuffling => ShuffleInv) /\ PathsDelivered
==============================================================================
