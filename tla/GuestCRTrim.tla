------------------------------ MODULE GuestCRTrim ------------------------------
(* The TRIM_CR_STORES optimization (guest-ppc-scan.c, guest-ppc-optimize.c,
   guest-ppc-rtl.c): scan_cr_bits() finds the CR bits which every path from a
   block overwrites before they are read, and the translation of a block then
   leaves out the stores of such bits or moves them to the path that needs them.

   CR bits do not affect one another, so one bit is modelled.  A block is the
   sequence of its accesses to the bit ("mfcr" reads all of CR) and the way it
   ends; its code is chosen when the recursion first reaches it.  In a unit with
   its stores trimmed, any path is then executed. *)
EXTENDS Integers, Sequences, FiniteSets, SequencesExt

CONSTANTS NumBlocks,   \* blocks of the unit
          Bodies       \* the accesses to the bit that a block may make

Accesses == {"set", "use", "mfcr"}
ASSUME TrimAssumption ==
  NumBlocks \in Nat \ {0} /\ Bodies \subseteq Seq(Accesses)

Blocks == 0..(NumBlocks - 1)
None   == -1   \* no such block: outside the unit

(* A block falls into the next one, ends in a system call or trap, or in a branch:
   b and bc stay in the unit if they have a target, bl and bcl leave it, and so does
   blr, any unconditional branch to LR or CTR (a conditional one is a bc without a
   target). *)
Ends   == [op : {"fall", "sc", "trap", "b", "bc", "blr"}, target : {None}]
            \cup [op : {"b", "bc", "bl", "bcl"}, target : Blocks]
Code   == [body : Bodies, end : Ends]

VARIABLES
  code,        \* the blocks that the recursion has reached
  recursive,   \* the blocks whose crb_changed_recursive has the bit
  stack,       \* active calls of scan_cr_bits(), innermost last
  stage,       \* "scan", "run" while translated code runs, "left" after it
  at,          \* block that runs next, or where the guest goes on, or None
  fresh,       \* the alias of the bit holds the value the guest expects
  stale_read,  \* a value the guest does not expect was used
  lost         \* translate_branch_terminal() was given a store for the next block

trimVars == <<code, recursive, stack, stage, at, fresh, stale_read, lost>>

Visited     == DOMAIN code
Following(b) == IF b + 1 \in Blocks THEN b + 1 ELSE None
IsConditional(b) == code[b].end.op \in {"bc", "bcl"}
HasBranch(b)     == code[b].end.op \in {"b", "bc", "bl", "bcl", "blr"}
IsReturn(b)      == code[b].end.op = "blr"
HasTrap(b)       == code[b].end.op = "trap"

(* The edges that scan_branches() records.  A blr gets the one of a block that falls
   through, though branch_block is documented to be "-1 if block is terminal". *)
BranchBlock(b) == IF HasBranch(b) /\ ~IsReturn(b) THEN code[b].end.target ELSE Following(b)
NextBlock(b)   == IF IsConditional(b) THEN Following(b) ELSE None

(* The flags that update_used_changed() sets as it goes through a block. *)
NoMarks == [used |-> FALSE, changed |-> FALSE, cr_used |-> FALSE]
Mark(m, access) ==
  CASE access = "use"  -> [m EXCEPT !.used = @ \/ ~m.changed]
    [] access = "set"  -> [m EXCEPT !.changed = TRUE]
    [] access = "mfcr" -> [m EXCEPT !.cr_used = TRUE]
MarksIn(s) == LET m[i \in 0..Len(s)] == IF i = 0 THEN NoMarks ELSE Mark(m[i - 1], s[i]) IN m
Marks(b)   == MarksIn(code[b].body)[Len(code[b].body)]

TrimInit ==
  /\ code \in [{0} -> Code]
  /\ recursive = {}
  /\ stack = <<0>>
  /\ stage = "scan" /\ at = 0
  /\ fresh = TRUE /\ stale_read = FALSE /\ lost = FALSE

(******************************** scan_cr_bits() ********************************)

Unvisited(b) == {BranchBlock(b), NextBlock(b)} \cap (Blocks \ Visited)
FirstUnvisited(b) == IF BranchBlock(b) \in Unvisited(b) THEN BranchBlock(b) ELSE NextBlock(b)

Descend ==
  /\ stage = "scan" /\ stack # <<>>
  /\ Unvisited(Last(stack)) # {}
  /\ LET b == FirstUnvisited(Last(stack))
     IN  /\ \E c \in Code : code' = [k \in Visited \cup {b} |-> IF k = b THEN c ELSE code[k]]
         /\ stack' = Append(stack, b)
  /\ UNCHANGED <<recursive, stage, at, fresh, stale_read, lost>>

SuccessorChanged(b) ==
  /\ ~HasTrap(b)
  /\ BranchBlock(b) \in recursive
  /\ IsConditional(b) => NextBlock(b) \in recursive
BugChangedRecursive(b) == /\ ~Marks(b).cr_used
                          /\ Marks(b).changed \/ (SuccessorChanged(b) /\ ~Marks(b).used)
ChangedRecursive(b) ==
  /\ ~Marks(b).cr_used
  /\ Marks(b).changed \/ SuccessorChanged(b)
  /\ ~Marks(b).used

Return ==
  /\ stage = "scan" /\ stack # <<>>
  /\ Unvisited(Last(stack)) = {}
  /\ recursive' = IF ChangedRecursive(Last(stack)) THEN recursive \cup {Last(stack)} ELSE recursive
  /\ stack' = Front(stack)
  /\ UNCHANGED <<code, stage, at, fresh, stale_read, lost>>

(* init_unit() loads the bit into its alias, unless the unit never reads it. *)
BugNeedLoad == FALSE
NeedLoad == 0 \notin recursive
Enter ==
  /\ stage = "scan" /\ stack = <<>>
  /\ stage' = "run"
  /\ fresh' = NeedLoad
  /\ UNCHANGED <<code, recursive, stack, at, stale_read, lost>>

(************************* The code of a translated block *************************)

(* live: a register holds the bit; pending: last_set names its SET_ALIAS; wrong:
   the bit was read from an alias that does not hold it. *)
Entered == [live |-> FALSE, fresh |-> fresh, pending |-> FALSE, wrong |-> FALSE]
Access(s, access) ==
  CASE access = "set"  -> [s EXCEPT !.live = TRUE, !.fresh = TRUE, !.pending = TRUE]
    [] access = "use"  -> [s EXCEPT !.live = TRUE, !.wrong = @ \/ ~(s.live \/ s.fresh)]
    [] access = "mfcr" -> [s EXCEPT !.live = FALSE, !.pending = FALSE,
                                    !.wrong = @ \/ ~(s.live \/ s.fresh)]
States(s) == LET e[i \in 0..Len(s)] == IF i = 0 THEN Entered ELSE Access(e[i - 1], s[i]) IN e
Body(b)   == States(code[b].body)[Len(code[b].body)]

(* guest_ppc_trim_cr_stores() at the end of block b, for a pending store. *)
DeadBranch(b)  == Body(b).pending /\ BranchBlock(b) \in recursive
BugDeadNext(b) == DeadBranch(b)
DeadNext(b)    == Body(b).pending /\ IF IsConditional(b) THEN NextBlock(b) \in recursive
                                                         ELSE DeadBranch(b)
ToKill(b)      == DeadBranch(b) /\ DeadNext(b)
StoreBranch(b) == DeadNext(b) /\ ~ToKill(b)
StoreNext(b)   == DeadBranch(b) /\ ~ToKill(b)
Removed(b)     == ToKill(b) \/ StoreBranch(b) \/ StoreNext(b)

Inward(b)   == code[b].end.op \in {"b", "bc"} /\ code[b].end.target # None
Terminal(b) == HasBranch(b) /\ ~Inward(b)

(* A terminal branch trims only if it is conditional, and a block that ends in
   sc has been flushed by then. *)
Trims(b) == IF HasBranch(b) THEN Inward(b) \/ IsConditional(b)
                            ELSE code[b].end.op = "fall"
Kept(b)          == Body(b).fresh /\ ~(Trims(b) /\ Removed(b))
FreshOnBranch(b) == Kept(b) \/ (Trims(b) /\ StoreBranch(b))
FreshOnNext(b)   == Kept(b) \/ (Trims(b) /\ StoreNext(b) /\ ~Terminal(b))

Executed(b) ==
  /\ stage = "run" /\ at = b
  /\ stale_read' = (stale_read \/ Body(b).wrong)
  /\ lost' = (lost \/ (Terminal(b) /\ IsConditional(b) /\ StoreNext(b)))
  /\ UNCHANGED <<code, recursive, stack>>

(* The guest goes on at block t, in this unit or after leaving it. *)
GoTo(t, isFresh)  == at' = t /\ fresh' = isFresh /\ stage' = (IF t = None THEN "left" ELSE "run")
Leave(t, isFresh) == at' = t /\ fresh' = isFresh /\ stage' = "left"

FallThrough(b) ==
  /\ Executed(b) /\ code[b].end.op \in {"fall", "trap"}
  /\ GoTo(Following(b), FreshOnNext(b))

TakeTrap(b) ==
  /\ Executed(b) /\ HasTrap(b)
  /\ Leave(None, Kept(b))

SystemCall(b) ==
  /\ Executed(b) /\ code[b].end.op = "sc"
  /\ Leave(Following(b), Kept(b))

TakeBranch(b) ==
  /\ Executed(b) /\ HasBranch(b)
  /\ IF Inward(b) THEN GoTo(code[b].end.target, FreshOnBranch(b))
                  ELSE Leave(code[b].end.target, FreshOnBranch(b))

NotTaken(b) ==
  /\ Executed(b) /\ IsConditional(b)
  /\ GoTo(Following(b), FreshOnNext(b))

TrimNext == \/ Descend \/ Return \/ Enter
            \/ \E b \in Visited : \/ FallThrough(b) \/ TakeTrap(b) \/ SystemCall(b)
                                  \/ TakeBranch(b) \/ NotTaken(b)

TrimSpec == TrimInit /\ [][TrimNext]_trimVars

(********************************* Properties *********************************)

(* Types; the recursion is in blocks that it has reached, each once. *)
TrimTypeOK ==
  /\ Visited \subseteq Blocks /\ \A b \in Visited : code[b] \in Code
  /\ recursive \subseteq Visited \ ToSet(stack)
  /\ stack \in Seq(Visited) /\ IsInjective(stack)
  /\ stage \in {"scan", "run", "left"} /\ at \in Blocks \cup {None}
  /\ {fresh, stale_read, lost} \subseteq BOOLEAN

(* What the guest program does with the bit, independently of the scan: it needs
   the bit on entry to a block if some path from there reads it, or leaves the
   unit for unknown code, before it is set. *)
ReadsFirst(b) == code[b].body # <<>> /\ Head(code[b].body) # "set"
Passes(b)     == code[b].body = <<>>
FollowedBy(b) == CASE code[b].end.op \in {"fall", "sc"} -> {Following(b)}
                   [] HasTrap(b)                        -> {Following(b), None}
                   [] IsConditional(b)                  -> {code[b].end.target, Following(b)}
                   [] OTHER                             -> {code[b].end.target}
NeedsIn(bs)   == {None} \cup {b \in Visited : ReadsFirst(b)}
                   \cup {b \in Visited : Passes(b) /\ FollowedBy(b) \cap bs # {}}
Needs == {t \in Visited \cup {None} :
            \A bs \in SUBSET (Visited \cup {None}) : NeedsIn(bs) \subseteq bs => t \in bs}

(* Where the recorded edges are wrong: at a blr followed by a marked block.  The error
   reaches that blr, if it leaves the bit alone, and the blocks that lead to it and leave
   the bit alone. *)
Misled(b) == IsReturn(b) /\ Passes(b) /\ Following(b) \in recursive
LeadsIn(bs) == {b \in Visited : Misled(b)}
                 \cup {b \in Visited : Passes(b) /\ FollowedBy(b) \cap bs # {}}
LeadsToReturn == {b \in Visited : \A bs \in SUBSET Visited : LeadsIn(bs) \subseteq bs => b \in bs}

ScanDone == stage = "scan" /\ stack = <<>>

(* scan_cr_bits() marks no block from which the guest could read the old value of the
   bit, whatever the order of the recursion and the cycles it cuts, but for blocks from
   which it returns without touching the bit through a misled blr. *)
MarkedIsNotNeeded == ScanDone => recursive \cap Needs \subseteq LeadsToReturn

(* "...this may prevent us from optimizing out some stores in loops": only in
   loops, and through mfcr, does the analysis miss a bit that is not needed. *)
Recorded(b)   == IF IsReturn(b) THEN {Following(b)} ELSE FollowedBy(b)
Acyclic       == \A bs \in SUBSET Visited : bs # {} => \E b \in bs : Recorded(b) \cap bs = {}
ReadsCR(b)    == "mfcr" \in ToSet(code[b].body)
MarkedIfNoLoop ==
  ScanDone /\ ~(\E b \in Visited : ReadsCR(b)) /\ Acyclic
    => Visited \subseteq recursive \cup Needs

(* The invariant of the scan: types, and the marks, which are wrong only where a blr
   misleads the scan and without loops miss nothing. *)
TrimInv == TrimTypeOK /\ MarkedIsNotNeeded /\ MarkedIfNoLoop

(* "ASSERT(!crb_store_next)": a branch that leaves the unit has no store to move to the
   path that stays in it - unless it is a conditional branch with LK = 1 to a block of
   the unit, marked while the block after the branch is not. *)
LosesStore(b)  == /\ code[b].end.op = "bcl"
                  /\ BranchBlock(b) \in recursive /\ Following(b) \notin recursive
StoreIsPlaced  == lost => \E b \in Visited : LosesStore(b)

(* No path through a unit with trimmed stores, nor through its alias that may be
   left uninitialized on entry, makes the code of the unit use a wrong value of the bit,
   unless the assertion above failed on that path. *)
NoStaleRead == (stale_read => lost) /\ StoreIsPlaced

(* When the guest leaves the unit the bit is in place, unless it goes on at a block of
   this unit whose every path sets the bit first; or that assertion failed, or a misled
   blr leaves, or is what the bit is needed for at the block of this unit where the guest
   goes on. *)
LeavesWithBit ==
  [][stage = "run" /\ stage' = "left" =>
       \/ fresh' \/ lost' \/ Misled(at)
       \/ at' \notin Needs \/ at' \in LeadsToReturn]_trimVars

(* The same two promises without the exceptions. *)
NothingLost == ~lost
BitInPlace  == stage = "left" => fresh \/ at \notin Needs


(************************** Inductive invariant ***************************)

(* The scan: the marks agree with what the recursion would decide of each marked block
   now, the active calls are a path through the recorded edges, and if these have no
   loop a call returns only after those for all the blocks that they lead to. *)
Returned == Visited \ ToSet(stack)
ScanOK ==
  /\ stage = "scan" => at = 0 /\ fresh /\ ~stale_read /\ ~lost
  /\ stage # "scan" => stack = <<>>
  /\ \A b \in recursive : ChangedRecursive(b)
  /\ \A i \in 1..(Len(stack) - 1) : stack[i + 1] \in Recorded(stack[i])
  /\ Acyclic => \A b \in Returned : /\ Recorded(b) \subseteq Returned \cup {None}
                                    /\ ChangedRecursive(b) => b \in recursive

(* The run: until a store is lost, the alias holds the bit wherever the guest may be in the
   unit, except in marked blocks. *)
RunOK ==
  /\ stage = "run" /\ ~lost => fresh \/ at \in recursive
  /\ NoStaleRead

TrimIInv == TrimTypeOK /\ ScanOK /\ RunOK
==============================================================================
