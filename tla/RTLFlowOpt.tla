------------------------------ MODULE RTLFlowOpt ------------------------------
(* The control-flow passes of rtl_optimize_unit() (rtl.c, rtl-opt.c), in their
   order: decondition, thread_branches, drop_dead_blocks, drop_dead_branches.

   A block is reduced to whether it holds an instruction other than NOP and
   LABEL, and to the instruction that ends it.  The block with number l begins
   with label l (rtl-insn.c: a label always begins a block, so no block has
   two); a label that no branch names stands for none at all.  Of the block
   table only the exits of each block and the code stream are kept: RTLBlocks
   shows that the rest agrees with them.  Each iteration of a loop is a step. *)
EXTENDS Integers, FiniteSets, Sequences, SequencesExt

CONSTANTS NumBlocks,          \* blocks of the unit; the last returns, or does nothing
          AllowBranchToNext   \* may a conditional branch go to the next block?

ASSUME FlowAssumption == NumBlocks \in Nat \ {0} /\ AllowBranchToNext \in BOOLEAN

None   == -1
Blocks == 0..(NumBlocks - 1)
Regs   == {"a", "zero"}      \* a register of unknown value, and a constant 0
Conds  == {"if_z", "if_nz"}

VARIABLES
  body,      \* [Blocks -> BOOLEAN]: the block does something
  term,      \* the instruction that ends each block
  exits,     \* RTLBlock.exits, the used slots
  live,      \* blocks of the code stream, in order of index
  labelled,  \* labels still in label_blockmap
  pass, at,  \* the pass in progress and the block it has come to
  scan,      \* locals of thread_branch()
  used,      \* labels flagged by drop_dead_branches()
  source     \* history variable: the program as it was finalized

code     == <<body, term>>
flowVars == <<body, term, exits, live, labelled, pass, at, scan, used, source>>

Falls     == [op |-> "none", reg |-> "zero", label |-> 0]
Terms     == {Falls, [Falls EXCEPT !.op = "return"]}
               \cup [op : {"goto"}, reg : {"zero"}, label : Blocks]
               \cup [op : Conds, reg : Regs, label : Blocks]
NoScan    == [to |-> None, seen |-> {}, label |-> None]
IsBranch(t) == t.op \in {"goto"} \cup Conds

(* Successors of block b in program t, with the fall-through edge first, as
   make_goto_cond(), make_label() and add_block_edges() leave them. *)
EdgesOf(t, b) ==
  LET fall == IF t[b].op \in {"none"} \cup Conds /\ b + 1 < NumBlocks THEN <<b + 1>> ELSE <<>>
  IN  IF IsBranch(t[b]) /\ ~Contains(fall, t[b].label) THEN Append(fall, t[b].label) ELSE fall

Programs == {t \in [Blocks -> Terms] :
               /\ t[NumBlocks - 1].op \in {"return", "none"}
               /\ AllowBranchToNext \/ \A b \in Blocks : t[b].op \in Conds => t[b].label # b + 1}

FlowInit ==
  /\ term \in Programs
  /\ body \in [Blocks -> BOOLEAN] /\ body[0]
  /\ body[NumBlocks - 1] <=> term[NumBlocks - 1].op = "return"
  /\ exits = [b \in Blocks |-> EdgesOf(term, b)]
  /\ live = Blocks /\ labelled = Blocks
  /\ pass \in {"decondition", "thread"}      \* BINREC_OPT_DECONDITION on or off
  /\ at = 0 /\ scan = NoScan /\ used = {}
  /\ source = code

(* next_block of block b in a stream s, and unit->blocks[b].next_block. *)
NextIn(s, b) == LET later == {c \in s : c > b}
                IN  IF later = {} THEN None ELSE CHOOSE c \in later : \A d \in later : c <= d
NextLive(b)  == NextIn(live, b)
GoOn == at' = NextLive(at)

EndOfPass(p, q) == /\ pass = p /\ at = None
                   /\ pass' = q /\ at' = 0

(* rtl_block_remove_edge() and rtl_block_add_edge() on the exits. *)
Without(e, i)  == RemoveAt(e, i)
With(e, t)     == IF Contains(e, t) THEN e ELSE Append(e, t)

(****************************** decondition *******************************)

(* "If the block has multiple exits, the last one must be a conditional
   branch." *)
ConstantBranch(b) == Len(exits[b]) = 2 /\ term[b].reg = "zero"
FallThroughExit(b) == IF exits[b][1] = b + 1 THEN 1 ELSE 2
TakenWhen(b)       == term[b].op = "if_z"

BugDeconditionTaken ==     \* the edge that is followed is the one removed
  /\ pass = "decondition" /\ at # None
  /\ ConstantBranch(at) /\ TakenWhen(at)
  /\ term' = [term EXCEPT ![at] = [op |-> "goto", reg |-> "zero", label |-> @.label]]
  /\ exits' = [exits EXCEPT ![at] = Without(@, 3 - FallThroughExit(at))]
  /\ GoOn
  /\ UNCHANGED <<body, live, labelled, pass, scan, used, source>>

DeconditionTaken ==
  /\ pass = "decondition" /\ at # None
  /\ ConstantBranch(at) /\ TakenWhen(at)
  /\ term' = [term EXCEPT ![at] = [op |-> "goto", reg |-> "zero", label |-> @.label]]
  /\ exits' = [exits EXCEPT ![at] = Without(@, FallThroughExit(at))]
  /\ GoOn
  /\ UNCHANGED <<body, live, labelled, pass, scan, used, source>>

DeconditionNever ==
  /\ pass = "decondition" /\ at # None
  /\ ConstantBranch(at) /\ ~TakenWhen(at)
  /\ term' = [term EXCEPT ![at] = Falls]
  /\ exits' = [exits EXCEPT ![at] = Without(@, 3 - FallThroughExit(at))]
  /\ GoOn
  /\ UNCHANGED <<body, live, labelled, pass, scan, used, source>>

DeconditionSkip ==
  /\ pass = "decondition" /\ at # None
  /\ ~ConstantBranch(at)
  /\ GoOn
  /\ UNCHANGED <<code, exits, live, labelled, pass, scan, used, source>>

DeconditionEnd ==
  /\ EndOfPass("decondition", "thread")
  /\ UNCHANGED <<code, exits, live, labelled, scan, used, source>>

(**************************** thread_branches *****************************)

ThreadBegin ==
  /\ pass = "thread" /\ at # None
  /\ IsBranch(term[at])
  /\ pass' = "scan"
  /\ scan' = [to |-> term[at].label, seen |-> {at}, label |-> None]
  /\ UNCHANGED <<code, exits, live, labelled, at, used, source>>

ThreadSkip ==
  /\ pass = "thread" /\ at # None
  /\ ~IsBranch(term[at])
  /\ GoOn
  /\ UNCHANGED <<code, exits, live, labelled, pass, scan, used, source>>

(* The scan passes over NOPs and labels, from one block into the next in order
   of instructions, and follows GOTOs and branches on the same condition. *)
BugFollowed(t) == t.op = "goto" \/ t.op = term[at].op
Followed(t) == t.op = "goto" \/ (t.op = term[at].op /\ t.reg = term[at].reg)
Scanning    == pass = "scan" /\ scan.to < NumBlocks /\ ~body[scan.to]

ScanFallThrough ==
  /\ Scanning
  /\ term[scan.to].op = "none"
  /\ scan' = [scan EXCEPT !.to = @ + 1]
  /\ UNCHANGED <<code, exits, live, labelled, pass, at, used, source>>

BugNowSeen(t) == scan.seen
NowSeen(t)    == scan.seen \cup {t}

ScanFollow ==
  /\ Scanning
  /\ Followed(term[scan.to])
  /\ LET l == term[scan.to].label IN
       /\ l \notin scan.seen
       /\ scan' = [to |-> l, seen |-> NowSeen(l), label |-> l]
  /\ UNCHANGED <<code, exits, live, labelled, pass, at, used, source>>

EndThread == /\ pass' = "thread" /\ scan' = NoScan /\ GoOn
             /\ UNCHANGED <<body, live, labelled, used, source>>

ScanCycle ==      \* new_label = 0
  /\ Scanning
  /\ Followed(term[scan.to])
  /\ term[scan.to].label \in scan.seen
  /\ EndThread
  /\ UNCHANGED <<term, exits>>

ScanStops == /\ pass = "scan"
             /\ Scanning => term[scan.to].op # "none" /\ ~Followed(term[scan.to])

ThreadNothing ==
  /\ ScanStops
  /\ scan.label = None
  /\ EndThread
  /\ UNCHANGED <<term, exits>>

ThreadExit(b) == IF Len(exits[b]) = 2 /\ exits[b][2] = term[b].label THEN 2 ELSE 1
Threaded(b)   == Without(exits[b], ThreadExit(b))

ThreadBranch ==
  /\ ScanStops
  /\ scan.label # None
  /\ exits' = [exits EXCEPT ![at] = With(Threaded(at), scan.label)]
  /\ term' = [term EXCEPT ![at].label = scan.label]
  /\ EndThread

(* The new edge may be refused for lack of memory; the old one is put back. *)
ThreadRefused ==
  /\ ScanStops
  /\ scan.label # None /\ ~Contains(Threaded(at), scan.label)
  /\ exits' = [exits EXCEPT ![at] = With(Threaded(at), term[at].label)]
  /\ EndThread
  /\ UNCHANGED term

ThreadEnd ==
  /\ EndOfPass("thread", "drop")
  /\ UNCHANGED <<code, exits, live, labelled, scan, used, source>>

(************************* dead blocks and branches ***********************)

ExitsClosed(C) == \A b \in C : ToSet(exits[b]) \subseteq C
Reached == CHOOSE C \in SUBSET live :
             /\ 0 \in C /\ ExitsClosed(C)
             /\ \A D \in SUBSET C : 0 \in D /\ ExitsClosed(D) => D = C

DropDeadBlocks ==
  /\ pass = "drop"
  /\ live' = Reached
  /\ labelled' = labelled \cap live'
  /\ body' = [b \in Blocks |-> body[b] /\ b \in live']
  /\ term' = [b \in Blocks |-> IF b \in live' THEN term[b] ELSE Falls]
  /\ exits' = [b \in Blocks |-> IF b \in live' THEN exits[b] ELSE <<>>]
  /\ pass' = "branches"
  /\ UNCHANGED <<at, scan, used, source>>

BranchToNext ==
  /\ pass = "branches" /\ at # None
  /\ IsBranch(term[at]) /\ term[at].label = NextLive(at)
  /\ term' = [term EXCEPT ![at] = Falls]
  /\ GoOn
  /\ UNCHANGED <<body, exits, live, labelled, pass, scan, used, source>>

BugUsedWith(l) == {l}
UsedWith(l)    == used \cup {l}

BranchKept ==
  /\ pass = "branches" /\ at # None
  /\ IsBranch(term[at]) /\ term[at].label # NextLive(at)
  /\ used' = UsedWith(term[at].label)
  /\ GoOn
  /\ UNCHANGED <<code, exits, live, labelled, pass, scan, source>>

BranchSkip ==
  /\ pass = "branches" /\ at # None
  /\ ~IsBranch(term[at])
  /\ GoOn
  /\ UNCHANGED <<code, exits, live, labelled, pass, scan, used, source>>

DropLabels ==
  /\ EndOfPass("branches", "done")
  /\ labelled' = labelled \cap used /\ used' = {}
  /\ UNCHANGED <<code, exits, live, scan, source>>

FlowNext ==
  \/ DeconditionTaken \/ DeconditionNever \/ DeconditionSkip \/ DeconditionEnd
  \/ ThreadBegin \/ ThreadSkip \/ ScanFallThrough \/ ScanFollow \/ ScanCycle
  \/ ThreadNothing \/ ThreadBranch \/ ThreadRefused \/ ThreadEnd
  \/ DropDeadBlocks \/ BranchToNext \/ BranchKept \/ BranchSkip \/ DropLabels

FlowSpec == FlowInit /\ [][FlowNext]_flowVars /\ WF_flowVars(FlowNext)

(***************************** Properties *********************************)

FlowTypeOK ==
  /\ term \in [Blocks -> Terms] /\ body \in [Blocks -> BOOLEAN]
  /\ exits \in [Blocks -> UNION {[1..n -> Blocks] : n \in 0..2}]
  /\ live \subseteq Blocks /\ labelled \subseteq Blocks /\ used \subseteq Blocks
  /\ pass \in {"decondition", "thread", "scan", "drop", "branches", "done"}
  /\ at \in Blocks \cup {None}
  /\ scan.to \in 0..NumBlocks \cup {None} /\ scan.label \in Blocks \cup {None}

(* Where control goes from the end of block b in program t with code stream s,
   when register "a" is zero or not; None is the end of the unit. *)
After(t, s, aIsZero, b) ==
  LET zero  == t[b].reg = "zero" \/ aIsZero
      jumps == t[b].op = "goto" \/ (t[b].op = "if_z" /\ zero) \/ (t[b].op = "if_nz" /\ ~zero)
  IN  IF jumps THEN t[b].label ELSE NextIn(s, b)

(* The next thing program p does, starting with block b: run the instructions
   of a block, return, loop for ever doing nothing, reach the end of the unit,
   or get lost in a block that was dropped. *)
Walk(p, s, aIsZero) ==
  LET w[n \in 0..NumBlocks] == [c \in Blocks \cup {None} |->
        IF c = None THEN <<"ends", None>>
        ELSE IF c \notin s THEN <<"lost", None>>
        ELSE IF p[1][c] THEN <<"runs", c>>
        ELSE IF p[2][c].op = "return" THEN <<"returns", None>>
        ELSE IF n = 0 THEN <<"loops", None>> ELSE w[n - 1][After(p[2], s, aIsZero, c)]]
  IN  w
Does(p, s, aIsZero, b) == Walk(p, s, aIsZero)[NumBlocks][b]
Then(p, s, aIsZero, b) ==
  IF p[2][b].op = "return" THEN <<"returns", None>> ELSE Does(p, s, aIsZero, After(p[2], s, aIsZero, b))

(* Every step of every pass leaves the program doing what it did when it was
   finalized: same first thing, and same next thing after each block that does
   something, whatever the branch conditions are. *)
SameBehaviour ==
  \A aIsZero \in BOOLEAN :
    /\ Does(code, live, aIsZero, 0) = Does(source, Blocks, aIsZero, 0)
    /\ \A b \in live : body[b] =>
         Then(code, live, aIsZero, b) = Then(source, Blocks, aIsZero, b)

(* The flow graph stays exact: an edge for each place the end of the block can
   go to and no other (a branch whose condition is constant counts as two-way
   until decondition has seen it), and two exits only with a conditional
   branch, as decondition asserts. *)
Ways(b) == (IF IsBranch(term[b]) THEN {term[b].label} ELSE {})
             \cup (IF term[b].op \in {"none"} \cup Conds /\ NextLive(b) # None
                   THEN {NextLive(b)} ELSE {})
ExitsMatchCode == \A b \in live : ToSet(exits[b]) = Ways(b)

(* Every branch of the code stream names a label that is still mapped to a
   block of the stream: drop_dead_branches() indexes the block table with the
   map's entry unchecked. *)
LabelsMapped == \A b \in live : IsBranch(term[b]) => term[b].label \in labelled \cap live

(* The invariant of the passes: types, edges that match the code, and labels. *)
FlowInv == FlowTypeOK /\ ExitsMatchCode /\ LabelsMapped

(* Every pass ends: thread_branch() does not follow a cycle of jumps for
   ever, wherever the branch stands and whatever fall-throughs it crosses. *)
PassesEnd == <>(pass = "done")

(* What drop_dead_branches() leaves: no dead block, no branch to the block
   that follows, no label that nothing names. *)
NothingDead ==
  pass = "done" =>
    /\ \A b \in live, C \in SUBSET live :
         0 \in C /\ (\A c \in C : ToSet(exits[c]) \subseteq C) => b \in C
    /\ \A b \in live : IsBranch(term[b]) => term[b].label # NextLive(b)
    /\ labelled = {term[b].label : b \in {c \in live : IsBranch(term[c])}}

(************************* Inductive invariant ****************************)

(* The block that instruction position n of a scan is in, if any. *)
Node(n) == IF n < NumBlocks THEN n ELSE None

(* Until dead blocks are dropped the stream has every block, the last of which
   does not branch; no block has the same exit twice. *)
StreamOK ==
  /\ scan \in [to : (0..NumBlocks) \cup {None}, seen : SUBSET Blocks, label : Blocks \cup {None}]
  /\ term[NumBlocks - 1].op \in {"return", "none"}
  /\ \A b \in Blocks : Len(exits[b]) = 2 => exits[b][1] # exits[b][2]
  /\ at \in live \cup {None} /\ 0 \in live
  /\ pass \in {"drop", "done"} => at = 0
  /\ pass \in {"decondition", "thread", "scan", "drop"} =>
       live = Blocks /\ labelled = Blocks /\ used = {}

(* A conditional branch to the next block only comes from threading. *)
TwoWay(b)   == term[b].op \in Conds => term[b].label # b + 1
TwoWayAhead ==
  /\ pass = "decondition" => \A b \in Blocks : TwoWay(b)
  /\ pass \in {"thread", "scan"} /\ at # None => \A b \in at..(NumBlocks - 1) : TwoWay(b)

(* The way scanned so far: blocks P that do nothing and are left in the same
   direction whenever the branch is taken.  While the scan has not come back to
   a block of P, nothing in P goes round without leaving P. *)
Passable(b) == ~body[b] /\ (term[b].op = "none" \/ Followed(term[b]))
StepOf(b)   == IF term[b].op = "none" THEN Node(b + 1) ELSE term[b].label
WayScanned(P) ==
  LET to == Node(scan.to) IN
  /\ \A p \in P : Passable(p) /\ StepOf(p) \in P \cup {to}
  /\ term[at].label \in P \cup {to}
  /\ at \in P => to \in P
  /\ scan.label # None => scan.label \in P \cup {to}
  /\ to \notin P => \A C \in SUBSET P : C # {} => \E p \in C : StepOf(p) \notin C
ScanOK ==
  pass = "scan" =>
    /\ at # None /\ IsBranch(term[at]) /\ scan.to # None
    /\ \E P \in SUBSET Blocks : WayScanned(P)

(* What dropping leaves, and what the last pass has done of it: behind it no
   branch goes to the next block and the labels of the others are flagged. *)
Behind     == IF at = None \/ pass = "done" THEN live ELSE {b \in live : b < at}
LabelsOf(S) == {term[b].label : b \in {c \in S : IsBranch(term[c])}}
DroppedOK ==
  /\ pass \in {"branches", "done"} =>
       /\ \A C \in SUBSET live : 0 \in C /\ ExitsClosed(C) => C = live
       /\ \A b \in Behind : IsBranch(term[b]) => term[b].label # NextLive(b)
  /\ pass = "branches" => labelled = live /\ used = LabelsOf(Behind)
  /\ pass = "done" => labelled = LabelsOf(live)

FlowIInv == FlowInv /\ StreamOK /\ TwoWayAhead /\ ScanOK /\ DroppedOK
==============================================================================
