------------------------------- MODULE RTLUnit -------------------------------
(* Building an RTL unit: rtl_add_insn() and the make_*() routines that end and
   begin basic blocks (rtl.c, rtl-insn.c), rtl_alloc_label(), and
   rtl_finalize_unit(), which adds the edges of branches.  The block table is
   that of RTLBlocks; every call on it is a step of its own, so that a refused
   allocation leaves the routine half done, as in the code.

   Instructions are told apart by what they do to the control flow: "op" stands
   for every instruction that neither begins nor ends a block, "branch" for
   GOTO_IF_Z and GOTO_IF_NZ, and a label is a number. *)
EXTENDS RTLBlocks, Sequences

CONSTANTS InsnsExpand,               \* INSNS_EXPAND_SIZE
          LabelsExpand, LabelsLimit, \* LABELS_EXPAND_SIZE, LABELS_LIMIT
          MaxInsns                   \* bound: instructions in a unit

ASSUME UnitAssumption ==
  /\ InsnsExpand \in Nat \ {0}
  /\ LabelsLimit \in Nat /\ LabelsExpand \in 1..LabelsLimit
  /\ MaxInsns \in Nat

VARIABLES
  insns, insnsSize, haveBlock, curBlock,  \* fields of RTLUnit
  nextLabel, labelsSize, labelMap,        \* labelMap is label_blockmap
  error, finalized,
  first, last,    \* first_insn and last_insn of each block
  closed,         \* rtl_finalize_unit() has been called: building is over
  job             \* the routine in progress: its next step, instruction and block

building  == <<insns, insnsSize, haveBlock, curBlock, first, last>>
labels    == <<nextLabel, labelsSize, labelMap>>
unitVars  == <<vars, building, labels, error, finalized, closed, job>>

num    == Len(insns)
Labels == 0..(LabelsLimit - 1)
Ops    == {"op", "label", "goto", "branch", "return"}
Insns  == [op : Ops, label : Labels]
Idle   == [at |-> "idle", insn |-> [op |-> "op", label |-> 0], blk |-> None]

(* rtl_create_unit(); entries of label_blockmap not yet allocated read as -1,
   the value they are given when they are. *)
UnitInit ==
  /\ Init
  /\ insns = <<>> /\ insnsSize = InsnsExpand
  /\ haveBlock = FALSE /\ curBlock = 0
  /\ nextLabel = 1 /\ labelsSize = LabelsExpand /\ labelMap = [l \in Labels |-> None]
  /\ error = FALSE /\ finalized = FALSE /\ closed = FALSE
  /\ first = [b \in Ids |-> 0] /\ last = [b \in Ids |-> 0]
  /\ job = Idle

(************************ Labels and the error flag ***********************)

LabelRoom == nextLabel < labelsSize

LabelsGrown  == IF labelsSize > LabelsLimit - LabelsExpand THEN LabelsLimit
                                                           ELSE nextLabel + LabelsExpand
CanBuild == job.at = "idle" /\ ~closed

AllocLabel ==
  /\ CanBuild
  /\ \/ LabelRoom /\ nextLabel' = nextLabel + 1 /\ UNCHANGED <<labelsSize, error>>
     \/ /\ ~LabelRoom /\ labelsSize < LabelsLimit
        /\ labelsSize' = LabelsGrown /\ nextLabel' = nextLabel + 1
        /\ UNCHANGED error
     \/ ~LabelRoom /\ error' = TRUE /\ UNCHANGED <<nextLabel, labelsSize>>
  /\ UNCHANGED <<vars, building, labelMap, finalized, closed, job>>

ClearError ==
  /\ job.at = "idle" /\ error
  /\ error' = FALSE
  /\ UNCHANGED <<vars, building, labels, finalized, closed, job>>

(************************** Adding instructions ***************************)

Fail == /\ error' = TRUE /\ job' = Idle

(* A callback may refuse to extend the instruction array; the next step is to
   open a block if there is none, or to encode the instruction. *)
AddInsn(i) ==
  /\ CanBuild
  /\ num < MaxInsns
  /\ i.label < nextLabel
  /\ i.op \in {"op", "return"} => i.label = 0
  /\ \/ num < insnsSize /\ UNCHANGED insnsSize
     \/ num >= insnsSize /\ insnsSize' = num + InsnsExpand
  /\ job' = [at |-> IF haveBlock THEN "make" ELSE "open", insn |-> i, blk |-> None]
  /\ UNCHANGED <<vars, insns, haveBlock, curBlock, first, last, labels, error, finalized, closed>>

InsnRefused ==
  /\ CanBuild
  /\ num >= insnsSize
  /\ error' = TRUE
  /\ UNCHANGED <<vars, building, labels, finalized, closed, job>>

(* rtl_block_add() for a block whose first instruction is number n. *)
BugNewBlock(n) ==        \* get_new_block() alone: the block is not linked into the stream
  /\ pc = "idle" /\ GetNewBlock
  /\ owner' = [owner EXCEPT ![numBlocks] = numBlocks]
  /\ exits' = [exits EXCEPT ![numBlocks] = [i \in ExitSlots |-> None]]
  /\ entries' = [entries EXCEPT ![numBlocks] = [i \in EntrySlots |-> None]]
  /\ first' = [first EXCEPT ![numBlocks] = n]
  /\ UNCHANGED <<lastBlock, nextBlock, prevBlock, overflow, pc, call, seen>>

NewBlock(n) ==
  /\ BlockAdd
  /\ first' = [first EXCEPT ![numBlocks] = n]

OpenBlock ==
  /\ job.at = "open"
  /\ NewBlock(num)
  /\ last' = [last EXCEPT ![numBlocks] = None]
  /\ haveBlock' = TRUE /\ curBlock' = numBlocks
  /\ job' = [job EXCEPT !.at = "make"]
  /\ UNCHANGED <<insns, insnsSize, labels, error, finalized, closed>>

OpenRefused ==
  /\ job.at = "open"
  /\ NoNewBlock
  /\ Fail
  /\ UNCHANGED <<vars, building, labels, finalized, closed>>

Making(ops) == job.at = "make" /\ job.insn.op \in ops
Append1     == insns' = Append(insns, job.insn)

MakeOp ==
  /\ Making({"op"})
  /\ Append1
  /\ job' = Idle
  /\ UNCHANGED <<vars, insnsSize, haveBlock, curBlock, first, last, labels, error, finalized, closed>>

(* OPERAND_ASSERT: no label 0, and no label twice. *)
OperandsOK    == /\ job.insn.label # 0
                 /\ job.insn.op = "label" => labelMap[job.insn.label] < 0
OperandsBad ==
  /\ Making({"label", "goto", "branch"})
  /\ ~OperandsOK
  /\ Fail
  /\ UNCHANGED <<vars, building, labels, finalized, closed>>

(* make_label(): a label that is not the first instruction of its block ends
   the block and begins another. *)
LabelHere ==
  /\ Making({"label"}) /\ OperandsOK
  /\ first[curBlock] = num
  /\ labelMap' = [labelMap EXCEPT ![job.insn.label] = curBlock]
  /\ Append1
  /\ job' = Idle
  /\ UNCHANGED <<vars, insnsSize, haveBlock, curBlock, first, last,
                 nextLabel, labelsSize, error, finalized, closed>>

(* The block ends with instruction number n and a new one begins after it; the
   edge between them is the next step. *)
BugSplitBlock(n) ==      \* the old block is not ended
  /\ \/ /\ NewBlock(n + 1)
        /\ last' = [last EXCEPT ![numBlocks] = None]
        /\ job' = [job EXCEPT !.at = "edge", !.blk = numBlocks]
        /\ UNCHANGED error
     \/ /\ NoNewBlock /\ Fail
        /\ UNCHANGED <<vars, first, last>>
  /\ UNCHANGED <<insns, insnsSize, haveBlock, curBlock, labels, finalized, closed>>

SplitBlock(n) ==
  /\ \/ /\ NewBlock(n + 1)
        /\ last' = [last EXCEPT ![curBlock] = n, ![numBlocks] = None]
        /\ job' = [job EXCEPT !.at = "edge", !.blk = numBlocks]
        /\ UNCHANGED error
     \/ /\ NoNewBlock /\ Fail
        /\ last' = [last EXCEPT ![curBlock] = n]
        /\ UNCHANGED <<vars, first>>
  /\ UNCHANGED <<insns, insnsSize, haveBlock, curBlock, labels, finalized, closed>>

LabelSplits == /\ Making({"label"}) /\ OperandsOK
               /\ first[curBlock] # num
               /\ SplitBlock(num - 1)

(* make_goto_cond(): the block ends with the branch itself. *)
BranchSplits == Making({"branch"}) /\ OperandsOK /\ SplitBlock(num)

(* ASSERT(rtl_block_add_edge(unit, unit->cur_block, new_block)), and what
   remains of make_label() or make_goto_cond(). *)
FallThroughEdge ==
  /\ job.at = "edge"
  /\ \E r \in BOOLEAN :
       /\ DoAddEdge(curBlock, job.blk, r)
       /\ IF r THEN /\ curBlock' = job.blk
                    /\ labelMap' = IF job.insn.op = "label"
                                   THEN [labelMap EXCEPT ![job.insn.label] = job.blk] ELSE labelMap
                    /\ Append1
                    /\ job' = Idle
               ELSE /\ job' = [job EXCEPT !.at = "aborted"]
                    /\ UNCHANGED <<curBlock, labelMap, insns>>
  /\ UNCHANGED <<pc, call, seen, insnsSize, haveBlock, first, last,
                 nextLabel, labelsSize, error, finalized, closed>>

(* make_goto() and make_return(): the block ends and none is open. *)
MakeJump ==
  /\ Making({"goto", "return"})
  /\ job.insn.op = "goto" => OperandsOK
  /\ last' = [last EXCEPT ![curBlock] = num]
  /\ haveBlock' = FALSE
  /\ Append1
  /\ job' = Idle
  /\ UNCHANGED <<vars, insnsSize, curBlock, first, labels, error, finalized, closed>>

(***************************** Finalization *******************************)

(* rtl_finalize_unit() ends the open block and walks the table, block_index
   being job.blk.  The table may grow under the loop, by dummy blocks. *)
Finalize ==
  /\ job.at = "idle" /\ ~finalized
  /\ closed' = TRUE
  /\ haveBlock' = FALSE
  /\ last' = IF haveBlock THEN [last EXCEPT ![curBlock] = num - 1] ELSE last
  /\ job' = [Idle EXCEPT !.at = "edges", !.blk = 0]
  /\ UNCHANGED <<vars, insns, insnsSize, curBlock, first, labels, error, finalized>>

LastInsn(b)     == insns[last[b] + 1]
BugEndsInJump(b) == first[b] < last[b] /\ LastInsn(b).op \in {"goto", "branch"}
EndsInJump(b)   == first[b] <= last[b] /\ LastInsn(b).op \in {"goto", "branch"}
Target(b)       == labelMap[LastInsn(b).label]
AtBlock         == job.at = "edges" /\ job.blk < numBlocks
BugNextIndex    == UNCHANGED job
NextIndex       == job' = [job EXCEPT !.blk = @ + 1]

NoJumpEdge ==
  /\ AtBlock
  /\ ~EndsInJump(job.blk)
  /\ NextIndex
  /\ UNCHANGED <<vars, building, labels, error, finalized, closed>>

UndefinedLabel ==
  /\ AtBlock
  /\ EndsInJump(job.blk) /\ Target(job.blk) < 0
  /\ job' = Idle
  /\ UNCHANGED <<vars, building, labels, error, finalized, closed>>

JumpEdge ==
  /\ AtBlock
  /\ EndsInJump(job.blk) /\ Target(job.blk) >= 0
  /\ \E r \in BOOLEAN :
       /\ DoAddEdge(job.blk, Target(job.blk), r)
       /\ IF r THEN NextIndex ELSE job' = Idle
  /\ first' = [b \in Ids |-> IF b >= numBlocks /\ b < numBlocks' THEN 0 ELSE first[b]]
  /\ last'  = [b \in Ids |-> IF b >= numBlocks /\ b < numBlocks' THEN None ELSE last[b]]
  /\ UNCHANGED <<pc, call, seen, insns, insnsSize, haveBlock, curBlock,
                 labels, error, finalized, closed>>

AllEdgesAdded ==
  /\ job.at = "edges" /\ job.blk >= numBlocks
  /\ finalized' = TRUE
  /\ job' = Idle
  /\ UNCHANGED <<vars, building, labels, error, closed>>

(***************************************************************************)

Callers == AllocLabel \/ ClearError \/ (\E i \in Insns : AddInsn(i)) \/ InsnRefused \/ Finalize
Steps   == \/ OpenBlock \/ OpenRefused
           \/ MakeOp \/ OperandsBad \/ LabelHere \/ LabelSplits \/ BranchSplits
           \/ FallThroughEdge \/ MakeJump
           \/ NoJumpEdge \/ UndefinedLabel \/ JumpEdge \/ AllEdgesAdded

UnitNext == Callers \/ Steps
UnitSpec == UnitInit /\ [][UnitNext]_unitVars /\ WF_unitVars(Steps)

(***************************** Properties *********************************)

UnitTypeOK ==
  /\ TypeOK
  /\ insns \in Seq(Insns) /\ insnsSize \in Nat /\ num <= insnsSize
  /\ haveBlock \in BOOLEAN /\ curBlock \in Ids
  /\ labelsSize \in 1..LabelsLimit /\ nextLabel \in 1..labelsSize
  /\ labelMap \in [Labels -> Ids \cup {None}]
  /\ error \in BOOLEAN /\ finalized \in BOOLEAN /\ closed \in BOOLEAN
  /\ first \in [Ids -> Nat] /\ last \in [Ids -> Nat \cup {None}]
  /\ job.at \in {"idle", "open", "make", "edge", "edges", "aborted"}
  /\ job.insn \in Insns /\ job.blk \in 0..MaxBlocks \cup {None}

(* The code that the blocks have been cut for: a branch that has ended its block is
   appended once the fall-through edge is there; and the block that the next
   instruction goes to. *)
Code == IF job.at = "edge" /\ job.insn.op = "branch" THEN Append(insns, job.insn) ELSE insns
Open == IF job.at = "edge" THEN job.blk ELSE curBlock

(* Whatever has failed, and in the middle of splitting a block too, the blocks of the
   code stream cut the instructions into consecutive runs; a label is only found
   at the start of a run, and a jump or a return only at its end. *)
LastOf(b) == IF haveBlock /\ b = Open THEN Len(Code) - 1 ELSE last[b]
RunOK(b) ==
  /\ first[b] = IF b = 0 THEN 0 ELSE LastOf(prevBlock[b]) + 1
  /\ LastOf(b) >= first[b] - 1 /\ LastOf(b) < Len(Code)
  /\ \A n \in first[b]..LastOf(b) :
       /\ Code[n + 1].op = "label" => n = first[b]
       /\ Code[n + 1].op \in {"goto", "branch", "return"} => n = LastOf(b)
BlocksPartitionInsns ==
  /\ \A b \in Real : RunOK(b)
  /\ IF Real = {} THEN Code = <<>> ELSE LastOf(lastBlock) = Len(Code) - 1

(* label_blockmap is the inverse of the labels in the code: every label leads
   to the block that begins with it, and every LABEL instruction is found. *)
StartsWith(b, l) == /\ b \in Real /\ first[b] <= LastOf(b)
                    /\ Code[first[b] + 1] = [op |-> "label", label |-> l]
LabelsResolve == \A l \in Labels, b \in Ids : labelMap[l] = b <=> StartsWith(b, l)

(* While a unit is built no block is unlinked: the code stream is the whole table but
   for the dummy blocks, linked both ways up to last_block. *)
StreamIsTable ==
  /\ pc = "idle"
  /\ Real = {} <=> lastBlock = None
  /\ numBlocks = 0 <=> lastBlock = None
  /\ numBlocks > 0 => 0 \in Real /\ nextBlock[lastBlock] = None
  /\ \A b \in Real \ {0} : prevBlock[b] \in Real /\ nextBlock[prevBlock[b]] = b
  /\ \A b \in Real \ {lastBlock} : nextBlock[b] \in Real

(* Where a step finds the routine in progress.  The block being filled is the last of
   the stream, has no exit and no jump yet, and the block that a split has just
   made has neither exit nor entry, so that the assertion on the fall-through edge,
   "this call will always succeed", cannot fail. *)
NoExits(b)   == \A i \in ExitSlots : exits[b][i] = None
NoEntries(b) == \A j \in EntrySlots : entries[b][j] = None
JobOK ==
  /\ job.at # "aborted"
  /\ job.at \in {"open", "make", "edge"} => num < insnsSize
  /\ job.at \in {"open", "edges"} => ~haveBlock
  /\ job.at \in {"make", "edge"} => haveBlock
  /\ job.at = "edges" => job.blk # None
  /\ haveBlock => /\ curBlock \in Real /\ NoExits(curBlock) /\ Open = lastBlock
                  /\ \A n \in first[Open]..(Len(Code) - 1) :
                       Code[n + 1].op \notin {"goto", "branch", "return"}
  /\ job.at = "edge" => /\ job.insn.op \in {"label", "branch"} /\ job.insn.label # 0
                        /\ job.blk # curBlock /\ NoExits(job.blk) /\ NoEntries(job.blk)
                        /\ job.insn.op = "label" => labelMap[job.insn.label] < 0
                        /\ first[job.blk] = Len(Code)
  /\ \A d \in Dummies : last[d] = None
  /\ \A l \in Labels : labelMap[l] \in Real \cup {None}

(* The invariant of the unit, through any calls and failures: types, blocks that
   partition the code, labels that lead to their instruction, and the assertions that
   a fall-through edge can be added.  With the invariant of the block table it is
   inductive. *)
UnitInv == UnitTypeOK /\ StreamIsTable /\ JobOK /\ BlocksPartitionInsns /\ LabelsResolve

(* The edges the code implies: each block goes to the target of its jump and, unless it
   ends in GOTO or RETURN, to the block after it. *)
FallsThrough(b) == /\ b # lastBlock
                   /\ first[b] <= last[b] => LastInsn(b).op \notin {"goto", "return"}
JumpsTo(b, t) == /\ first[b] <= last[b] /\ LastInsn(b).op \in {"goto", "branch"}
                 /\ t = labelMap[LastInsn(b).label]
Successors(b) == {t \in Real : JumpsTo(b, t) \/ (FallsThrough(b) /\ t = nextBlock[b])}

(* While the unit is built the graph holds what the blocks ended so far imply: no exit
   that is not in the code, and every fall-through edge, as "exits[0]" and as
   "entries[0]"; the edges of jumps come with rtl_finalize_unit(), block by block.  A
   block that is not the last one has an instruction to end it. *)
Splitting(b) == job.at = "edge" /\ b = curBlock
Walked(b)    == finalized \/ (job.at = "edges" /\ b < job.blk)
BuildOrder ==
  /\ job.at \in {"open", "make", "edge"} => ~closed
  /\ job.at = "edges" \/ finalized => closed
  /\ closed => ~haveBlock
  /\ ~haveBlock /\ ~closed /\ Real # {} =>
       first[lastBlock] <= last[lastBlock] /\ LastInsn(lastBlock).op \in {"goto", "return"}
  /\ job.at = "edge" => /\ nextBlock[curBlock] = job.blk
                        /\ Code[last[curBlock] + 1].op \notin {"goto", "return"}
  /\ \A b \in Real : b # lastBlock => first[b] <= last[b] /\ (last[b] < num \/ Splitting(b))
ExitsInCode ==
  \A b \in Real, i \in ExitSlots : exits[b][i] # None => exits[b][i] \in Successors(b)
FallThroughsAdded ==
  \A b \in Real : ~Splitting(b) /\ FallsThrough(b) =>
    exits[b][0] = nextBlock[b] /\ entries[nextBlock[b]][0] = b
JumpsAdded ==
  \A b, t \in Real : Walked(b) /\ JumpsTo(b, t) => \E i \in ExitSlots : exits[b][i] = t
GraphSoFar == BuildOrder /\ ExitsInCode /\ FallThroughsAdded /\ JumpsAdded

(* A finalized unit has exactly the edges its code implies; and "exits[0] is always the
   fall-through edge", as is "entries[0]". *)
FinalGraph ==
  finalized => \A b \in Real :
    /\ {exits[b][i] : i \in ExitSlots} \ {None} = Successors(b)
    /\ FallsThrough(b) => exits[b][0] = nextBlock[b] /\ entries[nextBlock[b]][0] = b
GraphMatchesCode == GraphSoFar /\ FinalGraph

(* Building a unit uses the block table as its routines expect: every step is
   one call on it, with blocks of the code stream, or leaves it alone. *)
UsesBlockTable == Spec

(* Every call returns; rtl_finalize_unit() loops over a table it extends. *)
JobEnds == job.at # "idle" ~> job.at = "idle"
==============================================================================
