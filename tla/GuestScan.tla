------------------------------- MODULE GuestScan -------------------------------
(* guest_ppc_scan() (guest-ppc-scan.c): the guest code that starts at word 0 is
   read once, word by word, and cut into the basic blocks of the unit.  The block
   table is kept sorted by address, so that an insertion moves the entries after
   it; a backward branch into a block already scanned leaves an empty entry which
   a last loop splits off the block before it.

   An instruction is what the scan tells apart: how it ends a block, if it does,
   and the word that it goes to: "b" is an unconditional branch and "bc" a conditional
   one.  Those that get no block for their target (bclr, bcctr, any branch with
   LK = 1, a target beyond the limit or before the start) go Outside. *)
EXTENDS Integers, Sequences, SequencesExt, FiniteSets

CONSTANTS MaxInsns,     \* max_insns: words between start and the limit
          ExpandSize    \* BLOCKS_EXPAND_SIZE

ASSUME ScanAssumption == MaxInsns \in Nat \ {0} /\ ExpandSize \in Nat \ {0}

Words   == 0..(MaxInsns - 1)
Outside == MaxInsns   \* any target that is not one of Words
Insns   == [op : {"plain", "bad", "trap", "stop"}, target : {Outside}]
             \cup [op : {"b", "bc"}, target : Words \cup {Outside}]

VARIABLES
  memory,       \* the guest words read so far; word a is memory[a + 1]
  insn_count,
  block,        \* index of the open block, 0 for NULL
  blocks, blocks_size,
  phase,
  split         \* index of the entry the splitting loop looks at

scanVars == <<memory, insn_count, block, blocks, blocks_size, phase, split>>

WordAt(a)     == memory[a + 1]
IsBranch(i)   == i.op \in {"b", "bc"}
IsUncond(i)   == i.op = "b"
IsCond(i)     == i.op = "bc"
EndsBlock(i)  == i.op # "plain"
(* bad stands for an invalid word, stop for icbi, sc and a terminal GQR write; an
   sc before a blr does not end its block, and is plain. *)
MayEndUnit(i) == i.op \in {"bad", "stop"} \/ IsUncond(i)
HasTarget(i)  == i.target \in Words

(****************************** The block table ******************************)

NewBlock(a) == [start |-> a, len |-> 0, has_trap |-> FALSE, has_branch |-> FALSE,
                is_conditional_branch |-> FALSE, is_branch_target |-> FALSE]

Ranges(n) == (1..(n + 1)) \X (0..n)   \* the values <<low, high>> of a search of n entries

(* The binary search of get_block(): the index of the entry for address a, or
   the one where it belongs. *)
Search(bs, a) ==
  LET search[r \in Ranges(Len(bs))] ==
        LET mid == (r[1] + r[2]) \div 2
        IN  IF r[1] > r[2] THEN r[1]
            ELSE IF a = bs[mid].start THEN mid
            ELSE IF a < bs[mid].start THEN search[<<r[1], mid - 1>>]
            ELSE search[<<mid + 1, r[2]>>]
  IN  search
Position(bs, a) == Search(bs, a)[<<1, Len(bs)>>]
Found(bs, a)    == Position(bs, a) <= Len(bs) /\ bs[Position(bs, a)].start = a
Inserted(bs, a) == IF Found(bs, a) THEN bs ELSE InsertAt(bs, Position(bs, a), NewBlock(a))
SizeFor(bs, n) == IF Len(bs) > n THEN n + ExpandSize ELSE n

ScanInit ==
  /\ memory = <<>> /\ insn_count = 0
  /\ block = 0 /\ blocks = <<>> /\ blocks_size = 0
  /\ phase = "scan" /\ split = 2

(********************************* The scan *********************************)

Opened == IF block = 0 THEN Inserted(blocks, insn_count) ELSE blocks
BugOpenAt == IF block = 0 THEN Len(Opened) ELSE block
OpenAt == IF block = 0 THEN Position(blocks, insn_count) ELSE block

(* The last instruction of a block sets the length and the flags of the entry. *)
Closed(bs, b, i) ==
  IF ~EndsBlock(i) THEN bs
  ELSE [bs EXCEPT ![b] = [@ EXCEPT !.len = insn_count + 1 - bs[b].start,
                                   !.has_trap = i.op = "trap",
                                   !.has_branch = IsBranch(i),
                                   !.is_conditional_branch = IsCond(i)]]
BugTargeted(bs, i) == IF HasTarget(i) /\ ~Found(bs, i.target)
                       THEN [Inserted(bs, i.target) EXCEPT
                               ![Position(bs, i.target)].is_branch_target = TRUE]
                       ELSE bs
Targeted(bs, i) ==
  IF ~HasTarget(i) THEN bs
  ELSE LET new == Inserted(bs, i.target)
       IN  [new EXCEPT ![Position(new, i.target)].is_branch_target = TRUE]
Scanned(i) == Targeted(Closed(Opened, OpenAt, i), i)

(* An invalid word after the end of a block may be data, and is passed over. *)
PassedOver(i) == block = 0 /\ insn_count > 0 /\ i.op = "bad"

SkipInvalid(i) ==
  /\ phase = "scan" /\ insn_count < MaxInsns
  /\ PassedOver(i)
  /\ memory' = Append(memory, i)
  /\ insn_count' = insn_count + 1
  /\ UNCHANGED <<block, blocks, blocks_size, phase, split>>

(* No block follows an instruction that may end the function. *)
BugUnitEnds(i) == MayEndUnit(i)
UnitEnds(i) == MayEndUnit(i) /\ Last(Scanned(i)).start <= insn_count

ScanInsn(i) ==
  /\ phase = "scan" /\ insn_count < MaxInsns
  /\ ~PassedOver(i)
  /\ memory' = Append(memory, i)
  /\ blocks' = Scanned(i)
  /\ blocks_size' = SizeFor(Scanned(i), SizeFor(Opened, blocks_size))
  /\ block' = IF EndsBlock(i) THEN 0 ELSE OpenAt
  /\ IF UnitEnds(i) THEN phase' = "split" /\ UNCHANGED insn_count
                    ELSE insn_count' = insn_count + 1 /\ UNCHANGED phase
  /\ UNCHANGED split

(* The table is full and cannot be enlarged for the word or for its target. *)
OutOfMemory(i) ==
  /\ phase = "scan" /\ insn_count < MaxInsns
  /\ ~PassedOver(i)
  /\ Len(Scanned(i)) > blocks_size
  /\ phase' = "failed"
  /\ UNCHANGED <<memory, insn_count, block, blocks, blocks_size, split>>

(* The limit of the scan ends a block that is still open. *)
ReachLimit ==
  /\ phase = "scan" /\ insn_count = MaxInsns
  /\ blocks' = IF block = 0 THEN blocks
               ELSE [blocks EXCEPT ![block].len = MaxInsns - blocks[block].start]
  /\ phase' = "split"
  /\ UNCHANGED <<memory, insn_count, block, blocks_size, split>>

(******************* Entries that backward branches left empty *******************)

FirstPart(p, at) == [p EXCEPT !.len = at - p.start, !.has_trap = FALSE,
                              !.has_branch = FALSE, !.is_conditional_branch = FALSE]
SecondPart(e, p) == [e EXCEPT !.len = p.len - (e.start - p.start), !.has_trap = p.has_trap,
                              !.has_branch = p.has_branch,
                              !.is_conditional_branch = p.is_conditional_branch]
BugInside(e, p) == e.len = 0 /\ e.start - p.start < p.len /\ ~e.is_branch_target
Inside(e, p)     == e.len = 0 /\ e.start - p.start < p.len

SplitBlock ==
  /\ phase = "split" /\ split <= Len(blocks)
  /\ LET e == blocks[split]
         p == blocks[split - 1]
     IN  blocks' = IF Inside(e, p)
                   THEN [blocks EXCEPT ![split - 1] = FirstPart(p, e.start),
                                       ![split] = SecondPart(e, p)]
                   ELSE blocks
  /\ split' = split + 1
  /\ UNCHANGED <<memory, insn_count, block, blocks_size, phase>>

SplitEnd ==
  /\ phase = "split" /\ split > Len(blocks)
  /\ phase' = "done"
  /\ UNCHANGED <<memory, insn_count, block, blocks, blocks_size, split>>

ScanNext == \/ \E i \in Insns : SkipInvalid(i) \/ ScanInsn(i) \/ OutOfMemory(i)
            \/ ReachLimit \/ SplitBlock \/ SplitEnd

ScanSpec == ScanInit /\ [][ScanNext]_scanVars

(*************** What the translation does with the finished table ***************)

(* The search of translate_branch() for the block of a branch target: the
   entry, "loop" for one whose label is zero, and "assert" when the search runs
   out or the target lies in the middle of a block. *)
LabelSteps(bs, target) ==
  LET search[r \in Ranges(Len(bs))] ==
        LET mid == (r[1] + r[2] + 1) \div 2
            m   == bs[mid]
        IN  IF r[1] > r[2] THEN "assert"
            ELSE IF target = m.start THEN IF m.is_branch_target THEN "found" ELSE "loop"
            ELSE IF target < m.start THEN search[<<r[1], mid - 1>>]
            ELSE IF target > m.start + m.len - 1 THEN search[<<mid + 1, r[2]>>] ELSE "assert"
  IN  search
LabelSearch(target) == LabelSteps(blocks, target)[<<1, Len(blocks)>>]
InUnit(target) == target >= blocks[1].start /\ target <= Last(blocks).start + Last(blocks).len - 1

End(b)      == b.start + b.len
Covers(b,a) == b.start <= a /\ a < End(b)
LastInsn(b) == WordAt(End(b) - 1)

(********************************* Properties *********************************)

BlockInfo == [start : Words, len : 0..MaxInsns, has_trap : BOOLEAN, has_branch : BOOLEAN,
              is_conditional_branch : BOOLEAN, is_branch_target : BOOLEAN]
(* Types; the open block is an entry of the table, and the table fits. *)
ScanTypeOK ==
  /\ memory \in Seq(Insns) /\ Len(memory) <= MaxInsns
  /\ insn_count \in 0..MaxInsns
  /\ blocks \in Seq(BlockInfo) /\ blocks_size \in Nat /\ Len(blocks) <= blocks_size
  /\ block \in 0..Len(blocks)
  /\ phase \in {"scan", "split", "done", "failed"} /\ split \in 2..(MaxInsns + 1)

(* The index of the open block is kept while other entries are inserted below
   it: it always denotes the entry of the block that the scan is in, whose words
   so far are plain. *)
OpenBlockIsCurrent ==
  phase = "scan" /\ block # 0 =>
               /\ blocks[block].start < insn_count /\ blocks[block].len = 0
               /\ \A a \in blocks[block].start..(insn_count - 1) : WordAt(a).op = "plain"

(* The finished blocks are in the order of their addresses and share no word,
   and a word that was scanned, unless it was passed over, is in one of them. *)
BlocksPartitionWords ==
  phase = "done" =>
    /\ \A b \in 1..(Len(blocks) - 1) : End(blocks[b]) <= blocks[b + 1].start
    /\ \A a \in 0..(Len(memory) - 1) :
         (\E b \in DOMAIN blocks : Covers(blocks[b], a)) \/ (WordAt(a).op = "bad" /\ a > 0)

(* A splitting moves the flags along with the instruction they describe: in the
   finished table they are those of the last word of the block. *)
FlagsMatchLastWord ==
  phase = "done" =>
    \A b \in {blocks[k] : k \in {j \in DOMAIN blocks : blocks[j].len > 0}} :
      /\ b.has_trap = (LastInsn(b).op = "trap")
      /\ b.has_branch = IsBranch(LastInsn(b))
      /\ b.is_conditional_branch = IsCond(LastInsn(b))
      /\ \A a \in b.start..(End(b) - 2) : ~EndsBlock(WordAt(a))

(* The invariant of the scan: types, the open block, and the finished table. *)
ScanInv == ScanTypeOK /\ OpenBlockIsCurrent /\ FlagsMatchLastWord

(* "We break blocks at all branch targets, so this search should always
   terminate at a match": the search of translate_branch() meets no assertion and
   does not stay at an entry that has no label. *)
BranchFindsLabel ==
  phase = "done" =>
    \A b \in DOMAIN blocks :
      LET i == LastInsn(blocks[b])
      IN  blocks[b].len > 0 /\ HasTarget(i) =>
            /\ InUnit(i.target) => LabelSearch(i.target) = "found"
            /\ ~InUnit(i.target) => ~\E c \in DOMAIN blocks : Covers(blocks[c], i.target)

(* The scan stops at the end of the function, not before: a valid word that the
   code can reach from word 0 inside the limit is translated. *)
Successors(a) ==
  LET i == WordAt(a)
  IN  {s \in Words : \/ s = i.target /\ HasTarget(i)
                     \/ s = a + 1 /\ i.op \in {"plain", "trap", "bc"}}
ClosedUnderSuccessors(R) == \A a \in R : a < Len(memory) => Successors(a) \subseteq R
Reachable ==
  LET closed == {R \in SUBSET Words : 0 \in R /\ ClosedUnderSuccessors(R)}
  IN  {a \in Words : \A R \in closed : a \in R}
ReachableIsTranslated ==
  phase = "done" =>
    \A a \in Reachable :
      /\ a < Len(memory)
      /\ WordAt(a).op # "bad" => \E b \in DOMAIN blocks : Covers(blocks[b], a)

(****************************** Inductive invariant ******************************)

Ordered(bs) == \A j \in DOMAIN bs : \A k \in DOMAIN bs : j < k => bs[j].start < bs[k].start
Apart(b, c) == b.len > 0 /\ c.len > 0 /\ b.start < c.start => End(b) <= c.start

(* What the entry b says of the words m: nothing while it is empty, and then its
   last word and that no word before it ends a block. *)
Describes(b, m) ==
  IF b.len = 0 THEN ~b.has_trap /\ ~b.has_branch /\ ~b.is_conditional_branch
  ELSE /\ End(b) <= Len(m)
       /\ b.has_trap = (m[End(b)].op = "trap")
       /\ b.has_branch = IsBranch(m[End(b)])
       /\ b.is_conditional_branch = IsCond(m[End(b)])
       /\ \A a \in b.start..(End(b) - 2) : ~EndsBlock(m[a + 1])

TableOK(bs, m) == /\ bs \in Seq(BlockInfo) /\ Ordered(bs)
                  /\ \A b \in Range(bs) : Describes(b, m)
                  /\ \A b \in Range(bs) : \A c \in Range(bs) : Apart(b, c)

(* A branch target has an entry, and the entry a label. *)
Labelled(bs, t)  == \E b \in Range(bs) : b.start = t /\ b.is_branch_target
TargetsOK(bs, m) == \A i \in Range(m) : HasTarget(i) => Labelled(bs, i.target)

(* A word that was read is in a block, in the open block or passed over. *)
Covered(bs, a) == \E b \in Range(bs) : Covers(b, a)
InOpen(a)      == phase = "scan" /\ block # 0 /\ blocks[block].start <= a
WordsOK == \A a \in 0..(Len(memory) - 1) :
             Covered(blocks, a) \/ (WordAt(a).op = "bad" /\ a > 0) \/ InOpen(a)

OpenOK == phase = "scan" =>
            /\ Len(memory) = insn_count
            /\ block # 0 => \A b \in Range(blocks) : b.len > 0 => End(b) <= blocks[block].start

(* The scan stops at the limit, or at a word that nothing follows. *)
StopsAt(m) == /\ \A b \in Range(blocks) : b.start < Len(m)
              /\ MayEndUnit(Last(m))
EndOK == phase \in {"split", "done"} =>
           Len(memory) > 0 /\ (Len(memory) = MaxInsns \/ StopsAt(memory))

SplitOK ==
  /\ phase = "scan" => split = 2
  /\ phase = "split" => \A k \in DOMAIN blocks : k + 1 < split => End(blocks[k]) <= blocks[k + 1].start
  /\ phase = "done" => \A k \in 1..(Len(blocks) - 1) : End(blocks[k]) <= blocks[k + 1].start

ScanIInv == /\ ScanTypeOK
            /\ phase # "failed" =>
                 /\ OpenBlockIsCurrent /\ OpenOK
                 /\ TableOK(blocks, memory) /\ TargetsOK(blocks, memory)
                 /\ WordsOK /\ EndOK /\ SplitOK

==============================================================================
