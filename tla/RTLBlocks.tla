------------------------------ MODULE RTLBlocks ------------------------------
(* The block table of an RTL unit (src/rtl-block.c) and the two optimizer
   loops that edit it (rtl-opt.c: thread_branch and drop_dead_blocks).

   A block keeps two exit slots and NumEntries entry slots.  When the entry
   slots of a block are full, rtl_block_add_edge() moves all but the first to a
   dummy block taken from the same table and chained through entry_overflow.
   The search of rtl_block_remove_edge() for the entry to remove walks that
   chain one block at a time, so it is modelled one block at a time. *)
EXTENDS Integers, FiniteSets

CONSTANTS NumEntries,   \* lenof(RTLBlock.entries): 7 in rtl-internal.h
          MaxBlocks,    \* bound: largest table the allocator ever grants
          ExpandSize    \* BLOCKS_EXPAND_SIZE

ASSUME BlocksAssumption ==
  /\ NumEntries \in Nat \ {0}
  /\ MaxBlocks \in Nat \ {0}
  /\ ExpandSize \in 1..MaxBlocks

None == -1

Ids        == 0..(MaxBlocks - 1)
EntrySlots == 0..(NumEntries - 1)
ExitSlots  == 0..1

VARIABLES
  numBlocks, blocksSize, lastBlock,       \* fields of RTLUnit
  nextBlock, prevBlock, exits, entries, overflow,  \* fields of RTLBlock, by index
  owner,   \* history variable: the block a dummy extends, a real block itself
  pc,      \* the routine in progress
  call,    \* its arguments and locals
  seen     \* unit->block_seen[] while dead blocks are dropped

table == <<numBlocks, blocksSize, lastBlock, nextBlock, prevBlock,
           exits, entries, overflow, owner>>
vars  == <<table, pc, call, seen>>

Allocated == 0..(numBlocks - 1)
Real      == {b \in Allocated : owner[b] = b}
Dummies   == Allocated \ Real

(* Blocks of the code stream: the ones a walk along next_block from block 0
   meets.  drop_dead_blocks() unlinks a block by making its neighbours point
   past it. *)
InStream(b) == b \in Real /\ (b = 0 \/ nextBlock[prevBlock[b]] = b)
Stream      == {b \in Real : InStream(b)}

NoCall == [from |-> None, to |-> None, new |-> None, cur |-> None, back |-> "idle"]

Init ==
  /\ numBlocks = 0 /\ blocksSize = ExpandSize /\ lastBlock = None
  /\ nextBlock = [b \in Ids |-> 0]
  /\ prevBlock = [b \in Ids |-> 0]
  /\ exits = [b \in Ids |-> [i \in ExitSlots |-> 0]]
  /\ entries = [b \in Ids |-> [i \in EntrySlots |-> 0]]
  /\ overflow = [b \in Ids |-> 0]
  /\ owner = [b \in Ids |-> None]
  /\ pc = "idle" /\ call = NoCall /\ seen = {}

(***************************** Allocation *********************************)

(* get_new_block(): the array grows by ExpandSize when it is full, and the
   allocator may refuse; MaxBlocks is the most it ever grants. *)
GetNewBlock ==
  /\ \/ numBlocks < blocksSize /\ UNCHANGED blocksSize
     \/ /\ numBlocks >= blocksSize
        /\ numBlocks + ExpandSize <= MaxBlocks
        /\ blocksSize' = numBlocks + ExpandSize
  /\ numBlocks' = numBlocks + 1

NoNewBlock == numBlocks >= blocksSize /\ UNCHANGED <<numBlocks, blocksSize>>

(* rtl_block_add(); when get_new_block() fails it changes nothing. *)
LinkLast(b) == IF lastBlock >= 0 THEN [nextBlock EXCEPT ![b] = None, ![lastBlock] = b]
                                 ELSE [nextBlock EXCEPT ![b] = None]

BlockAdd ==
  /\ pc = "idle"
  /\ GetNewBlock
  /\ LET b == numBlocks IN
       /\ nextBlock' = LinkLast(b)
       /\ prevBlock' = [prevBlock EXCEPT ![b] = lastBlock]
       /\ lastBlock' = b
       /\ entries'   = [entries EXCEPT ![b] = [i \in EntrySlots |-> None]]
       /\ overflow'  = [overflow EXCEPT ![b] = None]
       /\ exits'     = [exits EXCEPT ![b] = [i \in ExitSlots |-> None]]
       /\ owner'     = [owner EXCEPT ![b] = b]
  /\ UNCHANGED <<pc, call, seen>>

(*************************** Adding an edge *******************************)

(* The first loop of rtl_block_add_edge() stops at the first free exit slot
   or at an exit that already goes to t, whichever comes first. *)
Used(a, i)        == \A j \in 0..(i - 1) : a[j] >= 0
FirstFree(a, i)   == a[i] < 0 /\ Used(a, i)
Duplicate(f, t)   == \E i \in ExitSlots : exits[f][i] = t /\ Used(exits[f], i)
BugExitFor(f, t, i) == ~Duplicate(f, t) /\ i = 0
ExitFor(f, t, i)  == ~Duplicate(f, t) /\ FirstFree(exits[f], i)
HeadFull(t)       == \A i \in EntrySlots : entries[t][i] >= 0

(* The entries of t and of the dummy block when t's slots are full. *)
BugHeadCleared(t)    == [i \in EntrySlots |-> None]
HeadAfterSplit(t)    == [i \in EntrySlots |-> IF i = 0 THEN entries[t][0] ELSE None]
DummyEntries(f, t)   == [i \in EntrySlots |-> IF i = 0 THEN f ELSE entries[t][i]]
BugDummyOverflow(t)  == None
DummyOverflow(t)     == overflow[t]

(* If no dummy block can be had, the exit slot is cleared again. *)
BugExitsOnFailure(f, t, i) == [exits EXCEPT ![f][i] = t]
ExitsOnFailure(f, t, i) == [exits EXCEPT ![f][i] = None]

EdgeInHead(f, t, i) ==
  \E j \in EntrySlots :
    /\ FirstFree(entries[t], j)
    /\ entries' = [entries EXCEPT ![t][j] = f]
    /\ exits' = [exits EXCEPT ![f][i] = t]
    /\ UNCHANGED <<numBlocks, blocksSize, nextBlock, prevBlock, overflow, owner>>

EdgeInDummy(f, t, i) ==
  /\ HeadFull(t)
  /\ GetNewBlock
  /\ LET d == numBlocks IN
       /\ overflow'  = [overflow EXCEPT ![d] = DummyOverflow(t), ![t] = d]
       /\ nextBlock' = [nextBlock EXCEPT ![d] = -2]
       /\ prevBlock' = [prevBlock EXCEPT ![d] = -3]
       /\ exits'     = [exits EXCEPT ![f][i] = t, ![d] = [k \in ExitSlots |-> -4 - k]]
       /\ entries'   = [entries EXCEPT ![d] = DummyEntries(f, t), ![t] = HeadAfterSplit(t)]
       /\ owner'     = [owner EXCEPT ![d] = t]

EdgeRefused(f, t, i) ==
  /\ HeadFull(t)
  /\ NoNewBlock
  /\ exits' = ExitsOnFailure(f, t, i)
  /\ UNCHANGED <<nextBlock, prevBlock, entries, overflow, owner>>

(* rtl_block_add_edge(f, t), and its result r. *)
DoAddEdge(f, t, r) ==
  /\ UNCHANGED lastBlock
  /\ \/ r /\ Duplicate(f, t) /\ UNCHANGED table
     \/ ~r /\ ~Duplicate(f, t) /\ (\A i \in ExitSlots : exits[f][i] >= 0) /\ UNCHANGED table
     \/ r /\ \E i \in ExitSlots : ExitFor(f, t, i) /\ EdgeInHead(f, t, i)
     \/ r /\ \E i \in ExitSlots : ExitFor(f, t, i) /\ EdgeInDummy(f, t, i)
     \/ ~r /\ \E i \in ExitSlots : ExitFor(f, t, i) /\ EdgeRefused(f, t, i)

AddEdge(f, t) ==
  /\ pc = "idle"
  /\ {f, t} \subseteq Stream
  /\ \E r \in BOOLEAN : DoAddEdge(f, t, r)
  /\ UNCHANGED <<pc, call, seen>>

(************************** Removing an edge ******************************)

(* The loops that close the gap left by a removed slot. *)
BugShiftDown(a, i, last) == [j \in 0..last |-> IF j = i THEN None ELSE a[j]]
ShiftDown(a, i, last) ==
  [j \in 0..last |-> IF j < i THEN a[j] ELSE IF j < last THEN a[j + 1] ELSE None]

(* rtl_block_remove_edge() up to its search loop; the routine then returns to
   the caller at pc = back. *)
StartRemove(f, i, new, back) ==
  /\ exits[f][i] >= 0
  /\ exits' = [exits EXCEPT ![f] = ShiftDown(exits[f], i, 1)]
  /\ call' = [from |-> f, to |-> exits[f][i], new |-> new, cur |-> exits[f][i], back |-> back]
  /\ pc' = "search"
  /\ UNCHANGED <<numBlocks, blocksSize, lastBlock, nextBlock, prevBlock,
                 entries, overflow, owner, seen>>

RemoveEdge(f, i) == pc = "idle" /\ f \in Stream /\ StartRemove(f, i, None, "idle")

(* One block of the search: go to the next dummy of the chain... *)
SearchFrom(b) == overflow[b]

SearchNext ==
  /\ pc = "search"
  /\ \A j \in EntrySlots : entries[call.cur][j] # call.from
  /\ overflow[call.cur] >= 0          \* ASSERT(to_block->entry_overflow >= 0)
  /\ call' = [call EXCEPT !.cur = SearchFrom(@)]
  /\ UNCHANGED <<table, pc, seen>>

(* ...or find the entry, and close the gap. *)
SearchFound ==
  /\ pc = "search"
  /\ \E j \in EntrySlots :
       /\ entries[call.cur][j] = call.from
       /\ \A k \in 0..(j - 1) : entries[call.cur][k] # call.from
       /\ entries' = [entries EXCEPT
            ![call.cur] = ShiftDown(entries[call.cur], j, NumEntries - 1)]
  /\ pc' = call.back
  /\ call' = IF call.back = "idle" THEN NoCall ELSE call
  /\ UNCHANGED <<numBlocks, blocksSize, lastBlock, nextBlock, prevBlock,
                 exits, overflow, owner, seen>>

(************************ The optimizer's edits ***************************)

(* visit_block(): the blocks reached from block 0 along exits, as the least
   set that holds 0 and the exits of its members. *)
BugClosedUnderExits(C) == 0 \in C /\ \A b \in C : exits[b][1] >= 0 => exits[b][1] \in C
ClosedUnderExits(C) ==
  0 \in C /\ \A b \in C, i \in ExitSlots : exits[b][i] >= 0 => exits[b][i] \in C
Reachable == {b \in Real : \A C \in SUBSET Real : ClosedUnderExits(C) => b \in C}

(* drop_dead_blocks(): walk the stream backwards from last_block; unlink every
   block that was not seen and remove its exits. *)
DropBegin ==
  /\ pc = "idle"
  /\ numBlocks > 0
  /\ seen' = Reachable
  /\ pc' = "scan"
  /\ call' = [NoCall EXCEPT !.from = lastBlock]
  /\ UNCHANGED table

DropSkip ==
  /\ pc = "scan"
  /\ call.from \in seen
  /\ call' = [call EXCEPT !.from = prevBlock[call.from]]
  /\ UNCHANGED <<table, pc, seen>>

BugUnlinkPrev(b) == prevBlock
UnlinkPrev(b) == IF nextBlock[b] >= 0 THEN [prevBlock EXCEPT ![nextBlock[b]] = prevBlock[b]]
                                      ELSE prevBlock
DropUnlink ==
  /\ pc = "scan"
  /\ LET b == call.from IN
       /\ b >= 0 /\ b \notin seen
       /\ nextBlock' = [nextBlock EXCEPT ![prevBlock[b]] = nextBlock[b]]
       /\ prevBlock' = UnlinkPrev(b)
       /\ lastBlock' = IF nextBlock[b] >= 0 THEN lastBlock ELSE prevBlock[b]
  /\ pc' = "drop"
  /\ UNCHANGED <<numBlocks, blocksSize, exits, entries, overflow, owner, call, seen>>

DropExit == pc = "drop" /\ StartRemove(call.from, 0, None, "drop")

DropNextBlock ==
  /\ pc = "drop"
  /\ exits[call.from][0] < 0
  /\ pc' = "scan"
  /\ call' = [NoCall EXCEPT !.from = prevBlock[call.from]]
  /\ UNCHANGED <<table, seen>>

DropEnd ==
  /\ pc = "scan"
  /\ call.from < 0
  /\ pc' = "idle" /\ call' = NoCall /\ seen' = {}
  /\ UNCHANGED table

(* thread_branch(): replace the edge f -> old by f -> new, or put the old
   edge back if that fails. *)
Retarget(f, i, new) ==
  /\ pc = "idle"
  /\ {f, new} \subseteq Stream
  /\ new \notin {f, exits[f][i]}
  /\ StartRemove(f, i, new, "retarget")

RetargetAdd ==
  /\ pc = "retarget"
  /\ \E r \in BOOLEAN :
       /\ DoAddEdge(call.from, call.new, r)
       /\ pc' = IF r THEN "idle" ELSE "restore"
       /\ call' = IF r THEN NoCall ELSE call
  /\ UNCHANGED seen

RetargetRestore ==
  /\ pc = "restore"
  /\ \E r \in BOOLEAN : DoAddEdge(call.from, call.to, r)
  /\ pc' = "idle" /\ call' = NoCall
  /\ UNCHANGED seen

(***************************************************************************)

Build    == BlockAdd \/ \E f, t \in Stream : AddEdge(f, t)
Edit     == \E f \in Stream, i \in ExitSlots :
              RemoveEdge(f, i) \/ (\E new \in Stream : Retarget(f, i, new))
Continue == \/ SearchNext \/ SearchFound
            \/ DropSkip \/ DropUnlink \/ DropExit \/ DropNextBlock \/ DropEnd
            \/ RetargetAdd \/ RetargetRestore

Next == Build \/ Edit \/ DropBegin \/ Continue

Spec == Init /\ [][Next]_vars

(***************************** Properties *********************************)

ExitEdges  == {e \in Real \X Real : \E i \in ExitSlots : exits[e[1]][i] = e[2]}
EntryEdges == {e \in Real \X Real :
                 \E b \in Allocated, j \in EntrySlots : owner[b] = e[2] /\ entries[b][j] = e[1]}
Removing   == {e \in Real \X Real : pc = "search" /\ e = <<call.from, call.to>>}

(* Types, and the table is never larger than the memory it was granted. *)
Links == Ids \cup {None, -2, -3}
TableTypeOK ==
  /\ numBlocks \in 0..MaxBlocks /\ blocksSize \in 1..MaxBlocks /\ numBlocks <= blocksSize
  /\ lastBlock \in Ids \cup {None}
  /\ nextBlock \in [Ids -> Links] /\ prevBlock \in [Ids -> Links]
  /\ exits \in [Ids -> [ExitSlots -> Ids \cup {None, -4, -5}]]
  /\ entries \in [Ids -> [EntrySlots -> Ids \cup {None}]]
  /\ overflow \in [Ids -> Ids \cup {None}]
  /\ owner \in [Ids -> Ids \cup {None}]
ControlTypeOK ==
  /\ pc \in {"idle", "search", "scan", "drop", "retarget", "restore"}
  /\ call \in [from : Ids \cup {None}, to : Ids \cup {None}, new : Ids \cup {None},
               cur : Ids \cup {None}, back : {"idle", "drop", "retarget"}]
  /\ seen \subseteq Ids
TypeOK == TableTypeOK /\ ControlTypeOK

(* The two records of the control-flow graph agree: an exit of f names t
   exactly when the entry slots of t or of its dummy blocks name f, except that
   rtl_block_remove_edge() drops the exit before it finds the entry.  A failed
   rtl_block_add_edge() "leaves no dangling edge". *)
EdgesAgree == ExitEdges \cap Removing = {} /\ EntryEdges = ExitEdges \cup Removing

(* "Holes in the list are not permitted", and no edge is recorded twice,
   neither in the exits nor in two slots of the same chain. *)
Packed(a, slots) == \A i, j \in slots : i < j /\ a[j] >= 0 => a[i] >= 0
SlotsPacked ==
  /\ \A b \in Allocated : Packed(entries[b], EntrySlots)
  /\ \A b \in Real : /\ Packed(exits[b], ExitSlots)
                     /\ exits[b][0] >= 0 => exits[b][0] # exits[b][1]
  /\ \A b, c \in Allocated, i, j \in EntrySlots :
       owner[b] = owner[c] /\ entries[b][i] >= 0 /\ entries[b][i] = entries[c][j]
         => b = c /\ i = j

(* The search of rtl_block_remove_edge() never runs off the end of the chain
   (its ASSERT), which overflow pointers, dummy blocks and earlier removals
   must conspire to guarantee. *)
SearchInChain ==
  pc = "search" => \/ \E j \in EntrySlots : entries[call.cur][j] = call.from
                   \/ overflow[call.cur] >= 0

(* The code stream is a list doubly linked in increasing order of index, from
   block 0 to last_block; dummy blocks are never on it. *)
StreamLinked ==
  /\ \A b \in Stream :
       /\ nextBlock[b] = None <=> b = lastBlock
       /\ nextBlock[b] # None => /\ nextBlock[b] \in Stream /\ nextBlock[b] > b
                                /\ prevBlock[nextBlock[b]] = b
       /\ b # 0 => prevBlock[b] \in Stream /\ prevBlock[b] < b
  /\ Real # {} => /\ 0 \in Stream /\ prevBlock[0] = None
                  /\ lastBlock \in Stream

(* drop_dead_blocks() keeps exactly the blocks to which some path leads from
   block 0 in the graph it leaves behind, although it unlinks blocks from the
   list it is walking and removes edges as it goes. *)
LeadsFrom0(b) == \A C \in SUBSET Real :
  0 \in C /\ (\A e \in ExitEdges : e[1] \in C => e[2] \in C) => b \in C
DropIsExact == [][DropEnd => Stream = {b \in Real : LeadsFrom0(b)}]_vars

(* Seen through the exit slots or through the entry chains, the table is a
   plain directed graph: each routine adds or removes one edge, or nothing. *)
ExitView  == INSTANCE FlowGraph WITH Node <- Ids, nodes <- Real, edges <- ExitEdges
EntryView == INSTANCE FlowGraph WITH Node <- Ids, nodes <- Real, edges <- EntryEdges
ExitsImplementGraph   == ExitView!Spec
EntriesImplementGraph == EntryView!Spec

(************************ The inductive invariant **************************)

(* References stay inside the table, and between real blocks where they must. *)
Shape ==
  /\ \A b \in Allocated : owner[b] \in Real /\ entries[b] \in [EntrySlots -> Real \cup {None}]
  /\ \A b \in Real : /\ exits[b] \in [ExitSlots -> Real \cup {None}]
                     /\ nextBlock[b] \in Real \cup {None}
                     /\ prevBlock[b] \in Real \cup {None}
  /\ lastBlock \in Real \cup {None}

(* The chain of a block visits every dummy it owns, youngest first. *)
ChainOrdered ==
  /\ \A b \in Allocated : overflow[b] # None =>
       /\ overflow[b] \in Dummies /\ owner[overflow[b]] = owner[b]
       /\ b \in Dummies => overflow[b] < b
  /\ \A b \in Allocated, d \in Dummies :
       owner[d] = owner[b] /\ (b \in Real \/ d < b) => d <= overflow[b]

(* Every exit has an entry, and every entry an exit unless it is the one that
   rtl_block_remove_edge() is looking for. *)
ExitHasEntry ==
  \A f \in Real, i \in ExitSlots : exits[f][i] # None =>
    \E b \in Allocated, j \in EntrySlots : owner[b] = exits[f][i] /\ entries[b][j] = f
EntryHasExit ==
  \A b \in Allocated, j \in EntrySlots : entries[b][j] # None =>
    \/ \E i \in ExitSlots : exits[entries[b][j]][i] = owner[b]
    \/ pc = "search" /\ entries[b][j] = call.from /\ owner[b] = call.to

(* The arguments of the routine in progress, and what its search has left. *)
Ahead(b) == b = call.cur \/ (b \in Dummies /\ (call.cur \in Real \/ b < call.cur))
CallOK ==
  /\ pc = "search" =>
       /\ call.from \in Real /\ call.to \in Real /\ call.cur \in Allocated
       /\ owner[call.cur] = call.to
       /\ \A i \in ExitSlots : exits[call.from][i] # call.to
       /\ \E b \in Allocated, j \in EntrySlots :
            owner[b] = call.to /\ entries[b][j] = call.from /\ Ahead(b)
       /\ call.back = "retarget" => call.new \in Real
  /\ pc = "scan" => call.from \in Real \cup {None}
  /\ pc = "drop" => call.from \in Real
  /\ pc \in {"retarget", "restore"} => {call.from, call.to, call.new} \subseteq Real

IInv == /\ TypeOK /\ Shape /\ ChainOrdered /\ SlotsPacked
        /\ ExitHasEntry /\ EntryHasExit /\ CallOK

(********************** The invariant of the stream ***********************)

(* While dead blocks are dropped, and while the edges of one of them are removed. *)
Dropping == pc \in {"scan", "drop"} \/ (pc = "search" /\ call.back = "drop")
Gone     == pc = "drop" \/ (pc = "search" /\ call.back = "drop")

(* The links of a block that has left the stream still point back into the table, and
   no block of the stream lies between two that are linked. *)
StreamOrdered ==
  /\ (numBlocks = 0 => lastBlock = None) /\ (numBlocks > 0 => 0 \in Real)
  /\ \A b \in Real \ {0} : prevBlock[b] \in Real /\ prevBlock[b] < b
  /\ \A b \in Stream : b <= lastBlock /\ \A c \in Stream : b < c => b <= prevBlock[c]

(* Only blocks of the stream have edges, except the one whose edges are being removed;
   between calls the edges stay within the stream. *)
EdgesInStream ==
  \A e \in ExitEdges : \/ e[1] \in Stream /\ (Dropping \/ e[2] \in Stream)
                       \/ Gone /\ e[1] = call.from

CallInStream ==
  /\ pc = "scan" => call.from \in Stream \cup {None}
  /\ Gone => /\ call.from \in Real \ Stream /\ prevBlock[call.from] \in Stream
             /\ \A b \in Stream : b < call.from => b <= prevBlock[call.from]
  /\ pc \in {"retarget", "restore"} \/ (pc = "search" /\ call.back = "retarget") =>
       {call.from, call.to, call.new} \subseteq Stream

(* What was seen is what can still be reached, and all that is left of the part of the
   stream that has been walked. *)
Closed(C) == 0 \in C /\ \A e \in ExitEdges : e[1] \in C => e[2] \in C
SeenOK ==
  Dropping => /\ seen \subseteq Stream /\ Closed(seen)
              /\ \A C \in SUBSET Real : Closed(C) => seen \subseteq C
              /\ \A b \in Stream : b > call.from => b \in seen

StreamIInv == StreamOrdered /\ StreamLinked /\ EdgesInStream /\ CallInStream /\ SeenOK
==============================================================================
