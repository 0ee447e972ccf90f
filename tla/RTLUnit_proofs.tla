---------------------------- MODULE RTLUnit_proofs ----------------------------
(* Proofs about RTLBlocks and RTLUnit, for every number of entry slots and every size
   of a table: the invariant IInv of the block table is inductive; building a unit
   uses the table as RTLBlocks says, so that what is proved of that module holds of
   the unit, and the invariant of the unit holds with it. *)
EXTENDS RTLUnit, TLAPS

(***************************** The block table *****************************)

(* Real blocks and dummies are table indices. *)
LEMMA Indices ==
  ASSUME TypeOK
  PROVE  /\ Allocated \subseteq Ids /\ Real \subseteq Allocated
         /\ numBlocks \notin Allocated /\ numBlocks \in Nat
         /\ \A b \in Ids : b \in Nat
         /\ \A b \in Real : owner[b] = b
         /\ None \notin Ids
BY BlocksAssumption DEF TypeOK, TableTypeOK, Allocated, Real, Ids, None

(* An empty table satisfies the inductive invariant. *)
LEMMA InitInv == Init => IInv
<1> SUFFICES ASSUME Init PROVE IInv
  OBVIOUS
<1>1. TypeOK
  BY BlocksAssumption DEF Init, TypeOK, TableTypeOK, ControlTypeOK, NoCall, None, Ids, Links, ExitSlots, EntrySlots
<1>2. Allocated = {} /\ Real = {} /\ Dummies = {}
  BY DEF Init, Allocated, Real, Dummies
<1>3. Shape /\ ChainOrdered /\ SlotsPacked /\ ExitHasEntry /\ EntryHasExit
  BY <1>2 DEF Init, Shape, ChainOrdered, SlotsPacked, ExitHasEntry, EntryHasExit, None
<1>4. CallOK
  BY DEF Init, CallOK
<1> QED BY <1>1, <1>3, <1>4 DEF IInv

(* A fresh slot of the table, and what get_new_block() does to its size. *)
LEMMA NewIndex ==
  ASSUME TypeOK, GetNewBlock
  PROVE  /\ numBlocks \in Ids
         /\ numBlocks' = numBlocks + 1 /\ numBlocks' \in 0..MaxBlocks
         /\ blocksSize' \in 1..MaxBlocks /\ numBlocks' <= blocksSize'
         /\ 0..(numBlocks' - 1) = Allocated \cup {numBlocks}
BY BlocksAssumption DEF TypeOK, TableTypeOK, GetNewBlock, Ids, Allocated

(* rtl_block_add() gives the table a block without edges. *)
LEMMA BlockAddInv ==
  ASSUME IInv, BlockAdd
  PROVE  IInv'
<1> DEFINE b == numBlocks
<1>0. TypeOK /\ Shape /\ ChainOrdered /\ SlotsPacked /\ ExitHasEntry /\ EntryHasExit /\ CallOK
  BY DEF IInv
<1>1. b \in Ids /\ b \notin Allocated
  BY <1>0, NewIndex, Indices DEF BlockAdd
<1>2. TypeOK'
  <2>1. numBlocks' \in 0..MaxBlocks /\ blocksSize' \in 1..MaxBlocks /\ numBlocks' <= blocksSize'
    BY <1>0, NewIndex DEF BlockAdd
  <2>2. nextBlock' \in [Ids -> Links] /\ prevBlock' \in [Ids -> Links]
    BY <1>0, <1>1 DEF TypeOK, TableTypeOK, BlockAdd, LinkLast, Links, None
  <2> QED BY <1>0, <1>1, <2>1, <2>2 DEF TypeOK, TableTypeOK, ControlTypeOK, BlockAdd, None
<1>3. /\ Allocated' = Allocated \cup {b}
      /\ \A c \in Allocated : owner'[c] = owner[c]
      /\ owner'[b] = b
  BY <1>0, <1>1, NewIndex, Indices DEF BlockAdd, TypeOK, TableTypeOK, Allocated
<1>4. Real' = Real \cup {b} /\ Dummies' = Dummies
  BY <1>0, <1>1, <1>3 DEF Real, Dummies
<1>5. Shape'
  BY <1>0, <1>1, <1>3, <1>4, Indices DEF Shape, BlockAdd, TypeOK, TableTypeOK, LinkLast, None
<1>6. ChainOrdered'
  BY <1>0, <1>1, <1>3, <1>4, Indices DEF Shape, ChainOrdered, BlockAdd, TypeOK, TableTypeOK, Dummies, Real
<1>7. SlotsPacked'
  BY <1>0, <1>1, <1>3, <1>4, Indices DEF Shape, SlotsPacked, Packed, BlockAdd, TypeOK, TableTypeOK, None, EntrySlots, ExitSlots
<1>8. ExitHasEntry'
  BY <1>0, <1>1, <1>3, <1>4, Indices DEF Shape, ExitHasEntry, BlockAdd, TypeOK, TableTypeOK
<1>9. EntryHasExit'
  BY <1>0, <1>1, <1>3, <1>4, Indices DEF Shape, EntryHasExit, BlockAdd, TypeOK, TableTypeOK
<1>10. CallOK'
  BY DEF CallOK, BlockAdd
<1> QED BY <1>2, <1>5, <1>6, <1>7, <1>8, <1>9, <1>10 DEF IInv

(* The part of IInv that the routine in progress does not enter. *)
EntriesHaveExits ==
  \A b \in Allocated, j \in EntrySlots : entries[b][j] # None =>
    \E i \in ExitSlots : exits[entries[b][j]][i] = owner[b]

TableInv == /\ TableTypeOK /\ Shape /\ ChainOrdered /\ SlotsPacked
            /\ ExitHasEntry /\ EntriesHaveExits

(* A new edge is not yet in the entry chains. *)
LEMMA NewEdge ==
  ASSUME IInv, pc # "search", NEW f \in Real, NEW t \in Real, NEW i \in ExitSlots,
         ExitFor(f, t, i)
  PROVE  /\ exits[f][i] = None
         /\ \A k \in ExitSlots : exits[f][k] # t
         /\ \A b \in Allocated, j \in EntrySlots : owner[b] = t => entries[b][j] # f
<1>1. exits[f] \in [ExitSlots -> Real \cup {None}] /\ exits[f][i] = None
  BY Indices DEF IInv, Shape, ExitFor, FirstFree, Ids
<1>2. \A k \in ExitSlots : exits[f][k] # t
  BY <1>1, Indices DEF IInv, SlotsPacked, Packed, ExitFor, FirstFree, Used, Duplicate, ExitSlots, None
<1> QED BY <1>1, <1>2, Indices DEF IInv, EntryHasExit, None

(* rtl_block_add_edge() with an entry slot free in the target itself. *)
LEMMA EdgeInHeadInv ==
  ASSUME IInv, pc # "search", NEW f \in Real, NEW t \in Real, NEW i \in ExitSlots,
         ExitFor(f, t, i), EdgeInHead(f, t, i), UNCHANGED lastBlock
  PROVE  TableInv' /\ Real' = Real /\ Allocated' = Allocated
<1>0. TypeOK /\ Shape /\ ChainOrdered /\ SlotsPacked /\ ExitHasEntry /\ EntryHasExit
  BY DEF IInv
<1>1. PICK j \in EntrySlots :
        /\ FirstFree(entries[t], j)
        /\ entries' = [entries EXCEPT ![t][j] = f]
  BY DEF EdgeInHead
<1>2. /\ exits[f][i] = None /\ \A k \in ExitSlots : exits[f][k] # t
      /\ \A b \in Allocated, k \in EntrySlots : owner[b] = t => entries[b][k] # f
  BY NewEdge
<1>3. Real' = Real /\ Allocated' = Allocated /\ Dummies' = Dummies
  BY DEF EdgeInHead, Real, Allocated, Dummies
<1>4. TableTypeOK'
  BY <1>0, <1>1, Indices DEF TypeOK, TableTypeOK, EdgeInHead
<1>5. /\ f \in Ids /\ t \in Ids /\ t \in Allocated /\ owner[t] = t
      /\ entries[t][j] = None
  BY <1>0, <1>1, Indices DEF TypeOK, TableTypeOK, FirstFree, Ids
<1>6. Shape'
  BY <1>0, <1>1, <1>3, <1>5, Indices DEF Shape, EdgeInHead, TypeOK, TableTypeOK
<1>7. ChainOrdered'
  BY <1>0, <1>3 DEF ChainOrdered, EdgeInHead
<1>8. SlotsPacked'
  <2>1. \A b \in Allocated : Packed(entries'[b], EntrySlots)
    BY <1>0, <1>1, <1>5, Indices DEF SlotsPacked, Packed, FirstFree, Used, TypeOK, TableTypeOK, EntrySlots, Ids
  <2>2. \A b \in Real : Packed(exits'[b], ExitSlots) /\ (exits'[b][0] >= 0 => exits'[b][0] # exits'[b][1])
    BY <1>0, <1>2, <1>5, Indices DEF SlotsPacked, Packed, ExitFor, FirstFree, Used, TypeOK, TableTypeOK, ExitSlots, Ids, EdgeInHead
  <2>3. \A b, c \in Allocated, k, l \in EntrySlots :
          owner[b] = owner[c] /\ entries'[b][k] >= 0 /\ entries'[b][k] = entries'[c][l]
            => b = c /\ k = l
    BY <1>0, <1>1, <1>2, <1>5, Indices DEF SlotsPacked, TypeOK, TableTypeOK
  <2> QED BY <1>3, <2>1, <2>2, <2>3 DEF SlotsPacked, EdgeInHead
<1>9. ExitHasEntry'
  BY <1>0, <1>1, <1>2, <1>3, <1>5, Indices DEF ExitHasEntry, EdgeInHead, TypeOK, TableTypeOK
<1>10. EntriesHaveExits'
  BY <1>0, <1>1, <1>2, <1>3, <1>5, Indices DEF EntryHasExit, EntriesHaveExits, EdgeInHead, TypeOK, TableTypeOK, Shape
<1> QED BY <1>3, <1>4, <1>6, <1>7, <1>8, <1>9, <1>10 DEF TableInv

(* The same with a dummy block inserted to hold the new entry. *)
LEMMA EdgeInDummyInv ==
  ASSUME IInv, pc # "search", NEW f \in Real, NEW t \in Real, NEW i \in ExitSlots,
         ExitFor(f, t, i), EdgeInDummy(f, t, i), UNCHANGED lastBlock
  PROVE  TableInv' /\ Real' = Real
<1> DEFINE d == numBlocks
<1>0. TypeOK /\ Shape /\ ChainOrdered /\ SlotsPacked /\ ExitHasEntry /\ EntryHasExit
  BY DEF IInv
<1>1. d \in Ids /\ d \notin Allocated /\ f # d /\ t # d /\ f \in Ids /\ t \in Ids
  BY <1>0, NewIndex, Indices DEF EdgeInDummy
<1>2. /\ exits[f][i] = None /\ \A k \in ExitSlots : exits[f][k] # t
      /\ \A b \in Allocated, k \in EntrySlots : owner[b] = t => entries[b][k] # f
  BY NewEdge
<1>3. /\ Allocated' = Allocated \cup {d}
      /\ \A c \in Allocated : owner'[c] = owner[c]
      /\ owner'[d] = t
  BY <1>0, <1>1, NewIndex, Indices DEF EdgeInDummy, TypeOK, TableTypeOK, Allocated
<1>4. Real' = Real /\ Dummies' = Dummies \cup {d}
  BY <1>0, <1>1, <1>3 DEF Real, Dummies
<1>5. TableTypeOK'
  <2>1. numBlocks' \in 0..MaxBlocks /\ blocksSize' \in 1..MaxBlocks /\ numBlocks' <= blocksSize'
    BY <1>0, NewIndex DEF EdgeInDummy
  <2>2. nextBlock' \in [Ids -> Links] /\ prevBlock' \in [Ids -> Links]
    BY <1>0, <1>1 DEF TypeOK, TableTypeOK, EdgeInDummy, Links
  <2>3. exits' \in [Ids -> [ExitSlots -> Ids \cup {None, -4, -5}]]
    BY <1>0, <1>1 DEF TypeOK, TableTypeOK, EdgeInDummy, ExitSlots
  <2>4. entries' \in [Ids -> [EntrySlots -> Ids \cup {None}]]
    <3>1. entries[t] \in [EntrySlots -> Ids \cup {None}] /\ 0 \in EntrySlots
      BY <1>0, <1>1, BlocksAssumption DEF TypeOK, TableTypeOK, EntrySlots
    <3>2. DummyEntries(f, t) \in [EntrySlots -> Ids \cup {None}]
      BY <1>1, <3>1 DEF DummyEntries
    <3>3. HeadAfterSplit(t) \in [EntrySlots -> Ids \cup {None}]
      BY <3>1 DEF HeadAfterSplit
    <3> QED BY <1>0, <1>1, <3>2, <3>3 DEF TypeOK, TableTypeOK, EdgeInDummy
  <2>5. overflow' \in [Ids -> Ids \cup {None}] /\ owner' \in [Ids -> Ids \cup {None}]
    BY <1>0, <1>1 DEF TypeOK, TableTypeOK, EdgeInDummy, DummyOverflow
  <2> QED BY <1>0, <2>1, <2>2, <2>3, <2>4, <2>5 DEF TypeOK, TableTypeOK
<1>6. /\ entries'[d] = DummyEntries(f, t) /\ entries'[t] = HeadAfterSplit(t)
      /\ \A b \in Allocated : b # t => entries'[b] = entries[b]
      /\ exits'[f] = [exits[f] EXCEPT ![i] = t]
      /\ \A b \in Real : b # f => exits'[b] = exits[b]
  BY <1>0, <1>1, Indices DEF EdgeInDummy, TypeOK, TableTypeOK
<1>7. Shape'
  <2>1. DummyEntries(f, t) \in [EntrySlots -> Real \cup {None}]
    BY <1>0, Indices DEF Shape, DummyEntries
  <2>2. HeadAfterSplit(t) \in [EntrySlots -> Real \cup {None}]
    BY <1>0, Indices DEF Shape, HeadAfterSplit
  <2>3. \A b \in Real : nextBlock'[b] = nextBlock[b] /\ prevBlock'[b] = prevBlock[b]
    BY <1>0, <1>1, Indices DEF EdgeInDummy, TypeOK, TableTypeOK
  <2> QED BY <1>0, <1>3, <1>4, <1>6, <2>1, <2>2, <2>3, Indices DEF Shape
<1>8. ChainOrdered'
  <2>1. /\ overflow'[d] = overflow[t] /\ overflow'[t] = d
        /\ \A b \in Allocated : b # t => overflow'[b] = overflow[b]
    BY <1>0, <1>1, Indices DEF EdgeInDummy, DummyOverflow, TypeOK, TableTypeOK
  <2>2. \A b \in Allocated : b < d
    BY <1>0 DEF Allocated, TypeOK, TableTypeOK
  <2> QED BY <1>0, <1>1, <1>3, <1>4, <2>1, <2>2, Indices DEF ChainOrdered, Dummies, Shape
<1>9. SlotsPacked'
  <2>1. \A j \in EntrySlots : entries[t][j] >= 0
    BY DEF EdgeInDummy, HeadFull
  <2>2. \A b \in Allocated' : Packed(entries'[b], EntrySlots)
    <3>1. Packed(DummyEntries(f, t), EntrySlots) /\ Packed(HeadAfterSplit(t), EntrySlots)
      BY <1>0, <1>1, <2>1 DEF Packed, DummyEntries, HeadAfterSplit, EntrySlots, Ids, None
    <3> QED BY <1>0, <1>3, <1>6, <3>1 DEF SlotsPacked
  <2>3. \A b \in Real : Packed(exits'[b], ExitSlots) /\ (exits'[b][0] >= 0 => exits'[b][0] # exits'[b][1])
    BY <1>0, <1>1, <1>2, <1>6, Indices DEF SlotsPacked, Packed, ExitFor, FirstFree, Used, TypeOK, TableTypeOK, ExitSlots, Ids
  <2>4. \A b, c \in Allocated', k, l \in EntrySlots :
          owner'[b] = owner'[c] /\ entries'[b][k] >= 0 /\ entries'[b][k] = entries'[c][l]
            => b = c /\ k = l
    <3>1. \A k \in EntrySlots : entries'[d][k] = IF k = 0 THEN f ELSE entries[t][k]
      BY <1>6 DEF DummyEntries
    <3>2. \A k \in EntrySlots : entries'[t][k] = IF k = 0 THEN entries[t][0] ELSE None
      BY <1>6 DEF HeadAfterSplit
    <3>3. t \in Allocated /\ owner[t] = t
      BY <1>0, Indices
    <3> QED BY <1>0, <1>1, <1>2, <1>3, <1>6, <3>1, <3>2, <3>3 DEF SlotsPacked, None, EntrySlots
  <2> QED BY <1>4, <2>2, <2>3, <2>4 DEF SlotsPacked
<1>10. ExitHasEntry'
  <2> SUFFICES ASSUME NEW g \in Real, NEW k \in ExitSlots, exits'[g][k] # None
               PROVE  \E b \in Allocated', j \in EntrySlots :
                        owner'[b] = exits'[g][k] /\ entries'[b][j] = g
    BY <1>4 DEF ExitHasEntry
  <2>1. 0 \in EntrySlots
    BY BlocksAssumption DEF EntrySlots
  <2>2. CASE g = f /\ k = i
    BY <1>0, <1>3, <1>6, <2>1, <2>2, Indices DEF Shape, DummyEntries
  <2>3. CASE ~(g = f /\ k = i)
    <3>1. exits'[g][k] = exits[g][k]
      BY <1>0, <1>6, <2>3, Indices DEF Shape
    <3>2. PICK b \in Allocated, j \in EntrySlots : owner[b] = exits[g][k] /\ entries[b][j] = g
      BY <1>0, <3>1 DEF ExitHasEntry
    <3>3. CASE b # t
      BY <1>3, <1>6, <3>1, <3>2, <3>3
    <3>4. CASE b = t /\ j = 0
      BY <1>3, <1>6, <3>1, <3>2, <3>4 DEF HeadAfterSplit
    <3>5. CASE b = t /\ j # 0
      BY <1>0, <1>3, <1>6, <3>1, <3>2, <3>5, Indices DEF DummyEntries
    <3> QED BY <3>3, <3>4, <3>5
  <2> QED BY <2>2, <2>3
<1>11. EntriesHaveExits'
  <2> SUFFICES ASSUME NEW b \in Allocated', NEW j \in EntrySlots, entries'[b][j] # None
               PROVE  \E k \in ExitSlots : exits'[entries'[b][j]][k] = owner'[b]
    BY DEF EntriesHaveExits
  <2>1. exits'[f][i] = t
    BY <1>0, <1>6 DEF Shape
  <2>2. \A g \in Real, k \in ExitSlots : exits[g][k] # None => exits'[g][k] = exits[g][k]
    BY <1>0, <1>2, <1>6 DEF Shape
  <2>3. \A c \in Allocated, l \in EntrySlots : entries[c][l] # None =>
          /\ entries[c][l] \in Real
          /\ \E k \in ExitSlots : exits'[entries[c][l]][k] = owner[c]
    <3> SUFFICES ASSUME NEW c \in Allocated, NEW l \in EntrySlots, entries[c][l] # None
                 PROVE  /\ entries[c][l] \in Real
                        /\ \E k \in ExitSlots : exits'[entries[c][l]][k] = owner[c]
      OBVIOUS
    <3>1. entries[c][l] \in Real
      BY <1>0 DEF Shape
    <3>2. PICK k \in ExitSlots : exits[entries[c][l]][k] = owner[c]
      BY <1>0 DEF EntryHasExit
    <3>3. owner[c] # None
      BY <1>0, Indices DEF Shape
    <3> QED BY <2>2, <3>1, <3>2, <3>3
  <2>4. owner[t] = t /\ t \in Allocated
    BY <1>0, Indices
  <2>5. CASE b = d
    <3>1. entries'[b][j] = IF j = 0 THEN f ELSE entries[t][j]
      BY <1>6, <2>5 DEF DummyEntries
    <3>2. owner'[b] = t
      BY <1>3, <2>5
    <3> QED BY <2>1, <2>3, <2>4, <3>1, <3>2
  <2>6. CASE b = t
    BY <1>3, <1>6, <2>3, <2>4, <2>6 DEF HeadAfterSplit
  <2>7. CASE b \in Allocated /\ b # t
    BY <1>3, <1>6, <2>3, <2>7
  <2> QED BY <1>3, <2>5, <2>6, <2>7
<1> QED BY <1>4, <1>5, <1>7, <1>8, <1>9, <1>10, <1>11 DEF TableInv

(* Every outcome of rtl_block_add_edge(), refusals and failed allocations included. *)
LEMMA AddEdgeInv ==
  ASSUME IInv, pc # "search", NEW f \in Real, NEW t \in Real, NEW r \in BOOLEAN,
         DoAddEdge(f, t, r)
  PROVE  TableInv' /\ Real' = Real
<1>1. TableInv /\ TypeOK
  BY DEF IInv, TableInv, TypeOK, EntryHasExit, EntriesHaveExits
<1>2. CASE UNCHANGED table
  BY <1>1, <1>2 DEF table, TableInv, TableTypeOK, Shape, ChainOrdered, SlotsPacked, ExitHasEntry,
     EntriesHaveExits, Real, Allocated, Dummies
<1>3. ASSUME NEW i \in ExitSlots, ExitFor(f, t, i), EdgeInHead(f, t, i)
      PROVE  TableInv' /\ Real' = Real
  BY <1>3, EdgeInHeadInv DEF DoAddEdge
<1>4. ASSUME NEW i \in ExitSlots, ExitFor(f, t, i), EdgeInDummy(f, t, i)
      PROVE  TableInv' /\ Real' = Real
  BY <1>4, EdgeInDummyInv DEF DoAddEdge
<1>5. ASSUME NEW i \in ExitSlots, ExitFor(f, t, i), EdgeRefused(f, t, i)
      PROVE  TableInv' /\ Real' = Real
  <2>1. exits[f][i] = None
    BY <1>5, NewEdge
  <2>2. exits' = exits
    BY <1>1, <1>5, <2>1, Indices DEF EdgeRefused, ExitsOnFailure, TypeOK, TableTypeOK
  <2>3. UNCHANGED table
    BY <1>5, <2>2 DEF EdgeRefused, NoNewBlock, DoAddEdge, table
  <2> QED BY <1>1, <2>3, <1>2
<1> QED BY <1>2, <1>3, <1>4, <1>5 DEF DoAddEdge

(* rtl_block_remove_edge() up to its search: the exit is gone, the entry is
   still somewhere in the chain of its target. *)
LEMMA StartRemoveInv ==
  ASSUME IInv, NEW f \in Real, NEW i \in ExitSlots, NEW new \in Real \cup {None},
         NEW back \in {"idle", "drop", "retarget"},
         pc # "search", StartRemove(f, i, new, back), back = "retarget" => new \in Real
  PROVE  IInv' /\ Real' = Real
<1>0. TypeOK /\ Shape /\ ChainOrdered /\ SlotsPacked /\ ExitHasEntry /\ EntryHasExit
  BY DEF IInv
<1> DEFINE t == exits[f][i]
<1>1. Real' = Real /\ Allocated' = Allocated /\ Dummies' = Dummies
  BY DEF StartRemove, Real, Allocated, Dummies
<1>2. /\ f \in Ids /\ t \in Real /\ t \in Allocated /\ t \in Ids /\ owner[t] = t
      /\ exits[f] \in [ExitSlots -> Real \cup {None}]
  BY <1>0, Indices DEF Shape, StartRemove, None
<1>3. /\ exits'[f] = [k \in ExitSlots |-> IF k < i THEN exits[f][k] ELSE IF k < 1 THEN exits[f][k + 1] ELSE None]
      /\ \A b \in Ids : b # f => exits'[b] = exits[b]
  BY <1>0, <1>2 DEF StartRemove, ShiftDown, ExitSlots, TypeOK, TableTypeOK
<1>4. \A k \in ExitSlots : k # i => exits[f][k] # t
  BY <1>0, <1>2, Indices DEF SlotsPacked, Packed, ExitSlots, None, Ids
<1>5. /\ \A k \in ExitSlots : exits'[f][k] # t /\ exits'[f][k] \in Real \cup {None}
      /\ \A k \in ExitSlots : exits'[f][k] # None => \E l \in ExitSlots : exits'[f][k] = exits[f][l]
      /\ \A k \in ExitSlots : k # i /\ exits[f][k] # None => \E l \in ExitSlots : exits'[f][l] = exits[f][k]
  BY <1>0, <1>2, <1>3, <1>4, Indices DEF ExitSlots, SlotsPacked, Packed, None, Ids
<1>6. TypeOK'
  <2>1. exits' \in [Ids -> [ExitSlots -> Ids \cup {None, -4, -5}]]
    BY <1>0, <1>2, <1>3, <1>5, Indices DEF StartRemove, ShiftDown, TypeOK, TableTypeOK, ExitSlots
  <2>2. call' \in [from : Ids \cup {None}, to : Ids \cup {None}, new : Ids \cup {None},
                  cur : Ids \cup {None}, back : {"idle", "drop", "retarget"}]
    BY <1>0, <1>2, Indices DEF StartRemove
  <2> QED BY <1>0, <2>1, <2>2 DEF TypeOK, TableTypeOK, ControlTypeOK, StartRemove
<1>7. Shape'
  <2>1. exits'[f] \in [ExitSlots -> Real \cup {None}]
    BY <1>3, <1>5
  <2> QED BY <1>0, <1>1, <1>2, <1>3, <2>1, Indices DEF Shape, StartRemove
<1>8. ChainOrdered'
  BY <1>0, <1>1 DEF ChainOrdered, StartRemove
<1>9. SlotsPacked'
  <2>1. Packed(exits'[f], ExitSlots) /\ (exits'[f][0] >= 0 => exits'[f][0] # exits'[f][1])
    BY <1>0, <1>2, <1>3, Indices DEF SlotsPacked, Packed, ExitSlots, None, Ids
  <2>2. \A b \in Real : b # f => exits'[b] = exits[b]
    BY <1>0, <1>3, Indices
  <2>3. \A b \in Real : Packed(exits'[b], ExitSlots) /\ (exits'[b][0] >= 0 => exits'[b][0] # exits'[b][1])
    BY <1>0, <2>1, <2>2 DEF SlotsPacked
  <2> QED BY <1>0, <1>1, <2>3 DEF SlotsPacked, StartRemove
<1>10. ExitHasEntry'
  <2> SUFFICES ASSUME NEW g \in Real, NEW k \in ExitSlots, exits'[g][k] # None
               PROVE  \E l \in ExitSlots : exits'[g][k] = exits[g][l] /\ exits[g][l] # None
    BY <1>0, <1>1 DEF ExitHasEntry, StartRemove
  <2> QED BY <1>0, <1>3, <1>5, Indices
<1>11. EntryHasExit'
  <2> SUFFICES ASSUME NEW b \in Allocated, NEW j \in EntrySlots, entries[b][j] # None,
                      ~(entries[b][j] = f /\ owner[b] = t)
               PROVE  \E l \in ExitSlots : exits'[entries[b][j]][l] = owner[b]
    BY <1>1 DEF EntryHasExit, StartRemove
  <2>1. PICK k \in ExitSlots : exits[entries[b][j]][k] = owner[b]
    BY <1>0 DEF EntryHasExit
  <2>2. entries[b][j] \in Real /\ owner[b] # None
    BY <1>0, Indices DEF Shape
  <2> QED BY <1>0, <1>3, <1>5, <2>1, <2>2, Indices
<1>12. CallOK'
  <2>1. PICK b \in Allocated, j \in EntrySlots : owner[b] = t /\ entries[b][j] = f
    BY <1>0, <1>2, Indices DEF ExitHasEntry
  <2>2. b = t \/ b \in Dummies
    BY <2>1 DEF Dummies, Real
  <2> QED BY <1>1, <1>2, <1>5, <2>1, <2>2 DEF CallOK, StartRemove, Ahead
<1> QED BY <1>1, <1>6, <1>7, <1>8, <1>9, <1>10, <1>11, <1>12 DEF IInv

(* One block of the search: the block that holds the entry is still ahead. *)
LEMMA SearchNextInv ==
  ASSUME IInv, SearchNext
  PROVE  IInv'
<1>0. TypeOK /\ Shape /\ ChainOrdered /\ SlotsPacked /\ ExitHasEntry /\ EntryHasExit /\ CallOK
  BY DEF IInv
<1>1. UNCHANGED <<table, pc, seen>> /\ pc = "search" /\ call' = [call EXCEPT !.cur = overflow[call.cur]]
  BY DEF SearchNext, SearchFrom
<1>2. Real' = Real /\ Allocated' = Allocated /\ Dummies' = Dummies
  BY <1>1 DEF table, Real, Allocated, Dummies
<1>3. /\ call.cur \in Allocated /\ owner[call.cur] = call.to
      /\ overflow[call.cur] \in Dummies /\ owner[overflow[call.cur]] = call.to
  BY <1>0, <1>1, Indices DEF CallOK, ChainOrdered, SearchNext, None
<1>4. call'.cur = overflow[call.cur] /\ call'.from = call.from /\ call'.to = call.to
      /\ call'.new = call.new /\ call'.back = call.back
  BY <1>0, <1>1 DEF TypeOK, ControlTypeOK
<1>5. TypeOK'
  BY <1>0, <1>1, <1>3, Indices DEF TypeOK, TableTypeOK, ControlTypeOK, table, Dummies
<1>6. CallOK'
  <2>1. PICK b \in Allocated, j \in EntrySlots :
          owner[b] = call.to /\ entries[b][j] = call.from /\ Ahead(b)
    BY <1>0, <1>1 DEF CallOK
  <2>2. b # call.cur /\ b \in Dummies /\ (call.cur \in Real \/ b < call.cur)
    BY <2>1 DEF SearchNext, Ahead
  <2>3. b <= overflow[call.cur]
    BY <1>0, <1>3, <2>1, <2>2 DEF ChainOrdered
  <2>4. b \in Dummies /\ (b = overflow[call.cur] \/ b < overflow[call.cur])
    BY <1>0, <1>3, <2>2, <2>3, Indices DEF Dummies
  <2> QED BY <1>0, <1>1, <1>2, <1>3, <1>4, <2>1, <2>4 DEF CallOK, Ahead, table, Dummies
<1>7. Shape' /\ ChainOrdered' /\ SlotsPacked' /\ ExitHasEntry'
  BY <1>0, <1>1, <1>2 DEF table, Shape, ChainOrdered, SlotsPacked, ExitHasEntry
<1>8. EntryHasExit'
  BY <1>0, <1>1, <1>2, <1>4 DEF table, EntryHasExit
<1> QED BY <1>5, <1>6, <1>7, <1>8 DEF IInv

(* The entry is found and its slot closed: no other slot held it. *)
LEMMA SearchFoundInv ==
  ASSUME IInv, SearchFound
  PROVE  IInv'
<1>0. TypeOK /\ Shape /\ ChainOrdered /\ SlotsPacked /\ ExitHasEntry /\ EntryHasExit /\ CallOK
  BY DEF IInv
<1> DEFINE c == call.cur
           f == call.from
           t == call.to
           end == NumEntries - 1
<1>1. PICK j \in EntrySlots :
        /\ entries[c][j] = f
        /\ entries' = [entries EXCEPT ![c] = ShiftDown(entries[c], j, end)]
  BY DEF SearchFound
<1>2. Real' = Real /\ Allocated' = Allocated /\ Dummies' = Dummies
  BY DEF SearchFound, Real, Allocated, Dummies
<1>3. /\ c \in Allocated /\ c \in Ids /\ owner[c] = t /\ f \in Real /\ t \in Real
      /\ entries[c] \in [EntrySlots -> Real \cup {None}]
      /\ \A i \in ExitSlots : exits[f][i] # t
  BY <1>0, Indices DEF CallOK, SearchFound, Shape
<1>4. /\ entries'[c] = [k \in EntrySlots |-> IF k < j THEN entries[c][k]
                                      ELSE IF k < end THEN entries[c][k + 1] ELSE None]
      /\ \A b \in Ids : b # c => entries'[b] = entries[b]
  BY <1>0, <1>1, <1>3 DEF ShiftDown, EntrySlots, TypeOK, TableTypeOK
<1>5. \A k \in EntrySlots : k # j => entries[c][k] # f
  BY <1>0, <1>1, <1>3, Indices DEF SlotsPacked
<1>6. \A k \in EntrySlots : entries'[c][k] # None =>
        \E l \in EntrySlots : l # j /\ entries[c][l] = entries'[c][k] /\ l = (IF k < j THEN k ELSE k + 1)
  BY <1>3, <1>4, BlocksAssumption DEF EntrySlots
<1>7. \A l \in EntrySlots : l # j /\ entries[c][l] # None =>
        \E k \in EntrySlots : entries'[c][k] = entries[c][l]
  <2> SUFFICES ASSUME NEW l \in EntrySlots, l # j, entries[c][l] # None
               PROVE  \E k \in EntrySlots : entries'[c][k] = entries[c][l]
    OBVIOUS
  <2>1. CASE l < j
    BY <1>4, <2>1 DEF EntrySlots
  <2>2. CASE l > j
    <3>1. l - 1 \in EntrySlots /\ l - 1 < end /\ ~(l - 1 < j) /\ (l - 1) + 1 = l
      BY <2>2, BlocksAssumption DEF EntrySlots
    <3>2. entries'[c][l - 1] = entries[c][l]
      BY <1>4, <3>1
    <3> QED BY <3>1, <3>2
  <2> QED BY <2>1, <2>2 DEF EntrySlots
<1>8. entries'[c] \in [EntrySlots -> Real \cup {None}]
  BY <1>3, <1>4, BlocksAssumption DEF EntrySlots
<1>9. TypeOK'
  <2>1. entries' \in [Ids -> [EntrySlots -> Ids \cup {None}]]
    BY <1>0, <1>1, <1>3, <1>4, <1>8, Indices DEF TypeOK, TableTypeOK
  <2>2. pc' \in {"idle", "drop", "retarget"} /\ call' \in {call, NoCall}
    BY <1>0 DEF SearchFound, TypeOK, ControlTypeOK
  <2>3. NoCall \in [from : Ids \cup {None}, to : Ids \cup {None}, new : Ids \cup {None},
                    cur : Ids \cup {None}, back : {"idle", "drop", "retarget"}]
    BY DEF NoCall
  <2> QED BY <1>0, <2>1, <2>2, <2>3 DEF TypeOK, TableTypeOK, ControlTypeOK, SearchFound
<1>10. Shape'
  BY <1>0, <1>2, <1>4, <1>8, Indices DEF Shape, SearchFound
<1>11. ChainOrdered'
  BY <1>0, <1>2 DEF ChainOrdered, SearchFound
<1>12. SlotsPacked'
  <2>1. Packed(entries'[c], EntrySlots)
    <3> SUFFICES ASSUME NEW k \in EntrySlots, NEW m \in EntrySlots, k < m, entries'[c][m] >= 0
                 PROVE  entries'[c][k] >= 0
      BY DEF Packed
    <3>1. Packed(entries[c], EntrySlots)
      BY <1>0, <1>3 DEF SlotsPacked
    <3>2. CASE m < j
      BY <1>4, <3>1, <3>2 DEF Packed, EntrySlots
    <3>3. CASE ~(m < j)
      <4>1. m < end /\ m + 1 \in EntrySlots /\ entries[c][m + 1] >= 0
        BY <1>4, <3>3, BlocksAssumption DEF EntrySlots, None
      <4>2. CASE k < j
        BY <1>4, <3>1, <4>1, <4>2 DEF Packed, EntrySlots
      <4>3. CASE ~(k < j)
        <5>1. k + 1 \in EntrySlots /\ k < end /\ k + 1 < m + 1
          BY <4>1, BlocksAssumption DEF EntrySlots
        <5>2. entries'[c][k] = entries[c][k + 1]
          BY <1>4, <4>3, <5>1
        <5> QED BY <3>1, <4>1, <5>1, <5>2 DEF Packed
      <4> QED BY <4>2, <4>3
    <3> QED BY <3>2, <3>3
  <2>2. \A b \in Allocated : Packed(entries'[b], EntrySlots)
    BY <1>0, <1>4, <2>1, Indices DEF SlotsPacked
  <2>3. \A b \in Allocated, k \in EntrySlots : entries'[b][k] # None =>
          \E l \in EntrySlots : /\ entries[b][l] = entries'[b][k]
                               /\ l = (IF b = c /\ ~(k < j) THEN k + 1 ELSE k)
    <3> SUFFICES ASSUME NEW b \in Allocated, NEW k \in EntrySlots, entries'[b][k] # None
                 PROVE  \E l \in EntrySlots :
                          /\ entries[b][l] = entries'[b][k]
                          /\ l = (IF b = c /\ ~(k < j) THEN k + 1 ELSE k)
      OBVIOUS
    <3>1. CASE b = c
      BY <1>6, <3>1
    <3>2. CASE b # c
      BY <1>0, <1>4, <3>2, Indices
    <3> QED BY <3>1, <3>2
  <2>4. ASSUME NEW a \in Allocated, NEW b \in Allocated, NEW k \in EntrySlots, NEW m \in EntrySlots,
               owner[a] = owner[b], entries'[a][k] >= 0, entries'[a][k] = entries'[b][m]
        PROVE  a = b /\ k = m
    <3>1. entries'[a][k] # None /\ entries'[b][m] # None
      BY <2>4 DEF None
    <3>2. PICK k2 \in EntrySlots : /\ entries[a][k2] = entries'[a][k]
                                  /\ k2 = (IF a = c /\ ~(k < j) THEN k + 1 ELSE k)
      BY <2>3, <3>1
    <3>3. PICK m2 \in EntrySlots : /\ entries[b][m2] = entries'[b][m]
                                  /\ m2 = (IF b = c /\ ~(m < j) THEN m + 1 ELSE m)
      BY <2>3, <3>1
    <3>4. a = b /\ k2 = m2
      BY <1>0, <2>4, <3>2, <3>3 DEF SlotsPacked
    <3> QED BY <3>2, <3>3, <3>4 DEF EntrySlots
  <2> QED BY <1>0, <1>2, <2>2, <2>4 DEF SlotsPacked, SearchFound
<1>13. ExitHasEntry'
  <2> SUFFICES ASSUME NEW g \in Real, NEW i \in ExitSlots, exits[g][i] # None
               PROVE  \E b \in Allocated, k \in EntrySlots : owner[b] = exits[g][i] /\ entries'[b][k] = g
    BY <1>2 DEF ExitHasEntry, SearchFound
  <2>1. PICK b \in Allocated, l \in EntrySlots : owner[b] = exits[g][i] /\ entries[b][l] = g
    BY <1>0 DEF ExitHasEntry
  <2>2. ~(b = c /\ l = j) /\ entries[b][l] # None
    BY <1>1, <1>3, <2>1, <1>0, Indices
  <2> QED BY <1>4, <1>7, <2>1, <2>2, <1>0, Indices
<1>14. EntryHasExit'
  <2> SUFFICES ASSUME NEW b \in Allocated, NEW k \in EntrySlots, entries'[b][k] # None
               PROVE  \E i \in ExitSlots : exits[entries'[b][k]][i] = owner[b]
    BY <1>2 DEF EntryHasExit, SearchFound
  <2>1. PICK l \in EntrySlots : entries[b][l] = entries'[b][k] /\ (b = c => l # j)
    BY <1>0, <1>4, <1>6, Indices
  <2>2. ~(entries[b][l] = f /\ owner[b] = t)
    BY <1>0, <1>1, <1>3, <2>1, Indices DEF SlotsPacked
  <2> QED BY <1>0, <2>1, <2>2 DEF EntryHasExit
<1>15. CallOK'
  <2>1. CASE call.back = "idle"
    BY <2>1 DEF CallOK, SearchFound
  <2>2. CASE call.back # "idle"
    BY <1>0, <1>2, <2>2 DEF CallOK, SearchFound, TypeOK, ControlTypeOK
  <2> QED BY <2>1, <2>2
<1> QED BY <1>9, <1>10, <1>11, <1>12, <1>13, <1>14, <1>15 DEF IInv

(* Steps that leave the table alone. *)
LEMMA TableUnchanged ==
  ASSUME IInv, pc # "search", pc' # "search", UNCHANGED table, ControlTypeOK', CallOK'
  PROVE  IInv'
<1>1. Real' = Real /\ Allocated' = Allocated /\ Dummies' = Dummies
  BY DEF table, Real, Allocated, Dummies
<1> QED BY <1>1 DEF IInv, TypeOK, TableTypeOK, Shape, ChainOrdered, SlotsPacked, ExitHasEntry,
           EntryHasExit, table

(* drop_dead_blocks() changes the links of the stream and no slot. *)
LEMMA DropInv ==
  ASSUME IInv, DropBegin \/ DropSkip \/ DropUnlink \/ DropNextBlock \/ DropEnd
  PROVE  IInv'
<1>0. TypeOK /\ Shape /\ ChainOrdered /\ SlotsPacked /\ ExitHasEntry /\ EntryHasExit /\ CallOK
  BY DEF IInv
<1>1. NoCall \in [from : Ids \cup {None}, to : Ids \cup {None}, new : Ids \cup {None},
                  cur : Ids \cup {None}, back : {"idle", "drop", "retarget"}]
  BY DEF NoCall
<1>2. ASSUME DropBegin \/ DropNextBlock \/ DropEnd
      PROVE  IInv'
  <2>1. UNCHANGED table /\ pc # "search" /\ pc' \in {"scan", "idle"}
    BY <1>2 DEF DropBegin, DropNextBlock, DropEnd
  <2>2. Real' = Real
    BY <2>1 DEF table, Real, Allocated
  <2>3. /\ pc' = "scan" => call'.from \in Real \cup {None}
        /\ call' \in [from : Ids \cup {None}, to : Ids \cup {None}, new : Ids \cup {None},
                      cur : Ids \cup {None}, back : {"idle", "drop", "retarget"}]
    <3>1. CASE DropBegin
      BY <1>0, <1>1, <3>1, Indices DEF DropBegin, NoCall, Shape
    <3>2. CASE DropNextBlock
      <4>1. call.from \in Real /\ prevBlock[call.from] \in Real \cup {None}
        BY <1>0, <3>2 DEF DropNextBlock, CallOK, Shape
      <4> QED BY <1>0, <1>1, <3>2, <4>1, Indices DEF DropNextBlock, NoCall
    <3>3. CASE DropEnd
      BY <1>1, <3>3 DEF DropEnd
    <3> QED BY <1>2, <3>1, <3>2, <3>3
  <2>4. seen' \subseteq Ids
    BY <1>0, <1>2, Indices DEF DropBegin, DropNextBlock, DropEnd, Reachable, TypeOK, ControlTypeOK
  <2>5. ControlTypeOK' /\ CallOK'
    BY <2>1, <2>2, <2>3, <2>4 DEF ControlTypeOK, CallOK
  <2> QED BY <2>1, <2>5, TableUnchanged
<1>3. ASSUME DropSkip PROVE IInv'
  <2>1. UNCHANGED table /\ pc = "scan" /\ pc' = "scan" /\ call.from \in Ids
    BY <1>0, <1>3 DEF DropSkip, TypeOK, ControlTypeOK
  <2>2. Real' = Real
    BY <2>1 DEF table, Real, Allocated
  <2>3. call.from \in Real /\ prevBlock[call.from] \in Real \cup {None}
    BY <1>0, <2>1, Indices DEF CallOK, Shape
  <2>4. ControlTypeOK' /\ CallOK'
    BY <1>0, <1>3, <2>1, <2>2, <2>3, Indices DEF DropSkip, TypeOK, ControlTypeOK, CallOK
  <2> QED BY <2>1, <2>4, TableUnchanged
<1>4. ASSUME DropUnlink PROVE IInv'
  <2> DEFINE b == call.from
  <2>1. /\ b \in Real /\ b \in Ids /\ nextBlock[b] \in Real \cup {None}
        /\ prevBlock[b] \in Real \cup {None}
    BY <1>0, <1>4, Indices DEF DropUnlink, CallOK, Shape, None
  <2>2. Real' = Real /\ Allocated' = Allocated /\ Dummies' = Dummies
    BY <1>4 DEF DropUnlink, Real, Allocated, Dummies
  <2>3. /\ nextBlock' \in [Ids -> Links] /\ prevBlock' \in [Ids -> Links]
        /\ lastBlock' \in Real \cup {None}
    BY <1>0, <1>4, <2>1, Indices DEF DropUnlink, UnlinkPrev, TypeOK, TableTypeOK, Shape, Links
  <2>4. TypeOK'
    BY <1>0, <1>4, <2>3, Indices DEF DropUnlink, TypeOK, TableTypeOK, ControlTypeOK
  <2>5. \A a \in Real : nextBlock'[a] \in Real \cup {None} /\ prevBlock'[a] \in Real \cup {None}
    BY <1>0, <1>4, <2>1, Indices DEF DropUnlink, UnlinkPrev, TypeOK, TableTypeOK, Shape
  <2>6. Shape'
    BY <1>0, <1>4, <2>2, <2>3, <2>5 DEF Shape, DropUnlink
  <2>7. ChainOrdered' /\ SlotsPacked' /\ ExitHasEntry' /\ EntryHasExit'
    BY <1>0, <1>4, <2>2 DEF DropUnlink, ChainOrdered, SlotsPacked, ExitHasEntry, EntryHasExit
  <2>8. CallOK'
    BY <1>4, <2>1, <2>2 DEF CallOK, DropUnlink
  <2> QED BY <2>4, <2>6, <2>7, <2>8 DEF IInv
<1> QED BY <1>2, <1>3, <1>4

(* rtl_block_add_edge() called with the control state `after' put in place. *)
LEMMA AfterAddEdge ==
  ASSUME TableInv', Real' = Real, pc' # "search", ControlTypeOK', CallOK'
  PROVE  IInv'
BY DEF TableInv, IInv, TypeOK, EntriesHaveExits, EntryHasExit

(* Every step keeps the inductive invariant. *)
THEOREM StepInv == IInv /\ [Next]_vars => IInv'
<1> SUFFICES ASSUME IInv, [Next]_vars PROVE IInv'
  OBVIOUS
<1>0. TypeOK /\ Shape /\ CallOK /\ Stream \subseteq Real
  BY DEF IInv, Stream
<1>1. CASE BlockAdd
  BY <1>1, BlockAddInv
<1>2. ASSUME NEW f \in Stream, NEW t \in Stream, AddEdge(f, t) PROVE IInv'
  <2>1. PICK r \in BOOLEAN : DoAddEdge(f, t, r)
    BY <1>2 DEF AddEdge
  <2>2. TableInv' /\ Real' = Real
    BY <1>0, <1>2, <2>1, AddEdgeInv DEF AddEdge
  <2>3. ControlTypeOK' /\ CallOK'
    BY <1>0, <1>2 DEF AddEdge, TypeOK, ControlTypeOK, CallOK
  <2> QED BY <1>2, <2>2, <2>3, AfterAddEdge DEF AddEdge
<1>3. ASSUME NEW f \in Stream, NEW i \in ExitSlots, RemoveEdge(f, i) PROVE IInv'
  BY <1>0, <1>3, StartRemoveInv DEF RemoveEdge
<1>4. ASSUME NEW f \in Stream, NEW i \in ExitSlots, NEW new \in Stream, Retarget(f, i, new)
      PROVE  IInv'
  BY <1>0, <1>4, StartRemoveInv DEF Retarget
<1>5. CASE DropExit
  <2>1. call.from \in Real /\ 0 \in ExitSlots
    BY <1>0, <1>5 DEF DropExit, CallOK, ExitSlots
  <2> QED BY <1>5, <2>1, StartRemoveInv DEF DropExit
<1>6. CASE RetargetAdd
  <2>1. call.from \in Real /\ call.to \in Real /\ call.new \in Real
    BY <1>0, <1>6 DEF RetargetAdd, CallOK
  <2>2. PICK r \in BOOLEAN : /\ DoAddEdge(call.from, call.new, r)
                             /\ pc' = IF r THEN "idle" ELSE "restore"
                             /\ call' = IF r THEN NoCall ELSE call
    BY <1>6 DEF RetargetAdd
  <2>3. TableInv' /\ Real' = Real
    BY <1>6, <2>1, <2>2, AddEdgeInv DEF RetargetAdd
  <2>4. ControlTypeOK' /\ CallOK'
    BY <1>0, <1>6, <2>1, <2>2, <2>3 DEF RetargetAdd, TypeOK, ControlTypeOK, CallOK, NoCall
  <2> QED BY <2>2, <2>3, <2>4, AfterAddEdge
<1>7. CASE RetargetRestore
  <2>1. call.from \in Real /\ call.to \in Real
    BY <1>0, <1>7 DEF RetargetRestore, CallOK
  <2>2. TableInv' /\ Real' = Real
    BY <1>7, <2>1, AddEdgeInv DEF RetargetRestore
  <2>3. ControlTypeOK' /\ CallOK'
    BY <1>0, <1>7 DEF RetargetRestore, TypeOK, ControlTypeOK, CallOK, NoCall
  <2> QED BY <1>7, <2>2, <2>3, AfterAddEdge DEF RetargetRestore
<1>8. CASE UNCHANGED vars
  <2>1. Real' = Real /\ Allocated' = Allocated /\ Dummies' = Dummies
    BY <1>8 DEF vars, table, Real, Allocated, Dummies
  <2> QED BY <1>8, <2>1 DEF vars, table, IInv, TypeOK, TableTypeOK, ControlTypeOK, Shape, ChainOrdered,
          SlotsPacked, ExitHasEntry, EntryHasExit, CallOK, Ahead
<1> QED BY <1>1, <1>2, <1>3, <1>4, <1>5, <1>6, <1>7, <1>8, SearchNextInv, SearchFoundInv, DropInv
        DEF Next, Build, Edit, Continue

(* The invariant holds of every behaviour of the block table. *)
THEOREM Invariance == Spec => []IInv
<1>1. Init => IInv
  BY InitInv
<1>2. IInv /\ [Next]_vars => IInv'
  BY StepInv
<1> QED BY <1>1, <1>2, PTL DEF Spec

(* Types, and num_blocks never passes blocks_size: no routine writes beyond
   the memory the allocator granted. *)
THEOREM TypeCorrect == Spec => []TypeOK
<1>1. IInv => TypeOK
  BY DEF IInv
<1> QED BY <1>1, Invariance, PTL

(* Entry lists have no holes and record each edge once, through every move to
   a dummy block and every removal. *)
THEOREM SlotsStayPacked == Spec => []SlotsPacked
<1>1. IInv => SlotsPacked
  BY DEF IInv
<1> QED BY <1>1, Invariance, PTL

(* The exit slots and the entry chains record the same graph. *)
THEOREM EdgesStayInAgreement == Spec => []EdgesAgree
<1>1. IInv => EdgesAgree
  <2> SUFFICES ASSUME IInv PROVE EdgesAgree
    OBVIOUS
  <2>0. TypeOK /\ Shape /\ ExitHasEntry /\ EntryHasExit /\ CallOK
    BY DEF IInv
  <2>1. ASSUME NEW e \in ExitEdges \cap Removing PROVE FALSE
    BY <2>0, <2>1 DEF CallOK, ExitEdges, Removing
  <2>2. ASSUME NEW e \in ExitEdges PROVE e \in EntryEdges
    <3>1. PICK i \in ExitSlots : exits[e[1]][i] = e[2] /\ e[2] # None
      BY <2>0, <2>2, Indices DEF ExitEdges
    <3> QED BY <2>0, <2>2, <3>1 DEF ExitHasEntry, ExitEdges, EntryEdges
  <2>3. ASSUME NEW e \in Removing PROVE e \in EntryEdges
    BY <2>0, <2>3 DEF CallOK, EntryEdges, Removing
  <2>4. ASSUME NEW e \in EntryEdges PROVE e \in ExitEdges \cup Removing
    <3>1. PICK b \in Allocated, j \in EntrySlots : owner[b] = e[2] /\ entries[b][j] = e[1]
      BY <2>4 DEF EntryEdges
    <3>2. e \in Real \X Real /\ e[1] # None /\ e = <<e[1], e[2]>>
      BY <2>0, <2>4, Indices DEF EntryEdges
    <3>3. \/ \E i \in ExitSlots : exits[e[1]][i] = e[2]
          \/ pc = "search" /\ e[1] = call.from /\ e[2] = call.to
      BY <2>0, <3>1, <3>2 DEF EntryHasExit
    <3>4. CASE \E i \in ExitSlots : exits[e[1]][i] = e[2]
      BY <3>2, <3>4 DEF ExitEdges
    <3>5. CASE pc = "search" /\ e[1] = call.from /\ e[2] = call.to
      BY <3>2, <3>5 DEF Removing
    <3> QED BY <3>3, <3>4, <3>5
  <2> QED BY <2>1, <2>2, <2>3, <2>4 DEF EdgesAgree
<1> QED BY <1>1, Invariance, PTL

(* The assertion in the search loop of rtl_block_remove_edge() never fails. *)
THEOREM SearchStaysInChain == Spec => []SearchInChain
<1>1. IInv => SearchInChain
  <2> SUFFICES ASSUME IInv, pc = "search", \A j \in EntrySlots : entries[call.cur][j] # call.from
               PROVE  overflow[call.cur] >= 0
    BY DEF SearchInChain
  <2>1. /\ call.cur \in Allocated /\ owner[call.cur] = call.to
    BY DEF IInv, CallOK
  <2>2. PICK b \in Allocated, j \in EntrySlots :
          owner[b] = call.to /\ entries[b][j] = call.from /\ Ahead(b)
    BY DEF IInv, CallOK
  <2>3. b \in Dummies /\ (call.cur \in Real \/ b < call.cur)
    BY <2>2 DEF Ahead
  <2>4. b <= overflow[call.cur]
    BY <2>1, <2>2, <2>3 DEF IInv, ChainOrdered
  <2>5. b \in Nat /\ overflow[call.cur] \in Ids \cup {None}
    BY <2>1, Indices DEF IInv, TypeOK, TableTypeOK
  <2>6. \A n \in Ids : n >= 0
    BY DEF Ids
  <2> QED BY <2>4, <2>5, <2>6 DEF None
<1> QED BY <1>1, Invariance, PTL

-------------------------------------------------------------------------------
(* Refinement: the table implements the abstract flow graph. *)

LEMMA AddEdgeGraph ==
  ASSUME IInv, pc # "search", NEW f \in Real, NEW t \in Real, NEW r \in BOOLEAN,
         DoAddEdge(f, t, r)
  PROVE  \/ ExitEdges' = ExitEdges
         \/ ExitEdges' = ExitEdges \cup {<<f, t>>} /\ \A x, y \in ExitView!Out(f) : x = y
<1>0. TypeOK /\ Shape /\ SlotsPacked
  BY DEF IInv
<1>1. Real' = Real
  BY AddEdgeInv
<1>2. CASE UNCHANGED exits
  BY <1>1, <1>2 DEF ExitEdges
<1>3. ASSUME NEW i \in ExitSlots, ExitFor(f, t, i),
             exits'[f] = [exits[f] EXCEPT ![i] = t],
             \A b \in Real : b # f => exits'[b] = exits[b]
      PROVE  ExitEdges' = ExitEdges \cup {<<f, t>>} /\ \A x, y \in ExitView!Out(f) : x = y
  <2>1. exits[f][i] = None /\ exits[f] \in [ExitSlots -> Real \cup {None}]
    BY <1>0, <1>3, NewEdge DEF Shape
  <2>2. /\ exits'[f][i] = t
        /\ \A k \in ExitSlots : k # i => exits'[f][k] = exits[f][k]
    BY <1>3, <2>1
  <2>3. \A e \in Real \X Real : e \in ExitEdges' <=> e \in ExitEdges \/ e = <<f, t>>
    <3> SUFFICES ASSUME NEW g \in Real, NEW u \in Real
                 PROVE  (\E k \in ExitSlots : exits'[g][k] = u) <=>
                          (\E k \in ExitSlots : exits[g][k] = u) \/ (g = f /\ u = t)
      BY <1>1 DEF ExitEdges
    <3>1. u # None
      BY <1>0, Indices
    <3> QED BY <1>3, <2>1, <2>2, <3>1
  <2>4. ExitEdges' = ExitEdges \cup {<<f, t>>}
    BY <1>1, <2>3 DEF ExitEdges
  <2>5. ExitView!Out(f) \subseteq {<<f, exits[f][0]>>}
    <3> SUFFICES ASSUME NEW e \in ExitEdges, e[1] = f PROVE e = <<f, exits[f][0]>>
      BY DEF ExitView!Out
    <3>1. PICK k \in ExitSlots : exits[f][k] = e[2]
      BY DEF ExitEdges
    <3>2. e[2] \in Real /\ e[2] # None /\ e[2] >= 0 /\ e = <<f, e[2]>>
      BY <1>0, Indices DEF ExitEdges
    <3>3. k = 0
      BY <1>0, <2>1, <3>1, <3>2, Indices DEF SlotsPacked, Packed, ExitSlots, None, Ids
    <3> QED BY <3>1, <3>2, <3>3
  <2> QED BY <2>4, <2>5
<1>4. ASSUME NEW i \in ExitSlots, ExitFor(f, t, i), EdgeInHead(f, t, i) \/ EdgeInDummy(f, t, i)
      PROVE  /\ exits'[f] = [exits[f] EXCEPT ![i] = t]
             /\ \A b \in Real : b # f => exits'[b] = exits[b]
  <2>1. f \in Ids /\ exits \in [Ids -> [ExitSlots -> Ids \cup {None, -4, -5}]]
    BY <1>0, Indices DEF TypeOK, TableTypeOK
  <2>2. CASE EdgeInHead(f, t, i)
    BY <1>0, <2>1, <2>2, Indices DEF EdgeInHead
  <2>3. CASE EdgeInDummy(f, t, i)
    <3>1. numBlocks \in Ids /\ numBlocks \notin Allocated
      BY <1>0, <2>3, NewIndex, Indices DEF EdgeInDummy
    <3>2. f # numBlocks /\ \A b \in Real : b # numBlocks /\ b \in Ids
      BY <1>0, <3>1, Indices
    <3>3. exits' = [exits EXCEPT ![f][i] = t, ![numBlocks] = [k \in ExitSlots |-> -4 - k]]
      BY <2>3 DEF EdgeInDummy
    <3> QED BY <2>1, <3>1, <3>2, <3>3
  <2> QED BY <1>4, <2>2, <2>3
<1>5. ASSUME NEW i \in ExitSlots, ExitFor(f, t, i), EdgeRefused(f, t, i)
      PROVE  UNCHANGED exits
  BY <1>0, <1>5, NewEdge, Indices DEF EdgeRefused, ExitsOnFailure, TypeOK, TableTypeOK
<1> QED BY <1>2, <1>3, <1>4, <1>5 DEF DoAddEdge, table

(* rtl_block_remove_edge() takes one edge out of the exits of its block. *)
LEMMA StartRemoveGraph ==
  ASSUME IInv, pc # "search", NEW f \in Real, NEW i \in ExitSlots, NEW new, NEW back,
         StartRemove(f, i, new, back)
  PROVE  /\ Real' = Real
         /\ <<f, exits[f][i]>> \in ExitEdges
         /\ ExitEdges' = ExitEdges \ {<<f, exits[f][i]>>}
<1> DEFINE t == exits[f][i]
<1>0. TypeOK /\ Shape /\ SlotsPacked
  BY DEF IInv
<1>1. Real' = Real
  BY DEF StartRemove, Real, Allocated
<1>2. exits[f] \in [ExitSlots -> Real \cup {None}] /\ t \in Real /\ f \in Ids
  BY <1>0, Indices DEF Shape, StartRemove, None
<1>3. /\ exits'[f] = [k \in ExitSlots |-> IF k < i THEN exits[f][k]
                                        ELSE IF k < 1 THEN exits[f][k + 1] ELSE None]
      /\ \A b \in Ids : b # f => exits'[b] = exits[b]
  BY <1>0, <1>2 DEF StartRemove, ShiftDown, ExitSlots, TypeOK, TableTypeOK
<1>4. \A k \in ExitSlots : k # i => exits[f][k] # t
  BY <1>0, <1>2, Indices DEF SlotsPacked, Packed, ExitSlots, None, Ids
<1>5. \A u \in Real : (\E k \in ExitSlots : exits'[f][k] = u) <=>
                      (\E k \in ExitSlots : exits[f][k] = u) /\ u # t
  BY <1>0, <1>2, <1>3, <1>4, Indices DEF ExitSlots, None, Ids
<1>6. \A e \in Real \X Real : e \in ExitEdges' <=> e \in ExitEdges /\ e # <<f, t>>
  <2> SUFFICES ASSUME NEW g \in Real, NEW u \in Real
               PROVE  (\E k \in ExitSlots : exits'[g][k] = u) <=>
                        (\E k \in ExitSlots : exits[g][k] = u) /\ ~(g = f /\ u = t)
    BY <1>1 DEF ExitEdges
  <2>1. CASE g = f
    BY <1>5, <2>1
  <2>2. CASE g # f
    BY <1>0, <1>3, <2>2, Indices
  <2> QED BY <2>1, <2>2
<1>7. <<f, t>> \in ExitEdges
  BY <1>2 DEF ExitEdges
<1> QED BY <1>1, <1>6, <1>7 DEF ExitEdges

(* Each step seen through the exit slots. *)
LEMMA ExitStep ==
  ASSUME IInv, [Next]_vars
  PROVE  [ExitView!Next]_<<Real, ExitEdges>>
<1>0. TypeOK /\ Shape /\ CallOK /\ Stream \subseteq Real /\ Real \subseteq Ids
  BY Indices DEF IInv, Stream
<1>1. CASE BlockAdd
  <2>1. numBlocks \in Ids /\ numBlocks \notin Allocated
    BY <1>0, <1>1, NewIndex, Indices DEF BlockAdd
  <2>2. Real' = Real \cup {numBlocks}
    BY <1>0, <1>1, <2>1, NewIndex, Indices DEF BlockAdd, TypeOK, TableTypeOK, Allocated, Real
  <2>3. /\ \A b \in Real : exits'[b] = exits[b]
        /\ \A k \in ExitSlots : exits'[numBlocks][k] = None
    BY <1>0, <1>1, <2>1, Indices DEF BlockAdd, TypeOK, TableTypeOK
  <2>4. numBlocks # None /\ \A b \in Real, k \in ExitSlots : exits[b][k] # numBlocks
    BY <1>0, <2>1, Indices DEF Shape
  <2>5. \A g \in Real', u \in Real' : <<g, u>> \in ExitEdges' <=> <<g, u>> \in ExitEdges
    BY <1>0, <2>1, <2>2, <2>3, <2>4, Indices DEF ExitEdges
  <2>6. ExitEdges' = ExitEdges
    BY <2>2, <2>5 DEF ExitEdges
  <2> QED BY <1>0, <2>1, <2>2, <2>6, Indices DEF ExitView!Next, ExitView!AddNode
<1>2. ASSUME NEW f \in Real, NEW t \in Real, NEW r \in BOOLEAN, DoAddEdge(f, t, r), pc # "search"
      PROVE  [ExitView!Next]_<<Real, ExitEdges>>
  <2>1. Real' = Real
    BY <1>2, AddEdgeInv
  <2>2. \/ ExitEdges' = ExitEdges
        \/ ExitEdges' = ExitEdges \cup {<<f, t>>} /\ \A x, y \in ExitView!Out(f) : x = y
    BY <1>2, AddEdgeGraph
  <2> QED BY <1>2, <2>1, <2>2 DEF ExitView!Next, ExitView!AddEdge
<1>3. ASSUME NEW f \in Real, NEW i \in ExitSlots, NEW new, NEW back, pc # "search",
             StartRemove(f, i, new, back)
      PROVE  [ExitView!Next]_<<Real, ExitEdges>>
  BY <1>3, StartRemoveGraph DEF ExitView!Next, ExitView!RemoveEdge
<1>4. ASSUME UNCHANGED <<numBlocks, owner, exits>>
      PROVE  [ExitView!Next]_<<Real, ExitEdges>>
  BY <1>4 DEF Real, Allocated, ExitEdges
<1>5. CASE \E f, t \in Stream : AddEdge(f, t)
  BY <1>0, <1>2, <1>5 DEF AddEdge
<1>6. CASE Edit
  BY <1>0, <1>3, <1>6 DEF Edit, RemoveEdge, Retarget
<1>7. CASE DropExit
  <2>1. call.from \in Real /\ 0 \in ExitSlots
    BY <1>0, <1>7 DEF DropExit, CallOK, ExitSlots
  <2> QED BY <1>3, <1>7, <2>1 DEF DropExit
<1>8. CASE RetargetAdd \/ RetargetRestore
  <2>1. call.from \in Real /\ call.to \in Real /\ call.new \in Real /\ pc # "search"
    BY <1>0, <1>8 DEF RetargetAdd, RetargetRestore, CallOK
  <2> QED BY <1>2, <1>8, <2>1 DEF RetargetAdd, RetargetRestore
<1>9. CASE DropBegin \/ SearchNext \/ SearchFound \/ DropSkip \/ DropUnlink \/ DropNextBlock \/ DropEnd
           \/ UNCHANGED vars
  BY <1>4, <1>9 DEF DropBegin, SearchNext, SearchFound, DropSkip, DropUnlink, DropNextBlock, DropEnd,
     vars, table
<1> QED BY <1>1, <1>5, <1>6, <1>7, <1>8, <1>9 DEF Next, Build, Continue

(* Read through its exit slots, the table is a graph to which every routine
   adds or from which it removes at most one edge. *)
THEOREM ExitRefinement == Spec => ExitsImplementGraph
<1>1. Init => ExitView!Init
  BY DEF Init, ExitView!Init, Real, Allocated, ExitEdges
<1>2. IInv /\ [Next]_vars => [ExitView!Next]_(ExitView!vars)
  BY ExitStep DEF ExitView!vars
<1> QED BY <1>1, <1>2, Invariance, PTL DEF Spec, ExitsImplementGraph, ExitView!Spec

(* Each step seen through the entry chains: an edge leaves them when the search
   has found it. *)
LEMMA EntryStep ==
  ASSUME IInv, IInv', EdgesAgree, EdgesAgree', [Next]_vars, [ExitView!Next]_<<Real, ExitEdges>>
  PROVE  [EntryView!Next]_<<Real, EntryEdges>>
<1>0. TypeOK /\ CallOK /\ Stream \subseteq Real
  BY DEF IInv, Stream
<1>1. CASE pc # "search" /\ pc' # "search"
  <2>1. EntryEdges = ExitEdges /\ EntryEdges' = ExitEdges'
    BY <1>1 DEF EdgesAgree, Removing
  <2> QED BY <2>1 DEF EntryView!Next, EntryView!AddNode, EntryView!AddEdge, EntryView!RemoveEdge,
             EntryView!Out, ExitView!Next, ExitView!AddNode, ExitView!AddEdge, ExitView!RemoveEdge,
             ExitView!Out
<1>2. ASSUME UNCHANGED <<numBlocks, owner, entries>>
      PROVE  [EntryView!Next]_<<Real, EntryEdges>>
  BY <1>2 DEF Real, Allocated, EntryEdges
<1>3. CASE pc # "search" /\ pc' = "search"
  <2>1. ASSUME NEW f, NEW i, NEW new, NEW back, StartRemove(f, i, new, back)
        PROVE  UNCHANGED <<numBlocks, owner, entries>>
    BY <2>1 DEF StartRemove
  <2>2. Edit \/ DropExit
    BY <1>3 DEF Next, Build, BlockAdd, AddEdge, DropBegin, Continue, SearchNext, SearchFound, DropSkip,
       DropUnlink, DropNextBlock, DropEnd, RetargetAdd, RetargetRestore, vars
  <2> QED BY <1>2, <2>1, <2>2 DEF Edit, RemoveEdge, Retarget, DropExit
<1>4. CASE pc = "search" /\ pc' = "search"
  <2>1. SearchNext \/ SearchFound \/ UNCHANGED vars
    BY <1>4 DEF Next, Build, BlockAdd, AddEdge, Edit, RemoveEdge, Retarget, DropBegin, Continue,
       DropExit, DropSkip, DropUnlink, DropNextBlock, DropEnd, RetargetAdd, RetargetRestore
  <2>2. ~SearchFound
    BY <1>0, <1>4 DEF SearchFound, TypeOK, ControlTypeOK
  <2> QED BY <1>2, <2>1, <2>2 DEF SearchNext, table, vars
<1>5. CASE pc = "search" /\ pc' # "search"
  <2>1. SearchFound
    BY <1>5 DEF Next, Build, BlockAdd, AddEdge, Edit, RemoveEdge, Retarget, DropBegin, Continue, DropExit,
       SearchNext, DropSkip, DropUnlink, DropNextBlock, DropEnd, RetargetAdd, RetargetRestore, vars
  <2>2. Real' = Real /\ ExitEdges' = ExitEdges
    BY <2>1 DEF SearchFound, Real, Allocated, ExitEdges
  <2>3. Removing = {<<call.from, call.to>>} /\ Removing' = {}
    BY <1>0, <1>5 DEF Removing, CallOK
  <2>4. /\ <<call.from, call.to>> \in EntryEdges
        /\ EntryEdges' = EntryEdges \ {<<call.from, call.to>>}
    BY <2>2, <2>3 DEF EdgesAgree
  <2> QED BY <2>2, <2>4 DEF EntryView!Next, EntryView!RemoveEdge
<1> QED BY <1>1, <1>3, <1>4, <1>5

(* So it is when read through its entry chains, dummy blocks included. *)
THEOREM EntryRefinement == Spec => EntriesImplementGraph
<1>1. Init => EntryView!Init
  BY DEF Init, EntryView!Init, Real, Allocated, EntryEdges
<1>2. /\ IInv /\ IInv' /\ EdgesAgree /\ EdgesAgree' /\ [Next]_vars
      => [EntryView!Next]_(EntryView!vars)
  BY ExitStep, EntryStep DEF EntryView!vars
<1> QED BY <1>1, <1>2, Invariance, EdgesStayInAgreement, PTL
        DEF Spec, EntriesImplementGraph, EntryView!Spec

-------------------------------------------------------------------------------
(* The code stream. *)

(* The conditions on the links of the blocks, with the blocks of the stream named. *)
LEMMA StreamFacts ==
  ASSUME IInv, StreamOrdered, StreamLinked
  PROVE  /\ Stream \subseteq Real /\ Real \subseteq Ids /\ \A b \in Real : b \in Nat
         /\ \A b \in Real : b \in Stream <=> b = 0 \/ nextBlock[prevBlock[b]] = b
         /\ \A b \in Real : b # 0 => prevBlock[b] \in Real /\ prevBlock[b] < b
         /\ \A b \in Stream : b # 0 => prevBlock[b] \in Stream
         /\ \A b \in Stream : b <= lastBlock /\ \A c \in Stream : b < c => b <= prevBlock[c]
         /\ \A b \in Stream : nextBlock[b] = None <=> b = lastBlock
         /\ \A b \in Stream : nextBlock[b] # None =>
              /\ nextBlock[b] \in Stream /\ nextBlock[b] > b /\ prevBlock[nextBlock[b]] = b
         /\ None \notin Real /\ None \in Int /\ \A b \in Real : b > None
<1>1. TypeOK
  BY DEF IInv
<1>2. Real \subseteq Ids /\ None \notin Real /\ \A b \in Real : b \in Nat
  BY <1>1, Indices
<1>3. None \in Int /\ \A b \in Real : b > None
  BY <1>2 DEF None
<1> QED BY <1>2, <1>3 DEF StreamOrdered, StreamLinked, Stream, InStream

(* A step that leaves the links of the real blocks alone leaves the stream alone. *)
LEMMA StreamStays ==
  ASSUME IInv, StreamOrdered, StreamLinked, Real' = Real, lastBlock' = lastBlock,
         numBlocks' = 0 <=> numBlocks = 0,
         \A b \in Real : nextBlock'[b] = nextBlock[b] /\ prevBlock'[b] = prevBlock[b]
  PROVE  Stream' = Stream /\ StreamOrdered' /\ StreamLinked'
<1>1. \A b \in Real : b # 0 => prevBlock[b] \in Real
  BY DEF StreamOrdered
<1>2. \A b \in Real : InStream(b)' <=> InStream(b)
  BY <1>1 DEF InStream
<1>3. Stream' = Stream
  BY <1>2 DEF Stream
<1>4. Stream \subseteq Real
  BY DEF Stream
<1>6. StreamLinked'
  <2>1. \A b \in Stream : nextBlock[b] # None => nextBlock[b] \in Real
    BY <1>4 DEF StreamLinked
  <2>2. Real # {} => 0 \in Real
    BY <1>4 DEF StreamLinked
  <2> QED BY <1>3, <1>4, <2>1, <2>2 DEF StreamLinked
<1>7. StreamOrdered'
  <2>1. numBlocks' > 0 => 0 \in Real'
    <3>1. numBlocks \in Nat
      BY DEF IInv, TypeOK, TableTypeOK
    <3>2. numBlocks' > 0 => numBlocks' # 0
      OBVIOUS
    <3> QED BY <3>1, <3>2 DEF StreamOrdered
  <2> QED BY <1>3, <1>4, <2>1 DEF StreamOrdered
<1> QED BY <1>3, <1>6, <1>7

(* rtl_block_add() appends to the stream. *)
LEMMA BlockAddStream ==
  ASSUME IInv, StreamIInv, BlockAdd
  PROVE  StreamIInv'
<1> SUFFICES ASSUME NEW b, b = numBlocks, NEW end, end = lastBlock
             PROVE  StreamIInv'
  OBVIOUS
<1>0. /\ TypeOK /\ Shape /\ CallOK
      /\ StreamOrdered /\ StreamLinked /\ EdgesInStream /\ CallInStream /\ SeenOK
  BY DEF IInv, StreamIInv
<1>1. /\ b \in Ids /\ b \in Nat /\ numBlocks' = b + 1 /\ 0..(numBlocks' - 1) = Allocated \cup {b}
      /\ \A c \in Allocated : c \in Nat /\ c < b /\ c \in Ids
  BY <1>0, NewIndex, Indices DEF BlockAdd, Allocated
<1>2. /\ Real' = Real \cup {b} /\ b \notin Real
      /\ \A c \in Real : c < b /\ c \in Nat /\ c \in Ids
  <2>1. owner'[b] = b /\ \A c \in Allocated : owner'[c] = owner[c] /\ c # b
    BY <1>0, <1>1 DEF BlockAdd, TypeOK, TableTypeOK
  <2>2. Allocated' = Allocated \cup {b}
    BY <1>1 DEF Allocated
  <2> QED BY <1>1, <2>1, <2>2 DEF Real
<1>3. /\ nextBlock'[b] = None /\ prevBlock'[b] = end /\ lastBlock' = b
      /\ \A c \in Real : prevBlock'[c] = prevBlock[c]
      /\ \A c \in Real : c # end => nextBlock'[c] = nextBlock[c]
      /\ end \in Real => nextBlock'[end] = b
  <2>1. nextBlock \in [Ids -> Links] /\ prevBlock \in [Ids -> Links]
    BY <1>0 DEF TypeOK, TableTypeOK
  <2>2. end \in Real => end >= 0 /\ end # b
    BY <1>2
  <2> QED BY <1>1, <1>2, <2>1, <2>2 DEF BlockAdd, LinkLast
<1>4. /\ \A c \in Real : c \in Stream <=> c = 0 \/ nextBlock[prevBlock[c]] = c
      /\ \A c \in Real : c # 0 => prevBlock[c] \in Real /\ prevBlock[c] < c
      /\ \A c \in Stream : c # 0 => prevBlock[c] \in Stream
      /\ \A c \in Stream : c <= end /\ \A d \in Stream : c < d => c <= prevBlock[d]
      /\ \A c \in Stream : nextBlock[c] = None <=> c = end
      /\ \A c \in Stream : nextBlock[c] # None =>
           /\ nextBlock[c] \in Stream /\ nextBlock[c] > c /\ prevBlock[nextBlock[c]] = c
      /\ Stream \subseteq Real /\ None \notin Real
  BY <1>0, StreamFacts DEF IInv
<1>5. /\ b # 0 => end \in Stream /\ 0 \in Real /\ prevBlock[0] = None
      /\ b = 0 => Real = {} /\ end = None
  <2>1. b # 0 => b > 0 /\ 0 \in Real
    BY <1>0, <1>1 DEF StreamOrdered
  <2>2. b = 0 => Real = {} /\ end = None
    BY <1>0, <1>2 DEF StreamOrdered
  <2> QED BY <1>0, <2>1, <2>2 DEF StreamLinked
<1>6. \A c \in Real' : InStream(c)' <=> c \in Stream \/ c = b
  <2>1. InStream(b)'
    <3>1. b # 0 => nextBlock'[prevBlock'[b]] = b
      BY <1>3, <1>4, <1>5
    <3> QED BY <1>2, <3>1 DEF InStream
  <2>2. ASSUME NEW c \in Real PROVE InStream(c)' <=> c \in Stream
    <3>1. CASE c = 0
      BY <1>2, <1>4, <3>1 DEF InStream
    <3>2. CASE c # 0
      <4>1. prevBlock[c] \in Real /\ prevBlock'[c] = prevBlock[c]
        BY <1>3, <1>4, <3>2
      <4>2. CASE prevBlock[c] = end
        <5>1. nextBlock'[end] = b /\ nextBlock[end] = None /\ c # b /\ c # None
          <6>1. end \in Stream /\ end \in Real
            BY <1>4, <1>5, <1>2, <4>1, <4>2
          <6> QED BY <1>2, <1>3, <1>4, <6>1
        <5>2. nextBlock'[prevBlock'[c]] = b /\ nextBlock[prevBlock[c]] = None
          BY <4>1, <4>2, <5>1
        <5> QED BY <1>2, <1>4, <3>2, <5>1, <5>2 DEF InStream
      <4>3. CASE prevBlock[c] # end
        BY <1>2, <1>3, <1>4, <3>2, <4>1, <4>3 DEF InStream
      <4> QED BY <4>2, <4>3
    <3> QED BY <3>1, <3>2
  <2> QED BY <1>2, <2>1, <2>2
<1>7. Stream' = Stream \cup {b}
  BY <1>2, <1>4, <1>6 DEF Stream
<1>8. StreamOrdered'
  <2>1. numBlocks' # 0 /\ 0 \in Real'
    BY <1>1, <1>2, <1>5
  <2>2. ASSUME NEW c \in Real', c # 0 PROVE prevBlock'[c] \in Real' /\ prevBlock'[c] < c
    <3>1. CASE c = b
      BY <1>2, <1>3, <1>4, <1>5, <2>2, <3>1
    <3>2. CASE c # b
      BY <1>2, <1>3, <1>4, <2>2, <3>2
    <3> QED BY <3>1, <3>2
  <2>3. ASSUME NEW c \in Stream' PROVE c <= lastBlock'
    BY <1>1, <1>2, <1>3, <1>4, <1>7
  <2>4. ASSUME NEW c \in Stream', NEW d \in Stream', c < d PROVE c <= prevBlock'[d]
    <3>1. c \in Nat /\ d \in Nat /\ (c # b => c < b)
      BY <1>1, <1>2, <1>4, <1>7
    <3>2. c \in Stream
      BY <1>1, <1>2, <1>4, <1>7, <2>4, <3>1
    <3>3. CASE d = b
      BY <1>3, <1>4, <3>2, <3>3
    <3>4. CASE d # b
      BY <1>3, <1>4, <1>7, <2>4, <3>2, <3>4
    <3> QED BY <3>3, <3>4
  <2> QED BY <2>1, <2>2, <2>3, <2>4 DEF StreamOrdered
<1>9. StreamLinked'
  <2>1. ASSUME NEW c \in Stream'
        PROVE  /\ nextBlock'[c] = None <=> c = lastBlock'
               /\ nextBlock'[c] # None => /\ nextBlock'[c] \in Stream' /\ nextBlock'[c] > c
                                          /\ prevBlock'[nextBlock'[c]] = c
               /\ c # 0 => prevBlock'[c] \in Stream' /\ prevBlock'[c] < c
    <3>1. CASE c = b
      <4>1. c # 0 => end \in Stream /\ end < c
        BY <1>2, <1>4, <1>5, <3>1
      <4> QED BY <1>3, <1>7, <3>1, <4>1
    <3>2. CASE c # b /\ c = end
      <4>1. c \in Stream /\ c \in Real /\ c < b /\ b # None
        BY <1>1, <1>2, <1>4, <1>7, <3>2 DEF None
      <4>2. nextBlock'[c] = b /\ prevBlock'[b] = c /\ lastBlock' = b
        BY <1>3, <3>2, <4>1
      <4>3. c # 0 => prevBlock'[c] \in Stream /\ prevBlock'[c] < c
        BY <1>3, <1>4, <4>1
      <4>4. b > c
        BY <1>1, <1>2, <4>1
      <4> QED BY <1>7, <3>2, <4>1, <4>2, <4>3, <4>4
    <3>3. CASE c # b /\ c # end
      <4>1. c \in Stream /\ c \in Real
        BY <1>4, <1>7, <3>3
      <4>2. nextBlock'[c] = nextBlock[c] /\ nextBlock[c] # None
        BY <1>3, <1>4, <3>3, <4>1
      <4>3. nextBlock[c] \in Stream /\ nextBlock[c] > c /\ prevBlock[nextBlock[c]] = c
        BY <1>4, <4>1, <4>2
      <4>4. prevBlock'[nextBlock[c]] = c
        BY <1>3, <1>4, <4>3
      <4>5. c # 0 => prevBlock'[c] \in Stream /\ prevBlock'[c] < c
        BY <1>3, <1>4, <4>1
      <4> QED BY <1>3, <1>7, <3>3, <4>2, <4>3, <4>4, <4>5
    <3> QED BY <3>1, <3>2, <3>3
  <2>2. 0 \in Stream' /\ prevBlock'[0] = None
    <3>1. CASE b = 0
      BY <1>3, <1>5, <1>7, <3>1
    <3>2. CASE b # 0
      BY <1>3, <1>4, <1>5, <1>7, <3>2
    <3> QED BY <3>1, <3>2
  <2>3. lastBlock' \in Stream'
    BY <1>3, <1>7
  <2> QED BY <2>1, <2>2, <2>3 DEF StreamLinked
<1>10. ExitEdges' = ExitEdges
  <2>1. /\ \A c \in Real : exits'[c] = exits[c]
        /\ \A i \in ExitSlots : exits'[b][i] = None
        /\ \A c \in Real, i \in ExitSlots : exits[c][i] \in Real \cup {None}
    <3>1. exits \in [Ids -> [ExitSlots -> Ids \cup {None, -4, -5}]]
      BY <1>0 DEF TypeOK, TableTypeOK
    <3>2. exits' = [exits EXCEPT ![b] = [i \in ExitSlots |-> None]]
      BY DEF BlockAdd
    <3>3. \A c \in Real, i \in ExitSlots : exits[c][i] \in Real \cup {None}
      BY <1>0 DEF Shape
    <3> QED BY <1>1, <1>2, <3>1, <3>2, <3>3
  <2>2. None # b /\ None \notin Real'
    BY <1>1, <1>2, <1>4 DEF None
  <2>3. \A e \in Real' \X Real' : e \in ExitEdges' <=> e \in ExitEdges
    <3> SUFFICES ASSUME NEW x \in Real', NEW y \in Real'
                 PROVE  (\E i \in ExitSlots : exits'[x][i] = y) <=>
                          x \in Real /\ y \in Real /\ \E i \in ExitSlots : exits[x][i] = y
      BY DEF ExitEdges
    <3>1. CASE x = b
      BY <1>2, <2>1, <2>2, <3>1
    <3>2. CASE x \in Real
      BY <1>2, <2>1, <2>2, <3>2
    <3> QED BY <1>2, <3>1, <3>2
  <2> QED BY <1>2, <2>3 DEF ExitEdges
<1>11. EdgesInStream' /\ CallInStream' /\ SeenOK'
  <2>1. pc = "idle" /\ pc' = "idle"
    BY DEF BlockAdd
  <2> QED BY <1>0, <1>7, <1>10, <2>1 DEF EdgesInStream, CallInStream, SeenOK, Dropping, Gone
<1> QED BY <1>8, <1>9, <1>11 DEF StreamIInv

(* rtl_block_add_edge() between two blocks of the stream. *)
LEMMA AddEdgeStream ==
  ASSUME IInv, StreamIInv, pc # "search", ~Dropping, NEW f \in Stream, NEW t \in Stream,
         NEW r \in BOOLEAN, DoAddEdge(f, t, r), pc' \in {"idle", "restore"},
         pc' = "restore" => call' = call /\ {call.from, call.to, call.new} \subseteq Stream
  PROVE  StreamIInv'
<1>0. /\ TypeOK /\ StreamOrdered /\ StreamLinked /\ EdgesInStream
      /\ f \in Real /\ t \in Real /\ Real \subseteq Ids
  BY Indices DEF IInv, StreamIInv, Stream
<1>1. Real' = Real
  BY <1>0, AddEdgeInv
<1>2. /\ lastBlock' = lastBlock /\ (numBlocks' = 0 <=> numBlocks = 0)
      /\ \A b \in Real : nextBlock'[b] = nextBlock[b] /\ prevBlock'[b] = prevBlock[b]
  <2>1. lastBlock' = lastBlock
    BY DEF DoAddEdge
  <2>2. CASE UNCHANGED <<numBlocks, nextBlock, prevBlock>>
    BY <2>1, <2>2
  <2>3. CASE \E i \in ExitSlots : EdgeInDummy(f, t, i)
    <3>1. /\ GetNewBlock /\ nextBlock' = [nextBlock EXCEPT ![numBlocks] = -2]
          /\ prevBlock' = [prevBlock EXCEPT ![numBlocks] = -3]
      BY <2>3 DEF EdgeInDummy
    <3>2. numBlocks \notin Real /\ numBlocks \in Nat /\ numBlocks' = numBlocks + 1 /\ numBlocks # 0
      <4>1. numBlocks \notin Allocated /\ Real \subseteq Allocated
        BY <1>0, Indices
      <4>2. numBlocks \in Nat /\ numBlocks' = numBlocks + 1
        BY <1>0, <3>1, NewIndex, Indices
      <4>3. f \in 0..(numBlocks - 1)
        BY <1>0, <4>1 DEF Allocated
      <4> QED BY <4>1, <4>2, <4>3
    <3>3. nextBlock \in [Ids -> Links] /\ prevBlock \in [Ids -> Links]
      BY <1>0 DEF TypeOK, TableTypeOK
    <3> QED BY <1>0, <2>1, <3>1, <3>2, <3>3
  <2>4. \/ UNCHANGED <<numBlocks, nextBlock, prevBlock>>
        \/ \E i \in ExitSlots : EdgeInDummy(f, t, i)
    BY DEF DoAddEdge, table, EdgeInHead, EdgeRefused, NoNewBlock
  <2> QED BY <2>2, <2>3, <2>4
<1>3. Stream' = Stream /\ StreamOrdered' /\ StreamLinked'
  BY <1>0, <1>1, <1>2, StreamStays
<1>4. \A e \in ExitEdges' : e \in ExitEdges \/ e = <<f, t>>
  BY <1>0, AddEdgeGraph
<1>5. EdgesInStream'
  <2>1. \A e \in ExitEdges : e[1] \in Stream /\ e[2] \in Stream
    BY <1>0 DEF EdgesInStream, Dropping, Gone
  <2>2. <<f, t>>[1] = f /\ <<f, t>>[2] = t
    OBVIOUS
  <2> QED BY <1>3, <1>4, <2>1, <2>2 DEF EdgesInStream
<1>6. CallInStream' /\ SeenOK'
  BY <1>3 DEF CallInStream, SeenOK, Dropping, Gone
<1> QED BY <1>3, <1>5, <1>6 DEF StreamIInv

(* rtl_block_remove_edge() up to its search: between calls, or of a block that has left
   the stream. *)
LEMMA StartRemoveStream ==
  ASSUME IInv, StreamIInv, NEW f \in Real, NEW i \in ExitSlots, NEW new, NEW back,
         StartRemove(f, i, new, back),
         \/ pc = "idle" /\ f \in Stream /\ back = "idle"
         \/ pc = "idle" /\ f \in Stream /\ back = "retarget" /\ new \in Stream
         \/ pc = "drop" /\ f = call.from /\ back = "drop"
  PROVE  StreamIInv'
<1>0. /\ TypeOK /\ StreamOrdered /\ StreamLinked /\ EdgesInStream /\ CallInStream /\ SeenOK
      /\ Stream \subseteq Real /\ pc # "search"
  BY DEF IInv, StreamIInv, Stream
<1>1. /\ Real' = Real /\ <<f, exits[f][i]>> \in ExitEdges
      /\ ExitEdges' = ExitEdges \ {<<f, exits[f][i]>>}
  BY <1>0, StartRemoveGraph
<1>2. /\ nextBlock' = nextBlock /\ prevBlock' = prevBlock /\ lastBlock' = lastBlock
      /\ numBlocks' = numBlocks /\ pc' = "search" /\ seen' = seen
      /\ call'.from = f /\ call'.to = exits[f][i] /\ call'.new = new /\ call'.back = back
  BY DEF StartRemove
<1>3. Stream' = Stream /\ StreamOrdered' /\ StreamLinked'
  BY <1>0, <1>1, <1>2, StreamStays
<1>4. CASE pc = "idle"
  <2>1. ~Dropping /\ ~Gone /\ ~Dropping' /\ ~Gone' /\ f \in Stream
    BY <1>2, <1>4 DEF Dropping, Gone
  <2>2. \A e \in ExitEdges : e[1] \in Stream /\ e[2] \in Stream
    BY <1>0, <2>1 DEF EdgesInStream
  <2>3. EdgesInStream'
    BY <1>1, <1>3, <2>2 DEF EdgesInStream
  <2>4. exits[f][i] \in Stream
    <3>1. <<f, exits[f][i]>>[2] = exits[f][i]
      OBVIOUS
    <3> QED BY <1>1, <2>2, <3>1
  <2>5. CallInStream'
    BY <1>2, <1>3, <1>4, <2>1, <2>4 DEF CallInStream
  <2> QED BY <1>3, <2>1, <2>3, <2>5 DEF StreamIInv, SeenOK
<1>5. CASE pc = "drop"
  <2>1. f = call.from /\ back = "drop" /\ Gone /\ Dropping /\ Gone' /\ Dropping'
    BY <1>2, <1>5 DEF Gone, Dropping
  <2>2. /\ f \in Real \ Stream /\ prevBlock[f] \in Stream
        /\ \A b \in Stream : b < f => b <= prevBlock[f]
    BY <1>0, <2>1 DEF CallInStream
  <2>3. CallInStream'
    BY <1>1, <1>2, <1>3, <2>1, <2>2 DEF CallInStream
  <2>4. EdgesInStream'
    BY <1>0, <1>1, <1>2, <1>3, <2>1 DEF EdgesInStream
  <2>5. /\ seen \subseteq Stream /\ Closed(seen)
        /\ \A C \in SUBSET Real : Closed(C) => seen \subseteq C
        /\ \A b \in Stream : b > f => b \in seen
    BY <1>0, <2>1 DEF SeenOK
  <2>6. Closed(seen)'
    BY <1>1, <1>2, <2>5 DEF Closed
  <2>7. ASSUME NEW C \in SUBSET Real, Closed(C)' PROVE seen \subseteq C
    <3>1. \A e \in ExitEdges : e[1] \in seen => e \in ExitEdges'
      BY <1>1, <2>2, <2>5
    <3>2. Closed(C \cap seen)
      BY <2>5, <2>7, <3>1 DEF Closed
    <3> QED BY <1>0, <2>5, <2>7, <3>2
  <2>8. SeenOK'
    BY <1>1, <1>2, <1>3, <2>5, <2>6, <2>7 DEF SeenOK
  <2> QED BY <1>3, <2>3, <2>4, <2>8 DEF StreamIInv
<1> QED BY <1>4, <1>5

(* The search for the entry leaves the exits and the stream as they are. *)
LEMMA SearchStream ==
  ASSUME IInv, StreamIInv, SearchNext \/ SearchFound
  PROVE  StreamIInv'
<1>0. /\ TypeOK /\ StreamOrdered /\ StreamLinked /\ EdgesInStream /\ CallInStream /\ SeenOK
      /\ pc = "search"
  BY DEF IInv, StreamIInv, SearchNext, SearchFound
<1>1. /\ UNCHANGED <<numBlocks, owner, nextBlock, prevBlock, lastBlock, exits, seen>>
  BY DEF SearchNext, SearchFound, table
<1>2. Real' = Real /\ ExitEdges' = ExitEdges
  BY <1>1 DEF Real, Allocated, ExitEdges
<1>3. Stream' = Stream /\ StreamOrdered' /\ StreamLinked'
  BY <1>0, <1>1, <1>2, StreamStays
<1>4. \A C : Closed(C)' <=> Closed(C)
  BY <1>2 DEF Closed
<1>5. \/ pc' = "idle" /\ ~Dropping /\ ~Gone
      \/ /\ call'.from = call.from /\ call'.to = call.to /\ call'.new = call.new
         /\ call'.back = call.back
         /\ pc' = "search" \/ (pc' = call.back /\ call.back \in {"drop", "retarget"})
  <2>1. call \in [from : Ids \cup {None}, to : Ids \cup {None}, new : Ids \cup {None},
                  cur : Ids \cup {None}, back : {"idle", "drop", "retarget"}]
    BY <1>0 DEF TypeOK, ControlTypeOK
  <2>2. CASE SearchNext
    BY <1>0, <2>1, <2>2 DEF SearchNext
  <2>3. CASE SearchFound
    <3>1. CASE call.back = "idle"
      BY <1>0, <2>3, <3>1 DEF SearchFound, Dropping, Gone
    <3>2. CASE call.back # "idle"
      BY <2>1, <2>3, <3>2 DEF SearchFound
    <3> QED BY <3>1, <3>2
  <2> QED BY <2>2, <2>3
<1>6. CASE pc' = "idle" /\ ~Dropping /\ ~Gone
  BY <1>0, <1>2, <1>3, <1>6 DEF StreamIInv, EdgesInStream, CallInStream, SeenOK, Dropping, Gone
<1>7. CASE /\ call'.from = call.from /\ call'.to = call.to /\ call'.new = call.new
           /\ call'.back = call.back
           /\ pc' = "search" \/ (pc' = call.back /\ call.back \in {"drop", "retarget"})
  <2>1. (Dropping' <=> Dropping) /\ (Gone' <=> Gone)
    BY <1>0, <1>7 DEF Dropping, Gone
  <2>2. EdgesInStream'
    BY <1>0, <1>2, <1>3, <1>7, <2>1 DEF EdgesInStream
  <2>3. CallInStream'
    BY <1>0, <1>1, <1>2, <1>3, <1>7, <2>1 DEF CallInStream
  <2>4. SeenOK'
    BY <1>0, <1>1, <1>2, <1>3, <1>4, <1>7, <2>1 DEF SeenOK
  <2> QED BY <1>3, <2>2, <2>3, <2>4 DEF StreamIInv
<1> QED BY <1>5, <1>6, <1>7

(* Closed under the exits, read from the slots or from the edges. *)
LEMMA ClosedIs ==
  ASSUME IInv, NEW C \in SUBSET Real
  PROVE  ClosedUnderExits(C) <=> Closed(C)
<1>1. \A b \in Real, i \in ExitSlots : exits[b][i] \in Real \cup {None}
  BY DEF IInv, Shape
<1>2. \A b \in Real, i \in ExitSlots : exits[b][i] >= 0 <=> exits[b][i] \in Real
  <2>1. \A b \in Real : b >= 0 /\ b # None
    BY Indices DEF IInv
  <2> QED BY <1>1, <2>1 DEF None
<1>3. ASSUME ClosedUnderExits(C) PROVE Closed(C)
  BY <1>2, <1>3 DEF ClosedUnderExits, Closed, ExitEdges
<1>4. ASSUME Closed(C) PROVE ClosedUnderExits(C)
  <2> SUFFICES ASSUME NEW b \in C, NEW i \in ExitSlots, exits[b][i] >= 0 PROVE exits[b][i] \in C
    BY <1>4 DEF ClosedUnderExits, Closed
  <2>1. <<b, exits[b][i]>> \in ExitEdges
    BY <1>2 DEF ExitEdges
  <2>2. <<b, exits[b][i]>>[1] = b /\ <<b, exits[b][i]>>[2] = exits[b][i]
    OBVIOUS
  <2> QED BY <1>4, <2>1, <2>2 DEF Closed
<1> QED BY <1>3, <1>4

(* drop_dead_blocks() starts with what visit_block() has seen. *)
LEMMA DropBeginStream ==
  ASSUME IInv, StreamIInv, DropBegin
  PROVE  StreamIInv'
<1>0. /\ TypeOK /\ StreamOrdered /\ StreamLinked /\ EdgesInStream /\ Stream \subseteq Real
      /\ pc = "idle" /\ pc' = "scan" /\ seen' = Reachable /\ call'.from = lastBlock
      /\ 0 \in Real
  <2>1. numBlocks > 0
    BY DEF DropBegin
  <2> QED BY <2>1 DEF IInv, StreamIInv, Stream, DropBegin, NoCall, StreamOrdered
<1>1. UNCHANGED table
  BY DEF DropBegin
<1>2. Real' = Real /\ ExitEdges' = ExitEdges
  BY <1>1 DEF table, Real, Allocated, ExitEdges
<1>3. Stream' = Stream /\ StreamOrdered' /\ StreamLinked'
  BY <1>0, <1>1, <1>2, StreamStays DEF table
<1>4. \A e \in ExitEdges : e[1] \in Stream /\ e[2] \in Stream
  BY <1>0 DEF EdgesInStream, Dropping, Gone
<1>5. Reachable \subseteq Real /\ \A b \in Real :
        b \in Reachable <=> \A C \in SUBSET Real : Closed(C) => b \in C
  BY ClosedIs DEF Reachable
<1>6. Closed(Stream)
  BY <1>0, <1>4 DEF Closed, StreamLinked
<1>7. Reachable \subseteq Stream
  BY <1>0, <1>5, <1>6
<1>8. Closed(Reachable)
  <2>1. 0 \in Reachable
    BY <1>0, <1>5 DEF Closed
  <2>2. ASSUME NEW e \in ExitEdges, e[1] \in Reachable PROVE e[2] \in Reachable
    <3>1. e[2] \in Real
      BY DEF ExitEdges
    <3>2. ASSUME NEW C \in SUBSET Real, Closed(C) PROVE e[2] \in C
      <4>1. e[1] \in C
        BY <1>5, <2>2, <3>2
      <4> QED BY <3>2, <4>1 DEF Closed
    <3> QED BY <1>5, <3>1, <3>2
  <2> QED BY <2>1, <2>2 DEF Closed
<1>10. Closed(seen)' /\ \A C \in SUBSET Real : Closed(C)' => seen' \subseteq C
  <2>1. Closed(seen)'
    BY <1>0, <1>2, <1>8 DEF Closed
  <2>2. ASSUME NEW C \in SUBSET Real, Closed(C)' PROVE Reachable \subseteq C
    <3>1. Closed(C)
      BY <1>2, <2>2 DEF Closed
    <3> QED BY <1>5, <3>1
  <2> QED BY <1>0, <2>1, <2>2
<1>11. \A b \in Stream : ~(b > lastBlock)
  BY <1>0, StreamFacts DEF StreamLinked
<1>12. SeenOK'
  BY <1>0, <1>1, <1>2, <1>3, <1>7, <1>10, <1>11 DEF SeenOK, table
<1>13. CallInStream' /\ EdgesInStream'
  BY <1>0, <1>2, <1>3, <1>4 DEF CallInStream, EdgesInStream, Gone, Dropping, StreamLinked
<1> QED BY <1>3, <1>12, <1>13 DEF StreamIInv

(* Its walk goes on from a block that it keeps, or whose edges are all removed. *)
LEMMA DropWalkStream ==
  ASSUME IInv, StreamIInv, DropSkip \/ DropNextBlock
  PROVE  StreamIInv'
<1> DEFINE b == call.from
<1>0. /\ TypeOK /\ SlotsPacked /\ Shape
      /\ StreamOrdered /\ StreamLinked /\ EdgesInStream /\ CallInStream /\ SeenOK
      /\ Stream \subseteq Real /\ Dropping /\ Dropping' /\ pc' = "scan" /\ ~Gone'
      /\ pc # "search"
  BY DEF IInv, StreamIInv, Stream, DropSkip, DropNextBlock, Dropping, Gone
<1>1. UNCHANGED <<table, seen>> /\ call'.from = prevBlock[b]
  <2>1. call \in [from : Ids \cup {None}, to : Ids \cup {None}, new : Ids \cup {None},
                  cur : Ids \cup {None}, back : {"idle", "drop", "retarget"}]
    BY <1>0 DEF TypeOK, ControlTypeOK
  <2> QED BY <2>1 DEF DropSkip, DropNextBlock, NoCall
<1>2. Real' = Real /\ ExitEdges' = ExitEdges
  BY <1>1 DEF table, Real, Allocated, ExitEdges
<1>3. Stream' = Stream /\ StreamOrdered' /\ StreamLinked'
  BY <1>0, <1>1, <1>2, StreamStays DEF table
<1>4. /\ seen \subseteq Stream /\ Closed(seen)
      /\ \A C \in SUBSET Real : Closed(C) => seen \subseteq C
      /\ \A c \in Stream : c > b => c \in seen
  BY <1>0 DEF SeenOK
<1>5. \A c \in Stream : c \in Nat
  BY <1>0, StreamFacts
<1>6. /\ prevBlock[b] \in Stream \cup {None}
      /\ \A c \in Stream : c > prevBlock[b] => c \in seen
      /\ \A e \in ExitEdges : e[1] \in Stream
  <2>1. CASE DropSkip
    <3>1. b \in seen /\ b \in Stream /\ b \in Nat
      BY <1>4, <1>5, <2>1 DEF DropSkip
    <3>2. \A e \in ExitEdges : e[1] \in Stream
      BY <1>0, <2>1 DEF EdgesInStream, Gone, DropSkip
    <3>3. CASE b = 0
      BY <1>0, <1>4, <1>5, <3>1, <3>2, <3>3 DEF StreamLinked
    <3>4. CASE b # 0
      <4>1. prevBlock[b] \in Stream /\ prevBlock[b] \in Nat
        BY <1>0, <1>5, <3>1, <3>4, StreamFacts
      <4>2. \A c \in Stream : c < b => c <= prevBlock[b]
        BY <1>0, <3>1, StreamFacts
      <4> QED BY <1>4, <1>5, <3>1, <3>2, <4>1, <4>2
    <3> QED BY <3>3, <3>4
  <2>2. CASE DropNextBlock
    <3>1. /\ b \in Real \ Stream /\ prevBlock[b] \in Stream
          /\ \A c \in Stream : c < b => c <= prevBlock[b]
      BY <1>0, <2>2 DEF CallInStream, Gone, DropNextBlock
    <3>2. b \in Nat /\ prevBlock[b] \in Nat
      BY <1>0, <1>5, <3>1, StreamFacts
    <3>3. \A i \in ExitSlots : exits[b][i] \notin Real
      <4>1. exits[b] \in [ExitSlots -> Real \cup {None}] /\ exits[b][0] < 0
        BY <1>0, <2>2, <3>1 DEF Shape, DropNextBlock
      <4>2. Packed(exits[b], ExitSlots)
        BY <1>0, <3>1 DEF SlotsPacked
      <4>3. \A c \in Real : c >= 0 /\ c \in Nat
        BY <1>0, Indices
      <4>4. ExitSlots = {0, 1}
        BY DEF ExitSlots
      <4>5. ~(exits[b][1] >= 0)
        <5>1. exits[b][1] >= 0 => exits[b][0] >= 0
          BY <4>2, <4>4 DEF Packed
        <5>2. exits[b][0] \in Int
          BY <4>1, <4>3, <4>4 DEF None
        <5> QED BY <4>1, <5>1, <5>2
      <4>6. exits[b][0] \notin Real
        BY <4>1, <4>3
      <4> QED BY <4>3, <4>4, <4>5, <4>6
    <3>4. \A e \in ExitEdges : e[1] # b
      BY <3>3 DEF ExitEdges
    <3>5. \A e \in ExitEdges : e[1] \in Stream
      BY <1>0, <3>4 DEF EdgesInStream
    <3> QED BY <1>4, <1>5, <3>1, <3>2, <3>5
  <2> QED BY <2>1, <2>2
<1> HIDE DEF b
<1>7. CallInStream' /\ EdgesInStream'
  BY <1>0, <1>1, <1>2, <1>3, <1>6 DEF CallInStream, EdgesInStream
<1>8. SeenOK'
  <2>1. \A C : Closed(C)' <=> Closed(C)
    BY <1>2 DEF Closed
  <2>2. Closed(seen)'
    BY <1>1, <1>2, <1>4 DEF Closed
  <2> QED BY <1>1, <1>2, <1>3, <1>4, <1>6, <2>1, <2>2 DEF SeenOK
<1> QED BY <1>3, <1>7, <1>8 DEF StreamIInv

(* It unlinks a block that was not seen, and its neighbours stay linked in order. *)
LEMMA DropUnlinkStream ==
  ASSUME IInv, StreamIInv, DropUnlink
  PROVE  StreamIInv'
<1> DEFINE b == call.from
           p == prevBlock[b]
           n == nextBlock[b]
<1>0. /\ TypeOK /\ Shape
      /\ StreamOrdered /\ StreamLinked /\ EdgesInStream /\ CallInStream /\ SeenOK
      /\ Dropping /\ ~Gone /\ Dropping' /\ Gone' /\ pc = "scan" /\ pc' = "drop"
  BY DEF IInv, StreamIInv, DropUnlink, Dropping, Gone
<1>1. /\ nextBlock' = [nextBlock EXCEPT ![p] = n] /\ prevBlock' = UnlinkPrev(b)
      /\ lastBlock' = IF n >= 0 THEN lastBlock ELSE p
      /\ UNCHANGED <<numBlocks, owner, exits, call, seen>>
      /\ b >= 0 /\ b \notin seen
  BY DEF DropUnlink
<1>2. Real' = Real /\ ExitEdges' = ExitEdges
  BY <1>1 DEF Real, Allocated, ExitEdges
<1>3. /\ Stream \subseteq Real /\ Real \subseteq Ids /\ \A c \in Real : c \in Nat
      /\ \A c \in Real : c \in Stream <=> c = 0 \/ nextBlock[prevBlock[c]] = c
      /\ \A c \in Real : c # 0 => prevBlock[c] \in Real /\ prevBlock[c] < c
      /\ \A c \in Stream : c # 0 => prevBlock[c] \in Stream
      /\ \A c \in Stream : c <= lastBlock /\ \A d \in Stream : c < d => c <= prevBlock[d]
      /\ \A c \in Stream : nextBlock[c] = None <=> c = lastBlock
      /\ \A c \in Stream : nextBlock[c] # None =>
           /\ nextBlock[c] \in Stream /\ nextBlock[c] > c /\ prevBlock[nextBlock[c]] = c
      /\ None \notin Real
  BY <1>0, StreamFacts
<1>4. /\ seen \subseteq Stream /\ Closed(seen) /\ 0 \in seen
      /\ \A C \in SUBSET Real : Closed(C) => seen \subseteq C
      /\ \A c \in Stream : c > b => c \in seen
  BY <1>0 DEF SeenOK, Closed
<1>5. b \in Stream /\ b \in Real /\ b # 0 /\ 0 \in Stream /\ prevBlock[0] = None
  <2>1. b \in Stream \cup {None}
    BY <1>0 DEF CallInStream
  <2> QED BY <1>0, <1>1, <1>3, <1>4, <2>1 DEF None, StreamLinked
<1>6. p \in Stream /\ p \in Real /\ p < b /\ p # b /\ nextBlock[p] = b
  <2>1. p \in Stream /\ p < b /\ p \in Nat /\ b \in Nat
    BY <1>3, <1>5
  <2> QED BY <1>3, <1>5, <2>1
<1>7. /\ n = None \/ (n \in Stream /\ n \in Real /\ n > b /\ prevBlock[n] = b /\ n # 0)
      /\ n >= 0 <=> n # None
      /\ n = None <=> b = lastBlock
  <2>1. n # None => n \in Stream /\ n \in Real /\ n > b /\ prevBlock[n] = b
    BY <1>3, <1>5
  <2>2. n # None => n \in Nat /\ n # 0
    BY <1>3, <1>5, <2>1
  <2> QED BY <1>3, <1>5, <2>1, <2>2 DEF None
<1>8. /\ nextBlock'[p] = n /\ \A c \in Real : c # p => nextBlock'[c] = nextBlock[c]
      /\ n # None => prevBlock'[n] = p
      /\ \A c \in Real : c # n => prevBlock'[c] = prevBlock[c]
  <2>1. nextBlock \in [Ids -> Links] /\ prevBlock \in [Ids -> Links]
    BY <1>0 DEF TypeOK, TableTypeOK
  <2> QED BY <1>1, <1>3, <1>6, <1>7, <2>1 DEF UnlinkPrev
<1> HIDE DEF p, n, b
<1>9. \A c \in Real : InStream(c)' <=> c \in Stream /\ c # b
  <2> SUFFICES ASSUME NEW c \in Real PROVE InStream(c)' <=> c \in Stream /\ c # b
    OBVIOUS
  <2>1. CASE c = 0
    BY <1>2, <1>3, <1>5, <2>1 DEF InStream
  <2>2. CASE c # 0 /\ c = n
    <3>1. n # None /\ nextBlock'[prevBlock'[c]] = c /\ c \in Stream /\ c # b
      <4>1. n # None /\ n \in Stream /\ n > b /\ n \in Nat /\ b \in Nat
        BY <1>3, <1>5, <1>7, <2>2
      <4> QED BY <1>8, <2>2, <4>1
    <3> QED BY <1>2, <3>1 DEF InStream
  <2>3. CASE c # 0 /\ c = b /\ c # n
    <3>1. prevBlock'[c] = p /\ nextBlock'[p] = n
      BY <1>8, <2>3 DEF p
    <3> QED BY <2>3, <3>1 DEF InStream
  <2>4. CASE c # 0 /\ c # b /\ c # n
    <3>1. prevBlock'[c] = prevBlock[c] /\ prevBlock[c] \in Real
      BY <1>3, <1>8, <2>4
    <3>2. CASE prevBlock[c] = p
      <4>1. nextBlock'[prevBlock'[c]] = n /\ nextBlock[prevBlock[c]] = b
        BY <1>6, <1>8, <3>1, <3>2
      <4> QED BY <1>2, <1>3, <2>4, <4>1 DEF InStream
    <3>3. CASE prevBlock[c] # p
      BY <1>2, <1>3, <1>8, <2>4, <3>1, <3>3 DEF InStream
    <3> QED BY <3>2, <3>3
  <2> QED BY <2>1, <2>2, <2>3, <2>4
<1>10. Stream' = Stream \ {b}
  BY <1>2, <1>3, <1>9 DEF Stream
<1>11. b \in Nat /\ p \in Nat /\ (n # None => n \in Nat) /\ \A c \in Stream : c \in Nat
  BY <1>3, <1>5, <1>6, <1>7
<1>12. \A c \in Stream : /\ c < b => c <= p
                         /\ n # None /\ c < n => c <= b
  BY <1>3, <1>5, <1>7 DEF p
<1>13. StreamOrdered'
  <2>1. ASSUME NEW c \in Real, c # 0 PROVE prevBlock'[c] \in Real /\ prevBlock'[c] < c
    <3>1. CASE c = n
      <4>1. n # None
        BY <1>3, <3>1
      <4> QED BY <1>6, <1>7, <1>8, <1>11, <3>1, <4>1
    <3>2. CASE c # n
      BY <1>3, <1>8, <2>1, <3>2
    <3> QED BY <3>1, <3>2
  <2>2. ASSUME NEW c \in Stream, c # b PROVE c <= lastBlock'
    <3>1. CASE n = None
      <4>1. c <= b /\ lastBlock' = p
        BY <1>1, <1>3, <1>7, <3>1
      <4> QED BY <1>11, <1>12, <2>2, <4>1
    <3>2. CASE n # None
      BY <1>1, <1>3, <1>7, <3>2
    <3> QED BY <3>1, <3>2
  <2>3. ASSUME NEW c \in Stream, NEW d \in Stream, c # b, d # b, c < d PROVE c <= prevBlock'[d]
    <3>1. CASE d = n
      <4>1. n # None
        BY <1>3, <3>1
      <4>2. c <= b
        BY <1>12, <2>3, <3>1, <4>1
      <4>3. c <= p
        BY <1>11, <1>12, <2>3, <4>2
      <4> QED BY <1>8, <3>1, <4>1, <4>3
    <3>2. CASE d # n
      BY <1>3, <1>8, <2>3, <3>2
    <3> QED BY <3>1, <3>2
  <2>4. numBlocks' # 0 /\ 0 \in Real'
    <3>1. 0 \in Allocated /\ 0 \in Real
      BY <1>3, <1>5 DEF Real
    <3>2. numBlocks # 0
      BY <3>1 DEF Allocated
    <3> QED BY <1>1, <1>2, <3>1, <3>2
  <2> QED BY <1>2, <1>10, <2>1, <2>2, <2>3, <2>4 DEF StreamOrdered
<1>14. StreamLinked'
  <2>1. p \in Stream' /\ 0 \in Stream'
    BY <1>5, <1>6, <1>10
  <2>2. lastBlock' \in Stream'
    <3>1. CASE n = None
      BY <1>1, <1>7, <2>1, <3>1
    <3>2. CASE n # None
      <4>1. lastBlock' = lastBlock /\ lastBlock # b /\ lastBlock \in Stream
        BY <1>0, <1>1, <1>5, <1>7, <3>2 DEF StreamLinked
      <4> QED BY <1>10, <4>1
    <3> QED BY <3>1, <3>2
  <2>3. prevBlock'[0] = None
    BY <1>3, <1>5, <1>7, <1>8
  <2>4. ASSUME NEW c \in Stream, c # b
        PROVE  /\ nextBlock'[c] = None <=> c = lastBlock'
               /\ nextBlock'[c] # None => /\ nextBlock'[c] \in Stream' /\ nextBlock'[c] > c
                                          /\ prevBlock'[nextBlock'[c]] = c
    <3>1. CASE c = p
      <4>1. nextBlock'[c] = n
        BY <1>8, <3>1
      <4>2. CASE n = None
        BY <1>1, <1>7, <3>1, <4>1, <4>2
      <4>3. CASE n # None
        <5>1. lastBlock' = lastBlock /\ lastBlock # p
          <6>1. lastBlock' = lastBlock /\ n <= lastBlock /\ n > p
            BY <1>1, <1>3, <1>6, <1>7, <1>11, <4>3
          <6> QED BY <1>11, <4>3, <6>1
        <5>2. n \in Stream' /\ n > p /\ prevBlock'[n] = p
          BY <1>6, <1>7, <1>8, <1>10, <1>11, <4>3
        <5> QED BY <3>1, <4>1, <4>3, <5>1, <5>2
      <4> QED BY <4>2, <4>3
    <3>2. CASE c # p
      <4>1. nextBlock'[c] = nextBlock[c] /\ c \in Real
        BY <1>3, <1>8, <3>2
      <4>2. nextBlock[c] = None <=> c = lastBlock'
        <5>1. CASE n = None
          <6>1. lastBlock = b /\ lastBlock' = p
            BY <1>1, <1>7, <5>1
          <6> QED BY <1>3, <2>4, <3>2, <6>1
        <5>2. CASE n # None
          BY <1>1, <1>3, <1>7, <5>2
        <5> QED BY <5>1, <5>2
      <4>3. ASSUME nextBlock[c] # None
            PROVE  /\ nextBlock[c] \in Stream' /\ nextBlock[c] > c /\ prevBlock'[nextBlock[c]] = c
        <5>1. nextBlock[c] \in Stream /\ nextBlock[c] > c /\ prevBlock[nextBlock[c]] = c
          BY <1>3, <4>3
        <5>2. nextBlock[c] # b
          BY <3>2, <5>1 DEF p
        <5>3. nextBlock[c] # n
          BY <1>3, <1>7, <2>4, <4>3, <5>1
        <5> QED BY <1>3, <1>8, <1>10, <5>1, <5>2, <5>3
      <4> QED BY <4>1, <4>2, <4>3
    <3> QED BY <3>1, <3>2
  <2>5. ASSUME NEW c \in Stream, c # b, c # 0 PROVE prevBlock'[c] \in Stream' /\ prevBlock'[c] < c
    <3>1. CASE c = n
      <4>1. n # None
        BY <1>3, <3>1
      <4> QED BY <1>6, <1>7, <1>8, <1>11, <2>1, <3>1, <4>1
    <3>2. CASE c # n
      <4>1. prevBlock'[c] = prevBlock[c] /\ prevBlock[c] \in Stream /\ prevBlock[c] < c
        BY <1>3, <1>8, <2>5, <3>2
      <4>2. prevBlock[c] # b
        <5> SUFFICES ASSUME prevBlock[c] = b PROVE FALSE
          OBVIOUS
        <5>1. nextBlock[b] = c
          BY <1>3, <2>5
        <5> QED BY <3>2, <5>1 DEF n
      <4> QED BY <1>10, <4>1, <4>2
    <3> QED BY <3>1, <3>2
  <2> QED BY <1>10, <2>1, <2>2, <2>3, <2>4, <2>5 DEF StreamLinked
<1>15. EdgesInStream'
  BY <1>0, <1>1, <1>2, <1>10 DEF EdgesInStream, b
<1>16. CallInStream'
  <2>1. call'.from = b /\ b \in Real' \ Stream'
    BY <1>1, <1>2, <1>5, <1>10 DEF b
  <2>2. prevBlock'[b] = p
    <3>1. b # n
      BY <1>5, <1>7, <1>11
    <3> QED BY <1>5, <1>8, <3>1 DEF p
  <2>3. p \in Stream' /\ \A c \in Stream' : c < b => c <= p
    BY <1>6, <1>10, <1>12
  <2> QED BY <1>0, <2>1, <2>2, <2>3 DEF CallInStream
<1>17. SeenOK'
  <2>2. Closed(seen)'
    BY <1>1, <1>2, <1>4 DEF Closed
  <2>3. ASSUME NEW C \in SUBSET Real', Closed(C)' PROVE seen' \subseteq C
    <3>1. Closed(C)
      BY <1>2, <2>3 DEF Closed
    <3> QED BY <1>1, <1>2, <1>4, <2>3, <3>1
  <2> QED BY <1>1, <1>4, <1>10, <2>2, <2>3 DEF SeenOK, b
<1> QED BY <1>13, <1>14, <1>15, <1>16, <1>17 DEF StreamIInv

(* When the walk is over, the stream is what was seen. *)
LEMMA DropEndFacts ==
  ASSUME IInv, StreamIInv, DropEnd
  PROVE  /\ Stream = seen /\ Closed(seen) /\ \A e \in ExitEdges : e[1] \in seen
         /\ \A C \in SUBSET Real : Closed(C) => seen \subseteq C
<1>0. /\ TypeOK /\ EdgesInStream /\ CallInStream /\ SeenOK /\ StreamOrdered /\ StreamLinked
      /\ pc = "scan" /\ call.from < 0 /\ Dropping /\ ~Gone
  BY DEF IInv, StreamIInv, DropEnd, Dropping, Gone
<1>1. /\ seen \subseteq Stream /\ Closed(seen)
      /\ \A C \in SUBSET Real : Closed(C) => seen \subseteq C
      /\ \A c \in Stream : c > call.from => c \in seen
  BY <1>0 DEF SeenOK
<1>2. \A c \in Stream : c \in Nat
  BY <1>0, StreamFacts
<1>3. call.from = None
  BY <1>0, <1>2 DEF CallInStream
<1>4. \A c \in Stream : c > call.from
  BY <1>2, <1>3 DEF None
<1>5. \A e \in ExitEdges : e[1] \in Stream
  BY <1>0 DEF EdgesInStream
<1> QED BY <1>1, <1>4, <1>5

(* Between calls again, no edge leaves the stream. *)
LEMMA DropEndStream ==
  ASSUME IInv, StreamIInv, DropEnd
  PROVE  StreamIInv'
<1>0. StreamOrdered /\ StreamLinked /\ pc' = "idle" /\ UNCHANGED table /\ ~Dropping' /\ ~Gone'
  BY DEF StreamIInv, DropEnd, Dropping, Gone
<1>1. Real' = Real /\ ExitEdges' = ExitEdges
  BY <1>0 DEF table, Real, Allocated, ExitEdges
<1>2. Stream' = Stream /\ StreamOrdered' /\ StreamLinked'
  BY <1>0, <1>1, StreamStays DEF table
<1>3. \A e \in ExitEdges : e[1] \in Stream /\ e[2] \in Stream
  BY DropEndFacts DEF Closed
<1>4. EdgesInStream' /\ CallInStream' /\ SeenOK'
  BY <1>0, <1>1, <1>2, <1>3 DEF EdgesInStream, CallInStream, SeenOK
<1> QED BY <1>2, <1>4 DEF StreamIInv

(* An empty stream satisfies the invariant. *)
LEMMA StreamInit ==
  ASSUME Init
  PROVE  StreamIInv
<1>1. Real = {} /\ Stream = {} /\ ExitEdges = {} /\ pc = "idle" /\ ~Dropping /\ ~Gone
  BY DEF Init, Allocated, Real, Stream, ExitEdges, Dropping, Gone
<1>2. numBlocks = 0 /\ lastBlock = None
  BY DEF Init
<1>3. StreamOrdered /\ StreamLinked
  BY <1>1, <1>2 DEF StreamOrdered, StreamLinked
<1> QED BY <1>1, <1>3 DEF StreamIInv, EdgesInStream, CallInStream, SeenOK

(* Every step keeps the invariant of the stream. *)
LEMMA StreamStep ==
  ASSUME IInv, StreamIInv, [Next]_vars
  PROVE  StreamIInv'
<1>0. TypeOK /\ CallOK /\ CallInStream /\ Stream \subseteq Real
  BY DEF IInv, StreamIInv, Stream
<1>1. CASE BlockAdd
  BY <1>1, BlockAddStream
<1>2. ASSUME NEW f \in Stream, NEW t \in Stream, AddEdge(f, t) PROVE StreamIInv'
  <2>1. PICK r \in BOOLEAN : DoAddEdge(f, t, r)
    BY <1>2 DEF AddEdge
  <2>2. pc = "idle" /\ pc' = "idle" /\ ~Dropping
    BY <1>2 DEF AddEdge, Dropping
  <2> QED BY <2>1, <2>2, AddEdgeStream
<1>3. ASSUME NEW f \in Stream, NEW i \in ExitSlots, RemoveEdge(f, i) PROVE StreamIInv'
  BY <1>0, <1>3, StartRemoveStream DEF RemoveEdge
<1>4. ASSUME NEW f \in Stream, NEW i \in ExitSlots, NEW new \in Stream, Retarget(f, i, new)
      PROVE  StreamIInv'
  BY <1>0, <1>4, StartRemoveStream DEF Retarget
<1>5. CASE DropExit
  <2>1. call.from \in Real /\ 0 \in ExitSlots
    BY <1>0, <1>5 DEF DropExit, CallOK, ExitSlots
  <2> QED BY <1>5, <2>1, StartRemoveStream DEF DropExit
<1>6. CASE RetargetAdd
  <2>1. {call.from, call.to, call.new} \subseteq Stream /\ pc = "retarget" /\ ~Dropping
    BY <1>0, <1>6 DEF RetargetAdd, CallInStream, Dropping
  <2>2. PICK r \in BOOLEAN : /\ DoAddEdge(call.from, call.new, r)
                             /\ pc' = IF r THEN "idle" ELSE "restore"
                             /\ call' = IF r THEN NoCall ELSE call
    BY <1>6 DEF RetargetAdd
  <2>3. pc' \in {"idle", "restore"} /\ (pc' = "restore" => call' = call)
    BY <2>2
  <2> QED BY <2>1, <2>2, <2>3, AddEdgeStream
<1>7. CASE RetargetRestore
  <2>1. {call.from, call.to, call.new} \subseteq Stream /\ pc = "restore" /\ ~Dropping /\ pc' = "idle"
    BY <1>0, <1>7 DEF RetargetRestore, CallInStream, Dropping
  <2>2. PICK r \in BOOLEAN : DoAddEdge(call.from, call.to, r)
    BY <1>7 DEF RetargetRestore
  <2> QED BY <2>1, <2>2, AddEdgeStream
<1>8. CASE UNCHANGED vars
  <2>1. Real' = Real /\ ExitEdges' = ExitEdges
    BY <1>8 DEF vars, table, Real, Allocated, ExitEdges
  <2>2. Stream' = Stream /\ StreamOrdered' /\ StreamLinked'
    BY <1>8, <2>1, StreamStays DEF StreamIInv, vars, table
  <2>4. UNCHANGED <<pc, call, seen, prevBlock>> /\ (Dropping' <=> Dropping) /\ (Gone' <=> Gone)
    BY <1>8 DEF vars, table, Dropping, Gone
  <2>5. EdgesInStream' /\ CallInStream'
    BY <2>1, <2>2, <2>4 DEF StreamIInv, EdgesInStream, CallInStream
  <2>6. SeenOK'
    BY <2>1, <2>2, <2>4 DEF StreamIInv, SeenOK, Closed
  <2> QED BY <2>2, <2>5, <2>6 DEF StreamIInv
<1> QED BY <1>1, <1>2, <1>3, <1>4, <1>5, <1>6, <1>7, <1>8, SearchStream, DropBeginStream,
        DropWalkStream, DropUnlinkStream, DropEndStream
        DEF Next, Build, Edit, Continue

(* The stream stays a list, its edges within it, whatever is dropped from it. *)
THEOREM StreamInvariance == Spec => []StreamIInv
<1>1. Init => StreamIInv
  BY StreamInit
<1>2. IInv /\ StreamIInv /\ [Next]_vars => StreamIInv'
  BY StreamStep
<1> QED BY <1>1, <1>2, Invariance, PTL DEF Spec

(* StreamLinked: the code stream is doubly linked in increasing order, from block 0 to
   last_block, before, while and after dead blocks are unlinked from it. *)
THEOREM StreamStaysLinked == Spec => []StreamLinked
<1>1. StreamIInv => StreamLinked
  BY DEF StreamIInv
<1> QED BY <1>1, StreamInvariance, PTL

(* DropIsExact: when drop_dead_blocks() is done, the stream is what can be reached from
   block 0 in the graph that it leaves. *)
THEOREM DropLeavesTheReachable == Spec => DropIsExact
<1>1. ASSUME IInv, StreamIInv, DropEnd PROVE Stream = {b \in Real : LeadsFrom0(b)}
  <2>1. /\ Stream = seen /\ Closed(seen) /\ seen \subseteq Real
        /\ \A C \in SUBSET Real : Closed(C) => seen \subseteq C
    BY <1>1, DropEndFacts DEF Stream
  <2>2. \A b \in Real : LeadsFrom0(b) <=> \A C \in SUBSET Real : Closed(C) => b \in C
    BY DEF LeadsFrom0, Closed
  <2>3. \A b \in Real : LeadsFrom0(b) <=> b \in seen
    BY <2>1, <2>2
  <2> QED BY <2>1, <2>3
<1>2. IInv /\ StreamIInv /\ [Next]_vars =>
        [DropEnd => Stream = {b \in Real : LeadsFrom0(b)}]_vars
  BY <1>1
<1> QED BY <1>2, Invariance, StreamInvariance, PTL DEF Spec, DropIsExact

(******************************** The unit *********************************)

UnitIInv == IInv /\ UnitInv

(* Where values lie. *)
LEMMA UnitRanges ==
  ASSUME UnitIInv
  PROVE  /\ num \in Nat /\ Code \in Seq(Insns) /\ Len(Code) \in Nat
         /\ Real \subseteq Ids /\ Dummies \subseteq Ids /\ numBlocks \notin Real
         /\ numBlocks \notin Dummies /\ numBlocks \in Nat
         /\ \A b \in Ids : b \in Nat /\ first[b] \in Nat /\ last[b] \in Int /\ LastOf(b) \in Int
         /\ lastBlock \in Real \cup {None} /\ None \notin Real
         /\ Real \cap Dummies = {} /\ pc = "idle"
<1>0. TypeOK /\ UnitTypeOK /\ Shape /\ StreamIsTable
  BY DEF UnitIInv, IInv, UnitInv
<1>1. /\ Real \subseteq Ids /\ Dummies \subseteq Ids /\ numBlocks \notin Real
      /\ numBlocks \notin Dummies /\ numBlocks \in Nat /\ None \notin Real
      /\ Real \cap Dummies = {} /\ \A b \in Ids : b \in Nat
  BY <1>0, Indices DEF Dummies
<1>2. num \in Nat /\ Code \in Seq(Insns) /\ Len(Code) \in Nat
  BY <1>0 DEF UnitTypeOK, Code, num
<1>3. \A b \in Ids : first[b] \in Nat /\ last[b] \in Int
  BY <1>0 DEF UnitTypeOK, None
<1>4. \A b \in Ids : LastOf(b) \in Int
  BY <1>2, <1>3 DEF LastOf
<1>5. lastBlock \in Real \cup {None} /\ pc = "idle"
  BY <1>0 DEF Shape, StreamIsTable
<1> QED BY <1>1, <1>2, <1>3, <1>4, <1>5

(* rtl_create_unit() makes an empty unit. *)
LEMMA UnitInitInv == UnitInit => UnitIInv
<1> SUFFICES ASSUME UnitInit PROVE UnitIInv
  OBVIOUS
<1>1. IInv
  BY InitInv DEF UnitInit
<1>2. Allocated = {} /\ Real = {} /\ Dummies = {} /\ insns = <<>> /\ Code = <<>>
  BY DEF UnitInit, Init, Allocated, Real, Dummies, Code, Idle
<1>3. 0 \in Ids
  BY BlocksAssumption DEF Ids
<1>4. UnitTypeOK
  <2>1. TypeOK
    BY <1>1 DEF IInv
  <2>2. 0 \in Labels /\ Idle.insn \in Insns
    BY UnitAssumption DEF Labels, Idle, Insns, Ops
  <2> QED BY <1>2, <1>3, <2>1, <2>2, UnitAssumption DEF UnitInit, UnitTypeOK, Idle, None
<1>5. StreamIsTable
  BY <1>2 DEF StreamIsTable, UnitInit, Init
<1>6. JobOK
  BY <1>2 DEF JobOK, UnitInit, Idle
<1>7. BlocksPartitionInsns
  BY <1>2 DEF BlocksPartitionInsns
<1>8. LabelsResolve
  BY <1>2 DEF LabelsResolve, StartsWith, UnitInit, None, Ids
<1> QED BY <1>1, <1>4, <1>5, <1>6, <1>7, <1>8 DEF UnitIInv, UnitInv

(* A new block becomes the end of the stream. *)
LEMMA AddedBlock ==
  ASSUME UnitIInv, BlockAdd
  PROVE  /\ Real' = Real \cup {numBlocks} /\ Dummies' = Dummies
         /\ numBlocks \in Ids /\ lastBlock' = numBlocks
         /\ \A b \in Real : prevBlock'[b] = prevBlock[b]
         /\ prevBlock'[numBlocks] = lastBlock
         /\ \A b \in Real : exits'[b] = exits[b] /\ entries'[b] = entries[b]
         /\ \A i \in ExitSlots : exits'[numBlocks][i] = None
         /\ \A i \in EntrySlots : entries'[numBlocks][i] = None
         /\ numBlocks = 0 <=> lastBlock = None
         /\ StreamIsTable'
<1>0. TypeOK /\ Shape /\ StreamIsTable
  BY DEF UnitIInv, IInv, UnitInv
<1> DEFINE b == numBlocks
<1>1. b \in Ids /\ b \notin Allocated /\ b \notin Real /\ b \in Nat
  BY <1>0, NewIndex, Indices DEF BlockAdd
<1>2. /\ Allocated' = Allocated \cup {b} /\ numBlocks' = b + 1
      /\ \A c \in Allocated : owner'[c] = owner[c]
      /\ owner'[b] = b
  BY <1>0, <1>1, NewIndex, Indices DEF BlockAdd, TypeOK, TableTypeOK, Allocated
<1>3. Real' = Real \cup {b} /\ Dummies' = Dummies
  BY <1>0, <1>1, <1>2 DEF Real, Dummies
<1>4. /\ \A c \in Real : prevBlock'[c] = prevBlock[c] /\ exits'[c] = exits[c] /\ entries'[c] = entries[c]
      /\ prevBlock'[b] = lastBlock /\ lastBlock' = b
      /\ exits'[b] = [i \in ExitSlots |-> None] /\ entries'[b] = [i \in EntrySlots |-> None]
  BY <1>0, <1>1, Indices DEF BlockAdd, TypeOK, TableTypeOK
<1>5. /\ nextBlock'[b] = None
      /\ lastBlock # None => nextBlock'[lastBlock] = b
      /\ \A c \in Real : c # lastBlock => nextBlock'[c] = nextBlock[c]
  BY <1>0, <1>1, Indices DEF BlockAdd, LinkLast, TypeOK, TableTypeOK, Shape, Ids, None
<1>6. StreamIsTable'
  <2>1. pc' = "idle" /\ (Real' # {}) /\ lastBlock' # None /\ numBlocks' # 0
    BY <1>0, <1>1, <1>2, <1>3, <1>4, Indices DEF BlockAdd, None
  <2>2. 0 \in Real'
    BY <1>0, <1>1, <1>3 DEF StreamIsTable
  <2>3. \A c \in Real' \ {0} : prevBlock'[c] \in Real' /\ nextBlock'[prevBlock'[c]] = c
    <3>1. CASE lastBlock = None
      BY <1>0, <1>3, <3>1 DEF StreamIsTable
    <3>2. CASE lastBlock # None
      <4>1. lastBlock \in Real /\ nextBlock[lastBlock] = None
        BY <1>0, <1>1, <3>2 DEF Shape, StreamIsTable
      <4>2. \A c \in Real \ {0} : prevBlock[c] # lastBlock
        BY <1>0, <4>1, Indices DEF StreamIsTable
      <4> QED BY <1>0, <1>3, <1>4, <1>5, <3>2, <4>1, <4>2 DEF StreamIsTable
    <3> QED BY <3>1, <3>2
  <2>4. \A c \in Real' \ {lastBlock'} : nextBlock'[c] \in Real'
    BY <1>0, <1>1, <1>3, <1>4, <1>5 DEF StreamIsTable, Shape
  <2> QED BY <1>4, <1>5, <2>1, <2>2, <2>3, <2>4 DEF StreamIsTable
<1> QED BY <1>0, <1>1, <1>3, <1>4, <1>6 DEF StreamIsTable

(* An edge changes no link of the stream, and no slot of another block. *)
LEMMA AddedEdge ==
  ASSUME UnitIInv, NEW f \in Real, NEW t \in Real, NEW r \in BOOLEAN, DoAddEdge(f, t, r), pc' = pc
  PROVE  /\ Real' = Real /\ lastBlock' = lastBlock
         /\ Allocated' = Allocated \/ Allocated' = Allocated \cup {numBlocks}
         /\ numBlocks' \in {numBlocks, numBlocks + 1}
         /\ \A b \in Real : prevBlock'[b] = prevBlock[b] /\ nextBlock'[b] = nextBlock[b]
         /\ \A b \in Real : b # f => exits'[b] = exits[b]
         /\ \A b \in Real : b # t => entries'[b] = entries[b]
         /\ NoExits(f) /\ NoEntries(t) => r
         /\ StreamIsTable'
<1>0. TypeOK /\ Shape /\ StreamIsTable /\ pc # "search" /\ IInv
  BY DEF UnitIInv, IInv, UnitInv, StreamIsTable
<1>1. Real' = Real
  BY <1>0, AddEdgeInv
<1>2. f \in Ids /\ t \in Ids /\ numBlocks \notin Real /\ numBlocks \in Nat /\ Real \subseteq Ids
  BY <1>0, UnitRanges
<1>3. /\ lastBlock' = lastBlock
      /\ Allocated' = Allocated \/ Allocated' = Allocated \cup {numBlocks}
      /\ numBlocks' \in {numBlocks, numBlocks + 1}
      /\ \A b \in Real : prevBlock'[b] = prevBlock[b] /\ nextBlock'[b] = nextBlock[b]
      /\ \A b \in Real : b # f => exits'[b] = exits[b]
      /\ \A b \in Real : b # t => entries'[b] = entries[b]
  <2>1. CASE UNCHANGED table
    BY <2>1 DEF table, Allocated
  <2>2. ASSUME NEW i \in ExitSlots, EdgeInHead(f, t, i), UNCHANGED lastBlock
        PROVE  <1>3!:
    BY <1>0, <1>2, <2>2 DEF EdgeInHead, TypeOK, TableTypeOK, Allocated
  <2>3. ASSUME NEW i \in ExitSlots, EdgeInDummy(f, t, i), UNCHANGED lastBlock
        PROVE  <1>3!:
    <3>1. Allocated' = Allocated \cup {numBlocks} /\ numBlocks' = numBlocks + 1 /\ numBlocks \in Ids
      BY <1>0, <2>3, NewIndex, Indices DEF EdgeInDummy, Allocated
    <3> QED BY <1>0, <1>2, <2>3, <3>1 DEF EdgeInDummy, TypeOK, TableTypeOK
  <2>4. ASSUME NEW i \in ExitSlots, EdgeRefused(f, t, i), UNCHANGED lastBlock
        PROVE  <1>3!:
    BY <1>0, <1>2, <2>4 DEF EdgeRefused, NoNewBlock, ExitsOnFailure, TypeOK, TableTypeOK, Allocated
  <2> QED BY <2>1, <2>2, <2>3, <2>4 DEF DoAddEdge
<1>4. NoExits(f) /\ NoEntries(t) => r
  <2>1. 0 \in ExitSlots /\ 0 \in EntrySlots
    BY BlocksAssumption DEF ExitSlots, EntrySlots
  <2> QED BY <2>1 DEF DoAddEdge, NoExits, NoEntries, EdgeRefused, HeadFull, None
<1>5. StreamIsTable'
  <2>1. numBlocks = 0 <=> numBlocks' = 0
    BY <1>0, <1>2, <1>3, UnitRanges DEF StreamIsTable
  <2>2. numBlocks > 0 /\ lastBlock \in Real
    BY <1>0, <1>2, UnitRanges DEF StreamIsTable
  <2> QED BY <1>0, <1>1, <1>3, <2>1, <2>2 DEF StreamIsTable
<1> QED BY <1>1, <1>3, <1>4, <1>5

(* What the properties of the code look at. *)
LEMMA RunsKept ==
  ASSUME UnitIInv, Real' = Real, Code' = Code, lastBlock' = lastBlock,
         \A b \in Real : /\ prevBlock'[b] = prevBlock[b] /\ first'[b] = first[b]
                         /\ LastOf(b)' = LastOf(b)
  PROVE  BlocksPartitionInsns' /\ (labelMap' = labelMap => LabelsResolve')
<1>0. StreamIsTable /\ BlocksPartitionInsns /\ LabelsResolve /\ lastBlock \in Real \cup {None}
  BY UnitRanges DEF UnitIInv, UnitInv
<1>1. \A b \in Real \ {0} : prevBlock[b] \in Real
  BY <1>0 DEF StreamIsTable
<1>2. \A b \in Real : RunOK(b)'
  BY <1>0, <1>1 DEF BlocksPartitionInsns, RunOK
<1>3. BlocksPartitionInsns'
  BY <1>0, <1>2 DEF BlocksPartitionInsns, StreamIsTable
<1>4. ASSUME labelMap' = labelMap PROVE LabelsResolve'
  <2>1. \A l \in Labels, b \in Ids : StartsWith(b, l)' <=> StartsWith(b, l)
    BY DEF StartsWith
  <2> QED BY <1>0, <1>4, <2>1 DEF LabelsResolve
<1> QED BY <1>3, <1>4

(* Steps that leave the blocks and the code alone. *)
LEMMA QuietStep ==
  ASSUME UnitIInv, UNCHANGED <<vars, insns, haveBlock, curBlock, first, last, labelMap>>,
         job.at # "edge", job'.at \notin {"edge", "aborted"}, UnitTypeOK',
         job'.at \in {"open", "make"} => num' < insnsSize',
         job'.at \in {"open", "edges"} => ~haveBlock,
         job'.at = "make" => haveBlock,
         job'.at = "edges" => job'.blk # None
  PROVE  UnitIInv'
<1>0. IInv /\ StreamIsTable /\ JobOK
  BY DEF UnitIInv, UnitInv
<1>1. IInv'
  BY <1>0, StepInv
<1>2. UNCHANGED table /\ pc' = pc
  BY DEF vars
<1>3. Real' = Real /\ Dummies' = Dummies /\ StreamIsTable'
  BY <1>0, <1>2 DEF table, Real, Allocated, Dummies, StreamIsTable
<1>4. Code' = Code /\ Open' = Open /\ Open = curBlock
  BY DEF Code, Open
<1>5. \A b \in Real : LastOf(b)' = LastOf(b)
  BY <1>4 DEF LastOf
<1>6. BlocksPartitionInsns' /\ LabelsResolve'
  BY <1>2, <1>3, <1>4, <1>5, RunsKept DEF table
<1>7. JobOK'
  BY <1>0, <1>2, <1>3, <1>4 DEF JobOK, NoExits, table
<1> QED BY <1>1, <1>3, <1>6, <1>7 DEF UnitIInv, UnitInv

(* The routines that touch neither the code nor the block table. *)
LEMMA QuietActions ==
  ASSUME UnitIInv,
         \/ AllocLabel \/ ClearError \/ (\E i \in Insns : AddInsn(i)) \/ InsnRefused
         \/ OpenRefused \/ OperandsBad \/ NoJumpEdge \/ UndefinedLabel \/ AllEdgesAdded
  PROVE  UnitIInv'
<1>0. TypeOK /\ UnitTypeOK /\ JobOK /\ num \in Nat
  BY UnitRanges DEF UnitIInv, IInv, UnitInv
<1>1. Idle.insn \in Insns /\ Idle.blk = None /\ Idle.at = "idle"
  BY UnitAssumption DEF Idle, Insns, Ops, Labels
<1>2. ASSUME UNCHANGED vars PROVE TypeOK'
  BY <1>0, <1>2 DEF vars, table, TypeOK, TableTypeOK, ControlTypeOK
<1>3. CASE AllocLabel
  <2>1. labelsSize' \in 1..LabelsLimit /\ nextLabel' \in 1..labelsSize'
    <3>1. labelsSize \in 1..LabelsLimit /\ nextLabel \in 1..labelsSize
      BY <1>0 DEF UnitTypeOK
    <3>2. CASE LabelRoom /\ nextLabel' = nextLabel + 1 /\ UNCHANGED labelsSize
      BY <3>1, <3>2, UnitAssumption DEF LabelRoom
    <3>3. CASE ~LabelRoom /\ labelsSize < LabelsLimit /\ labelsSize' = LabelsGrown /\ nextLabel' = nextLabel + 1
      BY <3>1, <3>3, UnitAssumption DEF LabelRoom, LabelsGrown
    <3>4. CASE UNCHANGED <<nextLabel, labelsSize>>
      BY <3>1, <3>4
    <3> QED BY <1>3, <3>2, <3>3, <3>4 DEF AllocLabel
  <2>4. error' \in BOOLEAN
    BY <1>0, <1>3 DEF AllocLabel, UnitTypeOK
  <2>2. UnitTypeOK'
    BY <1>0, <1>2, <1>3, <2>1, <2>4 DEF AllocLabel, UnitTypeOK, building, num
  <2> QED BY <1>0, <1>3, <2>2, QuietStep DEF AllocLabel, CanBuild, building, num
<1>4. CASE ClearError \/ InsnRefused
  <2>1. UnitTypeOK'
    BY <1>0, <1>2, <1>4 DEF ClearError, InsnRefused, UnitTypeOK, building, labels, num
  <2> QED BY <1>0, <1>4, <2>1, QuietStep DEF ClearError, InsnRefused, CanBuild, building, labels, num
<1>5. ASSUME NEW i \in Insns, AddInsn(i) PROVE UnitIInv'
  <2>1. insnsSize' \in Nat /\ num' = num /\ num < insnsSize'
    BY <1>0, <1>5, UnitAssumption DEF AddInsn, UnitTypeOK, num
  <2>2. UnitTypeOK'
    BY <1>0, <1>2, <1>5, <2>1 DEF AddInsn, UnitTypeOK, labels
  <2> QED BY <1>0, <1>5, <2>1, <2>2, QuietStep DEF AddInsn, CanBuild, labels
<1>6. CASE OpenRefused \/ OperandsBad
  <2>1. UnitTypeOK'
    BY <1>0, <1>1, <1>2, <1>6 DEF OpenRefused, OperandsBad, Fail, UnitTypeOK, building, labels, num
  <2> QED BY <1>0, <1>1, <1>6, <2>1, QuietStep
          DEF OpenRefused, OperandsBad, Making, Fail, building, labels
<1>7. CASE NoJumpEdge
  <2>1. job.at = "edges" /\ job.blk \in Nat /\ job.blk + 1 \in 0..MaxBlocks /\ job.blk + 1 # None
    BY <1>0, <1>7, BlocksAssumption DEF NoJumpEdge, AtBlock, UnitTypeOK, JobOK, TypeOK, TableTypeOK, None
  <2>2. job' = [job EXCEPT !.blk = job.blk + 1] /\ ~haveBlock
    BY <1>0, <1>7, <2>1 DEF NoJumpEdge, NextIndex, JobOK
  <2>3. job'.at = "edges" /\ job'.blk = job.blk + 1 /\ job'.insn = job.insn
    BY <2>1, <2>2
  <2>4. UnitTypeOK'
    BY <1>0, <1>2, <1>7, <2>1, <2>3 DEF NoJumpEdge, UnitTypeOK, building, labels, num
  <2> QED BY <1>0, <1>7, <2>1, <2>2, <2>3, <2>4, QuietStep DEF NoJumpEdge, building, labels
<1>8. CASE UndefinedLabel \/ AllEdgesAdded
  <2>1. UnitTypeOK'
    BY <1>0, <1>1, <1>2, <1>8 DEF UndefinedLabel, AllEdgesAdded, UnitTypeOK, building, labels, num
  <2> QED BY <1>0, <1>1, <1>8, <2>1, QuietStep
          DEF UndefinedLabel, AllEdgesAdded, AtBlock, building, labels
<1> QED BY <1>3, <1>4, <1>5, <1>6, <1>7, <1>8

(* An instruction that ends no block goes to the end of the open one. *)
LEMMA Appended ==
  ASSUME UnitIInv, NEW i \in Insns, haveBlock, haveBlock', Open' = Open, Code' = Append(Code, i),
         first' = first, last' = last, Real' = Real, lastBlock' = lastBlock,
         \A b \in Real : prevBlock'[b] = prevBlock[b],
         i.op \in {"op", "label"}, i.op = "label" => first[Open] = Len(Code)
  PROVE  /\ BlocksPartitionInsns'
         /\ \A n \in first[Open]..(Len(Code') - 1) :
              Code'[n + 1].op \notin {"goto", "branch", "return"}
         /\ i.op = "op" /\ labelMap' = labelMap => LabelsResolve'
         /\ (i.op = "label" /\ labelMap[i.label] < 0
             /\ labelMap' = [labelMap EXCEPT ![i.label] = Open]) => LabelsResolve'
<1>0. /\ StreamIsTable /\ JobOK /\ BlocksPartitionInsns /\ LabelsResolve /\ UnitTypeOK
      /\ Open \in Real /\ Open = lastBlock
  BY UnitRanges DEF UnitIInv, UnitInv, JobOK, StreamIsTable
<1> DEFINE m == Len(Code)
<1>1. /\ m \in Nat /\ Len(Code') = m + 1 /\ Code'[m + 1] = i
      /\ \A n \in 1..m : Code'[n] = Code[n]
  BY UnitRanges
<1>2. LastOf(Open) = m - 1 /\ LastOf(Open)' = m
  BY <1>1 DEF LastOf
<1>3. \A b \in Real : b # Open => LastOf(b)' = LastOf(b)
  BY DEF LastOf
<1>4. \A b \in Real : first[b] \in Nat /\ LastOf(b) \in Int /\ b \in Nat
  BY UnitRanges
<1>5. \A b \in Real \ {0} : prevBlock[b] \in Real /\ prevBlock[b] # Open
  <2>1. nextBlock[Open] = None
    BY <1>0, UnitRanges DEF StreamIsTable
  <2> QED BY <1>0, <2>1, UnitRanges DEF StreamIsTable
<1>6. first[Open] <= m
  BY <1>0, <1>1, <1>2, <1>4 DEF BlocksPartitionInsns, RunOK
<1>7. \A n \in first[Open]..(m - 1) : Code[n + 1].op \notin {"goto", "branch", "return"}
  BY <1>0, <1>1 DEF JobOK
<1>8. \A n \in first[Open]..m : Code'[n + 1].op \notin {"goto", "branch", "return"}
  <2> SUFFICES ASSUME NEW n \in first[Open]..m PROVE Code'[n + 1].op \notin {"goto", "branch", "return"}
    OBVIOUS
  <2>1. CASE n = m
    BY <1>1, <2>1
  <2>2. CASE n # m
    <3>1. n \in first[Open]..(m - 1) /\ n + 1 \in 1..m
      BY <1>0, <1>1, <1>4, <2>2
    <3> QED BY <1>1, <1>7, <3>1
  <2> QED BY <2>1, <2>2
<1>9. ASSUME NEW b \in Real, b = Open PROVE RunOK(b)'
  <2>1. first[Open] = IF Open = 0 THEN 0 ELSE LastOf(prevBlock[Open]) + 1
    BY <1>0 DEF BlocksPartitionInsns, RunOK
  <2>2. first'[b] = IF b = 0 THEN 0 ELSE LastOf(prevBlock[b])' + 1
    BY <1>0, <1>3, <1>5, <1>9, <2>1
  <2>4. LastOf(b)' = m /\ first'[b] = first[Open]
    BY <1>2, <1>9
  <2>3. \A n \in first[Open]..m : Code'[n + 1].op = "label" => n = first[Open]
    <3> SUFFICES ASSUME NEW n \in first[Open]..m, Code'[n + 1].op = "label" PROVE n = first[Open]
      OBVIOUS
    <3>1. CASE n = m
      BY <1>1, <3>1
    <3>2. CASE n # m
      <4>1. n \in first[Open]..LastOf(Open) /\ n + 1 \in 1..m
        BY <1>0, <1>1, <1>2, <1>4, <3>2
      <4> QED BY <1>0, <1>1, <4>1 DEF BlocksPartitionInsns, RunOK
    <3> QED BY <3>1, <3>2
  <2> QED BY <1>0, <1>1, <1>4, <1>6, <1>8, <1>9, <2>2, <2>3, <2>4 DEF RunOK
<1>10. ASSUME NEW b \in Real, b # Open PROVE RunOK(b)'
  <2>1. RunOK(b)
    BY <1>0 DEF BlocksPartitionInsns
  <2>2. first'[b] = IF b = 0 THEN 0 ELSE LastOf(prevBlock[b])' + 1
    BY <1>3, <1>5, <1>10, <2>1 DEF RunOK
  <2>3. \A n \in first[b]..LastOf(b) : Code'[n + 1] = Code[n + 1]
    BY <1>1, <1>4, <2>1 DEF RunOK
  <2> QED BY <1>1, <1>3, <1>4, <1>10, <2>1, <2>2, <2>3 DEF RunOK
<1>11. BlocksPartitionInsns'
  BY <1>0, <1>1, <1>2, <1>9, <1>10 DEF BlocksPartitionInsns
<1>12. \A b \in Ids, l \in Labels :
         StartsWith(b, l)' <=> StartsWith(b, l) \/ (b = Open /\ i = [op |-> "label", label |-> l])
  <2> SUFFICES ASSUME NEW b \in Ids, NEW l \in Labels
               PROVE  StartsWith(b, l)' <=> StartsWith(b, l) \/ (b = Open /\ i = [op |-> "label", label |-> l])
    OBVIOUS
  <2>1. CASE b \in Real /\ b # Open
    <3>1. first[b] <= LastOf(b) => Code'[first[b] + 1] = Code[first[b] + 1]
      BY <1>0, <1>1, <1>4, <2>1 DEF BlocksPartitionInsns, RunOK
    <3> QED BY <1>3, <2>1, <3>1 DEF StartsWith
  <2>2. CASE b = Open /\ first[Open] = m
    BY <1>0, <1>1, <1>2, <1>4, <2>2 DEF StartsWith
  <2>3. CASE b = Open /\ first[Open] # m
    <3>1. first[Open] <= LastOf(Open) /\ first[Open] <= LastOf(Open)' /\ first[Open] + 1 \in 1..m
      BY <1>0, <1>1, <1>2, <1>4, <1>6, <2>3
    <3>2. i.op # "label"
      BY <2>3
    <3>3. Code'[first[Open] + 1] = Code[first[Open] + 1]
      BY <1>1, <3>1
    <3>4. ~(i = [op |-> "label", label |-> l])
      BY <3>2
    <3> QED BY <1>0, <2>3, <3>1, <3>3, <3>4 DEF StartsWith
  <2>4. CASE b \notin Real
    BY <1>0, <2>4 DEF StartsWith
  <2> QED BY <2>1, <2>2, <2>3, <2>4
<1>13. i.op = "op" /\ labelMap' = labelMap => LabelsResolve'
  BY <1>0, <1>12 DEF LabelsResolve
<1>14. ASSUME i.op = "label", labelMap[i.label] < 0, labelMap' = [labelMap EXCEPT ![i.label] = Open]
       PROVE  LabelsResolve'
  <2>1. i.label \in Labels /\ \A l \in Labels : i = [op |-> "label", label |-> l] <=> l = i.label
    BY <1>14 DEF Insns
  <2>2. \A l \in Labels : labelMap'[l] = IF l = i.label THEN Open ELSE labelMap[l]
    BY <1>0, <1>14, <2>1 DEF UnitTypeOK
  <2>3. \A b \in Ids : ~StartsWith(b, i.label)
    BY <1>0, <1>14, <2>1, UnitRanges DEF LabelsResolve
  <2> SUFFICES ASSUME NEW l \in Labels, NEW b \in Ids PROVE labelMap'[l] = b <=> StartsWith(b, l)'
    BY DEF LabelsResolve
  <2>4. labelMap[l] = b <=> StartsWith(b, l)
    BY <1>0 DEF LabelsResolve
  <2>5. StartsWith(b, l)' <=> StartsWith(b, l) \/ (b = Open /\ l = i.label)
    BY <1>12, <2>1
  <2> QED BY <2>2, <2>3, <2>4, <2>5
<1>15. \A n \in first[Open]..(Len(Code') - 1) :
         Code'[n + 1].op \notin {"goto", "branch", "return"}
  <2>1. Len(Code') - 1 = m
    BY <1>1
  <2> QED BY <1>8, <2>1
<1> QED BY <1>11, <1>13, <1>14, <1>15

(* A run that a step does not touch, although code may follow. *)
LEMMA RunKept ==
  ASSUME UnitIInv, NEW b \in Real, b \in Real', Len(Code') \in Nat, Len(Code) <= Len(Code'),
         \A n \in 1..Len(Code) : Code'[n] = Code[n],
         first'[b] = first[b], LastOf(b)' = LastOf(b), prevBlock'[b] = prevBlock[b],
         b # 0 => LastOf(prevBlock[b])' = LastOf(prevBlock[b])
  PROVE  RunOK(b)' /\ \A l \in Labels : StartsWith(b, l)' <=> StartsWith(b, l)
<1>1. RunOK(b) /\ first[b] \in Nat /\ LastOf(b) \in Int /\ Len(Code) \in Nat
  BY UnitRanges DEF UnitIInv, UnitInv, BlocksPartitionInsns
<1>2. \A n \in first[b]..LastOf(b) : Code'[n + 1] = Code[n + 1]
  BY <1>1 DEF RunOK
<1>3. first'[b] = IF b = 0 THEN 0 ELSE LastOf(prevBlock[b])' + 1
  BY <1>1 DEF RunOK
<1>4. RunOK(b)'
  <2>1. LastOf(b)' >= first'[b] - 1 /\ LastOf(b)' < Len(Code')
    BY <1>1 DEF RunOK
  <2>2. \A n \in first'[b]..LastOf(b)' :
         /\ Code'[n + 1].op = "label" => n = first'[b]
         /\ Code'[n + 1].op \in {"goto", "branch", "return"} => n = LastOf(b)'
    BY <1>1, <1>2 DEF RunOK
  <2> QED BY <1>3, <2>1, <2>2 DEF RunOK
<1>5. first[b] <= LastOf(b) => Code'[first[b] + 1] = Code[first[b] + 1]
  BY <1>1, <1>2
<1> QED BY <1>4, <1>5 DEF StartsWith

(* The run of the open block when a jump ends it. *)
LEMMA RunEnded ==
  ASSUME UnitIInv, NEW b \in Real, b \in Real', haveBlock, b = Open, NEW i \in Insns,
         i.op \in {"goto", "branch", "return"}, Code' = Append(Code, i),
         first'[b] = first[b], LastOf(b)' = Len(Code), prevBlock'[b] = prevBlock[b],
         b # 0 => LastOf(prevBlock[b])' = LastOf(prevBlock[b])
  PROVE  RunOK(b)' /\ \A l \in Labels : StartsWith(b, l)' <=> StartsWith(b, l)
<1> DEFINE m == Len(Code)
<1>1. /\ RunOK(b) /\ first[b] \in Nat /\ m \in Nat /\ LastOf(b) = m - 1
      /\ Len(Code') = m + 1 /\ Code'[m + 1] = i /\ \A n \in 1..m : Code'[n] = Code[n]
  BY UnitRanges DEF UnitIInv, UnitInv, BlocksPartitionInsns, LastOf
<1>2. first[b] <= m
  BY <1>1 DEF RunOK
<1>3. \A n \in first[b]..(m - 1) : /\ Code[n + 1].op \notin {"goto", "branch", "return"}
                                   /\ Code[n + 1].op = "label" => n = first[b]
                                   /\ Code'[n + 1] = Code[n + 1]
  <2>1. \A n \in first[b]..(m - 1) : Code[n + 1].op \notin {"goto", "branch", "return"}
    BY DEF UnitIInv, UnitInv, JobOK
  <2>2. \A n \in first[b]..(m - 1) : Code[n + 1].op = "label" => n = first[b]
    BY <1>1 DEF RunOK
  <2>3. \A n \in first[b]..(m - 1) : n + 1 \in 1..m
    BY <1>1
  <2> QED BY <1>1, <2>1, <2>2, <2>3
<1>4. first'[b] = IF b = 0 THEN 0 ELSE LastOf(prevBlock[b])' + 1
  BY <1>1 DEF RunOK
<1>5. \A n \in first[b]..m : /\ Code'[n + 1].op = "label" => n = first[b]
                             /\ Code'[n + 1].op \in {"goto", "branch", "return"} => n = m
  <2> SUFFICES ASSUME NEW n \in first[b]..m
               PROVE  /\ Code'[n + 1].op = "label" => n = first[b]
                      /\ Code'[n + 1].op \in {"goto", "branch", "return"} => n = m
    OBVIOUS
  <2>1. CASE n = m
    BY <1>1, <2>1
  <2>2. CASE n # m
    <3>1. n \in first[b]..(m - 1)
      BY <1>1, <2>2
    <3> QED BY <1>3, <3>1
  <2> QED BY <2>1, <2>2
<1>6. RunOK(b)'
  BY <1>1, <1>2, <1>4, <1>5 DEF RunOK
<1>7. ASSUME NEW l \in Labels PROVE StartsWith(b, l)' <=> StartsWith(b, l)
  <2>1. CASE first[b] = m
    <3>1. ~StartsWith(b, l)
      BY <1>1, <2>1 DEF StartsWith
    <3>2. Code'[first[b] + 1] # [op |-> "label", label |-> l]
      BY <1>1, <2>1
    <3> QED BY <3>1, <3>2 DEF StartsWith
  <2>2. CASE first[b] # m
    <3>1. first[b] \in first[b]..(m - 1) /\ first[b] <= m - 1
      BY <1>1, <1>2, <2>2
    <3>2. Code'[first[b] + 1] = Code[first[b] + 1]
      BY <1>3, <3>1
    <3> QED BY <1>1, <1>2, <3>1, <3>2 DEF StartsWith
  <2> QED BY <2>1, <2>2
<1> QED BY <1>6, <1>7

(* A new block with an empty run at the end of the code. *)
LEMMA RunsAdded ==
  ASSUME UnitIInv, BlockAdd, NEW n \in Ids, n = numBlocks, NEW e, e = lastBlock,
         Len(Code') \in Nat, first'[n] = Len(Code'), LastOf(n)' = Len(Code') - 1,
         e = None => Len(Code') = 0, e # None => LastOf(e)' = Len(Code') - 1,
         labelMap' = labelMap,
         \A b \in Real : RunOK(b)' /\ \A l \in Labels : StartsWith(b, l)' <=> StartsWith(b, l)
  PROVE  BlocksPartitionInsns' /\ LabelsResolve'
<1>1. /\ Real' = Real \cup {n} /\ lastBlock' = n /\ prevBlock'[n] = e
      /\ (n = 0 <=> e = None) /\ n \notin Real
  BY AddedBlock, UnitRanges
<1>2. RunOK(n)'
  <2>1. first'[n] = IF n = 0 THEN 0 ELSE LastOf(prevBlock[n])' + 1
    BY <1>1 DEF LastOf
  <2>2. \A k \in first'[n]..LastOf(n)' : FALSE
    OBVIOUS
  <2> QED BY <2>1, <2>2 DEF RunOK
<1>3. BlocksPartitionInsns'
  BY <1>1, <1>2 DEF BlocksPartitionInsns
<1>4. \A l \in Labels : labelMap[l] # n /\ ~StartsWith(n, l)'
  <2>1. \A l \in Labels : labelMap[l] \in Real \cup {None}
    BY DEF UnitIInv, UnitInv, JobOK
  <2>2. n # None
    BY UnitRanges DEF None
  <2>3. ~(first'[n] <= LastOf(n)')
    OBVIOUS
  <2> QED BY <1>1, <2>1, <2>2, <2>3 DEF StartsWith
<1>5. \A l \in Labels, b \in Ids : b \notin Real' => ~StartsWith(b, l)' /\ ~StartsWith(b, l)
  BY <1>1 DEF StartsWith
<1>6. LabelsResolve'
  <2> SUFFICES ASSUME NEW l \in Labels, NEW b \in Ids PROVE labelMap[l] = b <=> StartsWith(b, l)'
    BY DEF LabelsResolve
  <2>1. labelMap[l] = b <=> StartsWith(b, l)
    BY DEF UnitIInv, UnitInv, LabelsResolve
  <2> QED BY <1>1, <1>4, <1>5, <2>1
<1> QED BY <1>3, <1>6

(* A new block after one that ended in a jump, or the first of the unit. *)
LEMMA OpenBlockInv ==
  ASSUME UnitIInv, OpenBlock
  PROVE  UnitIInv'
<1> DEFINE n == numBlocks
<1>0. /\ IInv /\ UnitTypeOK /\ StreamIsTable /\ JobOK /\ BlocksPartitionInsns
      /\ BlockAdd /\ ~haveBlock /\ num < insnsSize /\ num \in Nat
  BY UnitRanges DEF UnitIInv, UnitInv, OpenBlock, NewBlock, JobOK
<1>1. IInv'
  BY <1>0, StepInv DEF Next, Build
<1>2. /\ Real' = Real \cup {n} /\ Dummies' = Dummies /\ n \in Ids /\ lastBlock' = n
      /\ \A b \in Real : prevBlock'[b] = prevBlock[b] /\ exits'[b] = exits[b]
      /\ \A i \in ExitSlots : exits'[n][i] = None
      /\ StreamIsTable' /\ n \notin Real /\ n \notin Dummies /\ Dummies \subseteq Ids
  BY <1>0, AddedBlock, UnitRanges
<1>3. /\ job.at = "open" /\ job' = [job EXCEPT !.at = "make"] /\ insns' = insns
      /\ haveBlock' = TRUE /\ curBlock' = n
      /\ first' = [first EXCEPT ![n] = num] /\ last' = [last EXCEPT ![n] = None]
      /\ UNCHANGED <<insnsSize, nextLabel, labelsSize, labelMap, error, finalized, closed>>
  BY DEF OpenBlock, NewBlock, labels
<1>4. /\ job'.at = "make" /\ job'.insn = job.insn /\ job'.blk = job.blk
      /\ job.insn \in Insns
  BY <1>0, <1>3 DEF UnitTypeOK
<1>5. /\ first'[n] = num /\ last'[n] = None
      /\ \A b \in Ids : b # n => first'[b] = first[b] /\ last'[b] = last[b]
  BY <1>0, <1>2, <1>3 DEF UnitTypeOK
<1>6. UnitTypeOK'
  <2>1. TypeOK'
    BY <1>1 DEF IInv
  <2>2. first' \in [Ids -> Nat] /\ last' \in [Ids -> Nat \cup {None}]
    BY <1>0, <1>2, <1>3 DEF UnitTypeOK
  <2> QED BY <1>0, <1>2, <1>3, <1>4, <2>1, <2>2 DEF UnitTypeOK, num
<1>7. Code = insns /\ Code' = insns /\ Open' = n /\ Len(Code) = num /\ Len(Code') = num
  BY <1>3, <1>4 DEF Code, Open, num
<1>8. JobOK'
  BY <1>0, <1>2, <1>3, <1>4, <1>5, <1>7 DEF JobOK, NoExits, num
<1>9. \A b \in Real : first'[b] = first[b] /\ LastOf(b)' = LastOf(b) /\ LastOf(b) = last[b]
  BY <1>0, <1>2, <1>3, <1>5, <1>7, UnitRanges DEF LastOf
<1>10. \A b \in Real : RunOK(b)' /\ \A l \in Labels : StartsWith(b, l)' <=> StartsWith(b, l)
  <2> SUFFICES ASSUME NEW b \in Real
               PROVE  RunOK(b)' /\ \A l \in Labels : StartsWith(b, l)' <=> StartsWith(b, l)
    OBVIOUS
  <2>1. b # 0 => LastOf(prevBlock[b])' = LastOf(prevBlock[b])
    <3>1. b # 0 => prevBlock[b] \in Real /\ prevBlock'[b] = prevBlock[b]
      BY <1>0, <1>2 DEF StreamIsTable
    <3> QED BY <1>9, <3>1
  <2> QED BY <1>0, <1>2, <1>7, <1>9, <2>1, RunKept
<1>11. BlocksPartitionInsns' /\ LabelsResolve'
  <2> SUFFICES ASSUME NEW e, e = lastBlock, NEW m, m = n PROVE BlocksPartitionInsns' /\ LabelsResolve'
    OBVIOUS
  <2>1. LastOf(m)' = Len(Code') - 1
    BY <1>3, <1>7 DEF LastOf
  <2>2. e = None => Len(Code') = 0
    BY <1>0, <1>7 DEF StreamIsTable, BlocksPartitionInsns
  <2>3. e # None => LastOf(e)' = Len(Code') - 1
    <3>1. e # None => e \in Real /\ LastOf(e) = Len(Code) - 1
      BY <1>0, UnitRanges DEF StreamIsTable, BlocksPartitionInsns
    <3> QED BY <1>7, <1>9, <3>1
  <2> QED BY <1>0, <1>2, <1>3, <1>5, <1>7, <1>10, <2>1, <2>2, <2>3, RunsAdded
<1> QED BY <1>1, <1>2, <1>6, <1>8, <1>11 DEF UnitIInv, UnitInv

(* A step that leaves the block table alone. *)
LEMMA SameTable ==
  ASSUME UnitIInv, UNCHANGED vars
  PROVE  /\ IInv' /\ TypeOK' /\ Real' = Real /\ Dummies' = Dummies /\ StreamIsTable'
         /\ prevBlock' = prevBlock /\ lastBlock' = lastBlock /\ exits' = exits /\ numBlocks' = numBlocks
<1>0. IInv /\ StreamIsTable
  BY DEF UnitIInv, UnitInv
<1>1. IInv'
  BY <1>0, StepInv
<1>2. UNCHANGED <<table, pc>>
  BY DEF vars
<1> QED BY <1>0, <1>1, <1>2 DEF IInv, table, Real, Allocated, Dummies, StreamIsTable

(* make_*() of an instruction that ends no block and begins none. *)
LEMMA MakeInv ==
  ASSUME UnitIInv, MakeOp \/ LabelHere
  PROVE  UnitIInv'
<1> DEFINE i == job.insn
<1>0. /\ UnitTypeOK /\ JobOK /\ UNCHANGED vars /\ job.at = "make" /\ i \in Insns /\ i.op \in {"op", "label"}
      /\ num < insnsSize /\ num \in Nat /\ haveBlock /\ curBlock \in Real
  BY UnitRanges DEF UnitIInv, UnitInv, MakeOp, LabelHere, Making, JobOK, UnitTypeOK
<1>1. /\ insns' = Append(insns, i) /\ job' = Idle
      /\ UNCHANGED <<insnsSize, haveBlock, curBlock, first, last, nextLabel, labelsSize, error, finalized, closed>>
  BY DEF MakeOp, LabelHere, Append1, labels
<1>2. job'.at = "idle" /\ Idle.insn \in Insns /\ Idle.blk = None
  BY <1>1, UnitAssumption DEF Idle, Insns, Ops, Labels
<1>3. /\ Code = insns /\ Code' = Append(Code, i) /\ Open = curBlock /\ Open' = Open /\ Len(Code) = num
      /\ num' = num + 1 /\ insns' \in Seq(Insns)
  BY <1>0, <1>1, <1>2 DEF Code, Open, num, UnitTypeOK
<1>4. /\ i.op = "op" => labelMap' = labelMap
      /\ i.op = "label" => /\ labelMap' = [labelMap EXCEPT ![i.label] = Open]
                           /\ labelMap[i.label] < 0 /\ first[Open] = Len(Code) /\ i.label \in Labels
  BY <1>0, <1>3 DEF MakeOp, LabelHere, Making, OperandsOK, labels, Insns
<1>5. labelMap' \in [Labels -> Ids \cup {None}] /\ \A l \in Labels : labelMap'[l] \in Real \cup {None}
  BY <1>0, <1>3, <1>4 DEF UnitTypeOK, JobOK
<1>6. UnitTypeOK'
  BY <1>0, <1>1, <1>2, <1>3, <1>5, SameTable DEF UnitTypeOK
<1>7. BlocksPartitionInsns' /\ LabelsResolve'
      /\ \A n \in first[Open]..(Len(Code') - 1) : Code'[n + 1].op \notin {"goto", "branch", "return"}
  <2>1. haveBlock' /\ first' = first /\ last' = last /\ Real' = Real /\ lastBlock' = lastBlock
        /\ \A b \in Real : prevBlock'[b] = prevBlock[b]
    BY <1>0, <1>1, SameTable
  <2> QED BY <1>0, <1>3, <1>4, <2>1, Appended
<1>8. JobOK'
  BY <1>0, <1>1, <1>2, <1>3, <1>5, <1>7, SameTable DEF JobOK, NoExits
<1> QED BY <1>0, <1>6, <1>7, <1>8, SameTable DEF UnitIInv, UnitInv

(* make_goto() and make_return() end the open block. *)
LEMMA MakeJumpInv ==
  ASSUME UnitIInv, MakeJump
  PROVE  UnitIInv'
<1> DEFINE i == job.insn
<1>0. /\ UnitTypeOK /\ JobOK /\ StreamIsTable /\ BlocksPartitionInsns /\ LabelsResolve
      /\ UNCHANGED vars /\ job.at = "make" /\ i \in Insns /\ i.op \in {"goto", "return"}
      /\ num < insnsSize /\ num \in Nat /\ haveBlock /\ curBlock \in Real /\ curBlock \in Ids
  BY UnitRanges DEF UnitIInv, UnitInv, MakeJump, Making, JobOK, UnitTypeOK
<1>1. /\ insns' = Append(insns, i) /\ job' = Idle /\ haveBlock' = FALSE
      /\ last' = [last EXCEPT ![curBlock] = num]
      /\ UNCHANGED <<insnsSize, curBlock, first, nextLabel, labelsSize, labelMap, error, finalized, closed>>
  BY DEF MakeJump, Append1, labels
<1>2. job'.at = "idle" /\ Idle.insn \in Insns /\ Idle.blk = None
  BY <1>1, UnitAssumption DEF Idle, Insns, Ops, Labels
<1>3. /\ Code = insns /\ Code' = Append(Code, i) /\ Open = curBlock /\ Len(Code) = num
      /\ num' = num + 1 /\ insns' \in Seq(Insns)
      /\ Len(Code') = num + 1 /\ \A n \in 1..Len(Code) : Code'[n] = Code[n]
  BY <1>0, <1>1, <1>2 DEF Code, Open, num, UnitTypeOK
<1>4. last' \in [Ids -> Nat \cup {None}] /\ last'[curBlock] = num
      /\ \A b \in Ids : b # curBlock => last'[b] = last[b]
  BY <1>0, <1>1 DEF UnitTypeOK
<1>5. UnitTypeOK'
  <2>1. TypeOK'
    BY <1>0, SameTable
  <2>2. haveBlock' \in BOOLEAN
    BY <1>1
  <2>3. num' <= insnsSize'
    BY <1>0, <1>1, <1>3 DEF UnitTypeOK
  <2> QED BY <1>0, <1>1, <1>2, <1>3, <1>4, <2>1, <2>2, <2>3 DEF UnitTypeOK
<1>6. JobOK'
  <2>1. \A d \in Dummies' : last'[d] = None
    BY <1>0, <1>4, SameTable, UnitRanges DEF JobOK
  <2>2. \A l \in Labels : labelMap'[l] \in Real' \cup {None}
    BY <1>0, <1>1, SameTable DEF JobOK
  <2> QED BY <1>1, <1>2, <2>1, <2>2 DEF JobOK
<1>7. /\ \A b \in Ids : b # curBlock => LastOf(b)' = LastOf(b)
      /\ \A b \in Ids : b = curBlock => LastOf(b)' = Len(Code)
  <2>1. \A b \in Ids : LastOf(b)' = last'[b]
    BY <1>1 DEF LastOf
  <2>2. \A b \in Ids : b # curBlock => LastOf(b) = last[b]
    BY <1>3 DEF LastOf
  <2> QED BY <1>3, <1>4, <2>1, <2>2
<1>8. \A b \in Real : b # 0 => prevBlock[b] \in Real /\ LastOf(prevBlock[b])' = LastOf(prevBlock[b])
  <2> SUFFICES ASSUME NEW b \in Real, b # 0
               PROVE  prevBlock[b] \in Real /\ LastOf(prevBlock[b])' = LastOf(prevBlock[b])
    OBVIOUS
  <2>1. prevBlock[b] \in Real /\ prevBlock[b] # curBlock /\ prevBlock'[b] = prevBlock[b]
    <3>1. curBlock = lastBlock /\ nextBlock[curBlock] = None
      BY <1>0, <1>3, UnitRanges DEF JobOK, StreamIsTable
    <3> QED BY <1>0, <3>1, SameTable, UnitRanges DEF StreamIsTable
  <2> QED BY <1>7, <2>1, UnitRanges
<1>9. \A b \in Real : RunOK(b)' /\ \A l \in Labels : StartsWith(b, l)' <=> StartsWith(b, l)
  <2> SUFFICES ASSUME NEW b \in Real
               PROVE  RunOK(b)' /\ \A l \in Labels : StartsWith(b, l)' <=> StartsWith(b, l)
    OBVIOUS
  <2>1. b \in Real' /\ first'[b] = first[b] /\ prevBlock'[b] = prevBlock[b] /\ b \in Ids
    BY <1>0, <1>1, SameTable, UnitRanges
  <2>2. CASE b = curBlock
    BY <1>0, <1>3, <1>7, <1>8, <2>1, <2>2, RunEnded
  <2>3. CASE b # curBlock
    <3>1. Len(Code') \in Nat /\ Len(Code) <= Len(Code')
      BY <1>0, <1>3
    <3> QED BY <1>3, <1>7, <1>8, <2>1, <2>3, <3>1, RunKept
  <2> QED BY <2>2, <2>3
<1>10. BlocksPartitionInsns'
  <2> SUFFICES ASSUME NEW e, e = lastBlock PROVE BlocksPartitionInsns'
    OBVIOUS
  <2>1. e = curBlock /\ LastOf(e)' = Len(Code') - 1
    BY <1>0, <1>3, <1>7 DEF JobOK
  <2> QED BY <1>0, <1>9, <2>1, SameTable DEF BlocksPartitionInsns
<1>11. LabelsResolve'
  <2>1. \A l \in Labels, b \in Ids : b \notin Real => ~StartsWith(b, l)' /\ ~StartsWith(b, l)
    BY <1>0, SameTable DEF StartsWith
  <2> QED BY <1>0, <1>1, <1>9, <2>1 DEF LabelsResolve
<1> QED BY <1>0, <1>5, <1>6, <1>10, <1>11, SameTable DEF UnitIInv, UnitInv

(* A block that could not be split has ended all the same, and is still the open one. *)
LEMMA SplitRefusedInv ==
  ASSUME UnitIInv, NEW n \in Nat \cup {None}, job.at = "make",
         UNCHANGED <<vars, first, insns, insnsSize, haveBlock, curBlock, labels, finalized, closed>>,
         Fail, last' = [last EXCEPT ![curBlock] = n]
  PROVE  UnitIInv'
<1>0. /\ UnitTypeOK /\ JobOK /\ haveBlock /\ curBlock \in Real /\ curBlock \in Ids
  BY UnitRanges DEF UnitIInv, UnitInv, JobOK
<1>1. error' = TRUE /\ job' = Idle /\ UNCHANGED <<nextLabel, labelsSize, labelMap>>
  BY DEF Fail, labels
<1>2. job'.at = "idle" /\ Idle.insn \in Insns /\ Idle.blk = None
  BY <1>1, UnitAssumption DEF Idle, Insns, Ops, Labels
<1>3. Code = insns /\ Code' = insns /\ Open = curBlock /\ Open' = curBlock
  BY <1>0, <1>2 DEF Code, Open
<1>4. last' \in [Ids -> Nat \cup {None}] /\ \A b \in Ids : b # curBlock => last'[b] = last[b]
  BY <1>0 DEF UnitTypeOK
<1>5. UnitTypeOK'
  BY <1>0, <1>1, <1>2, <1>4, SameTable DEF UnitTypeOK, num
<1>6. \A b \in Ids : LastOf(b)' = LastOf(b)
  BY <1>0, <1>3, <1>4 DEF LastOf
<1>7. BlocksPartitionInsns' /\ LabelsResolve'
  BY <1>1, <1>3, <1>6, SameTable, RunsKept, UnitRanges
<1>8. JobOK'
  <2>1. \A d \in Dummies' : last'[d] = None
    BY <1>0, <1>4, SameTable, UnitRanges DEF JobOK
  <2>2. \A l \in Labels : labelMap'[l] \in Real' \cup {None}
    BY <1>0, <1>1, SameTable DEF JobOK
  <2>3. /\ curBlock' \in Real' /\ NoExits(curBlock)' /\ Open' = lastBlock'
        /\ \A k \in first'[Open']..(Len(Code') - 1) :
             Code'[k + 1].op \notin {"goto", "branch", "return"}
    BY <1>0, <1>3, SameTable DEF JobOK, NoExits
  <2> QED BY <1>0, <1>1, <1>2, <2>1, <2>2, <2>3 DEF JobOK
<1> QED BY <1>5, <1>7, <1>8, SameTable DEF UnitIInv, UnitInv

(* The open block ends, before a label or with a branch, and the next one begins. *)
LEMMA SplitAddedInv ==
  ASSUME UnitIInv, NEW n \in Nat \cup {None}, Making({"label", "branch"}), OperandsOK,
         job.insn.op = "label" => n = num - 1, job.insn.op = "branch" => n = num,
         NewBlock(n + 1), last' = [last EXCEPT ![curBlock] = n, ![numBlocks] = None],
         job' = [job EXCEPT !.at = "edge", !.blk = numBlocks],
         UNCHANGED <<insns, insnsSize, haveBlock, curBlock, labels, error, finalized, closed>>
  PROVE  UnitIInv'
<1> DEFINE d == numBlocks
           i == job.insn
<1>0. /\ IInv /\ UnitTypeOK /\ StreamIsTable /\ JobOK /\ BlocksPartitionInsns
      /\ BlockAdd /\ haveBlock /\ num < insnsSize /\ num \in Nat /\ job.at = "make"
      /\ curBlock \in Real /\ curBlock \in Ids /\ i \in Insns /\ i.op \in {"label", "branch"}
  BY UnitRanges DEF UnitIInv, UnitInv, NewBlock, Making, JobOK, UnitTypeOK
<1>1. IInv'
  BY <1>0, StepInv DEF Next, Build
<1>2. /\ Real' = Real \cup {d} /\ Dummies' = Dummies /\ d \in Ids /\ lastBlock' = d
      /\ \A b \in Real : prevBlock'[b] = prevBlock[b] /\ exits'[b] = exits[b]
      /\ \A k \in ExitSlots : exits'[d][k] = None
      /\ \A k \in EntrySlots : entries'[d][k] = None
      /\ StreamIsTable' /\ d \notin Real /\ d \notin Dummies /\ Dummies \subseteq Ids
      /\ Dummies \cap Real = {} /\ Real \subseteq Ids
  BY <1>0, AddedBlock, UnitRanges
<1>3. /\ job'.at = "edge" /\ job'.insn = i /\ job'.blk = d
  BY <1>0 DEF UnitTypeOK
<1>4. UNCHANGED <<nextLabel, labelsSize, labelMap>> /\ first' = [first EXCEPT ![d] = n + 1]
  BY DEF labels, NewBlock
<1>5. /\ first'[d] = n + 1 /\ last'[d] = None /\ last'[curBlock] = n
      /\ \A b \in Ids : b # d => first'[b] = first[b]
      /\ \A b \in Ids : b # d /\ b # curBlock => last'[b] = last[b]
      /\ first' \in [Ids -> Nat] /\ last' \in [Ids -> Nat \cup {None}]
  <2>1. n + 1 \in Nat
    BY DEF None
  <2>2. curBlock # d
    BY <1>0, <1>2
  <2> QED BY <1>0, <1>2, <1>4, <2>1, <2>2 DEF UnitTypeOK
<1>6. UnitTypeOK'
  <2>1. TypeOK' /\ d \in 0..MaxBlocks
    BY <1>0, <1>1, <1>2 DEF IInv, TypeOK, TableTypeOK
  <2> QED BY <1>0, <1>2, <1>3, <1>4, <1>5, <2>1 DEF UnitTypeOK, num
<1>7. /\ Code = insns /\ Len(Code) = num /\ Open = curBlock /\ Open' = d
      /\ Code' = IF i.op = "branch" THEN Append(insns, i) ELSE insns
      /\ Len(Code') = n + 1 /\ Len(Code') \in Nat /\ Len(Code) <= Len(Code')
      /\ \A k \in 1..Len(Code) : Code'[k] = Code[k]
  <2>1. Code = insns /\ Open = curBlock /\ Open' = d /\ Code' = IF i.op = "branch" THEN Append(insns, i) ELSE insns
    BY <1>0, <1>3 DEF Code, Open
  <2>2. insns \in Seq(Insns) /\ Len(insns) = num
    BY <1>0 DEF UnitTypeOK, num
  <2>3. CASE i.op = "branch"
    BY <1>0, <2>1, <2>2, <2>3
  <2>4. CASE i.op = "label"
    BY <1>0, <2>1, <2>2, <2>4
  <2> QED BY <1>0, <2>1, <2>2, <2>3, <2>4
<1>8. JobOK'
  <2>1. \A c \in Dummies' : last'[c] = None
    BY <1>0, <1>2, <1>5 DEF JobOK
  <2>2. \A l \in Labels : labelMap'[l] \in Real' \cup {None}
    BY <1>0, <1>2, <1>4 DEF JobOK
  <2>3. curBlock' \in Real' /\ NoExits(curBlock)' /\ Open' = lastBlock'
    BY <1>0, <1>2, <1>7 DEF JobOK, NoExits
  <2>4. \A k \in first'[Open']..(Len(Code') - 1) : Code'[k + 1].op \notin {"goto", "branch", "return"}
    <3>1. \A k \in Nat : k \notin (n + 1)..n
      BY DEF None
    <3> QED BY <1>5, <1>7 DEF None
  <2>5. /\ job'.insn.op \in {"label", "branch"} /\ job'.insn.label # 0 /\ job'.blk # curBlock'
        /\ job'.insn.op = "label" => labelMap'[job'.insn.label] < 0
        /\ first'[job'.blk] = Len(Code')
    BY <1>0, <1>2, <1>3, <1>4, <1>5, <1>7 DEF OperandsOK
  <2>6. NoExits(job.blk)' /\ NoEntries(job.blk)'
    BY <1>2, <1>3 DEF NoExits, NoEntries
  <2>7. num' < insnsSize'
    BY <1>0 DEF num
  <2> QED BY <1>0, <1>3, <2>1, <2>2, <2>3, <2>4, <2>5, <2>6, <2>7 DEF JobOK
<1>9. /\ \A b \in Real : b # curBlock => LastOf(b)' = LastOf(b)
      /\ \A b \in Real : b = curBlock => LastOf(b)' = n /\ LastOf(b) = num - 1
      /\ \A b \in Ids : b = d => LastOf(b)' = n
  <2>1. \A b \in Ids : b # d => LastOf(b)' = last'[b]
    BY <1>7 DEF LastOf
  <2>2. \A b \in Ids : b # curBlock => LastOf(b) = last[b]
    BY <1>7 DEF LastOf
  <2>3. n \in Int /\ (n + 1) - 1 = n
    BY DEF None
  <2>4. \A b \in Ids : b = d => LastOf(b)' = n
    BY <1>0, <1>7, <2>3 DEF LastOf
  <2>5. \A b \in Ids : b = curBlock => LastOf(b) = num - 1
    BY <1>0, <1>7 DEF LastOf
  <2> QED BY <1>2, <1>5, <2>1, <2>2, <2>4, <2>5
<1>10. \A b \in Real : b # 0 => prevBlock[b] \in Real /\ LastOf(prevBlock[b])' = LastOf(prevBlock[b])
  <2> SUFFICES ASSUME NEW b \in Real, b # 0
               PROVE  prevBlock[b] \in Real /\ LastOf(prevBlock[b])' = LastOf(prevBlock[b])
    OBVIOUS
  <2>1. prevBlock[b] \in Real /\ prevBlock[b] # curBlock /\ prevBlock'[b] = prevBlock[b]
    <3>1. curBlock = lastBlock /\ nextBlock[curBlock] = None
      BY <1>0, <1>7, UnitRanges DEF JobOK, StreamIsTable
    <3> QED BY <1>0, <1>2, <3>1, UnitRanges DEF StreamIsTable
  <2> QED BY <1>9, <2>1
<1>11. \A b \in Real : RunOK(b)' /\ \A l \in Labels : StartsWith(b, l)' <=> StartsWith(b, l)
  <2> SUFFICES ASSUME NEW b \in Real
               PROVE  RunOK(b)' /\ \A l \in Labels : StartsWith(b, l)' <=> StartsWith(b, l)
    OBVIOUS
  <2>1. b \in Real' /\ first'[b] = first[b] /\ prevBlock'[b] = prevBlock[b]
    BY <1>2, <1>5
  <2>2. CASE b = curBlock /\ i.op = "branch"
    <3>1. Code' = Append(Code, i) /\ LastOf(b)' = Len(Code)
      BY <1>7, <1>9, <2>2
    <3> QED BY <1>0, <1>7, <1>10, <2>1, <2>2, <3>1, RunEnded
  <2>3. CASE ~(b = curBlock /\ i.op = "branch")
    <3>1. LastOf(b)' = LastOf(b)
      BY <1>0, <1>9, <2>3
    <3> QED BY <1>7, <1>10, <2>1, <3>1, RunKept
  <2> QED BY <2>2, <2>3
<1>12. BlocksPartitionInsns' /\ LabelsResolve'
  <2> SUFFICES ASSUME NEW e, e = lastBlock, NEW m \in Ids, m = d PROVE BlocksPartitionInsns' /\ LabelsResolve'
    BY <1>2
  <2>1. n = Len(Code') - 1
    BY <1>7 DEF None
  <2>2. e = curBlock /\ e # None
    BY <1>0, <1>7, UnitRanges DEF JobOK
  <2>3. LastOf(e)' = Len(Code') - 1 /\ LastOf(m)' = Len(Code') - 1
    BY <1>0, <1>9, <2>1, <2>2
  <2> QED BY <1>0, <1>4, <1>5, <1>7, <1>11, <2>2, <2>3, RunsAdded
<1> QED BY <1>1, <1>2, <1>6, <1>8, <1>12 DEF UnitIInv, UnitInv

(* make_label() and make_goto_cond(), whether the new block is granted or not. *)
LEMMA SplitInv ==
  ASSUME UnitIInv, LabelSplits \/ BranchSplits
  PROVE  UnitIInv'
<1>0. num \in Nat /\ num - 1 \in Nat \cup {None}
  BY UnitRanges DEF None
<1>1. CASE LabelSplits
  <2>1. job.at = "make" /\ job.insn.op = "label" /\ OperandsOK /\ SplitBlock(num - 1)
        /\ Making({"label", "branch"})
    BY <1>1 DEF LabelSplits, Making
  <2> QED BY <1>0, <2>1, SplitAddedInv, SplitRefusedInv DEF SplitBlock
<1>2. CASE BranchSplits
  <2>1. job.at = "make" /\ job.insn.op = "branch" /\ OperandsOK /\ SplitBlock(num)
        /\ Making({"label", "branch"})
    BY <1>2 DEF BranchSplits, Making
  <2> QED BY <1>0, <2>1, SplitAddedInv, SplitRefusedInv DEF SplitBlock
<1> QED BY <1>1, <1>2

(* rtl_block_add_edge() on behalf of the unit is an action of the block table. *)
LEMMA EdgeIsTableStep ==
  ASSUME UnitIInv, NEW f \in Real, NEW t \in Real, NEW r \in BOOLEAN, DoAddEdge(f, t, r),
         UNCHANGED <<pc, call, seen>>
  PROVE  AddEdge(f, t) /\ {f, t} \subseteq Stream /\ IInv' /\ pc = "idle"
<1>1. f \in Stream /\ t \in Stream /\ pc = "idle"
  BY DEF UnitIInv, UnitInv, StreamIsTable, Stream, InStream
<1>2. AddEdge(f, t)
  BY <1>1 DEF AddEdge
<1>3. IInv'
  BY <1>1, <1>2, StepInv DEF UnitIInv, Next, Build
<1> QED BY <1>1, <1>2, <1>3

(* "This call will always succeed": the edge is there, and the routine finishes. *)
LEMMA FallThroughInv ==
  ASSUME UnitIInv, FallThroughEdge
  PROVE  UnitIInv'
<1> DEFINE i == job.insn
           d == job.blk
<1>0. /\ UnitTypeOK /\ StreamIsTable /\ JobOK /\ job.at = "edge" /\ haveBlock /\ i \in Insns
      /\ num < insnsSize /\ num \in Nat /\ curBlock \in Real /\ d \in Real /\ d # curBlock
      /\ NoExits(curBlock) /\ NoExits(d) /\ NoEntries(d) /\ Open = d /\ d = lastBlock
      /\ i.op \in {"label", "branch"} /\ Dummies \subseteq Ids /\ Real \subseteq Ids
  BY UnitRanges DEF UnitIInv, UnitInv, FallThroughEdge, JobOK, UnitTypeOK, Open, StreamIsTable
<1>1. PICK r \in BOOLEAN :
        /\ DoAddEdge(curBlock, d, r)
        /\ IF r THEN /\ curBlock' = d
                     /\ labelMap' = IF i.op = "label"
                                    THEN [labelMap EXCEPT ![i.label] = d] ELSE labelMap
                     /\ Append1
                     /\ job' = Idle
                ELSE /\ job' = [job EXCEPT !.at = "aborted"]
                     /\ UNCHANGED <<curBlock, labelMap, insns>>
  BY DEF FallThroughEdge
<1>2. UNCHANGED <<pc, call, seen, insnsSize, haveBlock, first, last, nextLabel, labelsSize,
                  error, finalized, closed>>
  BY DEF FallThroughEdge
<1>3. /\ IInv' /\ r /\ Real' = Real /\ lastBlock' = lastBlock /\ StreamIsTable'
      /\ \A b \in Real : prevBlock'[b] = prevBlock[b]
      /\ exits'[d] = exits[d]
  BY <1>0, <1>1, <1>2, EdgeIsTableStep, AddedEdge
<1>4. Dummies' = Dummies
  <2>1. 0 \in ExitSlots /\ 0 \in EntrySlots
    BY BlocksAssumption DEF ExitSlots, EntrySlots
  <2>2. ~HeadFull(d)
    BY <1>0, <2>1 DEF NoEntries, HeadFull, None
  <2>3. Allocated' = Allocated
    BY <1>1, <2>2 DEF DoAddEdge, EdgeInHead, EdgeInDummy, EdgeRefused, table, Allocated
  <2> QED BY <1>3, <2>3 DEF Dummies
<1>5. /\ curBlock' = d /\ insns' = Append(insns, i) /\ job' = Idle
      /\ labelMap' = IF i.op = "label" THEN [labelMap EXCEPT ![i.label] = d] ELSE labelMap
  BY <1>1, <1>3 DEF Append1
<1>6. job'.at = "idle" /\ Idle.insn \in Insns /\ Idle.blk = None
  BY <1>5, UnitAssumption DEF Idle, Insns, Ops, Labels
<1>7. /\ insns \in Seq(Insns) /\ insns' \in Seq(Insns) /\ num' = num + 1
      /\ Open' = d /\ Code' = insns' /\ i.label \in Labels
      /\ i.op = "branch" => Code' = Code
      /\ i.op = "label" => Code = insns /\ Code' = Append(Code, i)
  BY <1>0, <1>5, <1>6 DEF Code, Open, num, UnitTypeOK, Insns
<1>8. labelMap' \in [Labels -> Ids \cup {None}] /\ \A l \in Labels : labelMap'[l] \in Real \cup {None}
  BY <1>0, <1>5, <1>7 DEF UnitTypeOK, JobOK
<1>9. UnitTypeOK'
  <2>1. TypeOK' /\ d \in Ids
    BY <1>0, <1>3 DEF IInv
  <2>2. num' <= insnsSize'
    BY <1>0, <1>2, <1>7 DEF UnitTypeOK
  <2> QED BY <1>0, <1>2, <1>5, <1>6, <1>7, <1>8, <2>1, <2>2 DEF UnitTypeOK
<1>10. /\ BlocksPartitionInsns' /\ LabelsResolve'
       /\ \A n \in first[d]..(Len(Code') - 1) : Code'[n + 1].op \notin {"goto", "branch", "return"}
  <2>1. CASE i.op = "label"
    <3>1. first[d] = Len(Code) /\ labelMap[i.label] < 0
      BY <1>0, <1>7, <2>1 DEF JobOK
    <3> QED BY <1>0, <1>2, <1>3, <1>5, <1>7, <2>1, <3>1, Appended
  <2>2. CASE i.op = "branch"
    <3>1. \A b \in Real : LastOf(b)' = LastOf(b)
      BY <1>0, <1>2, <1>7, <2>2 DEF LastOf
    <3>2. labelMap' = labelMap
      BY <1>5, <2>2
    <3>3. BlocksPartitionInsns' /\ LabelsResolve'
      BY <1>2, <1>3, <1>7, <2>2, <3>1, <3>2, RunsKept
    <3> QED BY <1>0, <1>7, <2>2, <3>3 DEF JobOK
  <2> QED BY <1>0, <2>1, <2>2
<1>11. JobOK'
  <2>1. \A c \in Dummies' : last'[c] = None
    BY <1>0, <1>2, <1>4 DEF JobOK
  <2>2. curBlock' \in Real' /\ NoExits(curBlock)' /\ Open' = lastBlock'
    BY <1>0, <1>3, <1>5, <1>7 DEF NoExits
  <2>3. \A n \in first'[Open']..(Len(Code') - 1) : Code'[n + 1].op \notin {"goto", "branch", "return"}
    BY <1>2, <1>7, <1>10
  <2> QED BY <1>0, <1>2, <1>3, <1>6, <1>8, <2>1, <2>2, <2>3 DEF JobOK
<1> QED BY <1>3, <1>9, <1>10, <1>11 DEF UnitIInv, UnitInv

(* rtl_finalize_unit() ends the open block. *)
LEMMA FinalizeInv ==
  ASSUME UnitIInv, Finalize
  PROVE  UnitIInv'
<1>0. /\ UnitTypeOK /\ JobOK /\ UNCHANGED vars /\ job.at = "idle" /\ num \in Nat
      /\ Dummies \subseteq Ids /\ Real \subseteq Ids /\ Real \cap Dummies = {}
      /\ (haveBlock => curBlock \in Real) /\ curBlock \in Ids
  BY UnitRanges DEF UnitIInv, UnitInv, Finalize, JobOK, UnitTypeOK
<1>1. /\ closed' = TRUE /\ haveBlock' = FALSE
      /\ last' = IF haveBlock THEN [last EXCEPT ![curBlock] = num - 1] ELSE last
      /\ UNCHANGED <<insns, insnsSize, curBlock, first, nextLabel, labelsSize, labelMap, error, finalized>>
  BY DEF Finalize, labels
<1>2. job'.at = "edges" /\ job'.insn = Idle.insn /\ job'.blk = 0 /\ Idle.insn \in Insns
  BY UnitAssumption DEF Finalize, Idle, Insns, Ops, Labels
<1>3. Code = insns /\ Code' = insns /\ Open = curBlock /\ Len(Code) = num
  BY <1>0, <1>1, <1>2 DEF Code, Open, num
<1>4. /\ last' \in [Ids -> Nat \cup {None}]
      /\ \A b \in Ids : b # curBlock \/ ~haveBlock => last'[b] = last[b]
      /\ haveBlock => last'[curBlock] = num - 1
  <2>1. num - 1 \in Nat \cup {None}
    BY <1>0 DEF None
  <2> QED BY <1>0, <1>1, <2>1 DEF UnitTypeOK
<1>5. UnitTypeOK'
  <2>1. 0 \in 0..MaxBlocks /\ num' = num
    BY <1>1, BlocksAssumption DEF num
  <2> QED BY <1>0, <1>1, <1>2, <1>4, <2>1, SameTable DEF UnitTypeOK
<1>6. \A b \in Ids : LastOf(b)' = LastOf(b)
  BY <1>1, <1>3, <1>4 DEF LastOf
<1>7. BlocksPartitionInsns' /\ LabelsResolve'
  BY <1>0, <1>1, <1>3, <1>6, SameTable, RunsKept
<1>8. JobOK'
  <2>1. \A d \in Dummies' : last'[d] = None
    BY <1>0, <1>4, SameTable DEF JobOK
  <2>2. \A l \in Labels : labelMap'[l] \in Real' \cup {None}
    BY <1>0, <1>1, SameTable DEF JobOK
  <2> QED BY <1>1, <1>2, <2>1, <2>2 DEF JobOK, None
<1> QED BY <1>0, <1>5, <1>7, <1>8, SameTable DEF UnitIInv, UnitInv

(* rtl_finalize_unit() only adds edges between blocks of the code: a dummy block never ends
   in a jump, because it has no instructions. *)
LEMMA JumpBlocks ==
  ASSUME UnitIInv, AtBlock, EndsInJump(job.blk), Target(job.blk) >= 0
  PROVE  job.blk \in Real /\ Target(job.blk) \in Real /\ job.blk + 1 \in 0..MaxBlocks /\ ~haveBlock
<1>0. /\ UnitTypeOK /\ JobOK /\ TypeOK /\ BlocksPartitionInsns /\ Real \subseteq Ids /\ Dummies \subseteq Ids
      /\ numBlocks \in Nat /\ \A b \in Ids : first[b] \in Nat /\ last[b] \in Int
  BY UnitRanges DEF UnitIInv, UnitInv, IInv
<1>1. job.blk \in Nat /\ job.blk < numBlocks /\ ~haveBlock /\ job.blk \in Allocated
  BY <1>0, BlocksAssumption DEF AtBlock, JobOK, UnitTypeOK, None, Allocated
<1>2. job.blk \in Real
  <2>1. job.blk \in Real \/ job.blk \in Dummies
    BY <1>1 DEF Dummies
  <2>2. job.blk \notin Dummies
    <3> SUFFICES ASSUME job.blk \in Dummies PROVE FALSE
      OBVIOUS
    <3>1. last[job.blk] = None /\ first[job.blk] \in Nat
      BY <1>0 DEF JobOK
    <3> QED BY <3>1 DEF EndsInJump, None
  <2> QED BY <2>1, <2>2
<1>3. Target(job.blk) \in Real
  <2> DEFINE n == last[job.blk]
  <2>1. LastOf(job.blk) = n /\ n \in Int /\ first[job.blk] \in Nat /\ first[job.blk] <= n
    BY <1>0, <1>1, <1>2 DEF LastOf, EndsInJump
  <2>2. n < Len(Code) /\ Code = insns
    BY <1>0, <1>2, <2>1 DEF BlocksPartitionInsns, RunOK, Code, AtBlock
  <2>3. LastInsn(job.blk) \in Insns
    BY <1>0, <2>1, <2>2 DEF LastInsn, UnitTypeOK
  <2> QED BY <1>0, <2>3 DEF Target, JobOK, Insns, None
<1>4. job.blk + 1 \in 0..MaxBlocks
  BY <1>0, <1>1, BlocksAssumption DEF TypeOK, TableTypeOK
<1> QED BY <1>1, <1>2, <1>3, <1>4

(* The edge of a jump may add a dummy block, which has no instructions. *)
LEMMA JumpEdgeInv ==
  ASSUME UnitIInv, JumpEdge
  PROVE  UnitIInv'
<1> DEFINE f == job.blk
           t == Target(job.blk)
<1>0. /\ UnitTypeOK /\ JobOK /\ f \in Real /\ t \in Real /\ ~haveBlock /\ f + 1 \in 0..MaxBlocks
      /\ job.at = "edges" /\ numBlocks \in Nat /\ Real \subseteq Ids /\ Dummies \subseteq Ids
      /\ \A b \in Ids : b \in Nat
  BY JumpBlocks, UnitRanges DEF UnitIInv, UnitInv, JumpEdge, AtBlock
<1>1. PICK r \in BOOLEAN : DoAddEdge(f, t, r) /\ IF r THEN NextIndex ELSE job' = Idle
  BY DEF JumpEdge
<1>2. /\ UNCHANGED <<pc, call, seen, insns, insnsSize, haveBlock, curBlock, nextLabel, labelsSize,
                     labelMap, error, finalized, closed>>
      /\ first' = [b \in Ids |-> IF b >= numBlocks /\ b < numBlocks' THEN 0 ELSE first[b]]
      /\ last'  = [b \in Ids |-> IF b >= numBlocks /\ b < numBlocks' THEN None ELSE last[b]]
  BY DEF JumpEdge, labels
<1>3. /\ IInv' /\ Real' = Real /\ lastBlock' = lastBlock /\ StreamIsTable'
      /\ Allocated' = Allocated \/ Allocated' = Allocated \cup {numBlocks}
      /\ numBlocks' \in {numBlocks, numBlocks + 1}
      /\ \A b \in Real : prevBlock'[b] = prevBlock[b]
  BY <1>0, <1>1, <1>2, EdgeIsTableStep, AddedEdge
<1>4. \A b \in Real : b < numBlocks /\ first'[b] = first[b] /\ last'[b] = last[b]
  BY <1>0, <1>2 DEF Real, Allocated
<1>5. job'.at \in {"edges", "idle"} /\ job'.insn \in Insns /\ job'.blk \in 0..MaxBlocks \cup {None}
      /\ (job'.at = "edges" => job'.blk # None)
  <2>1. CASE r
    <3>1. job' = [job EXCEPT !.blk = f + 1] /\ job.insn \in Insns /\ f + 1 # None
      BY <1>0, <1>1, <2>1 DEF NextIndex, UnitTypeOK, None
    <3> QED BY <1>0, <3>1
  <2>2. CASE ~r
    BY <1>1, <2>2, UnitAssumption DEF Idle, Insns, Ops, Labels
  <2> QED BY <2>1, <2>2
<1>6. UnitTypeOK'
  <2>1. TypeOK' /\ first' \in [Ids -> Nat] /\ last' \in [Ids -> Nat \cup {None}] /\ num' = num
    BY <1>0, <1>2, <1>3 DEF IInv, UnitTypeOK, num
  <2> QED BY <1>0, <1>2, <1>5, <2>1 DEF UnitTypeOK
<1>7. Code' = Code /\ \A b \in Real : LastOf(b)' = LastOf(b)
  BY <1>0, <1>2, <1>4, <1>5 DEF Code, LastOf
<1>8. BlocksPartitionInsns' /\ LabelsResolve'
  BY <1>2, <1>3, <1>4, <1>7, RunsKept
<1>9. \A d \in Dummies' : last'[d] = None
  <2> SUFFICES ASSUME NEW d \in Dummies' PROVE last'[d] = None
    OBVIOUS
  <2>1. d \in Dummies \/ (d = numBlocks /\ d \in Allocated')
    BY <1>3 DEF Dummies
  <2>2. d \in Ids
    <3>1. numBlocks' \in 0..MaxBlocks /\ MaxBlocks \in Nat
      BY <1>3, BlocksAssumption DEF IInv, TypeOK, TableTypeOK
    <3>2. d \in 0..(numBlocks' - 1)
      BY DEF Dummies, Allocated
    <3>3. \A n \in 0..MaxBlocks : \A b \in 0..(n - 1) : b \in Ids
      BY BlocksAssumption DEF Ids
    <3> QED BY <3>1, <3>2, <3>3
  <2>3. CASE d \in Dummies
    BY <1>0, <1>2, <2>2, <2>3 DEF JobOK
  <2>4. CASE d = numBlocks /\ d \in Allocated'
    BY <1>0, <1>2, <1>3, <2>2, <2>4 DEF Allocated
  <2> QED BY <2>1, <2>3, <2>4
<1>10. JobOK'
  BY <1>0, <1>2, <1>3, <1>5, <1>9 DEF JobOK
<1> QED BY <1>3, <1>6, <1>8, <1>10 DEF UnitIInv, UnitInv

(* Every step of the unit keeps the invariant and is a step of the block table. *)
THEOREM UnitStep == UnitIInv /\ [UnitNext]_unitVars => UnitIInv' /\ [Next]_vars
<1> SUFFICES ASSUME UnitIInv, [UnitNext]_unitVars PROVE UnitIInv' /\ [Next]_vars
  OBVIOUS
<1>1. CASE \/ AllocLabel \/ ClearError \/ (\E i \in Insns : AddInsn(i)) \/ InsnRefused
           \/ OpenRefused \/ OperandsBad \/ NoJumpEdge \/ UndefinedLabel \/ AllEdgesAdded
  <2>1. UNCHANGED vars
    BY <1>1 DEF AllocLabel, ClearError, AddInsn, InsnRefused, OpenRefused, OperandsBad,
                NoJumpEdge, UndefinedLabel, AllEdgesAdded
  <2> QED BY <1>1, <2>1, QuietActions
<1>2. CASE OpenBlock
  BY <1>2, OpenBlockInv DEF OpenBlock, NewBlock, Next, Build
<1>3. CASE MakeOp \/ LabelHere
  BY <1>3, MakeInv DEF MakeOp, LabelHere
<1>4. CASE LabelSplits \/ BranchSplits
  <2>1. BlockAdd \/ UNCHANGED vars
    BY <1>4 DEF LabelSplits, BranchSplits, SplitBlock, NewBlock
  <2> QED BY <1>4, <2>1, SplitInv DEF Next, Build
<1>5. CASE FallThroughEdge
  <2>1. curBlock \in Real /\ job.blk \in Real
    BY <1>5, UnitRanges DEF UnitIInv, UnitInv, JobOK, FallThroughEdge, Open, StreamIsTable
  <2>2. PICK r \in BOOLEAN : DoAddEdge(curBlock, job.blk, r)
    BY <1>5 DEF FallThroughEdge
  <2>3. AddEdge(curBlock, job.blk) /\ {curBlock, job.blk} \subseteq Stream
    BY <1>5, <2>1, <2>2, EdgeIsTableStep DEF FallThroughEdge
  <2> QED BY <1>5, <2>3, FallThroughInv DEF Next, Build
<1>6. CASE MakeJump
  BY <1>6, MakeJumpInv DEF MakeJump
<1>7. CASE Finalize
  BY <1>7, FinalizeInv DEF Finalize
<1>8. CASE JumpEdge
  <2>1. job.blk \in Real /\ Target(job.blk) \in Real
    BY <1>8, JumpBlocks DEF JumpEdge
  <2>2. PICK r \in BOOLEAN : DoAddEdge(job.blk, Target(job.blk), r)
    BY <1>8 DEF JumpEdge
  <2>3. AddEdge(job.blk, Target(job.blk)) /\ {job.blk, Target(job.blk)} \subseteq Stream
    BY <1>8, <2>1, <2>2, EdgeIsTableStep DEF JumpEdge
  <2> QED BY <1>8, <2>3, JumpEdgeInv DEF Next, Build
<1>9. CASE UNCHANGED unitVars
  <2>1. UNCHANGED vars
    BY <1>9 DEF unitVars
  <2>2. /\ UNCHANGED <<insns, insnsSize, haveBlock, curBlock, first, last, nextLabel, labelsSize, labelMap>>
        /\ UNCHANGED <<error, finalized, closed, job>>
    BY <1>9 DEF unitVars, building, labels
  <2>3. Code' = Code /\ Open' = Open /\ num' = num /\ UNCHANGED <<entries, exits>>
    BY <2>1, <2>2 DEF Code, Open, num, vars, table
  <2>4. UnitTypeOK' /\ JobOK'
    BY <2>1, <2>2, <2>3, SameTable DEF UnitIInv, UnitInv, UnitTypeOK, JobOK, NoExits, NoEntries
  <2>5. \A b \in Real : LastOf(b)' = LastOf(b)
    BY <2>2, <2>3 DEF LastOf
  <2>6. BlocksPartitionInsns' /\ LabelsResolve'
    BY <2>1, <2>2, <2>3, <2>5, SameTable, RunsKept
  <2> QED BY <2>1, <2>4, <2>6, SameTable DEF UnitIInv, UnitInv
<1> QED BY <1>1, <1>2, <1>3, <1>4, <1>5, <1>6, <1>7, <1>8, <1>9 DEF UnitNext, Callers, Steps

(* Whatever is built and whatever memory is refused: the blocks partition the code, every
   label leads to its instruction, and the assertion that a fall-through edge can be
   added holds. *)
THEOREM UnitInvariance == UnitSpec => []UnitInv
<1>1. UnitInit => UnitIInv
  BY UnitInitInv
<1>2. UnitIInv /\ [UnitNext]_unitVars => UnitIInv'
  BY UnitStep
<1>3. UnitIInv => UnitInv
  BY DEF UnitIInv
<1> QED BY <1>1, <1>2, <1>3, PTL DEF UnitSpec

(* rtl_add_insn() and rtl_finalize_unit() call the block table only as its specification
   allows, so that what is proved of the table holds of a unit being built. *)
THEOREM TableIsUsedProperly == UnitSpec => UsesBlockTable
<1>1. UnitInit => UnitIInv /\ Init
  BY UnitInitInv DEF UnitInit
<1>2. UnitIInv /\ [UnitNext]_unitVars => UnitIInv' /\ [Next]_vars
  BY UnitStep
<1> QED BY <1>1, <1>2, PTL DEF UnitSpec, UsesBlockTable, Spec

(* In particular, exits and entries agree at every step of the building of a unit. *)
THEOREM UnitEdgesAgree == UnitSpec => []EdgesAgree
BY TableIsUsedProperly, EdgesStayInAgreement, PTL DEF UsesBlockTable

(******************* The graph of the code, step by step *******************)

GraphInv == UnitIInv /\ GraphSoFar

(* Nothing is added to a block that is not the open one. *)
Done(b) == b \in Real /\ (b # lastBlock \/ ~haveBlock) /\ ~Splitting(b)

(* Its instructions are all in the code. *)
LEMMA DoneBlock ==
  ASSUME GraphInv, NEW b, Done(b)
  PROVE  /\ first[b] \in Nat /\ last[b] \in Int /\ last[b] < num /\ num \in Nat
         /\ first[b] <= last[b] => last[b] + 1 \in 1..num /\ LastInsn(b) \in Insns
         /\ b # lastBlock => first[b] <= last[b]
<1>0. /\ UnitTypeOK /\ JobOK /\ BlocksPartitionInsns /\ BuildOrder /\ b \in Real /\ Real \subseteq Ids
      /\ first[b] \in Nat /\ last[b] \in Int /\ num \in Nat /\ num = Len(insns)
  BY UnitRanges DEF GraphInv, UnitIInv, UnitInv, GraphSoFar, Done, num
<1>1. b # lastBlock => first[b] <= last[b] /\ last[b] < num
  BY <1>0 DEF BuildOrder, Done
<1>2. ASSUME ~haveBlock PROVE last[b] < num
  <2>1. LastOf(b) = last[b] /\ Code = insns
    BY <1>0, <1>2 DEF LastOf, Code, JobOK
  <2> QED BY <1>0, <2>1 DEF BlocksPartitionInsns, RunOK
<1>3. last[b] < num
  BY <1>1, <1>2 DEF Done
<1>4. first[b] <= last[b] => last[b] + 1 \in 1..num
  BY <1>0, <1>3
<1>5. first[b] <= last[b] => LastInsn(b) \in Insns
  BY <1>0, <1>4 DEF LastInsn, UnitTypeOK
<1> QED BY <1>0, <1>1, <1>3, <1>4, <1>5

(* It keeps its successors. *)
LEMMA SuccessorsKept ==
  ASSUME GraphInv, NEW b, Done(b), first'[b] = first[b], last'[b] = last[b],
         num' \in Nat, \A n \in 1..num : insns'[n] = insns[n],
         \A l \in Labels : labelMap[l] \in Real => labelMap'[l] = labelMap[l],
         Real \subseteq Real'
  PROVE  /\ \A t \in Real : JumpsTo(b, t) => JumpsTo(b, t)'
         /\ (labelMap' = labelMap => \A t : JumpsTo(b, t)' <=> JumpsTo(b, t))
         /\ (b # lastBlock /\ b # lastBlock' => (FallsThrough(b)' <=> FallsThrough(b)))
         /\ ((b # lastBlock => b # lastBlock' /\ nextBlock'[b] = nextBlock[b])
              => \A t \in Successors(b) : t \in Successors(b)')
<1>1. first[b] <= last[b] => LastInsn(b)' = LastInsn(b) /\ LastInsn(b).label \in Labels
  BY DoneBlock DEF LastInsn, Insns
<1>2. b # lastBlock /\ b # lastBlock' => (FallsThrough(b)' <=> FallsThrough(b))
  BY <1>1 DEF FallsThrough
<1>3. \A t \in Real : JumpsTo(b, t) => JumpsTo(b, t)'
  BY <1>1 DEF JumpsTo
<1>4. labelMap' = labelMap => \A t : JumpsTo(b, t)' <=> JumpsTo(b, t)
  BY <1>1 DEF JumpsTo
<1>5. ASSUME b # lastBlock => b # lastBlock' /\ nextBlock'[b] = nextBlock[b], NEW t \in Successors(b)
      PROVE  t \in Successors(b)'
  <2>1. t \in Real /\ t \in Real'
    BY DEF Successors
  <2>2. CASE JumpsTo(b, t)
    BY <1>3, <2>1, <2>2 DEF Successors
  <2>3. CASE FallsThrough(b) /\ t = nextBlock[b]
    <3>1. b # lastBlock
      BY <2>3 DEF FallsThrough
    <3> QED BY <1>2, <1>5, <2>1, <2>3, <3>1 DEF Successors
  <2> QED BY <2>2, <2>3 DEF Successors
<1> QED BY <1>2, <1>3, <1>4, <1>5

(* Steps that do not call the block table: only the open block can change. *)
LEMMA GraphSameTable ==
  ASSUME GraphInv, UnitIInv', UNCHANGED vars, first' = first, job.at # "edge", job'.at # "edge",
         \A b \in Real : b # lastBlock \/ ~haveBlock => last'[b] = last[b],
         num <= num', num' \in Nat, \A n \in 1..num : insns'[n] = insns[n],
         \A l \in Labels : labelMap[l] \in Real => labelMap'[l] = labelMap[l],
         BuildOrder', JumpsAdded'
  PROVE  GraphSoFar'
<1>0. /\ UnitIInv /\ JobOK /\ BuildOrder /\ ExitsInCode /\ FallThroughsAdded
      /\ Real' = Real /\ lastBlock' = lastBlock /\ nextBlock' = nextBlock /\ exits' = exits
      /\ entries' = entries
  BY DEF GraphInv, UnitIInv, UnitInv, GraphSoFar, vars, table, Real, Allocated
<1>1. \A b \in Real : ~Splitting(b) /\ ~Splitting(b)'
  BY DEF Splitting
<1>2. ASSUME NEW b \in Real, Done(b)
      PROVE  /\ (b # lastBlock => (FallsThrough(b)' <=> FallsThrough(b)))
             /\ \A t \in Successors(b) : t \in Successors(b)'
  BY <1>0, <1>2, SuccessorsKept DEF Done
<1>3. ExitsInCode'
  <2> SUFFICES ASSUME NEW b \in Real, NEW i \in ExitSlots, exits[b][i] # None
               PROVE  exits[b][i] \in Successors(b)'
    BY <1>0 DEF ExitsInCode
  <2>1. Done(b)
    BY <1>0, <1>1 DEF Done, JobOK, NoExits, Open
  <2> QED BY <1>0, <1>2, <2>1 DEF ExitsInCode
<1>4. FallThroughsAdded'
  <2> SUFFICES ASSUME NEW b \in Real, FallsThrough(b)'
               PROVE  exits[b][0] = nextBlock[b] /\ entries[nextBlock[b]][0] = b
    BY <1>0 DEF FallThroughsAdded
  <2>1. b # lastBlock
    BY <1>0 DEF FallsThrough
  <2>2. Done(b) /\ FallsThrough(b)
    BY <1>1, <1>2, <2>1 DEF Done
  <2> QED BY <1>0, <1>1, <2>2 DEF FallThroughsAdded
<1> QED BY <1>3, <1>4 DEF GraphSoFar

(* Steps that change none of what the graph is compared with. *)
LEMMA GraphQuiet ==
  ASSUME GraphInv, UnitIInv',
         UNCHANGED <<vars, insns, haveBlock, curBlock, first, last, labelMap, closed>>,
         job.at # "edge", job'.at # "edge",
         job'.at \in {"open", "make"} => ~closed,
         job'.at = "edges" \/ finalized' => closed,
         \A b \in Real : Walked(b)' => Walked(b) \/ \A t \in Real : ~JumpsTo(b, t)
  PROVE  GraphSoFar'
<1>0. /\ BuildOrder /\ JumpsAdded /\ Real' = Real /\ exits' = exits /\ lastBlock' = lastBlock
      /\ num \in Nat /\ num' = num
  BY UnitRanges DEF GraphInv, GraphSoFar, vars, table, Real, Allocated, num
<1>1. BuildOrder'
  BY <1>0 DEF BuildOrder, LastInsn, Splitting
<1>2. JumpsAdded'
  BY <1>0 DEF JumpsAdded, JumpsTo, LastInsn
<1> QED BY <1>0, <1>1, <1>2, GraphSameTable

(* The routines that do so. *)
LEMMA GraphQuietActions ==
  ASSUME GraphInv, UnitIInv',
         \/ AllocLabel \/ ClearError \/ (\E i \in Insns : AddInsn(i)) \/ InsnRefused
         \/ OpenRefused \/ OperandsBad \/ NoJumpEdge \/ UndefinedLabel \/ AllEdgesAdded
  PROVE  GraphSoFar'
<1>0. /\ UnitTypeOK /\ JobOK /\ BuildOrder
      /\ \A b \in Real : b \in Nat /\ b < numBlocks
  BY UnitRanges DEF GraphInv, UnitIInv, UnitInv, GraphSoFar, Real, Allocated
<1>1. CASE AllocLabel \/ ClearError \/ InsnRefused
  <2>1. UNCHANGED <<vars, insns, haveBlock, curBlock, first, last, labelMap, closed, job, finalized>>
        /\ job.at = "idle"
    BY <1>1 DEF AllocLabel, ClearError, InsnRefused, CanBuild, building, labels
  <2> QED BY <1>0, <2>1, GraphQuiet DEF BuildOrder, Walked
<1>2. ASSUME NEW i \in Insns, AddInsn(i) PROVE GraphSoFar'
  <2>1. /\ UNCHANGED <<vars, insns, haveBlock, curBlock, first, last, labelMap, closed, finalized>>
        /\ job.at = "idle" /\ ~closed /\ job'.at \in {"open", "make"}
    BY <1>2 DEF AddInsn, CanBuild, labels
  <2> QED BY <1>0, <2>1, GraphQuiet DEF BuildOrder, Walked
<1>3. CASE OpenRefused \/ OperandsBad \/ UndefinedLabel
  <2>1. /\ UNCHANGED <<vars, insns, haveBlock, curBlock, first, last, labelMap, closed, finalized>>
        /\ job.at \in {"open", "make", "edges"} /\ job'.at = "idle"
    BY <1>3 DEF OpenRefused, OperandsBad, UndefinedLabel, Fail, Idle, Making, AtBlock, building, labels
  <2> QED BY <1>0, <2>1, GraphQuiet DEF BuildOrder, Walked
<1>4. CASE NoJumpEdge
  <2>1. /\ UNCHANGED <<vars, insns, haveBlock, curBlock, first, last, labelMap, closed, finalized>>
        /\ job.at = "edges" /\ ~EndsInJump(job.blk) /\ job' = [job EXCEPT !.blk = job.blk + 1]
        /\ job.blk \in Nat
    BY <1>0, <1>4 DEF NoJumpEdge, NextIndex, AtBlock, UnitTypeOK, JobOK, building, labels
  <2>2. job'.at = "edges" /\ job'.blk = job.blk + 1
    BY <1>0, <2>1 DEF UnitTypeOK
  <2>3. ASSUME NEW b \in Real, Walked(b)' PROVE Walked(b) \/ \A t \in Real : ~JumpsTo(b, t)
    <3>1. CASE b = job.blk
      BY <2>1, <3>1 DEF EndsInJump, JumpsTo
    <3>2. CASE b # job.blk
      BY <1>0, <2>1, <2>2, <2>3, <3>2 DEF Walked
    <3> QED BY <3>1, <3>2
  <2> QED BY <1>0, <2>1, <2>2, <2>3, GraphQuiet DEF BuildOrder
<1>5. CASE AllEdgesAdded
  <2>1. /\ UNCHANGED <<vars, insns, haveBlock, curBlock, first, last, labelMap, closed>>
        /\ job.at = "edges" /\ job.blk >= numBlocks /\ job'.at = "idle" /\ job.blk \in Nat
    BY <1>0, <1>5 DEF AllEdgesAdded, Idle, UnitTypeOK, JobOK, building, labels
  <2>2. \A b \in Real : Walked(b)
    BY <1>0, <2>1, UnitRanges DEF Walked, GraphInv
  <2> QED BY <1>0, <2>1, <2>2, GraphQuiet DEF BuildOrder
<1> QED BY <1>1, <1>2, <1>3, <1>4, <1>5

(* An instruction goes to the open block, or the open block ends. *)
LEMMA GraphMake ==
  ASSUME GraphInv, UnitIInv', MakeOp \/ LabelHere \/ MakeJump
  PROVE  GraphSoFar'
<1> DEFINE i == job.insn
<1>0. /\ UnitTypeOK /\ JobOK /\ BuildOrder /\ JumpsAdded /\ UNCHANGED vars /\ job.at = "make" /\ haveBlock
      /\ curBlock = lastBlock /\ lastBlock \in Real /\ i \in Insns
      /\ num \in Nat /\ \A b \in Ids : last[b] \in Int /\ first[b] \in Nat
      /\ Real \subseteq Ids /\ BlocksPartitionInsns
  BY UnitRanges DEF GraphInv, UnitIInv, UnitInv, GraphSoFar, MakeOp, LabelHere, MakeJump, Making, JobOK, Open, UnitTypeOK
<1>1. /\ insns' = Append(insns, i) /\ job' = Idle /\ UNCHANGED <<first, curBlock, finalized, closed>>
      /\ last' = IF MakeJump THEN [last EXCEPT ![curBlock] = num] ELSE last
      /\ haveBlock' = ~MakeJump /\ (MakeJump => i.op \in {"goto", "return"})
  BY <1>0 DEF MakeOp, LabelHere, MakeJump, Making, Append1
<1>2. job'.at = "idle"
  BY <1>1 DEF Idle
<1>3. num' = num + 1 /\ insns'[num + 1] = i /\ \A n \in 1..num : insns'[n] = insns[n]
  BY <1>0, <1>1 DEF num, UnitTypeOK
<1>4. \A b \in Real : b # lastBlock => last'[b] = last[b]
  BY <1>0, <1>1 DEF UnitTypeOK
<1>5. \A l \in Labels : labelMap[l] \in Real => labelMap'[l] = labelMap[l]
  <2>1. CASE MakeOp \/ MakeJump
    BY <2>1 DEF MakeOp, MakeJump, labels
  <2>2. CASE LabelHere
    <3>1. labelMap[i.label] < 0 /\ labelMap' = [labelMap EXCEPT ![i.label] = curBlock]
      BY <2>2 DEF LabelHere, Making, OperandsOK
    <3> QED BY <1>0, <3>1, UnitRanges DEF UnitTypeOK, GraphInv
  <2> QED BY <2>1, <2>2, <1>0 DEF MakeOp, LabelHere, MakeJump
<1>6. Real' = Real /\ lastBlock' = lastBlock /\ exits' = exits /\ nextBlock' = nextBlock
  BY <1>0 DEF vars, table, Real, Allocated
<1>7. BuildOrder'
  <2>1. ~closed /\ ~finalized
    BY <1>0 DEF BuildOrder
  <2>2. ASSUME MakeJump
        PROVE  first'[lastBlock] <= last'[lastBlock] /\ LastInsn(lastBlock)'.op \in {"goto", "return"}
    <3>1. last'[lastBlock] = num
      BY <1>0, <1>1, <2>2 DEF UnitTypeOK
    <3>2. first[lastBlock] <= num
      <4>1. LastOf(lastBlock) = num - 1 /\ RunOK(lastBlock)
        BY <1>0 DEF LastOf, Open, Code, num, BlocksPartitionInsns
      <4> QED BY <1>0, <4>1 DEF RunOK
    <3> QED BY <1>1, <1>3, <1>6, <2>2, <3>1, <3>2 DEF LastInsn
  <2>3. \A b \in Real : b # lastBlock => first'[b] <= last'[b] /\ last'[b] < num'
    BY <1>0, <1>1, <1>3, <1>4 DEF BuildOrder, Splitting
  <2> QED BY <1>1, <1>2, <1>6, <2>1, <2>2, <2>3 DEF BuildOrder
<1>8. JumpsAdded'
  <2>1. ~closed /\ ~finalized
    BY <1>0 DEF BuildOrder
  <2> QED BY <1>1, <1>2, <2>1 DEF JumpsAdded, Walked
<1>9. /\ num <= num' /\ num' \in Nat /\ first' = first /\ job.at # "edge" /\ job'.at # "edge"
      /\ \A b \in Real : b # lastBlock \/ ~haveBlock => last'[b] = last[b]
  BY <1>0, <1>1, <1>2, <1>3, <1>4
<1> QED BY <1>0, <1>3, <1>5, <1>7, <1>8, <1>9, GraphSameTable

(* The block that rtl_finalize_unit() ends is the last: nothing follows it. *)
LEMMA GraphFinalize ==
  ASSUME GraphInv, UnitIInv', Finalize
  PROVE  GraphSoFar'
<1>0. /\ UnitTypeOK /\ JobOK /\ BuildOrder /\ JumpsAdded /\ UNCHANGED vars /\ job.at = "idle"
      /\ num \in Nat /\ Real \subseteq Ids /\ ~finalized
      /\ \A b \in Real : b \in Nat
  BY UnitRanges DEF GraphInv, UnitIInv, UnitInv, GraphSoFar, Finalize
<1>1. /\ UNCHANGED <<insns, first, curBlock, finalized, labelMap>> /\ closed' = TRUE /\ haveBlock' = FALSE
      /\ last' = IF haveBlock THEN [last EXCEPT ![curBlock] = num - 1] ELSE last
      /\ job'.at = "edges" /\ job'.blk = 0 /\ num' = num
  BY DEF Finalize, Idle, labels, num
<1>2. \A b \in Real : b # lastBlock \/ ~haveBlock => last'[b] = last[b]
  BY <1>0, <1>1 DEF UnitTypeOK, JobOK, Open
<1>3. Real' = Real /\ lastBlock' = lastBlock /\ exits' = exits /\ nextBlock' = nextBlock
  BY <1>0 DEF vars, table, Real, Allocated
<1>4. BuildOrder'
  <2>1. \A b \in Real : b # lastBlock => first'[b] <= last'[b] /\ last'[b] < num'
    BY <1>0, <1>1, <1>2 DEF BuildOrder, Splitting
  <2> QED BY <1>1, <1>3, <2>1 DEF BuildOrder
<1>5. JumpsAdded'
  BY <1>0, <1>1, <1>3 DEF JumpsAdded, Walked
<1>6. job.at # "edge" /\ job'.at # "edge" /\ num <= num' /\ num' \in Nat /\ first' = first
  BY <1>0, <1>1
<1> QED BY <1>0, <1>1, <1>2, <1>4, <1>5, <1>6, GraphSameTable

(* The block ended by a split that failed is the last as well. *)
LEMMA GraphSplitRefused ==
  ASSUME GraphInv, UnitIInv', NEW n, job.at = "make",
         UNCHANGED <<vars, first, insns, haveBlock, curBlock, labelMap, finalized, closed>>,
         job' = Idle, last' = [last EXCEPT ![curBlock] = n]
  PROVE  GraphSoFar'
<1>0. /\ UnitTypeOK /\ JobOK /\ BuildOrder /\ JumpsAdded /\ haveBlock /\ curBlock = lastBlock
      /\ num \in Nat /\ num' = num /\ Real \subseteq Ids /\ job'.at = "idle"
  BY UnitRanges DEF GraphInv, UnitIInv, UnitInv, GraphSoFar, JobOK, Open, Idle, num
<1>1. \A b \in Real : b # lastBlock => last'[b] = last[b]
  BY <1>0 DEF UnitTypeOK
<1>2. Real' = Real /\ lastBlock' = lastBlock
  BY DEF vars, table, Real, Allocated
<1>3. BuildOrder'
  <2>1. \A b \in Real : b # lastBlock => first'[b] <= last'[b] /\ last'[b] < num'
    BY <1>0, <1>1 DEF BuildOrder, Splitting
  <2> QED BY <1>0, <1>2, <2>1 DEF BuildOrder
<1>4. JumpsAdded'
  <2>1. ~finalized' /\ job'.at # "edges"
    BY <1>0 DEF BuildOrder
  <2> QED BY <2>1 DEF JumpsAdded, Walked
<1>5. job.at # "edge" /\ job'.at # "edge" /\ num <= num' /\ num' \in Nat
  BY <1>0
<1> QED BY <1>0, <1>1, <1>3, <1>4, <1>5, GraphSameTable

(* A new block: the blocks before it keep their successors, and the last of them does not
   fall through unless it has just been split. *)
LEMMA GraphNewBlock ==
  ASSUME GraphInv, UnitIInv', BlockAdd, job.at # "edge", NEW n \in Ids, n = numBlocks,
         NEW e, e = lastBlock,
         UNCHANGED <<insns, labelMap>>, \A b \in Real : first'[b] = first[b],
         \A b \in Real : b # lastBlock \/ ~haveBlock => last'[b] = last[b],
         BuildOrder', ~finalized', job'.at # "edges",
         e # None => Splitting(e)' \/ ~FallsThrough(e)'
  PROVE  GraphSoFar'
<1>0. /\ UnitIInv /\ JobOK /\ BuildOrder /\ ExitsInCode /\ FallThroughsAdded /\ JumpsAdded /\ StreamIsTable
      /\ num \in Nat /\ num' = num /\ IInv
  BY UnitRanges DEF GraphInv, UnitIInv, UnitInv, IInv, GraphSoFar, num
<1>1. /\ Real' = Real \cup {n} /\ lastBlock' = n /\ n \notin Real
      /\ \A b \in Real : exits'[b] = exits[b] /\ entries'[b] = entries[b]
      /\ \A i \in ExitSlots : exits'[n][i] = None
  BY <1>0, AddedBlock, UnitRanges
<1>2. \A b \in Real : b # lastBlock => nextBlock'[b] = nextBlock[b]
  BY <1>0, <1>1, UnitRanges DEF BlockAdd, LinkLast, IInv, TypeOK, TableTypeOK
<1>3. \A b \in Real : ~Splitting(b)
  BY DEF Splitting
<1>4. ASSUME NEW b \in Real, Done(b)
      PROVE  /\ \A t \in Successors(b) : t \in Successors(b)'
             /\ b # lastBlock => (FallsThrough(b)' <=> FallsThrough(b))
  <2>1. first'[b] = first[b] /\ last'[b] = last[b] /\ b # lastBlock' /\ Real \subseteq Real'
    BY <1>1, <1>4 DEF Done
  <2> QED BY <1>0, <1>2, <1>4, <2>1, SuccessorsKept
<1>5. ExitsInCode'
  <2> SUFFICES ASSUME NEW b \in Real', NEW i \in ExitSlots, exits'[b][i] # None
               PROVE  exits'[b][i] \in Successors(b)'
    BY DEF ExitsInCode
  <2>1. b \in Real /\ exits'[b][i] = exits[b][i]
    BY <1>1
  <2>2. Done(b)
    BY <1>0, <1>3, <2>1 DEF Done, JobOK, NoExits, Open
  <2> QED BY <1>0, <1>4, <2>1, <2>2 DEF ExitsInCode
<1>6. FallThroughsAdded'
  <2> SUFFICES ASSUME NEW b \in Real', ~Splitting(b)', FallsThrough(b)'
               PROVE  exits'[b][0] = nextBlock'[b] /\ entries'[nextBlock'[b]][0] = b
    BY DEF FallThroughsAdded
  <2>1. b \in Real
    BY <1>1 DEF FallsThrough
  <2>2. b # lastBlock
    BY <1>0, <2>1, UnitRanges
  <2>3. Done(b)
    BY <1>3, <2>1, <2>2 DEF Done
  <2>4. exits[b][0] = nextBlock[b] /\ entries[nextBlock[b]][0] = b
    BY <1>0, <1>3, <1>4, <2>1, <2>2, <2>3 DEF FallThroughsAdded
  <2>5. nextBlock[b] \in Real
    BY <1>0, <2>1, <2>2 DEF StreamIsTable
  <2> QED BY <1>1, <1>2, <2>1, <2>2, <2>4, <2>5
<1>7. JumpsAdded'
  BY DEF JumpsAdded, Walked
<1> QED BY <1>5, <1>6, <1>7 DEF GraphSoFar

(* The block before a new one ended in a jump that does not fall through. *)
LEMMA GraphOpen ==
  ASSUME GraphInv, UnitIInv', OpenBlock
  PROVE  GraphSoFar'
<1> SUFFICES ASSUME NEW n, n = numBlocks, NEW e, e = lastBlock PROVE GraphSoFar'
  OBVIOUS
<1>0. /\ UnitIInv /\ UnitTypeOK /\ JobOK /\ BuildOrder /\ StreamIsTable /\ BlockAdd /\ ~haveBlock /\ ~closed /\ ~finalized
      /\ job.at = "open" /\ e \in Real \cup {None} /\ Real \subseteq Ids
  BY UnitRanges DEF GraphInv, UnitIInv, UnitInv, GraphSoFar, OpenBlock, NewBlock, JobOK, BuildOrder
<1>1. n \in Ids /\ n \notin Real /\ Real' = Real \cup {n} /\ lastBlock' = n
  BY <1>0, AddedBlock, UnitRanges
<1>2. /\ UNCHANGED <<insns, labelMap, finalized, closed>> /\ haveBlock' = TRUE
      /\ first' = [first EXCEPT ![n] = num] /\ last' = [last EXCEPT ![n] = None]
      /\ job'.at = "make" /\ num' = num
  BY <1>0 DEF OpenBlock, NewBlock, labels, num, UnitTypeOK
<1>3. \A b \in Real : first'[b] = first[b] /\ last'[b] = last[b]
  BY <1>0, <1>1, <1>2 DEF UnitTypeOK
<1>4. e # None => first[e] <= last[e] /\ LastInsn(e).op \in {"goto", "return"} /\ last[e] < num
  <2>1. e # None => Done(e)
    BY <1>0 DEF Done, Splitting
  <2> QED BY <1>0, <2>1, DoneBlock DEF BuildOrder
<1>5. BuildOrder'
  <2>1. ASSUME NEW b \in Real PROVE first'[b] <= last'[b] /\ last'[b] < num'
    <3>1. CASE b = e
      BY <1>0, <1>2, <1>3, <1>4, <3>1 DEF None, Ids
    <3>2. CASE b # e
      BY <1>0, <1>2, <1>3, <3>2 DEF BuildOrder, Splitting
    <3> QED BY <3>1, <3>2
  <2> QED BY <1>0, <1>1, <1>2, <2>1 DEF BuildOrder
<1>6. e # None => ~FallsThrough(e)'
  BY <1>0, <1>2, <1>3, <1>4 DEF FallsThrough, LastInsn
<1>7. job.at # "edge" /\ ~finalized' /\ job'.at # "edges"
  BY <1>0, <1>2
<1> QED BY <1>0, <1>1, <1>2, <1>3, <1>5, <1>6, <1>7, GraphNewBlock

(* A split block falls through to the new one, but for the edge still to come. *)
LEMMA GraphSplitAdded ==
  ASSUME GraphInv, UnitIInv', NEW k \in Nat \cup {None}, Making({"label", "branch"}), OperandsOK,
         job.insn.op = "label" => k = num - 1 /\ first[curBlock] # num,
         job.insn.op = "branch" => k = num,
         NewBlock(k + 1), last' = [last EXCEPT ![curBlock] = k, ![numBlocks] = None],
         job' = [job EXCEPT !.at = "edge", !.blk = numBlocks],
         UNCHANGED <<insns, insnsSize, haveBlock, curBlock, labels, error, finalized, closed>>
  PROVE  GraphSoFar'
<1> SUFFICES ASSUME NEW n, n = numBlocks, NEW e, e = lastBlock PROVE GraphSoFar'
  OBVIOUS
<1> DEFINE i == job.insn
<1>0. /\ UnitIInv /\ UnitTypeOK /\ JobOK /\ BuildOrder /\ StreamIsTable /\ BlocksPartitionInsns /\ IInv
      /\ BlockAdd /\ haveBlock /\ ~closed /\ ~finalized
      /\ job.at = "make" /\ e \in Real /\ Real \subseteq Ids /\ curBlock = e /\ Open = e
      /\ i \in Insns /\ i.op \in {"label", "branch"} /\ num \in Nat
  BY UnitRanges DEF GraphInv, UnitIInv, UnitInv, GraphSoFar, Making, NewBlock, JobOK, BuildOrder, Open, UnitTypeOK
<1>1. n \in Ids /\ n \notin Real /\ Real' = Real \cup {n} /\ lastBlock' = n
  BY <1>0, AddedBlock, UnitRanges
<1>2. /\ UNCHANGED <<insns, labelMap, finalized, closed>> /\ num' = num /\ curBlock' = e
      /\ first' = [first EXCEPT ![n] = k + 1]
      /\ job'.at = "edge" /\ job'.blk = n /\ job'.insn = i
  BY <1>0 DEF NewBlock, labels, num, UnitTypeOK
<1>3. /\ \A b \in Real : first'[b] = first[b]
      /\ \A b \in Real : b # e => last'[b] = last[b]
      /\ last'[e] = k
  BY <1>0, <1>1, <1>2 DEF UnitTypeOK
<1>4. Code = insns /\ Code' = (IF i.op = "branch" THEN Append(insns, i) ELSE insns) /\ Len(insns) = num
      /\ insns \in Seq(Insns)
  BY <1>0, <1>2 DEF Code, num, UnitTypeOK
<1>5. first[e] \in Nat /\ first[e] <= num /\ RunOK(e)
  <2>1. RunOK(e) /\ LastOf(e) = num - 1 /\ first[e] \in Nat
    BY <1>0, <1>4, UnitRanges DEF LastOf, BlocksPartitionInsns
  <2> QED BY <1>0, <2>1 DEF RunOK
<1>6. first[e] <= k /\ Code'[k + 1].op \notin {"goto", "return"}
  <2>1. CASE i.op = "branch"
    BY <1>0, <1>4, <1>5, <2>1
  <2>2. CASE i.op = "label"
    <3>1. k = num - 1 /\ first[e] # num
      BY <1>0, <2>2
    <3>2. k \in first[Open]..(Len(Code) - 1)
      BY <1>0, <1>4, <1>5, <3>1
    <3>3. Code[k + 1].op \notin {"goto", "branch", "return"}
      BY <1>0, <3>2 DEF JobOK
    <3> QED BY <1>0, <1>4, <1>5, <2>2, <3>1, <3>3
  <2> QED BY <1>0, <2>1, <2>2
<1>7. nextBlock'[e] = n
  BY <1>0, <1>1, UnitRanges DEF BlockAdd, LinkLast, IInv, TypeOK, TableTypeOK, Ids
<1>8. Splitting(e)' /\ \A b \in Real' : Splitting(b)' <=> b = e
  BY <1>2 DEF Splitting
<1>9. BuildOrder'
  <2>1. \A b \in Real' : b # n => first'[b] <= last'[b] /\ (last'[b] < num' \/ Splitting(b)')
    BY <1>0, <1>1, <1>2, <1>3, <1>6, <1>8 DEF BuildOrder, Splitting
  <2>2. job'.at = "edge" /\ ~closed' /\ ~finalized' /\ haveBlock'
    BY <1>0, <1>2
  <2>3. nextBlock'[curBlock'] = job'.blk /\ Code'[last'[curBlock'] + 1].op \notin {"goto", "return"}
    BY <1>2, <1>3, <1>6, <1>7
  <2> QED BY <1>1, <2>1, <2>2, <2>3 DEF BuildOrder
<1>10. job.at # "edge" /\ job'.at # "edges" /\ ~finalized'
  BY <1>0, <1>2
<1>11. \A b \in Real : b # lastBlock \/ ~haveBlock => last'[b] = last[b]
  BY <1>0, <1>3
<1> QED BY <1>0, <1>1, <1>2, <1>3, <1>8, <1>9, <1>10, <1>11, GraphNewBlock DEF GraphInv

(* make_label() and make_goto_cond(). *)
LEMMA GraphSplits ==
  ASSUME GraphInv, UnitIInv', LabelSplits \/ BranchSplits
  PROVE  GraphSoFar'
<1>0. num \in Nat /\ num - 1 \in Nat \cup {None}
  BY UnitRanges DEF None, GraphInv
<1>1. CASE LabelSplits
  <2>1. job.at = "make" /\ job.insn.op = "label" /\ OperandsOK /\ SplitBlock(num - 1)
        /\ Making({"label", "branch"}) /\ first[curBlock] # num
    BY <1>1 DEF LabelSplits, Making
  <2> QED BY <1>0, <2>1, GraphSplitAdded, GraphSplitRefused DEF SplitBlock, Fail, labels
<1>2. CASE BranchSplits
  <2>1. job.at = "make" /\ job.insn.op = "branch" /\ OperandsOK /\ SplitBlock(num)
        /\ Making({"label", "branch"})
    BY <1>2 DEF BranchSplits, Making
  <2> QED BY <1>0, <2>1, GraphSplitAdded, GraphSplitRefused DEF SplitBlock, Fail, labels
<1> QED BY <1>1, <1>2

(* A new edge f -> t takes a free exit slot, and leaves the first entry of t in its place
   even when the other entries move to a dummy block. *)
LEMMA EdgeSlots ==
  ASSUME UnitIInv, NEW f \in Real, NEW t \in Real, NEW r \in BOOLEAN, DoAddEdge(f, t, r), pc' = pc
  PROVE  /\ \A i \in ExitSlots : exits[f][i] # None => exits'[f][i] = exits[f][i]
         /\ \A i \in ExitSlots : exits'[f][i] \in {t, exits[f][i]}
         /\ r => \E i \in ExitSlots : exits'[f][i] = t
         /\ entries[t][0] # None => entries'[t][0] = entries[t][0]
         /\ NoExits(f) /\ NoEntries(t) => exits'[f][0] = t /\ entries'[t][0] = f
<1>0. TypeOK /\ Shape /\ StreamIsTable /\ pc # "search" /\ IInv
  BY DEF UnitIInv, IInv, UnitInv, StreamIsTable
<1>1. /\ f \in Ids /\ t \in Ids /\ numBlocks \notin Real /\ 0 \in ExitSlots /\ 0 \in EntrySlots
      /\ exits \in [Ids -> [ExitSlots -> Ids \cup {None, -4, -5}]]
      /\ entries \in [Ids -> [EntrySlots -> Ids \cup {None}]]
      /\ exits[f] \in [ExitSlots -> Real \cup {None}]
      /\ \A b \in Ids : b \in Nat
  BY <1>0, UnitRanges, BlocksAssumption DEF TypeOK, TableTypeOK, ExitSlots, EntrySlots, Shape
<1>2. CASE UNCHANGED table /\ (r => Duplicate(f, t)) /\ (~r => \A i \in ExitSlots : exits[f][i] >= 0)
  BY <1>1, <1>2 DEF table, Duplicate, NoExits, None
<1>3. ASSUME NEW i \in ExitSlots, ExitFor(f, t, i),
             exits'[f] = [exits[f] EXCEPT ![i] = t],
             entries[t][0] # None => entries'[t][0] = entries[t][0],
             NoEntries(t) => entries'[t][0] = f
      PROVE  /\ \A k \in ExitSlots : exits[f][k] # None => exits'[f][k] = exits[f][k]
             /\ \A k \in ExitSlots : exits'[f][k] \in {t, exits[f][k]}
             /\ \E k \in ExitSlots : exits'[f][k] = t
             /\ entries[t][0] # None => entries'[t][0] = entries[t][0]
             /\ NoExits(f) /\ NoEntries(t) => exits'[f][0] = t /\ entries'[t][0] = f
  <2>1. exits[f][i] = None
    BY <1>0, <1>3, NewEdge
  <2>2. exits'[f][i] = t /\ \A k \in ExitSlots : k # i => exits'[f][k] = exits[f][k]
    BY <1>1, <1>3
  <2>3. NoExits(f) => i = 0
    BY <1>1, <1>3 DEF NoExits, ExitFor, FirstFree, Used, None, ExitSlots
  <2> QED BY <1>3, <2>1, <2>2, <2>3
<1>4. ASSUME NEW i \in ExitSlots, ExitFor(f, t, i), EdgeInHead(f, t, i)
      PROVE  /\ exits'[f] = [exits[f] EXCEPT ![i] = t]
             /\ entries[t][0] # None => entries'[t][0] = entries[t][0]
             /\ NoEntries(t) => entries'[t][0] = f
  <2>1. PICK j \in EntrySlots : FirstFree(entries[t], j) /\ entries' = [entries EXCEPT ![t][j] = f]
    BY <1>4 DEF EdgeInHead
  <2>2. exits'[f] = [exits[f] EXCEPT ![i] = t]
    BY <1>1, <1>4 DEF EdgeInHead
  <2>3. /\ entries'[t] = [entries[t] EXCEPT ![j] = f]
        /\ entries[t] \in [EntrySlots -> Ids \cup {None}]
    BY <1>1, <2>1
  <2>4. entries[t][0] # None => j # 0
    BY <1>1, <2>1 DEF FirstFree
  <2>5. NoEntries(t) => j = 0
    BY <1>1, <2>1 DEF FirstFree, Used, NoEntries, None, EntrySlots
  <2> QED BY <1>1, <2>2, <2>3, <2>4, <2>5
<1>5. ASSUME NEW i \in ExitSlots, ExitFor(f, t, i), EdgeInDummy(f, t, i)
      PROVE  /\ exits'[f] = [exits[f] EXCEPT ![i] = t]
             /\ entries'[t][0] = entries[t][0]
             /\ ~NoEntries(t)
  <2>1. numBlocks \in Ids
    BY <1>0, <1>5, NewIndex DEF EdgeInDummy
  <2>2. exits'[f] = [exits[f] EXCEPT ![i] = t] /\ entries'[t] = HeadAfterSplit(t)
    BY <1>1, <1>5, <2>1 DEF EdgeInDummy
  <2> QED BY <1>1, <1>5, <2>2 DEF EdgeInDummy, HeadAfterSplit, HeadFull, NoEntries, None
<1>6. ASSUME NEW i \in ExitSlots, ExitFor(f, t, i), EdgeRefused(f, t, i)
      PROVE  UNCHANGED <<exits, entries>> /\ ~NoEntries(t)
  <2>1. exits[f][i] = None
    BY <1>0, <1>6, NewEdge
  <2> QED BY <1>1, <1>6, <2>1 DEF EdgeRefused, ExitsOnFailure, HeadFull, NoEntries, None
<1> QED BY <1>2, <1>3, <1>4, <1>5, <1>6 DEF DoAddEdge

(* The fall-through edge is the first exit of the old block and the first entry of the
   new one. *)
LEMMA GraphFallThrough ==
  ASSUME GraphInv, UnitIInv', FallThroughEdge
  PROVE  GraphSoFar'
<1> SUFFICES ASSUME NEW e, e = curBlock, NEW d, d = job.blk PROVE GraphSoFar'
  OBVIOUS
<1> DEFINE i == job.insn
<1>0. /\ UnitIInv /\ UnitTypeOK /\ JobOK /\ BuildOrder /\ ExitsInCode /\ FallThroughsAdded
      /\ StreamIsTable /\ BlocksPartitionInsns
      /\ job.at = "edge" /\ haveBlock /\ ~closed /\ ~finalized /\ i \in Insns
      /\ e \in Real /\ d \in Real /\ d # e /\ Open = d /\ d = lastBlock
      /\ NoExits(e) /\ NoExits(d) /\ NoEntries(d) /\ i.op \in {"label", "branch"}
      /\ num \in Nat /\ Real \subseteq Ids /\ \A b \in Ids : first[b] \in Nat /\ last[b] \in Int
      /\ nextBlock[e] = d
  <2>1. /\ UnitIInv /\ UnitTypeOK /\ JobOK /\ BuildOrder /\ ExitsInCode /\ FallThroughsAdded
        /\ StreamIsTable /\ BlocksPartitionInsns /\ job.at = "edge"
    BY DEF GraphInv, UnitIInv, UnitInv, GraphSoFar, FallThroughEdge
  <2>2. haveBlock /\ Open = d /\ i \in Insns
    BY <2>1 DEF JobOK, Open, UnitTypeOK
  <2>3. /\ e \in Real /\ d # e /\ d = lastBlock /\ NoExits(e) /\ NoExits(d) /\ NoEntries(d)
        /\ i.op \in {"label", "branch"}
    BY <2>1, <2>2 DEF JobOK
  <2>4. ~closed /\ ~finalized /\ nextBlock[e] = d
    BY <2>1 DEF BuildOrder
  <2>5. /\ num \in Nat /\ Real \subseteq Ids /\ \A b \in Ids : first[b] \in Nat /\ last[b] \in Int
        /\ lastBlock \in Real \cup {None}
    BY <2>1, UnitRanges
  <2>6. d \in Real
    BY <2>1, <2>3, <2>5 DEF StreamIsTable
  <2> QED BY <2>1, <2>2, <2>3, <2>4, <2>5, <2>6
<1>1. PICK r \in BOOLEAN :
        /\ DoAddEdge(e, d, r)
        /\ IF r THEN /\ curBlock' = d
                     /\ labelMap' = IF i.op = "label"
                                    THEN [labelMap EXCEPT ![i.label] = d] ELSE labelMap
                     /\ Append1
                     /\ job' = Idle
                ELSE /\ job' = [job EXCEPT !.at = "aborted"]
                     /\ UNCHANGED <<curBlock, labelMap, insns>>
  BY <1>0 DEF FallThroughEdge
<1>2. UNCHANGED <<pc, haveBlock, first, last, finalized, closed>>
  BY DEF FallThroughEdge
<1>3. /\ r /\ Real' = Real /\ lastBlock' = lastBlock
      /\ \A b \in Real : nextBlock'[b] = nextBlock[b]
      /\ \A b \in Real : b # e => exits'[b] = exits[b]
      /\ \A b \in Real : b # d => entries'[b] = entries[b]
  BY <1>0, <1>1, <1>2, AddedEdge
<1>4. /\ \A k \in ExitSlots : exits'[e][k] \in {d, None}
      /\ exits'[e][0] = d /\ entries'[d][0] = e
  BY <1>0, <1>1, <1>2, EdgeSlots DEF NoExits
<1>5. insns' = Append(insns, i) /\ job'.at = "idle"
  BY <1>1, <1>3 DEF Append1, Idle
<1>6. /\ num' = num + 1 /\ \A n \in 1..num : insns'[n] = insns[n]
      /\ Len(Code) \in {num, num + 1} /\ \A n \in 1..Len(Code) : insns'[n] = Code[n]
  BY <1>0, <1>5 DEF num, UnitTypeOK, Code
<1>7. \A l \in Labels : labelMap[l] \in Real => labelMap'[l] = labelMap[l]
  <2>1. i.op = "label" => labelMap[i.label] < 0
    BY <1>0 DEF JobOK
  <2>2. labelMap \in [Labels -> Ids \cup {None}] /\ \A b \in Ids : b \in Nat
    BY <1>0, UnitRanges DEF UnitTypeOK
  <2>3. labelMap' = IF i.op = "label" THEN [labelMap EXCEPT ![i.label] = d] ELSE labelMap
    BY <1>1, <1>3
  <2> SUFFICES ASSUME NEW l \in Labels, labelMap[l] \in Real PROVE labelMap'[l] = labelMap[l]
    OBVIOUS
  <2>4. labelMap[l] \in Nat
    BY <1>0, <2>2
  <2>5. i.op = "label" => l # i.label
    BY <2>1, <2>4
  <2> QED BY <2>2, <2>3, <2>5
<1>8. ~Splitting(e)' /\ \A b \in Real : ~Splitting(b)'
  BY <1>5 DEF Splitting
<1>9. first[e] <= last[e] /\ last[e] < Len(Code)
  <2>1. LastOf(e) = last[e] /\ RunOK(e)
    BY <1>0 DEF LastOf, BlocksPartitionInsns
  <2> QED BY <1>0, <2>1 DEF RunOK, BuildOrder
<1>10. FallsThrough(e)'
  <2>1. LastInsn(e)'.op \notin {"goto", "return"}
    <3>1. last[e] + 1 \in 1..Len(Code)
      BY <1>0, <1>6, <1>9
    <3>2. LastInsn(e)' = Code[last[e] + 1]
      BY <1>2, <1>6, <3>1 DEF LastInsn
    <3> QED BY <1>0, <3>2 DEF BuildOrder
  <2> QED BY <1>0, <1>3, <2>1 DEF FallsThrough
<1>11. ASSUME NEW b \in Real, b # e, b # d
       PROVE  /\ Done(b) /\ (FallsThrough(b)' <=> FallsThrough(b))
              /\ \A t \in Successors(b) : t \in Successors(b)'
  <2>1. Done(b)
    BY <1>0, <1>11 DEF Done, Splitting
  <2>2. num' \in Nat /\ b # lastBlock /\ b # lastBlock' /\ Real \subseteq Real'
        /\ first'[b] = first[b] /\ last'[b] = last[b] /\ nextBlock'[b] = nextBlock[b]
    BY <1>0, <1>2, <1>3, <1>6, <1>11
  <2> QED BY <1>6, <1>7, <2>1, <2>2, SuccessorsKept
<1>12. ExitsInCode'
  <2> SUFFICES ASSUME NEW b \in Real, NEW k \in ExitSlots, exits'[b][k] # None
               PROVE  exits'[b][k] \in Successors(b)'
    BY <1>3 DEF ExitsInCode
  <2>1. CASE b = e
    BY <1>0, <1>3, <1>4, <1>10, <2>1 DEF Successors
  <2>2. CASE b = d
    BY <1>0, <1>3, <2>2 DEF NoExits
  <2>3. CASE b # e /\ b # d
    BY <1>0, <1>3, <1>11, <2>3 DEF ExitsInCode
  <2> QED BY <2>1, <2>2, <2>3
<1>13. FallThroughsAdded'
  <2> SUFFICES ASSUME NEW b \in Real, FallsThrough(b)'
               PROVE  exits'[b][0] = nextBlock'[b] /\ entries'[nextBlock'[b]][0] = b
    BY <1>3 DEF FallThroughsAdded
  <2>1. CASE b = e
    BY <1>0, <1>3, <1>4, <2>1
  <2>2. CASE b # e
    <3>1. b # d
      BY <1>0, <1>3 DEF FallsThrough
    <3>2. FallsThrough(b) /\ ~Splitting(b)
      BY <1>11, <2>2, <3>1 DEF Done
    <3>3. exits[b][0] = nextBlock[b] /\ entries[nextBlock[b]][0] = b
      BY <1>0, <3>2 DEF FallThroughsAdded
    <3>4. nextBlock[b] \in Real
      BY <1>0, <3>1 DEF StreamIsTable
    <3>5. nextBlock[b] # d
      <4>1. 0 \in EntrySlots /\ b # None
        BY <1>0, BlocksAssumption, UnitRanges DEF EntrySlots
      <4> QED BY <1>0, <3>3, <4>1 DEF NoEntries
    <3> QED BY <1>3, <2>2, <3>1, <3>3, <3>4, <3>5
  <2> QED BY <2>1, <2>2
<1>14. BuildOrder'
  <2>1. ASSUME NEW b \in Real, b # d PROVE first'[b] <= last'[b] /\ last'[b] < num'
    <3>1. CASE b = e
      BY <1>0, <1>2, <1>6, <1>9, <3>1
    <3>2. CASE b # e
      BY <1>0, <1>2, <1>6, <2>1, <3>2 DEF BuildOrder, Splitting
    <3> QED BY <3>1, <3>2
  <2>2. ~closed' /\ ~finalized' /\ haveBlock'
    BY <1>0, <1>2
  <2> QED BY <1>0, <1>3, <1>5, <2>1, <2>2 DEF BuildOrder
<1>15. JumpsAdded'
  BY <1>0, <1>2, <1>5 DEF JumpsAdded, Walked
<1> QED BY <1>12, <1>13, <1>14, <1>15 DEF GraphSoFar

(* The edge of a jump moves no fall-through edge out of the first slot. *)
LEMMA GraphJumpEdge ==
  ASSUME GraphInv, UnitIInv', JumpEdge
  PROVE  GraphSoFar'
<1> SUFFICES ASSUME NEW f, f = job.blk, NEW t, t = Target(f) PROVE GraphSoFar'
  OBVIOUS
<1>0. /\ UnitIInv /\ UnitTypeOK /\ JobOK /\ BuildOrder /\ ExitsInCode /\ FallThroughsAdded
      /\ JumpsAdded /\ StreamIsTable
      /\ job.at = "edges" /\ ~haveBlock /\ closed
      /\ f \in Real /\ t \in Real /\ num \in Nat /\ Real \subseteq Ids
      /\ numBlocks \in Nat /\ None \notin Real /\ \A b \in Ids : b \in Nat
  <2>1. /\ UnitIInv /\ UnitTypeOK /\ JobOK /\ BuildOrder /\ ExitsInCode /\ FallThroughsAdded
        /\ JumpsAdded /\ StreamIsTable /\ job.at = "edges"
    BY DEF GraphInv, UnitIInv, UnitInv, GraphSoFar, JumpEdge, AtBlock
  <2>2. f \in Real /\ t \in Real /\ ~haveBlock
    BY <2>1, JumpBlocks DEF JumpEdge
  <2> QED BY <2>1, <2>2, UnitRanges DEF BuildOrder
<1>1. PICK r \in BOOLEAN : DoAddEdge(f, t, r) /\ IF r THEN NextIndex ELSE job' = Idle
  BY DEF JumpEdge
<1>2. /\ UNCHANGED <<pc, insns, haveBlock, labelMap, finalized, closed>>
      /\ first' = [b \in Ids |-> IF b >= numBlocks /\ b < numBlocks' THEN 0 ELSE first[b]]
      /\ last'  = [b \in Ids |-> IF b >= numBlocks /\ b < numBlocks' THEN None ELSE last[b]]
      /\ num' = num
  BY DEF JumpEdge, labels, num
<1>3. /\ Real' = Real /\ lastBlock' = lastBlock
      /\ \A b \in Real : nextBlock'[b] = nextBlock[b]
      /\ \A b \in Real : b # f => exits'[b] = exits[b]
      /\ \A b \in Real : b # t => entries'[b] = entries[b]
  BY <1>0, <1>1, <1>2, AddedEdge
<1>4. /\ \A i \in ExitSlots : exits[f][i] # None => exits'[f][i] = exits[f][i]
      /\ \A i \in ExitSlots : exits'[f][i] \in {t, exits[f][i]}
      /\ r => \E i \in ExitSlots : exits'[f][i] = t
      /\ entries[t][0] # None => entries'[t][0] = entries[t][0]
  BY <1>0, <1>1, <1>2, EdgeSlots
<1>5. \A b \in Real : first'[b] = first[b] /\ last'[b] = last[b]
  BY <1>0, <1>2 DEF Real, Allocated
<1>6. /\ job'.at \in {"edges", "idle"}
      /\ job'.at = "edges" => r /\ job'.blk = f + 1
  <2>1. CASE r
    <3>1. job' = [job EXCEPT !.blk = f + 1]
      BY <1>1, <2>1 DEF NextIndex
    <3> QED BY <1>0, <2>1, <3>1 DEF UnitTypeOK
  <2>2. CASE ~r
    BY <1>1, <2>2 DEF Idle
  <2> QED BY <2>1, <2>2
<1>7. ASSUME NEW b \in Real
      PROVE  /\ FallsThrough(b)' <=> FallsThrough(b)
             /\ \A x : JumpsTo(b, x)' <=> JumpsTo(b, x)
             /\ Successors(b)' = Successors(b)
  <2>1. LastInsn(b)' = LastInsn(b)
    BY <1>2, <1>5 DEF LastInsn
  <2>2. FallsThrough(b)' <=> FallsThrough(b)
    BY <1>3, <1>5, <2>1 DEF FallsThrough
  <2>3. \A x : JumpsTo(b, x)' <=> JumpsTo(b, x)
    BY <1>2, <1>5, <2>1 DEF JumpsTo
  <2> QED BY <1>3, <2>2, <2>3 DEF Successors
<1>8. JumpsTo(f, t) /\ \A x : JumpsTo(f, x) => x = t
  BY DEF JumpEdge, EndsInJump, JumpsTo, Target
<1>9. \A b \in Real : ~Splitting(b) /\ ~Splitting(b)'
  BY <1>0, <1>6 DEF Splitting
<1>10. ExitsInCode'
  <2> SUFFICES ASSUME NEW b \in Real, NEW i \in ExitSlots, exits'[b][i] # None
               PROVE  exits'[b][i] \in Successors(b)
    BY <1>3, <1>7 DEF ExitsInCode
  <2>1. t \in Successors(f)
    BY <1>0, <1>8 DEF Successors
  <2> QED BY <1>0, <1>3, <1>4, <2>1 DEF ExitsInCode
<1>11. \A b \in Real, i \in ExitSlots : exits[b][i] # None => exits'[b][i] = exits[b][i]
  BY <1>3, <1>4
<1>12. \A b \in Real : entries[b][0] # None => entries'[b][0] = entries[b][0]
  BY <1>3, <1>4
<1>13. FallThroughsAdded'
  <2> SUFFICES ASSUME NEW b \in Real, FallsThrough(b)
               PROVE  exits'[b][0] = nextBlock'[b] /\ entries'[nextBlock'[b]][0] = b
    BY <1>3, <1>7 DEF FallThroughsAdded
  <2>1. exits[b][0] = nextBlock[b] /\ entries[nextBlock[b]][0] = b
    BY <1>0, <1>9 DEF FallThroughsAdded
  <2>2. nextBlock[b] \in Real /\ nextBlock[b] # None /\ b # None
    BY <1>0 DEF StreamIsTable, FallsThrough
  <2> QED BY <1>3, <1>11, <1>12, <2>1, <2>2 DEF ExitSlots
<1>14. JumpsAdded'
  <2> SUFFICES ASSUME NEW b \in Real, NEW x \in Real, Walked(b)', JumpsTo(b, x)
               PROVE  \E i \in ExitSlots : exits'[b][i] = x
    BY <1>3, <1>7 DEF JumpsAdded
  <2>1. CASE Walked(b)
    <3>1. PICK i \in ExitSlots : exits[b][i] = x
      BY <1>0, <2>1 DEF JumpsAdded
    <3>2. x # None
      BY <1>0
    <3> QED BY <1>11, <3>1, <3>2
  <2>2. CASE ~Walked(b)
    <3>1. r /\ b = f
      BY <1>0, <1>2, <1>6, <2>2 DEF Walked
    <3> QED BY <1>4, <1>8, <3>1
  <2> QED BY <2>1, <2>2
<1>15. BuildOrder'
  <2>1. \A b \in Real : b # lastBlock => first'[b] <= last'[b] /\ last'[b] < num'
    BY <1>0, <1>2, <1>5, <1>9 DEF BuildOrder
  <2>2. closed' /\ ~haveBlock'
    BY <1>0, <1>2
  <2> QED BY <1>3, <1>6, <2>1, <2>2 DEF BuildOrder
<1> QED BY <1>10, <1>13, <1>14, <1>15 DEF GraphSoFar

(* Steps of the caller that are not calls. *)
LEMMA GraphStutter ==
  ASSUME GraphInv, UnitIInv', UNCHANGED unitVars
  PROVE  GraphSoFar'
<1>1. /\ UNCHANGED <<vars, insns, haveBlock, curBlock, first, last, labelMap, closed>>
      /\ UNCHANGED <<finalized, job>>
  BY DEF unitVars, building, labels
<1>2. UNCHANGED <<numBlocks, lastBlock, nextBlock, exits, entries, owner>>
  BY <1>1 DEF vars, table
<1>3. Real' = Real /\ Code' = Code /\ num' = num
  BY <1>1, <1>2 DEF Real, Allocated, Code, num
<1>4. \A b : LastInsn(b)' = LastInsn(b) /\ (Splitting(b)' <=> Splitting(b)) /\ (Walked(b)' <=> Walked(b))
  BY <1>1 DEF LastInsn, Splitting, Walked
<1>5. \A b : (FallsThrough(b)' <=> FallsThrough(b)) /\ \A t : JumpsTo(b, t)' <=> JumpsTo(b, t)
  BY <1>1, <1>2, <1>4 DEF FallsThrough, JumpsTo
<1>6. \A b : Successors(b)' = Successors(b)
  BY <1>2, <1>3, <1>5 DEF Successors
<1>7. BuildOrder /\ ExitsInCode /\ FallThroughsAdded /\ JumpsAdded
  BY DEF GraphInv, GraphSoFar
<1>8. BuildOrder'
  BY <1>1, <1>2, <1>3, <1>4, <1>7 DEF BuildOrder
<1>9. ExitsInCode' /\ FallThroughsAdded' /\ JumpsAdded'
  BY <1>2, <1>3, <1>4, <1>5, <1>6, <1>7 DEF ExitsInCode, FallThroughsAdded, JumpsAdded
<1> QED BY <1>8, <1>9 DEF GraphSoFar

(* With every jump walked the exits are all there. *)
LEMMA GraphAtEnd ==
  ASSUME GraphInv
  PROVE  FinalGraph
<1>0. /\ UnitIInv /\ StreamIsTable /\ ExitsInCode /\ FallThroughsAdded /\ JumpsAdded
      /\ JobOK /\ BuildOrder /\ None \notin Real
  BY UnitRanges DEF GraphInv, UnitIInv, UnitInv, GraphSoFar
<1> SUFFICES ASSUME finalized, NEW b \in Real
             PROVE  /\ {exits[b][i] : i \in ExitSlots} \ {None} = Successors(b)
                    /\ FallsThrough(b) => exits[b][0] = nextBlock[b] /\ entries[nextBlock[b]][0] = b
  BY DEF FinalGraph
<1>1. Walked(b) /\ ~Splitting(b)
  BY <1>0 DEF Walked, BuildOrder, Splitting
<1>2. FallsThrough(b) => exits[b][0] = nextBlock[b] /\ entries[nextBlock[b]][0] = b
  BY <1>0, <1>1 DEF FallThroughsAdded
<1>3. ASSUME NEW t \in Successors(b) PROVE t \in {exits[b][i] : i \in ExitSlots} \ {None}
  <2>1. t \in Real /\ t # None /\ 0 \in ExitSlots
    BY <1>0 DEF Successors, ExitSlots
  <2>2. CASE JumpsTo(b, t)
    BY <1>0, <1>1, <2>1, <2>2 DEF JumpsAdded
  <2>3. CASE FallsThrough(b) /\ t = nextBlock[b]
    BY <1>2, <2>1, <2>3
  <2> QED BY <2>2, <2>3 DEF Successors
<1> QED BY <1>0, <1>2, <1>3 DEF ExitsInCode

(* Every step keeps the graph up to date. *)
LEMMA GraphStep == GraphInv /\ [UnitNext]_unitVars => GraphInv'
<1> SUFFICES ASSUME GraphInv, [UnitNext]_unitVars PROVE GraphSoFar' /\ UnitIInv'
  BY DEF GraphInv
<1>1. UnitIInv'
  BY UnitStep DEF GraphInv
<1> QED BY <1>1, GraphQuietActions, GraphOpen, GraphMake, GraphSplits, GraphFallThrough,
           GraphFinalize, GraphJumpEdge, GraphStutter DEF UnitNext, Callers, Steps

(* The control-flow graph of a finalized unit is the one its instructions imply, with the
   fall-through edge as first exit and first entry, however many dummy blocks the edges
   needed and whatever calls failed on the way. *)
THEOREM GraphIsTheCode == UnitSpec => []GraphMatchesCode
<1>1. UnitInit => GraphInv
  <2> SUFFICES ASSUME UnitInit PROVE GraphSoFar
    BY UnitInitInv DEF GraphInv
  <2>1. Real = {}
    BY DEF UnitInit, Init, Real, Allocated
  <2>2. ~closed /\ ~finalized /\ ~haveBlock /\ job.at = "idle"
    BY DEF UnitInit, Idle
  <2>3. BuildOrder
    BY <2>1, <2>2 DEF BuildOrder
  <2>4. ExitsInCode /\ FallThroughsAdded /\ JumpsAdded
    BY <2>1 DEF ExitsInCode, FallThroughsAdded, JumpsAdded
  <2> QED BY <2>3, <2>4 DEF GraphSoFar
<1>2. GraphInv => GraphMatchesCode
  BY GraphAtEnd DEF GraphInv, GraphMatchesCode
<1> QED BY <1>1, <1>2, GraphStep, PTL DEF UnitSpec

(****************************** Termination *******************************)

(* The routine in progress opens a block if it must, makes its instruction and splits the
   block if it must; rtl_finalize_unit() goes through the table. *)
JobFurther ==
  \/ job.at = "open" /\ job'.at = "make"
  \/ job.at = "make" /\ job'.at = "edge"
  \/ job.at = "edges" /\ job'.at = "edges" /\ job'.blk = job.blk + 1 /\ job'.blk <= MaxBlocks

(* Every call returns: a routine takes at most three steps, and rtl_finalize_unit() at most
   one for each block that the table can have, although its loop extends the table. *)
THEOREM JobsProgress == UnitSpec => [][Steps => job'.at = "idle" \/ JobFurther]_unitVars
<1>1. ASSUME UnitIInv, UnitIInv', Steps PROVE job'.at = "idle" \/ JobFurther
  <2>0. /\ UnitTypeOK /\ numBlocks \in 0..MaxBlocks /\ MaxBlocks \in Nat /\ job'.at # "aborted"
        /\ job.at = "edges" => job.blk \in Nat
    <3>1. UnitTypeOK /\ JobOK /\ JobOK'
      BY <1>1 DEF UnitIInv, UnitInv
    <3>2. TypeOK
      BY <3>1 DEF UnitTypeOK
    <3>3. numBlocks \in 0..MaxBlocks
      BY <3>2 DEF TypeOK, TableTypeOK
    <3>4. job'.at # "aborted" /\ (job.at = "edges" => job.blk # None)
      BY <3>1 DEF JobOK
    <3>5. job.blk \in 0..MaxBlocks \cup {None}
      BY <3>1 DEF UnitTypeOK
    <3> QED BY <3>1, <3>3, <3>4, <3>5, BlocksAssumption
  <2>1. CASE OpenBlock
    <3>1. job.at = "open" /\ job' = [job EXCEPT !.at = "make"]
      BY <2>1 DEF OpenBlock
    <3> QED BY <2>0, <3>1 DEF JobFurther, UnitTypeOK
  <2>2. CASE OpenRefused \/ MakeOp \/ OperandsBad \/ LabelHere \/ MakeJump \/ UndefinedLabel
             \/ AllEdgesAdded
    <3>1. job' = Idle
      BY <2>2 DEF OpenRefused, MakeOp, OperandsBad, LabelHere, MakeJump, UndefinedLabel,
                  AllEdgesAdded, Fail
    <3> QED BY <3>1 DEF Idle
  <2>3. CASE LabelSplits \/ BranchSplits
    <3>1. job.at = "make" /\ (job' = Idle \/ job' = [job EXCEPT !.at = "edge", !.blk = numBlocks])
      BY <2>3 DEF LabelSplits, BranchSplits, SplitBlock, Making, Fail
    <3>2. CASE job' = Idle
      BY <3>2 DEF Idle
    <3>3. CASE job' = [job EXCEPT !.at = "edge", !.blk = numBlocks]
      BY <2>0, <3>1, <3>3 DEF JobFurther, UnitTypeOK
    <3> QED BY <3>1, <3>2, <3>3
  <2>4. CASE FallThroughEdge
    <3>1. job' = Idle \/ job' = [job EXCEPT !.at = "aborted"]
      BY <2>4 DEF FallThroughEdge
    <3>2. CASE job' = Idle
      BY <3>2 DEF Idle
    <3>3. CASE job' = [job EXCEPT !.at = "aborted"]
      BY <2>0, <3>3 DEF UnitTypeOK
    <3> QED BY <3>1, <3>2, <3>3
  <2>5. CASE NoJumpEdge \/ JumpEdge
    <3>1. AtBlock /\ (job' = Idle \/ job' = [job EXCEPT !.blk = job.blk + 1])
      BY <2>5 DEF NoJumpEdge, JumpEdge, NextIndex
    <3>2. CASE job' = Idle
      BY <3>2 DEF Idle
    <3>3. CASE job' = [job EXCEPT !.blk = job.blk + 1]
      <4>1. job.at = "edges" /\ job.blk < numBlocks
        BY <3>1 DEF AtBlock
      <4>2. job'.at = "edges" /\ job'.blk = job.blk + 1
        BY <2>0, <3>3, <4>1 DEF UnitTypeOK
      <4>3. job.blk + 1 <= MaxBlocks
        BY <2>0, <4>1
      <4> QED BY <4>1, <4>2, <4>3 DEF JobFurther
    <3> QED BY <3>1, <3>2, <3>3
  <2> QED BY <1>1, <2>1, <2>2, <2>3, <2>4, <2>5 DEF Steps
<1>2. UnitInit => UnitIInv
  BY UnitInitInv
<1>3. UnitIInv /\ [UnitNext]_unitVars => UnitIInv'
  BY UnitStep
<1>4. UnitIInv /\ UnitIInv' /\ [UnitNext]_unitVars
        => [Steps => job'.at = "idle" \/ JobFurther]_unitVars
  BY <1>1
<1> QED BY <1>2, <1>3, <1>4, PTL DEF UnitSpec
===============================================================================
