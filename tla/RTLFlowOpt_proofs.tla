-------------------------- MODULE RTLFlowOpt_proofs --------------------------
(* Proofs about RTLFlowOpt, for units of any number of blocks in which no conditional
   branch goes to the next block when the passes begin: the flow graph stays exact,
   the passes keep what the program does, and what they leave is not dead. *)
EXTENDS RTLFlowOpt, TLAPS, WellFoundedInduction, FiniteSetTheorems

(****************************** Basic facts ******************************)

(* A set of naturals with 0 and the successor of each of its members has them all. *)
LEMMA Induction ==
  ASSUME NEW S, 0 \in S, \A n \in Nat : n \in S => n + 1 \in S
  PROVE  Nat \subseteq S
<1> DEFINE R == OpToRel(<, Nat)
           T == Nat \ S
<1> SUFFICES ASSUME T # {} PROVE FALSE
  OBVIOUS
<1>1. T \subseteq Nat
  OBVIOUS
<1>2. PICK m \in T : \A k \in T : ~(<<k, m>> \in R)
  BY <1>1, WFMin, NatLessThanWellFounded
<1>3. \A k \in T : <<k, m>> \in R <=> k < m
  BY <1>1 DEF OpToRel
<1> HIDE DEF R
<1>4. m \in Nat /\ m # 0 /\ m \notin S
  BY <1>2
<1>5. m - 1 \in Nat /\ m - 1 < m
  BY <1>4
<1>6. m - 1 \notin T
  BY <1>2, <1>3, <1>5
<1> QED BY <1>4, <1>5, <1>6

(* A set of naturals that is not empty has a least member. *)
LEMMA LeastOf ==
  ASSUME NEW S, S \subseteq Nat, S # {}
  PROVE  \E m \in S : \A k \in S : m <= k
<1> DEFINE R == OpToRel(<, Nat)
<1>1. S \subseteq Nat
  OBVIOUS
<1>2. PICK m \in S : \A k \in S : ~(<<k, m>> \in R)
  BY <1>1, WFMin, NatLessThanWellFounded
<1>3. \A k \in S : <<k, m>> \in R <=> k < m
  BY <1>1 DEF OpToRel
<1> HIDE DEF R
<1>4. \A k \in S : ~(k < m) /\ k \in Nat
  BY <1>1, <1>2, <1>3
<1> QED BY <1>1, <1>4

(* Block numbers. *)
LEMMA BlockFacts ==
  /\ NumBlocks \in Nat /\ NumBlocks # 0 /\ NumBlocks - 1 \in Blocks /\ 0 \in Blocks
  /\ None \in Int /\ None \notin Blocks /\ None \notin Nat
  /\ \A b : b \in Blocks <=> b \in Nat /\ b < NumBlocks
  /\ Blocks \subseteq Nat
BY FlowAssumption DEF Blocks, None

(* The block that follows b in a stream is the first after it. *)
LEMMA NextFacts ==
  ASSUME NEW s \in SUBSET Blocks, NEW b \in Blocks
  PROVE  /\ NextIn(s, b) \in s \cup {None}
         /\ NextIn(s, b) # None => NextIn(s, b) > b /\ \A c \in s : c > b => NextIn(s, b) <= c
         /\ NextIn(s, b) = None => \A c \in s : c <= b
<1> DEFINE later == {c \in s : c > b}
<1>1. s \subseteq Nat /\ b \in Nat /\ None \notin Nat
  BY BlockFacts
<1>2. CASE later = {}
  <2>1. NextIn(s, b) = None
    BY <1>2 DEF NextIn
  <2> QED BY <1>1, <1>2, <2>1
<1>3. CASE later # {}
  <2>1. \E c \in later : \A d \in later : c <= d
    BY <1>1, <1>3, LeastOf
  <2>2. NextIn(s, b) = CHOOSE c \in later : \A d \in later : c <= d
    BY <1>3 DEF NextIn
  <2>3. NextIn(s, b) \in later /\ \A d \in later : NextIn(s, b) <= d
    BY <2>1, <2>2
  <2> QED BY <1>1, <2>3
<1> QED BY <1>2, <1>3

(* Only a block of the stream later than b, with none between, can be the next. *)
LEMMA NextIs ==
  ASSUME NEW s \in SUBSET Blocks, NEW b \in Blocks, NEW c \in s,
         c > b, \A d \in s : d > b => c <= d
  PROVE  NextIn(s, b) = c
<1>1. s \subseteq Nat /\ b \in Nat /\ c \in Nat
  BY BlockFacts
<1>2. NextIn(s, b) # None
  BY <1>1, NextFacts
<1> DEFINE n == NextIn(s, b)
<1>3. n \in s /\ n > b /\ n <= c
  BY <1>2, NextFacts
<1>4. c <= n
  BY <1>3
<1> HIDE DEF n
<1>5. n \in Nat
  BY <1>1, <1>3
<1>6. n = c
  BY <1>1, <1>3, <1>4, <1>5
<1> QED BY <1>6 DEF n

(* With every block in the stream it is the block of the next number. *)
LEMMA NextOfAll ==
  ASSUME NEW b \in Blocks
  PROVE  NextIn(Blocks, b) = IF b + 1 < NumBlocks THEN b + 1 ELSE None
<1>1. b \in Nat /\ NumBlocks \in Nat /\ b < NumBlocks
  BY BlockFacts
<1>2. CASE b + 1 < NumBlocks
  <2>1. b + 1 \in Blocks /\ \A d \in Blocks : d > b => b + 1 <= d
    BY <1>1, <1>2, BlockFacts
  <2> QED BY <1>1, <1>2, <2>1, NextIs
<1>3. CASE ~(b + 1 < NumBlocks)
  <2>1. \A c \in Blocks : ~(c > b)
    BY <1>1, <1>3, BlockFacts
  <2>2. NextIn(Blocks, b) = None
    BY <2>1, NextFacts
  <2> QED BY <1>3, <2>2
<1> QED BY <1>2, <1>3

(* A block is behind the next one if it is b or behind b. *)
LEMMA NextPassed ==
  ASSUME NEW s \in SUBSET Blocks, NEW b \in s, NEW c \in s
  PROVE  (NextIn(s, b) = None \/ c < NextIn(s, b)) <=> (c = b \/ c < b)
<1>1. s \subseteq Nat /\ b \in Nat /\ c \in Nat /\ None \notin Nat
  BY BlockFacts
<1> DEFINE n == NextIn(s, b)
<1> SUFFICES (n = None \/ c < n) <=> (c = b \/ c < b)
  OBVIOUS
<1>2. n \in s \cup {None}
  BY NextFacts
<1>3. n # None => n > b /\ (c > b => n <= c)
  BY NextFacts
<1>4. n = None => c <= b
  BY NextFacts
<1> HIDE DEF n
<1>5. CASE n = None
  BY <1>1, <1>4, <1>5
<1>6. CASE n # None
  <2>1. n \in Nat
    BY <1>1, <1>2, <1>6
  <2> QED BY <1>1, <1>3, <1>6, <2>1
<1> QED BY <1>5, <1>6

(* The exit slots of a block: none, one or two. *)
ExitLists == UNION {[1..n -> Blocks] : n \in 0..2}

(* Exits are none, one or two blocks. *)
LEMMA ExitCases ==
  ASSUME NEW e \in ExitLists
  PROVE  \/ e = <<>>
         \/ \E x \in Blocks : e = <<x>>
         \/ \E x, y \in Blocks : e = <<x, y>>
<1>1. PICK n \in 0..2 : e \in [1..n -> Blocks]
  BY DEF ExitLists
<1>2. CASE n = 0
  <2>1. e = <<>>
    BY <1>1, <1>2
  <2> QED BY <2>1
<1>3. CASE n = 1
  <2>1. e = <<e[1]>> /\ e[1] \in Blocks
    BY <1>1, <1>3
  <2> QED BY <2>1
<1>4. CASE n = 2
  <2>1. e = <<e[1], e[2]>> /\ e[1] \in Blocks /\ e[2] \in Blocks
    BY <1>1, <1>4
  <2> QED BY <2>1
<1> QED BY <1>2, <1>3, <1>4

(* Pairs, their parts and how they are made. *)
LEMMA PairSlices ==
  ASSUME NEW x \in Blocks, NEW y \in Blocks
  PROVE  /\ SubSeq(<<x, y>>, 1, 0) = <<>> /\ SubSeq(<<x, y>>, 3, 2) = <<>>
         /\ SubSeq(<<x, y>>, 1, 1) = <<x>> /\ SubSeq(<<x, y>>, 2, 2) = <<y>>
         /\ Len(<<x, y>>) = 2 /\ Append(<<x>>, y) = <<x, y>>
<1> DEFINE s == <<x, y>>
           o == <<x>>
<1>1. s \in Seq(Blocks) /\ Len(s) = 2 /\ s[1] = x /\ s[2] = y
  OBVIOUS
<1>2. o \in Seq(Blocks) /\ Len(o) = 1 /\ o[1] = x
  OBVIOUS
<1>3. /\ <<x>> = [i \in 1..1 |-> x] /\ <<y>> = [i \in 1..1 |-> y]
      /\ <<x, y>> = [i \in 1..2 |-> IF i = 1 THEN x ELSE y]
  OBVIOUS
<1> HIDE DEF s, o
<1>4. SubSeq(s, 1, 0) = <<>> /\ SubSeq(s, 3, 2) = <<>>
  BY <1>1
<1>5. SubSeq(s, 1, 1) = [i \in 1..1 |-> x]
  BY <1>1
<1>6. SubSeq(s, 2, 2) = [i \in 1..1 |-> y]
  BY <1>1
<1>7. Append(o, y) = [i \in 1..2 |-> IF i = 1 THEN x ELSE y]
  BY <1>2 DEF o
<1> QED BY <1>1, <1>3, <1>4, <1>5, <1>6, <1>7 DEF s, o

(* The exits of a block taken apart, and what removing and adding an edge does. *)
LEMMA ExitFacts ==
  ASSUME NEW x \in Blocks, NEW y \in Blocks
  PROVE  /\ <<>> \in ExitLists /\ <<x>> \in ExitLists /\ <<x, y>> \in ExitLists
         /\ ToSet(<<>>) = {} /\ ToSet(<<x>>) = {x} /\ ToSet(<<x, y>>) = {x, y}
         /\ Len(<<>>) = 0 /\ Len(<<x>>) = 1 /\ Len(<<x, y>>) = 2
         /\ Without(<<x>>, 1) = <<>>
         /\ Without(<<x, y>>, 1) = <<y>> /\ Without(<<x, y>>, 2) = <<x>>
         /\ With(<<>>, x) = <<x>>
         /\ With(<<x>>, y) = IF x = y THEN <<x>> ELSE <<x, y>>
<1>1. <<>> \in ExitLists /\ <<x>> \in ExitLists /\ <<x, y>> \in ExitLists
  <2>1. <<>> \in [1..0 -> Blocks] /\ <<x>> \in [1..1 -> Blocks] /\ <<x, y>> \in [1..2 -> Blocks]
    OBVIOUS
  <2> QED BY <2>1 DEF ExitLists
<1>2. ToSet(<<>>) = {}
  BY DEF ToSet
<1>3. ToSet(<<x>>) = {x}
  BY DEF ToSet
<1>4. ToSet(<<x, y>>) = {x, y}
  <2>1. DOMAIN <<x, y>> = {1, 2}
    OBVIOUS
  <2> QED BY <2>1 DEF ToSet
<1>5. Without(<<x>>, 1) = <<>>
  BY DEF Without, RemoveAt
<1>6. Without(<<x, y>>, 1) = <<y>>
  <2>1. SubSeq(<<x, y>>, 1, 0) = <<>> /\ SubSeq(<<x, y>>, 2, 2) = <<y>> /\ Len(<<x, y>>) = 2
    BY PairSlices
  <2>2. Without(<<x, y>>, 1) = SubSeq(<<x, y>>, 1, 0) \o SubSeq(<<x, y>>, 2, 2)
    BY DEF Without, RemoveAt
  <2> QED BY <2>1, <2>2
<1>7. Without(<<x, y>>, 2) = <<x>>
  <2>1. SubSeq(<<x, y>>, 1, 1) = <<x>> /\ SubSeq(<<x, y>>, 3, 2) = <<>> /\ Len(<<x, y>>) = 2
    BY PairSlices
  <2>2. Without(<<x, y>>, 2) = SubSeq(<<x, y>>, 1, 1) \o SubSeq(<<x, y>>, 3, 2)
    BY DEF Without, RemoveAt
  <2> QED BY <2>1, <2>2
<1>8. With(<<>>, x) = <<x>>
  BY DEF With, Contains
<1>9. With(<<x>>, y) = IF x = y THEN <<x>> ELSE <<x, y>>
  <2>1. Contains(<<x>>, y) <=> x = y
    BY DEF Contains
  <2>2. Append(<<x>>, y) = <<x, y>>
    BY PairSlices
  <2> QED BY <2>1, <2>2 DEF With
<1> QED BY <1>1, <1>2, <1>3, <1>4, <1>5, <1>6, <1>7, <1>8, <1>9

(* The instructions that end a block. *)
LEMMA TermFacts ==
  ASSUME NEW t \in Terms
  PROVE  /\ t.op \in {"none", "return", "goto", "if_z", "if_nz"}
         /\ t.reg \in Regs /\ t.label \in Blocks
         /\ t.op = "none" => t = Falls
         /\ \A l \in Blocks : LET u == [t EXCEPT !.label = l] IN
              /\ IsBranch(t) => u \in Terms
              /\ u.op = t.op /\ u.reg = t.reg /\ u.label = l
<1>1. \/ t = Falls
      \/ t = [Falls EXCEPT !.op = "return"]
      \/ t \in [op : {"goto"}, reg : {"zero"}, label : Blocks]
      \/ t \in [op : Conds, reg : Regs, label : Blocks]
  BY DEF Terms
<1>2. 0 \in Blocks
  BY BlockFacts
<1>3. t \in [op : {"none", "return", "goto", "if_z", "if_nz"}, reg : Regs, label : Blocks]
  BY <1>1, <1>2 DEF Falls, Conds, Regs
<1>4. t.op = "none" => t = Falls
  BY <1>1 DEF Falls, Conds
<1>5. ASSUME NEW l \in Blocks, IsBranch(t) PROVE [t EXCEPT !.label = l] \in Terms
  <2>1. CASE t.op = "goto"
    BY <1>1, <2>1 DEF Falls, Conds, Terms
  <2>2. CASE t.op \in Conds
    BY <1>1, <2>2 DEF Falls, Conds, Terms
  <2> QED BY <1>5, <2>1, <2>2 DEF IsBranch
<1> QED BY <1>3, <1>4, <1>5

(* No exit. *)
LEMMA NoExit == <<>> \in ExitLists /\ ToSet(<<>>) = {} /\ Len(<<>>) = 0
<1>1. 0 \in Blocks
  BY BlockFacts
<1> QED BY <1>1, ExitFacts

(* One exit. *)
LEMMA OneExit ==
  ASSUME NEW x \in Blocks
  PROVE  <<x>> \in ExitLists /\ ToSet(<<x>>) = {x} /\ Len(<<x>>) = 1 /\ <<x>> # <<>>
BY ExitFacts

(* Two exits. *)
LEMMA TwoExit ==
  ASSUME NEW x \in Blocks, NEW y \in Blocks
  PROVE  /\ <<x, y>> \in ExitLists /\ ToSet(<<x, y>>) = {x, y} /\ Len(<<x, y>>) = 2
         /\ <<x, y>>[1] = x /\ <<x, y>>[2] = y
BY ExitFacts

(*************************** The flow graph ******************************)

(* Where the end of a block can go to while every block is in the stream. *)
WaysOf(t, b) == (IF IsBranch(t) THEN {t.label} ELSE {})
                  \cup (IF t.op \in {"none"} \cup Conds /\ b + 1 < NumBlocks THEN {b + 1} ELSE {})

(* They are the exits that the invariant wants of it. *)
LEMMA WaysOfAll ==
  ASSUME live = Blocks, NEW b \in Blocks
  PROVE  Ways(b) = WaysOf(term[b], b) /\ NextLive(b) = IF b + 1 < NumBlocks THEN b + 1 ELSE None
<1>1. NextLive(b) = IF b + 1 < NumBlocks THEN b + 1 ELSE None
  BY NextOfAll DEF NextLive
<1>2. b + 1 # None
  BY BlockFacts DEF None
<1> QED BY <1>1, <1>2 DEF Ways, WaysOf

(* Finalizing a unit gives each block those exits. *)
LEMMA EdgesOfFacts ==
  ASSUME NEW t \in [Blocks -> Terms], NEW b \in Blocks
  PROVE  /\ EdgesOf(t, b) \in ExitLists
         /\ ToSet(EdgesOf(t, b)) = WaysOf(t[b], b)
         /\ Len(EdgesOf(t, b)) = 2 => EdgesOf(t, b)[1] # EdgesOf(t, b)[2]
<1> DEFINE l == t[b].label
           n == b + 1
           falls == t[b].op \in {"none"} \cup Conds /\ b + 1 < NumBlocks
           fall == IF falls THEN <<n>> ELSE <<>>
<1>1. l \in Blocks /\ b \in Nat
  BY TermFacts, BlockFacts
<1>2. falls => n \in Blocks
  BY <1>1, BlockFacts
<1>3. EdgesOf(t, b) = IF IsBranch(t[b]) /\ ~Contains(fall, l) THEN Append(fall, l) ELSE fall
  BY DEF EdgesOf
<1>4. WaysOf(t[b], b) = (IF IsBranch(t[b]) THEN {l} ELSE {}) \cup (IF falls THEN {n} ELSE {})
  BY DEF WaysOf
<1>5. fall \in {<<>>, <<n>>} /\ (falls => fall = <<n>>) /\ (~falls => fall = <<>>)
  OBVIOUS
<1>6. With(fall, l) = IF Contains(fall, l) THEN fall ELSE Append(fall, l)
  BY DEF With
<1> HIDE DEF l, n, falls, fall
<1>7. CASE falls
  <2>1. n \in Blocks /\ fall = <<n>>
    BY <1>2, <1>5, <1>7
  <2>2. EdgesOf(t, b) = IF IsBranch(t[b]) THEN IF n = l THEN <<n>> ELSE <<n, l>> ELSE <<n>>
    BY <1>1, <1>3, <1>6, <2>1, ExitFacts
  <2>3. CASE IsBranch(t[b]) /\ n # l
    <3>1. EdgesOf(t, b) = <<n, l>> /\ WaysOf(t[b], b) = {n, l}
      BY <1>4, <1>7, <2>2, <2>3
    <3> QED BY <1>1, <2>1, <2>3, <3>1, TwoExit
  <2>4. CASE ~(IsBranch(t[b]) /\ n # l)
    <3>1. EdgesOf(t, b) = <<n>> /\ WaysOf(t[b], b) = {n}
      BY <1>4, <1>7, <2>2, <2>4
    <3> QED BY <1>1, <2>1, <2>4, <3>1, OneExit
  <2> QED BY <2>3, <2>4
<1>8. CASE ~falls
  <2>1. fall = <<>>
    BY <1>5, <1>8
  <2>2. EdgesOf(t, b) = IF IsBranch(t[b]) THEN <<l>> ELSE <<>>
    <3>1. ~Contains(<<>>, l)
      BY DEF Contains
    <3>2. Append(<<>>, l) = <<l>>
      OBVIOUS
    <3> QED BY <1>3, <2>1, <3>1, <3>2
  <2>3. CASE IsBranch(t[b])
    <3>1. EdgesOf(t, b) = <<l>> /\ WaysOf(t[b], b) = {l}
      BY <1>4, <1>8, <2>2, <2>3
    <3> QED BY <1>1, <3>1, OneExit
  <2>4. CASE ~IsBranch(t[b])
    <3>1. EdgesOf(t, b) = <<>> /\ WaysOf(t[b], b) = {}
      BY <1>4, <1>8, <2>2, <2>4
    <3> QED BY <3>1, NoExit
  <2> QED BY <2>3, <2>4
<1> QED BY <1>7, <1>8

(* A block with two exits ends with a conditional branch, and they are the next block
   and the block it names, in either order. *)
LEMMA TwoExits ==
  ASSUME FlowIInv, live = Blocks, NEW b \in Blocks, Len(exits[b]) = 2
  PROVE  /\ term[b].op \in Conds /\ b + 1 \in Blocks /\ term[b].label # b + 1
         /\ \/ exits[b] = <<b + 1, term[b].label>>
            \/ exits[b] = <<term[b].label, b + 1>>
<1> DEFINE l == term[b].label
           n == b + 1
<1>1. exits[b] \in ExitLists /\ term[b] \in Terms
  BY DEF FlowIInv, FlowInv, FlowTypeOK, ExitLists
<1>2. PICK x \in Blocks, y \in Blocks : exits[b] = <<x, y>>
  <2>1. \A x \in Blocks : exits[b] # <<>> /\ exits[b] # <<x>>
    BY ExitFacts
  <2> QED BY <1>1, <2>1, ExitCases
<1>3. x # y
  <2>1. exits[b][1] # exits[b][2]
    BY DEF FlowIInv, StreamOK
  <2> QED BY <1>2, <2>1
<1>4. {x, y} = WaysOf(term[b], b)
  <2>1. ToSet(exits[b]) = Ways(b)
    BY DEF FlowIInv, FlowInv, ExitsMatchCode
  <2> QED BY <1>2, <2>1, ExitFacts, WaysOfAll
<1>5. IsBranch(term[b]) /\ term[b].op \in {"none"} \cup Conds /\ b + 1 < NumBlocks
  BY <1>3, <1>4 DEF WaysOf
<1>6. {x, y} = {l, n}
  BY <1>4, <1>5 DEF WaysOf
<1>7. term[b].op \in Conds
  BY <1>5 DEF IsBranch, Conds
<1>8. n \in Blocks
  BY <1>5, BlockFacts
<1> HIDE DEF l, n
<1>9. l # n /\ (<<x, y>> = <<n, l>> \/ <<x, y>> = <<l, n>>)
  BY <1>3, <1>6
<1> QED BY <1>2, <1>7, <1>8, <1>9 DEF l, n

(* The last block does not branch, so the block after a conditional branch is there. *)
LEMMA NotLast ==
  ASSUME FlowIInv, NEW b \in Blocks, IsBranch(term[b])
  PROVE  b # NumBlocks - 1 /\ b + 1 \in Blocks
<1>1. term[NumBlocks - 1].op \in {"return", "none"}
  BY DEF FlowIInv, StreamOK
<1>2. b # NumBlocks - 1
  BY <1>1 DEF IsBranch, Conds
<1> QED BY <1>2, BlockFacts

(* Threading takes away the exit to the block that the branch names, and no other. *)
LEMMA ThreadedFacts ==
  ASSUME FlowIInv, live = Blocks, NEW b \in Blocks, IsBranch(term[b]), TwoWay(b)
  PROVE  Threaded(b) = IF term[b].op = "goto" THEN <<>> ELSE <<b + 1>>
<1> DEFINE l == term[b].label
           n == b + 1
<1>1. exits[b] \in ExitLists /\ term[b] \in Terms
  BY DEF FlowIInv, FlowInv, FlowTypeOK, ExitLists
<1>2. l \in Blocks /\ n \in Blocks
  BY <1>1, TermFacts, NotLast
<1>3. ToSet(exits[b]) = WaysOf(term[b], b)
  BY WaysOfAll DEF FlowIInv, FlowInv, ExitsMatchCode
<1>4. CASE term[b].op = "goto"
  <2>1. ToSet(exits[b]) = {l}
    BY <1>3, <1>4 DEF WaysOf, Conds, IsBranch
  <2>2. exits[b] = <<l>>
    <3>1. exits[b] # <<>>
      BY <1>2, <2>1, ExitFacts
    <3>2. ASSUME NEW x \in Blocks, exits[b] = <<x>> PROVE x = l
      BY <2>1, <3>2, ExitFacts
    <3>3. ASSUME NEW x \in Blocks, NEW y \in Blocks, exits[b] = <<x, y>> PROVE FALSE
      <4>1. Len(exits[b]) = 2 /\ {x, y} = {l}
        BY <2>1, <3>3, TwoExit
      <4>2. exits[b][1] # exits[b][2]
        BY <4>1 DEF FlowIInv, StreamOK
      <4> QED BY <3>3, <4>1, <4>2
    <3> QED BY <1>1, <3>1, <3>2, <3>3, ExitCases
  <2>3. ThreadExit(b) = 1
    <3>1. Len(exits[b]) = 1
      BY <2>2
    <3> QED BY <3>1 DEF ThreadExit
  <2> QED BY <1>2, <1>4, <2>2, <2>3, ExitFacts DEF Threaded
<1>5. CASE term[b].op # "goto"
  <2>1. term[b].op \in Conds /\ l # n
    BY <1>5 DEF IsBranch, TwoWay
  <2>2. ToSet(exits[b]) = {l, n}
    <3>1. n < NumBlocks
      BY <1>2, BlockFacts
    <3> QED BY <1>3, <2>1, <3>1 DEF WaysOf, IsBranch
  <2>3. Len(exits[b]) = 2
    <3>1. exits[b] # <<>>
      BY <1>2, <2>2, ExitFacts
    <3>2. ASSUME NEW x \in Blocks, exits[b] = <<x>> PROVE FALSE
      <4>1. {l, n} = {x}
        BY <2>2, <3>2, OneExit
      <4> QED BY <2>1, <4>1
    <3> QED BY <1>1, <3>1, <3>2, ExitCases, NoExit, OneExit, TwoExit
  <2>4. exits[b] = <<n, l>> \/ exits[b] = <<l, n>>
    BY <2>3, TwoExits
  <2>5. CASE exits[b] = <<n, l>>
    <3>1. ThreadExit(b) = 2
      BY <1>2, <2>3, <2>5, TwoExit DEF ThreadExit
    <3> QED BY <1>2, <1>5, <2>5, <3>1, ExitFacts DEF Threaded
  <2>6. CASE exits[b] = <<l, n>>
    <3>1. ThreadExit(b) = 1
      BY <1>2, <2>1, <2>3, <2>6, TwoExit DEF ThreadExit
    <3>2. Without(<<l, n>>, 1) = <<n>>
      BY <1>2, ExitFacts
    <3> QED BY <1>5, <2>6, <3>1, <3>2 DEF Threaded
  <2> QED BY <2>4, <2>5, <2>6
<1> QED BY <1>4, <1>5

(************************ Steps of the invariant *************************)

(* What the invariant starts from. *)
LEMMA InitOK ==
  ASSUME ~AllowBranchToNext, FlowInit
  PROVE  FlowIInv
<1>1. /\ term \in [Blocks -> Terms] /\ body \in [Blocks -> BOOLEAN]
      /\ term[NumBlocks - 1].op \in {"return", "none"}
      /\ \A b \in Blocks : TwoWay(b)
  BY DEF FlowInit, Programs, TwoWay
<1>2. /\ exits = [b \in Blocks |-> EdgesOf(term, b)]
      /\ live = Blocks /\ labelled = Blocks /\ used = {} /\ at = 0
      /\ pass \in {"decondition", "thread"} /\ scan = NoScan
  BY DEF FlowInit
<1>3. \A b \in Blocks : exits[b] = EdgesOf(term, b)
  BY <1>2
<1>4. \A b \in Blocks : /\ exits[b] \in ExitLists
                        /\ ToSet(exits[b]) = WaysOf(term[b], b)
                        /\ Len(exits[b]) = 2 => exits[b][1] # exits[b][2]
  BY <1>1, <1>3, EdgesOfFacts
<1>5. exits \in [Blocks -> ExitLists]
  BY <1>2, <1>4
<1>6. /\ scan.to = None /\ scan.seen = {} /\ scan.label = None
      /\ scan \in [to : (0..NumBlocks) \cup {None}, seen : SUBSET Blocks, label : Blocks \cup {None}]
  BY <1>2 DEF NoScan
<1>7. FlowTypeOK
  BY <1>1, <1>2, <1>5, <1>6, BlockFacts DEF FlowTypeOK, ExitLists
<1>8. ExitsMatchCode
  BY <1>2, <1>4, WaysOfAll DEF ExitsMatchCode
<1>9. LabelsMapped
  BY <1>1, <1>2, TermFacts DEF LabelsMapped
<1>10. StreamOK
  BY <1>1, <1>2, <1>4, <1>6, BlockFacts DEF StreamOK
<1>11. TwoWayAhead
  <2>1. \A b \in at..(NumBlocks - 1) : b \in Blocks
    BY <1>2 DEF Blocks
  <2> QED BY <1>1, <2>1 DEF TwoWayAhead
<1>12. ScanOK /\ DroppedOK
  BY <1>2 DEF ScanOK, DroppedOK
<1> QED BY <1>7, <1>8, <1>9, <1>10, <1>11, <1>12 DEF FlowIInv, FlowInv

(* The block that a pass goes on to. *)
LEMMA GoesOn ==
  ASSUME FlowIInv, at # None, GoOn
  PROVE  /\ at \in Blocks /\ at \in live /\ at' \in live \cup {None} /\ at' \in Blocks \cup {None}
         /\ at' # None => at' > at
<1>1. at \in live /\ live \in SUBSET Blocks
  BY DEF FlowIInv, StreamOK, FlowInv, FlowTypeOK
<1> QED BY <1>1, NextFacts DEF GoOn, NextLive

(* The invariant in two parts: the program with its graph, and where the pass is. *)
GraphOK ==
  /\ term \in [Blocks -> Terms] /\ body \in [Blocks -> BOOLEAN]
  /\ exits \in [Blocks -> ExitLists] /\ live \subseteq Blocks /\ labelled \subseteq Blocks
  /\ ExitsMatchCode /\ LabelsMapped
  /\ term[NumBlocks - 1].op \in {"return", "none"}
  /\ \A b \in Blocks : Len(exits[b]) = 2 => exits[b][1] # exits[b][2]
  /\ 0 \in live
PlaceOK ==
  /\ pass \in {"decondition", "thread", "scan", "drop", "branches", "done"}
  /\ at \in live \cup {None} /\ used \subseteq Blocks
  /\ pass \in {"drop", "done"} => at = 0
  /\ scan \in [to : (0..NumBlocks) \cup {None}, seen : SUBSET Blocks, label : Blocks \cup {None}]
  /\ pass \in {"decondition", "thread", "scan", "drop"} =>
       live = Blocks /\ labelled = Blocks /\ used = {}

(* These parts come with the invariant, and make it together with the rest. *)
LEMMA PlaceIs == ASSUME FlowIInv PROVE GraphOK /\ PlaceOK
BY DEF FlowIInv, FlowInv, FlowTypeOK, StreamOK, ExitLists, GraphOK, PlaceOK

(* The invariant is put together from its parts after a step. *)
LEMMA Assembled ==
  ASSUME GraphOK', PlaceOK', TwoWayAhead', ScanOK', DroppedOK'
  PROVE  FlowIInv'
<1>1. scan' = [scan' EXCEPT !.to = scan.to'] /\ scan.to' \in (0..NumBlocks) \cup {None}
      /\ scan.label' \in Blocks \cup {None}
  BY DEF PlaceOK
<1>2. at' \in Blocks \cup {None}
  BY DEF PlaceOK, GraphOK
<1>3. FlowTypeOK'
  BY <1>1, <1>2 DEF GraphOK, PlaceOK, FlowTypeOK, ExitLists
<1>4. StreamOK'
  BY DEF GraphOK, PlaceOK, StreamOK
<1> QED BY <1>3, <1>4 DEF FlowIInv, FlowInv, GraphOK

(* A step that leaves the program alone leaves its graph as it is. *)
LEMMA GraphKept ==
  ASSUME FlowIInv, UNCHANGED <<code, exits, live, labelled>>
  PROVE  GraphOK'
<1>1. body' = body /\ term' = term /\ exits' = exits /\ live' = live /\ labelled' = labelled
  BY DEF code
<1>2. ExitsMatchCode'
  BY <1>1 DEF FlowIInv, FlowInv, ExitsMatchCode, Ways, NextLive
<1>3. LabelsMapped'
  BY <1>1 DEF FlowIInv, FlowInv, LabelsMapped
<1> QED BY <1>1, <1>2, <1>3 DEF FlowIInv, FlowInv, FlowTypeOK, StreamOK, ExitLists, GraphOK

(* What is the block of a pass does not get another instruction at its end than its
   exits say. *)
LEMMA Rewritten ==
  ASSUME FlowIInv, live = Blocks, labelled = Blocks, at \in Blocks,
         NEW t \in Terms, NEW e \in ExitLists,
         term' = [term EXCEPT ![at] = t], exits' = [exits EXCEPT ![at] = e],
         UNCHANGED <<body, live, labelled>>,
         ToSet(e) = WaysOf(t, at), Len(e) = 2 => e[1] # e[2],
         at = NumBlocks - 1 => t.op \in {"return", "none"}
  PROVE  GraphOK'
<1>1. term \in [Blocks -> Terms] /\ exits \in [Blocks -> ExitLists] /\ body \in [Blocks -> BOOLEAN]
  BY DEF FlowIInv, FlowInv, FlowTypeOK, ExitLists
<1>2. /\ term' \in [Blocks -> Terms] /\ exits' \in [Blocks -> ExitLists]
      /\ body' = body /\ live' = Blocks /\ labelled' = Blocks
  BY <1>1
<1>3. \A b \in Blocks : /\ term'[b] = IF b = at THEN t ELSE term[b]
                        /\ exits'[b] = IF b = at THEN e ELSE exits[b]
  BY <1>1
<1>4. ASSUME NEW b \in Blocks PROVE ToSet(exits'[b]) = WaysOf(term'[b], b)
  <2>1. ToSet(exits[b]) = WaysOf(term[b], b)
    BY WaysOfAll DEF FlowIInv, FlowInv, ExitsMatchCode
  <2> QED BY <1>3, <2>1
<1>5. \A b \in Blocks : Ways(b)' = WaysOf(term'[b], b)
  <2>1. ASSUME NEW b \in Blocks PROVE Ways(b)' = WaysOf(term'[b], b)
    <3>1. NextLive(b)' = IF b + 1 < NumBlocks THEN b + 1 ELSE None
      BY <1>2, NextOfAll DEF NextLive
    <3>2. b + 1 # None
      BY BlockFacts DEF None
    <3> QED BY <3>1, <3>2 DEF Ways, WaysOf
  <2> QED BY <2>1
<1>6. ExitsMatchCode'
  BY <1>2, <1>4, <1>5 DEF ExitsMatchCode
<1>7. LabelsMapped'
  BY <1>2, TermFacts DEF LabelsMapped
<1>8. term'[NumBlocks - 1].op \in {"return", "none"}
  <2>1. term[NumBlocks - 1].op \in {"return", "none"}
    BY DEF FlowIInv, StreamOK
  <2> QED BY <1>3, <2>1, BlockFacts
<1>9. \A b \in Blocks : Len(exits'[b]) = 2 => exits'[b][1] # exits'[b][2]
  <2>1. \A b \in Blocks : Len(exits[b]) = 2 => exits[b][1] # exits[b][2]
    BY DEF FlowIInv, StreamOK
  <2> QED BY <1>3, <2>1
<1> QED BY <1>1, <1>2, <1>6, <1>7, <1>8, <1>9, BlockFacts DEF GraphOK

(* Each pass in turn: decondition. *)
LEMMA DeconditionOK ==
  ASSUME FlowIInv, \/ DeconditionTaken \/ DeconditionNever \/ DeconditionSkip \/ DeconditionEnd
  PROVE  FlowIInv'
<1>1. /\ pass = "decondition" /\ live = Blocks /\ labelled = Blocks /\ used = {}
      /\ live' = live /\ labelled' = labelled /\ used' = used /\ scan' = scan /\ body' = body
      /\ \A b \in Blocks : TwoWay(b)
  BY DEF FlowIInv, StreamOK, TwoWayAhead, DeconditionTaken, DeconditionNever, DeconditionSkip,
         DeconditionEnd, EndOfPass, code
<1>2. CASE DeconditionTaken \/ DeconditionNever
  <2>1. at # None /\ GoOn /\ pass' = pass /\ ConstantBranch(at)
    BY <1>2 DEF DeconditionTaken, DeconditionNever
  <2>2. at \in Blocks /\ at' \in Blocks \cup {None}
    BY <2>1, GoesOn
  <2>3. Len(exits[at]) = 2
    BY <2>1 DEF ConstantBranch
  <2> DEFINE l == term[at].label
             n == at + 1
             i == FallThroughExit(at)
  <2>4. /\ term[at].op \in Conds /\ n \in Blocks /\ l # n /\ l \in Blocks
        /\ exits[at] = <<n, l>> \/ exits[at] = <<l, n>>
    BY <1>1, <2>2, <2>3, TwoExits, TermFacts, PlaceIs DEF GraphOK
  <2>5. Without(exits[at], i) = <<l>> /\ Without(exits[at], 3 - i) = <<n>>
    <3>1. CASE exits[at] = <<n, l>>
      <4>1. i = 1
        BY <2>4, <3>1, TwoExit DEF FallThroughExit
      <4>2. Without(<<n, l>>, 1) = <<l>> /\ Without(<<n, l>>, 2) = <<n>>
        BY <2>4, ExitFacts
      <4> QED BY <3>1, <4>1, <4>2
    <3>2. CASE exits[at] = <<l, n>>
      <4>1. i = 2
        BY <2>4, <3>2, TwoExit DEF FallThroughExit
      <4>2. Without(<<l, n>>, 2) = <<l>> /\ Without(<<l, n>>, 1) = <<n>>
        BY <2>4, ExitFacts
      <4> QED BY <3>2, <4>1, <4>2
    <3> QED BY <2>4, <3>1, <3>2
  <2>6. PICK t \in Terms, e \in ExitLists :
          /\ term' = [term EXCEPT ![at] = t] /\ exits' = [exits EXCEPT ![at] = e]
          /\ t.op \notin Conds /\ ToSet(e) = WaysOf(t, at) /\ Len(e) = 1
    <3>1. term \in [Blocks -> Terms] /\ exits \in [Blocks -> ExitLists]
      BY PlaceIs DEF GraphOK
    <3>2. CASE DeconditionTaken
      <4> DEFINE t == [op |-> "goto", reg |-> "zero", label |-> l]
      <4>1. t \in Terms /\ t.op \notin Conds /\ WaysOf(t, at) = {l}
        BY <2>4 DEF Terms, WaysOf, IsBranch, Conds
      <4>2. term' = [term EXCEPT ![at] = t]
        BY <2>2, <3>1, <3>2 DEF DeconditionTaken
      <4>3. exits' = [exits EXCEPT ![at] = <<l>>]
        BY <2>2, <2>5, <3>1, <3>2 DEF DeconditionTaken
      <4> QED BY <2>4, <4>1, <4>2, <4>3, OneExit
    <3>3. CASE DeconditionNever
      <4>1. Falls \in Terms /\ Falls.op \notin Conds /\ WaysOf(Falls, at) = {n}
        BY <2>4, BlockFacts DEF Terms, WaysOf, IsBranch, Conds, Falls
      <4>2. term' = [term EXCEPT ![at] = Falls]
        BY <3>3 DEF DeconditionNever
      <4>3. exits' = [exits EXCEPT ![at] = <<n>>]
        BY <2>2, <2>5, <3>1, <3>3 DEF DeconditionNever
      <4> QED BY <2>4, <4>1, <4>2, <4>3, OneExit
    <3> QED BY <1>2, <3>2, <3>3
  <2>7. at # NumBlocks - 1
    BY <2>2, <2>4, NotLast DEF IsBranch
  <2>8. GraphOK'
    <3>1. (Len(e) = 2 => e[1] # e[2]) /\ (at = NumBlocks - 1 => t.op \in {"return", "none"})
      BY <2>6, <2>7
    <3>2. term' = [term EXCEPT ![at] = t] /\ exits' = [exits EXCEPT ![at] = e] /\ ToSet(e) = WaysOf(t, at)
      BY <2>6
    <3> QED BY <1>1, <2>2, <3>1, <3>2, Rewritten
  <2>9. PlaceOK'
    BY <1>1, <2>1, <2>2, PlaceIs DEF PlaceOK
  <2>10. TwoWayAhead'
    <3>1. term \in [Blocks -> Terms]
      BY PlaceIs DEF GraphOK
    <3>2. \A b \in Blocks : TwoWay(b)'
      BY <1>1, <2>2, <2>6, <3>1 DEF TwoWay
    <3> QED BY <1>1, <2>1, <3>2 DEF TwoWayAhead
  <2>11. ScanOK' /\ DroppedOK'
    BY <1>1, <2>1 DEF ScanOK, DroppedOK
  <2> QED BY <2>8, <2>9, <2>10, <2>11, Assembled
<1>3. CASE DeconditionSkip
  <2>1. at # None /\ GoOn /\ pass' = pass /\ UNCHANGED <<code, exits, live, labelled>>
    BY <1>3 DEF DeconditionSkip
  <2>2. at' \in Blocks \cup {None}
    BY <2>1, GoesOn
  <2>3. GraphOK'
    BY <2>1, GraphKept
  <2>4. PlaceOK'
    BY <1>1, <2>1, <2>2, PlaceIs DEF PlaceOK
  <2>5. TwoWayAhead'
    BY <1>1, <2>1 DEF TwoWayAhead, TwoWay, code
  <2>6. ScanOK' /\ DroppedOK'
    BY <1>1, <2>1 DEF ScanOK, DroppedOK
  <2> QED BY <2>3, <2>4, <2>5, <2>6, Assembled
<1>4. CASE DeconditionEnd
  <2>1. at' = 0 /\ pass' = "thread" /\ UNCHANGED <<code, exits, live, labelled>>
    BY <1>4 DEF DeconditionEnd, EndOfPass
  <2>2. GraphOK'
    BY <2>1, GraphKept
  <2>3. PlaceOK'
    BY <1>1, <2>1, BlockFacts, PlaceIs DEF PlaceOK
  <2>4. TwoWayAhead'
    <3>1. \A b \in 0..(NumBlocks - 1) : b \in Blocks
      BY DEF Blocks
    <3> QED BY <1>1, <2>1, <3>1 DEF TwoWayAhead, TwoWay, code
  <2>5. ScanOK' /\ DroppedOK'
    BY <2>1 DEF ScanOK, DroppedOK
  <2> QED BY <2>2, <2>3, <2>4, <2>5, Assembled
<1> QED BY <1>2, <1>3, <1>4

(* Threading: the way that the scan has passed over grows by the block that it leaves. *)
LEMMA WayGrows ==
  ASSUME NEW P \in SUBSET Blocks, WayScanned(P),
         scan.to \in Blocks, Passable(scan.to), at \in Blocks, IsBranch(term[at]),
         NEW W \in SUBSET Blocks, W = P \cup {scan.to},
         UNCHANGED <<code, at>>, Node(scan'.to) = StepOf(scan.to),
         scan'.label = scan.label \/ scan'.label = StepOf(scan.to)
  PROVE  WayScanned(W)'
<1> DEFINE q == scan.to
           n == Node(scan'.to)
<1>1. Node(q) = q
  BY BlockFacts DEF Node
<1>2. body' = body /\ term' = term /\ at' = at
  BY DEF code
<1>3. \A p \in Blocks : (Passable(p)' <=> Passable(p)) /\ StepOf(p)' = StepOf(p)
  BY <1>2 DEF Passable, StepOf, Followed
<1>4. /\ \A p \in P : Passable(p) /\ StepOf(p) \in P \cup {q}
      /\ term[at].label \in P \cup {q}
      /\ at \in P => q \in P
      /\ scan.label # None => scan.label \in P \cup {q}
      /\ q \notin P => \A C \in SUBSET P : C # {} => \E p \in C : StepOf(p) \notin C
  BY <1>1 DEF WayScanned
<1>5. n = StepOf(q)
  OBVIOUS
<1>6. \A p \in W : Passable(p) /\ StepOf(p) \in W \cup {n}
  BY <1>4, <1>5
<1>7. at \in W => n \in W
  <2>1. CASE q \in P
    BY <1>4, <1>5, <2>1
  <2>2. CASE q \notin P /\ at = q
    <3>1. StepOf(q) = term[at].label
      <4>1. StepOf(q) = IF term[q].op = "none" THEN Node(q + 1) ELSE term[q].label
        BY DEF StepOf
      <4>2. CASE term[q].op # "none"
        BY <2>2, <4>1, <4>2
      <4>3. CASE term[q].op = "none"
        BY <2>2, <4>3 DEF IsBranch, Conds
      <4> QED BY <4>2, <4>3
    <3> QED BY <1>4, <1>5, <3>1
  <2> QED BY <1>4, <2>1, <2>2
<1>8. n \notin W => \A C \in SUBSET W : C # {} => \E p \in C : StepOf(p) \notin C
  <2> SUFFICES ASSUME n \notin W, NEW C \in SUBSET W, C # {} PROVE \E p \in C : StepOf(p) \notin C
    OBVIOUS
  <2>1. q \notin P
    BY <1>4, <1>5
  <2>2. CASE q \in C
    BY <1>5, <2>2
  <2>3. CASE q \notin C
    BY <1>4, <2>1, <2>3
  <2> QED BY <2>2, <2>3
<1>9. /\ \A p \in W : Passable(p)' /\ StepOf(p)' \in W \cup {n}
      /\ n \notin W => \A C \in SUBSET W : C # {} => \E p \in C : StepOf(p)' \notin C
  BY <1>3, <1>6, <1>8
<1>10. scan'.label # None => scan'.label \in W \cup {n}
  BY <1>4, <1>5
<1>11. term[at].label \in W \cup {n}
  BY <1>4
<1>12. WayScanned(W)' <=>
        /\ \A p \in W : Passable(p)' /\ StepOf(p)' \in W \cup {n}
        /\ term'[at'].label \in W \cup {n}
        /\ at' \in W => n \in W
        /\ scan'.label # None => scan'.label \in W \cup {n}
        /\ n \notin W => \A C \in SUBSET W : C # {} => \E p \in C : StepOf(p)' \notin C
  BY DEF WayScanned
<1> HIDE DEF n
<1> QED BY <1>2, <1>7, <1>9, <1>10, <1>11, <1>12

(* At the start of a scan nothing is passed over yet. *)
LEMMA ThreadBeginOK ==
  ASSUME FlowIInv, ThreadBegin
  PROVE  FlowIInv'
<1> DEFINE l == term[at].label
<1>1. /\ pass = "thread" /\ at # None /\ IsBranch(term[at]) /\ pass' = "scan" /\ at' = at
      /\ scan' = [to |-> l, seen |-> {at}, label |-> None]
      /\ UNCHANGED <<code, exits, live, labelled>> /\ used' = used
      /\ live' = live /\ labelled' = labelled
  BY DEF ThreadBegin
<1>2. live = Blocks /\ labelled = Blocks /\ used = {} /\ at \in Blocks
  BY <1>1, PlaceIs DEF PlaceOK, GraphOK
<1>3. l \in Blocks
  BY <1>2, TermFacts, PlaceIs DEF GraphOK
<1>4. scan'.to = l /\ scan'.label = None /\ Node(l) = l /\ l \in 0..NumBlocks /\ l # None
  BY <1>1, <1>3, BlockFacts DEF Node
<1>5. GraphOK'
  BY <1>1, GraphKept
<1>6. PlaceOK'
  <2>1. scan' \in [to : (0..NumBlocks) \cup {None}, seen : SUBSET Blocks, label : Blocks \cup {None}]
    BY <1>1, <1>2, <1>4
  <2> QED BY <1>1, <1>2, <2>1 DEF PlaceOK
<1>7. TwoWayAhead'
  BY <1>1 DEF FlowIInv, TwoWayAhead, TwoWay, code
<1>8. ScanOK'
  <2>1. term'[at'].label = l
    BY <1>1 DEF code
  <2>2. WayScanned({})'
    BY <1>4, <2>1 DEF WayScanned
  <2> QED BY <1>1, <1>4, <2>2 DEF ScanOK, code
<1>9. DroppedOK'
  BY <1>1 DEF DroppedOK
<1> QED BY <1>5, <1>6, <1>7, <1>8, <1>9, Assembled

(* Passing over a block. *)
LEMMA ScanStepOK ==
  ASSUME FlowIInv, ScanFallThrough \/ ScanFollow
  PROVE  FlowIInv'
<1> DEFINE q == scan.to
<1>1. /\ Scanning /\ pass' = pass /\ at' = at /\ UNCHANGED <<code, exits, live, labelled>>
      /\ live' = live /\ labelled' = labelled /\ used' = used /\ UNCHANGED <<code, at>>
  BY DEF ScanFallThrough, ScanFollow
<1>2. pass = "scan" /\ q < NumBlocks /\ ~body[q]
  BY <1>1 DEF Scanning
<1>3. /\ live = Blocks /\ labelled = Blocks /\ used = {} /\ at \in Blocks
      /\ at # None /\ IsBranch(term[at]) /\ q # None
      /\ scan \in [to : (0..NumBlocks) \cup {None}, seen : SUBSET Blocks, label : Blocks \cup {None}]
  BY <1>2, PlaceIs DEF PlaceOK, GraphOK, FlowIInv, ScanOK
<1>4. q \in Blocks
  BY <1>2, <1>3, BlockFacts
<1>5. PICK P \in SUBSET Blocks : WayScanned(P)
  BY <1>2 DEF FlowIInv, ScanOK
<1>6. /\ Passable(q)
      /\ Node(scan'.to) = StepOf(q)
      /\ scan'.label = scan.label \/ scan'.label = StepOf(q)
      /\ scan' \in [to : (0..NumBlocks) \cup {None}, seen : SUBSET Blocks, label : Blocks \cup {None}]
      /\ scan'.to # None
  <2>1. CASE ScanFallThrough
    <3>1. term[q].op = "none" /\ scan' = [scan EXCEPT !.to = q + 1]
      BY <2>1 DEF ScanFallThrough
    <3>2. scan'.to = q + 1 /\ scan'.label = scan.label /\ scan'.seen = scan.seen
      BY <1>3, <3>1
    <3>3. q + 1 \in 0..NumBlocks /\ q + 1 # None
      BY <1>4, BlockFacts DEF None
    <3>4. Passable(q) /\ StepOf(q) = Node(q + 1)
      BY <1>2, <3>1 DEF Passable, StepOf
    <3>5. scan' \in [to : (0..NumBlocks) \cup {None}, seen : SUBSET Blocks, label : Blocks \cup {None}]
      BY <1>3, <3>1, <3>3
    <3> QED BY <3>2, <3>3, <3>4, <3>5
  <2>2. CASE ScanFollow
    <3> DEFINE l == term[q].label
    <3>1. Followed(term[q]) /\ scan' = [to |-> l, seen |-> scan.seen \cup {l}, label |-> l]
      BY <2>2 DEF ScanFollow, NowSeen
    <3>2. l \in Blocks /\ l \in 0..NumBlocks /\ Node(l) = l /\ l # None
      <4>1. l \in Blocks
        BY <1>4, TermFacts, PlaceIs DEF GraphOK
      <4> QED BY <4>1, BlockFacts DEF Node
    <3>3. term[q].op # "none"
      BY <1>3, <3>1 DEF Followed, IsBranch, Conds
    <3>4. Passable(q) /\ StepOf(q) = l
      BY <1>2, <3>1, <3>3 DEF Passable, StepOf
    <3>5. scan' \in [to : (0..NumBlocks) \cup {None}, seen : SUBSET Blocks, label : Blocks \cup {None}]
      BY <1>3, <3>1, <3>2
    <3> QED BY <3>1, <3>2, <3>4, <3>5
  <2> QED BY <2>1, <2>2
<1>7. GraphOK'
  BY <1>1, GraphKept
<1>8. PlaceOK'
  BY <1>1, <1>2, <1>3, <1>6 DEF PlaceOK
<1>9. TwoWayAhead'
  BY <1>1 DEF FlowIInv, TwoWayAhead, TwoWay, code
<1>10. ScanOK'
  <2>1. PICK W \in SUBSET Blocks : W = P \cup {q}
    BY <1>4
  <2>2. WayScanned(W)'
    BY <1>1, <1>3, <1>4, <1>5, <1>6, <2>1, WayGrows
  <2> QED BY <1>1, <1>3, <1>6, <2>2 DEF ScanOK, code
<1>11. DroppedOK'
  BY <1>1, <1>2 DEF DroppedOK
<1> QED BY <1>7, <1>8, <1>9, <1>10, <1>11, Assembled

(* Giving a branch a label, and the exits which are left an exit to it. *)
LEMMA Relabelled ==
  ASSUME FlowIInv, live = Blocks, NEW b \in Blocks, IsBranch(term[b]), TwoWay(b), NEW l \in Blocks
  PROVE  LET e == With(Threaded(b), l) IN
         /\ e \in ExitLists
         /\ ToSet(e) = WaysOf([term[b] EXCEPT !.label = l], b)
         /\ Len(e) = 2 => e[1] # e[2]
<1> DEFINE t == [term[b] EXCEPT !.label = l]
           n == b + 1
           e == With(Threaded(b), l)
<1>1. n \in Blocks /\ n < NumBlocks
  BY NotLast, BlockFacts
<1>2. t.op = term[b].op /\ t.label = l
  BY TermFacts, PlaceIs DEF GraphOK
<1>3. WaysOf(t, b) = IF term[b].op = "goto" THEN {l} ELSE {n, l}
  BY <1>1, <1>2 DEF WaysOf, IsBranch, Conds
<1>4. Threaded(b) = IF term[b].op = "goto" THEN <<>> ELSE <<n>>
  BY ThreadedFacts
<1>5. e = IF term[b].op = "goto" THEN <<l>> ELSE IF n = l THEN <<n>> ELSE <<n, l>>
  <2>1. With(<<>>, l) = <<l>> /\ With(<<n>>, l) = IF n = l THEN <<n>> ELSE <<n, l>>
    BY <1>1, ExitFacts
  <2> QED BY <1>4, <2>1
<1> HIDE DEF t, n, e
<1>6. e \in ExitLists /\ ToSet(e) = WaysOf(t, b) /\ (Len(e) = 2 => e[1] # e[2])
  <2>1. CASE e = <<l>>
    <3>1. e \in ExitLists /\ ToSet(e) = {l} /\ Len(e) = 1
      BY <2>1, OneExit
    <3>2. e = <<n>> => l = n
      BY <2>1
    <3>3. e # <<n, l>>
      BY <1>1, <3>1, TwoExit
    <3> QED BY <1>3, <1>5, <3>1, <3>2, <3>3
  <2>2. CASE e = <<n, l>> /\ n # l /\ term[b].op # "goto"
    BY <1>1, <1>3, <2>2, TwoExit
  <2> QED BY <1>5, <2>1, <2>2
<1> QED BY <1>6 DEF e, t

(* Threading goes on to the next block, with or without a new label for the branch. *)
LEMMA ThreadOn ==
  ASSUME FlowIInv, pass \in {"thread", "scan"}, at # None, GoOn, pass' = "thread",
         UNCHANGED <<body, live, labelled, used>>, scan' = scan \/ scan' = NoScan,
         \/ UNCHANGED <<term, exits>>
         \/ \E l \in Blocks :
              /\ IsBranch(term[at])
              /\ exits' = [exits EXCEPT ![at] = With(Threaded(at), l)]
              /\ term' = [term EXCEPT ![at].label = l]
         \/ /\ IsBranch(term[at])
            /\ exits' = [exits EXCEPT ![at] = With(Threaded(at), term[at].label)]
            /\ term' = term
  PROVE  FlowIInv'
<1>1. /\ live = Blocks /\ labelled = Blocks /\ used = {} /\ at \in Blocks
      /\ live' = live /\ labelled' = labelled /\ used' = used /\ body' = body
      /\ at' \in Blocks \cup {None} /\ (at' # None => at' > at)
      /\ term \in [Blocks -> Terms] /\ exits \in [Blocks -> ExitLists]
  BY GoesOn, PlaceIs DEF PlaceOK, GraphOK
<1>2. at \in at..(NumBlocks - 1) /\ at \in Nat /\ NumBlocks \in Nat
  BY <1>1, BlockFacts
<1>3. \A b \in at..(NumBlocks - 1) : TwoWay(b)
  BY DEF FlowIInv, TwoWayAhead
<1>4. TwoWay(at)
  BY <1>2, <1>3
<1>5. ASSUME NEW l \in Blocks, IsBranch(term[at]),
             exits' = [exits EXCEPT ![at] = With(Threaded(at), l)],
             term' = [term EXCEPT ![at].label = l]
      PROVE  GraphOK' /\ \A b \in Blocks : b # at => term'[b] = term[b]
  <2> DEFINE t == [term[at] EXCEPT !.label = l]
             e == With(Threaded(at), l)
  <2>1. t \in Terms /\ t.op = term[at].op
    BY <1>1, <1>5, TermFacts
  <2>2. e \in ExitLists /\ ToSet(e) = WaysOf(t, at) /\ (Len(e) = 2 => e[1] # e[2])
    BY <1>1, <1>4, <1>5, Relabelled
  <2>3. term' = [term EXCEPT ![at] = t] /\ exits' = [exits EXCEPT ![at] = e]
    BY <1>1, <1>5
  <2>4. at # NumBlocks - 1
    BY <1>1, <1>5, NotLast
  <2> HIDE DEF t, e
  <2>5. GraphOK'
    BY <1>1, <2>1, <2>2, <2>3, <2>4, Rewritten
  <2> QED BY <1>1, <2>3, <2>5
<1>6. GraphOK' /\ \A b \in Blocks : b # at => term'[b] = term[b]
  <2>1. CASE UNCHANGED <<term, exits>>
    BY <2>1, GraphKept DEF code
  <2>2. CASE /\ IsBranch(term[at])
             /\ exits' = [exits EXCEPT ![at] = With(Threaded(at), term[at].label)]
             /\ term' = term
    <3>1. term[at].label \in Blocks
      BY <1>1, TermFacts
    <3>2. term' = [term EXCEPT ![at].label = term[at].label]
      <4>1. [term[at] EXCEPT !.label = term[at].label] = term[at]
        BY <1>1 DEF Terms, Falls
      <4> QED BY <1>1, <2>2, <4>1
    <3> QED BY <1>5, <2>2, <3>1, <3>2
  <2> QED BY <1>5, <2>1, <2>2
<1>7. PlaceOK'
  <2>1. scan' \in [to : (0..NumBlocks) \cup {None}, seen : SUBSET Blocks, label : Blocks \cup {None}]
    BY PlaceIs DEF PlaceOK, NoScan
  <2> QED BY <1>1, <2>1 DEF PlaceOK
<1>8. TwoWayAhead'
  <2> SUFFICES ASSUME at' # None, NEW b \in at'..(NumBlocks - 1) PROVE TwoWay(b)'
    BY DEF TwoWayAhead
  <2>1. at' \in Nat /\ at' > at
    BY <1>1, BlockFacts
  <2>2. b \in at..(NumBlocks - 1) /\ b # at /\ b \in Blocks
    BY <1>2, <2>1, BlockFacts DEF Blocks
  <2> QED BY <1>3, <1>6, <2>2 DEF TwoWay
<1>9. ScanOK' /\ DroppedOK'
  BY DEF ScanOK, DroppedOK
<1> QED BY <1>6, <1>7, <1>8, <1>9, Assembled

(* The steps of threading that go on to the next block. *)
LEMMA ThreadOK ==
  ASSUME FlowIInv, \/ ThreadSkip \/ ScanCycle \/ ThreadNothing \/ ThreadBranch \/ ThreadRefused
  PROVE  FlowIInv'
<1>1. CASE ThreadSkip
  BY <1>1, ThreadOn DEF ThreadSkip, code
<1>2. pass = "scan" => at # None /\ IsBranch(term[at])
  BY DEF FlowIInv, ScanOK
<1>3. CASE ScanCycle
  BY <1>2, <1>3, ThreadOn DEF ScanCycle, EndThread, Scanning
<1>4. CASE ThreadNothing
  BY <1>2, <1>4, ThreadOn DEF ThreadNothing, EndThread, ScanStops
<1>5. CASE ThreadBranch
  <2>1. scan.label \in Blocks
    BY <1>5, PlaceIs DEF ThreadBranch, PlaceOK
  <2> QED BY <1>2, <1>5, <2>1, ThreadOn DEF ThreadBranch, EndThread, ScanStops
<1>6. CASE ThreadRefused
  BY <1>2, <1>6, ThreadOn DEF ThreadRefused, EndThread, ScanStops
<1> QED BY <1>1, <1>3, <1>4, <1>5, <1>6

(* The end of threading. *)
LEMMA ThreadEndOK ==
  ASSUME FlowIInv, ThreadEnd
  PROVE  FlowIInv'
<1>1. /\ pass = "thread" /\ at = None /\ pass' = "drop" /\ at' = 0
      /\ UNCHANGED <<code, exits, live, labelled>> /\ scan' = scan /\ used' = used
      /\ live' = live /\ labelled' = labelled
  BY DEF ThreadEnd, EndOfPass
<1>2. GraphOK'
  BY <1>1, GraphKept
<1>3. PlaceOK'
  BY <1>1, BlockFacts, PlaceIs DEF PlaceOK
<1>4. TwoWayAhead' /\ ScanOK' /\ DroppedOK'
  BY <1>1 DEF TwoWayAhead, ScanOK, DroppedOK
<1> QED BY <1>2, <1>3, <1>4, Assembled

(* Dropping dead blocks: what is kept is the least set with block 0 and the exits of
   its blocks. *)
LEMMA ReachedFacts ==
  ASSUME FlowIInv, live = Blocks
  PROVE  /\ Reached \subseteq Blocks /\ 0 \in Reached /\ ExitsClosed(Reached)
         /\ \A D \in SUBSET Reached : 0 \in D /\ ExitsClosed(D) => D = Reached
<1> DEFINE Closed(C) == 0 \in C /\ ExitsClosed(C)
           K == {b \in live : \A D \in SUBSET live : Closed(D) => b \in D}
<1>1. \A b \in Blocks : ToSet(exits[b]) \subseteq Blocks
  <2>1. ASSUME NEW b \in Blocks PROVE ToSet(exits[b]) \subseteq Blocks
    <3>1. exits[b] \in ExitLists
      BY PlaceIs DEF GraphOK
    <3> QED BY <3>1, ExitCases, NoExit, OneExit, TwoExit
  <2> QED BY <2>1
<1>2. 0 \in K
  BY BlockFacts
<1>3. ExitsClosed(K)
  <2> SUFFICES ASSUME NEW b \in K, NEW x \in ToSet(exits[b]) PROVE x \in K
    BY DEF ExitsClosed
  <2>1. x \in live
    BY <1>1
  <2>2. ASSUME NEW D \in SUBSET live, Closed(D) PROVE x \in D
    <3>1. b \in D
      BY <2>2
    <3> QED BY <2>2, <3>1 DEF ExitsClosed
  <2> QED BY <2>1, <2>2
<1>4. \A D \in SUBSET K : Closed(D) => D = K
  <2> SUFFICES ASSUME NEW D \in SUBSET K, Closed(D) PROVE K \subseteq D
    OBVIOUS
  <2>1. D \in SUBSET live
    OBVIOUS
  <2> QED BY <2>1
<1>5. K \in SUBSET live
  OBVIOUS
<1> HIDE DEF K
<1>6. \E C \in SUBSET live : 0 \in C /\ ExitsClosed(C) /\ \A D \in SUBSET C : 0 \in D /\ ExitsClosed(D) => D = C
  BY <1>2, <1>3, <1>4, <1>5
<1>7. /\ Reached \in SUBSET live /\ 0 \in Reached /\ ExitsClosed(Reached)
      /\ \A D \in SUBSET Reached : 0 \in D /\ ExitsClosed(D) => D = Reached
  BY <1>6 DEF Reached
<1> QED BY <1>7

(* The blocks that are kept go where they went. *)
LEMMA KeptWays ==
  ASSUME FlowIInv, live = Blocks, NEW S \in SUBSET Blocks, ExitsClosed(S), NEW b \in S
  PROVE  /\ IsBranch(term[b]) => term[b].label \in S
         /\ term[b].op \in {"none"} \cup Conds => NextIn(S, b) = NextLive(b)
<1>1. ToSet(exits[b]) = WaysOf(term[b], b) /\ ToSet(exits[b]) \subseteq S
  BY WaysOfAll DEF ExitsClosed, FlowIInv, FlowInv, ExitsMatchCode
<1>2. ASSUME term[b].op \in {"none"} \cup Conds PROVE NextIn(S, b) = NextLive(b)
  <2>1. NextLive(b) = IF b + 1 < NumBlocks THEN b + 1 ELSE None
    BY WaysOfAll
  <2>2. CASE b + 1 < NumBlocks
    <3>1. b + 1 \in S
      BY <1>1, <1>2, <2>2 DEF WaysOf
    <3>2. b + 1 > b /\ \A d \in S : d > b => b + 1 <= d
      BY BlockFacts
    <3>3. NextIn(S, b) = b + 1
      BY <3>1, <3>2, NextIs
    <3> QED BY <2>1, <2>2, <3>3
  <2>3. CASE ~(b + 1 < NumBlocks)
    <3>1. \A c \in S : ~(c > b)
      BY <2>3, BlockFacts
    <3>2. NextIn(S, b) = None
      BY <3>1, NextFacts
    <3> QED BY <2>1, <2>3, <3>2
  <2> QED BY <2>2, <2>3
<1> QED BY <1>1, <1>2 DEF WaysOf

(* So dropping the others keeps the graph, and leaves nothing that is not reached. *)
LEMMA DropOK ==
  ASSUME FlowIInv, DropDeadBlocks
  PROVE  FlowIInv'
<1>1. /\ live = Blocks /\ labelled = Blocks /\ used = {} /\ at = 0
      /\ pass' = "branches" /\ at' = 0 /\ scan' = scan /\ used' = {}
  BY PlaceIs DEF PlaceOK, DropDeadBlocks
<1>2. /\ live' \subseteq Blocks /\ 0 \in live' /\ ExitsClosed(live')
      /\ \A D \in SUBSET live' : 0 \in D /\ ExitsClosed(D) => D = live'
  BY <1>1, ReachedFacts DEF DropDeadBlocks
<1>3. /\ labelled' = live'
      /\ \A b \in Blocks : /\ term'[b] = IF b \in live' THEN term[b] ELSE Falls
                           /\ exits'[b] = IF b \in live' THEN exits[b] ELSE <<>>
      /\ body' = [b \in Blocks |-> body[b] /\ b \in live']
      /\ term' = [b \in Blocks |-> term'[b]] /\ exits' = [b \in Blocks |-> exits'[b]]
  BY <1>1, <1>2 DEF DropDeadBlocks
<1>4. term' \in [Blocks -> Terms] /\ exits' \in [Blocks -> ExitLists] /\ body' \in [Blocks -> BOOLEAN]
  <2>1. term \in [Blocks -> Terms] /\ exits \in [Blocks -> ExitLists]
    BY PlaceIs DEF GraphOK
  <2>2. Falls \in Terms
    BY DEF Terms
  <2>3. \A b \in Blocks : term'[b] \in Terms
    BY <1>3, <2>1, <2>2
  <2>4. \A b \in Blocks : exits'[b] \in ExitLists
    BY <1>3, <2>1, NoExit
  <2> QED BY <1>3, <2>3, <2>4
<1>5. ExitsMatchCode'
  <2> SUFFICES ASSUME NEW b \in live' PROVE ToSet(exits'[b]) = Ways(b)'
    BY DEF ExitsMatchCode
  <2>1. ToSet(exits[b]) = Ways(b)
    BY <1>1, <1>2 DEF FlowIInv, FlowInv, ExitsMatchCode
  <2>2. b \in Blocks /\ exits'[b] = exits[b] /\ term'[b] = term[b]
    BY <1>2, <1>3
  <2>3. term[b].op \in {"none"} \cup Conds => NextLive(b)' = NextLive(b)
    BY <1>1, <1>2, KeptWays DEF NextLive
  <2> QED BY <2>1, <2>2, <2>3 DEF Ways
<1>6. LabelsMapped'
  <2> SUFFICES ASSUME NEW b \in live', IsBranch(term'[b]) PROVE term'[b].label \in live'
    BY <1>3 DEF LabelsMapped
  <2> QED BY <1>1, <1>2, <1>3, KeptWays
<1>7. GraphOK'
  <2>1. term'[NumBlocks - 1].op \in {"return", "none"}
    <3>1. term[NumBlocks - 1].op \in {"return", "none"}
      BY PlaceIs DEF GraphOK
    <3> QED BY <1>3, <3>1, BlockFacts DEF Falls
  <2>2. \A b \in Blocks : Len(exits'[b]) = 2 => exits'[b][1] # exits'[b][2]
    <3>1. \A b \in Blocks : Len(exits[b]) = 2 => exits[b][1] # exits[b][2]
      BY PlaceIs DEF GraphOK
    <3> QED BY <1>3, <3>1, NoExit
  <2> QED BY <1>2, <1>3, <1>4, <1>5, <1>6, <2>1, <2>2 DEF GraphOK
<1>8. PlaceOK'
  BY <1>1, <1>2, PlaceIs DEF PlaceOK
<1>9. TwoWayAhead' /\ ScanOK'
  BY <1>1 DEF TwoWayAhead, ScanOK
<1>10. DroppedOK'
  <2>1. \A C \in SUBSET live' : 0 \in C /\ ExitsClosed(C)' => C = live'
    <3>1. ASSUME NEW C \in SUBSET live', ExitsClosed(C)' PROVE ExitsClosed(C)
      BY <1>2, <1>3, <3>1 DEF ExitsClosed
    <3> QED BY <1>2, <3>1
  <2>2. Behind' = {}
    <3>1. Behind' = {b \in live' : b < 0}
      <4>1. None # 0
        BY BlockFacts
      <4> QED BY <1>1, <4>1 DEF Behind
    <3>2. \A b \in live' : ~(b < 0)
      BY <1>2, BlockFacts
    <3> QED BY <3>1, <3>2
  <2>3. LabelsOf(Behind)' = {}
    BY <2>2 DEF LabelsOf
  <2> QED BY <1>1, <1>3, <2>1, <2>2, <2>3 DEF DroppedOK
<1> QED BY <1>7, <1>8, <1>9, <1>10, Assembled

(* The last pass: what is behind it grows by the block that it leaves. *)
LEMMA BranchOn ==
  ASSUME FlowIInv, GraphOK', pass = "branches", at # None, GoOn,
         UNCHANGED <<exits, live, labelled, pass, scan>>,
         \A b \in live : b # at => term'[b] = term[b],
         IsBranch(term'[at]) => term'[at].label # NextLive(at),
         used' = used \cup (IF IsBranch(term'[at]) THEN {term'[at].label} ELSE {})
  PROVE  FlowIInv'
<1>1. /\ at \in live /\ at \in Blocks /\ at' \in live \cup {None} /\ at' = NextLive(at)
      /\ live \in SUBSET Blocks /\ live' = live /\ labelled' = labelled /\ exits' = exits
      /\ pass' = pass /\ scan' = scan
  BY GoesOn, PlaceIs DEF GraphOK, GoOn
<1>2. /\ \A C \in SUBSET live : 0 \in C /\ ExitsClosed(C) => C = live
      /\ \A b \in Behind : IsBranch(term[b]) => term[b].label # NextLive(b)
      /\ labelled = live /\ used = LabelsOf(Behind)
  BY DEF FlowIInv, DroppedOK
<1>3. Behind = {b \in live : b < at}
  BY DEF Behind
<1>4. Behind' = {b \in live : b < at} \cup {at}
  <2>1. Behind' = {b \in live : at' = None \/ b < at'}
    BY <1>1 DEF Behind
  <2>2. \A b \in live : (at' = None \/ b < at') <=> (b = at \/ b < at)
    BY <1>1, NextPassed DEF NextLive
  <2>3. Behind' = {b \in live : b = at \/ b < at}
    BY <2>1, <2>2
  <2> QED BY <1>1, <2>3
<1>5. \A b \in Behind : b # at /\ b \in live /\ term'[b] = term[b]
  <2>1. at \in Nat
    BY <1>1, BlockFacts
  <2> QED BY <1>3, <2>1
<1>6. \A b \in live : NextLive(b)' = NextLive(b)
  BY <1>1 DEF NextLive
<1>7. \A b \in Behind' : IsBranch(term'[b]) => term'[b].label # NextLive(b)'
  BY <1>1, <1>2, <1>3, <1>4, <1>5, <1>6
<1>8. LabelsOf(Behind)' = used'
  <2> DEFINE A == {b \in live : b < at}
  <2>1. LabelsOf(Behind)' = {term'[b].label : b \in {c \in A \cup {at} : IsBranch(term'[c])}}
    BY <1>4 DEF LabelsOf
  <2>2. used = {term[b].label : b \in {c \in A : IsBranch(term[c])}}
    BY <1>2, <1>3 DEF LabelsOf
  <2>3. \A b \in A : term'[b] = term[b]
    BY <1>3, <1>5
  <2> HIDE DEF A
  <2>4. {c \in A \cup {at} : IsBranch(term'[c])}
          = {c \in A : IsBranch(term[c])} \cup (IF IsBranch(term'[at]) THEN {at} ELSE {})
    BY <2>3
  <2>5. used = {term'[b].label : b \in {c \in A : IsBranch(term[c])}}
    BY <2>2, <2>3
  <2> DEFINE B == {c \in A : IsBranch(term[c])}
  <2> HIDE DEF B
  <2>6. CASE IsBranch(term'[at])
    <3>1. LabelsOf(Behind)' = {term'[b].label : b \in B \cup {at}}
      BY <2>1, <2>4, <2>6 DEF B
    <3>2. used' = {term'[b].label : b \in B} \cup {term'[at].label}
      BY <2>5, <2>6 DEF B
    <3> QED BY <3>1, <3>2
  <2>7. CASE ~IsBranch(term'[at])
    BY <2>1, <2>4, <2>5, <2>7
  <2> QED BY <2>6, <2>7
<1>9. PlaceOK'
  <2>1. used' \subseteq Blocks
    <3>1. used \subseteq Blocks
      BY PlaceIs DEF PlaceOK
    <3>2. term'[at].label \in Blocks
      BY <1>1, TermFacts DEF GraphOK
    <3> QED BY <3>1, <3>2
  <2> QED BY <1>1, <2>1, PlaceIs DEF PlaceOK
<1>10. DroppedOK'
  <2>1. \A C \in SUBSET live' : 0 \in C /\ ExitsClosed(C)' => C = live'
    BY <1>1, <1>2 DEF ExitsClosed
  <2> QED BY <1>1, <1>2, <1>7, <1>8, <2>1 DEF DroppedOK
<1>11. TwoWayAhead' /\ ScanOK'
  BY <1>1 DEF TwoWayAhead, ScanOK
<1> QED BY <1>9, <1>10, <1>11, Assembled

(* A branch to the next block leaves the block with the exit that it had. *)
LEMMA BranchToNextGraph ==
  ASSUME FlowIInv, BranchToNext
  PROVE  GraphOK'
<1>1. /\ at \in live /\ at \in Blocks /\ live \in SUBSET Blocks /\ live' = live /\ labelled' = labelled
      /\ exits' = exits /\ body' = body
      /\ term' = [term EXCEPT ![at] = Falls] /\ IsBranch(term[at]) /\ term[at].label = NextLive(at)
      /\ term \in [Blocks -> Terms]
  BY GoesOn, PlaceIs DEF GraphOK, BranchToNext
<1>2. /\ term' \in [Blocks -> Terms]
      /\ \A b \in Blocks : term'[b] = IF b = at THEN Falls ELSE term[b]
  BY <1>1 DEF Terms
<1>3. NextLive(at) \in Blocks /\ NextLive(at) # None
  <2>1. term[at].label \in Blocks
    BY <1>1, TermFacts
  <2> QED BY <1>1, <2>1, BlockFacts
<1>4. ASSUME NEW b \in live PROVE ToSet(exits'[b]) = Ways(b)'
  <2>1. ToSet(exits[b]) = Ways(b)
    BY PlaceIs DEF GraphOK, ExitsMatchCode
  <2>2. NextLive(b)' = NextLive(b)
    BY <1>1 DEF NextLive
  <2>3. CASE b = at
    <3>1. Ways(at) = {NextLive(at)}
      BY <1>1 DEF Ways
    <3>2. Ways(b)' = {NextLive(at)}
      BY <1>1, <1>2, <1>3, <2>2, <2>3 DEF Ways, Falls, IsBranch, Conds
    <3> QED BY <1>1, <2>1, <2>3, <3>1, <3>2
  <2>4. CASE b # at
    <3>1. b \in Blocks
      BY <1>1
    <3> QED BY <1>1, <1>2, <2>1, <2>2, <2>4, <3>1 DEF Ways
  <2> QED BY <2>3, <2>4
<1>5. ExitsMatchCode'
  BY <1>1, <1>4 DEF ExitsMatchCode
<1>6. LabelsMapped'
  BY <1>1, <1>2, PlaceIs DEF GraphOK, LabelsMapped, Falls, IsBranch, Conds
<1>7. term'[NumBlocks - 1].op \in {"return", "none"}
  BY <1>2, BlockFacts, PlaceIs DEF GraphOK, Falls
<1> QED BY <1>1, <1>2, <1>5, <1>6, <1>7, PlaceIs DEF GraphOK

(* Each step of the last pass keeps the invariant. *)
LEMMA BranchesOK ==
  ASSUME FlowIInv, BranchToNext \/ BranchKept \/ BranchSkip
  PROVE  FlowIInv'
<1>1. CASE BranchToNext
  <2>1. at \in Blocks /\ term \in [Blocks -> Terms] /\ live \subseteq Blocks
    BY <1>1, GoesOn, PlaceIs DEF BranchToNext, GraphOK
  <2>2. \A b \in live : b # at => term'[b] = term[b]
    BY <1>1, <2>1 DEF BranchToNext
  <2>3. ~IsBranch(term'[at])
    BY <1>1, <2>1 DEF BranchToNext, Falls, IsBranch, Conds
  <2>4. GraphOK'
    BY <1>1, BranchToNextGraph
  <2> QED BY <1>1, <2>2, <2>3, <2>4, BranchOn DEF BranchToNext
<1>2. CASE BranchKept \/ BranchSkip
  <2>1. UNCHANGED <<code, exits, live, labelled>>
    BY <1>2 DEF BranchKept, BranchSkip
  <2>2. GraphOK'
    BY <2>1, GraphKept
  <2>3. CASE BranchKept
    BY <2>1, <2>2, <2>3, BranchOn DEF BranchKept, UsedWith, code
  <2>4. CASE BranchSkip
    BY <2>1, <2>2, <2>4, BranchOn DEF BranchSkip, code
  <2> QED BY <1>2, <2>3, <2>4
<1> QED BY <1>1, <1>2

(* The labels that are dropped are the ones no branch names. *)
LEMMA DropLabelsOK ==
  ASSUME FlowIInv, DropLabels
  PROVE  FlowIInv'
<1>1. /\ pass = "branches" /\ at = None /\ pass' = "done" /\ at' = 0
      /\ labelled' = labelled \cap used /\ used' = {} /\ scan' = scan
      /\ body' = body /\ term' = term /\ exits' = exits /\ live' = live
  BY DEF DropLabels, EndOfPass, code
<1>2. /\ \A C \in SUBSET live : 0 \in C /\ ExitsClosed(C) => C = live
      /\ \A b \in live : IsBranch(term[b]) => term[b].label # NextLive(b)
      /\ labelled = live /\ used = LabelsOf(live)
  BY <1>1 DEF FlowIInv, DroppedOK, Behind
<1>3. labelled' = LabelsOf(live)
  <2>1. \A b \in live : IsBranch(term[b]) => term[b].label \in live
    BY DEF FlowIInv, FlowInv, LabelsMapped
  <2>2. LabelsOf(live) \subseteq live
    BY <2>1 DEF LabelsOf
  <2> QED BY <1>1, <1>2, <2>2
<1>4. GraphOK'
  <2>1. ExitsMatchCode'
    BY <1>1, PlaceIs DEF GraphOK, ExitsMatchCode, Ways, NextLive
  <2>2. LabelsMapped'
    <3>1. \A b \in live : IsBranch(term[b]) => term[b].label \in LabelsOf(live)
      BY DEF LabelsOf
    <3>2. \A b \in live : IsBranch(term[b]) => term[b].label \in live
      BY DEF FlowIInv, FlowInv, LabelsMapped
    <3> QED BY <1>1, <1>3, <3>1, <3>2 DEF LabelsMapped
  <2>3. labelled' \subseteq Blocks
    BY <1>1, PlaceIs DEF GraphOK
  <2> QED BY <1>1, <2>1, <2>2, <2>3, PlaceIs DEF GraphOK
<1>5. PlaceOK'
  <2>1. 0 \in live
    BY PlaceIs DEF GraphOK
  <2> QED BY <1>1, <2>1, PlaceIs DEF PlaceOK
<1>6. TwoWayAhead' /\ ScanOK'
  BY <1>1 DEF TwoWayAhead, ScanOK
<1>7. DroppedOK'
  <2>1. \A C \in SUBSET live' : 0 \in C /\ ExitsClosed(C)' => C = live'
    BY <1>1, <1>2 DEF ExitsClosed
  <2>2. Behind' = live
    BY <1>1 DEF Behind
  <2>3. \A b \in Behind' : IsBranch(term'[b]) => term'[b].label # NextLive(b)'
    BY <1>1, <1>2, <2>2 DEF NextLive
  <2>4. LabelsOf(live)' = LabelsOf(live)
    BY <1>1 DEF LabelsOf
  <2> QED BY <1>1, <1>3, <2>1, <2>3, <2>4 DEF DroppedOK
<1> QED BY <1>4, <1>5, <1>6, <1>7, Assembled

(****************************** Theorems *********************************)

(* A step that changes nothing keeps it. *)
LEMMA FlowStutter ==
  ASSUME FlowIInv, UNCHANGED flowVars
  PROVE  FlowIInv'
<1>1. /\ body' = body /\ term' = term /\ exits' = exits /\ live' = live /\ labelled' = labelled
      /\ pass' = pass /\ at' = at /\ scan' = scan /\ used' = used
  BY DEF flowVars
<1>2. GraphOK'
  BY <1>1, GraphKept DEF code
<1>3. PlaceOK'
  BY <1>1, PlaceIs DEF PlaceOK
<1>4. TwoWayAhead'
  BY <1>1 DEF FlowIInv, TwoWayAhead, TwoWay
<1>5. ScanOK'
  <2>1. \A P \in SUBSET Blocks : WayScanned(P) => WayScanned(P)'
    BY <1>1 DEF WayScanned, Passable, StepOf, Followed
  <2> QED BY <1>1, <2>1 DEF FlowIInv, ScanOK
<1>6. DroppedOK'
  BY <1>1 DEF FlowIInv, DroppedOK, Behind, LabelsOf, NextLive, ExitsClosed
<1> QED BY <1>2, <1>3, <1>4, <1>5, <1>6, Assembled

(* Every step of every pass keeps the inductive invariant: exact edges, labels that are
   mapped, a scan that can be undone, and what dropping leaves. *)
THEOREM FlowInvariance == ASSUME ~AllowBranchToNext PROVE FlowSpec => []FlowIInv
<1>1. FlowInit => FlowIInv
  BY InitOK
<1>2. FlowIInv /\ [FlowNext]_flowVars => FlowIInv'
  <2> SUFFICES ASSUME FlowIInv, [FlowNext]_flowVars PROVE FlowIInv'
    OBVIOUS
  <2>1. CASE DeconditionTaken \/ DeconditionNever \/ DeconditionSkip \/ DeconditionEnd
    BY <2>1, DeconditionOK
  <2>2. CASE ThreadBegin
    BY <2>2, ThreadBeginOK
  <2>3. CASE ScanFallThrough \/ ScanFollow
    BY <2>3, ScanStepOK
  <2>4. CASE ThreadSkip \/ ScanCycle \/ ThreadNothing \/ ThreadBranch \/ ThreadRefused
    BY <2>4, ThreadOK
  <2>5. CASE ThreadEnd
    BY <2>5, ThreadEndOK
  <2>6. CASE DropDeadBlocks
    BY <2>6, DropOK
  <2>7. CASE BranchToNext \/ BranchKept \/ BranchSkip
    BY <2>7, BranchesOK
  <2>8. CASE DropLabels
    BY <2>8, DropLabelsOK
  <2>9. CASE UNCHANGED flowVars
    BY <2>9, FlowStutter
  <2> QED BY <2>1, <2>2, <2>3, <2>4, <2>5, <2>6, <2>7, <2>8, <2>9, Zenon DEF FlowNext
<1> QED BY <1>1, <1>2, PTL DEF FlowSpec

(* The flow graph stays exact through every pass, and every branch of the code names a
   label that is still mapped to a block of the stream (rtl-opt.c). *)
THEOREM GraphStaysExact == ASSUME ~AllowBranchToNext PROVE FlowSpec => []FlowInv
<1>1. FlowIInv => FlowInv
  BY DEF FlowIInv
<1> QED BY <1>1, FlowInvariance, PTL

(* When the passes are done no block, no branch to the next block and no label is left
   that nothing needs (rtl_opt_drop_dead_blocks and _branches). *)
THEOREM NothingIsLeftDead == ASSUME ~AllowBranchToNext PROVE FlowSpec => []NothingDead
<1>1. FlowIInv => NothingDead
  <2> SUFFICES ASSUME FlowIInv, pass = "done" PROVE
         /\ \A b \in live, C \in SUBSET live :
              0 \in C /\ (\A c \in C : ToSet(exits[c]) \subseteq C) => b \in C
         /\ \A b \in live : IsBranch(term[b]) => term[b].label # NextLive(b)
         /\ labelled = {term[b].label : b \in {c \in live : IsBranch(term[c])}}
    BY DEF NothingDead
  <2>1. /\ \A C \in SUBSET live : 0 \in C /\ ExitsClosed(C) => C = live
        /\ \A b \in live : IsBranch(term[b]) => term[b].label # NextLive(b)
        /\ labelled = LabelsOf(live)
    BY DEF FlowIInv, DroppedOK, Behind
  <2> QED BY <2>1 DEF ExitsClosed, LabelsOf
<1> QED BY <1>1, FlowInvariance, PTL

(**************************** What a program does ************************)

Nodes == Blocks \cup {None}
Loops == <<"loops", None>>

(* A block is quiet if a walk goes on from it; else it is where the walk ends, with
   the outcome that the block has of its own. *)
Quiet(p, s, c) == c \in s /\ ~p[1][c] /\ p[2][c].op # "return"
Own(p, s, c)   == IF c = None THEN <<"ends", None>>
                  ELSE IF c \notin s THEN <<"lost", None>>
                  ELSE IF p[1][c] THEN <<"runs", c>> ELSE <<"returns", None>>

(* A walk of n steps, by the walk of n - 1 steps. *)
LEMMA WalkRecur ==
  ASSUME NEW p, NEW s, NEW z, None \notin s
  PROVE  \A n \in 0..NumBlocks, c \in Nodes :
           Walk(p, s, z)[n][c] = IF ~Quiet(p, s, c) THEN Own(p, s, c)
                                 ELSE IF n = 0 THEN Loops ELSE Walk(p, s, z)[n - 1][After(p[2], s, z, c)]
<1> DEFINE Row(f, n) == [c \in Blocks \cup {None} |->
             IF c = None THEN <<"ends", None>>
             ELSE IF c \notin s THEN <<"lost", None>>
             ELSE IF p[1][c] THEN <<"runs", c>>
             ELSE IF p[2][c].op = "return" THEN <<"returns", None>>
             ELSE IF n = 0 THEN <<"loops", None>> ELSE f[n - 1][After(p[2], s, z, c)]]
           Good(f, m) == f = [n \in 0..m |-> Row(f, n)]
           Upto == {m \in Nat : \E f : Good(f, m)}
<1>1. 0 \in Upto
  <2> DEFINE f == [n \in 0..0 |-> Row([m \in {} |-> 0], 0)]
  <2>1. \A g, h : Row(g, 0) = Row(h, 0)
    OBVIOUS
  <2>2. f = [n \in 0..0 |-> f[n]] /\ f[0] = Row([m \in {} |-> 0], 0)
    OBVIOUS
  <2> HIDE DEF f, Row
  <2>3. \A n \in 0..0 : f[n] = Row(f, n)
    BY <2>1, <2>2
  <2>4. Good(f, 0)
    BY <2>2, <2>3
  <2> QED BY <2>4
<1>2. ASSUME NEW m \in Nat, m \in Upto PROVE m + 1 \in Upto
  <2>1. PICK f : Good(f, m)
    BY <1>2
  <2> DEFINE g == [n \in 0..(m + 1) |-> IF n = m + 1 THEN Row(f, m + 1) ELSE f[n]]
  <2>2. \A h, k, n : h[n - 1] = k[n - 1] => Row(h, n) = Row(k, n)
    OBVIOUS
  <2>3. \A h, k : Row(h, 0) = Row(k, 0)
    OBVIOUS
  <2> HIDE DEF Row
  <2>4. \A n \in 0..m : g[n] = f[n] /\ f[n] = Row(f, n)
    BY <2>1
  <2>5. g[m + 1] = Row(f, m + 1) /\ g = [n \in 0..(m + 1) |-> g[n]]
    OBVIOUS
  <2> HIDE DEF g
  <2>6. ASSUME NEW n \in 0..(m + 1) PROVE g[n] = Row(g, n)
    <3>1. CASE n = 0
      BY <2>3, <2>4, <3>1
    <3>2. CASE n # 0 /\ n # m + 1
      <4>1. n \in 0..m /\ n - 1 \in 0..m
        BY <3>2
      <4> QED BY <2>2, <2>4, <4>1
    <3>3. CASE n = m + 1
      <4>1. n - 1 = m /\ m \in 0..m
        BY <3>3
      <4>2. g[n - 1] = f[n - 1]
        BY <2>4, <4>1
      <4> QED BY <2>2, <2>5, <3>3, <4>2
    <3> QED BY <3>1, <3>2, <3>3
  <2>7. Good(g, m + 1)
    BY <2>5, <2>6
  <2> QED BY <2>7
<1> HIDE DEF Row
<1>3. NumBlocks \in Upto
  <2>1. Nat \subseteq Upto
    <3> HIDE DEF Upto
    <3> QED BY <1>1, <1>2, Induction
  <2> QED BY <2>1, BlockFacts
<1>4. \E f : Good(f, NumBlocks)
  BY <1>3
<1>5. Walk(p, s, z) = CHOOSE f : Good(f, NumBlocks)
  BY DEF Walk, Row
<1>6. Good(Walk(p, s, z), NumBlocks)
  BY <1>4, <1>5
<1>7. ASSUME NEW n \in 0..NumBlocks, NEW c \in Nodes
      PROVE  Walk(p, s, z)[n][c] = IF ~Quiet(p, s, c) THEN Own(p, s, c)
               ELSE IF n = 0 THEN Loops ELSE Walk(p, s, z)[n - 1][After(p[2], s, z, c)]
  <2>1. Walk(p, s, z)[n] = Row(Walk(p, s, z), n)
    BY <1>6
  <2>2. Row(Walk(p, s, z), n)[c]
           = IF c = None THEN <<"ends", None>>
             ELSE IF c \notin s THEN <<"lost", None>>
             ELSE IF p[1][c] THEN <<"runs", c>>
             ELSE IF p[2][c].op = "return" THEN <<"returns", None>>
             ELSE IF n = 0 THEN <<"loops", None>> ELSE Walk(p, s, z)[n - 1][After(p[2], s, z, c)]
    BY DEF Row, Nodes
  <2> QED BY <2>1, <2>2 DEF Quiet, Own, Loops
<1> QED BY <1>7

(* A table w of walks that go on from the blocks in K by A, and end with O elsewhere. *)
WalksBy(w, A, K, O) ==
  /\ \A n \in 0..NumBlocks, c \in Nodes :
       w[n][c] = IF c \notin K THEN O[c] ELSE IF n = 0 THEN Loops ELSE w[n - 1][A[c]]
  /\ \A c \in Nodes : O[c] # Loops
Settled(w, A, K, O) ==
  /\ \A c \in Nodes : w[NumBlocks][c] = IF c \notin K THEN O[c] ELSE w[NumBlocks][A[c]]
  /\ \A S \in SUBSET K : (\A c \in S : A[c] \in S) => \A c \in S : w[NumBlocks][c] = Loops

(* In such a table NumBlocks steps are enough to tell where a walk ends, since each step short of that
   leaves fewer blocks of which it is not known; and a walk that stays in K loops. *)
LEMMA WalkSettles ==
  ASSUME NEW w, NEW A \in [Blocks -> Nodes], NEW K \in SUBSET Blocks, NEW O, WalksBy(w, A, K, O)
  PROVE  Settled(w, A, K, O)
<1>0. /\ \A n \in 0..NumBlocks, c \in Nodes :
           w[n][c] = IF c \notin K THEN O[c] ELSE IF n = 0 THEN Loops ELSE w[n - 1][A[c]]
      /\ \A c \in Nodes : O[c] # Loops
  BY DEF WalksBy
<1> DEFINE N == NumBlocks
           Q(n) == {c \in Blocks : w[n][c] = Loops}
<1>1. N \in Nat /\ N # 0 /\ N - 1 \in 0..N /\ N \in 0..N /\ None \notin Blocks
  BY BlockFacts
<1>2. ASSUME NEW n \in Nat, n + 1 \in 0..N
      PROVE  /\ n \in 0..N /\ n + 1 # 0 /\ (n + 1) - 1 = n
             /\ \A c \in Nodes : w[n + 1][c] = IF c \notin K THEN O[c] ELSE w[n][A[c]]
  BY <1>0, <1>1, <1>2
<1>3. \A c \in K : c \in Blocks /\ c \in Nodes /\ A[c] \in Nodes
  BY DEF Nodes
<1>4. ASSUME NEW n \in 0..N, NEW c \in Nodes, w[n][c] = Loops PROVE c \in K
  BY <1>0, <1>4
<1>5. ASSUME NEW n \in Nat, n + 1 \in 0..N, NEW c \in Nodes, w[n][c] # Loops
      PROVE  w[n + 1][c] = w[n][c]
  <2> DEFINE Good == {m \in Nat : m + 1 \in 0..N => \A d \in Nodes : w[m][d] # Loops => w[m + 1][d] = w[m][d]}
  <2>1. 0 \in Good
    <3> SUFFICES ASSUME 0 + 1 \in 0..N, NEW d \in Nodes, w[0][d] # Loops PROVE w[0 + 1][d] = w[0][d]
      OBVIOUS
    <3>1. 0 \in 0..N /\ d \notin K
      BY <1>0, <1>1
    <3>2. w[0][d] = O[d]
      BY <1>0, <3>1
    <3>3. w[0 + 1][d] = O[d]
      BY <1>2, <3>1
    <3> QED BY <3>2, <3>3
  <2>2. ASSUME NEW m \in Nat, m \in Good PROVE m + 1 \in Good
    <3> SUFFICES ASSUME (m + 1) + 1 \in 0..N, NEW d \in Nodes, w[m + 1][d] # Loops
                 PROVE  w[(m + 1) + 1][d] = w[m + 1][d]
      OBVIOUS
    <3>1. m + 1 \in 0..N /\ m + 1 \in Nat
      BY <1>1
    <3>2. w[(m + 1) + 1][d] = IF d \notin K THEN O[d] ELSE w[m + 1][A[d]]
      BY <1>2, <3>1
    <3>3. w[m + 1][d] = IF d \notin K THEN O[d] ELSE w[m][A[d]]
      BY <1>2, <3>1
    <3>4. CASE d \in K
      <4>1. w[m][A[d]] # Loops /\ A[d] \in Nodes
        BY <1>3, <3>3, <3>4
      <4>2. w[m + 1][A[d]] = w[m][A[d]]
        BY <2>2, <3>1, <4>1
      <4> QED BY <3>2, <3>3, <3>4, <4>2
    <3> QED BY <3>2, <3>3, <3>4
  <2> HIDE DEF Good
  <2>3. n \in Good
    BY <2>1, <2>2, Induction
  <2> QED BY <1>5, <2>3 DEF Good
<1>6. ASSUME NEW n \in Nat, n + 1 \in 0..N PROVE Q(n + 1) \subseteq Q(n)
  <2> SUFFICES ASSUME NEW c \in Blocks, w[n + 1][c] = Loops, w[n][c] # Loops PROVE FALSE
    OBVIOUS
  <2> QED BY <1>5, <1>6 DEF Nodes
<1>7. ASSUME NEW n \in Nat, (n + 1) + 1 \in 0..N, Q(n) = Q(n + 1) PROVE Q(n + 1) = Q((n + 1) + 1)
  <2>1. n + 1 \in 0..N /\ n + 1 \in Nat
    BY <1>1, <1>7
  <2> SUFFICES ASSUME NEW c \in Blocks, w[n + 1][c] = Loops PROVE w[(n + 1) + 1][c] = Loops
    BY <1>6, <1>7, <2>1
  <2>2. c \in K /\ A[c] \in Nodes
    BY <1>3, <1>4, <2>1 DEF Nodes
  <2>3. w[n][A[c]] = Loops
    BY <1>2, <1>3, <2>1, <2>2
  <2>4. n \in 0..N
    BY <1>1, <2>1
  <2>5. A[c] \in Blocks
    BY <1>3, <1>4, <2>2, <2>3, <2>4
  <2>6. w[n + 1][A[c]] = Loops
    BY <1>7, <2>3, <2>5
  <2> QED BY <1>2, <1>3, <1>7, <2>1, <2>2, <2>6
<1>8. \A n \in Nat : IsFiniteSet(Q(n)) /\ Cardinality(Q(n)) \in Nat /\ Cardinality(Q(n)) <= N
  <2>1. IsFiniteSet(Blocks) /\ Cardinality(Blocks) = N
    BY <1>1, FS_Interval DEF Blocks
  <2> QED BY <2>1, FS_Subset, FS_CardinalityType
<1>9. ASSUME NEW n \in Nat, n + 1 \in 0..N PROVE Q(n) = Q(n + 1) \/ Cardinality(Q(n)) <= N - n
  <2> DEFINE Good == {m \in Nat : m + 1 \in 0..N => Q(m) = Q(m + 1) \/ Cardinality(Q(m)) <= N - m}
  <2>1. 0 \in Good
    <3> HIDE DEF Q
    <3>1. Cardinality(Q(0)) <= N /\ N - 0 = N
      BY <1>1, <1>8
    <3> QED BY <1>1, <3>1
  <2>2. ASSUME NEW m \in Nat, m \in Good PROVE m + 1 \in Good
    <3> SUFFICES ASSUME (m + 1) + 1 \in 0..N, Q(m) # Q(m + 1)
                 PROVE  Cardinality(Q(m + 1)) <= N - (m + 1)
      BY <1>7
    <3>1. m + 1 \in 0..N /\ Cardinality(Q(m)) <= N - m
      BY <1>1, <2>2
    <3>2. Q(m + 1) \in SUBSET Q(m) /\ IsFiniteSet(Q(m))
      BY <1>6, <1>8, <3>1
    <3>3. /\ Cardinality(Q(m + 1)) <= Cardinality(Q(m))
          /\ Cardinality(Q(m + 1)) # Cardinality(Q(m))
      BY <3>2, FS_Subset
    <3>4. Cardinality(Q(m)) \in Nat /\ Cardinality(Q(m + 1)) \in Nat
      <4>1. m \in Nat /\ m + 1 \in Nat
        OBVIOUS
      <4> HIDE DEF Q
      <4> QED BY <1>8, <4>1
    <3> HIDE DEF Q
    <3> QED BY <1>1, <3>1, <3>3, <3>4
  <2> HIDE DEF Good
  <2>3. n \in Good
    BY <2>1, <2>2, Induction
  <2> QED BY <1>9, <2>3 DEF Good
<1>10. N - 1 \in Nat /\ (N - 1) + 1 = N /\ N - (N - 1) = 1
  BY <1>1
<1>11. ASSUME NEW c \in K PROVE w[N][A[c]] = w[N - 1][A[c]]
  <2>1. A[c] \in Nodes /\ c \in Nodes /\ c \in Blocks
    BY <1>3
  <2>2. CASE w[N - 1][A[c]] # Loops
    BY <1>1, <1>5, <1>10, <2>1, <2>2
  <2>3. CASE w[N - 1][A[c]] = Loops
    <3>1. w[N][c] = Loops
      BY <1>1, <1>2, <1>10, <2>1, <2>3
    <3>2. c \in Q(N) /\ Q(N) \subseteq Q(N - 1)
      BY <1>1, <1>6, <1>10, <2>1, <3>1
    <3>3. A[c] \in Q(N - 1)
      <4>1. A[c] \in K
        BY <1>1, <1>4, <2>1, <2>3
      <4> QED BY <2>3, <4>1
    <3>4. Q(N - 1) = Q(N)
      <4> SUFFICES ASSUME Q(N - 1) # Q(N) PROVE FALSE
        OBVIOUS
      <4>1. Cardinality(Q(N - 1)) <= 1
        BY <1>1, <1>9, <1>10
      <4>2. Cardinality(Q(N)) <= Cardinality(Q(N - 1)) /\ Cardinality(Q(N)) # Cardinality(Q(N - 1))
        BY <1>8, <1>10, <3>2, FS_Subset
      <4>3. Cardinality(Q(N)) = 0
        <5> HIDE DEF Q
        <5>1. Cardinality(Q(N)) \in Nat /\ Cardinality(Q(N - 1)) \in Nat
          BY <1>1, <1>8, <1>10
        <5> QED BY <4>1, <4>2, <5>1
      <4>4. Q(N) = {}
        BY <1>1, <1>8, <4>3, FS_EmptySet
      <4> QED BY <3>2, <4>4
    <3> QED BY <2>3, <3>3, <3>4
  <2> QED BY <2>2, <2>3
<1>12. \A c \in Nodes : w[N][c] = IF c \notin K THEN O[c] ELSE w[N][A[c]]
  <2>1. \A c \in Nodes : w[N][c] = IF c \notin K THEN O[c] ELSE w[N - 1][A[c]]
    BY <1>1, <1>2, <1>10
  <2> QED BY <1>11, <2>1
<1>13. ASSUME NEW S \in SUBSET K, \A c \in S : A[c] \in S PROVE \A c \in S : w[N][c] = Loops
  <2> DEFINE Good == {m \in Nat : m \in 0..N => \A c \in S : w[m][c] = Loops}
  <2>1. 0 \in Good
    BY <1>0, <1>1, <1>3
  <2>2. ASSUME NEW m \in Nat, m \in Good PROVE m + 1 \in Good
    <3> SUFFICES ASSUME m + 1 \in 0..N, NEW c \in S PROVE w[m + 1][c] = Loops
      OBVIOUS
    <3>1. w[m + 1][c] = w[m][A[c]]
      BY <1>2, <1>3
    <3>2. m \in 0..N /\ A[c] \in S
      BY <1>1, <1>13
    <3> QED BY <2>2, <3>1, <3>2
  <2> HIDE DEF Good
  <2>3. N \in Good
    BY <1>1, <2>1, <2>2, Induction
  <2> QED BY <1>1, <2>3 DEF Good
<1> QED BY <1>12, <1>13 DEF Settled

(* A program of such blocks: its labels are blocks, and the stream holds blocks. *)
Program(p, s) == p[2] \in [Blocks -> Terms] /\ s \in SUBSET Blocks

(* From a block it goes to a block or to the end. *)
LEMMA AfterType ==
  ASSUME NEW p, NEW s, Program(p, s), NEW z, NEW c \in Blocks
  PROVE  After(p[2], s, z, c) \in Nodes
<1>1. NextIn(s, c) \in Nodes
  BY NextFacts DEF Program, Nodes
<1>2. p[2][c].label \in Nodes
  BY TermFacts DEF Program, Nodes
<1> QED BY <1>1, <1>2 DEF After

(* What a program does from a block on: what the block does of its own, or what the
   program does from the block after it; and it loops on blocks that it cannot leave. *)
LEMMA DoesFacts ==
  ASSUME NEW p, NEW s, Program(p, s), NEW z
  PROVE  /\ \A c \in Nodes : Does(p, s, z, c) = IF Quiet(p, s, c) THEN Does(p, s, z, After(p[2], s, z, c))
                                                ELSE Own(p, s, c)
         /\ \A S \in SUBSET Blocks :
              (\A c \in S : Quiet(p, s, c) /\ After(p[2], s, z, c) \in S) => \A c \in S : Does(p, s, z, c) = Loops
<1> DEFINE w == Walk(p, s, z)
           A == [c \in Blocks |-> After(p[2], s, z, c)]
           K == {c \in Blocks : Quiet(p, s, c)}
           O == [c \in Nodes |-> Own(p, s, c)]
<1>1. None \notin s /\ s \in SUBSET Blocks /\ None \notin Blocks
  BY BlockFacts DEF Program
<1>2. A \in [Blocks -> Nodes]
  BY AfterType
<1>3. \A c \in Nodes : O[c] = Own(p, s, c) /\ O[c] # Loops
  BY DEF Own, Loops
<1>4. \A c \in Nodes : c \in K <=> Quiet(p, s, c)
  BY <1>1 DEF Quiet
<1>5. \A c \in K : A[c] = After(p[2], s, z, c)
  OBVIOUS
<1>6. \A n \in 0..NumBlocks, c \in Nodes :
        w[n][c] = IF c \notin K THEN O[c] ELSE IF n = 0 THEN Loops ELSE w[n - 1][A[c]]
  <2> SUFFICES ASSUME NEW n \in 0..NumBlocks, NEW c \in Nodes
               PROVE  w[n][c] = IF c \notin K THEN O[c] ELSE IF n = 0 THEN Loops ELSE w[n - 1][A[c]]
    OBVIOUS
  <2>1. w[n][c] = IF ~Quiet(p, s, c) THEN Own(p, s, c)
                  ELSE IF n = 0 THEN Loops ELSE w[n - 1][After(p[2], s, z, c)]
    BY <1>1, WalkRecur
  <2> HIDE DEF w, A, K, O
  <2> QED BY <1>3, <1>4, <1>5, <2>1
<1>7. K \in SUBSET Blocks
  OBVIOUS
<1>8. \A c \in Nodes : Does(p, s, z, c) = w[NumBlocks][c]
  BY DEF Does
<1> HIDE DEF w, A, K, O
<1>9. /\ \A c \in Nodes : w[NumBlocks][c] = IF c \notin K THEN O[c] ELSE w[NumBlocks][A[c]]
      /\ \A S \in SUBSET K : (\A c \in S : A[c] \in S) => \A c \in S : w[NumBlocks][c] = Loops
  <2>1. WalksBy(w, A, K, O)
    BY <1>3, <1>6 DEF WalksBy
  <2>2. Settled(w, A, K, O)
    BY <1>2, <1>7, <2>1, WalkSettles
  <2> QED BY <2>2 DEF Settled
<1>10. ASSUME NEW c \in Nodes
       PROVE  Does(p, s, z, c) = IF Quiet(p, s, c) THEN Does(p, s, z, After(p[2], s, z, c)) ELSE Own(p, s, c)
  <2>1. CASE Quiet(p, s, c)
    <3>1. c \in K /\ c \in Blocks
      BY <1>4, <1>7, <2>1
    <3>2. After(p[2], s, z, c) \in Nodes
      BY <3>1, AfterType
    <3> QED BY <1>5, <1>8, <1>9, <2>1, <3>1, <3>2
  <2>2. CASE ~Quiet(p, s, c)
    BY <1>3, <1>4, <1>8, <1>9, <2>2
  <2> QED BY <2>1, <2>2
<1>11. ASSUME NEW S \in SUBSET Blocks, \A c \in S : Quiet(p, s, c) /\ After(p[2], s, z, c) \in S
       PROVE  \A c \in S : Does(p, s, z, c) = Loops
  <2>1. \A c \in S : c \in Nodes
    BY DEF Nodes
  <2>2. S \in SUBSET K /\ \A c \in S : A[c] \in S
    BY <1>4, <1>5, <1>11, <2>1
  <2> QED BY <1>8, <1>9, <2>1, <2>2
<1> QED BY <1>10, <1>11

(* A program q does what p does on the blocks of its stream if they do the same there of
   their own, and if where they go to in p and in q is the same to both. *)
LEMMA Simulates ==
  ASSUME NEW p, NEW q, NEW s, NEW r \in SUBSET s, Program(p, s), Program(q, r), NEW z,
         \A c \in r : (q[1][c] <=> p[1][c]) /\ (q[2][c].op = "return" <=> p[2][c].op = "return"),
         \A c \in r : p[2][c].op # "return" =>
           /\ After(p[2], s, z, c) \in r \cup {None} /\ After(q[2], r, z, c) \in r \cup {None}
           /\ Does(p, s, z, After(p[2], s, z, c)) = Does(p, s, z, After(q[2], r, z, c))
           /\ Does(q, r, z, After(p[2], s, z, c)) = Does(q, r, z, After(q[2], r, z, c))
  PROVE  /\ \A c \in r \cup {None} : Does(q, r, z, c) = Does(p, s, z, c)
         /\ \A c \in r : Then(q, r, z, c) = Then(p, s, z, c)
<1> DEFINE D(c) == Does(p, s, z, c)
           E(c) == Does(q, r, z, c)
           a(c) == After(p[2], s, z, c)
           b(c) == After(q[2], r, z, c)
           S == {c \in r : E(c) # D(c)}
<1>1. r \in SUBSET Blocks /\ s \in SUBSET Blocks /\ None \notin Blocks
  BY BlockFacts DEF Program
<1>2. \A c \in r : (Quiet(q, r, c) <=> Quiet(p, s, c)) /\ Own(q, r, c) = Own(p, s, c)
  BY <1>1 DEF Quiet, Own
<1>3. /\ \A c \in Nodes : D(c) = IF Quiet(p, s, c) THEN D(a(c)) ELSE Own(p, s, c)
      /\ \A T \in SUBSET Blocks : (\A c \in T : Quiet(p, s, c) /\ a(c) \in T) => \A c \in T : D(c) = Loops
  BY DoesFacts
<1>4. /\ \A c \in Nodes : E(c) = IF Quiet(q, r, c) THEN E(b(c)) ELSE Own(q, r, c)
      /\ \A T \in SUBSET Blocks : (\A c \in T : Quiet(q, r, c) /\ b(c) \in T) => \A c \in T : E(c) = Loops
  BY DoesFacts
<1>5. D(None) = E(None)
  <2>1. ~Quiet(p, s, None) /\ ~Quiet(q, r, None) /\ Own(p, s, None) = Own(q, r, None) /\ None \in Nodes
    BY <1>1 DEF Quiet, Own, Nodes
  <2> HIDE DEF D, E
  <2> QED BY <1>3, <1>4, <2>1
<1>6. \A c \in r : p[2][c].op # "return" =>
        a(c) \in r \cup {None} /\ b(c) \in r \cup {None} /\ D(a(c)) = D(b(c)) /\ E(a(c)) = E(b(c))
  OBVIOUS
<1>7. \A c \in Nodes : Quiet(p, s, c) => p[2][c].op # "return"
  BY DEF Quiet
<1>8. \A c \in r : Then(p, s, z, c) = IF p[2][c].op = "return" THEN <<"returns", None>> ELSE D(a(c))
  BY DEF Then
<1>9. \A c \in r : Then(q, r, z, c) = IF q[2][c].op = "return" THEN <<"returns", None>> ELSE E(b(c))
  BY DEF Then
<1> HIDE DEF D, E, a, b
<1>10. ASSUME NEW c \in S PROVE Quiet(p, s, c) /\ Quiet(q, r, c) /\ a(c) \in S /\ b(c) \in S
  <2>1. c \in r /\ c \in Nodes /\ E(c) # D(c)
    BY <1>1 DEF Nodes
  <2>2. Quiet(p, s, c) /\ Quiet(q, r, c)
    BY <1>2, <1>3, <1>4, <2>1
  <2>3. D(c) = D(a(c)) /\ E(c) = E(b(c))
    BY <1>3, <1>4, <2>1, <2>2
  <2>4. a(c) \in r \cup {None} /\ b(c) \in r \cup {None} /\ D(a(c)) = D(b(c)) /\ E(a(c)) = E(b(c))
    BY <1>6, <1>7, <2>1, <2>2
  <2>5. D(a(c)) # E(a(c)) /\ D(b(c)) # E(b(c))
    BY <2>1, <2>3, <2>4
  <2> QED BY <1>5, <2>2, <2>4, <2>5
<1>11. S \in SUBSET Blocks /\ \A c \in S : c \in r /\ E(c) # D(c)
  BY <1>1
<1> HIDE DEF S
<1>12. S = {}
  <2>1. \A c \in S : D(c) = Loops /\ E(c) = Loops
    BY <1>3, <1>4, <1>10, <1>11
  <2> QED BY <1>11, <2>1
<1>13. \A c \in r \cup {None} : E(c) = D(c)
  BY <1>5, <1>12 DEF S
<1>14. \A c \in r : Then(q, r, z, c) = Then(p, s, z, c)
  <2> SUFFICES ASSUME NEW c \in r PROVE Then(q, r, z, c) = Then(p, s, z, c)
    OBVIOUS
  <2>1. CASE p[2][c].op = "return"
    BY <1>8, <1>9, <2>1
  <2>2. CASE p[2][c].op # "return"
    <3>1. a(c) \in r \cup {None} /\ b(c) \in r \cup {None} /\ D(a(c)) = D(b(c))
      BY <1>6, <2>2
    <3> QED BY <1>8, <1>9, <1>13, <2>2, <3>1
  <2> QED BY <2>1, <2>2
<1> QED BY <1>13, <1>14 DEF D, E

(************************* The passes keep it ****************************)

Jumps(t, z) == LET zero == t.reg = "zero" \/ z
               IN  t.op = "goto" \/ (t.op = "if_z" /\ zero) \/ (t.op = "if_nz" /\ ~zero)

(* Where the end of a block goes to is told by whether its branch is taken. *)
LEMMA AfterIs ==
  ASSUME NEW t, NEW s, NEW z, NEW b
  PROVE  After(t, s, z, b) = IF Jumps(t[b], z) THEN t[b].label ELSE NextIn(s, b)
BY DEF After, Jumps

(* Control stays in the stream. *)
LEMMA AfterStays ==
  ASSUME FlowIInv, NEW z \in BOOLEAN, NEW b \in live
  PROVE  After(term, live, z, b) \in live \cup {None}
<1>1. live \in SUBSET Blocks /\ b \in Blocks
  BY PlaceIs DEF GraphOK
<1>2. NextIn(live, b) \in live \cup {None}
  BY <1>1, NextFacts
<1>3. Jumps(term[b], z) => IsBranch(term[b])
  BY DEF Jumps, IsBranch, Conds
<1>4. IsBranch(term[b]) => term[b].label \in live
  BY PlaceIs DEF GraphOK, LabelsMapped
<1> QED BY <1>2, <1>3, <1>4, AfterIs

(* The property holds on after a step that keeps the meaning of each block left. *)
LEMMA SameStep ==
  ASSUME SameBehaviour, source' = source, live' \subseteq live, 0 \in live',
         \A b \in live' : body'[b] => body[b],
         \A z \in BOOLEAN :
           /\ \A b \in live' \cup {None} : Does(code', live', z, b) = Does(code, live, z, b)
           /\ \A b \in live' : Then(code', live', z, b) = Then(code, live, z, b)
  PROVE  SameBehaviour'
<1> SUFFICES ASSUME NEW z \in BOOLEAN
             PROVE  /\ Does(code', live', z, 0) = Does(source, Blocks, z, 0)
                    /\ \A b \in live' : body'[b] =>
                         Then(code', live', z, b) = Then(source, Blocks, z, b)
  BY DEF SameBehaviour
<1>1. /\ Does(code, live, z, 0) = Does(source, Blocks, z, 0)
      /\ \A b \in live : body[b] => Then(code, live, z, b) = Then(source, Blocks, z, b)
  BY DEF SameBehaviour
<1> QED BY <1>1

(* The two programs of a step. *)
LEMMA CodeIs ==
  /\ code[1] = body /\ code[2] = term /\ code'[1] = body' /\ code'[2] = term'
  /\ FlowIInv => Program(code, live)
  /\ GraphOK' => Program(code', live')
<1>1. code[1] = body /\ code[2] = term /\ code'[1] = body' /\ code'[2] = term'
  BY DEF code
<1>2. FlowIInv => Program(code, live)
  BY <1>1, PlaceIs DEF Program, GraphOK
<1>3. GraphOK' => Program(code', live')
  BY <1>1 DEF Program, GraphOK
<1> QED BY <1>1, <1>2, <1>3

(* A step after which each block left goes where it went keeps what the program does. *)
LEMMA SameWays ==
  ASSUME FlowIInv, FlowIInv', SameBehaviour, source' = source, live' \subseteq live,
         \A b \in live' : (body'[b] <=> body[b]) /\ (term'[b].op = "return" <=> term[b].op = "return"),
         \A b \in live', z \in BOOLEAN : term[b].op # "return" =>
           /\ After(term', live', z, b) = After(term, live, z, b)
           /\ After(term, live, z, b) \in live' \cup {None}
  PROVE  SameBehaviour'
<1>1. Program(code, live) /\ Program(code', live')
  BY CodeIs DEF FlowIInv, FlowInv, FlowTypeOK, Program
<1>2. 0 \in live'
  BY DEF FlowIInv, StreamOK
<1>3. ASSUME NEW z \in BOOLEAN
      PROVE  /\ \A b \in live' \cup {None} : Does(code', live', z, b) = Does(code, live, z, b)
             /\ \A b \in live' : Then(code', live', z, b) = Then(code, live, z, b)
  <2> DEFINE p == code
             q == code'
             s == live
             r == live'
  <2>1. r \in SUBSET s /\ Program(p, s) /\ Program(q, r)
    BY <1>1
  <2>2. \A c \in r : (q[1][c] <=> p[1][c]) /\ (q[2][c].op = "return" <=> p[2][c].op = "return")
    BY CodeIs
  <2>3. \A c \in r : p[2][c].op # "return" =>
          /\ After(q[2], r, z, c) = After(p[2], s, z, c)
          /\ After(p[2], s, z, c) \in r \cup {None}
    BY CodeIs
  <2> HIDE DEF p, q, r, s
  <2>4. \A c \in r : p[2][c].op # "return" =>
           /\ After(p[2], s, z, c) \in r \cup {None} /\ After(q[2], r, z, c) \in r \cup {None}
           /\ Does(p, s, z, After(p[2], s, z, c)) = Does(p, s, z, After(q[2], r, z, c))
           /\ Does(q, r, z, After(p[2], s, z, c)) = Does(q, r, z, After(q[2], r, z, c))
    BY <2>3
  <2>5. /\ \A c \in r \cup {None} : Does(q, r, z, c) = Does(p, s, z, c)
        /\ \A c \in r : Then(q, r, z, c) = Then(p, s, z, c)
    BY <2>1, <2>2, <2>4, Simulates
  <2> QED BY <2>5 DEF p, q, r, s
<1> QED BY <1>2, <1>3, SameStep

(* Decondition: a branch whose condition is constant goes where it went. *)
LEMMA DeconditionSame ==
  ASSUME FlowIInv, SameBehaviour, DeconditionTaken \/ DeconditionNever
  PROVE  SameBehaviour'
<1>1. /\ body' = body /\ live' = live /\ source' = source
      /\ at \in live /\ at \in Blocks /\ term \in [Blocks -> Terms] /\ live \in SUBSET Blocks
      /\ ConstantBranch(at)
  BY GoesOn, PlaceIs DEF DeconditionTaken, DeconditionNever, GraphOK
<1>2. FlowIInv'
  BY DeconditionOK
<1>3. live = Blocks
  BY PlaceIs DEF DeconditionTaken, DeconditionNever, PlaceOK
<1>4. term[at].op \in Conds /\ term[at].reg = "zero"
  BY <1>1, <1>3, TwoExits DEF ConstantBranch
<1>5. ASSUME NEW b \in live, NEW z \in BOOLEAN
      PROVE  /\ (term'[b].op = "return" <=> term[b].op = "return")
             /\ After(term', live', z, b) = After(term, live, z, b)
  <2>1. CASE b # at
    <3>1. term'[b] = term[b]
      BY <1>1, <2>1 DEF DeconditionTaken, DeconditionNever
    <3> QED BY <1>1, <3>1, AfterIs
  <2>2. CASE b = at /\ DeconditionTaken
    <3>1. term'[at] = [op |-> "goto", reg |-> "zero", label |-> term[at].label] /\ term[at].op = "if_z"
      BY <1>1, <2>2 DEF DeconditionTaken, TakenWhen
    <3>2. term'[b].label = term[b].label /\ Jumps(term'[b], z) /\ Jumps(term[b], z)
      BY <1>4, <2>2, <3>1 DEF Jumps
    <3>3. term'[b].op # "return" /\ term[b].op # "return"
      BY <2>2, <3>1
    <3> QED BY <1>1, <3>2, <3>3, AfterIs
  <2>3. CASE b = at /\ DeconditionNever
    <3>1. term'[at] = Falls /\ term[at].op = "if_nz"
      BY <1>1, <1>4, <2>3 DEF DeconditionNever, TakenWhen, Conds
    <3>2. ~Jumps(term'[b], z) /\ ~Jumps(term[b], z)
      BY <1>4, <2>3, <3>1 DEF Jumps, Falls
    <3>3. term'[b].op # "return" /\ term[b].op # "return"
      BY <2>3, <3>1 DEF Falls
    <3> QED BY <1>1, <3>2, <3>3, AfterIs
  <2> QED BY <2>1, <2>2, <2>3
<1> QED BY <1>1, <1>2, <1>5, AfterStays, SameWays

(* Dropping blocks leaves the others where they went, and they went to no dropped one. *)
LEMMA DropSame ==
  ASSUME FlowIInv, SameBehaviour, DropDeadBlocks
  PROVE  SameBehaviour'
<1>1. live = Blocks /\ source' = source
  BY PlaceIs DEF DropDeadBlocks, PlaceOK
<1>2. live' \in SUBSET Blocks /\ ExitsClosed(live')
  BY <1>1, ReachedFacts DEF DropDeadBlocks
<1>3. \A b \in live' : term'[b] = term[b] /\ (body'[b] <=> body[b])
  BY <1>2 DEF DropDeadBlocks
<1>4. FlowIInv'
  BY DropOK
<1>5. ASSUME NEW b \in live', NEW z \in BOOLEAN, term[b].op # "return"
      PROVE  /\ After(term', live', z, b) = After(term, live, z, b)
             /\ After(term, live, z, b) \in live' \cup {None}
  <2>1. /\ IsBranch(term[b]) => term[b].label \in live'
        /\ term[b].op \in {"none"} \cup Conds => NextIn(live', b) = NextIn(live, b)
    BY <1>1, <1>2, KeptWays DEF NextLive
  <2>2. term[b].op \in {"none", "goto", "if_z", "if_nz"} /\ b \in Blocks
    BY <1>2, <1>5, TermFacts, PlaceIs DEF GraphOK
  <2>3. CASE Jumps(term[b], z)
    <3>1. term[b].label \in live'
      BY <2>1, <2>3 DEF Jumps, IsBranch, Conds
    <3> QED BY <1>3, <2>3, <3>1, AfterIs
  <2>4. CASE ~Jumps(term[b], z)
    <3>1. NextIn(live', b) = NextIn(live, b)
      BY <2>1, <2>2, <2>4 DEF Jumps, Conds
    <3>2. NextIn(live', b) \in live' \cup {None}
      BY <1>2, <2>2, NextFacts
    <3> QED BY <1>3, <2>4, <3>1, <3>2, AfterIs
  <2> QED BY <2>3, <2>4
<1> QED BY <1>1, <1>2, <1>3, <1>4, <1>5, SameWays

(* A branch to the next block goes there whether it is taken or not. *)
LEMMA BranchToNextSame ==
  ASSUME FlowIInv, SameBehaviour, BranchToNext
  PROVE  SameBehaviour'
<1>1. /\ body' = body /\ live' = live /\ source' = source
      /\ at \in live /\ at \in Blocks /\ term \in [Blocks -> Terms] /\ live \in SUBSET Blocks
      /\ term' = [term EXCEPT ![at] = Falls] /\ IsBranch(term[at]) /\ term[at].label = NextIn(live, at)
  BY GoesOn, PlaceIs DEF BranchToNext, GraphOK, NextLive
<1>2. FlowIInv'
  BY BranchesOK
<1>3. ASSUME NEW b \in live, NEW z \in BOOLEAN
      PROVE  /\ (term'[b].op = "return" <=> term[b].op = "return")
             /\ After(term', live', z, b) = After(term, live, z, b)
  <2>1. CASE b # at
    <3>1. term'[b] = term[b]
      BY <1>1, <2>1
    <3> QED BY <1>1, <3>1, AfterIs
  <2>2. CASE b = at
    <3>1. term'[b] = Falls
      BY <1>1, <2>2
    <3>2. ~Jumps(term'[b], z)
      BY <3>1 DEF Jumps, Falls
    <3>3. term'[b].op # "return" /\ term[b].op # "return"
      BY <1>1, <2>2, <3>1 DEF Falls, IsBranch, Conds
    <3> QED BY <1>1, <2>2, <3>2, <3>3, AfterIs
  <2> QED BY <2>1, <2>2
<1> QED BY <1>1, <1>2, <1>3, AfterStays, SameWays

(* Threading: a program that goes over the blocks of P, and not round in them, does on
   each what it does where the way over them ends. *)
LEMMA WayDoes ==
  ASSUME NEW p, Program(p, Blocks), NEW z \in BOOLEAN, NEW P \in SUBSET Blocks, NEW to,
         \A c \in P : Quiet(p, Blocks, c) /\ After(p[2], Blocks, z, c) \in P \cup {to},
         \A C \in SUBSET P : C # {} => \E c \in C : After(p[2], Blocks, z, c) \notin C
  PROVE  \A c \in P \cup {to} : Does(p, Blocks, z, c) = Does(p, Blocks, z, to)
<1> DEFINE C == {c \in P : Does(p, Blocks, z, c) # Does(p, Blocks, z, to)}
<1>1. \A c \in P : Does(p, Blocks, z, c) = Does(p, Blocks, z, After(p[2], Blocks, z, c))
  <2>1. \A c \in P : c \in Nodes
    BY DEF Nodes
  <2> QED BY <2>1, DoesFacts
<1>2. \A c \in C : After(p[2], Blocks, z, c) \in C
  BY <1>1
<1>3. C = {}
  <2>1. C \in SUBSET P
    OBVIOUS
  <2> QED BY <1>2, <2>1
<1> QED BY <1>3

(* So, where the branch is taken, to go to the block at the end of the way is the same
   as to go over the way, both in the code with the old label and with the new one. *)
LEMMA ThreadSame ==
  ASSUME FlowIInv, SameBehaviour, ThreadBranch
  PROVE  SameBehaviour'
<1> DEFINE L == term[at].label
           M == scan.label
           to == Node(scan.to)
<1>1. /\ pass = "scan" /\ scan.label # None /\ source' = source
      /\ body' = body /\ live' = live /\ term' = [term EXCEPT ![at].label = scan.label]
      /\ (Scanning => term[scan.to].op # "none" /\ ~Followed(term[scan.to]))
  BY DEF ThreadBranch, EndThread, ScanStops
<1>2. /\ live = Blocks /\ at \in Blocks /\ M \in Blocks /\ IsBranch(term[at])
      /\ term \in [Blocks -> Terms] /\ scan.to \in 0..NumBlocks
  <2>1. at # None /\ IsBranch(term[at]) /\ scan.to # None
    BY <1>1 DEF FlowIInv, ScanOK
  <2> QED BY <1>1, <2>1, PlaceIs DEF PlaceOK, GraphOK
<1>3. PICK P \in SUBSET Blocks : WayScanned(P)
  BY <1>1 DEF FlowIInv, ScanOK
<1>4. FlowIInv'
  BY ThreadOK
<1>5. /\ \A c \in P : Passable(c) /\ StepOf(c) \in P \cup {to}
      /\ L \in P \cup {to} /\ M \in P \cup {to}
      /\ at \in P => to \in P
      /\ to \notin P => \A C \in SUBSET P : C # {} => \E c \in C : StepOf(c) \notin C
  BY <1>1, <1>3 DEF WayScanned
<1>6. to \notin P /\ at \notin P
  <2> SUFFICES ASSUME to \in P PROVE FALSE
    BY <1>5
  <2>1. to = scan.to /\ scan.to < NumBlocks
    BY BlockFacts DEF Node
  <2>2. Passable(scan.to)
    BY <1>5, <2>1
  <2> QED BY <1>1, <2>1, <2>2 DEF Passable, Scanning
<1>7. \A b \in Blocks : /\ b # at => term'[b] = term[b]
                        /\ term'[b].op = term[b].op /\ term'[b].reg = term[b].reg
      /\ term'[at].label = M
  BY <1>1, <1>2, TermFacts
<1> DEFINE p == code
           q == code'
<1>8. Program(p, Blocks) /\ Program(q, Blocks) /\ p[1] = body /\ p[2] = term /\ q[1] = body /\ q[2] = term'
  <2>1. Program(code, live) /\ Program(code', live')
    BY <1>4, CodeIs DEF FlowIInv, FlowInv, FlowTypeOK, Program
  <2> QED BY <1>1, <1>2, <2>1, CodeIs
<1> HIDE DEF p, q
<1>9. ASSUME NEW z \in BOOLEAN, Jumps(term[at], z), NEW c \in P
      PROVE  /\ Quiet(p, Blocks, c) /\ After(p[2], Blocks, z, c) = StepOf(c)
             /\ Quiet(q, Blocks, c) /\ After(q[2], Blocks, z, c) = StepOf(c)
  <2>1. Passable(c) /\ c \in Blocks /\ c # at /\ term'[c] = term[c]
    BY <1>5, <1>6, <1>7
  <2>2. term[c].op # "return"
    BY <1>2, <2>1 DEF Passable, Followed, IsBranch, Conds
  <2>3. After(term, Blocks, z, c) = StepOf(c)
    <3>1. CASE term[c].op = "none"
      <4>1. StepOf(c) = Node(c + 1) /\ ~Jumps(term[c], z)
        BY <3>1 DEF StepOf, Jumps
      <4>2. NextIn(Blocks, c) = Node(c + 1)
        BY <2>1, NextOfAll DEF Node
      <4> QED BY <4>1, <4>2, AfterIs
    <3>2. CASE term[c].op # "none"
      <4>1. Jumps(term[c], z) /\ StepOf(c) = term[c].label
        BY <1>9, <2>1, <3>2 DEF Passable, Followed, Jumps, StepOf
      <4> QED BY <4>1, AfterIs
    <3> QED BY <3>1, <3>2
  <2>4. After(term', Blocks, z, c) = After(term, Blocks, z, c)
    BY <2>1, AfterIs
  <2> QED BY <1>8, <2>1, <2>2, <2>3, <2>4 DEF Quiet, Passable
<1>10. ASSUME NEW z \in BOOLEAN, Jumps(term[at], z)
       PROVE  Does(p, Blocks, z, L) = Does(p, Blocks, z, M) /\ Does(q, Blocks, z, L) = Does(q, Blocks, z, M)
  <2> HIDE DEF to, L, M
  <2>1. \A c \in P : StepOf(c) \in P \cup {to}
    BY <1>5
  <2>2. \A C \in SUBSET P : C # {} => \E c \in C : StepOf(c) \notin C
    BY <1>5, <1>6
  <2>3. /\ \A c \in P : Quiet(p, Blocks, c) /\ After(p[2], Blocks, z, c) = StepOf(c)
        /\ \A c \in P : Quiet(q, Blocks, c) /\ After(q[2], Blocks, z, c) = StepOf(c)
    BY <1>9, <1>10
  <2>4. /\ \A c \in P : Quiet(p, Blocks, c) /\ After(p[2], Blocks, z, c) \in P \cup {to}
        /\ \A C \in SUBSET P : C # {} => \E c \in C : After(p[2], Blocks, z, c) \notin C
    BY <2>1, <2>2, <2>3
  <2>5. /\ \A c \in P : Quiet(q, Blocks, c) /\ After(q[2], Blocks, z, c) \in P \cup {to}
        /\ \A C \in SUBSET P : C # {} => \E c \in C : After(q[2], Blocks, z, c) \notin C
    BY <2>1, <2>2, <2>3
  <2>6. \A c \in P \cup {to} : Does(p, Blocks, z, c) = Does(p, Blocks, z, to)
    BY <1>8, <2>4, WayDoes
  <2>7. \A c \in P \cup {to} : Does(q, Blocks, z, c) = Does(q, Blocks, z, to)
    BY <1>8, <2>5, WayDoes
  <2> QED BY <1>5, <2>6, <2>7
<1>11. ASSUME NEW z \in BOOLEAN, NEW c \in Blocks
       PROVE  /\ After(p[2], Blocks, z, c) \in Blocks \cup {None} /\ After(q[2], Blocks, z, c) \in Blocks \cup {None}
              /\ Does(p, Blocks, z, After(p[2], Blocks, z, c)) = Does(p, Blocks, z, After(q[2], Blocks, z, c))
              /\ Does(q, Blocks, z, After(p[2], Blocks, z, c)) = Does(q, Blocks, z, After(q[2], Blocks, z, c))
  <2>1. After(p[2], Blocks, z, c) \in Blocks \cup {None} /\ After(q[2], Blocks, z, c) \in Blocks \cup {None}
    BY <1>8, AfterType DEF Nodes
  <2>2. Jumps(term'[c], z) <=> Jumps(term[c], z)
    BY <1>7 DEF Jumps
  <2>3. CASE c = at /\ Jumps(term[at], z)
    <3>1. After(p[2], Blocks, z, c) = L /\ After(q[2], Blocks, z, c) = M
      BY <1>7, <1>8, <2>2, <2>3, AfterIs
    <3> QED BY <1>10, <2>1, <2>3, <3>1
  <2>4. CASE ~(c = at /\ Jumps(term[at], z))
    <3>1. After(p[2], Blocks, z, c) = After(q[2], Blocks, z, c)
      BY <1>7, <1>8, <2>2, <2>4, AfterIs
    <3> QED BY <2>1, <3>1
  <2> QED BY <2>3, <2>4
<1>12. ASSUME NEW z \in BOOLEAN
       PROVE  /\ \A b \in Blocks \cup {None} : Does(q, Blocks, z, b) = Does(p, Blocks, z, b)
              /\ \A b \in Blocks : Then(q, Blocks, z, b) = Then(p, Blocks, z, b)
  <2>1. \A c \in Blocks : (q[1][c] <=> p[1][c]) /\ (q[2][c].op = "return" <=> p[2][c].op = "return")
    BY <1>7, <1>8
  <2>2. \A c \in Blocks : p[2][c].op # "return" =>
          /\ After(p[2], Blocks, z, c) \in Blocks \cup {None} /\ After(q[2], Blocks, z, c) \in Blocks \cup {None}
          /\ Does(p, Blocks, z, After(p[2], Blocks, z, c)) = Does(p, Blocks, z, After(q[2], Blocks, z, c))
          /\ Does(q, Blocks, z, After(p[2], Blocks, z, c)) = Does(q, Blocks, z, After(q[2], Blocks, z, c))
    BY <1>11
  <2>3. Blocks \in SUBSET Blocks
    OBVIOUS
  <2> QED BY <1>8, <2>1, <2>2, <2>3, Simulates
<1> QED BY <1>1, <1>2, <1>12, BlockFacts, SameStep DEF p, q

(* Each pass keeps what the program does, first and after each block that does something,
   whatever the branch conditions are (rtl-opt.c). *)
THEOREM BehaviourIsKept == ASSUME ~AllowBranchToNext PROVE FlowSpec => []SameBehaviour
<1>1. FlowInit => SameBehaviour
  BY DEF FlowInit, SameBehaviour
<1>2. FlowIInv /\ SameBehaviour /\ [FlowNext]_flowVars => SameBehaviour'
  <2> SUFFICES ASSUME FlowIInv, SameBehaviour, [FlowNext]_flowVars PROVE SameBehaviour'
    OBVIOUS
  <2>1. CASE UNCHANGED <<code, live, source>>
    BY <2>1 DEF SameBehaviour, code
  <2>2. CASE \/ DeconditionSkip \/ DeconditionEnd \/ ThreadBegin \/ ThreadSkip
             \/ ScanFallThrough \/ ScanFollow \/ ScanCycle \/ ThreadNothing \/ ThreadRefused
             \/ ThreadEnd \/ BranchKept \/ BranchSkip \/ DropLabels \/ UNCHANGED flowVars
    BY <2>1, <2>2 DEF DeconditionSkip, DeconditionEnd, ThreadBegin, ThreadSkip, ScanFallThrough,
       ScanFollow, ScanCycle, ThreadNothing, ThreadRefused, ThreadEnd, BranchKept, BranchSkip,
       DropLabels, EndThread, flowVars, code
  <2>3. CASE DeconditionTaken \/ DeconditionNever
    BY <2>3, DeconditionSame
  <2>4. CASE ThreadBranch
    BY <2>4, ThreadSame
  <2>5. CASE DropDeadBlocks
    BY <2>5, DropSame
  <2>6. CASE BranchToNext
    BY <2>6, BranchToNextSame
  <2> QED BY <2>2, <2>3, <2>4, <2>5, <2>6, Zenon DEF FlowNext
<1> QED BY <1>1, <1>2, FlowInvariance, PTL DEF FlowSpec

(******************************* Termination *******************************)

(* How far the passes have come: the pass, where scanning is a part of threading, and in
   it the block, the last place being the end of the stream. *)
Stage    == CASE pass = "decondition" -> 0 [] pass \in {"thread", "scan"} -> 1
              [] pass = "drop" -> 2 [] pass = "branches" -> 3 [] pass = "done" -> 4
Position == IF at = None THEN NumBlocks ELSE at
Further  == \/ Stage' > Stage
            \/ Stage' = Stage /\ Position' > Position

(* The scan of one branch begins, and then follows a branch to a label not seen before or
   goes on to the next block of the code. *)
ScanBegins  == pass = "thread" /\ pass' = "scan" /\ at' = at
ScanFurther ==
  /\ UNCHANGED <<pass, at>> /\ pass = "scan"
  /\ \/ scan.seen \subseteq scan'.seen /\ scan.seen # scan'.seen
     \/ scan'.seen = scan.seen /\ scan'.to > scan.to

(* What can only go on for a number of steps, since all this is bounded. *)
Goes    == Further \/ ScanBegins \/ ScanFurther
Bounded == /\ Stage \in 0..4 /\ Position \in 0..NumBlocks
           /\ pass = "scan" => scan.seen \subseteq Blocks /\ scan.to \in 0..NumBlocks

(* The block that a pass goes on to is a later one or the end. *)
LEMMA GoOnFurther ==
  ASSUME FlowIInv, at # None, GoOn, Stage' = Stage
  PROVE  Further
<1>1. at \in Blocks /\ live \subseteq Blocks
  BY DEF FlowIInv, StreamOK, FlowInv, FlowTypeOK
<1>2. at \in Nat /\ at < NumBlocks /\ NumBlocks \in Nat
  BY <1>1, BlockFacts
<1>3. at' = None \/ (at' > at /\ at' # None)
  BY <1>1, NextFacts DEF GoOn, NextLive
<1> QED BY <1>2, <1>3 DEF Further, Position

(* The passes and the scan stay within those bounds. *)
LEMMA StageFacts ==
  ASSUME FlowIInv
  PROVE  Bounded
<1>1. /\ pass \in {"decondition", "thread", "scan", "drop", "branches", "done"}
      /\ at \in Blocks \cup {None}
      /\ scan \in [to : (0..NumBlocks) \cup {None}, seen : SUBSET Blocks, label : Blocks \cup {None}]
      /\ pass = "scan" => scan.to # None
  BY DEF FlowIInv, FlowInv, FlowTypeOK, StreamOK, ScanOK
<1>2. Stage \in 0..4
  BY <1>1 DEF Stage
<1>3. Position \in 0..NumBlocks
  BY <1>1, BlockFacts DEF Position
<1> QED BY <1>1, <1>2, <1>3 DEF Bounded

(* thread_branch() follows no cycle of jumps for ever, and every pass ends: each step goes
   on to a later pass, a later block or the scan of a branch, and each step of a scan to a
   label not seen or a later block.  There is no going back, and all of it is bounded. *)
THEOREM PassesProgress ==
  ASSUME ~AllowBranchToNext
  PROVE  FlowSpec => []Bounded /\ [][Goes]_flowVars
<1>1. ASSUME FlowIInv, FlowNext PROVE Goes
  <2>0. at # None => at \in Blocks /\ at \in Nat
    BY <1>1, BlockFacts DEF FlowIInv, FlowInv, FlowTypeOK
  <2>1. CASE DeconditionTaken \/ DeconditionNever \/ DeconditionSkip
    <3>1. at # None /\ GoOn /\ pass' = pass
      BY <2>1 DEF DeconditionTaken, DeconditionNever, DeconditionSkip
    <3> QED BY <1>1, <3>1, GoOnFurther DEF Goes, Stage
  <2>2. CASE DeconditionEnd \/ ThreadEnd \/ DropDeadBlocks \/ DropLabels
    BY <2>2 DEF DeconditionEnd, ThreadEnd, DropDeadBlocks, DropLabels, EndOfPass, Goes, Further, Stage
  <2>3. CASE ThreadBegin
    BY <2>3 DEF ThreadBegin, Goes, ScanBegins
  <2>4. CASE ThreadSkip \/ ScanCycle \/ ThreadNothing \/ ThreadBranch \/ ThreadRefused
    <3>1. GoOn /\ pass' = "thread" /\ pass \in {"thread", "scan"}
      BY <2>4 DEF ThreadSkip, ScanCycle, ThreadNothing, ThreadBranch, ThreadRefused, EndThread,
                  Scanning, ScanStops
    <3>2. at # None
      BY <1>1, <2>4 DEF ThreadSkip, ScanCycle, ThreadNothing, ThreadBranch, ThreadRefused,
                  Scanning, ScanStops, FlowIInv, ScanOK
    <3>3. Stage' = Stage
      BY <3>1 DEF Stage
    <3> QED BY <1>1, <3>1, <3>2, <3>3, GoOnFurther DEF Goes
  <2>5. CASE ScanFallThrough
    <3>1. /\ scan.to \in Nat
          /\ scan \in [to : (0..NumBlocks) \cup {None}, seen : SUBSET Blocks,
                      label : Blocks \cup {None}]
      BY <1>1, <2>5, BlockFacts, StageFacts DEF Bounded, ScanFallThrough, Scanning, FlowIInv, StreamOK
    <3>2. scan'.seen = scan.seen /\ scan'.to > scan.to /\ UNCHANGED <<pass, at>> /\ pass = "scan"
      BY <2>5, <3>1 DEF ScanFallThrough, Scanning
    <3> QED BY <3>2 DEF Goes, ScanFurther
  <2>6. CASE ScanFollow
    BY <2>6 DEF ScanFollow, Scanning, NowSeen, Goes, ScanFurther
  <2>7. CASE BranchToNext \/ BranchKept \/ BranchSkip
    <3>1. at # None /\ GoOn /\ pass' = pass
      BY <2>7 DEF BranchToNext, BranchKept, BranchSkip
    <3> QED BY <1>1, <3>1, GoOnFurther DEF Goes, Stage
  <2> QED BY <1>1, <2>1, <2>2, <2>3, <2>4, <2>5, <2>6, <2>7 DEF FlowNext
<1>2. FlowIInv => Bounded
  BY StageFacts
<1>3. FlowIInv /\ [FlowNext]_flowVars => [Goes]_flowVars
  BY <1>1
<1> QED BY <1>2, <1>3, FlowInvariance, PTL DEF FlowSpec
=============================================================================
