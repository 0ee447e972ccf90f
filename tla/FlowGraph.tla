------------------------------ MODULE FlowGraph ------------------------------
(* What the block table of an RTL unit promises: a control-flow graph whose
   nodes are the real basic blocks, whose edges form a set, and in which no
   node has more than two outgoing edges.  Nothing is said of slots, of the
   seven-entry arrays or of the dummy blocks that extend them. *)
CONSTANT Node          \* names a block can have

VARIABLES nodes,       \* blocks created so far
          edges        \* the edges between them

vars == <<nodes, edges>>

Out(b) == {e \in edges : e[1] = b}

Init == nodes = {} /\ edges = {}

(* rtl_block_add: a fresh block, with no edge. *)
AddNode == \E b \in Node \ nodes : nodes' = nodes \cup {b} /\ edges' = edges

(* rtl_block_add_edge, when it succeeds. *)
AddEdge == \E b, t \in nodes :
             /\ \A x, y \in Out(b) : x = y          \* no second edge leaves b
             /\ edges' = edges \cup {<<b, t>>}
             /\ UNCHANGED nodes

(* rtl_block_remove_edge. *)
RemoveEdge == \E e \in edges : edges' = edges \ {e} /\ UNCHANGED nodes

Next == AddNode \/ AddEdge \/ RemoveEdge

Spec == Init /\ [][Next]_vars
==============================================================================
