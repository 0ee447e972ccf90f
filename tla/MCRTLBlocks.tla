---- MODULE MCRTLBlocks ----
(* Bounded instance of RTLBlocks: three real blocks, and no edge until all
   three exist (label, branch and return instructions create every block
   before rtl_finalize_unit() adds the branch edges that fill entry slots). *)
EXTENDS RTLBlocks

MaxReal == 3

BlocksFirst ==
  /\ Cardinality(Real) <= MaxReal
  /\ ExitEdges # {} => Cardinality(Real) = MaxReal
====
