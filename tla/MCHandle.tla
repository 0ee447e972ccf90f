------------------------------- MODULE MCHandle -------------------------------
(* Bounded instance of Handle. *)
EXTENDS Handle

(* Regions that start or end inside a page, cover a whole page, lie within one, touch
   three pages, start in the last page, and an empty one. *)
MCRegions ==
  {<<PageSize * p, 1>> : p \in Pages}
    \cup {<<PageSize * p + 1, 1>> : p \in Pages \ {NumPages - 1}}
    \cup {<<PageSize, PageSize>>}
    \cup {<<3, 4>>, <<5, 0>>, <<Space - 1, 0>>}
===============================================================================
