---- MODULE MCRTLAliasFlow ----
(* Bounded instance of RTLAliasFlow. *)
EXTENDS RTLAliasFlow
====
