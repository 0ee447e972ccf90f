---- MODULE MCRTLUnit ----
(* Bounded instance of RTLUnit. *)
EXTENDS RTLUnit
====
