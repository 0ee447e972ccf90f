---- MODULE MCRTLFlowOpt ----
(* Bounded instance of RTLFlowOpt. *)
EXTENDS RTLFlowOpt
====
