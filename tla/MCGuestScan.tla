---- MODULE MCGuestScan ----
(* Bounded instance of GuestScan. *)
EXTENDS GuestScan
====
