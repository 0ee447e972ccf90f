---- MODULE MCGuestCRTrim ----
(* Bounded instance of GuestCRTrim. *)
EXTENDS GuestCRTrim
MCBodies == {<<>>, <<"set">>, <<"use", "set">>, <<"mfcr">>, <<"set", "mfcr">>}
====
