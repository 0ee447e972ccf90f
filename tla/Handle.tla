-------------------------------- MODULE Handle --------------------------------
(* What a client does with a handle (api.c): it declares read-only memory, sets
   flags, and translates, one call after the other.  ReadonlyMap and Translate are
   the two parts of the handle's state; neither kind of call touches the other's. *)
EXTENDS ReadonlyMap, Translate

handleVars == <<mapVars, translateVars>>
HandleInit == MapInit /\ TranslateInit

(* Bounds: regions are declared before the flags are set, and translations followed
   step by step while no region is declared. *)
Declare   == stage = "idle" /\ flags = {} /\ MapNext /\ UNCHANGED translateVars
Translate == map = Empty /\ added = {} /\ TranslateNext /\ UNCHANGED mapVars

HandleNext == Declare \/ Translate
HandleSpec == HandleInit /\ [][HandleNext]_handleVars

(* The invariant of a handle between calls and within them: nothing leaked, released
   twice or left behind by a translation, and the map searchable. *)
HandleInv == TranslateInv /\ MapInv
===============================================================================
