------------------------- MODULE MCBisectSession -------------------------
(***************************************************************************)
(* An instance of BisectSession: profiles without dependencies, with a     *)
(* master in the first half, with two mods that need each other across the *)
(* halves, and with a mod the load order puts before what it needs.        *)
(***************************************************************************)
EXTENDS BisectSession

MCRelations == {{}, {<<5, 1>>}, {<<2, 3>>, <<3, 2>>}, {<<1, 3>>}}
=============================================================================
