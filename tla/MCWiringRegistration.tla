--------------------- MODULE MCWiringRegistration ---------------------
(***************************************************************************)
(* Instances of WiringRegistration: two instances whose games have the     *)
(* same slug, and one instance with a game and a launcher.                 *)
(***************************************************************************)
EXTENDS WiringRegistration

CONSTANTS i1, i2, g1, g2, l1

MCSlug == {"octo", "octo-launcher"}
MCOneSlug == {"octo"}
MCRivals == [e \in {g1, g2} |-> IF e = g1 THEN i1 ELSE i2]
MCSame == [e \in {g1, g2} |-> "octo"]
MCAlone == [e \in {g1, l1} |-> i1]
MCApart == [e \in {g1, l1} |-> IF e = g1 THEN "octo" ELSE "octo-launcher"]

\* Never run; on another folder; on another folder with the sync of a third; unset
MCSettings == {[client |-> "old", active |-> "old"], [client |-> "old", active |-> "other"],
               [client |-> "none", active |-> "none"]}
=============================================================================
