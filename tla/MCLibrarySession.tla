------------------------ MODULE MCLibrarySession ------------------------
(***************************************************************************)
(* Instances of LibrarySession: one or two profiles and launches.          *)
(***************************************************************************)
EXTENDS LibrarySession, TLC

CONSTANTS a, b

MCProfile == {a, b}
MCOneProfile == {a}
MCSymmetry == Permutations(MCProfile)
=========================================================================
