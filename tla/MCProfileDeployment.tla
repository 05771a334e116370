-------------------------- MODULE MCProfileDeployment --------------------------
(* Small instances of ProfileDeployment: two mods meet in a folder's file, the   *)
(* second also has a file at the top.                                            *)
EXTENDS ProfileDeployment, TLC

CONSTANTS main, second, inFolder, other, top, folder

MCFolderOf == [f \in File |-> IF f = top THEN top ELSE folder]
MCProvides == 1 :> File \ {top} @@ 2 :> {inFolder, top}
=============================================================================
