---------------------- MODULE MCManagerTransaction ----------------------
(***************************************************************************)
(* Instances of ManagerTransaction: two transactions whose declarations    *)
(* differ over a file in the root and a seed in a directory that may be    *)
(* missing, and one transaction over two files and a seed against a busy   *)
(* outsider.                                                               *)
(***************************************************************************)
EXTENDS ManagerTransaction

CONSTANTS t1, t2, d1, root

MCTwo == {t1, t2}
MCOne == {t1}
MCDirs == {d1}
MCImage == {"orig", "one", "two"}
MCImageTree == {"orig", "one", "tree"}
MCRegular == {"orig", "one", "two"}
MCRegularTree == {"orig", "one"}
MCParentOf == <<root, d1>>
MCParentThree == <<root, d1, d1>>
MCWant == [t \in MCTwo |-> IF t = t1 THEN <<"one", "one">> ELSE <<"two", "two">>]
MCWantThree == [t \in MCOne |-> <<"one", "one", "one">>]
=========================================================================
