-------------------------- MODULE MCClientDlls --------------------------
(***************************************************************************)
(* An instance of ClientDlls: one key, one declared copy, two versions of  *)
(* the vendor's file; the .cfg has a native launch and a Lutris gate.      *)
(***************************************************************************)
EXTENDS ClientDlls

CONSTANT k1

MCOneKey == {k1}
MCOriginal == {"v1", "v2"}
MCSource == {"copy"}
=========================================================================
