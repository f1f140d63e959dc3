--------------------------- MODULE MCAtHandshake ---------------------------
(***************************************************************************)
(* Instances of AtHandshake for TLC; the cfg files choose the faults.      *)
(***************************************************************************)
EXTENDS AtHandshake
=============================================================================
