--------------------------- MODULE MCAutoRecharger ---------------------------
(***************************************************************************)
(* Instances of AutoRecharger for TLC.  The cfg files name the sessions    *)
(* as model values.                                                        *)
(***************************************************************************)
EXTENDS AutoRecharger
=============================================================================
