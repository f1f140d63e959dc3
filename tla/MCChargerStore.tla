--------------------------- MODULE MCChargerStore ---------------------------
(***************************************************************************)
(* Instances of ChargerStore for TLC; the cfg files choose the faults.     *)
(***************************************************************************)
EXTENDS ChargerStore
=============================================================================
