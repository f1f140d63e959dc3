--------------------------- MODULE MCBtNavigator ---------------------------
(***************************************************************************)
(* Instances of BtNavigator for TLC: both navigators, in the order in      *)
(* which on_deactivate stops them.                                         *)
(***************************************************************************)
EXTENDS BtNavigator

Navigators == <<"navigate_through_poses", "navigate_to_pose">>
=============================================================================
