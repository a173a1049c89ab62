----------------------------- MODULE MCScreens ------------------------------
(* Both screens with a few texts each.                                     *)
EXTENDS Screens
=============================================================================
