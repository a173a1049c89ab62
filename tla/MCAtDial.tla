------------------------------ MODULE MCAtDial ------------------------------
(* The dial dialogue with the five-node ring of the program.               *)
EXTENDS AtDial
=============================================================================
