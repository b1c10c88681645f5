---------------------------- MODULE MCTouchPanel ----------------------------
(* The panel with controls that may be exchanged for one another. *)
EXTENDS TouchPanel, TLC
Symmetry == Permutations(Controls)
=============================================================================
