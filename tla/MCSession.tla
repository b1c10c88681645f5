----------------------------- MODULE MCSession -----------------------------
(* Small instances of Session: the supervisors are interchangeable.        *)
EXTENDS Session, TLC
Symmetry == Permutations(Supervisors)
=============================================================================
