------------------------------ MODULE MCBridge ------------------------------
(* Instances of Bridge for TLC. *)
EXTENDS Bridge, TLC

\* Links are interchangeable.
Symmetry == Permutations(Links)
=============================================================================
