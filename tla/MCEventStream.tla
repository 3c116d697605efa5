---------------------------- MODULE MCEventStream ----------------------------
(* Instances of EventStream for TLC. *)
EXTENDS EventStream

\* Browsers and slots are interchangeable.
Symmetry == Permutations(Browsers) \cup Permutations(Slots)
=============================================================================
