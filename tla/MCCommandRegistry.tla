------------------------- MODULE MCCommandRegistry -------------------------
(* Instances of CommandRegistry for TLC. *)
EXTENDS CommandRegistry, TLC

\* Calls and operators are interchangeable; keys are not: Init picks one.
Symmetry == Permutations(Callers) \cup Permutations(Operators)
=============================================================================
