------------------------- MODULE MCMissionDownload -------------------------
(* Instances of MissionDownload for TLC. *)
EXTENDS MissionDownload, TLC

\* Calls and keys are interchangeable.
Symmetry == Permutations(Calls) \cup Permutations(Keys)
=============================================================================
