--------------------------- MODULE MCRecordingStore ---------------------------
(* Instances of RecordingStore for TLC. *)
EXTENDS RecordingStore
=============================================================================
