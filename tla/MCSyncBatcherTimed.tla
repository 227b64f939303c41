------------------------- MODULE MCSyncBatcherTimed ------------------------
(* Instances of SyncBatcherTimed for TLC. *)
EXTENDS SyncBatcherTimed, TLC

Symmetry == Permutations(Callers) \cup Permutations(Kinds)
=============================================================================
