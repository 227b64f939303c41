--------------------------- MODULE MCSyncBatcher ---------------------------
(* Instances of SyncBatcher for TLC. *)
EXTENDS SyncBatcher, TLC

Symmetry == Permutations(Callers) \cup Permutations(Kinds)
=============================================================================
