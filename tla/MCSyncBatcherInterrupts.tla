---------------------- MODULE MCSyncBatcherInterrupts ----------------------
(* Instances of SyncBatcherInterrupts for TLC.                             *)
EXTENDS SyncBatcherInterrupts
=============================================================================
