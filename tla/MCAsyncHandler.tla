--------------------------- MODULE MCAsyncHandler --------------------------
(* Instances of AsyncHandler for TLC. *)
EXTENDS AsyncHandler
=============================================================================
