--------------------------- MODULE MCAsyncBatcher --------------------------
(* Instances of AsyncBatcher for TLC. *)
EXTENDS AsyncBatcher, TLC
=============================================================================
