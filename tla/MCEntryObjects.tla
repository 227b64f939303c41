--------------------------- MODULE MCEntryObjects ---------------------------
(* Values for the model checking of EntryObjects.                          *)
EXTENDS EntryObjects
=============================================================================
