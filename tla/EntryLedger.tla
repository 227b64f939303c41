---------------------------- MODULE EntryLedger ----------------------------
(***************************************************************************)
(* What a batch engine promises to the application, and nothing of how it  *)
(* does it.  The entries of a kind are numbered in the order in which      *)
(* enqueue() accepted them.  The engine settles each accepted entry at     *)
(* most once, in a batch of consecutive entries of that kind: the batch    *)
(* is delivered (send_batch returned) or failed (send_batch raised, and    *)
(* on_error is called).  After close() was called no entry is accepted.    *)
(*                                                                         *)
(* SyncBatcher and AsyncBatcher implement this specification.              *)
(***************************************************************************)
EXTENDS Integers

CONSTANT Kinds

VARIABLES
  accepted,    \* accepted[k]: how many entries of kind k enqueue() took
  delivered,   \* delivered[k]: the entries in a batch that was sent
  failed,      \* failed[k]: the entries in a batch that was given up
  closed       \* close() was called

vars == <<accepted, delivered, failed, closed>>

Settled(k) == delivered[k] \cup failed[k]

Init ==
  /\ accepted  = [k \in Kinds |-> 0]
  /\ delivered = [k \in Kinds |-> {}]
  /\ failed    = [k \in Kinds |-> {}]
  /\ closed    = FALSE

Accept(k) ==
  /\ ~closed
  /\ accepted' = [accepted EXCEPT ![k] = @ + 1]
  /\ UNCHANGED <<delivered, failed, closed>>

(* The entries lo..hi leave together, and none of them left before.        *)
IsOpenBatch(k, lo, hi) ==
  /\ 1 <= lo /\ lo <= hi /\ hi <= accepted[k]
  /\ (lo .. hi) \cap Settled(k) = {}

Deliver(k, lo, hi) ==
  /\ IsOpenBatch(k, lo, hi)
  /\ delivered' = [delivered EXCEPT ![k] = @ \cup (lo .. hi)]
  /\ UNCHANGED <<accepted, failed, closed>>

Fail(k, lo, hi) ==
  /\ IsOpenBatch(k, lo, hi)
  /\ failed' = [failed EXCEPT ![k] = @ \cup (lo .. hi)]
  /\ UNCHANGED <<accepted, delivered, closed>>

Close ==
  /\ ~closed
  /\ closed' = TRUE
  /\ UNCHANGED <<accepted, delivered, failed>>

Next ==
  \/ Close
  \/ \E k \in Kinds :
       \/ Accept(k)
       \/ \E lo, hi \in 1 .. accepted[k] : Deliver(k, lo, hi) \/ Fail(k, lo, hi)

Spec == Init /\ [][Next]_vars
=============================================================================
