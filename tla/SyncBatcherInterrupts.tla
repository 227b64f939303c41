----------------------- MODULE SyncBatcherInterrupts -----------------------
(***************************************************************************)
(* SyncBatcher in a program that the user may interrupt (Control-C).       *)
(* KeyboardInterrupt is raised in the main thread only, in any call that   *)
(* it is inside of; it is not an Exception, so that no except clause of    *)
(* batching.py stops it.  What the thread had in its to_send is gone, and  *)
(* what was still to be done is not done: the Event is not set, a close()  *)
(* does not drain.  The critical sections stay whole.                      *)
(***************************************************************************)
EXTENDS SyncBatcher

CONSTANT Main    \* the thread that gets the interrupts

ASSUME InterruptsAssumption == Main \in Callers

(* The call ends with the exception.                                       *)
Interrupt ==
  /\ pc[Main] # "idle"
  /\ Goto(Main, "idle")
  /\ op'     = [op EXCEPT ![Main] = "none"]
  /\ mark'   = [mark EXCEPT ![Main] = [k \in Kinds |-> 0]]
  /\ timer'  = [timer EXCEPT ![Main] = 0]
  /\ toSend' = [toSend EXCEPT ![Main] = Nothing]
  /\ cur'    = [cur EXCEPT ![Main] = NoKind]
  /\ UNCHANGED <<data, wake, closed, aged, ledger>>

InterruptNext == Next \/ Interrupt

(* Time passes, and threads that call into the batcher are scheduled, with *)
(* sends that end.  The application need not call anything.                *)
InterruptFairSpec ==
  /\ Init /\ [][InterruptNext]_vars
  /\ WF_vars(Tick)
  /\ \A c \in Callers : WF_vars(CallerStep(c))

(* The worker is scheduled too, and its sends end: every HTTP call has a   *)
(* timeout and max_retries is finite.                                      *)
WorkerRuns == WF_vars(WorkerStep)

-----------------------------------------------------------------------------
(* Properties *)

(* No accepted entry waits for ever: its size, its age, a flush or the     *)
(* close takes it out of the buffers, and the send of its batch ends; what *)
(* an interrupted call left undone, the worker and the calls of other      *)
(* threads make good.  (EntriesAccounted says where it is then: delivered  *)
(* or failed, or gone with the to_send of an interrupted call.)  Excluded  *)
(* are the runs in which a close() never drains, because it is interrupted *)
(* before that or was called from the worker's own on_error, and entries   *)
(* are left: nobody looks at the buffers any more.                         *)
NoEntryWaitsForever ==
  WorkerRuns /\ []NothingStranded =>
    \A k \in Kinds : \A n \in 1 .. MaxEntries :
      accepted[k] >= n ~> n \notin Buffered(k) \cup Held(k)
=============================================================================
