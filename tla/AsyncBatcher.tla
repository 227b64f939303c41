---------------------------- MODULE AsyncBatcher ---------------------------
(***************************************************************************)
(* AsyncBatcher of src/logdbhq/batching.py: the buffers of SyncBatcher     *)
(* without a lock, on one event loop.  What a task does between two awaits *)
(* is one step; the loop interleaves the steps of the worker task and of   *)
(* the tasks that call enqueue(), flush() and close().                     *)
(*                                                                         *)
(* A task that is cancelled gets CancelledError at its await.  _safe_send  *)
(* does not catch it: the batch and the rest of to_send are gone without a *)
(* call of on_error.  close() itself cancels the worker that is too slow.  *)
(***************************************************************************)
EXTENDS Integers, Sequences, SequencesExt

CONSTANTS
  Kinds, Callers, Worker, NoKind,
  BatchSize,
  FlushInterval, MinWait, MinJoin,   \* in ticks; 0.1 s and 5 s in the code
  AppMayCancel,                      \* may the application cancel its tasks?
  MaxEntries,                        \* bound: entries of a kind
  MaxAge                             \* bound: ages saturate here

ASSUME AsyncBatcherAssumption ==
  /\ Worker \notin Callers
  /\ NoKind \notin Kinds
  /\ BatchSize \in Nat /\ MaxEntries \in Nat
  /\ MinWait \in Nat /\ MinJoin \in Nat
  /\ FlushInterval \in Nat \ {0}
  /\ AppMayCancel \in BOOLEAN
  /\ MaxAge \in Nat /\ MaxAge >= FlushInterval

Tasks == Callers \cup {Worker}
Unset == -1

VARIABLES
  buffers,       \* _buffers[k]
  oldest,        \* _oldest[k] as an age; Unset when the key is absent
  wake,          \* the asyncio.Event _wake
  closed,        \* _closed
  pc, op,        \* the await a task is at, and the call it executes
  timer,         \* what is left of the timeout of a wait_for
  toSend,        \* toSend[t][k]: the task's local list to_send
  cur,           \* the kind whose batch the task sends
  accepted, delivered, failed,   \* history: what became of the entries
  lost,          \* history: the entries of cancelled tasks
  closeReturned  \* history: a close() ran to its end

data    == <<buffers, oldest>>
control == <<pc, op, timer>>
sending == <<toSend, cur>>
ledger  == <<accepted, delivered, failed, lost>>
vars    == <<data, wake, closed, control, sending, ledger, closeReturned>>

AtLeast(m, n) == IF m >= n THEN m ELSE n
WaitTimeout == AtLeast(MinWait, FlushInterval \div 2)
JoinTimeout == AtLeast(FlushInterval, MinJoin)

Nothing == [k \in Kinds |-> << >>]

Init ==
  /\ buffers = Nothing
  /\ oldest  = [k \in Kinds |-> Unset]
  /\ wake    = FALSE
  /\ closed  = FALSE
  /\ pc      = [t \in Tasks |-> IF t = Worker THEN "wait" ELSE "idle"]
  /\ op      = [c \in Callers |-> "none"]
  /\ timer   = [t \in Tasks |-> IF t = Worker THEN WaitTimeout ELSE 0]
  /\ toSend  = [t \in Tasks |-> Nothing]
  /\ cur     = [t \in Tasks |-> NoKind]
  /\ accepted  = [k \in Kinds |-> 0]
  /\ delivered = [k \in Kinds |-> {}]
  /\ failed    = [k \in Kinds |-> {}]
  /\ lost      = [k \in Kinds |-> {}]
  /\ closeReturned = FALSE

Goto(t, place) == pc' = [pc EXCEPT ![t] = place]

-----------------------------------------------------------------------------
(* enqueue() *)

SizeHit_BeforeAppend(k) == Len(buffers[k]) >= BatchSize   \* fault: off by one
SizeHit(k) == Len(buffers[k]) + 1 >= BatchSize

Open_Unchecked == TRUE                      \* fault: _closed is not tested
Open == ~closed

Enqueue(c, k) ==
  /\ pc[c] = "idle"
  /\ Open
  /\ accepted[k] < MaxEntries
  /\ accepted' = [accepted EXCEPT ![k] = @ + 1]
  /\ buffers'  = [buffers EXCEPT ![k] = Append(@, accepted'[k])]
  /\ oldest'   = [oldest EXCEPT ![k] = IF @ = Unset THEN 0 ELSE @]
  /\ wake'     = (wake \/ SizeHit(k))
  /\ UNCHANGED <<closed, control, sending, delivered, failed, lost,
                 closeReturned>>

-----------------------------------------------------------------------------
(* The loop over to_send.  A task sends what is left of it, or its call is *)
(* over: a caller returns, the worker looks at _closed.                    *)

Taken(K) == [k \in Kinds |-> IF k \in K THEN buffers[k] ELSE << >>]

Left_NotReset(K) == buffers                 \* fault: the buffer is kept
Left(K) == [k \in Kinds |-> IF k \in K THEN << >> ELSE buffers[k]]

Take(K) ==
  /\ buffers' = Left(K)
  /\ oldest'  = [k \in Kinds |-> IF k \in K THEN Unset ELSE oldest[k]]

SendNext(t, rest) ==
  \E k \in Kinds :
    /\ rest[k] # << >>
    /\ cur' = [cur EXCEPT ![t] = k]
    /\ Goto(t, "post")
    /\ timer' = [timer EXCEPT ![t] = 0]
    /\ UNCHANGED closeReturned

WorkerEnds == closed

CallEnds(t) ==
  /\ cur' = [cur EXCEPT ![t] = NoKind]
  /\ IF t = Worker
     THEN /\ Goto(t, IF WorkerEnds THEN "done" ELSE "wait")
          /\ timer' = [timer EXCEPT ![t] = IF WorkerEnds THEN 0 ELSE WaitTimeout]
          /\ UNCHANGED closeReturned
     ELSE /\ Goto(t, "idle")
          /\ timer' = [timer EXCEPT ![t] = 0]
          /\ closeReturned' = (closeReturned \/ op[t] = "close")

Proceed(t, rest, call) ==
  /\ toSend' = [toSend EXCEPT ![t] = rest]
  /\ IF rest = Nothing THEN CallEnds(t) ELSE SendNext(t, rest)
  /\ op' = IF t = Worker THEN op
           ELSE [op EXCEPT ![t] = IF rest = Nothing THEN "none" ELSE call]

Rest(t) == [toSend[t] EXCEPT ![cur[t]] = << >>]

Settle(t, set) == [set EXCEPT ![cur[t]] = @ \cup ToSet(toSend[t][cur[t]])]

Call(t) == IF t = Worker THEN "none" ELSE op[t]

SendOk(t) ==
  /\ pc[t] = "post"
  /\ delivered' = Settle(t, delivered)
  /\ Proceed(t, Rest(t), Call(t))
  /\ UNCHANGED <<data, wake, closed, accepted, failed, lost>>

(* The send raised an Exception; on_error gets the entries.                *)
SendFail(t) ==
  /\ pc[t] = "post"
  /\ failed' = Settle(t, failed)
  /\ Proceed(t, Rest(t), Call(t))
  /\ UNCHANGED <<data, wake, closed, accepted, delivered, lost>>

-----------------------------------------------------------------------------
(* flush() and close() *)

DrainKinds == {k \in Kinds : buffers[k] # << >>}

DrainAll(c, call) ==
  /\ Take(DrainKinds)
  /\ Proceed(c, Taken(DrainKinds), call)

Flush(c) ==
  /\ pc[c] = "idle"
  /\ DrainAll(c, "flush")
  /\ UNCHANGED <<wake, closed, ledger>>

(* A second close() returns at once and changes nothing.                   *)
Close(c) ==
  /\ pc[c] = "idle"
  /\ ~closed
  /\ closed' = TRUE
  /\ wake'   = TRUE
  /\ Goto(c, "join")
  /\ op'     = [op EXCEPT ![c] = "close"]
  /\ timer'  = [timer EXCEPT ![c] = JoinTimeout]
  /\ UNCHANGED <<data, sending, ledger, closeReturned>>

(* CancelledError in task t: what it holds is gone.                        *)
Cancelled_Kept(t) ==                        \* fault: to_send outlives the task
  /\ lost' = [k \in Kinds |-> lost[k] \cup ToSet(toSend[t][k])]
  /\ UNCHANGED <<sending, accepted, delivered, failed>>
Cancelled(t) ==
  /\ lost'   = [k \in Kinds |-> lost[k] \cup ToSet(toSend[t][k])]
  /\ toSend' = [toSend EXCEPT ![t] = Nothing]
  /\ cur'    = [cur EXCEPT ![t] = NoKind]
  /\ UNCHANGED <<accepted, delivered, failed>>

WorkerRuns == pc[Worker] # "done"

JoinOver_Never(c) == FALSE                  \* fault: no timeout
JoinOver(c) == timer[c] = 0

(* wait_for() cancels the worker when the timeout is over.                 *)
JoinTimesOut(c) ==
  /\ pc[c] = "join"
  /\ JoinOver(c)
  /\ WorkerRuns
  /\ Cancelled(Worker)
  /\ Goto(Worker, "done")
  /\ timer' = [timer EXCEPT ![Worker] = 0]
  /\ UNCHANGED <<data, wake, closed, op, closeReturned>>

JoinEnds_OnTimer(c) == WorkerRuns => timer[c] = 0   \* fault: nobody cancels
JoinEnds(c) == ~WorkerRuns

JoinReturns(c) ==
  /\ pc[c] = "join"
  /\ JoinEnds(c)
  /\ DrainAll(c, "close")
  /\ UNCHANGED <<wake, closed, ledger>>

-----------------------------------------------------------------------------
(* The worker: one round of _run() with _flush_due() *)

Due(k) == /\ buffers[k] # << >>
          /\ Len(buffers[k]) >= BatchSize \/ oldest[k] >= FlushInterval

DueKinds_SizeOnly == {k \in Kinds : Len(buffers[k]) >= BatchSize}    \* fault
DueKinds == {k \in Kinds : Due(k)}

WorkerRound ==
  /\ pc[Worker] = "wait"
  /\ wake \/ timer[Worker] = 0
  /\ wake' = FALSE
  /\ Take(DueKinds)
  /\ Proceed(Worker, Taken(DueKinds), "none")
  /\ UNCHANGED <<closed, ledger>>

-----------------------------------------------------------------------------
(* The application cancels a task inside flush() or close().  In close()   *)
(* wait_for() passes it on to the worker, and the drain is skipped.        *)

CancelSend(c) ==
  /\ AppMayCancel
  /\ pc[c] = "post"
  /\ Cancelled(c)
  /\ Goto(c, "idle")
  /\ op' = [op EXCEPT ![c] = "none"]
  /\ UNCHANGED <<data, wake, closed, timer, closeReturned>>

CancelJoin(c) ==
  /\ AppMayCancel
  /\ pc[c] = "join"
  /\ Cancelled(Worker)
  /\ pc'    = [pc EXCEPT ![c] = "idle", ![Worker] = "done"]
  /\ op'    = [op EXCEPT ![c] = "none"]
  /\ timer' = [timer EXCEPT ![c] = 0, ![Worker] = 0]
  /\ UNCHANGED <<data, wake, closed, closeReturned>>

Older(age) == IF age = Unset \/ age = MaxAge THEN age ELSE age + 1

Tick ==
  /\ oldest' = [k \in Kinds |-> Older(oldest[k])]
  /\ timer'  = [t \in Tasks |-> IF timer[t] = 0 THEN 0 ELSE timer[t] - 1]
  /\ UNCHANGED <<buffers, wake, closed, pc, op, sending, ledger, closeReturned>>

-----------------------------------------------------------------------------

SendStep(t) == SendOk(t) \/ SendFail(t)

CallerStep(c) == JoinTimesOut(c) \/ JoinReturns(c) \/ SendStep(c)

AppCall(c) == \/ \E k \in Kinds : Enqueue(c, k)
              \/ Flush(c) \/ Close(c) \/ CancelSend(c) \/ CancelJoin(c)

Next == \/ \E c \in Callers : AppCall(c) \/ CallerStep(c)
        \/ WorkerRound \/ SendStep(Worker)
        \/ Tick

Spec == Init /\ [][Next]_vars

(* The sends of the worker end.                                            *)
WorkerSendsEnd == WF_vars(SendStep(Worker))

-----------------------------------------------------------------------------
(* Properties *)

Batches == [Kinds -> Seq(1 .. MaxEntries)]
Ordinals == [Kinds -> SUBSET (1 .. MaxEntries)]

DataOK == /\ buffers \in Batches
          /\ oldest \in [Kinds -> {Unset} \cup 0 .. MaxAge]
          /\ wake \in BOOLEAN /\ closed \in BOOLEAN

TaskOK == /\ pc \in [Tasks -> {"idle", "join", "post", "wait", "done"}]
          /\ pc[Worker] \in {"wait", "post", "done"}
          /\ \A c \in Callers : pc[c] \in {"idle", "join", "post"}
          /\ op \in [Callers -> {"none", "flush", "close"}]
          /\ \A c \in Callers : op[c] = "none" <=> pc[c] = "idle"
          /\ timer \in [Tasks -> Nat]

SendingOK == /\ toSend \in [Tasks -> Batches]
             /\ cur \in [Tasks -> Kinds \cup {NoKind}]
             /\ \A t \in Tasks : pc[t] = "post" <=> cur[t] # NoKind
             /\ \A t \in Tasks : pc[t] # "post" => toSend[t] = Nothing

HistoryOK == /\ accepted \in [Kinds -> 0 .. MaxEntries]
             /\ delivered \in Ordinals /\ failed \in Ordinals
             /\ lost \in Ordinals
             /\ closeReturned \in BOOLEAN

(* Types; a task holds entries exactly while it awaits a send, and a       *)
(* caller is at an await exactly while its call is under way.              *)
TypeOK == DataOK /\ TaskOK /\ SendingOK /\ HistoryOK

Settled(k) == delivered[k] \cup failed[k]
Buffered(k) == ToSet(buffers[k])
InFlight(t, k) == ToSet(toSend[t][k])

Accounted(k) ==
  /\ 1 .. accepted[k] =
       Buffered(k) \cup Settled(k) \cup lost[k] \cup UNION {InFlight(t, k) : t \in Tasks}
  /\ Buffered(k) \cap (Settled(k) \cup lost[k]) = {}
  /\ delivered[k] \cap failed[k] = {}
  /\ Settled(k) \cap lost[k] = {}
  /\ \A t \in Tasks :
       /\ InFlight(t, k) \cap (Buffered(k) \cup Settled(k) \cup lost[k]) = {}
       /\ \A u \in Tasks \ {t} : InFlight(t, k) \cap InFlight(u, k) = {}

(* Without a lock, too, an accepted entry is in exactly one place: the     *)
(* buffer, the to_send of one task, delivered, failed, or lost with a      *)
(* cancelled task.                                                         *)
EntriesAccounted == \A k \in Kinds : Accounted(k)

Drained == closeReturned \/ \E c \in Callers : op[c] = "close" /\ pc[c] = "post"

(* Once close() took the buffers they are empty for good, also when its    *)
(* join timed out.                                                         *)
NothingStranded == Drained => \A k \in Kinds : buffers[k] = << >>

(* The promise to the application (EntryLedger).  A lost entry is one that *)
(* is never settled.                                                       *)
Ledger == INSTANCE EntryLedger WITH
  accepted <- accepted, delivered <- delivered, failed <- failed, closed <- closed
ImplementsLedger == Ledger!Spec

(* A close() that was cancelled in its join: _closed is set, the worker is *)
(* gone, and no later close() does anything.                               *)
CloseCancelled ==
  closed /\ ~closeReturned /\ pc[Worker] = "done" /\ \A c \in Callers : op[c] # "close"

(* Every accepted entry is settled in the end, or lost with a cancelled    *)
(* task; only a cancelled close() leaves entries behind for ever.          *)
EveryEntrySettles ==
  WorkerSendsEnd =>
    \A k \in Kinds : \A n \in 1 .. MaxEntries :
      accepted[k] >= n ~> n \in Settled(k) \cup lost[k] \/ CloseCancelled

-----------------------------------------------------------------------------
(* What the documentation says and the code does not do *)

(* "Called for any delivery failure after retries are exhausted": no entry *)
(* disappears without on_error, whatever the application does with flush() *)
(* and close().                                                            *)
NoSilentLoss == \A k \in Kinds : lost[k] = {}
=============================================================================
