---------------------------- MODULE SyncBatcher ----------------------------
(***************************************************************************)
(* SyncBatcher of src/logdbhq/batching.py: per-kind buffers under one lock,*)
(* a background worker that flushes the buffers that are due, and caller   *)
(* threads in enqueue(), flush() and close().                              *)
(*                                                                         *)
(* An entry is its ordinal among the entries of its kind that enqueue()    *)
(* accepted.  A critical section under _lock never blocks, so it is one    *)
(* step; every access outside the lock (Event.set, Event.clear, reading    *)
(* the clock, one send, one callback) is a step of its own.  Time is kept  *)
(* as the age of _oldest and as the rest of a wait, in ticks.              *)
(***************************************************************************)
EXTENDS Integers, Sequences, SequencesExt

CONSTANTS
  Kinds,             \* the entry kinds: log, log_beat, log_cache
  Callers,           \* application threads
  Worker,            \* the background thread
  NoKind,            \* no send in progress
  BatchSize,         \* batch_size
  FlushInterval,     \* flush_interval, in ticks
  MinWait,           \* the 0.1 s of the worker's wait, in ticks
  MinJoin,           \* the 5 s of close()'s join, in ticks
  CallbackMayClose,  \* may on_error call close() from the worker?
  MaxEntries,        \* bound: entries of a kind
  MaxAge             \* bound: ages saturate here

ASSUME SyncBatcherAssumption ==
  /\ Worker \notin Callers
  /\ NoKind \notin Kinds
  /\ BatchSize \in Nat /\ MaxEntries \in Nat
  /\ MinWait \in Nat /\ MinJoin \in Nat
  /\ FlushInterval \in Nat \ {0}
  /\ CallbackMayClose \in BOOLEAN
  /\ MaxAge \in Nat /\ MaxAge >= FlushInterval

Procs == Callers \cup {Worker}
Unset == -1

VARIABLES
  buffers,        \* _buffers[k]: the entries that wait
  oldest,         \* _oldest[k] as an age; Unset when the key is absent
  wake,           \* the Event _wake
  closed,         \* _closed
  pc, op,         \* where a thread is, and the public call it executes
  timer,          \* what is left of the timeout of wait() and of join()
  aged,           \* the kinds past flush_interval at the worker's `now'
  toSend,         \* toSend[p][k]: the thread's local list to_send
  cur,            \* the kind whose batch the thread sends
  accepted, delivered, failed,   \* history: what became of the entries
  mark            \* history: accepted when the thread called flush()

data    == <<buffers, oldest>>
thread  == <<pc, op, timer>>
sending == <<toSend, cur>>
ledger  == <<accepted, delivered, failed>>
vars    == <<data, wake, closed, thread, aged, sending, ledger, mark>>

AtLeast(m, n) == IF m >= n THEN m ELSE n

WaitTimeout == AtLeast(MinWait, FlushInterval \div 2)
JoinTimeout == AtLeast(FlushInterval, MinJoin)

Nothing == [k \in Kinds |-> << >>]

CallerPC == {"idle", "signal", "wakeWorker", "join", "drain",
             "send", "post", "callback", "cbSignal"}
WorkerPC == {"wait", "clear", "readNow", "take", "send", "post", "callback",
             "cbSignal", "cbWake", "check", "done"}

Init ==
  /\ buffers = Nothing
  /\ oldest  = [k \in Kinds |-> Unset]
  /\ wake    = FALSE
  /\ closed  = FALSE
  /\ pc      = [p \in Procs |-> IF p = Worker THEN "wait" ELSE "idle"]
  /\ op      = [c \in Callers |-> "none"]
  /\ timer   = [p \in Procs |-> IF p = Worker THEN WaitTimeout ELSE 0]
  /\ aged    = {}
  /\ toSend  = [p \in Procs |-> Nothing]
  /\ cur     = [p \in Procs |-> NoKind]
  /\ accepted  = [k \in Kinds |-> 0]
  /\ delivered = [k \in Kinds |-> {}]
  /\ failed    = [k \in Kinds |-> {}]
  /\ mark      = [c \in Callers |-> [k \in Kinds |-> 0]]

Goto(p, place) == pc' = [pc EXCEPT ![p] = place]

-----------------------------------------------------------------------------
(* enqueue(), from an idle thread or from inside on_error *)

Open_Unchecked == TRUE                      \* fault: no check under the lock
Open == ~closed

SizeHit_BeforeAppend(k) == Len(buffers[k]) >= BatchSize   \* fault: off by one
SizeHit(k) == Len(buffers[k]) + 1 >= BatchSize

OldestAfterAppend_Newest(k) == 0            \* fault: assigned, not defaulted
OldestAfterAppend(k) == IF oldest[k] = Unset THEN 0 ELSE oldest[k]

Appended_Front(k, e) == <<e>> \o buffers[k]     \* fault: insert(0, payload)
Appended(k, e) == Append(buffers[k], e)

Enqueue(p, k) ==
  /\ pc[p] \in {"idle", "callback"}
  /\ Open
  /\ accepted[k] < MaxEntries
  /\ accepted' = [accepted EXCEPT ![k] = @ + 1]
  /\ buffers'  = [buffers EXCEPT ![k] = Appended(k, accepted'[k])]
  /\ oldest'   = [oldest EXCEPT ![k] = OldestAfterAppend(k)]
  /\ IF SizeHit(k)
     THEN Goto(p, IF pc[p] = "idle" THEN "signal" ELSE "cbSignal")
     ELSE pc' = pc
  /\ UNCHANGED <<wake, closed, op, timer, aged, sending, delivered, failed,
                 mark>>

(* _wake.set() happens after the lock was released.                        *)
Signal(p) ==
  /\ pc[p] \in {"signal", "cbSignal"}
  /\ wake' = TRUE
  /\ Goto(p, IF pc[p] = "signal" THEN "idle" ELSE "callback")
  /\ UNCHANGED <<data, closed, op, timer, aged, sending, ledger, mark>>

-----------------------------------------------------------------------------
(* flush() and close() *)

FlushCall(c) ==
  /\ pc[c] = "idle"
  /\ Goto(c, "drain")
  /\ op'   = [op EXCEPT ![c] = "flush"]
  /\ mark' = [mark EXCEPT ![c] = accepted]
  /\ UNCHANGED <<data, wake, closed, timer, aged, sending, ledger>>

(* close() tests and sets _closed in one critical section.                 *)
Closes_Untested == closed' = TRUE           \* fault: no early return
Closes == ~closed /\ closed' = TRUE

(* A second close() returns at once and changes nothing.                   *)
CloseCall(c) ==
  /\ pc[c] = "idle"
  /\ Closes
  /\ Goto(c, "wakeWorker")
  /\ op' = [op EXCEPT ![c] = "close"]
  /\ UNCHANGED <<data, wake, timer, aged, sending, ledger, mark>>

CloseWake(c) ==
  /\ pc[c] = "wakeWorker"
  /\ wake'  = TRUE
  /\ Goto(c, "join")
  /\ timer' = [timer EXCEPT ![c] = JoinTimeout]
  /\ UNCHANGED <<data, closed, op, aged, sending, ledger, mark>>

JoinEnds_NoTimeout(c) == pc[Worker] = "done"    \* fault: join() unbounded
JoinEnds(c) == pc[Worker] = "done" \/ timer[c] = 0

JoinReturns(c) ==
  /\ pc[c] = "join"
  /\ JoinEnds(c)
  /\ Goto(c, "drain")
  /\ timer' = [timer EXCEPT ![c] = 0]
  /\ UNCHANGED <<data, wake, closed, op, aged, sending, ledger, mark>>

(* Moving the buffers of the kinds in K into a thread's to_send: a kind of *)
(* which a batch is taken gets a new, empty buffer and loses its timestamp.*)
Taken(K) == [k \in Kinds |-> IF k \in K THEN buffers[k] ELSE << >>]

Left_NotReset(K) == buffers                 \* fault: the buffer is kept
Left(K) == [k \in Kinds |-> IF k \in K THEN << >> ELSE buffers[k]]

OldestLeft_NotPopped(K) == oldest           \* fault: the timestamp is kept
OldestLeft(K) == [k \in Kinds |-> IF k \in K THEN Unset ELSE oldest[k]]

Take(p, K) ==
  /\ toSend'  = [toSend EXCEPT ![p] = Taken(K)]
  /\ buffers' = Left(K)
  /\ oldest'  = OldestLeft(K)
  /\ aged'    = {}

DrainKinds_FullOnly == {k \in Kinds : Len(buffers[k]) >= BatchSize}  \* fault
DrainKinds == {k \in Kinds : buffers[k] # << >>}

DrainAll(c) ==
  /\ pc[c] = "drain"
  /\ Take(c, DrainKinds)
  /\ Goto(c, "send")
  /\ UNCHANGED <<wake, closed, op, timer, cur, ledger, mark>>

-----------------------------------------------------------------------------
(* The loop over to_send and _safe_send(), in any thread *)

SendBegin(p, k) ==
  /\ pc[p] = "send"
  /\ toSend[p][k] # << >>
  /\ cur' = [cur EXCEPT ![p] = k]
  /\ Goto(p, "post")
  /\ UNCHANGED <<data, wake, closed, op, timer, aged, toSend, ledger, mark>>

Forget(p) == /\ toSend' = [toSend EXCEPT ![p][cur[p]] = << >>]
             /\ cur' = [cur EXCEPT ![p] = NoKind]

SendOk(p) ==
  /\ pc[p] = "post"
  /\ delivered' = [delivered EXCEPT ![cur[p]] = @ \cup ToSet(toSend[p][cur[p]])]
  /\ Forget(p)
  /\ Goto(p, "send")
  /\ UNCHANGED <<data, wake, closed, op, timer, aged, accepted, failed, mark>>

(* The send raised; on_error gets the entries.                             *)
SendFail(p) ==
  /\ pc[p] = "post"
  /\ failed' = [failed EXCEPT ![cur[p]] = @ \cup ToSet(toSend[p][cur[p]])]
  /\ Forget(p)
  /\ Goto(p, "callback")
  /\ UNCHANGED <<data, wake, closed, op, timer, aged, accepted, delivered,
                 mark>>

(* on_error returns or raises: the exception is swallowed.                 *)
CallbackReturn(p) ==
  /\ pc[p] = "callback"
  /\ Goto(p, "send")
  /\ UNCHANGED <<data, wake, closed, op, timer, aged, sending, ledger, mark>>

(* on_error calls close() in the worker: join() of the current thread      *)
(* raises, the drain behind it is skipped, _safe_send swallows the error.  *)
CallbackClose ==
  /\ CallbackMayClose
  /\ pc[Worker] = "callback"
  /\ Closes
  /\ Goto(Worker, "cbWake")
  /\ UNCHANGED <<data, wake, op, timer, aged, sending, ledger, mark>>

CallbackCloseFails ==
  /\ pc[Worker] = "cbWake"
  /\ wake' = TRUE
  /\ Goto(Worker, "send")
  /\ UNCHANGED <<data, closed, op, timer, aged, sending, ledger, mark>>

AllSent(p) == toSend[p] = Nothing

CallReturns(c) ==
  /\ pc[c] = "send"
  /\ AllSent(c)
  /\ Goto(c, "idle")
  /\ op'   = [op EXCEPT ![c] = "none"]
  /\ mark' = [mark EXCEPT ![c] = [k \in Kinds |-> 0]]
  /\ UNCHANGED <<data, wake, closed, timer, aged, sending, ledger>>

-----------------------------------------------------------------------------
(* The worker: _run() and _flush_due() *)

WaitReturns ==
  /\ pc[Worker] = "wait"
  /\ wake \/ timer[Worker] = 0
  /\ Goto(Worker, "clear")
  /\ timer' = [timer EXCEPT ![Worker] = 0]
  /\ UNCHANGED <<data, wake, closed, op, aged, sending, ledger, mark>>

Clear ==
  /\ pc[Worker] = "clear"
  /\ wake' = FALSE
  /\ Goto(Worker, "readNow")
  /\ UNCHANGED <<data, closed, op, timer, aged, sending, ledger, mark>>

(* `now' is read before the lock is taken.                                 *)
ReadNow ==
  /\ pc[Worker] = "readNow"
  /\ aged' = {k \in Kinds : oldest[k] >= FlushInterval}
  /\ Goto(Worker, "take")
  /\ UNCHANGED <<data, wake, closed, op, timer, sending, ledger, mark>>

DueKinds_SizeOnly == {k \in Kinds : Len(buffers[k]) >= BatchSize}    \* fault
DueKinds == {k \in Kinds : /\ buffers[k] # << >>
                           /\ Len(buffers[k]) >= BatchSize \/ k \in aged}

TakeDue ==
  /\ pc[Worker] = "take"
  /\ Take(Worker, DueKinds)
  /\ Goto(Worker, "send")
  /\ UNCHANGED <<wake, closed, op, timer, cur, ledger, mark>>

WorkerSent ==
  /\ pc[Worker] = "send"
  /\ AllSent(Worker)
  /\ Goto(Worker, "check")
  /\ UNCHANGED <<data, wake, closed, op, timer, aged, sending, ledger, mark>>

CheckClosed ==
  /\ pc[Worker] = "check"
  /\ IF closed
     THEN Goto(Worker, "done") /\ timer' = timer
     ELSE /\ Goto(Worker, "wait")
          /\ timer' = [timer EXCEPT ![Worker] = WaitTimeout]
  /\ UNCHANGED <<data, wake, closed, op, aged, sending, ledger, mark>>

-----------------------------------------------------------------------------
(* One tick of the clock *)

Older(age) == IF age = Unset \/ age = MaxAge THEN age ELSE age + 1

Tick ==
  /\ oldest' = [k \in Kinds |-> Older(oldest[k])]
  /\ timer'  = [p \in Procs |-> IF timer[p] = 0 THEN 0 ELSE timer[p] - 1]
  /\ UNCHANGED <<buffers, wake, closed, pc, op, aged, sending, ledger, mark>>

-----------------------------------------------------------------------------

SendStep(p) == \/ \E k \in Kinds : SendBegin(p, k)
               \/ SendOk(p)
               \/ SendFail(p)
               \/ CallbackReturn(p)

(* What a thread does once its call is under way.                          *)
CallerStep(c) == \/ Signal(c) \/ CloseWake(c) \/ JoinReturns(c)
                 \/ DrainAll(c) \/ SendStep(c) \/ CallReturns(c)

WorkerStep == \/ WaitReturns \/ Clear \/ ReadNow \/ TakeDue
              \/ SendStep(Worker) \/ Signal(Worker) \/ CallbackCloseFails
              \/ WorkerSent \/ CheckClosed

(* What the application chooses to call.                                   *)
AppCall == \/ \E p \in Procs, k \in Kinds : Enqueue(p, k)
           \/ \E c \in Callers : FlushCall(c) \/ CloseCall(c)
           \/ CallbackClose

Next == AppCall \/ WorkerStep \/ (\E c \in Callers : CallerStep(c)) \/ Tick

Spec == Init /\ [][Next]_vars

-----------------------------------------------------------------------------
(* Properties *)

Batches == [Kinds -> Seq(1 .. MaxEntries)]

DataOK == /\ buffers \in Batches
          /\ oldest \in [Kinds -> {Unset} \cup 0 .. MaxAge]
          /\ wake \in BOOLEAN /\ closed \in BOOLEAN
          /\ aged \in SUBSET Kinds

ThreadOK == /\ pc \in [Procs -> CallerPC \cup WorkerPC]
            /\ \A c \in Callers : pc[c] \in CallerPC
            /\ pc[Worker] \in WorkerPC
            /\ op \in [Callers -> {"none", "flush", "close"}]
            /\ timer \in [Procs -> Nat]

SendingOK == /\ toSend \in [Procs -> Batches]
             /\ cur \in [Procs -> Kinds \cup {NoKind}]
             /\ \A p \in Procs : pc[p] = "post" <=> cur[p] # NoKind

HistoryOK == /\ accepted \in [Kinds -> 0 .. MaxEntries]
             /\ delivered \in [Kinds -> SUBSET (1 .. MaxEntries)]
             /\ failed \in [Kinds -> SUBSET (1 .. MaxEntries)]
             /\ mark \in [Callers -> [Kinds -> 0 .. MaxEntries]]

(* However many threads call close(), on_error in the worker among them,   *)
(* one gets past its test of _closed, and it has closed the batcher; only  *)
(* then does the worker end.                                               *)
InClose(p) == IF p = Worker THEN pc[p] = "cbWake" ELSE op[p] = "close"

ClosingOK == /\ \A p \in Procs : InClose(p) =>
                  closed /\ \A q \in Procs : InClose(q) => q = p
             /\ pc[Worker] = "done" => closed

(* Every variable has its type; a thread sends a kind exactly while it is  *)
(* inside send_batch; and at most one thread executes close(), on a closed *)
(* batcher (batching.py:89: "Safe to call more than once").                *)
TypeOK == DataOK /\ ThreadOK /\ SendingOK /\ ClosingOK /\ HistoryOK

Settled(k) == delivered[k] \cup failed[k]
Buffered(k) == ToSet(buffers[k])
InFlight(p, k) == ToSet(toSend[p][k])

Consecutive(s) == \A i \in 1 .. Len(s) : s[i] = s[1] + (i - 1)

Held(k) == UNION {InFlight(p, k) : p \in Procs}

Accounted(k) ==
  /\ 1 .. accepted[k] = Buffered(k) \cup Settled(k) \cup Held(k)
  /\ Buffered(k) \cap Settled(k) = {}
  /\ delivered[k] \cap failed[k] = {}
  /\ \A p \in Procs :
       /\ InFlight(p, k) \cap (Buffered(k) \cup Settled(k)) = {}
       /\ \A q \in Procs \ {p} : InFlight(p, k) \cap InFlight(q, k) = {}

(* No entry is lost and none is held twice: whatever enqueue() accepted is *)
(* in the buffer, in the to_send of one thread, delivered or failed.       *)
EntriesAccounted == \A k \in Kinds : Accounted(k)

(* A buffer and a batch hold consecutive entries in the order in which     *)
(* they were accepted, and the buffer holds the newest ones.               *)
BatchesInOrder ==
  \A k \in Kinds :
    /\ Consecutive(buffers[k])
    /\ buffers[k] # << >> => buffers[k][Len(buffers[k])] = accepted[k]
    /\ \A p \in Procs : Consecutive(toSend[p][k])

(* _oldest has a timestamp exactly for the kinds whose buffer holds        *)
(* something: the age test of _flush_due never sees a leftover.            *)
OldestTracksBuffer ==
  \A k \in Kinds : buffers[k] = << >> <=> oldest[k] = Unset

(* A buffer that reached batch_size is never left to the timer alone: the  *)
(* event is set, some thread is about to set it, or the worker has yet to  *)
(* look at the buffers in this round.                                      *)
NoLostWakeup ==
  \A k \in Kinds :
    buffers[k] # << >> /\ Len(buffers[k]) >= BatchSize =>
      \/ wake
      \/ \E p \in Procs : pc[p] \in {"signal", "cbSignal"}
      \/ pc[Worker] \in {"clear", "readNow", "take"}

Closing == \E c \in Callers : /\ op[c] = "close"
                             /\ pc[c] \in {"wakeWorker", "join", "drain"}

(* After close() was called, either its drain is still to come or no entry *)
(* is left behind in a buffer that nobody will look at again.              *)
NothingStranded ==
  closed /\ ~Closing => \A k \in Kinds : buffers[k] = << >>

(* Once flush() took the buffers, no entry that was accepted before the    *)
(* call waits in a buffer: it is settled or some thread is sending it.     *)
FlushTookAll ==
  \A c \in Callers : op[c] = "flush" /\ pc[c] # "drain" =>
    \A k \in Kinds : Buffered(k) \cap (1 .. mark[c][k]) = {}

(* The promise to the application (EntryLedger), step by step.             *)
Ledger == INSTANCE EntryLedger WITH
  accepted <- accepted, delivered <- delivered, failed <- failed, closed <- closed
ImplementsLedger == Ledger!Spec

(* close() returns, even if the worker hangs in a send for ever.           *)
CloseReturns == \A c \in Callers : op[c] = "close" ~> op[c] = "none"
=============================================================================
