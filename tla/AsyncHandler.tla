---------------------------- MODULE AsyncHandler ----------------------------
(***************************************************************************)
(* A LogDBHandler of an AsyncLogDBClient (logging_handler.py) whose emit() *)
(* runs on threads that are not the event loop's: _enqueue_async() calls   *)
(* AsyncBatcher.enqueue(), which has no lock.  The loop may run between    *)
(* any two steps of such a thread, and take or drop the list that it has   *)
(* just fetched from _buffers.                                             *)
(*                                                                         *)
(* The batcher exists: a thread without a loop cannot create one.          *)
(***************************************************************************)
EXTENDS AsyncBatcher

CONSTANTS
  Threads,       \* threads that log through the handler
  HandlerKind    \* one of Kinds, what emit() enqueues: "log"

VARIABLES
  at,        \* where a thread is in enqueue()
  list,      \* what became of the list that it fetched
  late,      \* late[t]: appended to the batch of t behind its serialisation
  vanished   \* history: appended to a list that nobody looks at again

handler     == <<at, list, late, vanished>>
handlerVars == <<vars, handler>>

HandlerInit ==
  /\ Init
  /\ at   = [h \in Threads |-> "idle"]
  /\ list = [h \in Threads |-> "none"]
  /\ late = [t \in Tasks |-> {}]
  /\ vanished = {}

-----------------------------------------------------------------------------
(* The thread *)

At(h, here, there) == at[h] = here /\ at' = [at EXCEPT ![h] = there]

TestClosed(h) ==
  /\ At(h, "idle", "fetch")
  /\ Open
  /\ UNCHANGED <<vars, list, late, vanished>>

(* buf = self._buffers[kind]: the defaultdict makes it if it is missing.   *)
Fetch(h) ==
  /\ At(h, "fetch", "append")
  /\ list' = [list EXCEPT ![h] = "buffer"]
  /\ UNCHANGED <<vars, late, vanished>>

(* The list may meanwhile be the batch of a task, before or behind its     *)
(* serialisation, or nothing at all.                                       *)
AppendItem(h) ==
  LET n == accepted[HandlerKind] + 1
      t == list[h]
      Added(f, k) == [f EXCEPT ![k] = Append(@, n)]
  IN
  /\ At(h, "append", "stamp")
  /\ n <= MaxEntries
  /\ accepted' = [accepted EXCEPT ![HandlerKind] = n]
  /\ \/ t = "buffer" /\ buffers' = Added(buffers, HandlerKind)
                     /\ UNCHANGED <<toSend, late, vanished>>
     \/ t \in Tasks  /\ toSend' = [toSend EXCEPT ![t] = Added(@, HandlerKind)]
                     /\ UNCHANGED <<buffers, late, vanished>>
     \/ t \in Tasks  /\ cur[t] = HandlerKind
                     /\ late' = [late EXCEPT ![t] = @ \cup {n}]
                     /\ UNCHANGED <<buffers, toSend, vanished>>
     \/ t = "gone"   /\ vanished' = vanished \cup {n}
                     /\ UNCHANGED <<buffers, toSend, late>>
  /\ UNCHANGED <<oldest, wake, closed, control, cur, delivered, failed, lost,
                 closeReturned, list>>

(* setdefault() and the size test.  Event.set() from here only wakes the   *)
(* loop late, when something else does.                                    *)
Stamp(h) ==
  /\ At(h, "stamp", "idle")
  /\ list'   = [list EXCEPT ![h] = "none"]
  /\ oldest' = [oldest EXCEPT ![HandlerKind] = IF @ = Unset THEN 0 ELSE @]
  /\ \/ list[h] = "buffer" /\ wake' = (wake \/ Len(buffers[HandlerKind]) >= BatchSize)
     \/ list[h] # "buffer" /\ wake' \in {wake, TRUE}
  /\ UNCHANGED <<buffers, closed, control, sending, ledger, closeReturned,
                 late, vanished>>

Emit(h) == TestClosed(h) \/ Fetch(h) \/ AppendItem(h) \/ Stamp(h)

-----------------------------------------------------------------------------
(* The loop *)

Becomes(old, new) ==
  list' = [h \in Threads |-> IF list[h] = old THEN new ELSE list[h]]

(* _buffers.clear() drops an empty list, too.                              *)
Drains(c) ==
  /\ Flush(c) \/ JoinReturns(c)
  /\ Becomes("buffer", IF buffers[HandlerKind] = << >> THEN "gone" ELSE c)
  /\ UNCHANGED <<at, late, vanished>>

Round ==
  /\ WorkerRound
  /\ IF HandlerKind \in DueKinds THEN Becomes("buffer", Worker) ELSE UNCHANGED list
  /\ UNCHANGED <<at, late, vanished>>

Forgets(t, gone) ==
  /\ Becomes(t, "gone")
  /\ late' = [late EXCEPT ![t] = {}]
  /\ vanished' = vanished \cup gone
  /\ UNCHANGED at

(* on_error gets the list with what was appended late.                     *)
Sends(t) ==
  LET mine == cur[t] = HandlerKind IN
  \/ SendOk(t) /\ IF mine THEN Forgets(t, late[t]) ELSE UNCHANGED handler
  \/ SendFail(t) /\ IF mine THEN Forgets(t, {}) ELSE UNCHANGED handler

Cancels(c) ==
  \/ CancelSend(c) /\ Forgets(c, late[c])
  \/ (JoinTimesOut(c) \/ CancelJoin(c)) /\ Forgets(Worker, late[Worker])

Others ==
  /\ \/ Tick
     \/ \E c \in Callers : Close(c) \/ \E k \in Kinds : Enqueue(c, k)
  /\ UNCHANGED handler

HandlerNext ==
  \/ \E h \in Threads : Emit(h)
  \/ \E c \in Callers : Drains(c) \/ Cancels(c)
  \/ \E t \in Tasks : Sends(t)
  \/ Round \/ Others

HandlerSpec == HandlerInit /\ [][HandlerNext]_handlerVars

-----------------------------------------------------------------------------
(* What a comment says and the code does not do *)

(* "the batcher's enqueue IS sync even on the AsyncLogDBClient because     *)
(* it's just a list append under a lock": what emit() appends is sent, or  *)
(* reported, or lost with a cancelled task, but it does not vanish.        *)
NoEntryVanishes == vanished = {}
=============================================================================
