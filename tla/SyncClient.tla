----------------------------- MODULE SyncClient ----------------------------
(***************************************************************************)
(* The life of a LogDBClient with batching (src/logdbhq/client.py): the    *)
(* lazy creation of its batcher, log() through it, flush(), and close(),   *)
(* called by several threads.  The client has no lock: each test and each  *)
(* assignment of _closed and _batcher is a step of its own.                *)
(*                                                                         *)
(* A batcher is a SyncBatcher with its inside abstracted (module           *)
(* SyncBatcher has it): enqueue() takes an entry or raises, the worker     *)
(* takes the buffer and sends it when it likes, flush() and close() take   *)
(* the buffer and send it in the caller's thread.                          *)
(*                                                                         *)
(* A LogDBHandler (logging_handler.py) on the root logger feeds the client *)
(* with what its own sends log: the warning about a failed batch, the      *)
(* records of httpx, what on_error writes.  Such a record is an Echo; the  *)
(* thread or worker that sends calls log() with it before it goes on.      *)
(***************************************************************************)
EXTENDS Integers, FiniteSets

CONSTANTS
  Threads,
  Closers,      \* the threads that may call close()
  Batchers,     \* the batchers that may come into being
  NoBatcher,
  MaxEntries    \* bound: calls of log()

ASSUME SyncClientAssumption ==
  /\ Closers \subseteq Threads
  /\ NoBatcher \notin Batchers
  /\ MaxEntries \in Nat

Entries == 1 .. MaxEntries
Echo == 0            \* an entry that a send caused; any number of them

VARIABLES
  slot,        \* _batcher of the client
  clientClosed,\* _closed of the client
  httpOpen,    \* _http is not closed
  created,     \* the batchers whose worker was started
  buffer,      \* buffer[b]: what waits in batcher b
  sending,     \* sending[b]: what the worker of b sends
  shut,        \* shut[b]: _closed of batcher b
  ended,       \* ended[b]: its worker has ended
  pc,          \* where a thread is
  mine,        \* the batcher a thread has in its hands
  entry,       \* the entry that log() was called with
  toSend,      \* what a thread drained and sends
  mark,        \* history: accepted when the thread called flush()
  echo,        \* the threads and workers whose send is inside emit()
  issued,      \* history: how many entries log() was called with
  accepted, refused, delivered, failed   \* history: what became of them

client  == <<slot, clientClosed, httpOpen>>
batcher == <<created, buffer, sending, shut, ended>>
thread  == <<mine, entry, toSend, mark>>
ledger  == <<issued, accepted, refused, delivered, failed>>
vars    == <<client, batcher, pc, thread, echo, ledger>>

Init ==
  /\ slot = NoBatcher
  /\ clientClosed = FALSE
  /\ httpOpen = TRUE
  /\ created = {}
  /\ buffer  = [b \in Batchers |-> {}]
  /\ sending = [b \in Batchers |-> {}]
  /\ shut    = [b \in Batchers |-> FALSE]
  /\ ended   = [b \in Batchers |-> FALSE]
  /\ pc      = [t \in Threads |-> "idle"]
  /\ mine    = [t \in Threads |-> NoBatcher]
  /\ entry   = [t \in Threads |-> 0]
  /\ toSend  = [t \in Threads |-> {}]
  /\ mark    = [t \in Threads |-> {}]
  /\ echo    = {}
  /\ issued = 0
  /\ accepted = {} /\ refused = {} /\ delivered = {} /\ failed = {}

Goto(t, place) == pc' = [pc EXCEPT ![t] = place]

(* The thread leaves its call.                                             *)
Leave(t) ==
  /\ Goto(t, "idle")
  /\ mine'  = [mine EXCEPT ![t] = NoBatcher]
  /\ entry' = [entry EXCEPT ![t] = 0]
  /\ mark'  = [mark EXCEPT ![t] = {}]

-----------------------------------------------------------------------------
(* log(): _dispatch() and _ensure_batcher() *)

LogCall(t) ==
  /\ pc[t] = "idle"
  /\ issued < MaxEntries
  /\ issued' = issued + 1
  /\ IF clientClosed
     THEN refused' = refused \cup {issued'} /\ UNCHANGED <<pc, entry>>
     ELSE /\ entry' = [entry EXCEPT ![t] = issued']
          /\ Goto(t, "ensure")
          /\ UNCHANGED refused
  /\ UNCHANGED <<client, batcher, mine, toSend, mark, echo, accepted, delivered, failed>>

Missing_Inverted == slot # NoBatcher   \* fault: the test is inverted
Missing == slot = NoBatcher

Ensure(t) ==
  /\ pc[t] = "ensure"
  /\ Goto(t, IF Missing THEN "create" ELSE "reread")
  /\ UNCHANGED <<client, batcher, thread, echo, ledger>>

(* The constructor starts the worker.                                      *)
Create(t) ==
  /\ pc[t] = "create"
  /\ \E b \in Batchers \ created :
       /\ created' = created \cup {b}
       /\ mine'    = [mine EXCEPT ![t] = b]
  /\ Goto(t, "assign")
  /\ UNCHANGED <<client, buffer, sending, shut, ended, entry, toSend, mark, echo, ledger>>

Assign(t) ==
  /\ pc[t] = "assign"
  /\ slot' = mine[t]
  /\ Goto(t, "reread")
  /\ UNCHANGED <<clientClosed, httpOpen, batcher, thread, echo, ledger>>

(* `return self._batcher' may find the batcher of another thread.          *)
Reread(t) ==
  /\ pc[t] = "reread"
  /\ mine' = [mine EXCEPT ![t] = slot]
  /\ Goto(t, "enqueue")
  /\ UNCHANGED <<client, batcher, entry, toSend, mark, echo, ledger>>

Takes_Always(b) == TRUE      \* fault: enqueue() of a closed batcher
Takes(b) == ~shut[b]

Enqueue(t) ==
  /\ pc[t] = "enqueue"
  /\ IF Takes(mine[t])
     THEN /\ buffer'   = [buffer EXCEPT ![mine[t]] = @ \cup {entry[t]}]
          /\ accepted' = accepted \cup {entry[t]}
          /\ UNCHANGED refused
     ELSE /\ refused' = refused \cup {entry[t]}
          /\ UNCHANGED <<buffer, accepted>>
  /\ Leave(t)
  /\ UNCHANGED <<client, created, sending, shut, ended, toSend, echo, issued,
                 delivered, failed>>

-----------------------------------------------------------------------------
(* Sending, in a thread or in the worker of a batcher: an HTTP client that *)
(* is closed raises.  The send may log; emit() then calls log(), which     *)
(* raises, or goes on to the batcher with an Echo.                         *)

Quiet(x) == x \notin echo

Refuses_Never == FALSE                   \* fault: _closed is not tested
Refuses == clientClosed

Settle(x, batch) ==
  /\ \/ httpOpen /\ delivered' = delivered \cup (batch \ {Echo}) /\ UNCHANGED failed
     \/ failed' = failed \cup (batch \ {Echo}) /\ UNCHANGED delivered
  /\ \/ UNCHANGED echo
     \/ batch # {} /\ ~Refuses /\ echo' = echo \cup {x}
  /\ UNCHANGED <<issued, accepted, refused>>

Drained_Kept(b) == buffer[b]             \* fault: the buffer is not cleared
Drained(b) == {}

Drain(t) ==
  /\ toSend' = [toSend EXCEPT ![t] = buffer[mine[t]]]
  /\ buffer' = [buffer EXCEPT ![mine[t]] = Drained(mine[t])]

WorkerTakes(b) ==
  /\ b \in created /\ ~ended[b] /\ Quiet(b)
  /\ sending[b] = {} /\ buffer[b] # {}
  /\ sending' = [sending EXCEPT ![b] = buffer[b]]
  /\ buffer'  = [buffer EXCEPT ![b] = Drained(b)]
  /\ UNCHANGED <<client, created, shut, ended, pc, thread, echo, ledger>>

WorkerSends(b) ==
  /\ sending[b] # {}
  /\ Settle(b, sending[b])
  /\ sending' = [sending EXCEPT ![b] = {}]
  /\ UNCHANGED <<client, created, buffer, shut, ended, pc, thread>>

WorkerEnds(b) ==
  /\ b \in created /\ ~ended[b] /\ Quiet(b)
  /\ shut[b] /\ sending[b] = {}
  /\ ended' = [ended EXCEPT ![b] = TRUE]
  /\ UNCHANGED <<client, created, buffer, sending, shut, pc, thread, echo, ledger>>

(* The rest of the emit() that Settle began; what enqueue() raises ends in *)
(* handleError().                                                          *)
EmitEnqueue(x) ==
  /\ ~Quiet(x)
  /\ echo'   = echo \ {x}
  /\ buffer' = IF Takes(slot) THEN [buffer EXCEPT ![slot] = @ \cup {Echo}] ELSE buffer
  /\ UNCHANGED <<client, created, sending, shut, ended, pc, thread, ledger>>

-----------------------------------------------------------------------------
(* flush() *)

FlushCall(t) ==
  /\ pc[t] = "idle"
  /\ slot # NoBatcher
  /\ Goto(t, "flush")
  /\ mine' = [mine EXCEPT ![t] = slot]
  /\ mark' = [mark EXCEPT ![t] = accepted]
  /\ UNCHANGED <<client, batcher, entry, toSend, echo, ledger>>

FlushTake(t) ==
  /\ pc[t] = "flush"
  /\ Drain(t)
  /\ Goto(t, "flushSend")
  /\ UNCHANGED <<client, created, sending, shut, ended, mine, entry, mark, echo, ledger>>

FlushSend(t) ==
  /\ pc[t] = "flushSend"
  /\ Settle(t, toSend[t])
  /\ toSend' = [toSend EXCEPT ![t] = {}]
  /\ Goto(t, "flushed")
  /\ UNCHANGED <<client, batcher, mine, entry, mark>>

FlushReturn(t) ==
  /\ pc[t] = "flushed" /\ Quiet(t)
  /\ Leave(t)
  /\ UNCHANGED <<client, batcher, toSend, echo, ledger>>

-----------------------------------------------------------------------------
(* close() *)

CloseCall(t) ==
  /\ t \in Closers
  /\ pc[t] = "idle"
  /\ ~clientClosed          \* otherwise it returns at once
  /\ Goto(t, "closing")
  /\ UNCHANGED <<client, batcher, thread, echo, ledger>>

CloseSet(t) ==
  /\ pc[t] = "closing"
  /\ clientClosed' = TRUE
  /\ Goto(t, "closeBatcher")
  /\ UNCHANGED <<slot, httpOpen, batcher, thread, echo, ledger>>

(* SyncBatcher.close(), up to its join().                                  *)
CloseBatcher(t) ==
  /\ pc[t] = "closeBatcher"
  /\ IF slot = NoBatcher \/ shut[slot]
     THEN Goto(t, "closeHttp") /\ UNCHANGED <<shut, mine>>
     ELSE /\ mine' = [mine EXCEPT ![t] = slot]
          /\ shut' = [shut EXCEPT ![slot] = TRUE]
          /\ Goto(t, "join")
  /\ UNCHANGED <<client, created, buffer, sending, ended, entry, toSend, mark, echo, ledger>>

AfterDrain_Http == "closeHttp"           \* fault: what was drained is not sent
AfterDrain == "closeSend"

(* join() returns when the worker has ended, or at its timeout.            *)
Join(t) ==
  /\ pc[t] = "join"
  /\ Drain(t)
  /\ Goto(t, AfterDrain)
  /\ UNCHANGED <<client, created, sending, shut, ended, mine, entry, mark, echo, ledger>>

CloseSend(t) ==
  /\ pc[t] = "closeSend"
  /\ Settle(t, toSend[t])
  /\ toSend' = [toSend EXCEPT ![t] = {}]
  /\ Goto(t, "closeHttp")
  /\ UNCHANGED <<client, batcher, mine, entry, mark>>

CloseHttp(t) ==
  /\ pc[t] = "closeHttp" /\ Quiet(t)
  /\ httpOpen' = FALSE
  /\ Leave(t)
  /\ UNCHANGED <<slot, clientClosed, batcher, toSend, echo, ledger>>

-----------------------------------------------------------------------------

Step(t) ==
  \/ Ensure(t) \/ Create(t) \/ Assign(t) \/ Reread(t) \/ Enqueue(t)
  \/ FlushTake(t) \/ FlushSend(t) \/ FlushReturn(t)
  \/ CloseSet(t) \/ CloseBatcher(t) \/ Join(t) \/ CloseSend(t) \/ CloseHttp(t)
  \/ EmitEnqueue(t)

WorkerStep(b) == WorkerTakes(b) \/ WorkerSends(b) \/ WorkerEnds(b) \/ EmitEnqueue(b)

Next == \/ \E t \in Threads : LogCall(t) \/ FlushCall(t) \/ CloseCall(t) \/ Step(t)
        \/ \E b \in Batchers : WorkerStep(b)

Spec == Init /\ [][Next]_vars

(* Threads and workers are scheduled, sends and joins end.                 *)
FairSpec == /\ Spec
            /\ \A t \in Threads : WF_vars(Step(t))
            /\ \A b \in Batchers : WF_vars(WorkerStep(b))

-----------------------------------------------------------------------------
(* Properties *)

Places == {"idle", "ensure", "create", "assign", "reread", "enqueue",
           "flush", "flushSend", "flushed",
           "closing", "closeBatcher", "join", "closeSend", "closeHttp"}

(* Types; a thread has a batcher that exists in its hands whenever it is   *)
(* about to use one, and an entry exactly while it is inside log().        *)
TypeOK ==
  /\ slot \in created \cup {NoBatcher}
  /\ clientClosed \in BOOLEAN /\ httpOpen \in BOOLEAN
  /\ created \subseteq Batchers
  /\ buffer \in [Batchers -> SUBSET (Entries \cup {Echo})]
  /\ sending \in [Batchers -> SUBSET (Entries \cup {Echo})]
  /\ shut \in [Batchers -> BOOLEAN] /\ ended \in [Batchers -> BOOLEAN]
  /\ pc \in [Threads -> Places]
  /\ mine \in [Threads -> created \cup {NoBatcher}]
  /\ entry \in [Threads -> Entries \cup {0}]
  /\ toSend \in [Threads -> SUBSET (Entries \cup {Echo})]
  /\ echo \subseteq Threads \cup Batchers
  /\ mark \in [Threads -> SUBSET Entries]
  /\ issued \in 0 .. MaxEntries
  /\ accepted \subseteq Entries /\ refused \subseteq Entries
  /\ delivered \subseteq Entries /\ failed \subseteq Entries
  /\ \A t \in Threads :
       /\ pc[t] \in {"assign", "enqueue", "flush", "join"} => mine[t] # NoBatcher
       /\ entry[t] # 0 <=> pc[t] \in {"ensure", "create", "assign", "reread", "enqueue"}

InBuffer == (UNION {buffer[b] : b \in Batchers}) \ {Echo}
InWorker == (UNION {sending[b] : b \in Batchers}) \ {Echo}
InThread == (UNION {toSend[t] : t \in Threads}) \ {Echo}
InLog    == {entry[t] : t \in Threads} \ {0}

Disjoint(f, S) == \A x, y \in S : x # y => f[x] \cap f[y] \subseteq {Echo}

(* Each entry is in one place, whatever the threads do to the client: in   *)
(* the hands of log(), refused with an exception, or accepted by exactly   *)
(* one batcher and sent once.                                              *)
EntriesAccounted ==
  /\ 1 .. issued = InLog \cup refused \cup accepted
  /\ InLog \cap (refused \cup accepted) = {} /\ refused \cap accepted = {}
  /\ accepted = InBuffer \cup InWorker \cup InThread \cup delivered \cup failed
  /\ delivered \cap failed = {}
  /\ (InBuffer \cup InWorker \cup InThread) \cap (delivered \cup failed) = {}
  /\ InBuffer \cap (InWorker \cup InThread) = {} /\ InWorker \cap InThread = {}
  /\ Disjoint(buffer, Batchers) /\ Disjoint(sending, Batchers)
  /\ Disjoint(toSend, Threads)

(* When flush() returns, no entry that was accepted before the call waits  *)
(* in a buffer, unless threads that raced for the first log() made two     *)
(* batchers.                                                               *)
FlushReachesAll ==
  Cardinality(created) <= 1 =>
    \A t \in Threads : pc[t] = "flushed" => mark[t] \cap InBuffer = {}

(* A thread that shuts a batcher down closes the HTTP client only when the *)
(* batcher is empty for good and what the thread drained is sent, whatever *)
(* other threads log, flush or close.                                      *)
DrainsBeforeHttpCloses ==
  \A t \in Threads : pc[t] = "closeHttp" =>
    /\ toSend[t] = {}
    /\ mine[t] # NoBatcher => buffer[mine[t]] = {}

(* Whatever log() returned Success for is delivered or reported, even from *)
(* a batcher that the client lost or made too late.                        *)
AcceptedSettles ==
  \A e \in Entries : e \in accepted ~> e \in delivered \cup failed

(* A send that logs causes an entry, which causes a send, without end; but *)
(* when the client is closed this stops, also in a batcher that close()    *)
(* never reached.                                                          *)
Idle(b) == buffer[b] = {} /\ sending[b] = {} /\ Quiet(b)
QuietAfterClose == <>clientClosed => <>[](\A b \in Batchers : Idle(b))
=============================================================================
