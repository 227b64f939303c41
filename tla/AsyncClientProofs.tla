-------------------------- MODULE AsyncClientProofs -------------------------
(***************************************************************************)
(* What AsyncBatcher guarantees, alone and below an AsyncLogDBClient with  *)
(* a handler, for every set of kinds and tasks and for every batch size,   *)
(* interval and bound.  Every step of the client is a step of its batcher  *)
(* or leaves the batcher alone, so that the invariants of the batcher are  *)
(* proved once, for its own steps.                                         *)
(***************************************************************************)
EXTENDS AsyncClient, SequenceTheorems, TLAPS

USE AsyncBatcherAssumption, AsyncClientAssumption
DEF AsyncBatcherAssumption, AsyncClientAssumption, Tasks, Unset

-----------------------------------------------------------------------------
(* Types *)

LEMMA TypeInit == Init => TypeOK
<1> SUFFICES ASSUME Init PROVE TypeOK
  OBVIOUS
<1> USE DEF Init
<1>0. WaitTimeout \in Nat
  BY DEF WaitTimeout, AtLeast
<1>1. DataOK
  BY EmptySeq DEF DataOK, Batches, Nothing
<1>2. TaskOK
  BY <1>0 DEF TaskOK
<1>3. SendingOK
  BY EmptySeq DEF SendingOK, Batches, Nothing
<1>4. HistoryOK
  <2>1. 0 \in 0 .. MaxEntries
    OBVIOUS
  <2>2. accepted \in [Kinds -> 0 .. MaxEntries]
    BY <2>1
  <2> QED BY <2>2 DEF HistoryOK, Ordinals
<1> QED BY <1>1, <1>2, <1>3, <1>4 DEF TypeOK

(* Moving buffers into a to_send keeps the types.                          *)
LEMMA TakeTypes ==
  ASSUME DataOK, NEW K \in SUBSET Kinds
  PROVE  /\ Taken(K) \in Batches
         /\ Take(K) => /\ buffers' \in Batches
                       /\ oldest' \in [Kinds -> {Unset} \cup 0 .. MaxAge]
<1>1. Taken(K) \in Batches /\ Left(K) \in Batches
  BY EmptySeq DEF Taken, Left, DataOK, Batches
<1> QED BY <1>1 DEF Take, DataOK

(* The loop over to_send keeps the types, whatever is left of it.          *)
LEMMA ProceedTypes ==
  ASSUME TypeOK, NEW t \in Tasks, NEW rest \in Batches, NEW call,
         t \in Callers => call \in {"flush", "close"},
         Proceed(t, rest, call)
  PROVE  TaskOK' /\ SendingOK' /\ closeReturned' \in BOOLEAN
<1> USE DEF TypeOK
<1>1. toSend' = [toSend EXCEPT ![t] = rest]
  BY DEF Proceed
<1>2. toSend' \in [Tasks -> Batches] /\ Nothing \in Batches
  BY <1>1, EmptySeq DEF SendingOK, Batches, Nothing
<1>3. CASE rest = Nothing
  <2>1. CallEnds(t) /\ toSend'[t] = Nothing
    BY <1>1, <1>3 DEF Proceed, SendingOK
  <2>2. closeReturned' \in BOOLEAN
    BY <2>1 DEF CallEnds, HistoryOK
  <2>3. cur' = [cur EXCEPT ![t] = NoKind]
    BY <2>1 DEF CallEnds
  <2>4. CASE t = Worker
    <3>1. op' = op
      BY <2>4 DEF Proceed
    <3>2. \E place \in {"done", "wait"} : pc' = [pc EXCEPT ![Worker] = place]
      BY <2>1, <2>4 DEF CallEnds, Goto
    <3>3. timer' \in [Tasks -> Nat]
      BY <2>1, <2>4, 0 \in Nat DEF CallEnds, TaskOK, WaitTimeout, AtLeast
    <3>4. TaskOK'
      BY <3>1, <3>2, <3>3 DEF TaskOK
    <3>5. SendingOK'
      BY <1>1, <1>2, <2>1, <2>3, <2>4, <3>2 DEF SendingOK, TaskOK
    <3> QED BY <2>2, <3>4, <3>5
  <2>5. CASE t \in Callers
    <3>1. op' = [op EXCEPT ![t] = "none"] /\ pc' = [pc EXCEPT ![t] = "idle"]
      BY <1>3, <2>1, <2>5 DEF Proceed, CallEnds, Goto
    <3>2. timer' \in [Tasks -> Nat]
      BY <2>1, <2>5, 0 \in Nat DEF CallEnds, TaskOK
    <3>3. TaskOK'
      BY <2>5, <3>1, <3>2 DEF TaskOK
    <3>4. SendingOK'
      BY <1>1, <1>2, <2>1, <2>3, <2>5, <3>1 DEF SendingOK, TaskOK
    <3> QED BY <2>2, <3>3, <3>4
  <2> QED BY <2>4, <2>5
<1>4. CASE rest # Nothing
  <2>1. PICK k \in Kinds : /\ cur' = [cur EXCEPT ![t] = k]
                           /\ pc' = [pc EXCEPT ![t] = "post"]
                           /\ timer' = [timer EXCEPT ![t] = 0]
                           /\ UNCHANGED closeReturned
    BY <1>4 DEF Proceed, SendNext, Goto
  <2>2. op' = IF t = Worker THEN op ELSE [op EXCEPT ![t] = call]
    BY <1>4 DEF Proceed
  <2>3. timer' \in [Tasks -> Nat]
    BY <2>1, 0 \in Nat DEF TaskOK
  <2>4. TaskOK'
    BY <2>1, <2>2, <2>3 DEF TaskOK
  <2>5. SendingOK'
    BY <1>1, <1>2, <2>1 DEF SendingOK, TaskOK
  <2> QED BY <2>1, <2>4, <2>5 DEF HistoryOK
<1> QED BY <1>3, <1>4

(* A cancelled task has nothing.                                           *)
LEMMA CancelledTypes ==
  ASSUME TypeOK, NEW t \in Tasks, Cancelled(t)
  PROVE  /\ toSend' = [toSend EXCEPT ![t] = Nothing] /\ toSend' \in [Tasks -> Batches]
         /\ cur' = [cur EXCEPT ![t] = NoKind]
         /\ lost' \in Ordinals
         /\ UNCHANGED <<accepted, delivered, failed>>
<1>1. \A k \in Kinds : ToSet(toSend[t][k]) \subseteq 1 .. MaxEntries
  BY ElementOfSeq, LenProperties DEF TypeOK, SendingOK, Batches, ToSet
<1>2. lost' \in Ordinals
  BY <1>1 DEF Cancelled, TypeOK, HistoryOK, Ordinals
<1>3. Nothing \in Batches
  BY EmptySeq DEF Nothing, Batches
<1> QED BY <1>2, <1>3 DEF Cancelled, TypeOK, SendingOK

LEMMA TypeNext == TypeOK /\ [Next]_vars => TypeOK'
<1> SUFFICES ASSUME TypeOK, [Next]_vars PROVE TypeOK'
  OBVIOUS
<1> USE DEF TypeOK
<1>1. ASSUME NEW c \in Callers, NEW k \in Kinds, Enqueue(c, k) PROVE TypeOK'
  <2> USE <1>1 DEF Enqueue, control, sending
  <2>1. accepted'[k] \in 1 .. MaxEntries /\ accepted' \in [Kinds -> 0 .. MaxEntries]
    BY DEF HistoryOK
  <2>2. Append(buffers[k], accepted'[k]) \in Seq(1 .. MaxEntries)
    BY <2>1 DEF DataOK, Batches
  <2>3. buffers' \in Batches
    BY <2>2 DEF DataOK, Batches
  <2>4. oldest' \in [Kinds -> {Unset} \cup 0 .. MaxAge]
    BY DEF DataOK
  <2>5. DataOK'
    BY <2>3, <2>4 DEF DataOK
  <2> QED BY <2>1, <2>5 DEF TaskOK, SendingOK, HistoryOK
<1>2. ASSUME NEW c \in Callers, NEW call \in {"flush", "close"},
             DrainAll(c, call), UNCHANGED <<wake, closed, ledger>>
      PROVE  TypeOK'
  <2>1. DrainKinds \in SUBSET Kinds
    BY DEF DrainKinds
  <2>2. DataOK'
    BY <1>2, <2>1, TakeTypes DEF DrainAll, DataOK
  <2>3. TaskOK' /\ SendingOK' /\ closeReturned' \in BOOLEAN
    BY <1>2, <2>1, TakeTypes, ProceedTypes DEF DrainAll
  <2> QED BY <1>2, <2>2, <2>3 DEF HistoryOK, ledger
<1>3. ASSUME NEW c \in Callers, Close(c) PROVE TypeOK'
  <2>1. JoinTimeout \in Nat
    BY DEF JoinTimeout, AtLeast
  <2>2. TaskOK'
    BY <1>3, <2>1 DEF Close, Goto, TaskOK
  <2>3. SendingOK'
    BY <1>3 DEF Close, Goto, sending, SendingOK, TaskOK
  <2> QED BY <1>3, <2>2, <2>3 DEF Close, data, ledger, DataOK, HistoryOK
<1>4. ASSUME NEW c \in Callers, CancelSend(c) PROVE TypeOK'
  <2>1. /\ toSend' = [toSend EXCEPT ![c] = Nothing] /\ toSend' \in [Tasks -> Batches]
        /\ cur' = [cur EXCEPT ![c] = NoKind] /\ lost' \in Ordinals
        /\ UNCHANGED <<accepted, delivered, failed>>
    BY <1>4, CancelledTypes DEF CancelSend
  <2>2. pc' = [pc EXCEPT ![c] = "idle"] /\ op' = [op EXCEPT ![c] = "none"]
        /\ UNCHANGED <<buffers, oldest, wake, closed, timer, closeReturned>>
    BY <1>4 DEF CancelSend, Goto, data
  <2>3. TaskOK'
    BY <2>2 DEF TaskOK
  <2>4. SendingOK'
    BY <2>1, <2>2 DEF SendingOK, TaskOK
  <2> QED BY <2>1, <2>2, <2>3, <2>4 DEF DataOK, HistoryOK
<1>5. ASSUME NEW c \in Callers, CancelJoin(c) PROVE TypeOK'
  <2>1. /\ toSend' = [toSend EXCEPT ![Worker] = Nothing] /\ toSend' \in [Tasks -> Batches]
        /\ cur' = [cur EXCEPT ![Worker] = NoKind] /\ lost' \in Ordinals
        /\ UNCHANGED <<accepted, delivered, failed>>
    BY <1>5, CancelledTypes DEF CancelJoin
  <2>2. /\ pc' = [pc EXCEPT ![c] = "idle", ![Worker] = "done"]
        /\ op' = [op EXCEPT ![c] = "none"]
        /\ timer' = [timer EXCEPT ![c] = 0, ![Worker] = 0] /\ pc[c] = "join"
        /\ UNCHANGED <<buffers, oldest, wake, closed, closeReturned>>
    BY <1>5 DEF CancelJoin, data
  <2>3. TaskOK'
    BY <2>2 DEF TaskOK
  <2>4. SendingOK'
    BY <2>1, <2>2 DEF SendingOK, TaskOK
  <2> QED BY <2>1, <2>2, <2>3, <2>4 DEF DataOK, HistoryOK
<1>6. ASSUME NEW c \in Callers, JoinTimesOut(c) PROVE TypeOK'
  <2>1. /\ toSend' = [toSend EXCEPT ![Worker] = Nothing] /\ toSend' \in [Tasks -> Batches]
        /\ cur' = [cur EXCEPT ![Worker] = NoKind] /\ lost' \in Ordinals
        /\ UNCHANGED <<accepted, delivered, failed>>
    BY <1>6, CancelledTypes DEF JoinTimesOut
  <2>2. /\ pc' = [pc EXCEPT ![Worker] = "done"] /\ timer' = [timer EXCEPT ![Worker] = 0]
        /\ UNCHANGED <<buffers, oldest, wake, closed, op, closeReturned>>
    BY <1>6 DEF JoinTimesOut, Goto, data
  <2>3. TaskOK'
    BY <2>2 DEF TaskOK
  <2>4. SendingOK'
    BY <2>1, <2>2 DEF SendingOK, TaskOK
  <2> QED BY <2>1, <2>2, <2>3, <2>4 DEF DataOK, HistoryOK
<1>7. ASSUME NEW t \in Tasks, SendStep(t) PROVE TypeOK'
  <2>1. pc[t] = "post" /\ cur[t] \in Kinds
    BY <1>7 DEF SendStep, SendOk, SendFail, SendingOK
  <2>2. Rest(t) \in Batches
    BY <2>1, EmptySeq DEF Rest, SendingOK, Batches
  <2>3. t \in Callers => Call(t) \in {"flush", "close"}
    BY <2>1 DEF Call, TaskOK
  <2>4. Proceed(t, Rest(t), Call(t))
    BY <1>7 DEF SendStep, SendOk, SendFail
  <2>5. TaskOK' /\ SendingOK' /\ closeReturned' \in BOOLEAN
    BY <2>2, <2>3, <2>4, ProceedTypes
  <2>6. ToSet(toSend[t][cur[t]]) \subseteq 1 .. MaxEntries
    BY <2>1, ElementOfSeq, LenProperties DEF SendingOK, Batches, ToSet
  <2>7. HistoryOK'
    BY <1>7, <2>1, <2>5, <2>6 DEF SendStep, SendOk, SendFail, Settle, HistoryOK, Ordinals
  <2> QED BY <1>7, <2>5, <2>7 DEF SendStep, SendOk, SendFail, data, DataOK
<1>8. CASE WorkerRound
  <2>1. DueKinds \in SUBSET Kinds
    BY DEF DueKinds
  <2>2. DataOK'
    BY <1>8, <2>1, TakeTypes DEF WorkerRound, DataOK
  <2>3. TaskOK' /\ SendingOK' /\ closeReturned' \in BOOLEAN
    BY <1>8, <2>1, TakeTypes, ProceedTypes DEF WorkerRound
  <2> QED BY <1>8, <2>2, <2>3 DEF WorkerRound, HistoryOK, ledger
<1>9. CASE Tick
  <2>1. oldest' \in [Kinds -> {Unset} \cup 0 .. MaxAge]
    BY <1>9 DEF Tick, Older, DataOK
  <2>2. timer' \in [Tasks -> Nat]
    BY <1>9 DEF Tick, TaskOK
  <2> QED BY <1>9, <2>1, <2>2 DEF Tick, sending, ledger, DataOK, TaskOK, SendingOK, HistoryOK
<1>10. CASE UNCHANGED vars
  BY <1>10 DEF vars, data, control, sending, ledger, DataOK, TaskOK, SendingOK, HistoryOK
<1>11. ASSUME NEW c \in Callers, Flush(c) PROVE TypeOK'
  BY <1>2, <1>11 DEF Flush
<1>12. ASSUME NEW c \in Callers, JoinReturns(c) PROVE TypeOK'
  BY <1>2, <1>12 DEF JoinReturns
<1> QED
  BY <1>1, <1>3, <1>4, <1>5, <1>6, <1>7, <1>8, <1>9, <1>10, <1>11, <1>12
  DEF Next, AppCall, CallerStep

(* TypeOK is an invariant of the batcher.                                  *)
THEOREM TypeCorrect == Spec => []TypeOK
BY TypeInit, TypeNext, PTL DEF Spec

-----------------------------------------------------------------------------
(* close() of the batcher *)

(* Only one task ever gets past the test of _closed, and before it drains  *)
(* the buffers the worker is over; after that nothing fills them.          *)
ShutInv ==
  /\ closeReturned => closed
  /\ \A c \in Callers : pc[c] = "join" => op[c] = "close"
  /\ \A c \in Callers : op[c] = "close" =>
       closed /\ ~closeReturned /\ \A d \in Callers : op[d] = "close" => d = c
  /\ Drained => pc[Worker] = "done" /\ \A k \in Kinds : buffers[k] = << >>

(* What a step of the loop over to_send does to the task and to the call.  *)
LEMMA ProceedSteps ==
  ASSUME TypeOK, NEW t \in Tasks, NEW rest, NEW call, Proceed(t, rest, call)
  PROVE  /\ \A u \in Tasks \ {t} : pc'[u] = pc[u]
         /\ \A c \in Callers \ {t} : op'[c] = op[c]
         /\ t = Worker => op' = op /\ closeReturned' = closeReturned
         /\ t \in Callers =>
              \/ pc'[t] = "idle" /\ op'[t] = "none"
                 /\ (closeReturned' <=> closeReturned \/ op[t] = "close")
              \/ pc'[t] = "post" /\ op'[t] = call /\ closeReturned' = closeReturned
BY DEF Proceed, CallEnds, SendNext, Goto, TypeOK, TaskOK

LEMMA ShutInit == Init => ShutInv
BY DEF Init, ShutInv, Drained

LEMMA ShutNext == TypeOK /\ ShutInv /\ [Next]_vars => ShutInv'
<1> SUFFICES ASSUME TypeOK, ShutInv, [Next]_vars PROVE ShutInv'
  OBVIOUS
<1> USE DEF TypeOK, TaskOK
<1>1. ASSUME NEW c \in Callers, NEW k \in Kinds, Enqueue(c, k) PROVE ShutInv'
  <2>1. ~closed /\ UNCHANGED <<closed, pc, op, closeReturned>>
    BY <1>1 DEF Enqueue, Open, control
  <2> QED BY <2>1 DEF ShutInv, Drained
<1>2. ASSUME NEW c \in Callers, Flush(c) PROVE ShutInv'
  <2>1. Proceed(c, Taken(DrainKinds), "flush") /\ closed' = closed /\ op[c] = "none"
    BY <1>2 DEF Flush, DrainAll
  <2>2. \A k \in Kinds : buffers[k] = << >> => buffers'[k] = << >>
    BY <1>2 DEF Flush, DrainAll, Take, Left
  <2>3. /\ closeReturned' <=> closeReturned
        /\ pc'[Worker] = pc[Worker] /\ pc'[c] # "join" /\ op'[c] # "close"
        /\ \A d \in Callers \ {c} : op'[d] = op[d] /\ pc'[d] = pc[d]
    BY <2>1, ProceedSteps
  <2> QED BY <2>1, <2>2, <2>3 DEF ShutInv, Drained
<1>3. ASSUME NEW c \in Callers, JoinReturns(c) PROVE ShutInv'
  <2>1. /\ Proceed(c, Taken(DrainKinds), "close") /\ closed' = closed
        /\ pc[Worker] = "done" /\ pc[c] = "join"
    BY <1>3 DEF JoinReturns, DrainAll, JoinEnds, WorkerRuns
  <2>2. \A k \in Kinds : buffers'[k] = << >>
    BY <1>3 DEF JoinReturns, DrainAll, Take, Left, DrainKinds
  <2>3. /\ pc'[Worker] = "done" /\ \A d \in Callers \ {c} : op'[d] = op[d]
        /\ \/ op'[c] = "none" /\ (closeReturned' <=> closeReturned \/ op[c] = "close")
           \/ op'[c] = "close" /\ closeReturned' = closeReturned
    BY <2>1, ProceedSteps
  <2>4. op[c] = "close" /\ closed /\ ~closeReturned /\ \A d \in Callers : op[d] = "close" => d = c
    BY <2>1 DEF ShutInv
  <2>5. \A d \in Callers : pc'[d] = "join" => op'[d] = "close"
    BY <2>1, <2>3, ProceedSteps DEF ShutInv
  <2> QED BY <2>1, <2>2, <2>3, <2>4, <2>5 DEF ShutInv
<1>4. ASSUME NEW c \in Callers, Close(c) PROVE ShutInv'
  <2>1. /\ ~closed /\ closed' /\ UNCHANGED <<buffers, closeReturned>>
        /\ pc' = [pc EXCEPT ![c] = "join"] /\ op' = [op EXCEPT ![c] = "close"]
    BY <1>4 DEF Close, Goto, data
  <2>2. ~closeReturned /\ \A d \in Callers : op[d] # "close"
    BY <2>1 DEF ShutInv
  <2> QED BY <2>1, <2>2 DEF ShutInv, Drained
<1>5. ASSUME NEW c \in Callers, CancelSend(c) \/ CancelJoin(c) PROVE ShutInv'
  <2>1. /\ op' = [op EXCEPT ![c] = "none"] /\ UNCHANGED <<closed, buffers, closeReturned>>
        /\ pc'[c] = "idle" /\ \A d \in Callers \ {c} : pc'[d] = pc[d]
        /\ pc'[Worker] = pc[Worker] \/ pc'[Worker] = "done"
    BY <1>5 DEF CancelSend, CancelJoin, Goto, data
  <2> QED BY <2>1 DEF ShutInv, Drained
<1>6. ASSUME NEW c \in Callers, JoinTimesOut(c) PROVE ShutInv'
  <2>1. /\ UNCHANGED <<op, closed, buffers, closeReturned>>
        /\ pc' = [pc EXCEPT ![Worker] = "done"]
    BY <1>6 DEF JoinTimesOut, Goto, data
  <2> QED BY <2>1 DEF ShutInv, Drained
<1>7. ASSUME NEW c \in Callers, SendStep(c) PROVE ShutInv'
  <2>1. /\ UNCHANGED <<closed, buffers>> /\ pc[c] = "post"
        /\ Proceed(c, Rest(c), op[c])
    BY <1>7 DEF SendStep, SendOk, SendFail, Call, data
  <2>2. /\ pc'[Worker] = pc[Worker]
        /\ \A d \in Callers \ {c} : op'[d] = op[d] /\ pc'[d] = pc[d]
        /\ \/ pc'[c] = "idle" /\ op'[c] = "none"
              /\ (closeReturned' <=> closeReturned \/ op[c] = "close")
           \/ pc'[c] = "post" /\ op'[c] = op[c] /\ closeReturned' = closeReturned
    BY <2>1, ProceedSteps
  <2>3. Drained' => Drained
    BY <2>1, <2>2 DEF Drained
  <2>4. /\ closeReturned' => closed'
        /\ \A d \in Callers : pc'[d] = "join" => op'[d] = "close"
    BY <2>1, <2>2 DEF ShutInv
  <2>5. ASSUME NEW d \in Callers, op'[d] = "close"
        PROVE  closed' /\ ~closeReturned' /\ \A e \in Callers : op'[e] = "close" => e = d
    <3>1. op[d] = "close" /\ closed /\ ~closeReturned /\ \A e \in Callers : op[e] = "close" => e = d
      BY <2>2, <2>5 DEF ShutInv
    <3> QED BY <2>1, <2>2, <2>5, <3>1
  <2> QED BY <2>1, <2>2, <2>3, <2>4, <2>5 DEF ShutInv
<1>8. CASE WorkerRound \/ SendStep(Worker)
  <2>1. /\ pc[Worker] # "done" /\ closed' = closed
        /\ \E rest : Proceed(Worker, rest, "none")
    BY <1>8 DEF WorkerRound, SendStep, SendOk, SendFail, Call
  <2>2. /\ op' = op /\ closeReturned' = closeReturned
        /\ \A c \in Callers : pc'[c] = pc[c]
    BY <2>1, ProceedSteps
  <2> QED BY <2>1, <2>2 DEF ShutInv, Drained
<1>9. CASE Tick \/ UNCHANGED vars
  BY <1>9 DEF Tick, vars, data, control, ShutInv, Drained
<1> QED
  BY <1>1, <1>2, <1>3, <1>4, <1>5, <1>6, <1>7, <1>8, <1>9
  DEF Next, AppCall, CallerStep

(* One close() shuts the batcher: it drains only when the worker is over,  *)
(* and the buffers are empty from then on.                                 *)
THEOREM ShutInvHolds == Spec => []ShutInv
BY ShutInit, ShutNext, TypeCorrect, PTL DEF Spec

-----------------------------------------------------------------------------
(* The client *)

(* The batcher of a client behaves like a batcher alone.                   *)
LEMMA ClientStepIsBatcherStep == [ClientNext]_clientVars => [Next]_vars
BY DEF ClientNext, ClientCall, CallStep, Log, Emit, EnsureAndEnqueue, FlushClient,
       CloseClient, Cancel, JoinTimesOut, JoinReturns, SendEnds, SendStep, WorkerLooks,
       TimePasses, Next, AppCall, CallerStep, clientVars

(* What the client, its handler and the application do to the batcher are  *)
(* steps of AsyncBatcher, so that what is proved there holds below them.   *)
THEOREM ClientRunsBatcher == ClientSpec => Spec
<1>1. ClientInit => Init
  BY DEF ClientInit
<1> QED BY <1>1, ClientStepIsBatcherStep, PTL DEF ClientSpec, Spec

(* When the HTTP client of a closed batcher is closed, the close() of the  *)
(* batcher has run to its end.                                             *)
HttpInv == ~httpOpen /\ closed => closeReturned

ClientInv == ClientTypeOK /\ HttpInv

(* The batcher's close() runs to its end only in the task that called it,  *)
(* and then the client is closed.                                          *)
LEMMA CloseRunsOnce ==
  ASSUME TypeOK, ShutInv, [Next]_vars
  PROVE  /\ closeReturned => closeReturned'
         /\ BatcherClosed => closed /\ closeReturned'
<1> USE DEF TypeOK, HistoryOK
<1>1. ASSUME NEW t \in Tasks, NEW rest, NEW call, Proceed(t, rest, call)
      PROVE  /\ closeReturned => closeReturned'
             /\ BatcherClosed => closed /\ closeReturned'
  <2>1. /\ closeReturned' \in BOOLEAN /\ (closeReturned => closeReturned')
        /\ closeReturned' => closeReturned \/ (t \in Callers /\ op[t] = "close")
    BY <1>1 DEF Proceed, CallEnds, SendNext
  <2> QED BY <2>1 DEF BatcherClosed, ShutInv
<1>2. CASE UNCHANGED closeReturned
  BY <1>2 DEF BatcherClosed
<1>3. ASSUME NEW c \in Callers, AppCall(c) \/ CallerStep(c)
      PROVE  UNCHANGED closeReturned \/ \E rest, call : Proceed(c, rest, call)
  BY <1>3 DEF AppCall, Enqueue, Flush, Close, CancelSend, CancelJoin, CallerStep, DrainAll,
              JoinTimesOut, JoinReturns, SendStep, SendOk, SendFail
<1>4. CASE WorkerRound \/ SendStep(Worker)
  <2>1. \E rest, call : Proceed(Worker, rest, call)
    BY <1>4 DEF WorkerRound, SendStep, SendOk, SendFail
  <2> QED BY <1>1, <2>1
<1>5. CASE Tick \/ UNCHANGED vars
  BY <1>2, <1>5 DEF Tick, vars
<1> QED BY <1>1, <1>2, <1>3, <1>4, <1>5 DEF Next

LEMMA ClientInvInit == ClientInit => ClientInv
BY TypeInit DEF ClientInit, Init, ClientInv, ClientTypeOK, HttpInv

LEMMA ClientInvNext ==
  ShutInv /\ ClientInv /\ [ClientNext]_clientVars => ClientInv'
<1> SUFFICES ASSUME ShutInv, ClientInv, [ClientNext]_clientVars PROVE ClientInv'
  OBVIOUS
<1> USE DEF ClientInv, ClientTypeOK, HttpInv
<1>1. [Next]_vars
  BY ClientStepIsBatcherStep
<1>2. TypeOK'
  BY <1>1, TypeNext
<1>3. closeReturned => closeReturned'
  BY <1>1, CloseRunsOnce
<1>4. ASSUME NEW c \in Callers, NEW k \in Kinds, EnsureAndEnqueue(c, k) PROVE ClientInv'
  BY <1>2, <1>4 DEF EnsureAndEnqueue, Enqueue
<1>5. ASSUME NEW c \in Callers, CloseClient(c) PROVE ClientInv'
  BY <1>2, <1>3, <1>5 DEF CloseClient, Close, ledger, vars
<1>6. ASSUME made, UNCHANGED <<client, closed>> PROVE ClientInv'
  BY <1>2, <1>3, <1>6 DEF client
<1>7. ASSUME NEW c \in Callers, FlushClient(c) PROVE ClientInv'
  BY <1>6, <1>7 DEF FlushClient, Flush
<1>8. CASE WorkerLooks \/ TimePasses
  BY <1>6, <1>8 DEF WorkerLooks, TimePasses, WorkerRound, Tick
<1>9. ASSUME UNCHANGED <<client, closed, accepted>> PROVE ClientInv'
  BY <1>2, <1>3, <1>9 DEF client
<1>10. ASSUME NEW c \in Callers, Cancel(c) \/ (JoinTimesOut(c) /\ UNCHANGED client)
       PROVE  ClientInv'
  BY <1>9, <1>10 DEF Cancel, CancelSend, CancelJoin, JoinTimesOut, Cancelled
<1>11. ASSUME UNCHANGED <<closed, accepted>>, ThenHttpCloses PROVE ClientInv'
  <2>1. BatcherClosed => closed /\ closeReturned'
    BY <1>1, CloseRunsOnce
  <2> QED BY <1>2, <1>3, <1>11, <2>1 DEF ThenHttpCloses
<1>12. ASSUME NEW c \in Callers, JoinReturns(c) /\ ThenHttpCloses PROVE ClientInv'
  BY <1>11, <1>12 DEF JoinReturns, ledger
<1>13. ASSUME NEW t \in Tasks, SendEnds(t) PROVE ClientInv'
  BY <1>11, <1>13 DEF SendEnds, SendOk, SendFail
<1>14. CASE UNCHANGED clientVars
  BY <1>9, <1>14 DEF clientVars, vars, ledger
<1> QED
  BY <1>4, <1>5, <1>7, <1>8, <1>10, <1>12, <1>13, <1>14
  DEF ClientNext, ClientCall, CallStep, Log, Emit

(* The types of the client, and that it closes the HTTP client of a closed *)
(* batcher only after the batcher's close().                               *)
THEOREM ClientInvHolds == ClientSpec => []ClientInv
BY ClientInvInit, ClientInvNext, ClientRunsBatcher, ShutInvHolds, PTL DEF ClientSpec

(* The types of the batcher and of the client; a batcher that is not made  *)
(* has no entries, and only the close() of its client closes it.           *)
THEOREM ClientTypeCorrect == ClientSpec => []ClientTypeOK
<1>1. ClientInv => ClientTypeOK
  BY DEF ClientInv
<1> QED BY <1>1, ClientInvHolds, PTL

(* When close() has drained the buffers they stay empty, and when it has   *)
(* closed the HTTP client the worker is over and nothing of close() itself *)
(* is on its way.                                                          *)
THEOREM ClosesInOrderHolds == ClientSpec => []ClosesInOrder
<1>1. ShutInv /\ ClientInv => ClosesInOrder
  BY DEF ShutInv, ClientInv, HttpInv, Drained, ClosesInOrder, NothingStranded
<1> QED BY <1>1, ClientInvHolds, ClientRunsBatcher, ShutInvHolds, PTL

-----------------------------------------------------------------------------
(* Every entry is in exactly one place *)

LEMMA ToSetEmpty == ToSet(<< >>) = {}
BY DEF ToSet

LEMMA ToSetAppend ==
  ASSUME NEW S, NEW s \in Seq(S), NEW e \in S
  PROVE  ToSet(Append(s, e)) = ToSet(s) \cup {e}
<1>1. /\ DOMAIN Append(s, e) = 1 .. (Len(s) + 1)
      /\ \A i \in 1 .. Len(s) : Append(s, e)[i] = s[i]
      /\ Append(s, e)[Len(s) + 1] = e
  OBVIOUS
<1>2. DOMAIN s = 1 .. Len(s) /\ Len(s) \in Nat
  OBVIOUS
<1> QED BY <1>1, <1>2 DEF ToSet

(* The places of the entries of a kind that a step of task t can touch,    *)
(* and that they have nothing in common.                                   *)
Touched(t, k) == Buffered(k) \cup Settled(k) \cup lost[k] \cup InFlight(t, k)

Apart(t, k) ==
  /\ Buffered(k) \cap (Settled(k) \cup lost[k]) = {}
  /\ delivered[k] \cap failed[k] = {}
  /\ Settled(k) \cap lost[k] = {}
  /\ InFlight(t, k) \cap (Buffered(k) \cup Settled(k) \cup lost[k]) = {}

Held(k) == UNION {InFlight(t, k) : t \in Tasks}

LEMMA AccountedApart ==
  ASSUME NEW k \in Kinds, NEW t \in Tasks, Accounted(k)
  PROVE  Apart(t, k) /\ 1 .. accepted[k] = Buffered(k) \cup Settled(k) \cup lost[k] \cup Held(k)
BY DEF Accounted, Apart, Held

(* A step that moves entries between the places it touches keeps the       *)
(* accounts: it has nothing to do with what the other tasks hold.          *)
LEMMA OneTaskMoves ==
  ASSUME NEW k \in Kinds, NEW t \in Tasks, Accounted(k),
         accepted'[k] = accepted[k],
         \A u \in Tasks \ {t} : InFlight(u, k)' = InFlight(u, k),
         Touched(t, k)' = Touched(t, k), Apart(t, k)'
  PROVE  Accounted(k)'
<1>1. ASSUME NEW u \in Tasks \ {t}
      PROVE  InFlight(u, k) \cap Touched(t, k) = {}
  <2>1. /\ InFlight(u, k) \cap (Buffered(k) \cup Settled(k) \cup lost[k]) = {}
        /\ InFlight(u, k) \cap InFlight(t, k) = {}
    BY DEF Accounted
  <2> QED BY <2>1 DEF Touched
<1>2. (Touched(t, k) \cup Held(k))' = Touched(t, k) \cup Held(k)
  <2>1. ASSUME NEW e, e \in Held(k)' PROVE e \in Touched(t, k) \cup Held(k)
    <3>1. PICK u \in Tasks : e \in InFlight(u, k)'
      BY <2>1 DEF Held
    <3>2. CASE u = t
      <4>1. e \in Touched(t, k)'
        BY <3>1, <3>2 DEF Touched
      <4> QED BY <4>1
    <3>3. CASE u # t
      <4>1. e \in InFlight(u, k)
        BY <3>1, <3>3
      <4> QED BY <4>1 DEF Held
    <3> QED BY <3>2, <3>3
  <2>2. ASSUME NEW e, e \in Held(k) PROVE e \in (Touched(t, k) \cup Held(k))'
    <3>1. PICK u \in Tasks : e \in InFlight(u, k)
      BY <2>2 DEF Held
    <3>2. CASE u = t
      <4>1. e \in Touched(t, k)
        BY <3>1, <3>2 DEF Touched
      <4> QED BY <4>1
    <3>3. CASE u # t
      <4>1. e \in InFlight(u, k)'
        BY <3>1, <3>3
      <4> QED BY <4>1 DEF Held
    <3> QED BY <3>2, <3>3
  <2> QED BY <2>1, <2>2
<1>3. InFlight(t, k) \subseteq Held(k) /\ InFlight(t, k)' \subseteq Held(k)'
  BY DEF Held
<1>4. 1 .. accepted'[k] = (Buffered(k) \cup Settled(k) \cup lost[k] \cup Held(k))'
  <2>1. 1 .. accepted[k] = Touched(t, k) \cup Held(k)
    BY <1>3, AccountedApart DEF Touched
  <2>2. (Touched(t, k) \cup Held(k))' = (Buffered(k) \cup Settled(k) \cup lost[k] \cup Held(k))'
    BY <1>3 DEF Touched
  <2> QED BY <1>2, <2>1, <2>2
<1>5. ASSUME NEW u \in Tasks
      PROVE  /\ (InFlight(u, k) \cap (Buffered(k) \cup Settled(k) \cup lost[k]))' = {}
             /\ \A v \in Tasks \ {u} : (InFlight(u, k) \cap InFlight(v, k))' = {}
  <2>1. (Buffered(k) \cup Settled(k) \cup lost[k])' \subseteq Touched(t, k)
        /\ InFlight(t, k)' \subseteq Touched(t, k)
    BY DEF Touched
  <2>2. CASE u = t
    <3>1. (InFlight(u, k) \cap (Buffered(k) \cup Settled(k) \cup lost[k]))' = {}
      BY <2>2 DEF Apart
    <3>2. ASSUME NEW v \in Tasks \ {u} PROVE (InFlight(u, k) \cap InFlight(v, k))' = {}
      <4>1. InFlight(v, k)' = InFlight(v, k) /\ InFlight(v, k) \cap Touched(t, k) = {}
        BY <1>1, <2>2
      <4>2. InFlight(u, k)' \subseteq Touched(t, k)
        BY <2>1, <2>2
      <4> QED BY ONLY <4>1, <4>2
    <3> QED BY <3>1, <3>2
  <2>3. CASE u # t
    <3>1. InFlight(u, k)' = InFlight(u, k) /\ InFlight(u, k) \cap Touched(t, k) = {}
      BY <1>1, <2>3
    <3>2. ASSUME NEW v \in Tasks \ {u} PROVE (InFlight(u, k) \cap InFlight(v, k))' = {}
      <4>1. CASE v = t
        <5>1. InFlight(v, k)' \subseteq Touched(t, k)
          BY <2>1, <4>1
        <5> QED BY ONLY <3>1, <5>1
      <4>2. CASE v # t
        <5>1. InFlight(v, k)' = InFlight(v, k) /\ InFlight(u, k) \cap InFlight(v, k) = {}
          BY <4>2 DEF Accounted
        <5> QED BY ONLY <3>1, <5>1
      <4> QED BY <4>1, <4>2
    <3>3. (InFlight(u, k) \cap (Buffered(k) \cup Settled(k) \cup lost[k]))' = {}
      BY ONLY <2>1, <3>1
    <3> QED BY <3>2, <3>3
  <2> QED BY <2>2, <2>3
<1> QED BY <1>4, <1>5 DEF Apart, Accounted, Held

-----------------------------------------------------------------------------
(* Batches are runs of consecutive entries *)

Consecutive(s) == \A i \in 1 .. Len(s) : s[i] = s[1] + (i - 1)

(* A buffer ends with the entry that was accepted last, so that the next   *)
(* one continues it.                                                       *)
BatchesInOrder ==
  \A k \in Kinds :
    /\ Consecutive(buffers[k])
    /\ buffers[k] # << >> => buffers[k][Len(buffers[k])] = accepted[k]
    /\ \A t \in Tasks : Consecutive(toSend[t][k])

LEMMA ConsecutiveAppend ==
  ASSUME NEW s \in Seq(Nat), Consecutive(s), NEW n \in Nat,
         s # << >> => s[Len(s)] = n
  PROVE  Consecutive(Append(s, n + 1))
<1>1. ASSUME NEW i \in 1 .. Len(Append(s, n + 1))
      PROVE  Append(s, n + 1)[i] = Append(s, n + 1)[1] + (i - 1)
  <2>1. CASE i <= Len(s)
    BY <2>1 DEF Consecutive
  <2>2. CASE i = Len(s) + 1 /\ s # << >>
    <3>1. Append(s, n + 1)[i] = n + 1
      BY <2>2
    <3>2. Append(s, n + 1)[1] = s[1] /\ Len(s) \in 1 .. Len(s)
      BY <2>2
    <3>3. n = s[1] + (Len(s) - 1) /\ s[1] \in Nat
      BY <3>2, <2>2 DEF Consecutive
    <3> QED BY <2>2, <3>1, <3>2, <3>3
  <2>3. CASE s = << >>
    BY <2>3
  <2> QED BY <2>1, <2>2, <2>3
<1> QED BY <1>1 DEF Consecutive

LEMMA ConsecutiveInterval ==
  ASSUME NEW s \in Seq(Nat), s # << >>, Consecutive(s)
  PROVE  /\ s[1] \in Nat /\ s[Len(s)] \in Nat /\ s[1] <= s[Len(s)]
         /\ ToSet(s) = s[1] .. s[Len(s)]
<1>1. /\ Len(s) \in Nat /\ 1 <= Len(s) /\ DOMAIN s = 1 .. Len(s)
      /\ \A i \in 1 .. Len(s) : s[i] \in Nat
  OBVIOUS
<1>2. \A i \in 1 .. Len(s) : s[i] = s[1] + (i - 1)
  BY DEF Consecutive
<1>3. s[Len(s)] = s[1] + (Len(s) - 1)
  BY <1>1, <1>2
<1>4. ToSet(s) \subseteq s[1] .. s[Len(s)]
  BY <1>1, <1>2, <1>3 DEF ToSet
<1>5. ASSUME NEW n \in s[1] .. s[Len(s)] PROVE n \in ToSet(s)
  <2>1. n - s[1] + 1 \in 1 .. Len(s)
    BY <1>1, <1>3
  <2>2. s[n - s[1] + 1] = n
    BY <1>1, <1>2, <2>1
  <2> QED BY <1>1, <2>1, <2>2 DEF ToSet
<1>6. ToSet(s) = s[1] .. s[Len(s)]
  BY <1>4, <1>5
<1>7. s[1] \in Nat /\ s[Len(s)] \in Nat /\ s[1] <= s[Len(s)]
  BY <1>1, <1>3
<1> QED BY <1>6, <1>7

-----------------------------------------------------------------------------
(* The steps that move entries *)

LedgerInv == EntriesAccounted /\ BatchesInOrder

(* A new entry goes to the end of its buffer.                              *)
LEMMA EnqueueAdds ==
  ASSUME TypeOK, LedgerInv, NEW c \in Callers, NEW j \in Kinds, Enqueue(c, j)
  PROVE  LedgerInv'
<1> DEFINE n == accepted[j] + 1
<1>1. /\ UNCHANGED <<toSend, delivered, failed, lost>>
      /\ accepted' = [accepted EXCEPT ![j] = n]
      /\ n \in 1 .. MaxEntries /\ accepted[j] \in Nat
  BY DEF Enqueue, sending, TypeOK, HistoryOK
<1>2. buffers' = [buffers EXCEPT ![j] = Append(buffers[j], n)]
  BY <1>1 DEF Enqueue, TypeOK, HistoryOK
<1>3. accepted \in [Kinds -> Nat] /\ buffers \in [Kinds -> Seq(1 .. MaxEntries)]
  BY DEF TypeOK, DataOK, HistoryOK, Batches
<1> HIDE DEF n
<1>4. Buffered(j)' = Buffered(j) \cup {n}
  <2>0. buffers[j] \in Seq(1 .. MaxEntries) /\ n \in 1 .. MaxEntries
    BY <1>1, <1>3
  <2>1. ToSet(Append(buffers[j], n)) = ToSet(buffers[j]) \cup {n}
    BY <2>0, ToSetAppend
  <2> QED BY <1>2, <1>3, <2>1 DEF Buffered
<1>5. \A k \in Kinds : /\ Settled(k)' = Settled(k) /\ Held(k)' = Held(k)
                      /\ \A t \in Tasks : InFlight(t, k)' = InFlight(t, k)
  BY <1>1 DEF Settled, Held, InFlight
<1>6. ASSUME NEW k \in Kinds PROVE Accounted(k)'
  <2>0. Accounted(k)
    BY DEF LedgerInv, EntriesAccounted
  <2>1. CASE k # j
    <3>1. Buffered(k)' = Buffered(k) /\ accepted'[k] = accepted[k]
      BY <1>1, <1>2, <1>3, <2>1 DEF Buffered
    <3> QED BY <1>1, <1>5, <2>0, <3>1 DEF Accounted, Held
  <2>2. CASE k = j
    <3>1. accepted'[k] = n /\ Buffered(k)' = Buffered(k) \cup {n}
      BY <1>1, <1>3, <1>4, <2>2
    <3>2. 1 .. accepted[k] = Buffered(k) \cup Settled(k) \cup lost[k] \cup Held(k)
      BY <2>0 DEF Accounted, Held
    <3>3. n \notin 1 .. accepted[k] /\ 1 .. n = (1 .. accepted[k]) \cup {n}
      BY <1>1, <2>2 DEF n
    <3>4. \A t \in Tasks : n \notin InFlight(t, k)
      BY <3>2, <3>3 DEF Held
    <3>5. 1 .. accepted'[k] = (Buffered(k) \cup Settled(k) \cup lost[k] \cup Held(k))'
      BY <1>1, <1>5, <3>1, <3>2, <3>3
    <3>6. (Buffered(k) \cap (Settled(k) \cup lost[k]))' = {}
      BY <1>1, <1>5, <2>0, <3>1, <3>2, <3>3 DEF Accounted
    <3>7. \A t \in Tasks : (InFlight(t, k) \cap (Buffered(k) \cup Settled(k) \cup lost[k]))' = {}
      BY <1>1, <1>5, <2>0, <3>1, <3>4 DEF Accounted
    <3> QED BY <1>1, <1>5, <2>0, <3>5, <3>6, <3>7 DEF Accounted, Held
  <2> QED BY <2>1, <2>2
<1>7. BatchesInOrder'
  <2>0. BatchesInOrder
    BY DEF LedgerInv
  <2>1. buffers[j] \in Seq(Nat) /\ accepted[j] \in Nat
    BY <1>3, SeqMonotonic
  <2>2. Consecutive(Append(buffers[j], n))
    BY <2>0, <2>1, ConsecutiveAppend DEF BatchesInOrder, n
  <2>3. Append(buffers[j], n)[Len(Append(buffers[j], n))] = n
    BY <2>1
  <2> QED BY <1>1, <1>2, <1>3, <2>0, <2>2, <2>3 DEF BatchesInOrder
<1> QED BY <1>6, <1>7 DEF LedgerInv, EntriesAccounted

(* A task that has nothing takes the buffers of the kinds in K.            *)
LEMMA TakeMoves ==
  ASSUME TypeOK, LedgerInv, NEW t \in Tasks, toSend[t] = Nothing,
         NEW K \in SUBSET Kinds, Take(K),
         toSend' = [toSend EXCEPT ![t] = Taken(K)], UNCHANGED ledger
  PROVE  LedgerInv'
<1>1. \A k \in Kinds : toSend[t][k] = << >>
  BY DEF Nothing
<1>2. /\ \A u \in Tasks \ {t} : toSend'[u] = toSend[u]
      /\ \A k \in K : toSend'[t][k] = buffers[k] /\ buffers'[k] = << >>
      /\ \A k \in Kinds \ K : toSend'[t][k] = << >> /\ buffers'[k] = buffers[k]
      /\ UNCHANGED <<accepted, delivered, failed, lost>>
  BY DEF Take, Taken, Left, ledger, TypeOK, SendingOK
<1>3. BatchesInOrder'
  <2>1. Consecutive(<< >>)
    BY DEF Consecutive
  <2> QED BY <1>2, <2>1 DEF LedgerInv, BatchesInOrder
<1>4. ASSUME NEW k \in Kinds PROVE Accounted(k)'
  <2>1. Accounted(k)
    BY DEF LedgerInv, EntriesAccounted
  <2>2. /\ Settled(k)' = Settled(k) /\ InFlight(t, k) = {}
        /\ \A u \in Tasks \ {t} : InFlight(u, k)' = InFlight(u, k)
        /\ \/ Buffered(k)' = {} /\ InFlight(t, k)' = Buffered(k)
           \/ Buffered(k)' = Buffered(k) /\ InFlight(t, k)' = {}
    BY <1>1, <1>2, ToSetEmpty DEF Settled, InFlight, Buffered
  <2>3. Touched(t, k)' = Touched(t, k)
    BY <1>2, <2>2 DEF Touched
  <2>4. Apart(t, k)'
    BY <1>2, <2>1, <2>2, AccountedApart DEF Apart
  <2> QED BY <1>2, <2>1, <2>2, <2>3, <2>4, OneTaskMoves
<1> QED BY <1>3, <1>4 DEF LedgerInv, EntriesAccounted

(* A send ends: the batch is delivered or failed.                          *)
LEMMA SettleMoves ==
  ASSUME TypeOK, LedgerInv, NEW t \in Tasks, SendStep(t)
  PROVE  LedgerInv'
<1>1. cur[t] \in Kinds /\ UNCHANGED <<accepted, buffers, lost>>
  BY DEF SendStep, SendOk, SendFail, data, TypeOK, SendingOK
<1>2. toSend' = [toSend EXCEPT ![t] = Rest(t)]
  BY DEF SendStep, SendOk, SendFail, Proceed
<1>3. /\ \A u \in Tasks \ {t} : toSend'[u] = toSend[u]
      /\ \A k \in Kinds \ {cur[t]} : toSend'[t][k] = toSend[t][k]
      /\ toSend'[t][cur[t]] = << >>
  BY <1>1, <1>2 DEF Rest, TypeOK, SendingOK, Batches
<1>4. BatchesInOrder'
  <2>1. Consecutive(<< >>)
    BY DEF Consecutive
  <2> QED BY <1>1, <1>3, <2>1 DEF LedgerInv, BatchesInOrder
<1>5. ASSUME NEW k \in Kinds PROVE Accounted(k)'
  <2>1. Accounted(k)
    BY DEF LedgerInv, EntriesAccounted
  <2>2. /\ Buffered(k)' = Buffered(k)
        /\ \A u \in Tasks \ {t} : InFlight(u, k)' = InFlight(u, k)
    BY <1>1, <1>3 DEF Buffered, InFlight
  <2>3. \/ /\ delivered'[k] = delivered[k] /\ failed'[k] = failed[k]
           /\ InFlight(t, k)' = InFlight(t, k)
        \/ /\ delivered'[k] = delivered[k] \cup InFlight(t, k) /\ failed'[k] = failed[k]
           /\ InFlight(t, k)' = {}
        \/ /\ failed'[k] = failed[k] \cup InFlight(t, k) /\ delivered'[k] = delivered[k]
           /\ InFlight(t, k)' = {}
    <3>1. \/ delivered' = Settle(t, delivered) /\ failed' = failed
          \/ failed' = Settle(t, failed) /\ delivered' = delivered
      BY DEF SendStep, SendOk, SendFail
    <3>2. delivered \in Ordinals /\ failed \in Ordinals
      BY DEF TypeOK, HistoryOK
    <3>3. CASE k = cur[t]
      BY <1>3, <3>1, <3>2, <3>3, ToSetEmpty DEF Settle, InFlight, Ordinals
    <3>4. CASE k # cur[t]
      BY <1>3, <3>1, <3>2, <3>4 DEF Settle, InFlight, Ordinals
    <3> QED BY <3>3, <3>4
  <2>4. Touched(t, k)' = Touched(t, k)
    BY <1>1, <2>2, <2>3 DEF Touched, Settled
  <2>5. Apart(t, k)'
    BY <1>1, <2>1, <2>2, <2>3, AccountedApart DEF Apart, Settled
  <2> QED BY <1>1, <2>1, <2>2, <2>4, <2>5, OneTaskMoves
<1> QED BY <1>4, <1>5 DEF LedgerInv, EntriesAccounted

(* What a cancelled task held is lost.                                     *)
LEMMA CancelMoves ==
  ASSUME TypeOK, LedgerInv, NEW t \in Tasks, Cancelled(t), UNCHANGED buffers
  PROVE  LedgerInv'
<1>1. /\ toSend' = [toSend EXCEPT ![t] = Nothing]
      /\ \A k \in Kinds : lost'[k] = lost[k] \cup InFlight(t, k)
      /\ UNCHANGED <<accepted, delivered, failed>>
  BY DEF Cancelled, InFlight
<1>2. /\ \A u \in Tasks \ {t} : toSend'[u] = toSend[u]
      /\ \A k \in Kinds : toSend'[t][k] = << >>
  BY <1>1 DEF Nothing, TypeOK, SendingOK
<1>3. BatchesInOrder'
  <2>1. Consecutive(<< >>)
    BY DEF Consecutive
  <2> QED BY <1>1, <1>2, <2>1 DEF LedgerInv, BatchesInOrder
<1>4. ASSUME NEW k \in Kinds PROVE Accounted(k)'
  <2>1. Accounted(k)
    BY DEF LedgerInv, EntriesAccounted
  <2>2. /\ Buffered(k)' = Buffered(k) /\ Settled(k)' = Settled(k)
        /\ \A u \in Tasks \ {t} : InFlight(u, k)' = InFlight(u, k)
        /\ InFlight(t, k)' = {}
    BY <1>1, <1>2, ToSetEmpty DEF Buffered, Settled, InFlight
  <2>3. Touched(t, k)' = Touched(t, k)
    BY <1>1, <2>2 DEF Touched
  <2>4. Apart(t, k)'
    BY <1>1, <2>1, <2>2, AccountedApart DEF Apart
  <2> QED BY <1>1, <2>1, <2>2, <2>3, <2>4, OneTaskMoves
<1> QED BY <1>3, <1>4 DEF LedgerInv, EntriesAccounted

LEMMA LedgerInvInit == Init => LedgerInv
<1> SUFFICES ASSUME Init PROVE LedgerInv
  OBVIOUS
<1> USE DEF Init, Nothing
<1>1. \A k \in Kinds : /\ Buffered(k) = {} /\ Settled(k) = {} /\ lost[k] = {}
                      /\ \A t \in Tasks : InFlight(t, k) = {}
  BY ToSetEmpty DEF Buffered, Settled, InFlight
<1>2. EntriesAccounted
  BY <1>1 DEF EntriesAccounted, Accounted
<1>3. Consecutive(<< >>)
  BY DEF Consecutive
<1>4. BatchesInOrder
  BY <1>3 DEF BatchesInOrder
<1> QED BY <1>2, <1>4 DEF LedgerInv

LEMMA LedgerInvNext == TypeOK /\ LedgerInv /\ [Next]_vars => LedgerInv'
<1> SUFFICES ASSUME TypeOK, LedgerInv, [Next]_vars PROVE LedgerInv'
  OBVIOUS
<1>1. CASE \E c \in Callers, k \in Kinds : Enqueue(c, k)
  BY <1>1, EnqueueAdds
<1>2. ASSUME NEW c \in Callers, NEW call, pc[c] # "post",
             DrainAll(c, call), UNCHANGED ledger
      PROVE  LedgerInv'
  <2>1. /\ toSend[c] = Nothing /\ DrainKinds \in SUBSET Kinds
        /\ Take(DrainKinds) /\ toSend' = [toSend EXCEPT ![c] = Taken(DrainKinds)]
    BY <1>2 DEF DrainAll, Proceed, DrainKinds, TypeOK, SendingOK
  <2> QED BY <1>2, <2>1, TakeMoves
<1>3. ASSUME NEW c \in Callers, Flush(c) \/ JoinReturns(c) PROVE LedgerInv'
  BY <1>2, <1>3 DEF Flush, JoinReturns
<1>4. CASE WorkerRound
  <2>1. /\ toSend[Worker] = Nothing /\ DueKinds \in SUBSET Kinds /\ UNCHANGED ledger
        /\ Take(DueKinds) /\ toSend' = [toSend EXCEPT ![Worker] = Taken(DueKinds)]
    BY <1>4 DEF WorkerRound, Proceed, DueKinds, TypeOK, SendingOK
  <2> QED BY <2>1, TakeMoves
<1>5. CASE \E t \in Tasks : SendStep(t)
  BY <1>5, SettleMoves
<1>6. CASE \E c \in Callers : CancelSend(c) \/ CancelJoin(c) \/ JoinTimesOut(c)
  BY <1>6, CancelMoves DEF CancelSend, CancelJoin, JoinTimesOut, data
<1>7. ASSUME UNCHANGED <<buffers, toSend, ledger>> PROVE LedgerInv'
  <2> USE <1>7 DEF ledger
  <2>1. ASSUME NEW k \in Kinds PROVE Accounted(k)'
    <3>1. /\ Buffered(k)' = Buffered(k) /\ Settled(k)' = Settled(k) /\ lost'[k] = lost[k]
          /\ \A t \in Tasks : InFlight(t, k)' = InFlight(t, k)
      BY DEF Buffered, Settled, InFlight
    <3>2. Accounted(k)
      BY DEF LedgerInv, EntriesAccounted
    <3> QED BY <3>1, <3>2 DEF Accounted
  <2>2. BatchesInOrder'
    BY DEF LedgerInv, BatchesInOrder
  <2> QED BY <2>1, <2>2 DEF LedgerInv, EntriesAccounted
<1>8. CASE Tick \/ UNCHANGED vars \/ \E c \in Callers : Close(c)
  BY <1>7, <1>8 DEF Tick, vars, Close, data, sending
<1> QED
  BY <1>1, <1>3, <1>4, <1>5, <1>6, <1>8 DEF Next, AppCall, CallerStep

(* The accounts and the order of the batches are invariant.                *)
THEOREM LedgerInvHolds == Spec => []LedgerInv
BY LedgerInvInit, LedgerInvNext, TypeCorrect, PTL DEF Spec

(* Without a lock, and whatever is cancelled, an accepted entry is in one  *)
(* place: buffered, held by one task, delivered, failed, or lost with a    *)
(* cancelled task.                                                         *)
THEOREM EntriesAccountedHolds == Spec => []EntriesAccounted
<1>1. LedgerInv => EntriesAccounted
  BY DEF LedgerInv
<1> QED BY <1>1, LedgerInvHolds, PTL

(* The same below the client and its handler.                              *)
THEOREM ClientEntriesAccounted == ClientSpec => []EntriesAccounted
BY EntriesAccountedHolds, ClientRunsBatcher, PTL

-----------------------------------------------------------------------------
(* The batcher implements EntryLedger *)

(* The end of a send is one step of the ledger, or none.                   *)
LEMMA SettleIsLedgerStep ==
  ASSUME TypeOK, LedgerInv, NEW t \in Tasks, SendStep(t)
  PROVE  [Ledger!Next]_Ledger!vars
<1>1. PICK k \in Kinds : k = cur[t]
  BY DEF TypeOK, SendingOK, SendStep, SendOk, SendFail
<1> DEFINE batch == toSend[t][k]
<1>2. batch \in Seq(Nat) /\ Consecutive(batch)
  <2>1. batch \in Seq(1 .. MaxEntries)
    BY DEF TypeOK, SendingOK, Batches
  <2> QED BY <2>1, SeqMonotonic DEF LedgerInv, BatchesInOrder
<1>3. /\ UNCHANGED <<accepted, closed>>
      /\ \/ delivered' = [delivered EXCEPT ![k] = @ \cup ToSet(batch)] /\ failed' = failed
         \/ failed' = [failed EXCEPT ![k] = @ \cup ToSet(batch)] /\ delivered' = delivered
  BY <1>1 DEF SendStep, SendOk, SendFail, Settle
<1>4. CASE batch = << >>
  <2>1. ToSet(batch) = {}
    BY <1>4, ToSetEmpty
  <2>2. delivered \in [Kinds -> SUBSET (1 .. MaxEntries)]
    BY DEF TypeOK, HistoryOK, Ordinals
  <2>3. failed \in [Kinds -> SUBSET (1 .. MaxEntries)]
    BY DEF TypeOK, HistoryOK, Ordinals
  <2> HIDE DEF batch
  <2>4. delivered' = delivered /\ failed' = failed
    BY <1>3, <2>1, <2>2, <2>3
  <2> QED BY <1>3, <2>4 DEF Ledger!vars
<1>5. CASE batch # << >>
  <2> DEFINE lo == batch[1]
             hi == batch[Len(batch)]
  <2>1. lo \in Nat /\ hi \in Nat /\ lo <= hi /\ ToSet(batch) = lo .. hi
    BY <1>2, <1>5, ConsecutiveInterval
  <2>2. /\ lo .. hi \subseteq 1 .. accepted[k]
        /\ (lo .. hi) \cap Settled(k) = {}
    <3>1. Accounted(k)
      BY DEF LedgerInv, EntriesAccounted
    <3>2. InFlight(t, k) = lo .. hi
      BY <2>1 DEF InFlight
    <3>3. InFlight(t, k) \subseteq Held(k)
      BY DEF Held
    <3> QED BY <3>1, <3>2, <3>3, AccountedApart DEF Apart
  <2>3. accepted[k] \in Nat /\ lo \in 1 .. accepted[k] /\ hi \in 1 .. accepted[k]
    BY <2>1, <2>2 DEF TypeOK, HistoryOK
  <2>4. Ledger!IsOpenBatch(k, lo, hi)
    BY <2>1, <2>2, <2>3 DEF Ledger!IsOpenBatch, Ledger!Settled, Settled
  <2>5. Ledger!Deliver(k, lo, hi) \/ Ledger!Fail(k, lo, hi)
    BY <1>3, <2>1, <2>4 DEF Ledger!Deliver, Ledger!Fail
  <2> QED BY <2>3, <2>5 DEF Ledger!Next
<1> QED BY <1>4, <1>5

LEMMA StepIsLedgerStep ==
  TypeOK /\ LedgerInv /\ [Next]_vars => [Ledger!Next]_Ledger!vars
<1> SUFFICES ASSUME TypeOK, LedgerInv, [Next]_vars
             PROVE  [Ledger!Next]_Ledger!vars
  OBVIOUS
<1>1. ASSUME NEW c \in Callers, NEW k \in Kinds, Enqueue(c, k)
      PROVE  [Ledger!Next]_Ledger!vars
  <2> Ledger!Accept(k)
    BY <1>1 DEF Enqueue, Open, Ledger!Accept
  <2> QED BY DEF Ledger!Next
<1>2. CASE \E c \in Callers : Close(c)
  BY <1>2 DEF Close, ledger, Ledger!Close, Ledger!Next
<1>3. CASE \E t \in Tasks : SendStep(t)
  BY <1>3, SettleIsLedgerStep
<1>4. CASE UNCHANGED <<accepted, delivered, failed, closed>>
  BY <1>4 DEF Ledger!vars
<1>5. CASE \E c \in Callers : \/ Flush(c) \/ JoinReturns(c) \/ JoinTimesOut(c)
                              \/ CancelSend(c) \/ CancelJoin(c)
  BY <1>4, <1>5 DEF Flush, JoinReturns, JoinTimesOut, CancelSend, CancelJoin, Cancelled, ledger
<1>6. CASE WorkerRound \/ Tick \/ UNCHANGED vars
  BY <1>4, <1>6 DEF WorkerRound, Tick, vars, ledger
<1> QED
  BY <1>1, <1>2, <1>3, <1>5, <1>6 DEF Next, AppCall, CallerStep

(* Every behaviour of the batcher is one of the ledger: what enqueue()     *)
(* takes is delivered or reported failed at most once, in whole batches of *)
(* consecutive entries, and nothing is taken after close().                *)
THEOREM Implements == Spec => ImplementsLedger
<1>1. Init => Ledger!Init
  BY DEF Init, Ledger!Init
<1> QED
  BY <1>1, StepIsLedgerStep, TypeCorrect, LedgerInvHolds, PTL
  DEF Spec, ImplementsLedger, Ledger!Spec

(* The same below the client and its handler.                              *)
THEOREM ClientImplements == ClientSpec => ImplementsLedger
BY Implements, ClientRunsBatcher, PTL
=============================================================================
