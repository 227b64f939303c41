-------------------------- MODULE SyncBatcherProofs ------------------------
(***************************************************************************)
(* What SyncBatcher guarantees for every set of kinds and callers and for  *)
(* every batch size, interval and bound.                                   *)
(***************************************************************************)
EXTENDS SyncBatcherTimed, SyncBatcherInterrupts, SequenceTheorems, TLAPS

USE SyncBatcherAssumption DEF SyncBatcherAssumption, Procs, Unset

-----------------------------------------------------------------------------
(* The elements of a sequence *)

LEMMA ToSetEmpty == ToSet(<< >>) = {}
BY DEF ToSet

LEMMA ToSetAppend ==
  ASSUME NEW S, NEW s \in Seq(S), NEW e \in S
  PROVE  ToSet(Append(s, e)) = ToSet(s) \cup {e}
<1>1. /\ DOMAIN Append(s, e) = 1 .. (Len(s) + 1)
      /\ \A i \in 1 .. Len(s) : Append(s, e)[i] = s[i]
      /\ Append(s, e)[Len(s) + 1] = e
  OBVIOUS
<1>2. DOMAIN s = 1 .. Len(s) /\ Len(s) \in Nat
  OBVIOUS
<1> QED BY <1>1, <1>2 DEF ToSet

-----------------------------------------------------------------------------
(* Types *)

Shapes == DataOK /\ ThreadOK /\ SendingOK /\ HistoryOK

LEMMA TypeInit == Init => TypeOK
<1> SUFFICES ASSUME Init PROVE TypeOK
  OBVIOUS
<1> USE DEF Init
<1>0. WaitTimeout \in Nat
  BY DEF WaitTimeout, AtLeast
<1>1. DataOK
  BY EmptySeq DEF DataOK, Batches, Nothing
<1>2. ThreadOK
  BY <1>0 DEF ThreadOK, CallerPC, WorkerPC
<1>3. SendingOK
  BY EmptySeq DEF SendingOK, Batches, Nothing
<1>4. HistoryOK
  <2>1. 0 \in 0 .. MaxEntries
    OBVIOUS
  <2>2. accepted \in [Kinds -> 0 .. MaxEntries]
    BY <2>1
  <2>3. mark \in [Callers -> [Kinds -> 0 .. MaxEntries]]
    BY <2>1
  <2> QED BY <2>2, <2>3 DEF HistoryOK
<1>5. ClosingOK
  BY DEF ClosingOK, InClose
<1> QED BY <1>1, <1>2, <1>3, <1>4, <1>5 DEF TypeOK

(* Moving buffers into a to_send keeps the types.                          *)
LEMMA TakeTypes ==
  ASSUME DataOK, toSend \in [Procs -> Batches],
         NEW p \in Procs, NEW K \in SUBSET Kinds, Take(p, K)
  PROVE  /\ buffers' \in Batches
         /\ oldest' \in [Kinds -> {Unset} \cup 0 .. MaxAge]
         /\ aged' \in SUBSET Kinds
         /\ toSend' \in [Procs -> Batches]
<1>1. Taken(K) \in Batches /\ Left(K) \in Batches
  BY EmptySeq DEF Taken, Left, DataOK, Batches
<1>2. OldestLeft(K) \in [Kinds -> {Unset} \cup 0 .. MaxAge]
  BY DEF OldestLeft, DataOK
<1> QED BY <1>1, <1>2 DEF Take

(* Removing the batch that was sent keeps the types.                       *)
LEMMA ForgetTypes ==
  ASSUME SendingOK, NEW p \in Procs, cur[p] \in Kinds, Forget(p)
  PROVE  toSend' \in [Procs -> Batches] /\ cur' = [cur EXCEPT ![p] = NoKind]
<1>1. [toSend[p] EXCEPT ![cur[p]] = << >>] \in Batches
  BY EmptySeq DEF SendingOK, Batches
<1> QED BY <1>1 DEF Forget, SendingOK

LEMMA ShapesNext == Shapes /\ [Next]_vars => Shapes'
<1> SUFFICES ASSUME Shapes, [Next]_vars PROVE Shapes'
  OBVIOUS
<1> USE DEF Shapes
<1>1. ASSUME NEW p \in Procs, NEW k \in Kinds, Enqueue(p, k) PROVE Shapes'
  <2> USE <1>1 DEF Enqueue, Appended, sending
  <2>1. accepted'[k] \in 1 .. MaxEntries
    BY DEF HistoryOK
  <2>2. Append(buffers[k], accepted'[k]) \in Seq(1 .. MaxEntries)
    BY <2>1 DEF DataOK, Batches
  <2>3. DataOK'
    BY <2>2 DEF DataOK, Batches, OldestAfterAppend
  <2>4. ThreadOK'
    BY DEF ThreadOK, Goto, CallerPC, WorkerPC
  <2>5. SendingOK'
    BY DEF SendingOK, Goto, ThreadOK
  <2>6. HistoryOK'
    BY <2>1 DEF HistoryOK
  <2> QED BY <2>3, <2>4, <2>5, <2>6
<1>2. ASSUME NEW p \in Procs, Signal(p) PROVE Shapes'
  BY <1>2 DEF Signal, Goto, data, sending, ledger, DataOK, ThreadOK,
              SendingOK, HistoryOK, CallerPC, WorkerPC
<1>3. ASSUME NEW c \in Callers, FlushCall(c) PROVE Shapes'
  BY <1>3 DEF FlushCall, Goto, data, sending, ledger, DataOK, ThreadOK,
              SendingOK, HistoryOK, CallerPC
<1>4. ASSUME NEW c \in Callers, CloseCall(c) PROVE Shapes'
  BY <1>4 DEF CloseCall, Closes, Goto, data, sending, ledger, DataOK,
              ThreadOK, SendingOK, HistoryOK, CallerPC
<1>6. ASSUME NEW c \in Callers, CloseWake(c) PROVE Shapes'
  <2> JoinTimeout \in Nat
    BY DEF JoinTimeout, AtLeast
  <2> QED
    BY <1>6 DEF CloseWake, Goto, data, sending, ledger, DataOK,
                ThreadOK, SendingOK, HistoryOK, CallerPC
<1>7. ASSUME NEW c \in Callers, JoinReturns(c) PROVE Shapes'
  BY <1>7 DEF JoinReturns, Goto, data, sending, ledger, DataOK,
              ThreadOK, SendingOK, HistoryOK, CallerPC
<1>8. ASSUME NEW c \in Callers, DrainAll(c) PROVE Shapes'
  <2> USE <1>8 DEF DrainAll
  <2>1. /\ buffers' \in Batches /\ toSend' \in [Procs -> Batches]
        /\ oldest' \in [Kinds -> {Unset} \cup 0 .. MaxAge]
        /\ aged' \in SUBSET Kinds
    <3> DrainKinds \in SUBSET Kinds
      BY DEF DrainKinds
    <3> QED BY TakeTypes DEF SendingOK
  <2> QED
    BY <2>1 DEF Goto, ledger, DataOK, ThreadOK, SendingOK, HistoryOK, CallerPC
<1>9. ASSUME NEW p \in Procs, SendStep(p) PROVE Shapes'
  <2>1. ASSUME NEW k \in Kinds, SendBegin(p, k) PROVE Shapes'
    BY <2>1 DEF SendBegin, Goto, data, ledger, DataOK, ThreadOK,
                SendingOK, HistoryOK, CallerPC, WorkerPC
  <2>2. CASE SendOk(p) \/ SendFail(p)
    <3>1. pc[p] = "post" /\ cur[p] \in Kinds
      BY <2>2 DEF SendOk, SendFail, SendingOK
    <3>2. toSend' \in [Procs -> Batches] /\ cur' = [cur EXCEPT ![p] = NoKind]
      BY <2>2, <3>1, ForgetTypes DEF SendOk, SendFail
    <3>3. ToSet(toSend[p][cur[p]]) \subseteq 1 .. MaxEntries
      BY <3>1, ElementOfSeq, LenProperties DEF SendingOK, Batches, ToSet
    <3>4. HistoryOK'
      BY <2>2, <3>1, <3>3 DEF SendOk, SendFail, HistoryOK
    <3>5. DataOK' /\ ThreadOK' /\ SendingOK'
      BY <2>2, <3>1, <3>2 DEF SendOk, SendFail, Goto, data, DataOK, ThreadOK,
                              SendingOK, CallerPC, WorkerPC
    <3> QED BY <3>4, <3>5
  <2>3. CASE CallbackReturn(p)
    BY <2>3 DEF CallbackReturn, Goto, data, sending, ledger, DataOK,
                ThreadOK, SendingOK, HistoryOK, CallerPC, WorkerPC
  <2> QED BY <1>9, <2>1, <2>2, <2>3 DEF SendStep
<1>10. CASE CallbackClose
  BY <1>10 DEF CallbackClose, Closes, Goto, data, sending, ledger, DataOK,
               ThreadOK, SendingOK, HistoryOK, WorkerPC
<1>11. CASE CallbackCloseFails
  BY <1>11 DEF CallbackCloseFails, Goto, data, sending, ledger,
               DataOK, ThreadOK, SendingOK, HistoryOK, WorkerPC
<1>12. ASSUME NEW c \in Callers, CallReturns(c) PROVE Shapes'
  BY <1>12 DEF CallReturns, Goto, data, sending, ledger, DataOK, ThreadOK,
               SendingOK, HistoryOK, CallerPC
<1>13. CASE WaitReturns \/ Clear \/ WorkerSent
  <2> USE DEF Goto, data, sending, ledger, DataOK, ThreadOK,
              SendingOK, HistoryOK, WorkerPC
  <2>1. CASE WaitReturns  BY <2>1, 0 \in Nat DEF WaitReturns
  <2>2. CASE Clear        BY <2>2 DEF Clear
  <2>3. CASE WorkerSent   BY <2>3 DEF WorkerSent
  <2> QED BY <1>13, <2>1, <2>2, <2>3
<1>14. CASE ReadNow
  BY <1>14 DEF ReadNow, Goto, data, sending, ledger, DataOK,
               ThreadOK, SendingOK, HistoryOK, WorkerPC
<1>15. CASE TakeDue
  <2> USE <1>15 DEF TakeDue
  <2>1. /\ buffers' \in Batches /\ toSend' \in [Procs -> Batches]
        /\ oldest' \in [Kinds -> {Unset} \cup 0 .. MaxAge]
        /\ aged' \in SUBSET Kinds
    <3> DueKinds \in SUBSET Kinds
      BY DEF DueKinds
    <3> QED BY TakeTypes DEF SendingOK
  <2> QED
    BY <2>1 DEF Goto, ledger, DataOK, ThreadOK, SendingOK, HistoryOK,
                WorkerPC
<1>16. CASE CheckClosed
  <2> USE <1>16 DEF CheckClosed, Goto
  <2>1. WaitTimeout \in Nat
    BY DEF WaitTimeout, AtLeast
  <2>2. /\ timer' \in [Procs -> Nat]
        /\ \E place \in {"done", "wait"} : pc' = [pc EXCEPT ![Worker] = place]
    BY <2>1 DEF ThreadOK
  <2>3. ThreadOK' /\ SendingOK'
    BY <2>2 DEF sending, ThreadOK, SendingOK, WorkerPC
  <2> QED
    BY <2>3 DEF data, ledger, DataOK, HistoryOK
<1>17. CASE Tick
  <2>1. oldest' \in [Kinds -> {Unset} \cup 0 .. MaxAge]
    BY <1>17 DEF Tick, Older, DataOK
  <2>2. timer' \in [Procs -> Nat]
    BY <1>17 DEF Tick, ThreadOK
  <2> QED
    BY <1>17, <2>1, <2>2 DEF Tick, sending, ledger, DataOK, ThreadOK,
                             SendingOK, HistoryOK
<1>18. CASE UNCHANGED vars
  BY <1>18 DEF vars, data, thread, sending, ledger, DataOK, ThreadOK,
               SendingOK, HistoryOK
<1> QED
  BY <1>1, <1>2, <1>3, <1>4, <1>6, <1>7, <1>8, <1>9, <1>10, <1>11,
     <1>12, <1>13, <1>14, <1>15, <1>16, <1>17, <1>18
  DEF Next, AppCall, WorkerStep, CallerStep

(* The first close() sets _closed, so that nobody else gets past the test. *)
LEMMA ClosingNext == TypeOK /\ [Next]_vars => ClosingOK'
<1> SUFFICES ASSUME TypeOK, [Next]_vars PROVE ClosingOK'
  OBVIOUS
<1> USE DEF TypeOK, ThreadOK
<1>1. CASE (\E c \in Callers : CloseCall(c)) \/ CallbackClose
  <2>1. closed' = TRUE /\ \A p \in Procs : ~ InClose(p)
    BY <1>1 DEF CloseCall, CallbackClose, Closes, ClosingOK
  <2>2. PICK p \in Procs : \A q \in Procs \ {p} : ~ InClose(q)'
    <3>1. CASE CallbackClose
      BY <2>1, <3>1 DEF CallbackClose, InClose
    <3>2. ASSUME NEW c \in Callers, CloseCall(c)
          PROVE  \A q \in Procs \ {c} : ~ InClose(q)'
      BY <2>1, <3>2 DEF CloseCall, Goto, InClose
    <3> QED BY <1>1, <3>1, <3>2
  <2> QED BY <2>1, <2>2 DEF ClosingOK
<1>2. ASSUME closed' = closed, pc'[Worker] = "done" => closed,
             \A p \in Procs : InClose(p)' => InClose(p)
      PROVE  ClosingOK'
  BY <1>2 DEF ClosingOK
<1>3. ASSUME NEW p \in Procs,
             \/ \E k \in Kinds : Enqueue(p, k)
             \/ Signal(p) \/ SendStep(p)
      PROVE  ClosingOK'
  <2>1. /\ closed' = closed /\ op' = op
        /\ pc'[Worker] \in {"cbWake", "done"} => pc'[Worker] = pc[Worker]
    BY <1>3 DEF Enqueue, Signal, SendStep, SendBegin, SendOk, SendFail,
                CallbackReturn, Goto
  <2> QED BY <1>2, <2>1 DEF ClosingOK, InClose
<1>4. ASSUME NEW c \in Callers,
             \/ FlushCall(c) \/ CloseWake(c) \/ JoinReturns(c)
             \/ DrainAll(c) \/ CallReturns(c)
      PROVE  ClosingOK'
  <2>1. /\ closed' = closed /\ pc'[Worker] = pc[Worker]
        /\ \A q \in Callers : op'[q] = "close" => op[q] = "close"
    BY <1>4 DEF FlushCall, CloseWake, JoinReturns, DrainAll, CallReturns, Goto
  <2> QED BY <1>2, <2>1 DEF ClosingOK, InClose
<1>5. CASE \/ CallbackCloseFails \/ WaitReturns \/ Clear \/ ReadNow
           \/ TakeDue \/ WorkerSent \/ CheckClosed
  <2>1. /\ closed' = closed /\ op' = op
        /\ pc'[Worker] # "cbWake" /\ (pc'[Worker] = "done" => closed)
    BY <1>5 DEF CallbackCloseFails, WaitReturns, Clear, ReadNow, TakeDue,
                WorkerSent, CheckClosed, Goto
  <2> QED BY <1>2, <2>1 DEF InClose
<1>6. CASE Tick \/ UNCHANGED vars
  BY <1>2, <1>6 DEF Tick, vars, thread, ClosingOK, InClose
<1> QED BY <1>1, <1>3, <1>4, <1>5, <1>6
        DEF Next, AppCall, WorkerStep, CallerStep

LEMMA TypeNext == TypeOK /\ [Next]_vars => TypeOK'
BY ShapesNext, ClosingNext DEF TypeOK, Shapes

(* TypeOK is an invariant of the batcher.                                  *)
THEOREM TypeCorrect == Spec => []TypeOK
BY TypeInit, TypeNext, PTL DEF Spec

-----------------------------------------------------------------------------
(* No lost wakeup *)

Full(k) == buffers[k] # << >> /\ Len(buffers[k]) >= BatchSize

Watched == \/ wake
           \/ \E p \in Procs : pc[p] \in {"signal", "cbSignal"}
           \/ pc[Worker] \in {"clear", "readNow", "take"}

(* The worker takes every full buffer, a drain takes every buffer.         *)
LEMMA TakeEmptiesFull ==
  ASSUME TypeOK, (\E c \in Callers : DrainAll(c)) \/ TakeDue
  PROVE  \A k \in Kinds : ~ Full(k)'
<1>1. ASSUME NEW k \in Kinds, buffers'[k] # << >>, Len(buffers'[k]) >= BatchSize
      PROVE  FALSE
  BY <1>1 DEF DrainAll, TakeDue, Take, Left, DrainKinds, DueKinds
<1> QED BY <1>1 DEF Full

LEMMA WakeupNext == TypeOK /\ NoLostWakeup /\ [Next]_vars => NoLostWakeup'
<1> SUFFICES ASSUME TypeOK, NoLostWakeup, [Next]_vars,
                    NEW k \in Kinds, Full(k)'
             PROVE  Watched'
  BY DEF NoLostWakeup, Full, Watched
<1>0. Full(k) => Watched
  BY DEF NoLostWakeup, Full, Watched
<1> USE DEF TypeOK, ThreadOK
<1>1. ASSUME NEW p \in Procs, NEW j \in Kinds, Enqueue(p, j) PROVE Watched'
  <2>1. CASE SizeHit(j)
    BY <1>1, <2>1 DEF Enqueue, Appended, Goto, Watched
  <2>2. CASE ~ SizeHit(j)
    <3>1. pc' = pc /\ wake' = wake
      BY <1>1, <2>2 DEF Enqueue, Appended
    <3>2. ASSUME k = j PROVE FALSE
      <4>1. buffers[j] \in Seq(1 .. MaxEntries)
        BY DEF DataOK, Batches
      <4>2. buffers'[j] = Append(buffers[j], accepted'[j])
        BY <1>1 DEF Enqueue, Appended, DataOK, Batches
      <4>3. Len(buffers'[j]) = Len(buffers[j]) + 1
        BY <4>1, <4>2
      <4> QED BY <2>2, <3>2, <4>1, <4>3 DEF SizeHit, Full
    <3>3. buffers'[k] = buffers[k]
      BY <1>1, <3>2 DEF Enqueue, Appended, DataOK, Batches
    <3> QED BY <1>0, <3>1, <3>3 DEF Full, Watched
  <2> QED BY <2>1, <2>2
<1>2. ASSUME NEW p \in Procs, Signal(p) PROVE Watched'
  BY <1>2 DEF Signal, Watched
<1>3. CASE (\E c \in Callers : DrainAll(c)) \/ TakeDue
  BY <1>3, TakeEmptiesFull
<1>4. CASE CallbackCloseFails \/ \E c \in Callers : CloseWake(c)
  BY <1>4 DEF CallbackCloseFails, CloseWake, Watched
<1>5. CASE WaitReturns \/ Clear \/ ReadNow
  BY <1>5 DEF WaitReturns, Clear, ReadNow, Goto, Watched
<1>6. ASSUME NEW p \in Procs, SendStep(p) PROVE Watched'
  <2>1. /\ buffers' = buffers /\ wake' = wake
        /\ pc[p] \in {"send", "post", "callback"}
        /\ \E place \in {"send", "post", "callback"} : Goto(p, place)
    BY <1>6 DEF SendStep, SendBegin, SendOk, SendFail, CallbackReturn, data
  <2> QED BY <1>0, <2>1 DEF Full, Watched, Goto
<1>7. ASSUME NEW c \in Callers,
             \/ FlushCall(c) \/ CloseCall(c)
             \/ JoinReturns(c) \/ CallReturns(c)
      PROVE  Watched'
  <2>1. /\ buffers' = buffers /\ wake' = wake
        /\ \A p \in Procs \ {c} : pc'[p] = pc[p]
        /\ pc[c] \notin {"signal", "cbSignal"}
    BY <1>7 DEF FlushCall, CloseCall, JoinReturns, CallReturns,
                data, thread, Goto
  <2> QED BY <1>0, <2>1 DEF Full, Watched
<1>8. CASE CallbackClose \/ WorkerSent \/ CheckClosed
  <2>1. /\ buffers' = buffers /\ wake' = wake
        /\ \A p \in Callers : pc'[p] = pc[p]
        /\ pc[Worker] \in {"callback", "send", "check"}
    BY <1>8 DEF CallbackClose, WorkerSent, CheckClosed, data, Goto
  <2> QED BY <1>0, <2>1 DEF Full, Watched
<1>9. CASE Tick \/ UNCHANGED vars
  BY <1>0, <1>9 DEF Tick, vars, data, thread, Full, Watched
<1> QED
  BY <1>1, <1>2, <1>3, <1>4, <1>5, <1>6, <1>7, <1>8, <1>9
  DEF Next, AppCall, WorkerStep, CallerStep

(* A buffer that reached batch_size is always noticed.                     *)
THEOREM NoLostWakeupHolds == Spec => []NoLostWakeup
<1>1. Init => NoLostWakeup
  BY DEF Init, NoLostWakeup, Nothing
<1> QED BY <1>1, WakeupNext, TypeCorrect, PTL DEF Spec

-----------------------------------------------------------------------------
(* What enqueue() adds to a buffer *)

LEMMA EnqueueBuffers ==
  ASSUME TypeOK, NEW p \in Procs, NEW k \in Kinds, Enqueue(p, k)
  PROVE  /\ accepted' = [accepted EXCEPT ![k] = accepted[k] + 1]
         /\ accepted[k] + 1 \in 1 .. MaxEntries
         /\ buffers' = [buffers EXCEPT ![k] = Append(buffers[k], accepted[k] + 1)]
         /\ Buffered(k)' = Buffered(k) \cup {accepted[k] + 1}
<1>1. accepted' = [accepted EXCEPT ![k] = accepted[k] + 1]
  BY DEF Enqueue, Appended
<1>2. accepted[k] + 1 \in 1 .. MaxEntries
  BY DEF Enqueue, Appended, TypeOK, HistoryOK
<1>3. buffers' = [buffers EXCEPT ![k] = Append(buffers[k], accepted[k] + 1)]
  BY <1>1 DEF Enqueue, Appended, TypeOK, HistoryOK
<1>4. buffers[k] \in Seq(1 .. MaxEntries)
  BY DEF TypeOK, DataOK, Batches
<1>5. ToSet(Append(buffers[k], accepted[k] + 1))
        = ToSet(buffers[k]) \cup {accepted[k] + 1}
  BY <1>2, <1>4, ToSetAppend
<1>6. buffers'[k] = Append(buffers[k], accepted[k] + 1)
  BY <1>3 DEF TypeOK, DataOK, Batches
<1> QED BY <1>1, <1>2, <1>3, <1>5, <1>6 DEF Buffered

-----------------------------------------------------------------------------
(* The timestamp of a kind comes and goes with the contents of its buffer *)

LEMMA OldestNext ==
  TypeOK /\ OldestTracksBuffer /\ [Next]_vars => OldestTracksBuffer'
<1> SUFFICES ASSUME TypeOK, OldestTracksBuffer, [Next]_vars, NEW k \in Kinds
             PROVE  buffers'[k] = << >> <=> oldest'[k] = Unset
  BY DEF OldestTracksBuffer
<1>0. /\ buffers[k] = << >> <=> oldest[k] = Unset
      /\ oldest \in [Kinds -> {Unset} \cup 0 .. MaxAge]
      /\ buffers \in [Kinds -> Seq(1 .. MaxEntries)]
  BY DEF OldestTracksBuffer, TypeOK, DataOK, Batches
<1>1. ASSUME NEW p \in Procs, NEW j \in Kinds, Enqueue(p, j)
      PROVE  buffers'[k] = << >> <=> oldest'[k] = Unset
  <2>1. /\ oldest' = [oldest EXCEPT ![j] = OldestAfterAppend(j)]
        /\ buffers' = [buffers EXCEPT ![j] = Append(buffers[j], accepted[j] + 1)]
        /\ accepted[j] + 1 \in 1 .. MaxEntries
    BY <1>1, EnqueueBuffers DEF Enqueue
  <2>2. OldestAfterAppend(j) # Unset
    BY <1>0 DEF OldestAfterAppend
  <2>3. Append(buffers[j], accepted[j] + 1) # << >>
    BY <1>0, <2>1
  <2> QED BY <1>0, <2>1, <2>2, <2>3
<1>2. CASE TakeDue \/ \E c \in Callers : DrainAll(c)
  <2> PICK p \in Procs, K \in SUBSET Kinds : Take(p, K)
    BY <1>2 DEF TakeDue, DrainAll, DueKinds, DrainKinds
  <2> QED BY <1>0 DEF Take, Left, OldestLeft
<1>3. CASE Tick
  BY <1>0, <1>3 DEF Tick, Older
<1>4. CASE UNCHANGED data
  BY <1>0, <1>4 DEF data
<1>5. CASE \E p \in Procs : Signal(p) \/ SendStep(p)
  BY <1>4, <1>5 DEF Signal, SendStep, SendBegin, SendOk, SendFail, CallbackReturn
<1>6. CASE \E c \in Callers : \/ FlushCall(c) \/ CloseCall(c) \/ CloseWake(c)
                             \/ JoinReturns(c) \/ CallReturns(c)
  BY <1>4, <1>6 DEF FlushCall, CloseCall, CloseWake, JoinReturns, CallReturns
<1>7. CASE \/ CallbackClose \/ CallbackCloseFails \/ WaitReturns \/ Clear
           \/ ReadNow \/ WorkerSent \/ CheckClosed \/ UNCHANGED vars
  BY <1>4, <1>7 DEF CallbackClose, CallbackCloseFails, WaitReturns, Clear,
                    ReadNow, WorkerSent, CheckClosed, vars
<1> QED
  BY <1>1, <1>2, <1>3, <1>5, <1>6, <1>7
  DEF Next, AppCall, WorkerStep, CallerStep

(* _oldest has a timestamp exactly for the kinds whose buffer holds        *)
(* something.                                                              *)
THEOREM OldestTracksBufferHolds == Spec => []OldestTracksBuffer
<1>1. Init => OldestTracksBuffer
  BY DEF Init, Nothing, OldestTracksBuffer
<1> QED BY <1>1, OldestNext, TypeCorrect, PTL DEF Spec

-----------------------------------------------------------------------------
(* flush() leaves none of the caller's earlier entries in a buffer *)

MarksBounded == \A c \in Callers, k \in Kinds : mark[c][k] <= accepted[k]

FlushInv == FlushTookAll /\ MarksBounded

LEMMA FlushNext == TypeOK /\ FlushInv /\ [Next]_vars => FlushInv'
<1> SUFFICES ASSUME TypeOK, FlushInv, [Next]_vars PROVE FlushInv'
  OBVIOUS
<1> USE DEF TypeOK, DataOK, ThreadOK, HistoryOK, FlushInv
<1>1. ASSUME NEW p \in Procs, NEW j \in Kinds, Enqueue(p, j) PROVE FlushInv'
  <2> USE <1>1 DEF Enqueue, Appended
  <2>1. MarksBounded'
    BY DEF MarksBounded
  <2>2. ASSUME NEW c \in Callers, op'[c] = "flush", pc'[c] # "drain",
               NEW k \in Kinds
        PROVE  Buffered(k)' \cap (1 .. mark'[c][k]) = {}
    <3>1. op[c] = "flush" /\ pc[c] # "drain"
      BY <2>2 DEF Goto
    <3>2. Buffered(k) \cap (1 .. mark[c][k]) = {}
      BY <3>1 DEF FlushTookAll
    <3>3. CASE k = j
      <4>1. Buffered(j)' = Buffered(j) \cup {accepted[j] + 1}
        BY EnqueueBuffers
      <4>2. mark'[c][j] = mark[c][j] /\ mark[c][j] <= accepted[j]
        BY DEF MarksBounded
      <4> QED BY <3>2, <3>3, <4>1, <4>2
    <3>4. CASE k # j
      BY <3>2, <3>4 DEF Batches, Buffered
    <3> QED BY <3>3, <3>4
  <2> QED BY <2>1, <2>2 DEF FlushTookAll
<1>2. ASSUME NEW d \in Callers, FlushCall(d) PROVE FlushInv'
  <2> USE <1>2 DEF FlushCall, Goto, data, ledger
  <2>1. MarksBounded'
    <3>1. mark' = [mark EXCEPT ![d] = accepted] /\ accepted' = accepted
      OBVIOUS
    <3>2. ASSUME NEW c \in Callers, NEW k \in Kinds
          PROVE  mark'[c][k] <= accepted'[k]
      <4> \A j \in Kinds : accepted[j] \in Int
        OBVIOUS
      <4> QED BY <3>1 DEF MarksBounded
    <3> QED BY <3>2 DEF MarksBounded
  <2>2. \A c \in Callers : op'[c] = "flush" /\ pc'[c] # "drain" =>
          op[c] = "flush" /\ pc[c] # "drain" /\ mark'[c] = mark[c]
    OBVIOUS
  <2>3. FlushTookAll'
    BY <2>2 DEF FlushTookAll, Buffered
  <2> QED BY <2>1, <2>3
<1>3. CASE (\E d \in Callers : DrainAll(d)) \/ TakeDue
  <2>1. /\ op' = op /\ mark' = mark /\ accepted' = accepted
        /\ \A c \in Callers : pc'[c] = pc[c] \/ pc[c] = "drain"
    BY <1>3 DEF DrainAll, TakeDue, Goto, ledger
  <2>2. \A k \in Kinds : buffers'[k] = buffers[k] \/ buffers'[k] = << >>
    BY <1>3 DEF DrainAll, TakeDue, Take, Left
  <2>3. CASE TakeDue
    <3>1. pc[Worker] = "take" /\ \A c \in Callers : pc'[c] = pc[c]
      BY <2>3 DEF TakeDue, Goto
    <3>2. \A k \in Kinds : Buffered(k)' \subseteq Buffered(k)
      BY <2>2, ToSetEmpty DEF Buffered
    <3> QED BY <2>1, <3>1, <3>2 DEF FlushTookAll, MarksBounded
  <2>4. CASE \E d \in Callers : DrainAll(d)
    <3> \A k \in Kinds : buffers'[k] = << >>
      BY <2>4 DEF DrainAll, Take, Left, DrainKinds
    <3> QED BY <2>1 DEF FlushTookAll, MarksBounded, Buffered, ToSet
  <2> QED BY <1>3, <2>3, <2>4
<1>4. ASSUME NEW d \in Callers, CallReturns(d) PROVE FlushInv'
  BY <1>4 DEF CallReturns, Goto, data, ledger, FlushTookAll, MarksBounded, Buffered
<1>5. ASSUME /\ buffers' = buffers /\ accepted' = accepted /\ mark' = mark
             /\ \A c \in Callers : op'[c] = "flush" /\ pc'[c] # "drain" =>
                                   op[c] = "flush" /\ pc[c] # "drain"
      PROVE  FlushInv'
  BY <1>5 DEF FlushTookAll, MarksBounded, Buffered
<1>6. ASSUME NEW p \in Procs, Signal(p) \/ SendStep(p) PROVE FlushInv'
  BY <1>5, <1>6 DEF Signal, SendStep, SendBegin, SendOk, SendFail,
                    CallbackReturn, Goto, data, ledger
<1>7. ASSUME NEW c \in Callers,
             CloseCall(c) \/ CloseWake(c) \/ JoinReturns(c)
      PROVE  FlushInv'
  BY <1>5, <1>7 DEF CloseCall, CloseWake, JoinReturns, Goto, data,
                    thread, ledger
<1>8. CASE \/ CallbackClose \/ CallbackCloseFails \/ WaitReturns \/ Clear
           \/ ReadNow \/ WorkerSent \/ CheckClosed
  BY <1>5, <1>8 DEF CallbackClose, CallbackCloseFails, WaitReturns, Clear,
                    ReadNow, WorkerSent, CheckClosed, Goto, data, ledger
<1>9. CASE Tick \/ UNCHANGED vars
  BY <1>5, <1>9 DEF Tick, vars, data, thread, ledger
<1> QED
  BY <1>1, <1>2, <1>3, <1>4, <1>6, <1>7, <1>8, <1>9
  DEF Next, AppCall, WorkerStep, CallerStep

(* Once flush() took the buffers, all that was accepted before the call    *)
(* has left them.                                                          *)
THEOREM FlushTookAllHolds == Spec => []FlushTookAll
<1>1. Init => FlushInv
  BY DEF Init, FlushInv, FlushTookAll, MarksBounded
<1>2. FlushInv => FlushTookAll
  BY DEF FlushInv
<1> QED BY <1>1, <1>2, FlushNext, TypeCorrect, PTL DEF Spec

-----------------------------------------------------------------------------
(* Nothing is stranded, provided on_error does not call close() *)

LEMMA StrandedNext ==
  ~CallbackMayClose /\ TypeOK /\ NothingStranded /\ [Next]_vars => NothingStranded'
<1> SUFFICES ASSUME ~CallbackMayClose, TypeOK, NothingStranded, [Next]_vars,
                    closed', ~Closing', NEW k \in Kinds
             PROVE  buffers'[k] = << >>
  BY DEF NothingStranded
<1> USE DEF TypeOK, ThreadOK
<1>1. CASE \E p \in Procs, j \in Kinds : Enqueue(p, j)
  BY <1>1 DEF Enqueue, Appended, Open
<1>2. ASSUME NEW c \in Callers, CloseCall(c) \/ CloseWake(c) \/ JoinReturns(c)
      PROVE  buffers'[k] = << >>
  <2>1. CASE CloseCall(c)
    BY <2>1 DEF CloseCall, Closes, Goto, Closing
  <2>2. CASE CloseWake(c) \/ JoinReturns(c)
    <3>1. /\ closed' = closed /\ buffers' = buffers /\ op' = op
          /\ \E place \in {"join", "drain"} : pc' = [pc EXCEPT ![c] = place]
      BY <2>2 DEF CloseWake, JoinReturns, Goto, data
    <3>2. Closing => Closing'
      BY <3>1 DEF Closing
    <3> QED BY <3>1, <3>2 DEF NothingStranded
  <2> QED BY <1>2, <2>1, <2>2
<1>3. CASE \E c \in Callers : DrainAll(c)
  BY <1>3 DEF DrainAll, Take, Left, DrainKinds
<1>4. CASE TakeDue
  <2> Closing' = Closing
    BY <1>4 DEF TakeDue, Goto, Closing
  <2> QED BY <1>4 DEF TakeDue, Take, Left, NothingStranded
<1>5. ASSUME /\ closed' = closed /\ buffers' = buffers
             /\ \A c \in Callers :
                  /\ op[c] = "close"
                  /\ pc[c] \in {"wakeWorker", "join", "drain"}
                  => op'[c] = op[c] /\ pc'[c] = pc[c]
      PROVE  buffers'[k] = << >>
  BY <1>5 DEF Closing, NothingStranded
<1>6. CASE \E p \in Procs : Signal(p) \/ SendStep(p)
  BY <1>5, <1>6 DEF Signal, SendStep, SendBegin, SendOk, SendFail,
                    CallbackReturn, Goto, data
<1>7. CASE \E c \in Callers : FlushCall(c) \/ CallReturns(c)
  BY <1>5, <1>7 DEF FlushCall, CallReturns, Goto, data, thread
<1>8. CASE \/ CallbackClose \/ CallbackCloseFails \/ WaitReturns \/ Clear
           \/ ReadNow \/ WorkerSent \/ CheckClosed
  BY <1>5, <1>8 DEF CallbackClose, CallbackCloseFails, WaitReturns, Clear,
                    ReadNow, WorkerSent, CheckClosed, Goto, data
<1>9. CASE Tick \/ UNCHANGED vars
  BY <1>5, <1>9 DEF Tick, vars, data, thread
<1> QED
  BY <1>1, <1>2, <1>3, <1>4, <1>6, <1>7, <1>8, <1>9
  DEF Next, AppCall, WorkerStep, CallerStep

(* After close() nothing stays behind in a buffer.                         *)
THEOREM NothingStrandedHolds == ~CallbackMayClose => (Spec => []NothingStranded)
<1> SUFFICES ASSUME ~CallbackMayClose PROVE Spec => []NothingStranded
  OBVIOUS
<1>1. Init => NothingStranded
  BY DEF Init, NothingStranded
<1>2. TypeOK /\ NothingStranded /\ [Next]_vars => NothingStranded'
  BY StrandedNext
<1> QED BY <1>1, <1>2, TypeCorrect, PTL DEF Spec

-----------------------------------------------------------------------------
(* Every entry is in exactly one place, and batches are consecutive.  That *)
(* no entry is in two places is kept apart from that each is in one: only  *)
(* the first survives an interrupt.                                        *)

Everywhere(k) == Buffered(k) \cup Settled(k) \cup Held(k)

Apart(k) ==
  /\ Everywhere(k) \subseteq 1 .. accepted[k]
  /\ Buffered(k) \cap Settled(k) = {}
  /\ delivered[k] \cap failed[k] = {}
  /\ \A p \in Procs :
       /\ InFlight(p, k) \cap (Buffered(k) \cup Settled(k)) = {}
       /\ \A q \in Procs \ {p} : InFlight(p, k) \cap InFlight(q, k) = {}

NoneGone(k) == 1 .. accepted[k] \subseteq Everywhere(k)

NoDoubles == \A k \in Kinds : Apart(k)

LEMMA AccountedIs == ASSUME NEW k PROVE Accounted(k) <=> Apart(k) /\ NoneGone(k)
BY DEF Accounted, Apart, NoneGone, Everywhere

(* A thread that is not between taking and sending holds no batch.         *)
HandsEmpty ==
  \A p \in Procs :
    pc[p] \in {"idle", "signal", "wakeWorker", "join", "drain", "wait",
              "clear", "readNow", "take", "check", "done"}
      => toSend[p] = Nothing

LedgerInv == NoDoubles /\ BatchesInOrder /\ HandsEmpty

(* What a step does to the accounts and to the order of the batches.       *)
KindKept(k) == Apart(k)' /\ (NoneGone(k) => NoneGone(k)')
AccountsKept == BatchesInOrder' /\ \A k \in Kinds : KindKept(k)

LEMMA ConsecutiveAppend ==
  ASSUME NEW s \in Seq(Nat), Consecutive(s), NEW n \in Nat,
         s # << >> => s[Len(s)] = n
  PROVE  Consecutive(Append(s, n + 1))
<1>1. ASSUME NEW i \in 1 .. Len(Append(s, n + 1))
      PROVE  Append(s, n + 1)[i] = Append(s, n + 1)[1] + (i - 1)
  <2>1. CASE i <= Len(s)
    BY <2>1 DEF Consecutive
  <2>2. CASE i = Len(s) + 1 /\ s # << >>
    <3>1. Append(s, n + 1)[i] = n + 1
      BY <2>2
    <3>2. Append(s, n + 1)[1] = s[1] /\ Len(s) \in 1 .. Len(s)
      BY <2>2
    <3>3. n = s[1] + (Len(s) - 1) /\ s[1] \in Nat
      BY <3>2, <2>2 DEF Consecutive
    <3> QED BY <2>2, <3>1, <3>2, <3>3
  <2>3. CASE s = << >>
    BY <2>3
  <2> QED BY <2>1, <2>2, <2>3
<1> QED BY <1>1 DEF Consecutive

LEMMA ConsecutiveInterval ==
  ASSUME NEW s \in Seq(Nat), s # << >>, Consecutive(s)
  PROVE  /\ s[1] \in Nat /\ s[Len(s)] \in Nat /\ s[1] <= s[Len(s)]
         /\ ToSet(s) = s[1] .. s[Len(s)]
<1>1. /\ Len(s) \in Nat /\ 1 <= Len(s) /\ DOMAIN s = 1 .. Len(s)
      /\ \A i \in 1 .. Len(s) : s[i] \in Nat
  OBVIOUS
<1>2. \A i \in 1 .. Len(s) : s[i] = s[1] + (i - 1)
  BY DEF Consecutive
<1>3. s[Len(s)] = s[1] + (Len(s) - 1)
  BY <1>1, <1>2
<1>4. ToSet(s) \subseteq s[1] .. s[Len(s)]
  BY <1>1, <1>2, <1>3 DEF ToSet
<1>5. ASSUME NEW n \in s[1] .. s[Len(s)] PROVE n \in ToSet(s)
  <2>1. n - s[1] + 1 \in 1 .. Len(s)
    BY <1>1, <1>3
  <2>2. s[n - s[1] + 1] = n
    BY <1>1, <1>2, <2>1
  <2> QED BY <1>1, <2>1, <2>2 DEF ToSet
<1>6. ToSet(s) = s[1] .. s[Len(s)]
  BY <1>4, <1>5
<1>7. s[1] \in Nat /\ s[Len(s)] \in Nat /\ s[1] <= s[Len(s)]
  BY <1>1, <1>3
<1> QED BY <1>6, <1>7

(* Taking batches moves entries from buffers into empty hands.             *)
LEMMA TakeMoves ==
  ASSUME TypeOK, LedgerInv, NEW p \in Procs, toSend[p] = Nothing,
         NEW K \in SUBSET Kinds, Take(p, K),
         UNCHANGED ledger
  PROVE  AccountsKept
<1> USE DEF TypeOK, DataOK, SendingOK, Batches
<1>1. \A k \in Kinds : toSend[p][k] = << >>
  BY DEF Nothing
<1>2. /\ \A q \in Procs \ {p} : toSend'[q] = toSend[q]
      /\ \A k \in K : toSend'[p][k] = buffers[k] /\ buffers'[k] = << >>
      /\ \A k \in Kinds \ K : toSend'[p][k] = << >> /\ buffers'[k] = buffers[k]
  BY DEF Take, Taken, Left
<1>3. BatchesInOrder'
  <2>0. UNCHANGED accepted
    BY DEF ledger
  <2>1. Consecutive(<< >>)
    BY DEF Consecutive
  <2> QED BY <1>2, <2>0, <2>1 DEF LedgerInv, BatchesInOrder
<1>4. ASSUME NEW k \in Kinds
      PROVE  /\ Settled(k)' = Settled(k) /\ accepted'[k] = accepted[k]
             /\ delivered'[k] = delivered[k] /\ failed'[k] = failed[k]
             /\ \A q \in Procs \ {p} : InFlight(q, k)' = InFlight(q, k)
             /\ InFlight(p, k) = {}
             /\ \/ Buffered(k)' = {} /\ InFlight(p, k)' = Buffered(k)
                \/ Buffered(k)' = Buffered(k) /\ InFlight(p, k)' = {}
  BY <1>1, <1>2, ToSetEmpty DEF Settled, InFlight, Buffered, ledger
<1>5. ASSUME NEW k \in Kinds PROVE KindKept(k)
  <2> USE <1>4
  <2>0. Apart(k)
    BY DEF LedgerInv, NoDoubles
  <2>1. Buffered(k)' \cup Held(k)' = Buffered(k) \cup Held(k)
    <3>1. ASSUME NEW e, e \in Held(k)' PROVE e \in Buffered(k) \cup Held(k)
      <4> PICK q \in Procs : e \in InFlight(q, k)'
        BY <3>1 DEF Held
      <4> QED BY DEF Held
    <3>2. ASSUME NEW e, e \in Held(k) PROVE e \in Held(k)'
      <4> PICK q \in Procs : e \in InFlight(q, k)
        BY <3>2 DEF Held
      <4> q # p
        OBVIOUS
      <4> QED BY DEF Held
    <3>3. InFlight(p, k)' \subseteq Held(k)'
      BY DEF Held
    <3>4. Buffered(k) = Buffered(k)' \cup InFlight(p, k)'
      OBVIOUS
    <3> QED BY <3>1, <3>2, <3>3, <3>4
  <2>2. Everywhere(k)' = Everywhere(k)
    BY <2>1 DEF Everywhere
  <2>3. ASSUME NEW q \in Procs
        PROVE  /\ (InFlight(q, k) \cap (Buffered(k) \cup Settled(k)))' = {}
               /\ \A r \in Procs \ {q} : (InFlight(q, k) \cap InFlight(r, k))' = {}
    <3>1. /\ InFlight(q, k) \cap (Buffered(k) \cup Settled(k)) = {}
          /\ \A r \in Procs \ {q} : InFlight(q, k) \cap InFlight(r, k) = {}
          /\ Buffered(k) \cap Settled(k) = {}
      BY <2>0 DEF Apart
    <3>2. ASSUME NEW r \in Procs \ {p} PROVE InFlight(r, k) \cap Buffered(k) = {}
      BY <2>0 DEF Apart
    <3>3. CASE q = p
      <4>1. (InFlight(q, k) \cap (Buffered(k) \cup Settled(k)))' = {}
        BY <3>1, <3>3
      <4>2. ASSUME NEW r \in Procs \ {q} PROVE (InFlight(q, k) \cap InFlight(r, k))' = {}
        <5>1. InFlight(r, k)' = InFlight(r, k) /\ InFlight(r, k) \cap Buffered(k) = {}
          BY <3>2, <3>3
        <5>2. InFlight(q, k)' \subseteq Buffered(k)
          BY <3>3
        <5> QED BY ONLY <5>1, <5>2
      <4> QED BY <4>1, <4>2
    <3>4. CASE q # p
      <4>1. InFlight(q, k)' = InFlight(q, k)
        BY <3>4
      <4>2. (InFlight(q, k) \cap (Buffered(k) \cup Settled(k)))' = {}
        <5>1. Settled(k)' = Settled(k) /\ Buffered(k)' \subseteq Buffered(k)
          OBVIOUS
        <5> QED BY ONLY <3>1, <4>1, <5>1
      <4>3. ASSUME NEW r \in Procs \ {q} PROVE (InFlight(q, k) \cap InFlight(r, k))' = {}
        <5>1. CASE r = p
          <6>1. InFlight(r, k)' \subseteq Buffered(k)
            BY <5>1
          <6> QED BY ONLY <3>1, <4>1, <6>1
        <5>2. CASE r # p
          BY <3>1, <4>1, <5>2
        <5> QED BY <5>1, <5>2
      <4> QED BY <4>2, <4>3
    <3> QED BY <3>3, <3>4
  <2>4. (Buffered(k) \cap Settled(k))' = {}
    BY <2>0 DEF Apart
  <2> QED BY <2>0, <2>2, <2>3, <2>4 DEF KindKept, Apart, NoneGone
<1> QED BY <1>3, <1>5 DEF AccountsKept

(* Settling a batch moves its entries from a hand into one of the ledgers. *)
LEMMA SettleMoves ==
  ASSUME TypeOK, LedgerInv, NEW p \in Procs, SendOk(p) \/ SendFail(p)
  PROVE  AccountsKept
<1> USE DEF TypeOK, SendingOK, HistoryOK, Batches
<1>1. cur[p] \in Kinds /\ UNCHANGED <<accepted, buffers>>
  BY DEF SendOk, SendFail, data
<1>2. /\ \A q \in Procs \ {p} : toSend'[q] = toSend[q]
      /\ \A k \in Kinds \ {cur[p]} : toSend'[p][k] = toSend[p][k]
      /\ toSend'[p][cur[p]] = << >>
  BY <1>1 DEF SendOk, SendFail, Forget
<1>3. BatchesInOrder'
  <2>1. Consecutive(<< >>)
    BY DEF Consecutive
  <2> QED BY <1>1, <1>2, <2>1 DEF LedgerInv, BatchesInOrder
<1>4. ASSUME NEW k \in Kinds, k # cur[p] PROVE KindKept(k)
  <2>1. /\ Buffered(k)' = Buffered(k) /\ accepted'[k] = accepted[k]
        /\ delivered'[k] = delivered[k] /\ failed'[k] = failed[k]
    BY <1>1, <1>4 DEF SendOk, SendFail, Buffered
  <2>2. \A q \in Procs : InFlight(q, k)' = InFlight(q, k)
    BY <1>2, <1>4 DEF InFlight
  <2>3. Apart(k)
    BY DEF LedgerInv, NoDoubles
  <2> QED BY <2>1, <2>2, <2>3 DEF KindKept, Apart, NoneGone, Everywhere, Held, Settled
<1>5. ASSUME NEW k \in Kinds, k = cur[p] PROVE KindKept(k)
  <2>1. Buffered(k)' = Buffered(k) /\ accepted'[k] = accepted[k]
    BY <1>1 DEF Buffered
  <2>2. InFlight(p, k)' = {}
    BY <1>2, <1>5, ToSetEmpty DEF InFlight
  <2>3. \A q \in Procs \ {p} : InFlight(q, k)' = InFlight(q, k)
    BY <1>2 DEF InFlight
  <2>4. \/ /\ delivered'[k] = delivered[k] \cup InFlight(p, k)
           /\ failed'[k] = failed[k]
        \/ /\ failed'[k] = failed[k] \cup InFlight(p, k)
           /\ delivered'[k] = delivered[k]
    BY <1>5 DEF SendOk, SendFail, InFlight
  <2>5. Settled(k)' = Settled(k) \cup InFlight(p, k)
    BY <2>4 DEF Settled
  <2>6. Apart(k)
    BY DEF LedgerInv, NoDoubles
  <2>7. Held(k) = Held(k)' \cup InFlight(p, k)
    <3>1. ASSUME NEW e, e \in Held(k) PROVE e \in Held(k)' \cup InFlight(p, k)
      <4> PICK q \in Procs : e \in InFlight(q, k)
        BY <3>1 DEF Held
      <4> QED BY <2>3 DEF Held
    <3>2. ASSUME NEW e, e \in Held(k)' PROVE e \in Held(k)
      <4> PICK q \in Procs : e \in InFlight(q, k)'
        BY <3>2 DEF Held
      <4> QED BY <2>2, <2>3 DEF Held
    <3>3. InFlight(p, k) \subseteq Held(k)
      BY DEF Held
    <3> QED BY <3>1, <3>2, <3>3
  <2>8. ASSUME NEW q \in Procs
        PROVE  /\ (InFlight(q, k) \cap (Buffered(k) \cup Settled(k)))' = {}
               /\ \A r \in Procs \ {q} : (InFlight(q, k) \cap InFlight(r, k))' = {}
    <3>1. CASE q = p
      BY <2>2, <3>1
    <3>2. CASE q # p
      <4>1. /\ InFlight(q, k) \cap (Buffered(k) \cup Settled(k)) = {}
            /\ \A r \in Procs \ {q} : InFlight(q, k) \cap InFlight(r, k) = {}
        BY <2>6 DEF Apart
      <4>2. InFlight(q, k)' = InFlight(q, k) /\ InFlight(q, k) \cap InFlight(p, k) = {}
        BY <2>3, <3>2, <4>1
      <4>3. (InFlight(q, k) \cap (Buffered(k) \cup Settled(k)))' = {}
        BY <2>1, <2>5, <4>1, <4>2
      <4>4. ASSUME NEW r \in Procs \ {q} PROVE (InFlight(q, k) \cap InFlight(r, k))' = {}
        BY <2>2, <2>3, <4>1, <4>2
      <4> QED BY <4>3, <4>4
    <3> QED BY <3>1, <3>2
  <2>9. /\ (Buffered(k) \cap Settled(k))' = {}
        /\ (delivered[k] \cap failed[k])' = {}
    BY <2>1, <2>4, <2>5, <2>6 DEF Apart, Settled
  <2>10. Everywhere(k)' = Everywhere(k)
    BY <2>1, <2>5, <2>7 DEF Everywhere
  <2> QED BY <2>1, <2>6, <2>8, <2>9, <2>10 DEF KindKept, Apart, NoneGone
<1> QED BY <1>3, <1>4, <1>5 DEF AccountsKept

(* A new entry goes to the end of its buffer.                              *)
LEMMA EnqueueAdds ==
  ASSUME TypeOK, LedgerInv, NEW p \in Procs, NEW j \in Kinds, Enqueue(p, j)
  PROVE  AccountsKept
<1>0. /\ toSend' = toSend /\ delivered' = delivered /\ failed' = failed
  BY DEF Enqueue, Appended, sending
<1>1. /\ accepted' = [accepted EXCEPT ![j] = accepted[j] + 1]
      /\ buffers' = [buffers EXCEPT ![j] = Append(buffers[j], accepted[j] + 1)]
      /\ Buffered(j)' = Buffered(j) \cup {accepted[j] + 1}
  BY EnqueueBuffers
<1>2. accepted \in [Kinds -> Nat] /\ buffers \in Batches
  BY DEF TypeOK, DataOK, HistoryOK
<1>3. \A k \in Kinds : /\ Settled(k)' = Settled(k) /\ Held(k)' = Held(k)
                      /\ \A q \in Procs : InFlight(q, k)' = InFlight(q, k)
  BY <1>0 DEF Settled, Held, InFlight
<1>4. ASSUME NEW k \in Kinds PROVE KindKept(k)
  <2>0. Apart(k)
    BY DEF LedgerInv, NoDoubles
  <2>1. CASE k # j
    <3>1. Buffered(k)' = Buffered(k) /\ accepted'[k] = accepted[k]
      BY <1>1, <1>2, <2>1 DEF Buffered, Batches
    <3> QED BY <1>0, <1>3, <2>0, <3>1 DEF KindKept, Apart, NoneGone, Everywhere
  <2>2. CASE k = j
    <3> DEFINE n == accepted[k] + 1
    <3>1. accepted'[k] = n /\ accepted[k] \in Nat
      BY <1>1, <1>2, <2>2
    <3>2. Buffered(k)' = Buffered(k) \cup {n}
      BY <1>1, <2>2
    <3>3. n \notin Everywhere(k) /\ 1 .. n = (1 .. accepted[k]) \cup {n}
      BY <2>0, <3>1 DEF Apart
    <3>4. \A q \in Procs : n \notin InFlight(q, k)
      BY <3>3 DEF Everywhere, Held
    <3> HIDE DEF n
    <3>5. Everywhere(k)' = Everywhere(k) \cup {n}
      BY <1>3, <3>2 DEF Everywhere
    <3>6. (Buffered(k) \cap Settled(k))' = {}
      BY <1>3, <2>0, <3>2, <3>3 DEF Apart, Everywhere
    <3>7. \A q \in Procs : (InFlight(q, k) \cap (Buffered(k) \cup Settled(k)))' = {}
      BY <1>3, <2>0, <3>2, <3>4 DEF Apart
    <3> QED BY <1>0, <1>3, <2>0, <3>1, <3>3, <3>5, <3>6, <3>7 DEF KindKept, Apart, NoneGone
  <2> QED BY <2>1, <2>2
<1>5. BatchesInOrder'
  <2>0. BatchesInOrder
    BY DEF LedgerInv
  <2>1. buffers[j] \in Seq(Nat) /\ accepted[j] \in Nat
    BY <1>2, SeqMonotonic DEF Batches
  <2>2. Consecutive(Append(buffers[j], accepted[j] + 1))
    BY <2>0, <2>1, ConsecutiveAppend DEF BatchesInOrder
  <2>3. Append(buffers[j], accepted[j] + 1)
          [Len(Append(buffers[j], accepted[j] + 1))] = accepted[j] + 1
    BY <2>1
  <2> QED BY <1>0, <1>1, <1>2, <2>0, <2>2, <2>3 DEF BatchesInOrder, Batches
<1> QED BY <1>4, <1>5 DEF AccountsKept

LEMMA LedgerInvNext ==
  ASSUME TypeOK, LedgerInv, [Next]_vars
  PROVE  LedgerInv' /\ \A k \in Kinds : NoneGone(k) => NoneGone(k)'
<1>1. HandsEmpty'
  <2> USE DEF TypeOK, ThreadOK, SendingOK, HandsEmpty, LedgerInv
  <2>1. ASSUME NEW p \in Procs, NEW k \in Kinds, Enqueue(p, k) PROVE HandsEmpty'
    BY <2>1 DEF Enqueue, Appended, Goto, sending
  <2>2. ASSUME NEW p \in Procs, Signal(p) PROVE HandsEmpty'
    BY <2>2 DEF Signal, Goto, sending
  <2>3. ASSUME NEW p \in Procs, SendStep(p) PROVE HandsEmpty'
    <3>1. /\ \A q \in Procs \ {p} : pc'[q] = pc[q] /\ toSend'[q] = toSend[q]
          /\ pc'[p] \in {"send", "post", "callback"}
      BY <2>3 DEF SendStep, SendBegin, SendOk, SendFail, CallbackReturn,
                  Forget, Goto, sending
    <3> QED BY <3>1
  <2>4. ASSUME NEW c \in Callers,
               \/ FlushCall(c) \/ CloseCall(c) \/ CloseWake(c)
               \/ JoinReturns(c) \/ CallReturns(c)
        PROVE  HandsEmpty'
    <3>1. toSend' = toSend /\ \A q \in Procs \ {c} : pc'[q] = pc[q]
      BY <2>4 DEF FlushCall, CloseCall, CloseWake, JoinReturns,
                  CallReturns, Goto, sending, thread
    <3>2. toSend[c] = Nothing
      BY <2>4 DEF FlushCall, CloseCall, CloseWake, JoinReturns,
                  CallReturns, AllSent
    <3> QED BY <3>1, <3>2
  <2>5. ASSUME NEW c \in Callers, DrainAll(c) PROVE HandsEmpty'
    BY <2>5 DEF DrainAll, Take, Goto
  <2>6. CASE TakeDue
    BY <2>6 DEF TakeDue, Take, Goto
  <2>7. CASE \/ CallbackClose \/ CallbackCloseFails \/ WaitReturns \/ Clear
             \/ ReadNow \/ CheckClosed \/ WorkerSent
    <3>1. toSend' = toSend /\ \A q \in Callers : pc'[q] = pc[q]
      BY <2>7 DEF CallbackClose, CallbackCloseFails, WaitReturns, Clear,
                  ReadNow, CheckClosed, WorkerSent, Goto, sending
    <3>2. \/ toSend[Worker] = Nothing
          \/ pc'[Worker] \in {"cbWake", "send"}
      BY <2>7 DEF CallbackClose, CallbackCloseFails, WaitReturns, Clear,
                  ReadNow, CheckClosed, WorkerSent, AllSent, Goto
    <3> QED BY <3>1, <3>2
  <2>8. CASE Tick \/ UNCHANGED vars
    BY <2>8 DEF Tick, vars, thread, sending
  <2> QED
    BY <2>1, <2>2, <2>3, <2>4, <2>5, <2>6, <2>7, <2>8
    DEF Next, AppCall, WorkerStep, CallerStep
<1>2. AccountsKept
  <2>1. CASE \E p \in Procs, j \in Kinds : Enqueue(p, j)
    BY <2>1, EnqueueAdds
  <2>2. ASSUME NEW c \in Callers, DrainAll(c)
        PROVE  AccountsKept
    <3>1. toSend[c] = Nothing /\ DrainKinds \in SUBSET Kinds
      BY <2>2 DEF DrainAll, DrainKinds, LedgerInv, HandsEmpty
    <3> QED BY <2>2, <3>1, TakeMoves DEF DrainAll
  <2>3. CASE TakeDue
    <3>1. toSend[Worker] = Nothing /\ DueKinds \in SUBSET Kinds
      BY <2>3 DEF TakeDue, DueKinds, LedgerInv, HandsEmpty
    <3> QED BY <2>3, <3>1, TakeMoves DEF TakeDue
  <2>4. CASE \E p \in Procs : SendOk(p) \/ SendFail(p)
    BY <2>4, SettleMoves
  <2>5. ASSUME UNCHANGED <<buffers, toSend, ledger>>
        PROVE  AccountsKept
    <3> USE <2>5 DEF ledger
    <3>1. ASSUME NEW k \in Kinds PROVE KindKept(k)
      <4>1. /\ Buffered(k)' = Buffered(k) /\ Settled(k)' = Settled(k)
            /\ Held(k)' = Held(k)
            /\ \A p \in Procs : InFlight(p, k)' = InFlight(p, k)
        BY DEF Buffered, Settled, Held, InFlight
      <4>2. Apart(k)
        BY DEF LedgerInv, NoDoubles
      <4> QED BY <4>1, <4>2 DEF KindKept, Apart, NoneGone, Everywhere
    <3>2. BatchesInOrder'
      BY DEF LedgerInv, BatchesInOrder
    <3> QED BY <3>1, <3>2 DEF AccountsKept
  <2>6. CASE \/ \E p \in Procs : \/ Signal(p) \/ CallbackReturn(p)
                                \/ \E k \in Kinds : SendBegin(p, k)
             \/ \E c \in Callers :
                   \/ FlushCall(c) \/ CloseCall(c)
                   \/ CloseWake(c) \/ JoinReturns(c) \/ CallReturns(c)
    BY <2>5, <2>6 DEF Signal, CallbackReturn, SendBegin, FlushCall, CloseCall,
         CloseWake, JoinReturns, CallReturns, data, sending
  <2>7. CASE \/ CallbackClose \/ CallbackCloseFails \/ WaitReturns \/ Clear
             \/ ReadNow \/ CheckClosed \/ WorkerSent \/ Tick \/ UNCHANGED vars
    BY <2>5, <2>7 DEF CallbackClose, CallbackCloseFails, WaitReturns, Clear,
         ReadNow, CheckClosed, WorkerSent, Tick, vars, data, sending
  <2> QED
    BY <2>1, <2>2, <2>3, <2>4, <2>6, <2>7
    DEF Next, AppCall, WorkerStep, CallerStep, SendStep
<1> QED BY <1>1, <1>2 DEF LedgerInv, NoDoubles, AccountsKept, KindKept

LEMMA LedgerInvInit == Init => LedgerInv
<1> SUFFICES ASSUME Init PROVE LedgerInv
  OBVIOUS
<1> USE DEF Init, Nothing
<1>1. \A k \in Kinds : /\ Buffered(k) = {} /\ Settled(k) = {} /\ Held(k) = {}
                      /\ \A p \in Procs : InFlight(p, k) = {}
  BY ToSetEmpty DEF Buffered, Settled, Held, InFlight
<1>2. NoDoubles
  BY <1>1 DEF NoDoubles, Apart, Everywhere
<1>3. Consecutive(<< >>)
  BY DEF Consecutive
<1>4. BatchesInOrder
  BY <1>3 DEF BatchesInOrder
<1>5. HandsEmpty
  BY DEF HandsEmpty
<1> QED BY <1>2, <1>4, <1>5 DEF LedgerInv

(* No entry is in two places or in two batches, and what a thread holds it *)
(* is about to send.                                                       *)
THEOREM LedgerInvHolds == Spec => []LedgerInv
BY LedgerInvInit, LedgerInvNext, TypeCorrect, PTL DEF Spec

(* No entry is lost or held twice.                                         *)
THEOREM EntriesAccountedHolds == Spec => []EntriesAccounted
<1> DEFINE AllThere == \A k \in Kinds : NoneGone(k)
<1>1. Init => AllThere
  BY DEF Init, NoneGone
<1>2. TypeOK /\ LedgerInv /\ AllThere /\ [Next]_vars => AllThere'
  BY LedgerInvNext
<1>3. LedgerInv /\ AllThere => EntriesAccounted
  BY AccountedIs DEF LedgerInv, NoDoubles, EntriesAccounted
<1> HIDE DEF AllThere
<1> QED BY <1>1, <1>2, <1>3, LedgerInvHolds, TypeCorrect, PTL DEF Spec

(* Buffers and batches keep the order of acceptance.                       *)
THEOREM BatchesInOrderHolds == Spec => []BatchesInOrder
<1>1. LedgerInv => BatchesInOrder
  BY DEF LedgerInv
<1> QED BY <1>1, LedgerInvHolds, PTL

-----------------------------------------------------------------------------
(* The batcher implements EntryLedger *)

(* Settling a batch is one step of the ledger, or none for an empty batch. *)
LEMMA SettleIsLedgerStep ==
  ASSUME TypeOK, LedgerInv, NEW p \in Procs, SendOk(p) \/ SendFail(p)
  PROVE  [Ledger!Next]_Ledger!vars
<1>1. PICK k \in Kinds : k = cur[p]
  BY DEF TypeOK, SendingOK, SendOk, SendFail
<1> DEFINE batch == toSend[p][k]
<1>2. batch \in Seq(Nat) /\ Consecutive(batch)
  <2>1. batch \in Seq(1 .. MaxEntries)
    BY DEF TypeOK, SendingOK, Batches
  <2> QED BY <2>1, SeqMonotonic DEF LedgerInv, BatchesInOrder
<1>3. /\ UNCHANGED <<accepted, closed>>
      /\ \/ delivered' = [delivered EXCEPT ![k] = @ \cup ToSet(batch)] /\ failed' = failed
         \/ failed' = [failed EXCEPT ![k] = @ \cup ToSet(batch)] /\ delivered' = delivered
  BY <1>1 DEF SendOk, SendFail
<1>4. CASE batch = << >>
  <2>1. ToSet(batch) = {}
    BY <1>4, ToSetEmpty
  <2>2. delivered \in [Kinds -> SUBSET (1 .. MaxEntries)]
    BY DEF TypeOK, HistoryOK
  <2>3. failed \in [Kinds -> SUBSET (1 .. MaxEntries)]
    BY DEF TypeOK, HistoryOK
  <2> HIDE DEF batch
  <2>4. delivered' = delivered /\ failed' = failed
    BY <1>3, <2>1, <2>2, <2>3
  <2> QED BY <1>3, <2>4 DEF Ledger!vars
<1>5. CASE batch # << >>
  <2> DEFINE lo == batch[1]
             hi == batch[Len(batch)]
  <2>1. lo \in Nat /\ hi \in Nat /\ lo <= hi /\ ToSet(batch) = lo .. hi
    BY <1>2, <1>5, ConsecutiveInterval
  <2>2. /\ lo .. hi \subseteq 1 .. accepted[k]
        /\ (lo .. hi) \cap Settled(k) = {}
    <3>1. Apart(k)
      BY DEF LedgerInv, NoDoubles
    <3>2. InFlight(p, k) = lo .. hi
      BY <2>1 DEF InFlight
    <3>3. InFlight(p, k) \subseteq Held(k)
      BY DEF Held
    <3> QED BY <3>1, <3>2, <3>3 DEF Apart, Everywhere
  <2>3. accepted[k] \in Nat /\ lo \in 1 .. accepted[k] /\ hi \in 1 .. accepted[k]
    BY <2>1, <2>2 DEF TypeOK, HistoryOK
  <2>4. Ledger!IsOpenBatch(k, lo, hi)
    BY <2>1, <2>2, <2>3 DEF Ledger!IsOpenBatch, Ledger!Settled, Settled
  <2>5. Ledger!Deliver(k, lo, hi) \/ Ledger!Fail(k, lo, hi)
    BY <1>3, <2>1, <2>4 DEF Ledger!Deliver, Ledger!Fail
  <2> QED BY <2>3, <2>5 DEF Ledger!Next
<1> QED BY <1>4, <1>5

LEMMA StepIsLedgerStep ==
  TypeOK /\ LedgerInv /\ [Next]_vars => [Ledger!Next]_Ledger!vars
<1> SUFFICES ASSUME TypeOK, LedgerInv, [Next]_vars
             PROVE  [Ledger!Next]_Ledger!vars
  OBVIOUS
<1>1. ASSUME NEW p \in Procs, NEW k \in Kinds, Enqueue(p, k)
      PROVE  [Ledger!Next]_Ledger!vars
  <2> Ledger!Accept(k)
    BY <1>1 DEF Enqueue, Appended, Open, Ledger!Accept
  <2> QED BY DEF Ledger!Next
<1>2. CASE CallbackClose \/ \E c \in Callers : CloseCall(c)
  BY <1>2 DEF CallbackClose, CloseCall, Closes, ledger, Ledger!Close, Ledger!Next
<1>3. CASE \E p \in Procs : SendOk(p) \/ SendFail(p)
  BY <1>3, SettleIsLedgerStep
<1>4. ASSUME UNCHANGED <<ledger, closed>> PROVE [Ledger!Next]_Ledger!vars
  BY <1>4 DEF ledger, Ledger!vars
<1>5. CASE \/ \E p \in Procs : \/ Signal(p) \/ CallbackReturn(p)
                              \/ \E k \in Kinds : SendBegin(p, k)
           \/ \E c \in Callers :
                 \/ FlushCall(c) \/ CloseWake(c)
                 \/ JoinReturns(c) \/ DrainAll(c) \/ CallReturns(c)
  BY <1>4, <1>5 DEF Signal, CallbackReturn, SendBegin, FlushCall,
       CloseWake, JoinReturns, DrainAll, CallReturns
<1>6. CASE \/ CallbackCloseFails \/ WaitReturns \/ Clear \/ ReadNow \/ TakeDue
           \/ CheckClosed \/ WorkerSent \/ Tick \/ UNCHANGED vars
  BY <1>4, <1>6 DEF CallbackCloseFails, WaitReturns, Clear, ReadNow, TakeDue,
       CheckClosed, WorkerSent, Tick, vars
<1> QED
  BY <1>1, <1>2, <1>3, <1>5, <1>6
  DEF Next, AppCall, WorkerStep, CallerStep, SendStep

(* Every behaviour of the batcher is one of the ledger: what enqueue()     *)
(* takes is delivered or reported failed at most once, in whole batches of *)
(* consecutive entries, and nothing is taken after close().                *)
THEOREM Implements == Spec => ImplementsLedger
<1>1. Init => Ledger!Init
  BY DEF Init, Ledger!Init
<1> QED
  BY <1>1, StepIsLedgerStep, TypeCorrect, LedgerInvHolds, PTL
  DEF Spec, ImplementsLedger, Ledger!Spec

-----------------------------------------------------------------------------
(* The same when the user interrupts the main thread                       *)

LEMMA InterruptKeepsTypes == ASSUME TypeOK, Interrupt PROVE TypeOK'
<1> USE InterruptsAssumption DEF InterruptsAssumption, TypeOK
<1>1. UNCHANGED <<data, wake, closed, aged, ledger>>
  BY DEF Interrupt
<1>2. DataOK'
  BY <1>1 DEF DataOK, data
<1>3. ThreadOK'
  <2>1. pc' = [pc EXCEPT ![Main] = "idle"] /\ op' = [op EXCEPT ![Main] = "none"]
        /\ timer' = [timer EXCEPT ![Main] = 0] /\ Main # Worker
    BY DEF Interrupt, Goto
  <2> QED BY <1>1, <2>1 DEF ThreadOK, CallerPC, WorkerPC
<1>4. SendingOK'
  <2>1. Nothing \in Batches
    BY EmptySeq DEF Batches, Nothing
  <2> QED BY <2>1 DEF Interrupt, Goto, SendingOK, ThreadOK
<1>5. HistoryOK'
  <2>1. [k \in Kinds |-> 0] \in [Kinds -> 0 .. MaxEntries]
    OBVIOUS
  <2> QED BY <1>1, <2>1 DEF Interrupt, HistoryOK, ledger
<1>6. ClosingOK'
  <2>1. /\ op'[Main] = "none" /\ pc'[Worker] = pc[Worker]
        /\ \A c \in Callers \ {Main} : op'[c] = op[c]
    BY DEF Interrupt, Goto, ThreadOK
  <2> QED BY <1>1, <2>1 DEF ClosingOK, InClose
<1> QED BY <1>1, <1>2, <1>3, <1>4, <1>5, <1>6

(* What the thread held is gone; everything else stays where it is.        *)
LEMMA InterruptKeepsLedger == ASSUME TypeOK, LedgerInv, Interrupt PROVE LedgerInv'
<1> USE InterruptsAssumption DEF InterruptsAssumption, TypeOK, SendingOK, ThreadOK
<1>1. /\ toSend'[Main] = Nothing /\ \A p \in Procs \ {Main} : toSend'[p] = toSend[p]
      /\ \A p \in Procs \ {Main} : pc'[p] = pc[p]
      /\ UNCHANGED <<buffers, ledger>>
  BY DEF Interrupt, Goto, data
<1>2. ASSUME NEW k \in Kinds PROVE Apart(k)'
  <2>1. Apart(k)
    BY DEF LedgerInv, NoDoubles
  <2>2. InFlight(Main, k)' = {} /\ \A p \in Procs \ {Main} : InFlight(p, k)' = InFlight(p, k)
    BY <1>1, ToSetEmpty DEF InFlight, Nothing
  <2>3. Buffered(k)' = Buffered(k) /\ Settled(k)' = Settled(k)
    BY <1>1 DEF Buffered, Settled, ledger
  <2>4. Held(k)' \subseteq Held(k)
    <3>1. ASSUME NEW e, e \in Held(k)' PROVE e \in Held(k)
      <4>1. PICK p \in Procs : e \in InFlight(p, k)'
        BY <3>1 DEF Held
      <4> QED BY <2>2, <4>1 DEF Held
    <3> QED BY <3>1
  <2> QED BY <1>1, <2>1, <2>2, <2>3, <2>4 DEF Apart, Everywhere, ledger
<1>3. BatchesInOrder'
  <2>1. Consecutive(<< >>)
    BY DEF Consecutive
  <2> QED BY <1>1, <2>1 DEF LedgerInv, BatchesInOrder, Nothing, ledger
<1>4. HandsEmpty'
  BY <1>1 DEF LedgerInv, HandsEmpty
<1> QED BY <1>2, <1>3, <1>4 DEF LedgerInv, NoDoubles

(* A batcher whose main thread may be interrupted in any call still never  *)
(* delivers or reports an entry twice or out of its batch, and takes none  *)
(* after close().                                                          *)
THEOREM InterruptsImplement == Init /\ [][InterruptNext]_vars => ImplementsLedger
<1> DEFINE Inv == TypeOK /\ LedgerInv
<1>1. Init => Inv /\ Ledger!Init
  BY TypeInit, LedgerInvInit DEF Init, Ledger!Init
<1>2. Inv /\ [InterruptNext]_vars => Inv' /\ [Ledger!Next]_Ledger!vars
  <2> SUFFICES ASSUME Inv, [InterruptNext]_vars
               PROVE  Inv' /\ [Ledger!Next]_Ledger!vars
    OBVIOUS
  <2>1. CASE [Next]_vars
    BY <2>1, TypeNext, LedgerInvNext, StepIsLedgerStep
  <2>2. CASE Interrupt
    <3>1. UNCHANGED Ledger!vars
      BY <2>2 DEF Interrupt, ledger, Ledger!vars
    <3> QED BY <2>2, <3>1, InterruptKeepsTypes, InterruptKeepsLedger
  <2> QED BY <2>1, <2>2 DEF InterruptNext
<1> HIDE DEF Inv
<1> QED BY <1>1, <1>2, PTL DEF ImplementsLedger, Ledger!Spec

-----------------------------------------------------------------------------
(* How long an entry waits: the batcher with a clock (SyncBatcherTimed)    *)

(* The clock only restricts the batcher: its theorems hold here, too.      *)
LEMMA TimedIsBatcher == TimedSpec => Spec
<1>1. TimedInit => Init
  BY DEF TimedInit
<1>2. [TimedNext]_timedVars => [Next]_vars
  BY DEF TimedNext, TimedTick, timedVars, Next
<1> QED BY <1>1, <1>2, PTL DEF TimedSpec, Spec

AgesKnown ==
  /\ entryAge \in [Kinds -> [1 .. MaxEntries -> Nat]]
  /\ \A k \in Kinds, n \in 1 .. MaxEntries : n > accepted[k] => entryAge[k][n] = 0

(* No entry of a buffer is older than the timestamp of the buffer says.    *)
OldestIsOldest ==
  \A k \in Kinds : \A n \in Buffered(k) :
    entryAge[k][n] <= oldest[k] \/ oldest[k] >= FlushInterval

(* The rounds of the worker in which it has looked at the buffers.         *)
Looked == {"send", "post", "callback", "cbSignal", "cbWake", "check", "done"}

(* The worker takes what is past flush_interval in the very round in which *)
(* it reads the clock, and begins a wait with younger entries only: when   *)
(* the wait is over none has waited longer than the interval and the wait. *)
LooksInTime ==
  /\ pc[Worker] = "wait" =>
       /\ timer[Worker] <= WaitTimeout
       /\ \A k \in Kinds : \A n \in Buffered(k) :
            entryAge[k][n] + timer[Worker] < FlushInterval + WaitTimeout
  /\ pc[Worker] = "take" => \A k \in Kinds : oldest[k] >= FlushInterval => k \in aged
  /\ pc[Worker] \in Looked => \A k \in Kinds : oldest[k] < FlushInterval
  /\ pc[Worker] = "done" => closed

WaitInv == AgesKnown /\ OldestIsOldest /\ LooksInTime /\ WaitBounded

(* What the theorems above give.                                           *)
BatcherInv == TypeOK /\ OldestTracksBuffer /\ EntriesAccounted /\ NothingStranded

Untimed == AppCall \/ WorkerStep \/ \E c \in Callers : CallerStep(c)

LEMMA WaitTimeoutIsHalf == WaitTimeout \in Nat /\ 2 * WaitTimeout <= FlushInterval
BY TimedAssumption DEF TimedAssumption, WaitTimeout, AtLeast

(* Between two ticks a buffer keeps its timestamp as long as it keeps an   *)
(* entry, and gets at most a new timestamp.                                *)
LEMMA BufferedStep ==
  ASSUME TypeOK, OldestTracksBuffer, Untimed, NEW k \in Kinds
  PROVE  /\ \A n \in Buffered(k)' :
              \/ n \in Buffered(k) /\ oldest'[k] = oldest[k]
              \/ n = accepted[k] + 1 /\ oldest'[k] >= 0
         /\ oldest'[k] \in {oldest[k], 0, Unset}
         /\ accepted'[k] >= accepted[k]
<1> DEFINE Kept == /\ \A n \in Buffered(k)' :
                        \/ n \in Buffered(k) /\ oldest'[k] = oldest[k]
                        \/ n = accepted[k] + 1 /\ oldest'[k] >= 0
                   /\ oldest'[k] \in {oldest[k], 0, Unset}
                   /\ accepted'[k] >= accepted[k]
<1>0. /\ buffers \in [Kinds -> Seq(1 .. MaxEntries)]
      /\ oldest \in [Kinds -> {Unset} \cup 0 .. MaxAge]
      /\ accepted \in [Kinds -> 0 .. MaxEntries]
  BY DEF TypeOK, DataOK, HistoryOK, Batches
<1>1. ASSUME NEW p \in Procs, NEW j \in Kinds, Enqueue(p, j) PROVE Kept
  <2>1. /\ accepted' = [accepted EXCEPT ![j] = accepted[j] + 1]
        /\ buffers' = [buffers EXCEPT ![j] = Append(buffers[j], accepted[j] + 1)]
        /\ Buffered(j)' = Buffered(j) \cup {accepted[j] + 1}
        /\ oldest' = [oldest EXCEPT ![j] = OldestAfterAppend(j)]
    BY <1>1, EnqueueBuffers DEF Enqueue
  <2>2. CASE k = j
    <3>1. oldest'[k] = OldestAfterAppend(k)
      BY <1>0, <2>1, <2>2
    <3>2. oldest'[k] >= 0 /\ oldest'[k] \in {oldest[k], 0}
      BY <1>0, <3>1 DEF OldestAfterAppend
    <3>3. ASSUME NEW n \in Buffered(k) PROVE oldest'[k] = oldest[k]
      <4>1. buffers[k] # << >>
        BY <3>3, ToSetEmpty DEF Buffered
      <4> QED BY <3>1, <4>1 DEF OldestTracksBuffer, OldestAfterAppend
    <3> QED BY <1>0, <2>1, <2>2, <3>2, <3>3
  <2>3. CASE k # j
    <3>1. Buffered(k)' = Buffered(k) /\ oldest'[k] = oldest[k] /\ accepted'[k] = accepted[k]
      BY <1>0, <2>1, <2>3 DEF Buffered
    <3> QED BY <1>0, <3>1
  <2> QED BY <2>2, <2>3
<1>2. CASE TakeDue \/ \E c \in Callers : DrainAll(c)
  <2>1. PICK p \in Procs, K \in SUBSET Kinds : Take(p, K)
    BY <1>2 DEF TakeDue, DrainAll, DueKinds, DrainKinds
  <2>2. accepted' = accepted
    BY <1>2 DEF TakeDue, DrainAll, ledger
  <2>3. CASE k \in K
    <3>1. buffers'[k] = << >> /\ oldest'[k] = Unset
      BY <2>1, <2>3 DEF Take, Left, OldestLeft
    <3>2. Buffered(k)' = {}
      BY <3>1, ToSetEmpty DEF Buffered
    <3> QED BY <1>0, <2>2, <3>1, <3>2
  <2>4. CASE k \notin K
    <3>1. buffers'[k] = buffers[k] /\ oldest'[k] = oldest[k]
      BY <2>1, <2>4 DEF Take, Left, OldestLeft
    <3> QED BY <1>0, <2>2, <3>1 DEF Buffered
  <2> QED BY <2>3, <2>4
<1>3. ASSUME UNCHANGED <<buffers, oldest, accepted>> PROVE Kept
  BY <1>0, <1>3 DEF Buffered
<1>4. CASE \E p \in Procs : Signal(p) \/ SendStep(p)
  BY <1>3, <1>4 DEF Signal, SendStep, SendBegin, SendOk, SendFail, CallbackReturn, data, ledger
<1>5. CASE \E c \in Callers : \/ FlushCall(c) \/ CloseCall(c) \/ CloseWake(c)
                             \/ JoinReturns(c) \/ CallReturns(c)
  BY <1>3, <1>5 DEF FlushCall, CloseCall, CloseWake, JoinReturns, CallReturns, data, ledger
<1>6. CASE \/ CallbackClose \/ CallbackCloseFails \/ WaitReturns \/ Clear
           \/ ReadNow \/ WorkerSent \/ CheckClosed
  BY <1>3, <1>6 DEF CallbackClose, CallbackCloseFails, WaitReturns, Clear,
                    ReadNow, WorkerSent, CheckClosed, data, ledger
<1> QED
  BY <1>1, <1>2, <1>4, <1>5, <1>6 DEF Untimed, AppCall, WorkerStep, CallerStep

(* Between two ticks the ages stand still.                                 *)
LEMMA AgesStand ==
  ASSUME BatcherInv, WaitInv, Untimed, UNCHANGED entryAge
  PROVE  AgesKnown' /\ OldestIsOldest' /\ WaitBounded'
<1>0. TypeOK /\ OldestTracksBuffer /\ accepted \in [Kinds -> 0 .. MaxEntries]
  BY DEF BatcherInv, TypeOK, HistoryOK
<1>1. AgesKnown'
  <2> SUFFICES ASSUME NEW k \in Kinds, NEW n \in 1 .. MaxEntries, n > accepted'[k]
               PROVE  entryAge[k][n] = 0
    BY DEF WaitInv, AgesKnown
  <2>1. accepted'[k] >= accepted[k] /\ accepted'[k] \in Int
    BY <1>0, BufferedStep, TypeNext DEF Untimed, Next, TypeOK, HistoryOK
  <2> QED BY <1>0, <2>1 DEF WaitInv, AgesKnown
<1>2. OldestIsOldest'
  <2> SUFFICES ASSUME NEW k \in Kinds, NEW n \in Buffered(k)'
               PROVE  entryAge[k][n] <= oldest'[k] \/ oldest'[k] >= FlushInterval
    BY DEF OldestIsOldest
  <2>1. CASE n \in Buffered(k) /\ oldest'[k] = oldest[k]
    BY <2>1 DEF WaitInv, OldestIsOldest
  <2>2. CASE n = accepted[k] + 1 /\ oldest'[k] >= 0
    <3>1. n \in 1 .. MaxEntries
      <4>1. buffers' \in Batches
        BY <1>0, TypeNext DEF Untimed, Next, TypeOK, DataOK
      <4> QED BY <4>1 DEF Batches, Buffered, ToSet
    <3>2. entryAge[k][n] = 0
      BY <1>0, <2>2, <3>1 DEF WaitInv, AgesKnown
    <3> QED BY <2>2, <3>2
  <2> QED BY <1>0, <2>1, <2>2, BufferedStep
<1>3. WaitBounded'
  BY DEF WaitInv, WaitBounded
<1> QED BY <1>1, <1>2, <1>3

(* What is left of a wait bounds what an entry may still wait.             *)
LEMMA StepInWait ==
  ASSUME BatcherInv, WaitInv, Untimed, UNCHANGED entryAge,
         pc[Worker] = "wait", timer'[Worker] = timer[Worker]
  PROVE  \A k \in Kinds : \A n \in Buffered(k)' :
           entryAge[k][n] + timer[Worker] < FlushInterval + WaitTimeout
<1> SUFFICES ASSUME NEW k \in Kinds, NEW n \in Buffered(k)'
             PROVE  entryAge[k][n] + timer[Worker] < FlushInterval + WaitTimeout
  OBVIOUS
<1>0. /\ TypeOK /\ OldestTracksBuffer
      /\ accepted \in [Kinds -> 0 .. MaxEntries] /\ timer[Worker] \in Nat
  BY DEF BatcherInv, TypeOK, HistoryOK, ThreadOK
<1>1. CASE n \in Buffered(k)
  BY <1>1 DEF WaitInv, LooksInTime
<1>2. CASE n = accepted[k] + 1
  <2>1. n \in 1 .. MaxEntries
    <3>1. buffers' \in Batches
      BY <1>0, TypeNext DEF Untimed, Next, TypeOK, DataOK
    <3> QED BY <3>1 DEF Batches, Buffered, ToSet
  <2>2. entryAge[k][n] = 0
    BY <1>0, <1>2, <2>1 DEF WaitInv, AgesKnown
  <2> QED BY <1>0, <2>2, WaitTimeoutIsHalf DEF WaitInv, LooksInTime
<1> QED BY <1>0, <1>1, <1>2, BufferedStep

(* A step that leaves the worker where it is, and its timer and `aged'     *)
(* alone, unless it empties all buffers.                                   *)
LEMMA WorkerStays ==
  ASSUME BatcherInv, WaitInv, Untimed, UNCHANGED entryAge,
         pc'[Worker] = pc[Worker] \/ {pc[Worker], pc'[Worker]} \subseteq Looked \ {"done"},
         timer'[Worker] = timer[Worker], closed => closed',
         aged' = aged \/ \A k \in Kinds : buffers'[k] = << >>
  PROVE  LooksInTime'
<1>0. /\ TypeOK /\ OldestTracksBuffer /\ oldest \in [Kinds -> {Unset} \cup 0 .. MaxAge]
      /\ TypeOK' /\ OldestTracksBuffer'
  BY TypeNext, OldestNext DEF BatcherInv, TypeOK, DataOK, Untimed, Next
<1>1. \A k \in Kinds : oldest'[k] \in {oldest[k], 0, Unset}
  BY <1>0, BufferedStep
<1>2. pc'[Worker] = "wait" => pc[Worker] = "wait"
  BY DEF Looked
<1>3. pc'[Worker] = "wait" =>
        /\ timer'[Worker] <= WaitTimeout
        /\ \A k \in Kinds : \A n \in Buffered(k)' :
             entryAge'[k][n] + timer'[Worker] < FlushInterval + WaitTimeout
  BY <1>2, StepInWait DEF WaitInv, LooksInTime
<1>4. pc'[Worker] = "take" => \A k \in Kinds : oldest'[k] >= FlushInterval => k \in aged'
  <2> SUFFICES ASSUME pc'[Worker] = "take", NEW k \in Kinds, oldest'[k] >= FlushInterval
               PROVE  k \in aged'
    OBVIOUS
  <2>1. pc[Worker] = "take" /\ oldest'[k] = oldest[k] /\ oldest'[k] # Unset
    BY <1>0, <1>1 DEF Looked
  <2>2. buffers'[k] # << >>
    BY <1>0, <2>1 DEF OldestTracksBuffer
  <2> QED BY <2>1, <2>2 DEF WaitInv, LooksInTime
<1>5. pc'[Worker] \in Looked => \A k \in Kinds : oldest'[k] < FlushInterval
  <2> SUFFICES ASSUME pc'[Worker] \in Looked, NEW k \in Kinds
               PROVE  oldest'[k] < FlushInterval
    OBVIOUS
  <2>1. pc[Worker] \in Looked
    OBVIOUS
  <2> QED BY <1>1, <2>1 DEF WaitInv, LooksInTime
<1>6. pc'[Worker] = "done" => closed'
  BY DEF WaitInv, LooksInTime, Looked
<1> QED BY <1>3, <1>4, <1>5, <1>6 DEF LooksInTime

(* The worker looks at the buffers in time.                                *)
LEMMA LooksInTimeStep ==
  ASSUME BatcherInv, WaitInv, Untimed, UNCHANGED entryAge
  PROVE  LooksInTime'
<1>0. /\ TypeOK /\ OldestTracksBuffer
      /\ buffers \in [Kinds -> Seq(1 .. MaxEntries)]
      /\ oldest \in [Kinds -> {Unset} \cup 0 .. MaxAge]
      /\ pc \in [Procs -> CallerPC \cup WorkerPC] /\ pc[Worker] \in WorkerPC
      /\ timer \in [Procs -> Nat] /\ aged \in SUBSET Kinds
      /\ \A c \in Callers : c # Worker /\ pc[c] \in CallerPC
  BY DEF BatcherInv, TypeOK, DataOK, ThreadOK, Batches
<1>1. ASSUME NEW c \in Callers,
             \/ \E k \in Kinds : Enqueue(c, k)
             \/ FlushCall(c) \/ CloseCall(c) \/ CallerStep(c)
      PROVE  LooksInTime'
  <2>1. pc'[Worker] = pc[Worker] /\ timer'[Worker] = timer[Worker] /\ (closed => closed')
    BY <1>0, <1>1 DEF Enqueue, FlushCall, CloseCall, Closes, CallerStep, Signal, CloseWake, JoinReturns,
             DrainAll, SendStep, SendBegin, SendOk, SendFail, CallbackReturn, CallReturns,
             Goto, thread
  <2>2. aged' = aged \/ \A k \in Kinds : buffers'[k] = << >>
    BY <1>1 DEF Enqueue, FlushCall, CloseCall, Closes, CallerStep, Signal, CloseWake, JoinReturns,
             DrainAll, Take, Left, DrainKinds,
             SendStep, SendBegin, SendOk, SendFail, CallbackReturn, CallReturns
  <2> QED BY <2>1, <2>2, WorkerStays
<1>2. CASE \/ \E k \in Kinds : Enqueue(Worker, k)
           \/ CallbackClose \/ SendStep(Worker) \/ Signal(Worker) \/ CallbackCloseFails
           \/ WorkerSent
  <2>1. {pc[Worker], pc'[Worker]} \subseteq Looked \ {"done"}
    BY <1>0, <1>2 DEF Enqueue, CallbackClose, Closes, SendStep, SendBegin, SendOk, SendFail,
             CallbackReturn, Signal, CallbackCloseFails, WorkerSent, Goto, Looked, WorkerPC
  <2>2. timer'[Worker] = timer[Worker] /\ (closed => closed') /\ aged' = aged
    BY <1>0, <1>2 DEF Enqueue, CallbackClose, Closes, SendStep, SendBegin, SendOk, SendFail,
             CallbackReturn, Signal, CallbackCloseFails, WorkerSent
  <2> QED BY <2>1, <2>2, WorkerStays
<1>3. CASE WaitReturns \/ Clear
  <2>1. pc'[Worker] \in {"clear", "readNow"}
    BY <1>0, <1>3 DEF WaitReturns, Clear, Goto
  <2> QED BY <2>1 DEF LooksInTime, Looked
<1>4. CASE ReadNow
  <2>1. /\ pc'[Worker] = "take" /\ oldest' = oldest
        /\ aged' = {k \in Kinds : oldest[k] >= FlushInterval}
    BY <1>0, <1>4 DEF ReadNow, Goto, data
  <2> QED BY <2>1 DEF LooksInTime, Looked
<1>5. CASE TakeDue
  <2>1. pc[Worker] = "take" /\ pc'[Worker] = "send" /\ oldest' = OldestLeft(DueKinds)
    BY <1>0, <1>5 DEF TakeDue, Take, Goto
  <2>2. ASSUME NEW k \in Kinds PROVE oldest'[k] < FlushInterval
    <3>1. CASE oldest[k] >= FlushInterval
      <4>1. k \in aged /\ buffers[k] # << >>
        BY <1>0, <2>1, <3>1 DEF WaitInv, LooksInTime, OldestTracksBuffer
      <4>2. oldest'[k] = Unset
        BY <2>1, <4>1 DEF DueKinds, OldestLeft
      <4> QED BY <4>2
    <3>2. CASE ~ (oldest[k] >= FlushInterval)
      <4>1. oldest[k] \in Int /\ oldest'[k] \in {oldest[k], Unset}
        BY <1>0, <2>1 DEF OldestLeft
      <4> QED BY <3>2, <4>1
    <3> QED BY <3>1, <3>2
  <2> QED BY <2>1, <2>2 DEF LooksInTime
<1>6. CASE CheckClosed
  <2>1. pc[Worker] = "check" /\ UNCHANGED <<buffers, oldest, closed>>
    BY <1>6 DEF CheckClosed, data
  <2>2. \A k \in Kinds : oldest[k] < FlushInterval
    BY <2>1 DEF WaitInv, LooksInTime, Looked
  <2>3. CASE closed
    <3>1. pc'[Worker] = "done"
      BY <1>0, <1>6, <2>3 DEF CheckClosed, Goto
    <3> QED BY <2>1, <2>2, <2>3, <3>1 DEF LooksInTime
  <2>4. CASE ~closed
    <3>1. pc'[Worker] = "wait" /\ timer'[Worker] = WaitTimeout
      BY <1>0, <1>6, <2>4 DEF CheckClosed, Goto
    <3>2. ASSUME NEW k \in Kinds, NEW n \in Buffered(k)
          PROVE  entryAge[k][n] + WaitTimeout < FlushInterval + WaitTimeout
      <4>1. n \in 1 .. MaxEntries
        BY <1>0 DEF Buffered, ToSet
      <4>2. entryAge[k][n] \in Nat /\ oldest[k] \in Int
        BY <1>0, <4>1 DEF WaitInv, AgesKnown
      <4>3. entryAge[k][n] <= oldest[k]
        BY <1>0, <2>2, <4>2 DEF WaitInv, OldestIsOldest
      <4> QED BY <2>2, <4>2, <4>3, WaitTimeoutIsHalf
    <3>3. \A k \in Kinds : Buffered(k)' = Buffered(k)
      BY <2>1 DEF Buffered
    <3> QED BY <2>1, <3>1, <3>2, <3>3, WaitTimeoutIsHalf DEF LooksInTime, Looked, Buffered
  <2> QED BY <2>3, <2>4
<1> QED
  BY <1>1, <1>2, <1>3, <1>4, <1>5, <1>6 DEF Untimed, AppCall, WorkerStep

(* A tick passes only while the worker waits, or when it is gone and there *)
(* is nothing left to wait for.                                            *)
LEMMA TickInTime ==
  ASSUME BatcherInv, WaitInv, TimedTick
  PROVE  WaitInv'
<1>0. /\ buffers \in [Kinds -> Seq(1 .. MaxEntries)]
      /\ oldest \in [Kinds -> {Unset} \cup 0 .. MaxAge]
      /\ accepted \in [Kinds -> 0 .. MaxEntries]
      /\ pc[Worker] \in WorkerPC /\ timer \in [Procs -> Nat]
      /\ entryAge \in [Kinds -> [1 .. MaxEntries -> Nat]]
      /\ MaxEntryAge \in Nat
  BY TimedAssumption
     DEF BatcherInv, TypeOK, DataOK, HistoryOK, ThreadOK, Batches, WaitInv, AgesKnown,
         TimedAssumption
<1>1. /\ UNCHANGED <<buffers, closed, pc, accepted, aged>>
      /\ \A k \in Kinds : Buffered(k)' = Buffered(k)
  BY DEF TimedTick, Tick, ledger, Buffered
<1>2. \/ pc[Worker] = "done"
      \/ pc[Worker] = "wait" /\ timer[Worker] > 0 /\ timer'[Worker] = timer[Worker] - 1
  <2>1. Waiting(Worker)
    BY DEF TimedTick
  <2> QED BY <1>0, <2>1 DEF TimedTick, Tick, Waiting, WorkerPC
<1>3. pc[Worker] = "done" => \A k \in Kinds : buffers[k] = << >>
  <2> SUFFICES ASSUME pc[Worker] = "done" PROVE \A k \in Kinds : buffers[k] = << >>
    OBVIOUS
  <2>1. closed
    BY DEF WaitInv, LooksInTime
  <2>2. ~Closing
    BY DEF TimedTick, Waiting, JoinEnds, Closing
  <2> QED BY <2>1, <2>2 DEF BatcherInv, NothingStranded
<1>4. ASSUME NEW k \in Kinds
      PROVE  \/ oldest'[k] = oldest[k] /\ oldest[k] \in {Unset, MaxAge}
             \/ oldest'[k] = oldest[k] + 1
  BY <1>0 DEF TimedTick, Tick, Older
<1>5. ASSUME NEW k \in Kinds, NEW n \in 1 .. MaxEntries
      PROVE  /\ entryAge'[k][n] \in Nat
             /\ n \in Buffered(k) => entryAge'[k][n] <= entryAge[k][n] + 1
             /\ n \notin Buffered(k) => entryAge'[k][n] = 0
  BY <1>0 DEF TimedTick, AtMost
<1>6. \A k \in Kinds : Buffered(k) \subseteq 1 .. MaxEntries
  BY <1>0 DEF Buffered, ToSet
<1>7. \A k \in Kinds : Buffered(k) \subseteq 1 .. accepted[k]
  BY DEF BatcherInv, EntriesAccounted, Accounted
<1>8. AgesKnown'
  <2>1. entryAge' \in [Kinds -> [1 .. MaxEntries -> Nat]]
    BY <1>0 DEF TimedTick, AtMost
  <2>2. ASSUME NEW k \in Kinds, NEW n \in 1 .. MaxEntries, n > accepted[k]
        PROVE  entryAge'[k][n] = 0
    <3>1. accepted[k] \in Nat /\ Buffered(k) \subseteq 1 .. accepted[k]
      BY <1>0, <1>7
    <3>2. n \notin Buffered(k)
      BY <2>2, <3>1
    <3> QED BY <1>5, <3>2
  <2> QED BY <1>1, <2>1, <2>2 DEF AgesKnown
<1>9. OldestIsOldest'
  <2> SUFFICES ASSUME NEW k \in Kinds, NEW n \in Buffered(k)
               PROVE  entryAge'[k][n] <= oldest'[k] \/ oldest'[k] >= FlushInterval
    BY <1>1 DEF OldestIsOldest
  <2>1. n \in 1 .. MaxEntries /\ entryAge[k][n] \in Nat /\ oldest[k] \in Int
    BY <1>0, <1>6
  <2>2. oldest[k] # Unset
    <3>1. buffers[k] # << >>
      BY ToSetEmpty DEF Buffered
    <3> QED BY <3>1 DEF BatcherInv, OldestTracksBuffer
  <2>3. entryAge[k][n] <= oldest[k] \/ oldest[k] >= FlushInterval
    BY DEF WaitInv, OldestIsOldest
  <2> QED BY <1>4, <1>5, <2>1, <2>2, <2>3
<1>10. LooksInTime' /\ WaitBounded'
  <2>1. CASE pc[Worker] = "done"
    <3>1. \A k \in Kinds : Buffered(k) = {} /\ oldest[k] = Unset
      BY <1>3, <2>1, ToSetEmpty DEF Buffered, BatcherInv, OldestTracksBuffer
    <3>2. \A k \in Kinds : oldest'[k] = Unset
      BY <3>1 DEF TimedTick, Tick, Older
    <3>3. LooksInTime'
      BY <1>1, <2>1, <3>2 DEF LooksInTime, WaitInv
    <3>4. WaitBounded'
      BY <1>5, <3>1 DEF WaitBounded
    <3> QED BY <3>3, <3>4
  <2>2. CASE pc[Worker] = "wait" /\ timer[Worker] > 0 /\ timer'[Worker] = timer[Worker] - 1
    <3>0. timer[Worker] \in Nat
      BY <1>0
    <3>1. ASSUME NEW k \in Kinds, NEW n \in Buffered(k)
          PROVE  entryAge'[k][n] + timer'[Worker] < FlushInterval + WaitTimeout
      <4>1. n \in 1 .. MaxEntries /\ entryAge[k][n] \in Nat
        BY <1>0, <1>6
      <4>2. entryAge[k][n] + timer[Worker] < FlushInterval + WaitTimeout
        BY <2>2 DEF WaitInv, LooksInTime
      <4> QED BY <1>5, <2>2, <3>0, <4>1, <4>2, WaitTimeoutIsHalf
    <3>2. LooksInTime'
      BY <1>1, <2>2, <3>0, <3>1, WaitTimeoutIsHalf DEF LooksInTime, Looked, WaitInv
    <3>3. ASSUME NEW k \in Kinds, NEW n \in 1 .. MaxEntries
          PROVE  2 * entryAge'[k][n] < 3 * FlushInterval
      <4>1. CASE n \in Buffered(k)
        BY <1>5, <2>2, <3>0, <3>1, <4>1, WaitTimeoutIsHalf
      <4>2. CASE n \notin Buffered(k)
        BY <1>5, <4>2
      <4> QED BY <4>1, <4>2
    <3> QED BY <3>2, <3>3 DEF WaitBounded
  <2> QED BY <1>2, <2>1, <2>2
<1> QED BY <1>8, <1>9, <1>10 DEF WaitInv

LEMMA WaitInvNext == BatcherInv /\ WaitInv /\ [TimedNext]_timedVars => WaitInv'
<1> SUFFICES ASSUME BatcherInv, WaitInv, [TimedNext]_timedVars PROVE WaitInv'
  OBVIOUS
<1>1. CASE TimedTick
  BY <1>1, TickInTime
<1>2. CASE Untimed /\ UNCHANGED entryAge
  BY <1>2, AgesStand, LooksInTimeStep DEF WaitInv
<1>3. CASE UNCHANGED timedVars
  BY <1>3 DEF timedVars, vars, data, thread, ledger, WaitInv, AgesKnown, OldestIsOldest,
              LooksInTime, WaitBounded, Buffered
<1> QED BY <1>1, <1>2, <1>3 DEF TimedNext, Untimed

(* An entry waits in its buffer less than one and a half flush_interval    *)
(* before some thread takes it, for any kinds, callers, batch size and     *)
(* interval of 0.2 s or more, provided on_error does not call close():     *)
(* what stays behind then waits for ever.                                  *)
THEOREM WaitBoundedHolds == ~CallbackMayClose => (TimedSpec => []WaitBounded)
<1> SUFFICES ASSUME ~CallbackMayClose PROVE TimedSpec => []WaitBounded
  OBVIOUS
<1>1. TimedInit => WaitInv
  <2> SUFFICES ASSUME TimedInit PROVE WaitInv
    OBVIOUS
  <2>1. \A k \in Kinds : Buffered(k) = {}
    BY ToSetEmpty DEF TimedInit, Init, Nothing, Buffered
  <2>2. AgesKnown /\ WaitBounded
    BY DEF TimedInit, AgesKnown, WaitBounded
  <2>3. LooksInTime
    BY <2>1, WaitTimeoutIsHalf DEF TimedInit, Init, LooksInTime, Looked
  <2> QED BY <2>1, <2>2, <2>3 DEF WaitInv, OldestIsOldest
<1>2. TimedSpec => []BatcherInv
  <2>1. Spec => []TypeOK /\ []OldestTracksBuffer /\ []EntriesAccounted /\ []NothingStranded
    BY TypeCorrect, OldestTracksBufferHolds, EntriesAccountedHolds, NothingStrandedHolds
  <2> QED BY <2>1, TimedIsBatcher, PTL DEF BatcherInv
<1>3. WaitInv => WaitBounded
  BY DEF WaitInv
<1> QED BY <1>1, <1>2, <1>3, WaitInvNext, PTL DEF TimedSpec
=============================================================================
