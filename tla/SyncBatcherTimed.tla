-------------------------- MODULE SyncBatcherTimed -------------------------
(***************************************************************************)
(* How long an entry waits in SyncBatcher.  Threads and sends take no time:*)
(* the clock advances only when every thread waits for it (the worker in   *)
(* wait(), close() in join()).  What remains is the delay that the code    *)
(* itself adds: the worker looks at the buffers once per wait().           *)
(***************************************************************************)
EXTENDS SyncBatcher

CONSTANT MaxEntryAge   \* bound: the age of an entry saturates here

ASSUME TimedAssumption ==
  /\ MaxEntryAge \in Nat /\ 2 * MaxEntryAge >= 3 * FlushInterval
  /\ 2 * MinWait <= FlushInterval     \* flush_interval of 0.2 s or more

VARIABLE entryAge   \* entryAge[k][n]: how long entry n of kind k was buffered

timedVars == <<vars, entryAge>>

TimedInit ==
  /\ Init
  /\ entryAge = [k \in Kinds |-> [n \in 1 .. MaxEntries |-> 0]]

Waiting(p) ==
  \/ pc[p] = "idle" \/ pc[p] = "done"
  \/ pc[p] = "wait" /\ ~wake /\ timer[p] > 0
  \/ pc[p] = "join" /\ ~JoinEnds(p)

AtMost(m, n) == IF m <= n THEN m ELSE n

TimedTick ==
  /\ \A p \in Procs : Waiting(p)
  /\ Tick
  /\ entryAge' = [k \in Kinds |-> [n \in 1 .. MaxEntries |->
       IF n \in Buffered(k) THEN AtMost(MaxEntryAge, entryAge[k][n] + 1) ELSE 0]]

TimedNext ==
  \/ TimedTick
  \/ /\ AppCall \/ WorkerStep \/ \E c \in Callers : CallerStep(c)
     /\ UNCHANGED entryAge

TimedSpec == TimedInit /\ [][TimedNext]_timedVars

-----------------------------------------------------------------------------
(* An entry waits in its buffer less than one and a half flush_interval:   *)
(* the buffers are looked at every flush_interval / 2, and the age that is *)
(* compared is that of the oldest entry.                                   *)
WaitBounded ==
  \A k \in Kinds : \A n \in 1 .. MaxEntries :
    2 * entryAge[k][n] < 3 * FlushInterval
=============================================================================
