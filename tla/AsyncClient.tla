----------------------------- MODULE AsyncClient ----------------------------
(***************************************************************************)
(* The life of an AsyncLogDBClient with batching (src/logdbhq/client.py)   *)
(* on top of its AsyncBatcher, and a LogDBHandler (logging_handler.py)     *)
(* that runs on the same event loop.                                       *)
(*                                                                         *)
(* log() and the handler's emit() do not await, so that the test of        *)
(* _closed, the creation of the batcher and enqueue() are one step.  The   *)
(* handler asks only the batcher whether it is closed, never the client:   *)
(* after the close() of a client that has logged nothing it makes a        *)
(* batcher that nobody closes.                                             *)
(***************************************************************************)
EXTENDS AsyncBatcher

CONSTANT HandlerKind     \* the kind of what emit() enqueues: "log"

ASSUME AsyncClientAssumption == HandlerKind \in Kinds

VARIABLES
  made,          \* _batcher is not None
  clientClosed,  \* _closed of the client
  httpOpen       \* _http is not closed

client     == <<made, clientClosed, httpOpen>>
clientVars == <<vars, client>>

ClientInit ==
  /\ Init
  /\ made = FALSE
  /\ clientClosed = FALSE
  /\ httpOpen = TRUE

-----------------------------------------------------------------------------

(* _ensure_batcher().enqueue(); the worker task starts with the batcher.   *)
EnsureAndEnqueue(c, k) ==
  /\ Enqueue(c, k)
  /\ made' = TRUE
  /\ UNCHANGED <<clientClosed, httpOpen>>

Log(c, k) == ~clientClosed /\ EnsureAndEnqueue(c, k)

(* Some record of the application, of httpx or of the SDK itself.          *)
Emit(c) == EnsureAndEnqueue(c, HandlerKind)

FlushClient(c) == made /\ Flush(c) /\ UNCHANGED client

(* Up to the await of the batcher's close(), or of aclose().               *)
CloseClient(c) ==
  /\ ~clientClosed
  /\ pc[c] = "idle"
  /\ clientClosed' = TRUE
  /\ IF made
     THEN Close(c) /\ UNCHANGED <<made, httpOpen>>
     ELSE httpOpen' = FALSE /\ UNCHANGED <<vars, made>>

BatcherClosed == closeReturned' # closeReturned

(* The task goes from the end of the batcher's close() right into aclose(). *)
ThenHttpCloses ==
  /\ httpOpen' = (httpOpen /\ ~BatcherClosed)
  /\ UNCHANGED <<made, clientClosed>>

(* _raw_send(): a closed HTTP client raises.                               *)
SendEnds(t) ==
  /\ (httpOpen /\ SendOk(t)) \/ SendFail(t)
  /\ ThenHttpCloses

CallStep(c) ==
  \/ JoinTimesOut(c) /\ UNCHANGED client
  \/ JoinReturns(c) /\ ThenHttpCloses
  \/ SendEnds(c)

Cancel(c) == (CancelSend(c) \/ CancelJoin(c)) /\ UNCHANGED client

WorkerLooks == made /\ WorkerRound /\ UNCHANGED client

TimePasses == made /\ Tick /\ UNCHANGED client

ClientCall(c) == \/ \E k \in Kinds : Log(c, k)
                 \/ Emit(c) \/ FlushClient(c) \/ CloseClient(c) \/ Cancel(c)

ClientNext == \/ \E c \in Callers : ClientCall(c) \/ CallStep(c)
              \/ WorkerLooks \/ SendEnds(Worker)
              \/ TimePasses

ClientSpec == ClientInit /\ [][ClientNext]_clientVars

(* Time passes, the loop runs what is ready, and the sends of the callers  *)
(* end; those of the worker may hang for ever.                             *)
ClientFairSpec ==
  /\ ClientSpec
  /\ WF_clientVars(TimePasses)
  /\ WF_clientVars(WorkerLooks)
  /\ \A c \in Callers : WF_clientVars(CallStep(c))

-----------------------------------------------------------------------------
(* Properties *)

(* Types of the batcher and of the client; only a batcher that exists has  *)
(* entries, and only the close() of its client closes it.                  *)
ClientTypeOK ==
  /\ TypeOK
  /\ made \in BOOLEAN /\ clientClosed \in BOOLEAN /\ httpOpen \in BOOLEAN
  /\ ~made => accepted = [k \in Kinds |-> 0] /\ ~closed
  /\ closed => clientClosed
  /\ ~httpOpen => clientClosed

(* close() shuts down from the inside out: when it has drained the buffers *)
(* they are empty for good, and when the HTTP client is closed the worker  *)
(* is over, with nothing of what it took still on its way, and so is every *)
(* send of close() itself; only a flush() of another task can still find   *)
(* the HTTP client closed.  A batcher that the handler made too late is    *)
(* never closed: "the background batcher task is cleanly shut down" does   *)
(* not hold of it.                                                         *)
ClosesInOrder ==
  /\ NothingStranded
  /\ ~httpOpen /\ closed =>
       /\ pc[Worker] = "done"
       /\ \A k \in Kinds : buffers[k] = << >>
       /\ \A c \in Callers : op[c] # "close"

(* Every close() comes to the point where the HTTP client is closed, even  *)
(* if a send of the worker never ends, unless the application cancels the  *)
(* close() itself: then connections stay open for ever, because no later   *)
(* close() does anything.                                                  *)
CloseCompletes == clientClosed ~> ~httpOpen \/ CloseCancelled
=============================================================================
