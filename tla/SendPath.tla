------------------------------ MODULE SendPath -----------------------------
(***************************************************************************)
(* One send of LogDBClient, from _send_direct_batch() down to the wire     *)
(* (client.py, resilience.py, _transport.py): admission by the circuit     *)
(* breaker, the retry loop around _raw_send(), the classification of what  *)
(* came back, the record in the breaker, on_error and the status.  The     *)
(* async client runs the same steps.                                       *)
(*                                                                         *)
(* The breaker is module CircuitBreaker, whose variables appear here; a    *)
(* caller that it calls "calling" is somewhere in the retry loop.          *)
(***************************************************************************)
EXTENDS Classification, Integers, Sequences, FiniteSets

CONSTANTS
  Callers, ThresholdNum, ThresholdDen, Window, Break, MaxSamples,
  MaxRetries,     \* max_retries
  Answers         \* what may come back from an attempt

ASSUME SendPathAssumption ==
  /\ ThresholdNum \in Nat /\ ThresholdDen \in Nat \ {0}
  /\ Window \in Nat \ {0} /\ Break \in Nat /\ MaxSamples \in Nat
  /\ MaxRetries \in Nat
  /\ Answers \subseteq AllAnswers

VARIABLES
  state, openedAge, samples, pc, via, sinceClose,   \* of CircuitBreaker
  serverUp,  \* of CircuitBreaker; always FALSE here: any call may fail
  at,        \* where a caller is inside its call
  attempt,   \* the loop variable of call_with_retry
  last,      \* what came back from the last attempt of this call
  earlier,   \* history: what came back from the attempts before it
  status,    \* what the call returns
  reported   \* on_error was called

breaker == <<state, openedAge, samples, pc, via, sinceClose, serverUp>>
answers == <<last, earlier>>
call    == <<at, attempt, answers, status, reported>>
vars    == <<breaker, call>>

B == INSTANCE CircuitBreaker

Init ==
  /\ B!Init /\ serverUp = FALSE
  /\ at       = [c \in Callers |-> "idle"]
  /\ attempt  = [c \in Callers |-> 0]
  /\ last     = [c \in Callers |-> "none"]
  /\ earlier  = [c \in Callers |-> {}]
  /\ status   = [c \in Callers |-> "none"]
  /\ reported = [c \in Callers |-> FALSE]

Goto(c, place) == at' = [at EXCEPT ![c] = place]

-----------------------------------------------------------------------------
(* _classify_status *)

StatusOf(e) == CASE e = "none"    -> "Success"
                 [] e = "auth"    -> "NotAuthorized"
                 [] e = "timeout" -> "Timeout"
                 [] e \in {"network", "config"} -> "Failed"
                 [] OTHER         -> "raised"

-----------------------------------------------------------------------------
(* _send_with_resilience(): admission *)

Admit(c) ==
  /\ at[c] = "idle"
  /\ B!ShouldAllow(c)
  /\ Goto(c, "attempt")
  /\ UNCHANGED <<attempt, answers, status, reported>>

Refuse(c) ==
  /\ at[c] = "idle"
  /\ ~ B!Allowed
  /\ Goto(c, "return")
  /\ status'   = [status EXCEPT ![c] = "CircuitOpen"]
  /\ reported' = [reported EXCEPT ![c] = TRUE]
  /\ UNCHANGED <<breaker, attempt, answers>>

-----------------------------------------------------------------------------
(* call_with_retry() around _raw_send() *)

LastAttempt_Beyond(c) == attempt[c] > MaxRetries   \* fault: off by one
LastAttempt(c) == attempt[c] >= MaxRetries

NextAttempt(c) == attempt[c] + 1

(* The attempt ended with answer a: return, raise or sleep.                *)
Ends(c, a) ==
  IF Retryable(ErrorOf(a)) /\ ~LastAttempt(c)
  THEN Goto(c, "sleep") /\ UNCHANGED breaker
  ELSE /\ Goto(c, "record")
       /\ B!Answer(c)
       /\ pc'[c] = IF ErrorOf(a) = "none" THEN "succeeded" ELSE "failed"

Got(c, a) ==
  /\ last'    = [last EXCEPT ![c] = a]
  /\ earlier' = [earlier EXCEPT ![c] = @ \cup ({last[c]} \ {"none"})]

(* Resolving the endpoint and serialising the body, before the request.    *)
Prepare(c) ==
  /\ at[c] = "attempt"
  /\ \/ Goto(c, "post") /\ UNCHANGED <<breaker, answers>>
     \/ \E a \in Answers \cap {"discovery", "broken", "interrupt"} :
          Got(c, a) /\ Ends(c, a)
  /\ UNCHANGED <<attempt, status, reported>>

Post(c) ==
  /\ at[c] = "post"
  /\ \E a \in Answers \ {"discovery"} : Got(c, a) /\ Ends(c, a)
  /\ UNCHANGED <<attempt, status, reported>>

Retry(c) ==
  /\ at[c] = "sleep"
  /\ attempt' = [attempt EXCEPT ![c] = NextAttempt(c)]
  /\ Goto(c, "attempt")
  /\ UNCHANGED <<breaker, answers, status, reported>>

(* An interrupt during the sleep leaves the loop at once.                  *)
SleepInterrupted(c) ==
  /\ at[c] = "sleep"
  /\ "interrupt" \in Answers
  /\ Got(c, "interrupt")
  /\ Ends(c, "interrupt")
  /\ UNCHANGED <<attempt, status, reported>>

-----------------------------------------------------------------------------
(* The record in the breaker, on_error and the status *)

Outcome(c) == ErrorOf(last[c])

BreakerRecords_NotBase(c) ==      \* fault: `except Exception'
  IF Outcome(c) = "base"
  THEN pc' = [pc EXCEPT ![c] = "idle"]
       /\ UNCHANGED <<state, openedAge, samples, via, sinceClose, serverUp>>
  ELSE B!RecordSuccess(c) \/ B!RecordFailure(c)
BreakerRecords(c) == B!RecordSuccess(c) \/ B!RecordFailure(c)

Record(c) ==
  /\ at[c] = "record"
  /\ BreakerRecords(c)
  /\ status'   = [status EXCEPT ![c] = StatusOf(Outcome(c))]
  /\ reported' = [reported EXCEPT ![c] = IsLogDBError(Outcome(c))]
  /\ Goto(c, "return")
  /\ UNCHANGED <<attempt, answers>>

Return(c) ==
  /\ at[c] = "return"
  /\ Goto(c, "idle")
  /\ attempt'  = [attempt EXCEPT ![c] = 0]
  /\ last'     = [last EXCEPT ![c] = "none"]
  /\ earlier'  = [earlier EXCEPT ![c] = {}]
  /\ status'   = [status EXCEPT ![c] = "none"]
  /\ reported' = [reported EXCEPT ![c] = FALSE]
  /\ UNCHANGED breaker

Tick == B!Tick /\ UNCHANGED call

-----------------------------------------------------------------------------

Continue(c) == \/ Prepare(c) \/ Post(c) \/ Retry(c) \/ SleepInterrupted(c)
               \/ Record(c) \/ Return(c)

Next == (\E c \in Callers : Admit(c) \/ Refuse(c) \/ Continue(c)) \/ Tick

Spec == Init /\ [][Next]_vars

-----------------------------------------------------------------------------
(* Properties *)

(* Types; a caller is in the retry loop exactly while the breaker waits    *)
(* for its outcome, and makes at most max_retries + 1 attempts.            *)
TypeOK ==
  /\ B!TypeOK
  /\ at \in [Callers -> {"idle", "attempt", "post", "sleep", "record", "return"}]
  /\ attempt \in [Callers -> 0 .. MaxRetries]
  /\ last \in [Callers -> Answers \cup {"none"}]
  /\ earlier \in [Callers -> SUBSET Answers]
  /\ \A c \in Callers :
       /\ at[c] \in {"attempt", "post", "sleep"} <=> pc[c] = "calling"
       /\ at[c] = "record" <=> pc[c] \in {"succeeded", "failed"}
  /\ status \in [Callers -> {"none", "Success", "NotAuthorized", "Timeout",
                             "Failed", "CircuitOpen", "raised"}]
  /\ reported \in [Callers -> BOOLEAN]

(* The breaker sees one admission and one record of each call, however     *)
(* many attempts it takes and however it ends.                             *)
UsesBreaker == B!Spec

(* What the server accepted, or refused for good, is not sent again: only  *)
(* the last answer of a call may be 2xx, 3xx, 400, 401, 403, 404, 422 or a *)
(* failed discovery.                                                       *)
FinalAnswerEndsCall ==
  \A c \in Callers :
    earlier[c] \subseteq {"other4xx", "server", "timeout", "transport", "broken"}

(* No failed call is silent: a call says Success only when its last answer *)
(* passed raise_for_status, it raises what is no LogDBError, and of every  *)
(* other end on_error hears.                                               *)
FailureNotSilent ==
  \A c \in Callers : at[c] = "return" =>
    \/ status[c] = "Success" /\ PassesStatus(last[c]) /\ ~reported[c]
    \/ status[c] = "raised" /\ ~reported[c]
    \/ status[c] \in {"NotAuthorized", "Timeout", "Failed", "CircuitOpen"} /\ reported[c]
=============================================================================
