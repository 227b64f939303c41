--------------------------- MODULE SendPathProofs --------------------------
(* Theorems of SendPath, for every max_retries and any number of callers.  *)
EXTENDS SendPath, TLAPS

(* The answers after which call_with_retry tries again.                    *)
Again == {"other4xx", "server", "timeout", "transport", "broken"}

(* What a caller knows of its own call.                                    *)
LoopTypes ==
  /\ at \in [Callers -> {"idle", "attempt", "post", "sleep", "record", "return"}]
  /\ attempt \in [Callers -> 0 .. MaxRetries]
  /\ last \in [Callers -> Answers \cup {"none"}]
  /\ earlier \in [Callers -> SUBSET Answers]

(* In the loop every answer so far was one to try again after, and a       *)
(* sleeping caller has an attempt left.                                    *)
LoopState ==
  \A c \in Callers :
    /\ earlier[c] \subseteq Again
    /\ at[c] \in {"attempt", "post", "sleep"} => last[c] \in Again \cup {"none"}
    /\ at[c] = "idle" => last[c] = "none" /\ earlier[c] = {}
    /\ at[c] = "sleep" => attempt[c] < MaxRetries

LoopInv == LoopTypes /\ LoopState

-----------------------------------------------------------------------------
LEMMA RetryableAnswers ==
  ASSUME NEW a \in Answers, Retryable(ErrorOf(a))
  PROVE  a \in Again
<1>1. a \in AllAnswers
  BY SendPathAssumption DEF SendPathAssumption
<1> QED
  BY <1>1 DEF AllAnswers, Retryable, ErrorOf, PassesStatus, HttpError,
              RequestError, Again

LEMMA LoopStart == Init => LoopInv
BY SendPathAssumption
   DEF SendPathAssumption, Init, LoopInv, LoopTypes, LoopState, Again

(* An attempt that ends: it leaves the loop, or it goes to sleep with an   *)
(* answer to try again after and an attempt left.                          *)
LEMMA AttemptEnds ==
  ASSUME LoopInv, NEW c \in Callers, NEW a \in Answers,
         at[c] \in {"attempt", "post", "sleep"},
         Got(c, a), Ends(c, a), UNCHANGED attempt
  PROVE  LoopInv'
<1> USE DEF LoopInv, LoopTypes, LoopState
<1>1. PICK place \in {"sleep", "record"} :
        /\ at' = [at EXCEPT ![c] = place]
        /\ place = "sleep" => Retryable(ErrorOf(a)) /\ ~LastAttempt(c)
  BY DEF Ends, Goto
<1>2. LoopTypes'
  BY <1>1 DEF Got
<1>3. place = "sleep" => a \in Again /\ attempt[c] < MaxRetries
  <2>1. place = "sleep" => a \in Again
    BY <1>1, RetryableAnswers
  <2>2. attempt[c] \in Nat /\ MaxRetries \in Nat
    BY SendPathAssumption DEF SendPathAssumption
  <2> QED
    BY <1>1, <2>1, <2>2 DEF LastAttempt
<1>4. earlier'[c] \subseteq Again /\ last'[c] = a
  BY DEF Got
<1>5. \A d \in Callers \ {c} : /\ at'[d] = at[d] /\ last'[d] = last[d]
                              /\ earlier'[d] = earlier[d]
                              /\ attempt'[d] = attempt[d]
  BY <1>1 DEF Got
<1>6. at'[c] = place /\ attempt'[c] = attempt[c]
  BY <1>1
<1> QED
  BY <1>2, <1>3, <1>4, <1>5, <1>6

LEMMA LoopStep == LoopInv /\ [Next]_vars => LoopInv'
<1> SUFFICES ASSUME LoopInv, [Next]_vars PROVE LoopInv'
  OBVIOUS
<1> USE DEF LoopInv, LoopTypes, LoopState
<1>1. ASSUME NEW c \in Callers, Admit(c) PROVE LoopInv'
  BY <1>1 DEF Admit, Goto, answers
<1>2. ASSUME NEW c \in Callers, Refuse(c) PROVE LoopInv'
  BY <1>2 DEF Refuse, Goto, answers
<1>3. ASSUME NEW c \in Callers, Prepare(c) PROVE LoopInv'
  <2>1. CASE Goto(c, "post") /\ UNCHANGED <<breaker, answers>>
    BY <1>3, <2>1 DEF Prepare, Goto, answers
  <2>2. ASSUME NEW a \in Answers \cap {"discovery", "broken", "interrupt"},
               Got(c, a), Ends(c, a)
        PROVE  LoopInv'
    BY <1>3, <2>2, AttemptEnds DEF Prepare
  <2> QED
    BY <1>3, <2>1, <2>2 DEF Prepare
<1>4. ASSUME NEW c \in Callers, Post(c) PROVE LoopInv'
  BY <1>4, AttemptEnds DEF Post
<1>5. ASSUME NEW c \in Callers, Retry(c) PROVE LoopInv'
  <2>1. attempt[c] + 1 \in 0 .. MaxRetries
    BY <1>5, SendPathAssumption DEF Retry, SendPathAssumption
  <2> QED
    BY <1>5, <2>1 DEF Retry, NextAttempt, Goto, answers
<1>6. ASSUME NEW c \in Callers, SleepInterrupted(c) PROVE LoopInv'
  BY <1>6, AttemptEnds DEF SleepInterrupted
<1>7. ASSUME NEW c \in Callers, Record(c) PROVE LoopInv'
  BY <1>7 DEF Record, Goto, answers
<1>8. ASSUME NEW c \in Callers, Return(c) PROVE LoopInv'
  BY <1>8, SendPathAssumption DEF Return, Goto, SendPathAssumption
<1>9. CASE Tick \/ UNCHANGED vars
  BY <1>9 DEF Tick, call, vars, answers
<1> QED
  BY <1>1, <1>2, <1>3, <1>4, <1>5, <1>6, <1>7, <1>8, <1>9 DEF Next, Continue

(* The retry loop counts its attempts and only goes on after an answer     *)
(* that is worth another one.                                              *)
THEOREM LoopInvHolds == Spec => []LoopInv
BY LoopStart, LoopStep, PTL DEF Spec

(* What the server accepted, or refused for good, is not sent again        *)
(* (call_with_retry and _is_retryable).                                    *)
THEOREM FinalAnswerEndsCallHolds == Spec => []FinalAnswerEndsCall
<1>1. LoopInv => FinalAnswerEndsCall
  BY DEF LoopInv, LoopState, FinalAnswerEndsCall, Again
<1> QED
  BY <1>1, LoopInvHolds, PTL

-----------------------------------------------------------------------------
(* What a caller is told of its call *)

OutcomeTypes ==
  /\ LoopTypes
  /\ status \in [Callers -> {"none", "Success", "NotAuthorized", "Timeout",
                             "Failed", "CircuitOpen", "raised"}]
  /\ reported \in [Callers -> BOOLEAN]

(* What is recorded is an answer, and a call that is over is not silent.   *)
OutcomeKnown(c) ==
  /\ at[c] = "record" => last[c] \in Answers
  /\ at[c] = "return" =>
       \/ status[c] = "Success" /\ PassesStatus(last[c]) /\ ~reported[c]
       \/ status[c] = "raised" /\ ~reported[c]
       \/ status[c] \in {"NotAuthorized", "Timeout", "Failed", "CircuitOpen"} /\ reported[c]

OutcomeInv == OutcomeTypes /\ \A c \in Callers : OutcomeKnown(c)

(* The two classifications of an answer agree: _classify_status and the    *)
(* base class that the except clause of _send_direct_batch names.          *)
LEMMA StatusAndReport ==
  ASSUME NEW a \in Answers
  PROVE  LET e == ErrorOf(a) IN
         \/ StatusOf(e) = "Success" /\ PassesStatus(a) /\ ~IsLogDBError(e)
         \/ StatusOf(e) = "raised" /\ ~IsLogDBError(e)
         \/ StatusOf(e) \in {"NotAuthorized", "Timeout", "Failed"} /\ IsLogDBError(e)
<1>1. a \in AllAnswers
  BY SendPathAssumption DEF SendPathAssumption
<1> QED
  BY <1>1 DEF AllAnswers, ErrorOf, PassesStatus, HttpError, RequestError, StatusOf,
              IsLogDBError

(* An attempt that ends goes to sleep, or leaves its answer to be recorded.*)
LEMMA AttemptKnown ==
  ASSUME OutcomeInv, LoopTypes', NEW c \in Callers, NEW a \in Answers,
         Got(c, a), Ends(c, a), UNCHANGED <<status, reported>>
  PROVE  OutcomeInv'
<1>1. PICK place \in {"sleep", "record"} : at' = [at EXCEPT ![c] = place]
  BY DEF Ends, Goto
<1>2. last' = [last EXCEPT ![c] = a]
  BY DEF Got
<1>3. OutcomeKnown(c)'
  BY <1>1, <1>2 DEF OutcomeInv, OutcomeTypes, LoopTypes, OutcomeKnown
<1> QED
  BY <1>1, <1>2, <1>3 DEF OutcomeInv, OutcomeTypes, LoopTypes, OutcomeKnown

LEMMA OutcomeStep == OutcomeInv /\ LoopInv /\ [Next]_vars => OutcomeInv'
<1> SUFFICES ASSUME OutcomeInv, LoopInv, [Next]_vars PROVE OutcomeInv'
  OBVIOUS
<1>t. LoopTypes'
  BY LoopStep DEF LoopInv
<1> USE <1>t DEF OutcomeInv, OutcomeTypes, OutcomeKnown, Goto, answers
<1>1. ASSUME NEW c \in Callers, Admit(c) PROVE OutcomeInv'
  BY <1>1 DEF Admit, LoopTypes
<1>2. ASSUME NEW c \in Callers, Refuse(c) PROVE OutcomeInv'
  BY <1>2 DEF Refuse, LoopTypes
<1>3. ASSUME NEW c \in Callers, Prepare(c) PROVE OutcomeInv'
  <2>1. CASE Goto(c, "post") /\ UNCHANGED <<breaker, answers>>
    BY <1>3, <2>1 DEF Prepare, LoopTypes
  <2>2. ASSUME NEW a \in Answers \cap {"discovery", "broken", "interrupt"},
               Got(c, a), Ends(c, a)
        PROVE  OutcomeInv'
    BY <1>3, <2>2, AttemptKnown DEF Prepare
  <2> QED
    BY <1>3, <2>1, <2>2 DEF Prepare
<1>4. ASSUME NEW c \in Callers, Post(c) PROVE OutcomeInv'
  BY <1>4, AttemptKnown DEF Post
<1>5. ASSUME NEW c \in Callers, Retry(c) PROVE OutcomeInv'
  BY <1>5 DEF Retry, LoopTypes
<1>6. ASSUME NEW c \in Callers, SleepInterrupted(c) PROVE OutcomeInv'
  BY <1>6, AttemptKnown DEF SleepInterrupted
<1>7. ASSUME NEW c \in Callers, Record(c) PROVE OutcomeInv'
  <2>1. last[c] \in Answers /\ UNCHANGED last
    BY <1>7 DEF Record
  <2> DEFINE e == ErrorOf(last[c])
  <2>2. /\ status'   = [status EXCEPT ![c] = StatusOf(e)]
        /\ reported' = [reported EXCEPT ![c] = IsLogDBError(e)]
        /\ at' = [at EXCEPT ![c] = "return"]
    BY <1>7 DEF Record, Outcome
  <2>3. \/ StatusOf(e) = "Success" /\ PassesStatus(last[c]) /\ ~IsLogDBError(e)
        \/ StatusOf(e) = "raised" /\ ~IsLogDBError(e)
        \/ StatusOf(e) \in {"NotAuthorized", "Timeout", "Failed"} /\ IsLogDBError(e)
    BY <2>1, StatusAndReport
  <2>4. IsLogDBError(e) \in BOOLEAN
    BY DEF IsLogDBError
  <2> HIDE DEF e
  <2> QED
    BY <2>1, <2>2, <2>3, <2>4 DEF LoopTypes
<1>8. ASSUME NEW c \in Callers, Return(c) PROVE OutcomeInv'
  BY <1>8 DEF Return, LoopTypes
<1>9. CASE Tick \/ UNCHANGED vars
  BY <1>9 DEF Tick, call, vars
<1> QED
  BY <1>1, <1>2, <1>3, <1>4, <1>5, <1>6, <1>7, <1>8, <1>9 DEF Next, Continue

(* No failed call is silent, whatever comes back from however many         *)
(* attempts (_send_direct_batch and _send_with_resilience).                *)
THEOREM FailureNotSilentHolds == Spec => []FailureNotSilent
<1>1. Init => OutcomeInv
  BY LoopStart DEF Init, LoopInv, OutcomeInv, OutcomeTypes, OutcomeKnown
<1>2. OutcomeInv => FailureNotSilent
  BY DEF OutcomeInv, OutcomeKnown, FailureNotSilent
<1> QED
  BY <1>1, <1>2, OutcomeStep, LoopInvHolds, PTL DEF Spec

-----------------------------------------------------------------------------
(* The calls use the breaker as module CircuitBreaker says *)

LEMMA EndsAnswers ==
  ASSUME NEW c \in Callers, NEW a, Ends(c, a)
  PROVE  B!Next \/ UNCHANGED B!vars
BY DEF Ends, breaker, B!vars, B!Next, B!Use

LEMMA BreakerStep == [Next]_vars => [B!Next]_(B!vars)
<1> SUFFICES ASSUME [Next]_vars PROVE B!Next \/ UNCHANGED B!vars
  OBVIOUS
<1>1. ASSUME NEW c \in Callers, Admit(c) PROVE B!Next
  BY <1>1 DEF Admit, B!Next, B!Use
<1>2. ASSUME NEW c \in Callers, Prepare(c) \/ Post(c) \/ SleepInterrupted(c)
      PROVE  B!Next \/ UNCHANGED B!vars
  <2>1. UNCHANGED breaker => UNCHANGED B!vars
    BY DEF breaker, B!vars
  <2> QED
    BY <1>2, <2>1, EndsAnswers DEF Prepare, Post, SleepInterrupted
<1>3. ASSUME NEW c \in Callers, Record(c) PROVE B!Next
  BY <1>3 DEF Record, BreakerRecords, B!Next, B!Use
<1>4. ASSUME NEW c \in Callers, Refuse(c) \/ Retry(c) \/ Return(c)
      PROVE  UNCHANGED B!vars
  BY <1>4 DEF Refuse, Retry, Return, breaker, B!vars
<1>5. CASE Tick
  BY <1>5 DEF Tick, B!Next
<1>6. CASE UNCHANGED vars
  BY <1>6 DEF vars, breaker, B!vars
<1> QED
  BY <1>1, <1>2, <1>3, <1>4, <1>5, <1>6 DEF Next, Continue

(* However a call ends, and however many attempts it takes, the breaker    *)
(* sees one admission and one outcome of it (_send_with_resilience).       *)
THEOREM UsesBreakerHolds == Spec => UsesBreaker
<1>1. Init => B!Init
  BY DEF Init
<1> QED
  BY <1>1, BreakerStep, PTL DEF Spec, UsesBreaker, B!Spec

-----------------------------------------------------------------------------
(* Types *)

(* The theorems of the breaker, which a caller of it inherits.             *)
BP == INSTANCE CircuitBreakerProofs

LEMMA SameBreaker ==
  /\ B!Init => BP!Init
  /\ [B!Next]_(B!vars) => [BP!Next]_(BP!vars)
  /\ BP!TypeOK => B!TypeOK
<1>1. B!Init => BP!Init
  BY DEF B!Init, BP!Init
<1>2. [B!Next]_(B!vars) => [BP!Next]_(BP!vars)
  <2>1. ASSUME NEW S PROVE B!Cardinality(S) = BP!Cardinality(S)
    BY DEF B!Cardinality, BP!Cardinality
  <2>2. ASSUME NEW S PROVE B!Min(S) = BP!Min(S)
    BY DEF B!Min, BP!Min
  <2>3. ASSUME NEW s PROVE B!Prune(s) = BP!Prune(s)
    BY <2>2 DEF B!Prune, BP!Prune, B!Fresh, BP!Fresh
  <2>4. ASSUME NEW s PROVE B!Opens(s) <=> BP!Opens(s)
    BY <2>1 DEF B!Opens, B!Trips, B!RateReached, B!Failures, B!MinSamples,
                BP!Opens, BP!Trips, BP!RateReached, BP!Failures, BP!MinSamples
  <2>5. B!BelowBound <=> BP!BelowBound
    BY <2>1 DEF B!BelowBound, B!Fresh, B!InFlight, BP!BelowBound, BP!Fresh, BP!InFlight
  <2>6. ASSUME NEW c \in Callers, B!ShouldAllow(c) PROVE BP!ShouldAllow(c)
    BY <2>5, <2>6 DEF B!ShouldAllow, B!Allowed, B!BreakOver, B!Goto,
                      BP!ShouldAllow, BP!Allowed, BP!BreakOver, BP!Goto
  <2>7. ASSUME NEW c \in Callers, B!Answer(c) PROVE BP!Answer(c)
    BY <2>7 DEF B!Answer, B!Goto, BP!Answer, BP!Goto
  <2>8. ASSUME NEW c \in Callers, B!RecordSuccess(c) PROVE BP!RecordSuccess(c)
    BY <2>3, <2>8 DEF B!RecordSuccess, B!AfterSuccess, B!StateAfterSuccess, B!Record, B!Counted,
                      B!Goto, B!MinSamples,
                      BP!RecordSuccess, BP!AfterSuccess, BP!StateAfterSuccess, BP!Record,
                      BP!Counted, BP!Goto, BP!MinSamples
  <2>9. ASSUME NEW c \in Callers, B!RecordFailure(c) PROVE BP!RecordFailure(c)
    BY <2>3, <2>4, <2>9 DEF B!RecordFailure, B!Record, B!Counted, B!Goto, B!MinSamples,
                      BP!RecordFailure, BP!Record, BP!Counted, BP!Goto, BP!MinSamples
  <2>10. (B!Tick => BP!Tick) /\ (B!ServerChanges => BP!ServerChanges)
    BY DEF B!Tick, B!ServerChanges, BP!Tick, BP!ServerChanges
  <2>11. UNCHANGED B!vars => UNCHANGED BP!vars
    BY DEF B!vars, BP!vars
  <2> QED BY <2>6, <2>7, <2>8, <2>9, <2>10, <2>11 DEF B!Next, B!Use, BP!Next, BP!Use
<1>3. BP!TypeOK => B!TypeOK
  BY DEF B!TypeOK, B!States, B!Samples, B!Sorted, B!MinSamples,
         BP!TypeOK, BP!States, BP!Samples, BP!Sorted, BP!MinSamples
<1> QED BY <1>1, <1>2, <1>3

(* The breaker waits for a caller's outcome exactly while the caller is in *)
(* its retry loop, and for its record exactly until it is made.            *)
Linked(c) ==
  /\ at[c] \in {"attempt", "post", "sleep"} <=> pc[c] = "calling"
  /\ at[c] = "record" <=> pc[c] \in {"succeeded", "failed"}

LinkInv ==
  /\ at \in [Callers -> {"idle", "attempt", "post", "sleep", "record", "return"}]
  /\ pc \in [Callers -> {"idle", "calling", "succeeded", "failed"}]
  /\ \A c \in Callers : Linked(c)

(* A step of one caller moves it in the loop and in the breaker alike, and *)
(* no other.                                                               *)
LEMMA OneMoves ==
  ASSUME LinkInv, NEW c \in Callers,
         NEW place \in {"idle", "attempt", "post", "sleep", "record", "return"},
         NEW phase \in {"idle", "calling", "succeeded", "failed"},
         at' = [at EXCEPT ![c] = place], pc' = [pc EXCEPT ![c] = phase],
         place \in {"attempt", "post", "sleep"} <=> phase = "calling",
         place = "record" <=> phase \in {"succeeded", "failed"}
  PROVE  LinkInv'
BY DEF LinkInv, Linked

(* An attempt that ends: the caller sleeps, and the breaker keeps waiting, *)
(* or its answer waits to be recorded.                                     *)
LEMMA EndsLinked ==
  ASSUME LinkInv, NEW c \in Callers, NEW a, pc[c] = "calling", Ends(c, a)
  PROVE  LinkInv'
<1>1. CASE Goto(c, "sleep") /\ UNCHANGED breaker
  <2>1. pc' = [pc EXCEPT ![c] = "calling"]
    BY <1>1 DEF breaker, LinkInv
  <2> QED
    BY <1>1, <2>1, OneMoves DEF Goto
<1>2. CASE Goto(c, "record") /\ B!Answer(c)
  <2>1. PICK phase \in {"succeeded", "failed"} : pc' = [pc EXCEPT ![c] = phase]
    BY <1>2 DEF B!Answer, B!Goto
  <2> QED
    BY <1>2, <2>1, OneMoves DEF Goto
<1> QED
  BY <1>1, <1>2 DEF Ends

LEMMA LinkStep == LinkInv /\ [Next]_vars => LinkInv'
<1> SUFFICES ASSUME LinkInv, [Next]_vars PROVE LinkInv'
  OBVIOUS
<1>0. \A c \in Callers : Linked(c)
  BY DEF LinkInv
<1>k. UNCHANGED breaker => UNCHANGED pc
  BY DEF breaker
<1>1. ASSUME NEW c \in Callers, Admit(c) PROVE LinkInv'
  BY <1>1, OneMoves DEF Admit, B!ShouldAllow, B!Goto, Goto
<1>2. ASSUME NEW c \in Callers, Refuse(c) PROVE LinkInv'
  <2>1. pc[c] = "idle"
    BY <1>0, <1>2 DEF Refuse, Linked, LinkInv
  <2>2. pc' = [pc EXCEPT ![c] = "idle"]
    BY <1>2, <1>k, <2>1 DEF Refuse, LinkInv
  <2> QED
    BY <1>2, <2>2, OneMoves DEF Refuse, Goto
<1>3. ASSUME NEW c \in Callers, Prepare(c) PROVE LinkInv'
  <2>1. pc[c] = "calling"
    BY <1>0, <1>3 DEF Prepare, Linked
  <2>2. CASE Goto(c, "post") /\ UNCHANGED <<breaker, answers>>
    <3>1. pc' = [pc EXCEPT ![c] = "calling"]
      BY <1>k, <2>1, <2>2 DEF LinkInv
    <3> QED
      BY <2>2, <3>1, OneMoves DEF Goto
  <2> QED
    BY <1>3, <2>1, <2>2, EndsLinked DEF Prepare
<1>4. ASSUME NEW c \in Callers, Post(c) PROVE LinkInv'
  <2>1. pc[c] = "calling"
    BY <1>0, <1>4 DEF Post, Linked
  <2> QED
    BY <1>4, <2>1, EndsLinked DEF Post
<1>5. ASSUME NEW c \in Callers, Retry(c) PROVE LinkInv'
  <2>1. pc[c] = "calling"
    BY <1>0, <1>5 DEF Retry, Linked
  <2>2. pc' = [pc EXCEPT ![c] = "calling"]
    BY <1>5, <1>k, <2>1 DEF Retry, LinkInv
  <2> QED
    BY <1>5, <2>2, OneMoves DEF Retry, Goto
<1>6. ASSUME NEW c \in Callers, SleepInterrupted(c) PROVE LinkInv'
  <2>1. pc[c] = "calling"
    BY <1>0, <1>6 DEF SleepInterrupted, Linked
  <2> QED
    BY <1>6, <2>1, EndsLinked DEF SleepInterrupted
<1>7. ASSUME NEW c \in Callers, Record(c) PROVE LinkInv'
  <2>1. pc' = [pc EXCEPT ![c] = "idle"]
    BY <1>7 DEF Record, BreakerRecords, B!RecordSuccess, B!RecordFailure, B!Goto
  <2> QED
    BY <1>7, <2>1, OneMoves DEF Record, Goto
<1>8. ASSUME NEW c \in Callers, Return(c) PROVE LinkInv'
  <2>1. pc[c] = "idle"
    BY <1>0, <1>8 DEF Return, Linked, LinkInv
  <2>2. pc' = [pc EXCEPT ![c] = "idle"]
    BY <1>8, <1>k, <2>1 DEF Return, LinkInv
  <2> QED
    BY <1>8, <2>2, OneMoves DEF Return, Goto
<1>9. CASE Tick \/ UNCHANGED vars
  BY <1>9 DEF Tick, B!Tick, call, vars, breaker, LinkInv, Linked
<1> QED
  BY <1>1, <1>2, <1>3, <1>4, <1>5, <1>6, <1>7, <1>8, <1>9 DEF Next, Continue

(* Types of the whole send path, those of the breaker included, and the    *)
(* agreement of the retry loop with the breaker (_send_with_resilience     *)
(* records exactly the calls should_allow let through), for any number of  *)
(* callers, any max_retries and any settings of the breaker.               *)
THEOREM TypeCorrect == Spec => []TypeOK
<1>1. Init => LinkInv /\ OutcomeInv /\ LoopInv
  BY LoopStart DEF Init, B!Init, LinkInv, Linked, LoopInv, OutcomeInv, OutcomeTypes,
                   OutcomeKnown
<1>2. Spec => BP!Spec
  <2>1. Init => BP!Init
    BY SameBreaker DEF Init
  <2> QED
    BY <2>1, SameBreaker, BreakerStep, PTL DEF Spec, BP!Spec
<1>3. BP!Spec => []BP!TypeOK
  BY BP!TypeCorrect, SendPathAssumption DEF BP!BreakerAssumption, SendPathAssumption
<1>4. LinkInv /\ OutcomeInv /\ BP!TypeOK => TypeOK
  BY SameBreaker DEF TypeOK, LinkInv, Linked, OutcomeInv, OutcomeTypes, LoopTypes
<1> QED
  BY <1>1, <1>2, <1>3, <1>4, LinkStep, OutcomeStep, LoopStep, PTL DEF Spec
=============================================================================
