--------------------------- MODULE CircuitBreaker --------------------------
(***************************************************************************)
(* CircuitBreaker of src/logdbhq/resilience.py, with the callers of        *)
(* _send_with_resilience around it: each asks should_allow(), calls the    *)
(* server, and records the outcome it got, possibly long after other       *)
(* callers moved the breaker on.                                           *)
(*                                                                         *)
(* The three methods run under one lock and are one step each.  Times are  *)
(* kept as ages in ticks: of each sample, and of _opened_at.               *)
(***************************************************************************)
EXTENDS Integers, Sequences, FiniteSetsExt

CONSTANTS
  Callers,              \* threads or tasks that share the breaker
  ThresholdNum, ThresholdDen,   \* failure_threshold, as a fraction
  Window,               \* sampling_duration, in ticks
  Break,                \* duration_of_break, in ticks
  MaxSamples            \* bound: calls started within one Window

ASSUME BreakerAssumption ==
  /\ ThresholdNum \in Nat /\ ThresholdDen \in Nat \ {0}
  /\ Window \in Nat \ {0} /\ Break \in Nat
  /\ MaxSamples \in Nat

MinSamples == 4         \* fewer samples never open the breaker

VARIABLES
  state,        \* _state
  openedAge,    \* the age of _opened_at, saturated at Break
  samples,      \* _samples, oldest first, ages saturated past Window
  pc,           \* where a caller is
  via,          \* history: the state in which a caller was let through
  sinceClose,   \* history: records since the breaker last closed (at most 4)
  serverUp      \* does every call succeed?

vars == <<state, openedAge, samples, pc, via, sinceClose, serverUp>>

States == {"closed", "open", "half-open"}
Samples == [age : 0 .. Window + 1, ok : BOOLEAN]

Init ==
  /\ state = "closed"
  /\ openedAge = 0
  /\ samples = << >>
  /\ pc  = [c \in Callers |-> "idle"]
  /\ via = [c \in Callers |-> "closed"]
  /\ sinceClose = 0
  /\ serverUp \in BOOLEAN

Goto(c, place) == pc' = [pc EXCEPT ![c] = place]

-----------------------------------------------------------------------------
(* The window *)

Fresh(s) == {i \in DOMAIN s : s[i].age <= Window}

(* _prune_locked(): samples are dropped from the left until a fresh one.   *)
Prune_HeadOnly(s) ==                         \* fault: `if' for `while'
  IF s # << >> /\ s[1].age > Window THEN Tail(s) ELSE s
Prune(s) == IF Fresh(s) = {} THEN << >> ELSE SubSeq(s, Min(Fresh(s)), Len(s))

Record_Left(ok) ==                           \* fault: `appendleft'
  Prune(<<[age |-> 0, ok |-> ok]>> \o samples)
Record(ok) == Prune(Append(samples, [age |-> 0, ok |-> ok]))

Sorted(s) == \A i, j \in DOMAIN s : i <= j => s[i].age >= s[j].age

Failures(s) == {i \in DOMAIN s : ~s[i].ok}

(* _failure_rate_locked() >= _failure_threshold, by cross-multiplication.  *)
RateReached(s) ==
  Cardinality(Failures(s)) * ThresholdDen >= ThresholdNum * Len(s)

Counted == IF sinceClose < MinSamples THEN sinceClose + 1 ELSE MinSamples

-----------------------------------------------------------------------------
(* should_allow() *)

BreakOver == openedAge >= Break

(* A refused call raises LogDBCircuitOpenError and leaves no trace.        *)
Allowed == state = "open" => BreakOver

InFlight == {c \in Callers : pc[c] # "idle"}
BelowBound ==
  Cardinality(Fresh(samples)) + Cardinality(InFlight) < MaxSamples

ShouldAllow(c) ==
  /\ pc[c] = "idle"
  /\ BelowBound
  /\ Allowed
  /\ state' = IF state = "open" THEN "half-open" ELSE state
  /\ via'   = [via EXCEPT ![c] = state']
  /\ Goto(c, "calling")
  /\ UNCHANGED <<openedAge, samples, sinceClose, serverUp>>

(* The call ends, outside the lock.  While the server is not up for good a *)
(* call may fail or succeed.                                               *)
Answer(c) ==
  /\ pc[c] = "calling"
  /\ \/ Goto(c, "succeeded")
     \/ ~serverUp /\ Goto(c, "failed")
  /\ UNCHANGED <<state, openedAge, samples, via, sinceClose, serverUp>>

-----------------------------------------------------------------------------
(* record_success() and record_failure() *)

AfterSuccess_NotCleared(s) == s     \* fault: _samples.clear() is missing
AfterSuccess(s) == IF state = "closed" THEN s ELSE << >>

StateAfterSuccess_Kept == state     \* fault: only the sample is recorded
StateAfterSuccess == "closed"

RecordSuccess(c) ==
  /\ pc[c] = "succeeded"
  /\ samples' = AfterSuccess(Record(TRUE))
  /\ state'   = StateAfterSuccess
  /\ sinceClose' = IF state = "closed" THEN Counted ELSE 0
  /\ Goto(c, "idle")
  /\ UNCHANGED <<openedAge, via, serverUp>>

Trips(s) == /\ state = "closed"
            /\ Len(s) >= MinSamples
            /\ RateReached(s)

Opens_Restarted(s) == TRUE          \* fault: every failure restarts the break
Opens(s) == state = "half-open" \/ Trips(s)

RecordFailure(c) ==
  /\ pc[c] = "failed"
  /\ samples' = Record(FALSE)
  /\ sinceClose' = Counted
  /\ IF Opens(samples')
     THEN state' = "open" /\ openedAge' = 0
     ELSE UNCHANGED <<state, openedAge>>
  /\ Goto(c, "idle")
  /\ UNCHANGED <<via, serverUp>>

-----------------------------------------------------------------------------
(* The environment *)

Tick ==
  /\ openedAge' = IF openedAge < Break THEN openedAge + 1 ELSE openedAge
  /\ samples' = [i \in DOMAIN samples |->
       [samples[i] EXCEPT !.age = IF @ <= Window THEN @ + 1 ELSE @]]
  /\ UNCHANGED <<state, pc, via, sinceClose, serverUp>>

ServerChanges ==
  /\ serverUp' = ~serverUp
  /\ UNCHANGED <<state, openedAge, samples, pc, via, sinceClose>>

Use(c) == ShouldAllow(c) \/ Answer(c) \/ RecordSuccess(c) \/ RecordFailure(c)

Next == (\E c \in Callers : Use(c)) \/ Tick \/ ServerChanges

Spec == Init /\ [][Next]_vars

(* Calls end, their outcome is recorded, time passes, and the application  *)
(* keeps sending.                                                          *)
FairSpec == /\ Spec
            /\ WF_vars(Tick)
            /\ \A c \in Callers : WF_vars(Use(c))

-----------------------------------------------------------------------------
(* Properties *)

(* Types, and the order the pruning relies on: samples are sorted by age,  *)
(* oldest first.                                                           *)
TypeOK ==
  /\ state \in States
  /\ openedAge \in 0 .. Break
  /\ samples \in Seq(Samples)
  /\ Sorted(samples)
  /\ pc \in [Callers -> {"idle", "calling", "succeeded", "failed"}]
  /\ via \in [Callers -> States]
  /\ sinceClose \in 0 .. MinSamples
  /\ serverUp \in BOOLEAN

(* The breaker opens from the closed state only on the evidence of the     *)
(* window: four or more samples, none older than sampling_duration, of     *)
(* which the threshold fraction failed.                                    *)
TripsOnFreshWindow ==
  [][state = "closed" /\ state' = "open" =>
       /\ Fresh(samples') = DOMAIN samples'
       /\ Len(samples') >= MinSamples
       /\ RateReached(samples')]_vars

(* What happened before the breaker closed is forgotten: it takes four     *)
(* new records to open it again.                                           *)
CleanAfterRecovery ==
  [][state = "closed" /\ state' = "open" => sinceClose' >= MinSamples]_vars

(* A failure that arrives while the breaker is open does not prolong the   *)
(* break.                                                                  *)
OpenNotExtended ==
  [][state = "open" /\ state' = "open" => openedAge' >= openedAge]_vars

(* Once the server answers for good, the breaker closes and stays closed.  *)
Recovers == <>[]serverUp => <>[](state = "closed")

(* An open breaker is left only when the break is over.  True of a caller  *)
(* that is alone with its breaker; said of all by the change log.          *)
OpenHoldsForBreak ==
  [][state = "open" /\ state' # "open" => openedAge >= Break]_vars

-----------------------------------------------------------------------------
(* What the documentation says and the code does not do *)

(* "half-open -> let exactly one probe through. Subsequent calls wait for  *)
(* the probe's outcome before they're allowed."                            *)
HalfOpenSingleProbe ==
  state = "half-open" =>
    Cardinality({c \in InFlight : via[c] = "half-open"}) <= 1
=============================================================================
