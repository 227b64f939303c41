------------------------ MODULE CircuitBreakerProofs -----------------------
(***************************************************************************)
(* What the circuit breaker guarantees for every set of callers, every     *)
(* threshold, window and break.                                            *)
(***************************************************************************)
EXTENDS CircuitBreaker, SequenceTheorems, WellFoundedInduction, TLAPS

USE BreakerAssumption DEF BreakerAssumption, MinSamples

-----------------------------------------------------------------------------
(* The pruning *)

LEMMA MinOfNats ==
  ASSUME NEW T \in SUBSET Nat, T # {}
  PROVE  Min(T) \in T /\ \A y \in T : Min(T) <= y
<1>1. PICK x \in T : \A y \in T : ~ (<<y, x>> \in OpToRel(<, Nat))
  BY WFMin, NatLessThanWellFounded
<1>2. \A y \in T : ~ (y < x)
  BY <1>1, Zenon DEF OpToRel
<1>3. \A y \in T : x <= y
  BY <1>2
<1> QED BY <1>3 DEF Min

(* Pruning keeps exactly the samples of the window, in their order.        *)
LEMMA PruneProperties ==
  ASSUME NEW s \in Seq(Samples), Sorted(s)
  PROVE  /\ Prune(s) \in Seq(Samples)
         /\ Sorted(Prune(s))
         /\ Len(Prune(s)) <= Len(s)
         /\ Fresh(Prune(s)) = DOMAIN Prune(s)
<1>0. Len(s) \in Nat /\ DOMAIN s = 1 .. Len(s) /\ \A i \in 1 .. Len(s) : s[i] \in Samples
  OBVIOUS
<1>1. CASE Fresh(s) = {}
  <2>1. Prune(s) = << >>
    BY <1>1 DEF Prune
  <2> QED BY <1>0, <2>1 DEF Sorted, Fresh
<1>2. CASE Fresh(s) # {}
  <2> DEFINE m == Min(Fresh(s))
             t == SubSeq(s, m, Len(s))
  <2>1. m \in 1 .. Len(s) /\ s[m].age <= Window
    <3>1. Fresh(s) \in SUBSET Nat
      BY <1>0 DEF Fresh
    <3>2. m \in Fresh(s)
      BY <1>2, <3>1, MinOfNats
    <3> QED BY <1>0, <3>2 DEF Fresh
  <2>2. Prune(s) = t
    BY <1>2 DEF Prune
  <2> HIDE DEF m
  <2>3. /\ t \in Seq(Samples)
        /\ Len(t) = Len(s) - m + 1
        /\ \A i \in 1 .. Len(t) : t[i] = s[m + i - 1]
    BY <1>0, <2>1
  <2>4. DOMAIN t = 1 .. Len(t)
    BY <2>3
  <2> HIDE DEF t
  <2>5. ASSUME NEW i \in DOMAIN t PROVE t[i].age <= Window
    <3>1. m + i - 1 \in DOMAIN s /\ m \in DOMAIN s /\ m <= m + i - 1
      BY <1>0, <2>1, <2>3, <2>4
    <3>2. s[m].age >= s[m + i - 1].age
      BY <3>1 DEF Sorted
    <3>3. s[m].age \in Int /\ s[m + i - 1].age \in Int
      BY <1>0, <3>1 DEF Samples
    <3>4. t[i] = s[m + i - 1]
      BY <2>3, <2>4
    <3>5. Window \in Int
      OBVIOUS
    <3> QED BY ONLY <2>1, <3>2, <3>3, <3>4, <3>5
  <2>6. Sorted(t)
    <3> SUFFICES ASSUME NEW i \in DOMAIN t, NEW j \in DOMAIN t, i <= j
                 PROVE  t[i].age >= t[j].age
      BY DEF Sorted
    <3>1. m + i - 1 \in DOMAIN s /\ m + j - 1 \in DOMAIN s /\ m + i - 1 <= m + j - 1
      BY <1>0, <2>1, <2>3, <2>4
    <3> QED BY <2>3, <2>4, <3>1 DEF Sorted
  <2>7. Fresh(t) = DOMAIN t
    BY <2>5 DEF Fresh
  <2>8. Len(t) <= Len(s)
    BY <1>0, <2>1, <2>3
  <2> QED BY <2>2, <2>3, <2>6, <2>7, <2>8
<1> QED BY <1>1, <1>2

(* The same of a new sample.                                               *)
LEMMA RecordProperties ==
  ASSUME TypeOK, NEW ok \in BOOLEAN
  PROVE  /\ Record(ok) \in Seq(Samples)
         /\ Sorted(Record(ok))
         /\ Len(Record(ok)) <= Len(samples) + 1
         /\ Fresh(Record(ok)) = DOMAIN Record(ok)
<1> DEFINE e == [age |-> 0, ok |-> ok]
           s == Append(samples, e)
<1>1. e \in Samples /\ e.age = 0
  BY DEF Samples
<1>2. samples \in Seq(Samples) /\ Sorted(samples)
  BY DEF TypeOK
<1> HIDE DEF e
<1>3. /\ s \in Seq(Samples) /\ Len(s) = Len(samples) + 1
      /\ DOMAIN s = 1 .. Len(samples) + 1
      /\ \A i \in 1 .. Len(samples) : s[i] = samples[i]
      /\ s[Len(samples) + 1] = e
  BY <1>1, <1>2
<1> HIDE DEF s
<1>4. Sorted(s)
  <2> SUFFICES ASSUME NEW i \in DOMAIN s, NEW j \in DOMAIN s, i <= j
               PROVE  s[i].age >= s[j].age
    BY DEF Sorted
  <2>1. CASE j = Len(samples) + 1
    <3> s[i] \in Samples
      BY <1>3, ElementOfSeq
    <3> QED BY <1>1, <1>3, <2>1 DEF Samples
  <2>2. CASE j # Len(samples) + 1
    <3> i \in DOMAIN samples /\ j \in DOMAIN samples
      BY <1>2, <1>3, <2>2
    <3> QED BY <1>2, <1>3 DEF Sorted
  <2> QED BY <2>1, <2>2
<1>5. Record(ok) = Prune(s)
  BY DEF Record, s, e
<1> QED BY <1>3, <1>4, <1>5, PruneProperties

-----------------------------------------------------------------------------
(* Types, and how much evidence a closed breaker may have *)

Evidence ==
  state = "closed" => sinceClose = MinSamples \/ Len(samples) <= sinceClose

BreakerInv == TypeOK /\ Evidence

LEMMA BreakerInit == Init => BreakerInv
<1> SUFFICES ASSUME Init PROVE BreakerInv
  OBVIOUS
<1>1. TypeOK
  BY EmptySeq DEF Init, TypeOK, States, Sorted
<1>2. Evidence
  BY DEF Init, Evidence
<1> QED BY <1>1, <1>2 DEF BreakerInv

(* One more record is one more sample at most.                             *)
LEMMA OneMore ==
  ASSUME NEW n \in Nat, NEW m \in Nat, m <= n + 1,
         NEW count \in 0 .. 4, count = 4 \/ n <= count
  PROVE  LET more == IF count < 4 THEN count + 1 ELSE 4
         IN  more = 4 \/ m <= more
OBVIOUS

LEMMA BreakerNext == BreakerInv /\ [Next]_vars => BreakerInv'
<1> SUFFICES ASSUME BreakerInv, [Next]_vars PROVE BreakerInv'
  OBVIOUS
<1> USE DEF BreakerInv
<1>1. ASSUME NEW c \in Callers, ShouldAllow(c) \/ Answer(c) PROVE BreakerInv'
  BY <1>1 DEF ShouldAllow, Answer, Goto, TypeOK, States, Evidence
<1>0. /\ samples \in Seq(Samples) /\ Len(samples) \in Nat
      /\ sinceClose \in 0 .. MinSamples /\ state \in States
  BY DEF TypeOK
<1>2. ASSUME NEW c \in Callers, RecordSuccess(c) PROVE BreakerInv'
  <2>1. Record(TRUE) \in Seq(Samples) /\ Sorted(Record(TRUE))
    BY RecordProperties
  <2>2. << >> \in Seq(Samples) /\ Sorted(<< >>)
    BY EmptySeq DEF Sorted
  <2>3. samples' = Record(TRUE) \/ samples' = << >>
    BY <1>2 DEF RecordSuccess, AfterSuccess
  <2>4. Counted \in 0 .. MinSamples
    BY <1>0 DEF Counted
  <2>5. sinceClose' \in 0 .. MinSamples /\ state' \in States
    BY <1>2, <2>4 DEF RecordSuccess, StateAfterSuccess, States
  <2>6. TypeOK'
    BY <1>2, <2>1, <2>2, <2>3, <2>5 DEF RecordSuccess, TypeOK, Goto
  <2>7. CASE state = "closed"
    <3>1. samples' = Record(TRUE) /\ sinceClose' = Counted
      BY <1>2, <2>7 DEF RecordSuccess, AfterSuccess
    <3>2. Len(samples') <= Len(samples) + 1 /\ Len(samples') \in Nat
      BY <2>1, <3>1, RecordProperties, LenProperties
    <3>3. Evidence'
      BY <1>0, <2>7, <3>1, <3>2, OneMore DEF Evidence, Counted
    <3> QED BY <2>6, <3>3
  <2>8. CASE state # "closed"
    <3>1. samples' = << >> /\ sinceClose' = 0
      BY <1>2, <2>8 DEF RecordSuccess, AfterSuccess
    <3>2. Len(samples') <= sinceClose'
      BY ONLY <3>1
    <3> QED BY <2>6, <3>2 DEF Evidence
  <2> QED BY <2>7, <2>8
<1>3. ASSUME NEW c \in Callers, RecordFailure(c) PROVE BreakerInv'
  <2>1. samples' = Record(FALSE) /\ sinceClose' = Counted
    BY <1>3 DEF RecordFailure
  <2>2. /\ samples' \in Seq(Samples) /\ Sorted(samples')
        /\ Len(samples') <= Len(samples) + 1
    BY <2>1, RecordProperties
  <2>3. Len(samples') \in Nat
    BY <2>2, LenProperties
  <2>4. sinceClose' \in 0 .. MinSamples
    BY <1>0, <2>1 DEF Counted
  <2>5. \/ state' = "open" /\ openedAge' = 0
        \/ state' = state /\ openedAge' = openedAge
    BY <1>3 DEF RecordFailure
  <2>6. state' \in States /\ openedAge' \in 0 .. Break
    BY <2>5 DEF TypeOK, States
  <2>7. TypeOK'
    BY <1>3, <2>2, <2>4, <2>6 DEF RecordFailure, TypeOK, Goto
  <2>8. Evidence'
    <3> CASE state' = "closed"
      <4> state = "closed"
        BY <2>5
      <4> QED BY <1>0, <2>1, <2>2, <2>3, OneMore DEF Evidence, Counted
    <3> QED BY DEF Evidence
  <2> QED BY <2>7, <2>8
<1>4. CASE Tick
  <2>0. /\ Sorted(samples) /\ DOMAIN samples = 1 .. Len(samples)
        /\ \A i \in 1 .. Len(samples) : samples[i] \in Samples
    BY <1>0 DEF TypeOK
  <2> DEFINE older(x) == [x EXCEPT !.age = IF x.age <= Window THEN x.age + 1 ELSE x.age]
  <2>1. samples' = [i \in 1 .. Len(samples) |-> older(samples[i])]
    BY <1>4, <2>0 DEF Tick
  <2>2. ASSUME NEW x \in Samples
        PROVE  /\ older(x) \in Samples /\ x.age \in Int
               /\ older(x).age = IF x.age <= Window THEN x.age + 1 ELSE x.age
    BY DEF Samples
  <2> HIDE DEF older
  <2>3. samples' \in [1 .. Len(samples) -> Samples]
    BY <2>0, <2>1, <2>2
  <2>4. samples' \in Seq(Samples) /\ Len(samples') = Len(samples)
    BY <1>0, <2>3
  <2>5. Sorted(samples')
    <3> SUFFICES ASSUME NEW i \in DOMAIN samples, NEW j \in DOMAIN samples, i <= j
                 PROVE  samples'[i].age >= samples'[j].age
      BY <2>0, <2>3 DEF Sorted
    <3>1. samples[i] \in Samples /\ samples[j] \in Samples
      BY <2>0
    <3>2. samples[i].age >= samples[j].age
      BY <2>0 DEF Sorted
    <3>3. /\ samples'[i].age = older(samples[i]).age
          /\ samples'[j].age = older(samples[j]).age
      BY <2>0, <2>1
    <3>4. Window \in Int
      OBVIOUS
    <3> QED BY ONLY <2>2, <3>1, <3>2, <3>3, <3>4
  <2>6. openedAge' \in 0 .. Break
    BY <1>4 DEF Tick, TypeOK
  <2>7. TypeOK'
    BY <1>4, <2>4, <2>5, <2>6 DEF Tick, TypeOK
  <2>8. Evidence'
    BY <1>4, <2>4 DEF Tick, Evidence
  <2> QED BY <2>7, <2>8
<1>5. CASE ServerChanges
  BY <1>5 DEF ServerChanges, TypeOK, Evidence
<1>6. CASE UNCHANGED vars
  BY <1>6 DEF vars, TypeOK, Evidence
<1> QED BY <1>1, <1>2, <1>3, <1>4, <1>5, <1>6 DEF Next, Use

(* While fewer records than it needs to open were made since the breaker   *)
(* closed, it keeps no older samples beside them.                          *)
THEOREM BreakerInvHolds == Spec => []BreakerInv
BY BreakerInit, BreakerNext, PTL DEF Spec

(* TypeOK, the order of the samples included, is an invariant.             *)
THEOREM TypeCorrect == Spec => []TypeOK
<1>1. BreakerInv => TypeOK
  BY DEF BreakerInv
<1> QED BY <1>1, BreakerInvHolds, PTL

-----------------------------------------------------------------------------
(* How the breaker opens *)

LEMMA TripStep ==
  ASSUME BreakerInv, [Next]_vars, state = "closed", state' = "open"
  PROVE  /\ \E c \in Callers : RecordFailure(c)
         /\ Trips(samples')
         /\ samples' = Record(FALSE)
<1>1. PICK c \in Callers : RecordFailure(c)
  BY DEF Next, Use, ShouldAllow, Answer, RecordSuccess, StateAfterSuccess,
         Tick, ServerChanges, vars
<1> QED BY <1>1 DEF RecordFailure, Opens

(* The breaker opens only on enough failures within sampling_duration.     *)
THEOREM TripsOnFreshWindowHolds == Spec => TripsOnFreshWindow
<1>1. ASSUME BreakerInv, [Next]_vars, state = "closed", state' = "open"
      PROVE  /\ Fresh(samples') = DOMAIN samples'
             /\ Len(samples') >= MinSamples
             /\ RateReached(samples')
  BY <1>1, TripStep, RecordProperties DEF Trips, BreakerInv
<1> QED BY <1>1, BreakerInvHolds, PTL DEF Spec, TripsOnFreshWindow

(* It takes four records to open a breaker that just closed.               *)
THEOREM CleanAfterRecoveryHolds == Spec => CleanAfterRecovery
<1>1. ASSUME BreakerInv, [Next]_vars, state = "closed", state' = "open"
      PROVE  sinceClose' >= MinSamples
  <2>1. /\ Len(samples') >= MinSamples /\ Len(samples') <= Len(samples) + 1
        /\ samples' \in Seq(Samples)
    BY <1>1, TripStep, RecordProperties DEF Trips, BreakerInv
  <2>2. sinceClose' = Counted
    BY <1>1, TripStep DEF RecordFailure
  <2>3. Len(samples) \in Nat /\ Len(samples') \in Nat /\ sinceClose \in 0 .. MinSamples
    BY <1>1, <2>1, LenProperties DEF BreakerInv, TypeOK
  <2> QED BY <1>1, <2>1, <2>2, <2>3 DEF BreakerInv, Evidence, Counted
<1> QED BY <1>1, BreakerInvHolds, PTL DEF Spec, CleanAfterRecovery

(* A late failure does not prolong the break.                              *)
THEOREM OpenNotExtendedHolds == Spec => OpenNotExtended
<1>1. ASSUME BreakerInv, [Next]_vars, state = "open", state' = "open"
      PROVE  openedAge' >= openedAge
  <2>1. openedAge \in Int
    BY <1>1 DEF BreakerInv, TypeOK
  <2>2. CASE Tick
    BY <2>1, <2>2 DEF Tick
  <2>3. ASSUME NEW c \in Callers, Use(c) PROVE openedAge' = openedAge
    BY <1>1, <2>3 DEF Use, ShouldAllow, Answer, RecordSuccess, RecordFailure,
                      Opens, Trips
  <2>4. CASE ServerChanges \/ UNCHANGED vars
    BY <2>1, <2>4 DEF ServerChanges, vars
  <2> QED BY <1>1, <2>1, <2>2, <2>3, <2>4 DEF Next
<1> QED BY <1>1, BreakerInvHolds, PTL DEF Spec, OpenNotExtended

-----------------------------------------------------------------------------
(* A breaker with one caller *)

(* Nobody is on the way while the breaker of a lone caller is open.        *)
LoneInv == state = "open" => \A c \in Callers : pc[c] = "idle"

LEMMA LoneNext ==
  ASSUME BreakerInv, LoneInv, [Next]_vars, \A c, d \in Callers : c = d
  PROVE  LoneInv'
<1> USE DEF BreakerInv, TypeOK, LoneInv
<1>1. ASSUME NEW c \in Callers, Use(c) PROVE LoneInv'
  <2>1. state' = "open" => pc' = [pc EXCEPT ![c] = "idle"] \/ pc' = pc
    BY <1>1 DEF Use, ShouldAllow, Answer, RecordSuccess, StateAfterSuccess,
                RecordFailure, Goto
  <2>2. \A d \in Callers : d = c
    OBVIOUS
  <2>3. state' = "open" /\ pc' = pc => state = "open"
    BY <1>1 DEF Use, ShouldAllow, Answer, RecordSuccess, StateAfterSuccess,
                RecordFailure, Goto
  <2> QED BY <2>1, <2>2, <2>3
<1>2. CASE Tick \/ ServerChanges \/ UNCHANGED vars
  BY <1>2 DEF Tick, ServerChanges, vars
<1> QED BY <1>1, <1>2 DEF Next

(* The break is served in full when the breaker has only one caller.       *)
THEOREM OpenHoldsForLoneCaller ==
  (\A c, d \in Callers : c = d) => (Spec => OpenHoldsForBreak)
<1> SUFFICES ASSUME \A c, d \in Callers : c = d PROVE Spec => OpenHoldsForBreak
  OBVIOUS
<1>1. Init => LoneInv
  BY DEF Init, LoneInv
<1>2. BreakerInv /\ LoneInv /\ [Next]_vars => LoneInv'
  BY LoneNext
<1>3. ASSUME LoneInv, [Next]_vars, state = "open", state' # "open"
      PROVE  openedAge >= Break
  BY <1>3 DEF LoneInv, Next, Use, ShouldAllow, Allowed, BreakOver, Answer,
              RecordSuccess, RecordFailure, Tick, ServerChanges, vars
<1> QED BY <1>1, <1>2, <1>3, BreakerInvHolds, PTL DEF Spec, OpenHoldsForBreak
=============================================================================
