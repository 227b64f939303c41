--------------------------- MODULE ReadPathProofs --------------------------
(* Theorems of ReadPath, for any callers, endpoints and max_retries.       *)
EXTENDS ReadPath, EndpointResolverProofs

(* What came back of a request without a response.                         *)
NoResponse == {"timeout", "transport", "broken"}

ReadTypes ==
  /\ at \in [Callers -> {"idle", "resolve", "attempt", "sleep", "classify", "return"}]
  /\ attempt \in [Callers -> 0 .. MaxRetries]
  /\ last \in [Callers -> AllAnswers \cup {"none"}]
  /\ requests \in [Callers -> Nat]
  /\ outcome \in [Callers -> {"none", "result", "empty", "auth", "config", "network",
                              "timeout", "exception", "base"}]
  /\ reported \in [Callers -> BOOLEAN] /\ httpOpen \in BOOLEAN

(* One read, place by place: the requests are counted by the loop variable,*)
(* a sleeping read has an attempt left, and only the end reports.          *)
Before(c) ==
  at[c] \in {"idle", "resolve"} =>
    attempt[c] = 0 /\ requests[c] = 0 /\ last[c] = "none" /\ ~reported[c]

InLoop(c) ==
  at[c] \in {"attempt", "sleep", "classify"} =>
    /\ result[c] # None /\ ~reported[c]
    /\ requests[c] = IF at[c] = "attempt" THEN attempt[c] ELSE attempt[c] + 1
    /\ at[c] = "sleep" => attempt[c] < MaxRetries
    /\ at[c] = "classify" => last[c] \in Response

Over(c) ==
  at[c] = "return" =>
    /\ requests[c] \in attempt[c] .. attempt[c] + 1
    /\ requests[c] > 0 => result[c] # None
    /\ reported[c] <=> last[c] \in NoResponse /\ requests[c] = MaxRetries + 1
    /\ last[c] \notin {"none", "ok", "redirect", "broken", "interrupt"}
         => IsLogDBError(outcome[c])

CallerInv(c) ==
  /\ pc[c] # "idle" <=> at[c] = "resolve"
  /\ Before(c) /\ InLoop(c) /\ Over(c)

ReadInv == CacheInv /\ ReadTypes /\ \A c \in Callers : CallerInv(c)

-----------------------------------------------------------------------------
(* What becomes of an answer: an answer that is no response is one to try  *)
(* again after, or an interrupt.                                           *)
LEMMA AnswerErrors ==
  ASSUME NEW a \in AllAnswers \ {"discovery"}
  PROVE  /\ a \notin Response =>
              a \in NoResponse \cup {"interrupt"}
         /\ a \in NoResponse => Retryable(ErrorOf(a)) /\ ErrorOf(a) # "base"
         /\ a = "interrupt" => ~Retryable(ErrorOf(a)) /\ ErrorOf(a) = "base"
         /\ ErrorOf(a) \in {"none", "auth", "config", "network", "timeout",
                            "exception", "base"}
         /\ a \notin {"ok", "redirect", "broken", "interrupt"} => IsLogDBError(ErrorOf(a))
BY DEF AllAnswers, Response, NoResponse, ErrorOf, PassesStatus, HttpError,
       RequestError, Retryable, IsLogDBError

LEMMA DataTypes ==
  ASSUME NEW m \in Methods, NEW body \in Bodies
  PROVE  DataOf(m, body) \in {"exception", "result", "empty"}
BY DEF DataOf

LEMMA ReadStart == ReadInit => ReadInv
<1> SUFFICES ASSUME ReadInit PROVE ReadInv
  OBVIOUS
<1>1. CacheInv
  BY CacheStart DEF ReadInit
<1>2. ReadTypes
  BY ReadPathAssumption DEF ReadInit, ReadTypes, ReadPathAssumption
<1>3. \A c \in Callers : CallerInv(c)
  BY DEF ReadInit, Init, CallerInv, Before, InLoop, Over
<1> QED
  BY <1>1, <1>2, <1>3 DEF ReadInv

(* Every step of a reader is one of its resolver or none.                  *)
LEMMA ResolverSteps == [ReadNext]_readVars => [Next]_vars
BY DEF ReadNext, readVars, Call, Continue, Resolving, Unserialisable, Request, Retry,
       SleepInterrupted, Classify, Leave, CloseReader, Next, Step

(* A step of one caller leaves alone what the others are doing.            *)
LEMMA OthersUnchanged ==
  ASSUME NEW c \in Callers, NEW d \in Callers \ {c}, ReadTypes, CacheInv,
         CallerInv(d),
         at'[d] = at[d], pc'[d] = pc[d], attempt'[d] = attempt[d], last'[d] = last[d],
         requests'[d] = requests[d], outcome'[d] = outcome[d],
         reported'[d] = reported[d], result'[d] = result[d]
  PROVE  CallerInv(d)'
BY DEF CallerInv, Before, InLoop, Over

LEMMA ReadStep == ReadInv /\ [ReadNext]_readVars => ReadInv'
<1> SUFFICES ASSUME ReadInv, [ReadNext]_readVars PROVE ReadInv'
  OBVIOUS
<1>0. CacheInv /\ ReadTypes /\ \A c \in Callers : CallerInv(c)
  BY DEF ReadInv
<1>c. CacheInv'
  BY <1>0, ResolverSteps, CacheStep
<1>m. MaxRetries \in Nat /\ Answers \subseteq AllAnswers \ {"discovery"}
  BY ReadPathAssumption DEF ReadPathAssumption
<1>t. TypeOK /\ ReturnsEndpoint
  BY <1>0 DEF CacheInv
(* What is left of a step of c: the types and what c knows of itself.      *)
<1>s. ASSUME NEW c \in Callers, ReadTypes', CallerInv(c)',
             \A d \in Callers \ {c} :
               /\ at'[d] = at[d] /\ pc'[d] = pc[d] /\ attempt'[d] = attempt[d]
               /\ last'[d] = last[d] /\ requests'[d] = requests[d]
               /\ outcome'[d] = outcome[d] /\ reported'[d] = reported[d]
               /\ result'[d] = result[d]
      PROVE  ReadInv'
  BY <1>0, <1>c, <1>s, OthersUnchanged DEF ReadInv
<1>1. ASSUME NEW c \in Callers, Call(c) PROVE ReadInv'
  <2>1. ReadTypes'
    BY <1>0, <1>1 DEF Call, Moves, ReadTypes
  <2>2. CallerInv(c)'
    BY <1>0, <1>1, <1>t DEF Call, Moves, Resolve, Goto, ReadTypes, TypeOK, CallerInv,
                            Before, InLoop, Over
  <2> QED
    BY <1>s, <1>1, <1>0, <1>t, <2>1, <2>2 DEF Call, Moves, Resolve, Goto, ReadTypes, TypeOK
<1>2. ASSUME NEW c \in Callers, Resolving(c) PROVE ReadInv'
  <2> USE <1>0, <1>t DEF Moves, Goto, ReadTypes, TypeOK
  <2>1. CASE (Test(c) \/ DiscoverOk(c) \/ Assign(c)) /\ UNCHANGED <<at, last, outcome>>
    <3>1. ReadTypes'
      BY <1>2, <2>1 DEF Resolving
    <3>2. pc[c] # "idle" /\ pc'[c] # "idle" /\ result' = result
          /\ \A d \in Callers \ {c} : pc'[d] = pc[d]
      BY <2>1 DEF Test, DiscoverOk, Assign
    <3>3. CallerInv(c)'
      BY <1>2, <2>1, <3>2 DEF Resolving, CallerInv, Before, InLoop, Over
    <3> QED
      BY <1>s, <1>2, <2>1, <3>1, <3>2, <3>3 DEF Resolving
  <2>2. CASE DiscoverFails(c) /\ CameBack(c, "discovery") /\ Ends(c, "config")
    <3>1. ReadTypes'
      BY <1>2, <2>2 DEF Resolving, CameBack, Ends, AllAnswers
    <3>2. CallerInv(c)'
      BY <1>2, <2>2, <1>m DEF Resolving, CameBack, Ends, DiscoverFails, AfterError, CallerInv,
                        Before, InLoop, Over, NoResponse, IsLogDBError
    <3> QED
      BY <1>s, <1>2, <2>2, <3>1, <3>2 DEF Resolving, CameBack, Ends, DiscoverFails
  <2>3. CASE Return(c) /\ Moves(c, "attempt") /\ UNCHANGED <<last, outcome>>
    <3>1. ReadTypes'
      BY <1>2, <2>3 DEF Resolving
    <3>2. result'[c] # None /\ pc'[c] = "idle"
      BY <2>3 DEF Return, ReturnsEndpoint
    <3>3. CallerInv(c)'
      BY <1>2, <2>3, <3>2 DEF Resolving, CallerInv, Before, InLoop, Over
    <3> QED
      BY <1>s, <1>2, <2>3, <3>1, <3>3 DEF Resolving, Return
  <2> QED
    BY <1>2, <2>1, <2>2, <2>3 DEF Resolving
(* The places of the loop and after it leave the resolver alone.           *)
<1>3. ASSUME NEW c \in Callers, Unserialisable(c) PROVE ReadInv'
  <2> USE <1>0, <1>t, <1>3, <1>m DEF Unserialisable, CameBack, Ends, Moves, ReadTypes, TypeOK, vars
  <2>1. ReadTypes'
    OBVIOUS
  <2>2. CallerInv(c)'
    BY DEF CallerInv, Before, InLoop, Over, NoResponse
  <2> QED
    BY <1>s, <2>1, <2>2
<1>4. ASSUME NEW c \in Callers, Request(c) PROVE ReadInv'
  <2> USE <1>0, <1>t, <1>m DEF Moves, ReadTypes, TypeOK
  <2>1. PICK a \in AllAnswers \ {"discovery"} :
          /\ CameBack(c, a)
          /\ IF a \in Response
             THEN Moves(c, "classify") /\ UNCHANGED <<outcome, reported>>
             ELSE IF Retryable(ErrorOf(a)) /\ ~LastAttempt(c)
             THEN Moves(c, "sleep") /\ UNCHANGED <<outcome, reported>>
             ELSE /\ Ends(c, ErrorOf(a))
                  /\ reported' = [reported EXCEPT ![c] = ErrorOf(a) # "base"]
    BY <1>4, "broken" \in AllAnswers \ {"discovery"} DEF Request, AllAnswers
  <2>2. at[c] = "attempt" /\ requests[c] = attempt[c] /\ attempt' = attempt
        /\ requests' = [requests EXCEPT ![c] = attempt[c] + 1]
    <3>1. at[c] = "attempt" /\ requests[c] = attempt[c] /\ attempt[c] \in 0 .. MaxRetries
      BY <1>4 DEF Request, CallerInv, InLoop
    <3>2. attempt[c] < MaxRetries + 2
      BY <3>1
    <3> QED
      BY <1>4, <3>1, <3>2 DEF Request
  <2>3. UNCHANGED <<pc, result, httpOpen>> /\ result[c] # None /\ ~reported[c] /\ pc[c] = "idle"
    BY <1>4, <2>2 DEF Request, vars, CallerInv, InLoop
  <2>4. CASE a \in Response
    <3>1. at' = [at EXCEPT ![c] = "classify"] /\ UNCHANGED <<outcome, reported>>
          /\ last' = [last EXCEPT ![c] = a]
      BY <2>1, <2>4 DEF CameBack
    <3>2. ReadTypes'
      BY <2>2, <2>3, <3>1
    <3>3. CallerInv(c)'
      BY <2>2, <2>3, <2>4, <3>1 DEF CallerInv, Before, InLoop, Over
    <3> QED
      BY <1>s, <2>2, <2>3, <3>1, <3>2, <3>3
  <2>5. CASE a \notin Response /\ Retryable(ErrorOf(a)) /\ ~LastAttempt(c)
    <3>1. at' = [at EXCEPT ![c] = "sleep"] /\ UNCHANGED <<outcome, reported>>
          /\ last' = [last EXCEPT ![c] = a]
      BY <2>1, <2>5 DEF CameBack
    <3>2. attempt[c] < MaxRetries
      BY <2>5 DEF LastAttempt
    <3>3. ReadTypes'
      BY <2>2, <2>3, <3>1
    <3>4. CallerInv(c)'
      BY <2>2, <2>3, <3>1, <3>2 DEF CallerInv, Before, InLoop, Over
    <3> QED
      BY <1>s, <2>2, <2>3, <3>1, <3>3, <3>4
  <2>6. CASE a \notin Response /\ ~(Retryable(ErrorOf(a)) /\ ~LastAttempt(c))
    <3>1. /\ at' = [at EXCEPT ![c] = "return"]
          /\ last' = [last EXCEPT ![c] = a]
          /\ outcome' = [outcome EXCEPT ![c] = ErrorOf(a)]
          /\ reported' = [reported EXCEPT ![c] = ErrorOf(a) # "base"]
      BY <2>1, <2>6 DEF CameBack, Ends
    <3>2. a \in NoResponse \cup {"interrupt"} /\ (a \in NoResponse => attempt[c] = MaxRetries)
      <4>1. a \in NoResponse => LastAttempt(c)
        BY <2>6, AnswerErrors
      <4> QED
        BY <2>6, <4>1, AnswerErrors DEF LastAttempt
    <3>3. ReadTypes'
      BY <2>2, <2>3, <3>1, AnswerErrors
    <3>4. /\ reported'[c] = (a \in NoResponse)
          /\ a \notin {"ok", "redirect", "broken", "interrupt"} => IsLogDBError(ErrorOf(a))
      BY <3>1, <3>2, AnswerErrors DEF NoResponse
    <3>5. Over(c)'
      <4>1. /\ last'[c] = a /\ outcome'[c] = ErrorOf(a) /\ result'[c] # None
            /\ requests'[c] = attempt'[c] + 1 /\ attempt'[c] \in 0 .. MaxRetries
            /\ reported'[c] <=> a \in NoResponse
        BY <2>2, <2>3, <3>1, <3>4
      <4>2. requests'[c] \in attempt'[c] .. attempt'[c] + 1
        BY <4>1
      <4>3. a \in NoResponse => requests'[c] = MaxRetries + 1
        BY <2>2, <3>2, <4>1
      <4>4. reported'[c] <=> last'[c] \in NoResponse /\ requests'[c] = MaxRetries + 1
        BY <4>1, <4>3
      <4> HIDE <1>0, <1>t, <1>m
      <4> QED
        BY <3>4, <4>1, <4>2, <4>4 DEF Over
    <3>6. CallerInv(c)'
      BY <2>3, <3>1, <3>5 DEF CallerInv, Before, InLoop
    <3> QED
      BY <1>s, <2>2, <2>3, <3>1, <3>3, <3>6
  <2> QED
    BY <2>4, <2>5, <2>6
<1>5. ASSUME NEW c \in Callers, Retry(c) PROVE ReadInv'
  <2> USE <1>0, <1>t, <1>5, <1>m DEF Retry, NextAttempt, Moves, ReadTypes, TypeOK, vars
  <2>1. attempt[c] < MaxRetries
    BY DEF CallerInv, InLoop
  <2>2. ReadTypes'
    BY <2>1
  <2>3. CallerInv(c)'
    BY <2>1 DEF CallerInv, Before, InLoop, Over
  <2> QED
    BY <1>s, <2>2, <2>3
<1>6. ASSUME NEW c \in Callers, SleepInterrupted(c) PROVE ReadInv'
  <2> USE <1>0, <1>t, <1>6, <1>m DEF SleepInterrupted, CameBack, Ends, Moves, ReadTypes, TypeOK, vars
  <2>1. ReadTypes'
    OBVIOUS
  <2>2. CallerInv(c)'
    BY DEF CallerInv, Before, InLoop, Over, NoResponse
  <2> QED
    BY <1>s, <2>1, <2>2
<1>7. ASSUME NEW c \in Callers, Classify(c) PROVE ReadInv'
  <2> USE <1>0, <1>t, <1>m DEF Moves, ReadTypes, TypeOK
  <2>1. at[c] = "classify" /\ last[c] \in Response /\ ~reported[c]
        /\ UNCHANGED <<pc, result, attempt, last, requests, reported, httpOpen>>
    BY <1>7 DEF Classify, CallerInv, InLoop, vars
  <2>2. PICK result_ \in {"result", "empty", "exception"} \cup
                         (IF Passes(last[c]) THEN {} ELSE {ErrorOf(last[c])}) :
          /\ at' = [at EXCEPT ![c] = "return"]
          /\ outcome' = [outcome EXCEPT ![c] = result_]
          /\ ~Passes(last[c]) => result_ = ErrorOf(last[c])
    BY <1>7, DataTypes DEF Classify, Ends
  <2>3. last[c] \in AllAnswers \ {"discovery"}
    BY <2>1 DEF Response, AllAnswers
  <2>4. ReadTypes'
    BY <2>1, <2>2, <2>3, AnswerErrors
  <2>5. last[c] \notin {"ok", "redirect"} => IsLogDBError(result_)
    <3>1. last[c] \notin {"broken", "interrupt"}
      BY <2>1 DEF Response
    <3> QED
      BY <2>2, <2>3, <3>1, AnswerErrors DEF Passes, PassesStatus
  <2>6. CallerInv(c)'
    BY <2>1, <2>2, <2>5 DEF CallerInv, Before, InLoop, Over, NoResponse, Response
  <2> QED
    BY <1>s, <2>1, <2>2, <2>4, <2>6
<1>8. ASSUME NEW c \in Callers, Leave(c) PROVE ReadInv'
  <2> USE <1>0, <1>t, <1>8, <1>m DEF Leave, Moves, ReadTypes, TypeOK, vars
  <2>1. ReadTypes'
    OBVIOUS
  <2>2. CallerInv(c)'
    BY DEF CallerInv, Before, InLoop, Over
  <2> QED
    BY <1>s, <2>1, <2>2
<1>9. CASE CloseReader \/ (ServiceChanges /\ UNCHANGED <<read, httpOpen>>) \/ UNCHANGED readVars
  <2>1. UNCHANGED <<pc, result, read>> /\ httpOpen' \in BOOLEAN
    BY <1>0, <1>9 DEF CloseReader, ServiceChanges, readVars, read, vars, ReadTypes
  <2> QED
    BY <1>0, <1>c, <2>1 DEF ReadInv, ReadTypes, CallerInv, Before, InLoop, Over, read
<1> QED
  BY <1>1, <1>2, <1>3, <1>4, <1>5, <1>6, <1>7, <1>8, <1>9 DEF ReadNext, Continue

LEMMA ReadInvHolds == ReadSpec => []ReadInv
BY ReadStart, ReadStep, PTL DEF ReadSpec

-----------------------------------------------------------------------------
(* Types; a request is out at most max_retries + 1 times, and none before  *)
(* the endpoint is known (_post and _get of both readers).                 *)
THEOREM ReadTypeCorrect == ReadSpec => []ReadTypeOK
<1>1. ReadInv => ReadTypeOK
  <2> SUFFICES ASSUME ReadInv PROVE ReadTypeOK
    OBVIOUS
  <2>1. \A c \in Callers : /\ requests[c] \in attempt[c] .. attempt[c] + 1
                           /\ requests[c] > 0 => result[c] # None
                           /\ pc[c] # "idle" <=> at[c] = "resolve"
    BY ReadPathAssumption DEF ReadPathAssumption, ReadInv, ReadTypes, CallerInv, Before,
                              InLoop, Over
  <2> QED
    BY <2>1 DEF ReadInv, CacheInv, ReadTypes, ReadTypeOK
<1> QED
  BY <1>1, ReadInvHolds, PTL

(* on_error hears of a read exactly when it failed without a response and  *)
(* its retries are used up.                                                *)
THEOREM ReportedWhenExhaustedHolds == ReadSpec => []ReportedWhenExhausted
<1>1. ReadInv => ReportedWhenExhausted
  BY DEF ReadInv, ReadTypes, CallerInv, Before, InLoop, Over, NoResponse,
         ReportedWhenExhausted
<1> QED
  BY <1>1, ReadInvHolds, PTL

(* What goes wrong in discovery, on the network or at the server ends in a *)
(* LogDBError, never in data.                                              *)
THEOREM FailuresAreLogDBErrorsHold == ReadSpec => []FailuresAreLogDBErrors
<1>1. ReadInv => FailuresAreLogDBErrors
  BY DEF ReadInv, CallerInv, Over, FailuresAreLogDBErrors
<1> QED
  BY <1>1, ReadInvHolds, PTL

(* The resolver inside a reader behaves as EndpointResolver describes it,  *)
(* so that what is proved of it holds in a reader.                         *)
THEOREM ReaderUsesResolver == ReadSpec => Spec
<1>1. ReadInit => Init
  BY DEF ReadInit
<1> QED
  BY <1>1, ResolverSteps, PTL DEF ReadSpec, Spec
=============================================================================
