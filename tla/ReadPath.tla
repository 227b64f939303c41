------------------------------ MODULE ReadPath -----------------------------
(***************************************************************************)
(* LogDBReader and AsyncLogDBReader (src/logdbhq/reader.py): the threads   *)
(* or tasks that read through one reader share its EndpointResolver and    *)
(* its HTTP client.                                                        *)
(*                                                                         *)
(* Unlike the writers a reader resolves the endpoint once, before the      *)
(* retry loop; only an exception of the HTTP client is retried and given   *)
(* to on_error; the status of a response, its JSON and the rows in it are  *)
(* looked at behind the loop.                                              *)
(***************************************************************************)
EXTENDS EndpointResolver, Classification

CONSTANTS
  MaxRetries,   \* max_retries
  Answers       \* what may come back from a request

ASSUME ReadPathAssumption ==
  /\ MaxRetries \in Nat
  /\ Answers \subseteq AllAnswers \ {"discovery"}

VARIABLES
  at,        \* where a read is
  attempt,   \* the loop variable of call_with_retry
  last,      \* what came back last
  requests,  \* history: how many requests went out, saturated
  outcome,   \* what the caller gets: data, or the kind of an exception
  reported,  \* on_error was called
  httpOpen   \* _http is not closed

read     == <<at, attempt, last, requests, outcome, reported>>
readVars == <<vars, read, httpOpen>>

ReadInit ==
  /\ Init
  /\ at       = [c \in Callers |-> "idle"]
  /\ attempt  = [c \in Callers |-> 0]
  /\ last     = [c \in Callers |-> "none"]
  /\ requests = [c \in Callers |-> 0]
  /\ outcome  = [c \in Callers |-> "none"]
  /\ reported = [c \in Callers |-> FALSE]
  /\ httpOpen = TRUE

-----------------------------------------------------------------------------

Moves(c, place) == at' = [at EXCEPT ![c] = place]

Ends(c, result_) == Moves(c, "return") /\ outcome' = [outcome EXCEPT ![c] = result_]

CameBack(c, a) == last' = [last EXCEPT ![c] = a]

(* Any of the get methods: _post() or _get() begins with the endpoint.     *)
Call(c) ==
  /\ at[c] = "idle"
  /\ Resolve(c)
  /\ Moves(c, "resolve")
  /\ UNCHANGED <<attempt, last, requests, outcome, reported, httpOpen>>

(* A failed discovery is raised as it is.                                  *)
Resolving(c) ==
  /\ at[c] = "resolve"
  /\ \/ (Test(c) \/ DiscoverOk(c) \/ Assign(c)) /\ UNCHANGED <<at, last, outcome>>
     \/ DiscoverFails(c) /\ CameBack(c, "discovery") /\ Ends(c, "config")
     \/ Return(c) /\ Moves(c, "attempt") /\ UNCHANGED <<last, outcome>>
  /\ UNCHANGED <<attempt, requests, reported, httpOpen>>

(* The parameters cannot be serialised.                                    *)
Unserialisable(c) ==
  /\ at[c] = "attempt" /\ attempt[c] = 0
  /\ CameBack(c, "none")
  /\ Ends(c, "exception")
  /\ UNCHANGED <<vars, attempt, requests, reported, httpOpen>>

Response == {"ok", "redirect", "auth", "rejected", "other4xx", "server"}

LastAttempt_Beyond(c) == attempt[c] > MaxRetries     \* fault: off by one
LastAttempt_Early(c) == attempt[c] + 1 >= MaxRetries   \* fault: one less
LastAttempt(c) == attempt[c] >= MaxRetries

(* A response leaves the loop, whatever its status.                        *)
Request(c) ==
  /\ at[c] = "attempt"
  /\ requests' = [requests EXCEPT ![c] = IF @ < MaxRetries + 2 THEN @ + 1 ELSE @]
  /\ \E a \in IF httpOpen THEN Answers ELSE {"broken"} :
       /\ CameBack(c, a)
       /\ IF a \in Response
          THEN Moves(c, "classify") /\ UNCHANGED <<outcome, reported>>
          ELSE IF Retryable(ErrorOf(a)) /\ ~LastAttempt(c)
          THEN Moves(c, "sleep") /\ UNCHANGED <<outcome, reported>>
          ELSE /\ Ends(c, ErrorOf(a))
               /\ reported' = [reported EXCEPT ![c] = ErrorOf(a) # "base"]
  /\ UNCHANGED <<vars, attempt, httpOpen>>

NextAttempt(c) == attempt[c] + 1

Retry(c) ==
  /\ at[c] = "sleep"
  /\ attempt' = [attempt EXCEPT ![c] = NextAttempt(c)]
  /\ Moves(c, "attempt")
  /\ UNCHANGED <<vars, last, requests, outcome, reported, httpOpen>>

SleepInterrupted(c) ==
  /\ at[c] = "sleep"
  /\ "interrupt" \in Answers
  /\ CameBack(c, "interrupt")
  /\ Ends(c, "base")
  /\ UNCHANGED <<vars, attempt, requests, reported, httpOpen>>

Passes_Any(a) == TRUE                          \* fault: the status is ignored
Passes(a) == PassesStatus(a)

-----------------------------------------------------------------------------
(* What a body becomes.  page: an object with a list of objects as items.  *)
(* rows: such a list.  object: one without items.  oddPage: one whose      *)
(* items or totals are of another type.  scalar, null.                     *)

Bodies == {"page", "rows", "object", "oddPage", "scalar", "null", "notJson"}
Methods == {"query", "collections", "status"}

Understood(m) ==
  CASE m = "query"       -> {"page", "rows"}
    [] m = "collections" -> {"page", "rows"}
    [] m = "status"      -> {"page", "object", "oddPage"}

(* _inflate_log_page() chokes on what get_collections() and                *)
(* get_event_log_status() take for nothing at all.                         *)
Chokes(m, body) == \/ body = "notJson"
                   \/ m = "query" /\ body \in {"oddPage", "scalar"}

DataOf(m, body) == IF Chokes(m, body) THEN "exception"
                   ELSE IF body \in Understood(m) THEN "result" ELSE "empty"

(* raise_for_status(), response.json() and the rows: a redirect may carry  *)
(* JSON.  Which method it was matters only here.                           *)
Classify(c) ==
  /\ at[c] = "classify"
  /\ IF Passes(last[c])
     THEN \E m \in Methods : \E body \in Bodies : Ends(c, DataOf(m, body))
     ELSE Ends(c, ErrorOf(last[c]))
  /\ UNCHANGED <<vars, attempt, last, requests, reported, httpOpen>>

Leave(c) ==
  /\ at[c] = "return"
  /\ Moves(c, "idle")
  /\ attempt'  = [attempt EXCEPT ![c] = 0]
  /\ last'     = [last EXCEPT ![c] = "none"]
  /\ requests' = [requests EXCEPT ![c] = 0]
  /\ outcome'  = [outcome EXCEPT ![c] = "none"]
  /\ reported' = [reported EXCEPT ![c] = FALSE]
  /\ UNCHANGED <<vars, httpOpen>>

(* close(): what is sent later raises, what is on its way may fail.        *)
CloseReader == httpOpen /\ httpOpen' = FALSE /\ UNCHANGED <<vars, read>>

Continue(c) == \/ Resolving(c) \/ Unserialisable(c) \/ Request(c) \/ Retry(c)
               \/ SleepInterrupted(c) \/ Classify(c) \/ Leave(c)

ReadNext == \/ \E c \in Callers : Call(c) \/ Continue(c)
            \/ CloseReader
            \/ ServiceChanges /\ UNCHANGED <<read, httpOpen>>

ReadSpec == ReadInit /\ [][ReadNext]_readVars

(* Requests and sleeps end, and an application that reads keeps reading.   *)
ReadFairSpec == ReadSpec /\ \A c \in Callers : WF_readVars(Call(c) \/ Continue(c))

-----------------------------------------------------------------------------
(* Properties *)

(* Types; a request is out at most max_retries + 1 times, and none before  *)
(* the endpoint is known.                                                  *)
ReadTypeOK ==
  /\ TypeOK
  /\ at \in [Callers -> {"idle", "resolve", "attempt", "sleep", "classify", "return"}]
  /\ attempt \in [Callers -> 0 .. MaxRetries]
  /\ last \in [Callers -> AllAnswers \cup {"none"}]
  /\ outcome \in [Callers -> {"none", "result", "empty", "auth", "config", "network",
                              "timeout", "exception", "base"}]
  /\ reported \in [Callers -> BOOLEAN] /\ httpOpen \in BOOLEAN
  /\ \A c \in Callers :
       /\ requests[c] \in attempt[c] .. attempt[c] + 1
       /\ requests[c] > 0 => result[c] # None
       /\ pc[c] # "idle" <=> at[c] = "resolve"

(* on_error hears of a read exactly when it failed without a response and  *)
(* its retries are used up: never of one that was answered, nor of one     *)
(* that can go on, nor of a failed discovery.                              *)
ReportedWhenExhausted ==
  \A c \in Callers :
    reported[c] <=> /\ at[c] = "return"
                    /\ last[c] \in {"timeout", "transport", "broken"}
                    /\ requests[c] = MaxRetries + 1

(* "Catch LogDBError or one of its subclasses to handle failures           *)
(* uniformly": what goes wrong in discovery, on the network or at the      *)
(* server never ends in data, not even in an empty page, nor in an         *)
(* exception of another kind.  (A body that is not what was asked for may: *)
(* see DataOf.)                                                            *)
FailuresAreLogDBErrors ==
  \A c \in Callers :
    at[c] = "return" /\ last[c] \notin {"none", "ok", "redirect", "broken", "interrupt"}
      => IsLogDBError(outcome[c])
=============================================================================
