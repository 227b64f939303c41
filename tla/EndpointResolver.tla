-------------------------- MODULE EndpointResolver -------------------------
(***************************************************************************)
(* EndpointResolver of src/logdbhq/discovery.py: the write-once cache in   *)
(* front of the discovery service, and the threads or tasks that resolve   *)
(* the endpoint before each request.  An explicit endpoint is one that is  *)
(* cached from the beginning.                                              *)
(*                                                                         *)
(* There is no lock: the test of _cached, the request, the assignment and  *)
(* the read that returns are steps of their own.  The discovery service is *)
(* not part of src/: it answers with some endpoint, which may change, or   *)
(* fails; it is up for good or not.                                        *)
(***************************************************************************)
EXTENDS Naturals, FiniteSets

CONSTANTS
  Callers,
  Endpoints,     \* what the service may answer
  None

ASSUME ResolverAssumption == None \notin Endpoints

VARIABLES
  cached,     \* _explicit, or _cached
  pc,         \* where a caller is in resolve_sync() or resolve_async()
  found,      \* the endpoint that discovery returned to a caller
  result,     \* what the last resolution of a caller returned
  knew,       \* history: _cached when the caller entered
  serviceUp   \* does every discovery succeed?

vars == <<cached, pc, found, result, knew, serviceUp>>

Init ==
  /\ cached \in Endpoints \cup {None}
  /\ pc     = [c \in Callers |-> "idle"]
  /\ found  = [c \in Callers |-> None]
  /\ result = [c \in Callers |-> None]
  /\ knew   = [c \in Callers |-> None]
  /\ serviceUp \in BOOLEAN

Goto(c, place) == pc' = [pc EXCEPT ![c] = place]

-----------------------------------------------------------------------------

Resolve(c) ==
  /\ pc[c] = "idle"
  /\ Goto(c, "test")
  /\ knew'   = [knew EXCEPT ![c] = cached]
  /\ result' = [result EXCEPT ![c] = None]
  /\ UNCHANGED <<cached, found, serviceUp>>

NeedsDiscovery_Always == TRUE   \* fault: the cache is not consulted
NeedsDiscovery == cached = None

Test(c) ==
  /\ pc[c] = "test"
  /\ Goto(c, IF NeedsDiscovery THEN "discover" ELSE "return")
  /\ UNCHANGED <<cached, found, result, knew, serviceUp>>

DiscoverOk(c) ==
  /\ pc[c] = "discover"
  /\ \E e \in Endpoints : found' = [found EXCEPT ![c] = e]
  /\ Goto(c, "assign")
  /\ UNCHANGED <<cached, result, knew, serviceUp>>

(* The service cannot be reached, does not answer 200 or answers with what *)
(* is no URL: the exception leaves resolve and nothing is remembered.      *)
AfterError_Locked(c) == "failed"    \* fault: the failure is remembered
AfterError(c) == "idle"

DiscoverFails(c) ==
  /\ pc[c] = "discover"
  /\ ~serviceUp
  /\ Goto(c, AfterError(c))
  /\ UNCHANGED <<cached, found, result, knew, serviceUp>>

Assign(c) ==
  /\ pc[c] = "assign"
  /\ cached' = found[c]
  /\ found'  = [found EXCEPT ![c] = None]
  /\ Goto(c, "return")
  /\ UNCHANGED <<result, knew, serviceUp>>

(* _cached is read again.                                                  *)
Return(c) ==
  /\ pc[c] = "return"
  /\ result' = [result EXCEPT ![c] = cached]
  /\ knew'   = [knew EXCEPT ![c] = None]
  /\ Goto(c, "idle")
  /\ UNCHANGED <<cached, found, serviceUp>>

ServiceChanges ==
  /\ serviceUp' = ~serviceUp
  /\ UNCHANGED <<cached, pc, found, result, knew>>

Step(c) == Test(c) \/ DiscoverOk(c) \/ DiscoverFails(c) \/ Assign(c) \/ Return(c)

Next == (\E c \in Callers : Resolve(c) \/ Step(c)) \/ ServiceChanges

Spec == Init /\ [][Next]_vars

-----------------------------------------------------------------------------
(* Properties *)

(* Types; a discovered endpoint is held only until it is assigned.         *)
TypeOK ==
  /\ cached \in Endpoints \cup {None}
  /\ pc \in [Callers -> {"idle", "test", "discover", "assign", "return"}]
  /\ found \in [Callers -> Endpoints \cup {None}]
  /\ result \in [Callers -> Endpoints \cup {None}]
  /\ knew \in [Callers -> Endpoints \cup {None}]
  /\ serviceUp \in BOOLEAN
  /\ \A c \in Callers : pc[c] = "assign" <=> found[c] # None

(* A resolution that starts after an endpoint was cached makes no request, *)
(* whatever the other callers do in between.                               *)
CacheStopsDiscovery ==
  \A c \in Callers : knew[c] # None => pc[c] \notin {"discover", "assign"}

(* resolve never returns None, although _cached is read twice.             *)
ReturnsEndpoint == \A c \in Callers : pc[c] = "return" => cached # None

(* "errors are not cached, so a transient outage doesn't lock the client   *)
(* into failure mode": once the service is up for good, every caller keeps *)
(* getting an endpoint.                                                    *)
RecoversFromOutage ==
  <>[]serviceUp => \A c \in Callers : []<>(result[c] # None)
=============================================================================
