----------------------- MODULE EndpointResolverProofs ----------------------
(* Theorems of EndpointResolver, for any callers and endpoints.            *)
EXTENDS EndpointResolver, TLAPS

(* The cache is filled once and for all as far as callers can tell: who    *)
(* knew an endpoint finds one, and who is past the test finds one.         *)
CacheInv ==
  /\ TypeOK
  /\ ReturnsEndpoint
  /\ \A c \in Callers : knew[c] # None => cached # None /\ pc[c] \in {"test", "return"}

LEMMA CacheStart == Init => CacheInv
BY ResolverAssumption DEF Init, CacheInv, TypeOK, ReturnsEndpoint

LEMMA CacheStep == CacheInv /\ [Next]_vars => CacheInv'
<1> SUFFICES ASSUME CacheInv, [Next]_vars PROVE CacheInv'
  OBVIOUS
<1> USE ResolverAssumption DEF ResolverAssumption, CacheInv, TypeOK, ReturnsEndpoint, Goto
<1>1. ASSUME NEW c \in Callers, Resolve(c) PROVE CacheInv'
  BY <1>1 DEF Resolve
<1>2. ASSUME NEW c \in Callers, Test(c) PROVE CacheInv'
  BY <1>2 DEF Test, NeedsDiscovery
<1>3. ASSUME NEW c \in Callers, DiscoverOk(c) PROVE CacheInv'
  <2>1. PICK e \in Endpoints : found' = [found EXCEPT ![c] = e]
    BY <1>3 DEF DiscoverOk
  <2>2. e # None
    OBVIOUS
  <2> QED
    BY <1>3, <2>1, <2>2 DEF DiscoverOk
<1>4. ASSUME NEW c \in Callers, DiscoverFails(c) PROVE CacheInv'
  BY <1>4 DEF DiscoverFails, AfterError
<1>5. ASSUME NEW c \in Callers, Assign(c) PROVE CacheInv'
  <2>1. cached' # None /\ cached' \in Endpoints
    BY <1>5 DEF Assign
  <2> QED
    BY <1>5, <2>1 DEF Assign
<1>6. ASSUME NEW c \in Callers, Return(c) PROVE CacheInv'
  BY <1>6 DEF Return
<1>7. CASE ServiceChanges \/ UNCHANGED vars
  BY <1>7 DEF ServiceChanges, vars
<1> QED
  BY <1>1, <1>2, <1>3, <1>4, <1>5, <1>6, <1>7 DEF Next, Step

LEMMA CacheInvHolds == Spec => []CacheInv
BY CacheStart, CacheStep, PTL DEF Spec

(* Type correctness of the resolver.                                       *)
THEOREM TypeCorrect == Spec => []TypeOK
<1>1. CacheInv => TypeOK
  BY DEF CacheInv
<1> QED
  BY <1>1, CacheInvHolds, PTL

(* Once an endpoint is cached, no resolution that starts later makes a     *)
(* request (resolve_sync and resolve_async).                               *)
THEOREM CacheStopsDiscoveryHolds == Spec => []CacheStopsDiscovery
<1>1. CacheInv => CacheStopsDiscovery
  BY DEF CacheInv, CacheStopsDiscovery
<1> QED
  BY <1>1, CacheInvHolds, PTL

(* resolve never returns None, although _cached is read twice without a    *)
(* lock.                                                                   *)
THEOREM ReturnsEndpointHolds == Spec => []ReturnsEndpoint
<1>1. CacheInv => ReturnsEndpoint
  BY DEF CacheInv
<1> QED
  BY <1>1, CacheInvHolds, PTL
=============================================================================
