-------------------------- MODULE SyncClientProofs --------------------------
(***************************************************************************)
(* What a LogDBClient with batching guarantees for every set of threads,   *)
(* closers and batchers, however the lazy creation of batchers races.      *)
(***************************************************************************)
EXTENDS SyncClient, FiniteSetTheorems, TLAPS

USE SyncClientAssumption DEF SyncClientAssumption

-----------------------------------------------------------------------------
(* Types *)

(* What _ensure_batcher() returns is never None: the slot is set when it   *)
(* is read again.                                                          *)
SlotFilled == \A t \in Threads : pc[t] = "reread" => slot # NoBatcher

TypeInv == TypeOK /\ SlotFilled

LEMMA SettleTypes ==
  ASSUME TypeOK, NEW x \in Threads \cup Batchers,
         NEW batch \in SUBSET (Entries \cup {Echo}), Settle(x, batch)
  PROVE  /\ delivered' \subseteq Entries /\ failed' \subseteq Entries
         /\ echo' \subseteq Threads \cup Batchers
         /\ UNCHANGED <<issued, accepted, refused>>
BY DEF TypeOK, Settle, Entries, Echo

LEMMA TypeInit == Init => TypeInv
<1> SUFFICES ASSUME Init PROVE TypeInv
  OBVIOUS
<1>1. issued \in 0 .. MaxEntries
  BY DEF Init
<1>2. 0 \notin Entries
  BY DEF Entries
<1> QED BY <1>1, <1>2 DEF Init, TypeInv, TypeOK, SlotFilled, Places

LEMMA TypeNext == TypeInv /\ [Next]_vars => TypeInv'
<1> SUFFICES ASSUME TypeInv, [Next]_vars PROVE TypeInv'
  OBVIOUS
<1> USE DEF TypeInv, TypeOK, SlotFilled, Goto, client, batcher, thread, ledger
<1>1. ASSUME NEW t \in Threads, LogCall(t) PROVE TypeInv'
  <2>1. issued < MaxEntries /\ issued' = issued + 1
    BY <1>1 DEF LogCall
  <2>2. issued' \in Entries /\ issued' # 0 /\ issued' \in 0 .. MaxEntries
    BY <2>1 DEF Entries
  <2>3. CASE clientClosed
    BY <1>1, <2>2, <2>3 DEF LogCall
  <2>4. CASE ~clientClosed
    <3>1. /\ entry' = [entry EXCEPT ![t] = issued']
          /\ pc' = [pc EXCEPT ![t] = "ensure"]
      BY <1>1, <2>4 DEF LogCall
    <3>2. entry' \in [Threads -> Entries \cup {0}] /\ pc' \in [Threads -> Places]
      BY <2>2, <3>1 DEF Places
    <3>3. /\ \A u \in Threads \ {t} : entry'[u] = entry[u] /\ pc'[u] = pc[u]
          /\ entry'[t] # 0 /\ pc'[t] = "ensure"
      BY <2>2, <3>1
    <3> QED BY <1>1, <2>2, <2>4, <3>2, <3>3 DEF LogCall
  <2> QED BY <2>3, <2>4
<1>2. ASSUME NEW t \in Threads, Ensure(t) PROVE TypeInv'
  BY <1>2 DEF Ensure, Missing, Places
<1>3. ASSUME NEW t \in Threads, Create(t) PROVE TypeInv'
  BY <1>3 DEF Create, Places
<1>4. ASSUME NEW t \in Threads, Assign(t) PROVE TypeInv'
  BY <1>4 DEF Assign, Places
<1>5. ASSUME NEW t \in Threads, Reread(t) PROVE TypeInv'
  BY <1>5 DEF Reread, Places
<1>6. ASSUME NEW t \in Threads, Enqueue(t) PROVE TypeInv'
  <2>1. entry[t] \in Entries /\ mine[t] \in Batchers
    BY <1>6 DEF Enqueue
  <2> QED BY <1>6, <2>1 DEF Enqueue, Leave, Places
<1>7. ASSUME NEW t \in Threads, FlushCall(t) PROVE TypeInv'
  BY <1>7 DEF FlushCall, Places
<1>8. ASSUME NEW t \in Threads, FlushTake(t) \/ Join(t) PROVE TypeInv'
  BY <1>8 DEF FlushTake, Join, AfterDrain, Drain, Drained, Places
<1>9. ASSUME NEW t \in Threads, FlushSend(t) \/ CloseSend(t) PROVE TypeInv'
  <2>1. /\ delivered' \subseteq Entries /\ failed' \subseteq Entries
        /\ echo' \subseteq Threads \cup Batchers
        /\ UNCHANGED <<issued, accepted, refused>>
    BY <1>9, SettleTypes DEF FlushSend, CloseSend
  <2> QED BY <1>9, <2>1 DEF FlushSend, CloseSend, Places
<1>10. ASSUME NEW t \in Threads, FlushReturn(t) \/ CloseHttp(t) PROVE TypeInv'
  BY <1>10 DEF FlushReturn, CloseHttp, Leave, Places
<1>11. ASSUME NEW t \in Threads, CloseCall(t) \/ CloseSet(t) PROVE TypeInv'
  BY <1>11 DEF CloseCall, CloseSet, Places
<1>12. ASSUME NEW t \in Threads, CloseBatcher(t) PROVE TypeInv'
  <2>1. CASE slot = NoBatcher \/ shut[slot]
    BY <1>12, <2>1 DEF CloseBatcher, Places
  <2>2. CASE slot \in created /\ ~shut[slot]
    <3>1. slot # NoBatcher /\ slot \in Batchers
      BY <2>2
    <3>2. /\ mine' = [mine EXCEPT ![t] = slot]
          /\ shut' = [shut EXCEPT ![slot] = TRUE]
          /\ pc' = [pc EXCEPT ![t] = "join"]
      BY <1>12, <2>2, <3>1 DEF CloseBatcher
    <3>3. /\ mine' \in [Threads -> created \cup {NoBatcher}]
          /\ shut' \in [Batchers -> BOOLEAN] /\ pc' \in [Threads -> Places]
      BY <2>2, <3>1, <3>2 DEF Places
    <3>4. /\ mine'[t] # NoBatcher /\ pc'[t] = "join" /\ pc[t] = "closeBatcher"
          /\ \A u \in Threads \ {t} : mine'[u] = mine[u] /\ pc'[u] = pc[u]
      BY <1>12, <3>1, <3>2 DEF CloseBatcher
    <3> QED BY <1>12, <3>3, <3>4 DEF CloseBatcher
  <2> QED BY <2>1, <2>2
<1>13. ASSUME NEW x, EmitEnqueue(x) PROVE TypeInv'
  <2>1. buffer' \in [Batchers -> SUBSET (Entries \cup {Echo})]
    BY <1>13 DEF EmitEnqueue
  <2> QED BY <1>13, <2>1 DEF EmitEnqueue
<1>14. ASSUME NEW b \in Batchers, WorkerTakes(b) \/ WorkerEnds(b) PROVE TypeInv'
  <2>1. /\ buffer' \in [Batchers -> SUBSET (Entries \cup {Echo})]
        /\ sending' \in [Batchers -> SUBSET (Entries \cup {Echo})]
    <3>1. CASE WorkerTakes(b)
      <4>1. /\ buffer' = [buffer EXCEPT ![b] = {}]
            /\ sending' = [sending EXCEPT ![b] = buffer[b]]
        BY <3>1 DEF WorkerTakes, Drained
      <4> QED BY <4>1
    <3> QED BY <1>14, <3>1 DEF WorkerEnds
  <2>2. ended' \in [Batchers -> BOOLEAN]
    BY <1>14 DEF WorkerTakes, WorkerEnds
  <2> QED BY <1>14, <2>1, <2>2 DEF WorkerTakes, WorkerEnds
<1>15. ASSUME NEW b \in Batchers, WorkerSends(b) PROVE TypeInv'
  <2>1. /\ delivered' \subseteq Entries /\ failed' \subseteq Entries
        /\ echo' \subseteq Threads \cup Batchers
        /\ UNCHANGED <<issued, accepted, refused>>
    BY <1>15, SettleTypes DEF WorkerSends
  <2> QED BY <1>15, <2>1 DEF WorkerSends
<1>16. CASE UNCHANGED vars
  BY <1>16 DEF vars
<1> QED
  BY <1>1, <1>2, <1>3, <1>4, <1>5, <1>6, <1>7, <1>8, <1>9, <1>10, <1>11,
     <1>12, <1>13, <1>14, <1>15, <1>16
  DEF Next, Step, WorkerStep

(* Both parts of the type invariant hold always.                           *)
THEOREM TypeInvHolds == Spec => []TypeInv
BY TypeInit, TypeNext, PTL DEF Spec

(* TypeOK is an invariant: a thread that is about to use a batcher has one *)
(* that exists.                                                            *)
THEOREM TypeCorrect == Spec => []TypeOK
<1>1. TypeInv => TypeOK
  BY DEF TypeInv
<1> QED BY <1>1, TypeInvHolds, PTL

-----------------------------------------------------------------------------
(* Every entry is in one place *)

(* Two calls of log() have different entries.                              *)
EntriesDistinct ==
  \A t, u \in Threads : t # u /\ entry[t] # 0 => entry[t] # entry[u]

(* A thread holds a batch only while it sends it: what it drains next      *)
(* overwrites nothing.                                                     *)
HandsEmpty ==
  \A t \in Threads : pc[t] \notin {"flushSend", "closeSend"} => toSend[t] = {}

AccountInv == EntriesAccounted /\ EntriesDistinct /\ HandsEmpty

(* What the holders in S have of the entries that are not an Echo.         *)
Spread(f, S) == (UNION {f[x] : x \in S}) \ {Echo}

(* g is f with other contents for x, which nobody else in S had.           *)
Update(f, g, S, x, Y) ==
  /\ x \in S /\ g[x] = Y
  /\ \A y \in S \ {x} : g[y] = f[y]
  /\ \A e \in Y \ {Echo} : e \in f[x] \/ e \notin Spread(f, S)

(* The holdings change by the new contents, and stay disjoint.             *)
LEMMA SpreadUpdate ==
  ASSUME NEW f, NEW g, NEW S, NEW x, NEW Y,
         Disjoint(f, S), Update(f, g, S, x, Y)
  PROVE  /\ Spread(g, S) = (Spread(f, S) \ f[x]) \cup (Y \ {Echo})
         /\ Disjoint(g, S)
<1>1. x \in S /\ g[x] = Y /\ \A y \in S \ {x} : g[y] = f[y]
  BY DEF Update
<1>2. \A y, z \in S : \A e : y # z /\ e \in f[y] /\ e \in f[z] => e = Echo
  BY DEF Disjoint
<1>3. \A e \in Y : e # Echo => \A y \in S \ {x} : e \notin f[y]
  <2> SUFFICES ASSUME NEW e \in Y, e # Echo, NEW y \in S \ {x}, e \in f[y]
               PROVE  FALSE
    OBVIOUS
  <2>1. e \in Spread(f, S)
    BY DEF Spread
  <2>2. e \in f[x]
    BY <2>1 DEF Update
  <2> QED BY <1>1, <1>2, <2>2
<1>4. Disjoint(g, S)
  <2> SUFFICES ASSUME NEW y \in S, NEW z \in S, y # z,
                      NEW e, e \in g[y], e \in g[z], e # Echo
               PROVE  FALSE
    BY DEF Disjoint
  <2>1. CASE y = x
    BY ONLY <1>1, <1>3, <2>1, y \in S, z \in S, y # z, e \in g[y], e \in g[z], e # Echo
  <2>2. CASE z = x
    BY ONLY <1>1, <1>3, <2>2, y \in S, z \in S, y # z, e \in g[y], e \in g[z], e # Echo
  <2>3. CASE y # x /\ z # x
    BY ONLY <1>1, <1>2, <2>3, y \in S, z \in S, y # z, e \in g[y], e \in g[z], e # Echo
  <2> QED BY <2>1, <2>2, <2>3
<1>5. ASSUME NEW e, e \in Spread(g, S)
      PROVE  e \in (Spread(f, S) \ f[x]) \cup (Y \ {Echo})
  <2>1. PICK y \in S : e \in g[y] /\ e # Echo
    BY <1>5 DEF Spread
  <2>2. CASE y = x
    BY <1>1, <2>1, <2>2
  <2>3. CASE y # x
    <3>1. e \in f[y] /\ e \notin f[x]
      BY ONLY <1>1, <1>2, <2>1, <2>3, y \in S
    <3> QED BY <2>1, <3>1 DEF Spread
  <2> QED BY <2>2, <2>3
<1>6. ASSUME NEW e, e \in (Spread(f, S) \ f[x]) \cup (Y \ {Echo})
      PROVE  e \in Spread(g, S)
  <2>1. CASE e \in Y \ {Echo}
    BY <1>1, <2>1 DEF Spread
  <2>2. CASE e \in Spread(f, S) \ f[x]
    <3>1. PICK y \in S : e \in f[y] /\ e # Echo
      BY <2>2 DEF Spread
    <3>2. e \in g[y]
      BY ONLY <1>1, <2>2, <3>1, y \in S
    <3> QED BY <3>1, <3>2 DEF Spread
  <2> QED BY <1>6, <2>1, <2>2
<1> QED BY <1>4, <1>5, <1>6

LEMMA InPlaces == /\ InBuffer = Spread(buffer, Batchers)
                  /\ InWorker = Spread(sending, Batchers)
                  /\ InThread = Spread(toSend, Threads)
BY DEF InBuffer, InWorker, InThread, Spread

(* What stays where it is.                                                 *)
LEMMA SamePlaces ==
  /\ UNCHANGED entry => UNCHANGED InLog
  /\ UNCHANGED buffer => InBuffer' = InBuffer /\ (Disjoint(buffer, Batchers) => Disjoint(buffer, Batchers)')
  /\ UNCHANGED sending => InWorker' = InWorker /\ (Disjoint(sending, Batchers) => Disjoint(sending, Batchers)')
  /\ UNCHANGED toSend => InThread' = InThread /\ (Disjoint(toSend, Threads) => Disjoint(toSend, Threads)')
BY DEF InLog, InBuffer, InWorker, InThread, Disjoint

(* log() with a new entry.                                                 *)
LEMMA LogCallAccounts ==
  ASSUME TypeInv, AccountInv, NEW t \in Threads, LogCall(t)
  PROVE  AccountInv'
<1> DEFINE e == issued'
<1>1. /\ e \in Nat \ {0} /\ 1 .. e = (1 .. issued) \cup {e} /\ e \notin 1 .. issued
  BY DEF LogCall, TypeInv, TypeOK
<1>2. UNCHANGED <<buffer, sending, toSend, accepted, delivered, failed>>
  BY DEF LogCall, batcher
<1>3. /\ UNCHANGED <<InBuffer, InWorker, InThread>>
      /\ Disjoint(buffer, Batchers)' /\ Disjoint(sending, Batchers)'
      /\ Disjoint(toSend, Threads)'
  BY <1>2, SamePlaces DEF AccountInv, EntriesAccounted
<1>4. EntriesAccounted
  BY DEF AccountInv
<1>5. HandsEmpty'
  BY <1>2 DEF AccountInv, HandsEmpty, LogCall, Goto, TypeInv, TypeOK
<1>6. CASE clientClosed
  <2>1. refused' = refused \cup {e} /\ InLog' = InLog
    BY <1>6 DEF LogCall, InLog
  <2>2. EntriesAccounted'
    BY <1>1, <1>2, <1>3, <1>4, <2>1 DEF EntriesAccounted
  <2>3. EntriesDistinct'
    BY <1>6 DEF LogCall, AccountInv, EntriesDistinct
  <2> QED BY <1>5, <2>2, <2>3 DEF AccountInv
<1>7. CASE ~clientClosed
  <2>1. refused' = refused /\ entry' = [entry EXCEPT ![t] = e] /\ pc[t] = "idle"
    BY <1>7 DEF LogCall
  <2>2. entry \in [Threads -> Entries \cup {0}] /\ entry[t] = 0
    BY <2>1 DEF TypeInv, TypeOK
  <2>3. InLog' = InLog \cup {e}
    BY <1>1, <2>1, <2>2 DEF InLog
  <2>4. EntriesAccounted'
    <3> e = issued'
      OBVIOUS
    <3> HIDE DEF e
    <3> QED BY <1>1, <1>2, <1>3, <1>4, <2>1, <2>3 DEF EntriesAccounted
  <2>5. \A u \in Threads : entry[u] # e
    <3> SUFFICES ASSUME NEW u \in Threads, entry[u] = e PROVE FALSE
      OBVIOUS
    <3>1. e \in InLog
      BY <1>1 DEF InLog
    <3> QED BY <1>1, <1>4, <3>1 DEF EntriesAccounted
  <2>6. EntriesDistinct'
    <3> HIDE DEF e
    <3> QED BY <2>1, <2>2, <2>5 DEF AccountInv, EntriesDistinct
  <2> QED BY <1>5, <2>4, <2>6 DEF AccountInv
<1> QED BY <1>6, <1>7

(* enqueue() takes the entry out of the hands of log(), or refuses it.     *)
LEMMA EnqueueAccounts ==
  ASSUME TypeInv, AccountInv, NEW t \in Threads, Enqueue(t)
  PROVE  AccountInv'
<1> DEFINE e == entry[t]
           b == mine[t]
<1>1. e \in Entries /\ e # Echo /\ b \in Batchers
  BY DEF Enqueue, TypeInv, TypeOK, Echo
<1>2. /\ UNCHANGED <<sending, toSend, issued, delivered, failed>>
      /\ entry' = [entry EXCEPT ![t] = 0]
  BY DEF Enqueue, Leave
<1>3. EntriesAccounted /\ EntriesDistinct
  BY DEF AccountInv
<1>4. /\ UNCHANGED <<InWorker, InThread>>
      /\ Disjoint(sending, Batchers)' /\ Disjoint(toSend, Threads)'
  BY <1>2, <1>3, SamePlaces DEF EntriesAccounted
<1>5. entry \in [Threads -> Entries \cup {0}]
  BY DEF TypeInv, TypeOK
<1>6. InLog' = InLog \ {e} /\ e \in InLog
  <2>1. e # 0 /\ \A u \in Threads \ {t} : entry[u] # e
    BY <1>1, <1>3 DEF EntriesDistinct, Echo
  <2> QED BY <1>2, <1>5, <2>1 DEF InLog
<1>7. EntriesDistinct'
  BY <1>2, <1>3, <1>5 DEF EntriesDistinct
<1>8. HandsEmpty'
  BY <1>2 DEF AccountInv, HandsEmpty, Enqueue, Leave, Goto, TypeInv, TypeOK
<1>9. CASE Takes(b)
  <2>1. /\ buffer' = [buffer EXCEPT ![b] = buffer[b] \cup {e}]
        /\ accepted' = accepted \cup {e} /\ refused' = refused
    BY <1>9 DEF Enqueue
  <2>2. e \notin InBuffer
    BY <1>3, <1>6 DEF EntriesAccounted
  <2>3. buffer \in [Batchers -> SUBSET (Entries \cup {Echo})]
    BY DEF TypeInv, TypeOK
  <2>4. /\ InBuffer' = (InBuffer \ buffer[b]) \cup ((buffer[b] \cup {e}) \ {Echo})
        /\ Disjoint(buffer, Batchers)'
    <3>1. Update(buffer, buffer', Batchers, b, buffer[b] \cup {e})
      <4>1. /\ buffer'[b] = buffer[b] \cup {e}
            /\ \A c \in Batchers \ {b} : buffer'[c] = buffer[c]
        BY <1>1, <2>1, <2>3
      <4> QED BY <1>1, <2>2, <4>1, InPlaces DEF Update
    <3>2. Disjoint(buffer, Batchers)
      BY <1>3 DEF EntriesAccounted
    <3> HIDE DEF b, e
    <3>3. /\ Spread(buffer', Batchers) =
               (Spread(buffer, Batchers) \ buffer[b]) \cup ((buffer[b] \cup {e}) \ {Echo})
          /\ Disjoint(buffer', Batchers)
      BY <3>1, <3>2, SpreadUpdate
    <3> QED BY <3>3 DEF Disjoint, InBuffer, Spread
  <2>5. InBuffer' = InBuffer \cup {e}
    <3>1. buffer[b] \ {Echo} \subseteq InBuffer /\ Echo \notin InBuffer
      BY <1>1 DEF InBuffer
    <3> HIDE DEF b, e
    <3> QED BY <1>1, <2>4, <3>1
  <2>6. EntriesAccounted'
    <3> HIDE DEF e
    <3> QED BY <1>2, <1>3, <1>4, <1>6, <2>1, <2>4, <2>5 DEF EntriesAccounted
  <2> QED BY <1>7, <1>8, <2>6 DEF AccountInv
<1>10. CASE ~Takes(b)
  <2>1. refused' = refused \cup {e} /\ accepted' = accepted /\ buffer' = buffer
    BY <1>10 DEF Enqueue
  <2>2. InBuffer' = InBuffer /\ Disjoint(buffer, Batchers)'
    BY <1>3, <2>1, SamePlaces DEF EntriesAccounted
  <2>3. EntriesAccounted'
    <3> HIDE DEF e
    <3> QED BY <1>2, <1>3, <1>4, <1>6, <2>1, <2>2 DEF EntriesAccounted
  <2> QED BY <1>7, <1>8, <2>3 DEF AccountInv
<1> QED BY <1>9, <1>10

(* A drained buffer gives away what it has.                                *)
LEMMA BufferEmptied ==
  ASSUME TypeInv, EntriesAccounted, NEW b \in Batchers,
         buffer' = [buffer EXCEPT ![b] = {}]
  PROVE  /\ InBuffer' = InBuffer \ (buffer[b] \ {Echo})
         /\ buffer[b] \ {Echo} \subseteq InBuffer
         /\ Disjoint(buffer, Batchers)'
<1>1. Update(buffer, buffer', Batchers, b, {})
  BY DEF Update, TypeInv, TypeOK
<1>2. Disjoint(buffer, Batchers)
  BY DEF EntriesAccounted
<1>3. /\ Spread(buffer', Batchers) = (Spread(buffer, Batchers) \ buffer[b]) \cup ({} \ {Echo})
      /\ Disjoint(buffer', Batchers)
  BY <1>1, <1>2, SpreadUpdate
<1>4. Echo \notin InBuffer /\ buffer[b] \ {Echo} \subseteq InBuffer
  BY DEF InBuffer
<1> QED BY <1>3, <1>4 DEF Disjoint, InBuffer, Spread

(* The worker of b moves the buffer into its hands.                        *)
LEMMA WorkerTakesAccounts ==
  ASSUME TypeInv, AccountInv, NEW b \in Batchers, WorkerTakes(b)
  PROVE  AccountInv'
<1> DEFINE X == buffer[b] \ {Echo}
<1>1. /\ buffer' = [buffer EXCEPT ![b] = {}] /\ sending[b] = {}
      /\ sending' = [sending EXCEPT ![b] = buffer[b]]
      /\ UNCHANGED <<entry, toSend, pc, issued, accepted, refused, delivered, failed>>
  BY DEF WorkerTakes, Drained, thread, ledger
<1>2. EntriesAccounted
  BY DEF AccountInv
<1>3. /\ InBuffer' = InBuffer \ X /\ X \subseteq InBuffer
      /\ Disjoint(buffer, Batchers)'
  BY <1>1, <1>2, BufferEmptied
<1>4. InWorker' = InWorker \cup X /\ Disjoint(sending, Batchers)'
  <2>1. Update(sending, sending', Batchers, b, buffer[b])
    <3>1. \A e \in buffer[b] \ {Echo} : e \notin Spread(sending, Batchers)
      BY <1>2, <1>3, InPlaces DEF EntriesAccounted
    <3> QED BY <1>1, <3>1 DEF Update, TypeInv, TypeOK
  <2>2. Disjoint(sending, Batchers)
    BY <1>2 DEF EntriesAccounted
  <2>3. /\ Spread(sending', Batchers) =
             (Spread(sending, Batchers) \ sending[b]) \cup (buffer[b] \ {Echo})
        /\ Disjoint(sending', Batchers)
    BY <2>1, <2>2, SpreadUpdate
  <2> QED BY <1>1, <2>3 DEF Disjoint, InWorker, Spread
<1>5. UNCHANGED <<InLog, InThread>> /\ Disjoint(toSend, Threads)'
  BY <1>1, <1>2, SamePlaces DEF EntriesAccounted
<1>6. EntriesAccounted'
  <2> HIDE DEF X
  <2> QED BY <1>1, <1>2, <1>3, <1>4, <1>5 DEF EntriesAccounted
<1> QED BY <1>1, <1>6 DEF AccountInv, EntriesDistinct, HandsEmpty

(* A thread that flushes or closes moves the buffer into its empty hands.  *)
LEMMA DrainAccounts ==
  ASSUME TypeInv, AccountInv, NEW t \in Threads, FlushTake(t) \/ Join(t)
  PROVE  AccountInv'
<1> DEFINE b == mine[t]
           X == buffer[b] \ {Echo}
<1>1. /\ buffer' = [buffer EXCEPT ![b] = {}] /\ b \in Batchers
      /\ toSend' = [toSend EXCEPT ![t] = buffer[b]] /\ toSend[t] = {}
      /\ \E place \in {"flushSend", "closeSend"} : pc' = [pc EXCEPT ![t] = place]
      /\ UNCHANGED <<entry, sending, issued, accepted, refused, delivered, failed>>
  BY DEF FlushTake, Join, Drain, Drained, AfterDrain, Goto, ledger, AccountInv,
         HandsEmpty, TypeInv, TypeOK
<1>2. EntriesAccounted
  BY DEF AccountInv
<1>3. /\ InBuffer' = InBuffer \ X /\ X \subseteq InBuffer
      /\ Disjoint(buffer, Batchers)'
  BY <1>1, <1>2, BufferEmptied
<1>4. InThread' = InThread \cup X /\ Disjoint(toSend, Threads)'
  <2>1. Update(toSend, toSend', Threads, t, buffer[b])
    <3>1. \A e \in buffer[b] \ {Echo} : e \notin Spread(toSend, Threads)
      BY <1>2, <1>3, InPlaces DEF EntriesAccounted
    <3> HIDE DEF b
    <3> QED BY <1>1, <3>1 DEF Update, TypeInv, TypeOK
  <2>2. Disjoint(toSend, Threads)
    BY <1>2 DEF EntriesAccounted
  <2>3. /\ Spread(toSend', Threads) =
             (Spread(toSend, Threads) \ toSend[t]) \cup (buffer[b] \ {Echo})
        /\ Disjoint(toSend', Threads)
    BY <2>1, <2>2, SpreadUpdate
  <2> QED BY <1>1, <2>3 DEF Disjoint, InThread, Spread
<1>5. UNCHANGED <<InLog, InWorker>> /\ Disjoint(sending, Batchers)'
  BY <1>1, <1>2, SamePlaces DEF EntriesAccounted
<1>6. EntriesAccounted'
  <2> HIDE DEF X
  <2> QED BY <1>1, <1>2, <1>3, <1>4, <1>5 DEF EntriesAccounted
<1>7. EntriesDistinct' /\ HandsEmpty'
  <2> HIDE DEF b
  <2> QED BY <1>1 DEF AccountInv, EntriesDistinct, HandsEmpty, TypeInv, TypeOK
<1> QED BY <1>6, <1>7 DEF AccountInv

(* A send ends: what was held is delivered or failed.                      *)
LEMMA SendAccounts ==
  ASSUME TypeInv, AccountInv,
         \/ \E b \in Batchers : WorkerSends(b)
         \/ \E t \in Threads : FlushSend(t) \/ CloseSend(t)
  PROVE  AccountInv'
<1> USE DEF AccountInv
<1>1. \E X : /\ X \subseteq InWorker \cup InThread
             /\ (InWorker \cup InThread)' = (InWorker \cup InThread) \ X
             /\ (InWorker' \subseteq InWorker /\ InThread' \subseteq InThread)
             /\ Disjoint(sending, Batchers)' /\ Disjoint(toSend, Threads)'
             /\ \/ delivered' = delivered \cup X /\ failed' = failed
                \/ failed' = failed \cup X /\ delivered' = delivered
  <2>1. ASSUME NEW b \in Batchers, WorkerSends(b)
        PROVE  /\ InWorker' = InWorker \ (sending[b] \ {Echo})
               /\ sending[b] \ {Echo} \subseteq InWorker
               /\ Disjoint(sending, Batchers)'
               /\ InThread' = InThread /\ Disjoint(toSend, Threads)'
    <3>1. Update(sending, sending', Batchers, b, {})
      BY <2>1 DEF WorkerSends, Update, TypeInv, TypeOK
    <3>2. Disjoint(sending, Batchers) /\ Disjoint(toSend, Threads)
      BY DEF EntriesAccounted
    <3>3. /\ Spread(sending', Batchers) =
               (Spread(sending, Batchers) \ sending[b]) \cup ({} \ {Echo})
          /\ Disjoint(sending', Batchers)
      BY <3>1, <3>2, SpreadUpdate
    <3>4. toSend' = toSend
      BY <2>1 DEF WorkerSends, thread
    <3>5. Echo \notin InWorker /\ sending[b] \ {Echo} \subseteq InWorker
      BY DEF InWorker
    <3> QED BY <3>2, <3>3, <3>4, <3>5 DEF Disjoint, InWorker, InThread, Spread
  <2>2. ASSUME NEW t \in Threads, FlushSend(t) \/ CloseSend(t)
        PROVE  /\ InThread' = InThread \ (toSend[t] \ {Echo})
               /\ toSend[t] \ {Echo} \subseteq InThread
               /\ Disjoint(toSend, Threads)'
               /\ InWorker' = InWorker /\ Disjoint(sending, Batchers)'
    <3>1. Update(toSend, toSend', Threads, t, {})
      BY <2>2 DEF FlushSend, CloseSend, Update, TypeInv, TypeOK
    <3>2. Disjoint(sending, Batchers) /\ Disjoint(toSend, Threads)
      BY DEF EntriesAccounted
    <3>3. /\ Spread(toSend', Threads) =
               (Spread(toSend, Threads) \ toSend[t]) \cup ({} \ {Echo})
          /\ Disjoint(toSend', Threads)
      BY <3>1, <3>2, SpreadUpdate
    <3>4. sending' = sending
      BY <2>2 DEF FlushSend, CloseSend, batcher
    <3>5. Echo \notin InThread /\ toSend[t] \ {Echo} \subseteq InThread
      BY DEF InThread
    <3> QED BY <3>2, <3>3, <3>4, <3>5 DEF Disjoint, InWorker, InThread, Spread
  <2>3. InWorker \cap InThread = {}
    BY DEF EntriesAccounted
  <2>4. CASE \E b \in Batchers : WorkerSends(b)
    <3>1. PICK b \in Batchers : WorkerSends(b)
      BY <2>4
    <3> DEFINE X == sending[b] \ {Echo}
    <3>2. \/ delivered' = delivered \cup X /\ failed' = failed
          \/ failed' = failed \cup X /\ delivered' = delivered
      BY <3>1 DEF WorkerSends, Settle
    <3>3. /\ InWorker' = InWorker \ X /\ X \subseteq InWorker /\ InThread' = InThread
          /\ Disjoint(sending, Batchers)' /\ Disjoint(toSend, Threads)'
      BY <2>1, <3>1
    <3> HIDE DEF X
    <3> WITNESS X
    <3> QED BY <2>3, <3>2, <3>3
  <2>5. CASE \E t \in Threads : FlushSend(t) \/ CloseSend(t)
    <3>1. PICK t \in Threads : FlushSend(t) \/ CloseSend(t)
      BY <2>5
    <3> DEFINE X == toSend[t] \ {Echo}
    <3>2. \/ delivered' = delivered \cup X /\ failed' = failed
          \/ failed' = failed \cup X /\ delivered' = delivered
      BY <3>1 DEF FlushSend, CloseSend, Settle
    <3>3. /\ InThread' = InThread \ X /\ X \subseteq InThread /\ InWorker' = InWorker
          /\ Disjoint(sending, Batchers)' /\ Disjoint(toSend, Threads)'
      BY <2>2, <3>1
    <3> HIDE DEF X
    <3> WITNESS X
    <3> QED BY <2>3, <3>2, <3>3
  <2> QED BY <2>4, <2>5
<1>2. UNCHANGED <<entry, buffer, issued, accepted, refused>>
  BY DEF WorkerSends, FlushSend, CloseSend, Settle, batcher, thread
<1>3. InBuffer' = InBuffer /\ InLog' = InLog /\ Disjoint(buffer, Batchers)'
  BY <1>2, SamePlaces DEF EntriesAccounted
<1>4. EntriesAccounted'
  BY <1>1, <1>2, <1>3 DEF EntriesAccounted
<1>5. EntriesDistinct'
  BY <1>2 DEF EntriesDistinct
<1>6. HandsEmpty'
  BY DEF HandsEmpty, WorkerSends, FlushSend, CloseSend, Goto, thread, TypeInv, TypeOK
<1> QED BY <1>4, <1>5, <1>6

(* What a send logs adds an Echo to a buffer, and nothing else.            *)
LEMMA EmitAccounts ==
  ASSUME TypeInv, AccountInv, NEW x, EmitEnqueue(x)
  PROVE  AccountInv'
<1>1. UNCHANGED <<entry, sending, toSend, pc, issued, accepted, refused, delivered, failed>>
  BY DEF EmitEnqueue, thread, ledger
<1>2. EntriesAccounted
  BY DEF AccountInv
<1>3. /\ UNCHANGED <<InLog, InWorker, InThread>>
      /\ Disjoint(sending, Batchers)' /\ Disjoint(toSend, Threads)'
  BY <1>1, <1>2, SamePlaces DEF EntriesAccounted
<1>4. InBuffer' = InBuffer /\ Disjoint(buffer, Batchers)'
  <2>1. CASE buffer' = buffer
    BY <1>2, <2>1, SamePlaces DEF EntriesAccounted
  <2>2. CASE slot \in Batchers /\ buffer' = [buffer EXCEPT ![slot] = @ \cup {Echo}]
    <3> DEFINE Y == buffer[slot] \cup {Echo}
    <3>1. Update(buffer, buffer', Batchers, slot, Y)
      BY <2>2 DEF Update, TypeInv, TypeOK
    <3>2. Disjoint(buffer, Batchers)
      BY <1>2 DEF EntriesAccounted
    <3>3. Y \ {Echo} = buffer[slot] \ {Echo}
      OBVIOUS
    <3> HIDE DEF Y
    <3>4. /\ Spread(buffer', Batchers) = (Spread(buffer, Batchers) \ buffer[slot]) \cup (Y \ {Echo})
          /\ Disjoint(buffer', Batchers)
      BY <3>1, <3>2, SpreadUpdate
    <3>5. buffer[slot] \ {Echo} \subseteq InBuffer /\ Echo \notin InBuffer
      BY <2>2 DEF InBuffer
    <3> QED BY <3>3, <3>4, <3>5 DEF Disjoint, InBuffer, Spread
  <2>3. slot \notin Batchers => buffer' = buffer
    BY DEF EmitEnqueue, TypeInv, TypeOK
  <2>4. slot \in Batchers =>
          buffer' = buffer \/ buffer' = [buffer EXCEPT ![slot] = @ \cup {Echo}]
    BY DEF EmitEnqueue
  <2> QED BY <2>1, <2>2, <2>3, <2>4
<1>5. EntriesAccounted'
  BY <1>1, <1>2, <1>3, <1>4 DEF EntriesAccounted
<1> QED BY <1>1, <1>5 DEF AccountInv, EntriesDistinct, HandsEmpty

(* The other steps move no entry.                                          *)
Still ==
  /\ UNCHANGED <<entry, buffer, sending, toSend, ledger>>
  /\ HandsEmpty'

LEMMA StillAccounts == AccountInv /\ Still => AccountInv'
<1> SUFFICES ASSUME AccountInv, Still PROVE AccountInv'
  OBVIOUS
<1>1. UNCHANGED <<entry, buffer, sending, toSend, issued, accepted, refused, delivered, failed>>
  BY DEF Still, ledger
<1>2. EntriesAccounted'
  BY <1>1, SamePlaces DEF AccountInv, EntriesAccounted
<1> QED BY <1>1, <1>2 DEF AccountInv, EntriesDistinct, Still

LEMMA LeaveStill ==
  ASSUME TypeInv, HandsEmpty, NEW t \in Threads, FlushReturn(t) \/ CloseHttp(t)
  PROVE  Still
<1>1. entry[t] = 0 /\ pc[t] \in {"flushed", "closeHttp"}
  BY DEF FlushReturn, CloseHttp, TypeInv, TypeOK
<1>2. entry' = entry
  BY <1>1 DEF FlushReturn, CloseHttp, Leave, TypeInv, TypeOK
<1> QED BY <1>1, <1>2 DEF FlushReturn, CloseHttp, Leave, Goto, Still, HandsEmpty, batcher,
                          TypeInv, TypeOK

LEMMA AccountInit == Init => AccountInv
<1> SUFFICES ASSUME Init PROVE AccountInv
  OBVIOUS
<1>1. 1 .. 0 = {}
  OBVIOUS
<1>2. InLog = {} /\ InBuffer = {} /\ InWorker = {} /\ InThread = {}
  BY DEF Init, InLog, InBuffer, InWorker, InThread
<1> QED BY <1>1, <1>2 DEF Init, AccountInv, EntriesAccounted, EntriesDistinct, HandsEmpty,
                          Disjoint

LEMMA AccountNext == TypeInv /\ AccountInv /\ [Next]_vars => AccountInv'
<1> SUFFICES ASSUME TypeInv, AccountInv, [Next]_vars PROVE AccountInv'
  OBVIOUS
<1>1. ASSUME NEW t \in Threads,
             \/ Ensure(t) \/ Create(t) \/ Assign(t) \/ Reread(t)
             \/ FlushCall(t) \/ CloseCall(t) \/ CloseSet(t) \/ CloseBatcher(t)
      PROVE  AccountInv'
  <2>1. Still
    BY <1>1 DEF AccountInv, HandsEmpty, TypeInv, TypeOK, Still, Goto, batcher, thread, ledger,
                Ensure, Create, Assign, Reread, FlushCall, CloseCall, CloseSet, CloseBatcher
  <2> QED BY <2>1, StillAccounts
<1>2. ASSUME NEW b \in Batchers, WorkerEnds(b) PROVE AccountInv'
  <2>1. Still
    BY <1>2 DEF AccountInv, HandsEmpty, Still, WorkerEnds, thread
  <2> QED BY <2>1, StillAccounts
<1>3. ASSUME UNCHANGED vars PROVE AccountInv'
  <2>1. Still
    BY <1>3 DEF AccountInv, HandsEmpty, Still, vars, batcher, thread
  <2> QED BY <2>1, StillAccounts
<1>4. ASSUME NEW t \in Threads, FlushReturn(t) \/ CloseHttp(t) PROVE AccountInv'
  BY <1>4, LeaveStill, StillAccounts DEF AccountInv
<1> QED
  BY <1>1, <1>2, <1>3, <1>4, LogCallAccounts, EnqueueAccounts, WorkerTakesAccounts,
     DrainAccounts, SendAccounts, EmitAccounts
  DEF Next, Step, WorkerStep

(* The accounts, the distinct entries and the empty hands are invariant.   *)
THEOREM AccountInvHolds == Spec => []AccountInv
BY AccountInit, AccountNext, TypeInvHolds, PTL DEF Spec

(* Each entry is in one place, however the threads race to create, flush   *)
(* and close the batcher: in the hands of log(), refused, or accepted by   *)
(* one batcher and sent once.                                              *)
THEOREM EntriesAccountedHolds == Spec => []EntriesAccounted
<1>1. AccountInv => EntriesAccounted
  BY DEF AccountInv
<1> QED BY <1>1, AccountInvHolds, PTL

-----------------------------------------------------------------------------
(* What close() leaves behind *)

(* A thread comes to close() with no batcher in its hands; from join() on  *)
(* its batcher is shut, and nothing enters a shut batcher, so that the     *)
(* buffer stays empty once the thread has drained it.                      *)
ClosingInv ==
  \A t \in Threads :
    /\ pc[t] \in {"idle", "closing", "closeBatcher"} => mine[t] = NoBatcher
    /\ pc[t] \in {"join", "closeSend", "closeHttp"} /\ mine[t] # NoBatcher => shut[mine[t]]
    /\ pc[t] \in {"closeSend", "closeHttp"} /\ mine[t] # NoBatcher => buffer[mine[t]] = {}

(* A shut batcher stays shut, and an empty one then stays empty.           *)
ShutStays ==
  \A b \in Batchers : shut[b] => shut'[b] /\ (buffer[b] = {} => buffer'[b] = {})

LEMMA NextShutStays == TypeInv /\ [Next]_vars => ShutStays
<1> SUFFICES ASSUME TypeInv, [Next]_vars, NEW b \in Batchers, shut[b]
             PROVE  shut'[b] /\ (buffer[b] = {} => buffer'[b] = {})
  BY DEF ShutStays
<1> USE DEF TypeInv, TypeOK
<1>1. ASSUME NEW t \in Threads, Enqueue(t)
      PROVE  shut'[b] /\ (buffer[b] = {} => buffer'[b] = {})
  BY <1>1 DEF Enqueue, Takes
<1>2. ASSUME NEW t \in Threads, FlushTake(t) \/ Join(t)
      PROVE  shut'[b] /\ (buffer[b] = {} => buffer'[b] = {})
  BY <1>2 DEF FlushTake, Join, Drain, Drained
<1>3. ASSUME NEW x, EmitEnqueue(x)
      PROVE  shut'[b] /\ (buffer[b] = {} => buffer'[b] = {})
  BY <1>3 DEF EmitEnqueue, Takes
<1>4. ASSUME NEW c \in Batchers, WorkerTakes(c)
      PROVE  shut'[b] /\ (buffer[b] = {} => buffer'[b] = {})
  BY <1>4 DEF WorkerTakes, Drained
<1>5. ASSUME NEW t \in Threads, CloseBatcher(t)
      PROVE  shut'[b] /\ (buffer[b] = {} => buffer'[b] = {})
  BY <1>5 DEF CloseBatcher
<1>6. CASE UNCHANGED <<shut, buffer>>
  BY <1>6
<1>7. ASSUME NEW t \in Threads,
             \/ LogCall(t) \/ FlushCall(t) \/ CloseCall(t)
             \/ Ensure(t) \/ Create(t) \/ Assign(t) \/ Reread(t)
             \/ FlushSend(t) \/ FlushReturn(t) \/ CloseSet(t) \/ CloseSend(t) \/ CloseHttp(t)
      PROVE  UNCHANGED <<shut, buffer>>
  BY <1>7 DEF LogCall, FlushCall, CloseCall, Ensure, Create, Assign, Reread,
              FlushSend, FlushReturn, CloseSet, CloseSend, CloseHttp, batcher
<1>8. ASSUME NEW c \in Batchers, WorkerSends(c) \/ WorkerEnds(c)
      PROVE  UNCHANGED <<shut, buffer>>
  BY <1>8 DEF WorkerSends, WorkerEnds
<1>9. UNCHANGED vars => UNCHANGED <<shut, buffer>>
  BY DEF vars, batcher
<1> QED BY <1>1, <1>2, <1>3, <1>4, <1>5, <1>6, <1>7, <1>8, <1>9 DEF Next, Step, WorkerStep

LEMMA ClosingInit == Init => ClosingInv
BY DEF Init, ClosingInv

LEMMA ClosingNext == TypeInv /\ ClosingInv /\ [Next]_vars => ClosingInv'
<1> SUFFICES ASSUME TypeInv, ClosingInv, [Next]_vars PROVE ClosingInv'
  OBVIOUS
<1>1. ShutStays
  BY NextShutStays
<1> USE DEF TypeInv, TypeOK
(* A thread that keeps its batcher, and moves only where the invariant     *)
(* asks no more of it, is as safe as before.                               *)
<1>2. ASSUME NEW u \in Threads, UNCHANGED <<pc[u], mine[u]>>
      PROVE  /\ pc'[u] \in {"idle", "closing", "closeBatcher"} => mine'[u] = NoBatcher
             /\ pc'[u] \in {"join", "closeSend", "closeHttp"} /\ mine'[u] # NoBatcher
                  => shut'[mine'[u]]
             /\ pc'[u] \in {"closeSend", "closeHttp"} /\ mine'[u] # NoBatcher
                  => buffer'[mine'[u]] = {}
  <2>1. pc'[u] = pc[u] /\ mine'[u] = mine[u] /\ mine[u] \in Batchers \cup {NoBatcher}
    BY <1>2
  <2> QED BY <1>1, <2>1 DEF ClosingInv, ShutStays
<1>3. ASSUME NEW t \in Threads,
             \/ LogCall(t) \/ FlushCall(t) \/ CloseCall(t) \/ Step(t)
      PROVE  ClosingInv'
  <2>1. \A u \in Threads \ {t} : pc'[u] = pc[u] /\ mine'[u] = mine[u]
    BY <1>3 DEF LogCall, FlushCall, CloseCall, Step, Ensure, Create, Assign, Reread, Enqueue,
                FlushTake, FlushSend, FlushReturn, CloseSet, CloseBatcher, Join, CloseSend,
                CloseHttp, EmitEnqueue, Goto, Leave, thread
  <2>2. /\ pc'[t] \in {"idle", "closing", "closeBatcher"} => mine'[t] = NoBatcher
        /\ pc'[t] \in {"join", "closeSend", "closeHttp"} /\ mine'[t] # NoBatcher
             => shut'[mine'[t]]
        /\ pc'[t] \in {"closeSend", "closeHttp"} /\ mine'[t] # NoBatcher
             => buffer'[mine'[t]] = {}
    <3>1. CASE LogCall(t) \/ FlushCall(t) \/ Ensure(t) \/ Create(t) \/ Assign(t) \/ Reread(t)
               \/ FlushTake(t) \/ FlushSend(t)
      BY <1>2, <3>1 DEF LogCall, FlushCall, Ensure, Create, Assign, Reread, FlushTake,
                        FlushSend, Goto
    <3>2. CASE Enqueue(t) \/ FlushReturn(t) \/ CloseHttp(t)
      BY <3>2 DEF Enqueue, FlushReturn, CloseHttp, Leave, Goto
    <3>3. CASE CloseCall(t) \/ CloseSet(t)
      BY <3>3 DEF CloseCall, CloseSet, Goto, thread, ClosingInv
    <3>4. CASE CloseBatcher(t)
      <4>1. CASE slot = NoBatcher \/ shut[slot]
        BY <3>4, <4>1 DEF CloseBatcher, Goto, ClosingInv
      <4>2. CASE slot \in created /\ ~shut[slot]
        <5>1. slot \in Batchers /\ slot # NoBatcher
          BY <4>2
        <5>2. mine'[t] = slot /\ shut'[slot] /\ pc'[t] = "join"
          BY <3>4, <4>2, <5>1 DEF CloseBatcher, Goto
        <5> QED BY <5>2
      <4> QED BY <4>1, <4>2
    <3>5. CASE Join(t)
      <4>1. mine[t] \in Batchers /\ pc[t] = "join" /\ mine'[t] = mine[t]
        BY <3>5 DEF Join
      <4>2. buffer'[mine[t]] = {} /\ pc'[t] = "closeSend"
        BY <3>5, <4>1 DEF Join, Drain, Drained, Goto, AfterDrain
      <4>3. shut'[mine[t]]
        BY <1>1, <4>1 DEF ShutStays, ClosingInv
      <4> QED BY <4>1, <4>2, <4>3
    <3>6. CASE CloseSend(t)
      <4>1. pc[t] = "closeSend" /\ pc'[t] = "closeHttp" /\ mine'[t] = mine[t]
        BY <3>6 DEF CloseSend, Goto
      <4>2. mine[t] # NoBatcher => mine[t] \in Batchers /\ shut[mine[t]] /\ buffer[mine[t]] = {}
        BY <4>1 DEF ClosingInv
      <4> QED BY <1>1, <4>1, <4>2 DEF ShutStays
    <3>7. CASE EmitEnqueue(t)
      BY <1>2, <3>7 DEF EmitEnqueue, thread
    <3> QED BY <1>3, <3>1, <3>2, <3>3, <3>4, <3>5, <3>6, <3>7 DEF Step
  <2> QED BY <1>2, <2>1, <2>2 DEF ClosingInv
<1>4. CASE \/ \E b \in Batchers : WorkerStep(b)
           \/ UNCHANGED vars
  <2>1. pc' = pc /\ mine' = mine
    BY <1>4 DEF WorkerStep, WorkerTakes, WorkerSends, WorkerEnds, EmitEnqueue, vars, thread
  <2> QED BY <1>2, <2>1 DEF ClosingInv
<1> QED BY <1>3, <1>4 DEF Next

(* The thread that closes the HTTP client has sent what it drained, and    *)
(* nothing is left in the batcher it shut, whatever other threads do.      *)
THEOREM DrainsBeforeHttpClosesHolds == Spec => []DrainsBeforeHttpCloses
<1>1. HandsEmpty /\ ClosingInv => DrainsBeforeHttpCloses
  BY DEF HandsEmpty, ClosingInv, DrainsBeforeHttpCloses
<1>2. AccountInv => HandsEmpty
  BY DEF AccountInv
<1> QED BY <1>1, <1>2, ClosingInit, ClosingNext, AccountInvHolds, TypeInvHolds, PTL DEF Spec

-----------------------------------------------------------------------------
(* What flush() reaches *)

AtMostOne == \A b, c \in created : b = c

(* A batcher that is not made yet has nothing.                             *)
UnmadeEmpty == \A b \in Batchers \ created : buffer[b] = {}

(* Entries that were accepted before flush() was called still are.         *)
MarksOld == \A t \in Threads : mark[t] \subseteq accepted

(* From the moment the thread has drained the only batcher there is, no    *)
(* entry of its mark is in a buffer: what arrives later is new.            *)
FlushDone ==
  AtMostOne => \A t \in Threads : pc[t] \in {"flushSend", "flushed"} => mark[t] \cap InBuffer = {}

FlushInv == IsFiniteSet(created) /\ UnmadeEmpty /\ MarksOld /\ FlushDone

(* A step puts an entry into a buffer only when it accepts it.             *)
LEMMA BufferGetsNew ==
  ASSUME TypeInv, AccountInv, [Next]_vars
  PROVE  InBuffer' \cap accepted \subseteq InBuffer /\ accepted \subseteq accepted'
<1> USE DEF TypeInv, TypeOK
<1>1. ASSUME NEW t \in Threads, Enqueue(t)
      PROVE  InBuffer' \cap accepted \subseteq InBuffer /\ accepted \subseteq accepted'
  <2>1. entry[t] \notin accepted
    BY <1>1 DEF Enqueue, AccountInv, EntriesAccounted, InLog
  <2>2. \A b \in Batchers : buffer'[b] \subseteq buffer[b] \cup {entry[t]}
    BY <1>1 DEF Enqueue
  <2>3. InBuffer' \subseteq InBuffer \cup {entry[t]}
    BY <2>2 DEF InBuffer
  <2>4. accepted \subseteq accepted'
    BY <1>1 DEF Enqueue
  <2> QED BY <2>1, <2>3, <2>4
<1>2. ASSUME \A b \in Batchers : buffer'[b] \subseteq buffer[b] \cup {Echo}, accepted' = accepted
      PROVE  InBuffer' \cap accepted \subseteq InBuffer /\ accepted \subseteq accepted'
  BY <1>2 DEF InBuffer
<1>3. ASSUME NEW t \in Threads, FlushTake(t) \/ Join(t)
      PROVE  (\A b \in Batchers : buffer'[b] \subseteq buffer[b] \cup {Echo}) /\ accepted' = accepted
  BY <1>3 DEF FlushTake, Join, Drain, Drained, ledger
<1>4. ASSUME NEW x, EmitEnqueue(x)
      PROVE  (\A b \in Batchers : buffer'[b] \subseteq buffer[b] \cup {Echo}) /\ accepted' = accepted
  BY <1>4 DEF EmitEnqueue, ledger
<1>5. ASSUME NEW c \in Batchers, WorkerTakes(c)
      PROVE  (\A b \in Batchers : buffer'[b] \subseteq buffer[b] \cup {Echo}) /\ accepted' = accepted
  BY <1>5 DEF WorkerTakes, Drained, ledger
<1>6. ASSUME NEW t \in Threads,
             \/ LogCall(t) \/ FlushCall(t) \/ CloseCall(t)
             \/ Ensure(t) \/ Create(t) \/ Assign(t) \/ Reread(t) \/ FlushReturn(t)
             \/ FlushSend(t) \/ CloseSet(t) \/ CloseBatcher(t) \/ CloseSend(t) \/ CloseHttp(t)
      PROVE  UNCHANGED <<accepted, buffer>>
  BY <1>6 DEF LogCall, FlushCall, CloseCall, Ensure, Create, Assign, Reread, FlushReturn,
              FlushSend, CloseSet, CloseBatcher, CloseSend, CloseHttp, Settle, batcher, ledger
<1>7. ASSUME NEW c \in Batchers, WorkerSends(c) \/ WorkerEnds(c)
      PROVE  UNCHANGED <<accepted, buffer>>
  BY <1>7 DEF WorkerSends, WorkerEnds, Settle, ledger
<1>8. UNCHANGED vars => UNCHANGED <<accepted, buffer>>
  BY DEF vars, batcher, ledger
<1> QED BY <1>1, <1>2, <1>3, <1>4, <1>5, <1>6, <1>7, <1>8 DEF Next, Step, WorkerStep

(* Batchers come into being one by one, and only one that exists is used.  *)
LEMMA CreatedGrows ==
  ASSUME TypeInv, UnmadeEmpty, [Next]_vars
  PROVE  /\ created \subseteq created'
         /\ IsFiniteSet(created) => IsFiniteSet(created')
         /\ UnmadeEmpty'
<1> USE DEF TypeInv, TypeOK
<1>1. ASSUME NEW t \in Threads, Create(t)
      PROVE  /\ created \subseteq created'
             /\ IsFiniteSet(created) => IsFiniteSet(created')
             /\ UnmadeEmpty'
  <2>1. PICK b \in Batchers \ created : created' = created \cup {b}
    BY <1>1 DEF Create
  <2>2. IsFiniteSet(created) => IsFiniteSet(created')
    BY <2>1, FS_AddElement
  <2> QED BY <1>1, <2>1, <2>2 DEF UnmadeEmpty, Create
<1>2. ASSUME created' = created, \A b \in Batchers \ created : buffer'[b] \subseteq buffer[b]
      PROVE  /\ created \subseteq created'
             /\ IsFiniteSet(created) => IsFiniteSet(created')
             /\ UnmadeEmpty'
  BY <1>2 DEF UnmadeEmpty
<1>3. ASSUME NEW t \in Threads, Enqueue(t) \/ FlushTake(t) \/ Join(t)
      PROVE  created' = created /\ \A b \in Batchers \ created : buffer'[b] \subseteq buffer[b]
  <2>1. mine[t] \in created
    BY <1>3 DEF Enqueue, FlushTake, Join
  <2> QED BY <1>3, <2>1 DEF Enqueue, FlushTake, Join, Drain
<1>4. ASSUME NEW x, EmitEnqueue(x)
      PROVE  created' = created /\ \A b \in Batchers \ created : buffer'[b] \subseteq buffer[b]
  BY <1>4 DEF EmitEnqueue
<1>5. ASSUME NEW c \in Batchers, WorkerTakes(c)
      PROVE  created' = created /\ \A b \in Batchers \ created : buffer'[b] \subseteq buffer[b]
  BY <1>5 DEF WorkerTakes, Drained
<1>6. ASSUME NEW t \in Threads,
             \/ LogCall(t) \/ FlushCall(t) \/ CloseCall(t)
             \/ Ensure(t) \/ Assign(t) \/ Reread(t) \/ FlushReturn(t)
             \/ FlushSend(t) \/ CloseSet(t) \/ CloseBatcher(t) \/ CloseSend(t) \/ CloseHttp(t)
      PROVE  UNCHANGED <<created, buffer>>
  BY <1>6 DEF LogCall, FlushCall, CloseCall, Ensure, Assign, Reread, FlushReturn,
              FlushSend, CloseSet, CloseBatcher, CloseSend, CloseHttp, batcher
<1>7. ASSUME NEW c \in Batchers, WorkerSends(c) \/ WorkerEnds(c)
      PROVE  UNCHANGED <<created, buffer>>
  BY <1>7 DEF WorkerSends, WorkerEnds
<1>8. UNCHANGED vars => UNCHANGED <<created, buffer>>
  BY DEF vars, batcher
<1> QED BY <1>1, <1>2, <1>3, <1>4, <1>5, <1>6, <1>7, <1>8 DEF Next, Step, WorkerStep

(* The mark is set when flush() is called and cleared when the thread      *)
(* leaves; the thread comes to "flushSend" only by draining.               *)
LEMMA MarkSteps ==
  ASSUME TypeInv, [Next]_vars, NEW t \in Threads
  PROVE  /\ mark'[t] \in {mark[t], accepted, {}}
         /\ pc'[t] \in {"flushSend", "flushed"} =>
              /\ mark'[t] = mark[t]
              /\ pc[t] \in {"flushSend", "flushed"} \/ FlushTake(t)
<1> USE DEF TypeInv, TypeOK
<1>1. ASSUME NEW u \in Threads,
             \/ LogCall(u) \/ FlushCall(u) \/ CloseCall(u) \/ Step(u)
      PROVE  /\ mark'[t] \in {mark[t], accepted, {}}
             /\ pc'[t] \in {"flushSend", "flushed"} =>
                  /\ mark'[t] = mark[t]
                  /\ pc[t] \in {"flushSend", "flushed"} \/ FlushTake(t)
  <2>1. CASE u # t
    <3>1. mark'[t] = mark[t] /\ pc'[t] = pc[t]
      BY <1>1, <2>1 DEF LogCall, FlushCall, CloseCall, Step, Ensure, Create, Assign, Reread,
                Enqueue, FlushTake, FlushSend, FlushReturn, CloseSet, CloseBatcher, Join,
                CloseSend, CloseHttp, EmitEnqueue, Goto, Leave, thread
    <3> QED BY <3>1
  <2>2. CASE u = t
    <3>1. CASE LogCall(t) \/ FlushCall(t) \/ CloseCall(t) \/ Ensure(t) \/ Create(t)
               \/ Assign(t) \/ Reread(t) \/ Enqueue(t)
      BY <3>1 DEF LogCall, FlushCall, CloseCall, Ensure, Create, Assign, Reread, Enqueue,
                  Goto, Leave, thread
    <3>2. CASE FlushTake(t) \/ FlushSend(t) \/ FlushReturn(t) \/ EmitEnqueue(t)
      BY <3>2 DEF FlushTake, FlushSend, FlushReturn, EmitEnqueue, Goto, Leave, thread
    <3>3. CASE CloseSet(t) \/ CloseBatcher(t) \/ Join(t) \/ CloseSend(t) \/ CloseHttp(t)
      BY <3>3 DEF CloseSet, CloseBatcher, Join, CloseSend, CloseHttp, AfterDrain,
                  Goto, Leave, thread
    <3> QED BY <1>1, <2>2, <3>1, <3>2, <3>3 DEF Step
  <2> QED BY <2>1, <2>2
<1>2. ASSUME \/ \E b \in Batchers : WorkerStep(b)
             \/ UNCHANGED vars
      PROVE  UNCHANGED <<mark, pc>>
  BY <1>2 DEF WorkerStep, WorkerTakes, WorkerSends, WorkerEnds, EmitEnqueue, vars, thread
<1> QED BY <1>1, <1>2 DEF Next

(* flush() of the only batcher leaves no entry in a buffer.                *)
LEMMA FlushTakesAll ==
  ASSUME TypeInv, UnmadeEmpty, AtMostOne, NEW t \in Threads, FlushTake(t)
  PROVE  InBuffer' = {}
<1> USE DEF TypeInv, TypeOK
<1>1. mine[t] \in created /\ buffer' = [buffer EXCEPT ![mine[t]] = {}]
  BY DEF FlushTake, Drain, Drained
<1>2. \A b \in Batchers : buffer'[b] = {}
  <2> SUFFICES ASSUME NEW b \in Batchers PROVE buffer'[b] = {}
    OBVIOUS
  <2>1. CASE b \in created
    BY <1>1, <2>1 DEF AtMostOne
  <2>2. CASE b \notin created
    BY <1>1, <2>2 DEF UnmadeEmpty
  <2> QED BY <2>1, <2>2
<1> QED BY <1>2 DEF InBuffer

LEMMA FlushInit == Init => FlushInv
BY FS_EmptySet DEF Init, FlushInv, UnmadeEmpty, MarksOld, FlushDone

LEMMA FlushNext == TypeInv /\ AccountInv /\ FlushInv /\ [Next]_vars => FlushInv'
<1> SUFFICES ASSUME TypeInv, AccountInv, FlushInv, [Next]_vars PROVE FlushInv'
  OBVIOUS
<1>1. InBuffer' \cap accepted \subseteq InBuffer /\ accepted \subseteq accepted'
  BY BufferGetsNew
<1>2. created \subseteq created' /\ IsFiniteSet(created') /\ UnmadeEmpty'
  BY CreatedGrows DEF FlushInv
<1>3. MarksOld'
  BY <1>1, MarkSteps DEF FlushInv, MarksOld
<1>4. FlushDone'
  <2> SUFFICES ASSUME AtMostOne', NEW t \in Threads, pc'[t] \in {"flushSend", "flushed"}
               PROVE  mark'[t] \cap InBuffer' = {}
    BY DEF FlushDone
  <2>1. AtMostOne
    BY <1>2 DEF AtMostOne
  <2>2. mark'[t] = mark[t] /\ mark[t] \subseteq accepted
    BY MarkSteps DEF FlushInv, MarksOld
  <2>3. CASE pc[t] \in {"flushSend", "flushed"}
    BY <1>1, <2>1, <2>2, <2>3 DEF FlushInv, FlushDone
  <2>4. CASE FlushTake(t)
    BY <2>1, <2>4, FlushTakesAll DEF FlushInv
  <2> QED BY <2>3, <2>4, MarkSteps
<1> QED BY <1>2, <1>3, <1>4 DEF FlushInv

LEMMA FewAreOne == IsFiniteSet(created) /\ Cardinality(created) <= 1 => AtMostOne
<1> SUFFICES ASSUME IsFiniteSet(created), Cardinality(created) <= 1,
                    NEW b \in created, NEW c \in created, b # c
             PROVE  FALSE
  BY DEF AtMostOne
<1>1. IsFiniteSet({b, c}) /\ Cardinality({b, c}) = 2
  <2>1. IsFiniteSet({b}) /\ Cardinality({b}) = 1
    BY FS_Singleton
  <2>2. IsFiniteSet({b} \cup {c}) /\ Cardinality({b} \cup {c}) = 2
    BY <2>1, FS_AddElement
  <2>3. {b} \cup {c} = {b, c}
    OBVIOUS
  <2> QED BY <2>2, <2>3
<1>2. Cardinality({b, c}) <= Cardinality(created)
  BY FS_Subset
<1>3. Cardinality(created) \in Nat
  BY FS_CardinalityType
<1> QED BY <1>1, <1>2, <1>3

(* When flush() returns, no entry that was accepted before the call waits  *)
(* in a buffer, if the threads that raced for the first log() did not make *)
(* two batchers.                                                           *)
THEOREM FlushReachesAllHolds == Spec => []FlushReachesAll
<1>1. FlushInv => FlushReachesAll
  BY FewAreOne DEF FlushInv, FlushDone, FlushReachesAll
<1> QED BY <1>1, FlushInit, FlushNext, AccountInvHolds, TypeInvHolds, PTL DEF Spec
=============================================================================
