# TLA+ verification of logdb-python

This directory holds TLA+ models of the Python SDK in `src/src/logdbhq/`, the
TLC configurations that check them on small instances, and TLAPS proofs of
their main properties for every value of the constants. Paths below are
relative to `src/`; `batching.py` and the other bare names are files of
`src/src/logdbhq/`.

## The system

An application gives entries (`log`, `logBeat`, `logCache`) to a client, which
buffers them per kind and sends batches to the LogDB REST service in the
background; or it sends lists of entries directly; or it reads through a
reader. Nothing is persisted: all state lives in the objects of one process.

```
 application threads / tasks            stdlib logging
        |                                    |
  LogDBClient / AsyncLogDBClient  <--  LogDBHandler
        | log, flush, close         | send_*_batch
  SyncBatcher / AsyncBatcher        |
        | worker, flush(), close()  |
        +-----------+---------------+          LogDBReader / AsyncLogDBReader
                    v                                     |
           CircuitBreaker (writers only)                  |
                    v                                     v
           call_with_retry_sync / _async   <--------------+
                    v                                     |
           EndpointResolver  ->  HTTP POST  ->  raise_for_status
```

### Components, their state and what makes them correct

| component | state | operations | hard behaviour | correct when |
|---|---|---|---|---|
| Sync batch engine (`batching.py`, `SyncBatcher`) | buffers and oldest timestamp per kind under one lock, an `Event`, `_closed`, the worker thread, local `to_send` lists | `enqueue`, `flush`, `close`, the worker's wait / clear / take / send, `on_error` | threads interleave outside the lock; event set after the lock is released, cleared before the look; the join of `close()` may time out; callbacks re-enter | no entry lost, doubled, reordered or stranded; a full buffer is noticed; `close()` returns; every entry settles |
| Async batch engine (`AsyncBatcher`) | the same without a lock, worker task | the same, with awaits | other tasks run at each await; cancellation; `close()` cancels the worker | the same, and what cancellation loses is exactly what the cancelled task held |
| Circuit breaker (`resilience.py`) | state, `_opened_at`, window of samples | `should_allow`, `record_success`, `record_failure` | outcomes arrive long after admission, in another state | opens only on a fresh window that reaches the threshold, forgets the past on closing, recovers |
| Retry policy and send path (`resilience.py`, `client.py`, `_transport.py`, `errors.py`) | the loop variable, the last exception | one send from admission to status | which failures are retried, which reach `on_error`, which the breaker sees | bounded attempts, none after a final answer, one breaker outcome per admission, no silent failure |
| Sync client life cycle (`client.py`, `LogDBClient`) | `_batcher`, `_closed`, `_http` without a lock | `log`, `flush`, `close`, lazy creation | test-then-set races of creation and closing | each entry refused or accepted by one batcher and settled |
| Async client life cycle (`client.py`, `AsyncLogDBClient`) | the same on one loop | the same, with awaits | `close()` yields while others log; a cancelled `close()`; the handler makes a batcher after `close()` | shuts down from the inside out, and always comes to closing the HTTP client |
| Service discovery (`discovery.py`) | `_cached` | `resolve_sync`, `resolve_async` | unsynchronised test, request, assignment | no request once cached, never `None`, failures not remembered |
| Reader request path (`reader.py`) | the resolver, `_http` | the get methods over `_post`, `_get`; `close` | what lies inside and outside the retry loop; readers that share a resolver | bounded attempts, `on_error` exactly on exhaustion, no failure that looks like data |
| Builders, data model, wire format, options (`builders.py`, `models.py`, `_transport.py`, `options.py`) | entries, their lists and maps, options: shared by reference | setters, `build`, stamping, serialisation | an entry waits by reference while others hold it; clients share an options object | builders that share a base are isolated; what is sent is what was meant; a client keeps its key |
| Reader data mapping (`reader.py`, `models.py`) | none | `_inflate_*` | bodies of another shape | an unexpected body is data, empty, or an exception, see below |
| Logging handler (`logging_handler.py`) | the client | `emit` | the SDK's own warnings come back as entries; `emit` on a thread that is not the loop's | the echo of failures ends with `close()`; no entry vanishes |
| Package exports (`__init__.py`) | none | none | none | not modelled |

## Modules

| module | models | extends |
|---|---|---|
| `EntryLedger` | the promise of a batch engine: each accepted entry settles at most once, in a batch of consecutive entries, and nothing is accepted after close | |
| `SyncBatcher` | `SyncBatcher` with caller threads and the worker | |
| `SyncBatcherInterrupts` | the same with `KeyboardInterrupt` in the main thread | `SyncBatcher` |
| `SyncBatcherTimed` | the waiting time of an entry when threads and sends are prompt | `SyncBatcher` |
| `SyncBatcherProofs` | theorems about the three | `SyncBatcherTimed`, `SyncBatcherInterrupts` |
| `AsyncBatcher` | `AsyncBatcher` on one event loop, with cancellation | |
| `CircuitBreaker`, `CircuitBreakerProofs` | the breaker and its callers; theorems | |
| `Classification` | status codes and exceptions: `raise_for_status`, `_classify`, `translate_request_error`, `_is_retryable` | |
| `SendPath`, `SendPathProofs` | one send: breaker, retry loop, outcome, `on_error`, status; composes `CircuitBreaker` (INSTANCE); theorems | `Classification` |
| `EndpointResolver`, `EndpointResolverProofs` | the cached endpoint; theorems | |
| `SyncClient`, `SyncClientProofs` | creation, `log`, `flush` and `close` of `LogDBClient` over abstract batchers, with a handler that logs what sends cause; theorems | |
| `AsyncClient`, `AsyncClientProofs` | the same of `AsyncLogDBClient` over the detailed batcher, with a handler on the loop; theorems about both | `AsyncBatcher` |
| `AsyncHandler` | a handler of the async client on other threads than the loop's | `AsyncBatcher` |
| `ReadPath`, `ReadPathProofs` | callers that read through one reader, its resolver and its `close`; theorems | `EndpointResolver`, `Classification` |
| `DataMapping` | levels, attribute types, values that are not set, the body: pure functions | |
| `EntryObjects`, `EntryObjectsProofs` | the objects that an application, its builders and several clients share by reference; theorems about these and `DataMapping` | `DataMapping` |
| `MC*` | one per checked module: what TLC needs beyond it (symmetry) | |

```
EntryLedger <=implements= SyncBatcher  <-- SyncBatcherInterrupts, SyncBatcherTimed
EntryLedger <=implements= AsyncBatcher <-- AsyncClient, AsyncHandler
CircuitBreaker <=implements= SendPath   --> Classification
EndpointResolver <=implements= ReadPath --> Classification
DataMapping <-- EntryObjects            SyncClient
```

### How state and actions correspond to the code

A variable carries the name of the attribute it models (`buffers` is
`_buffers`, `closed` is `_closed`); a comment beside each declaration says
which. Variables marked *history* have no counterpart in the code and never
guard an action of it. A `pc` (or `at`) says where in a method a thread is.
`PROJECT.json` maps each definition to its lines.

**Grain of atomicity.** In `SyncBatcher` a critical section under `_lock` is
one step, because nothing in it blocks or calls out; everything outside the
lock (`Event.set`, `Event.clear`, reading the clock, one send, one callback)
is a step of its own. In `AsyncBatcher` a step is what a task does between two
awaits. In `CircuitBreaker` a method is one step: all of them hold the lock
throughout. In `EndpointResolver` and `SyncClient`, which have no lock, each
test and each assignment of a shared attribute is a step. In `AsyncClient`
`log()` is one step: it does not await between its test of `_closed` and
`enqueue()`. In `AsyncHandler` the thread that emits has a step for each of
the four statements of `enqueue()`, and the loop runs between them.

**Data.** An entry is its ordinal among the accepted entries of its kind (in
`SyncClient`, among the calls of `log()`). An answer of the server is one of
the classes that `Classification` distinguishes. Times are ages and rests of
timeouts in ticks, which saturate where the code no longer tells them apart.
The failure rate is compared by cross-multiplication with a threshold that is
a fraction. `EntryObjects` has a heap: an entry is an index with its fields and
the indices of its lists and maps, so that `dataclasses.replace()` shares,
`list()` copies and `deepcopy()` copies all, as in the code. Fields that the
SDK treats alike are one: `environment` stands for `collection`, too, and the
setters whose field the SDK never looks at are one setter. An attribute is its
type. A body that a reader gets is one of seven shapes.

**Callbacks.** `on_error` of the batch engine may call `enqueue` from any
thread, and `close` from the worker (`CallbackMayClose`), where `join()` of
the current thread raises and `_safe_send` swallows the exception.

**Deliberate simplifications of `SyncClient`.** The inside of a batcher is
abstracted to taking and sending when it likes; the `join()` of `close()` may
end at any time, because it has a timeout. What a send logs (the warning about
a failed batch, a record of httpx, what `on_error` writes) is an `Echo`, which
the sending thread passes to `log()` before it goes on; echoes are not counted.

## Runs

All runs are deterministic in their result; the slowest takes about two
minutes with two workers.

| run | question | instance |
|---|---|---|
| `SyncBatcherSafety` | do all interleavings keep every entry in exactly one place and in order, is a full buffer always noticed, does `flush()` take what came before it, is a buffer empty for good after `close()`, does only one of several `close()` do the work? | 2 callers, 2 kinds, 2 entries per kind, batch size 2, symmetric |
| `SyncBatcherLive` | is `EntryLedger` implemented even when `on_error` closes the batcher and the main thread is interrupted in any call; does no entry wait for ever; does `close()` return with a hung worker? | 2 callers, 1 kind, 2 entries, any number of interrupts |
| `SyncBatcherWait` | does an entry wait less than 1.5 `flush_interval`? | 2 callers, 3 entries, `flush_interval` of 4 ticks |
| `AsyncClientSafety` | is every entry of the async client accounted for, `EntryLedger` implemented, and does `close()` shut down in order and come to its end, with a handler that logs at any time, with the application cancelling tasks, and with a worker whose sends may hang? | 2 tasks, 2 kinds, 2 entries per kind |
| `AsyncBatcherLossDoc` | violation: entries disappear without `on_error` | 1 task |
| `AsyncHandlerThreadDoc` | violation: an entry that a handler enqueues on another thread vanishes | 1 thread, 1 task |
| `BreakerSafety` | when may the breaker open, and does it close again? | 2 callers, threshold 1/2, at most 5 samples per window |
| `BreakerProbeDoc` | violation: a half-open breaker admits more than one probe | |
| `SendSafety` | are attempts bounded and justified, is a failure never silent, is the breaker used as its module says? | 2 callers, `max_retries` 1, 7 classes of answers |
| `ReadSafety` | does the cache of the endpoint work without a lock, with or without an explicit endpoint; who hears of which failure of a read; do reads recover from an outage of discovery? | 2 callers, 2 endpoints, `max_retries` 2, all classes of answers |
| `ClientLifeCycle` | do racing creation, logging, flushing and closing keep every entry accounted for, and does the echo of failing sends end with `close()`? | 2 threads, both may close, 2 batchers, 2 entries and any number of echoes |
| `EntryObjects` | are builders isolated that share a base; is what is sent what was meant; does a client keep its key while others share its options? | a sync and an async client, 1 options object that both may use, 2 keys, 3 entries, 2 of them logged |

**Why the bounds are enough to be interesting.** With a batch size of 2 and 2
or 3 entries per kind a buffer becomes full, is taken while another entry
arrives, and batches of one and of two entries exist; a second caller lets
`flush()` and `close()` race with each other, with `enqueue()` and with the
worker. A tick count of 1 for the timeouts makes every timeout race every
event. The breaker needs four samples to open; with five per window there is
one more than needed and samples of several ages. Two callers suffice for an
outcome that arrives in another state than the one of its admission. Two
batchers suffice for the race of creation, since a thread creates only when it
finds none. Three entries are a base builder, a fork of it and what one of them
builds, or an entry that two clients log; one options object is the one that is
shared, since a client with its own has nothing to share. The run of
`EntryObjects` leaves out `logCache`, which has fewer fields than `log`, and
attributes other than booleans and integers, the two types that `isinstance`
confuses; `LevelsMapped` and `AttributesMapped` are proved for all levels and
types. `MaxEntries`, `MaxAge`, `MaxEntryAge`, `MaxSamples`, `MaxObjects` and
`MaxLogged` are the only bounds that the code does not have; they guard
`Enqueue`, `LogCall`, `ShouldAllow`, `Allocate` and `Log`, or saturate ages.
Where there are proofs, they hold for every value of them.

**Deadlock** is checked everywhere but in `ClientLifeCycle` and `EntryObjects`:
in the first the application may have issued all its entries and closed a
client that never had a batcher, in the second it stops when it has made and
logged as many entries as the bounds allow.

### Fairness

- `Tick`: time passes.
- Steps of a thread inside a call, and of the worker: threads are scheduled and
  a send ends, because every HTTP request has a timeout and `max_retries` is
  finite. What the application chooses to call is never fair: no property
  assumes that it logs, flushes or closes.
- In `AsyncClient` the loop runs every task that is ready (`ClientFairSpec`),
  and `TimePasses` once there is a batcher; which send ends is not fair for the
  worker. `CloseCompletes` excludes the case in which the application cancels
  `close()`.
- The worker is not part of `InterruptFairSpec`: `CloseReturns` is
  checked with a worker that may hang for ever, and `NoEntryWaitsForever` names
  the fairness of the worker as its premise.
- `AcceptedSettles` and `QuietAfterClose` assume that threads and workers of
  `SyncClient` are scheduled, so that sends, with their `emit()`, end.
- `Recovers` and `RecoversFromOutage` need callers that keep calling: a breaker
  that nobody asks never leaves the open state.

### Disagreements between documentation and code

Three are kept as runs, with the line they contradict in `PROJECT.json`:

- A half-open breaker admits every caller (`BreakerProbeDoc`), although the
  comment promises exactly one probe.
- `AsyncBatcher.close()` cancels a worker that does not finish in time; the
  batches it holds vanish without `on_error` (`AsyncBatcherLossDoc`).
- A handler of an async client that runs on a thread appends to a list that the
  loop has meanwhile dropped (`AsyncHandlerThreadDoc`); the comment at
  `logging_handler.py:156` trusts in a lock that `AsyncBatcher` does not have.

Others follow from the models but have no run of their own:

- `flush()` of the batcher returns while the worker is still sending a batch
  that it took before (`batching.py:85` says it blocks until sends complete);
  what holds is `FlushTookAll`.
- `SyncBatcher.close()` gives up its join after `max(flush_interval, 5 s)` and
  returns while the daemon worker still holds a batch (`JoinReturns`).
- A second `close()` returns at once, before the first has drained (`CloseCall`).
- `on_error` that calls `close()` from the worker leaves buffered entries behind
  for ever: `CallbackCloseFails` skips the drain. So does an interrupt of
  `close()` before its drain: the batcher is closed, and no later `close()` does
  anything. `NothingStranded` is checked and proved without the two, and
  `NoEntryWaitsForever`, which has both, names it as a premise.
- `flush_interval` is documented as an upper bound of the wait
  (`options.py:73`); `WaitBounded` shows 1.5 times of it, and no better bound
  holds.
- One worker serves all kinds, so a slow send of one kind delays the others
  (`README.md:199` says never).
- Buffers have no limit; a batch may exceed `batch_size` (`options.py:70`).
- `record_success` closes the breaker from any state, so a success that was
  under way when it opened ends the break early (`CHANGELOG.md:68`);
  `OpenHoldsForLoneCaller` proves that a lone caller serves it in full.
- The rate is compared only when a failure is recorded, so a success that
  completes a bad window does not open the breaker (`CHANGELOG.md:66`).
- Retries of a call that was admitted earlier go on while the breaker is open
  (`README.md:219`), because it is asked once per call.
- A 3xx answer counts as success (`PassesStatus`), and 4xx answers other than
  400, 401, 403, 404 and 422 are retried (`other4xx`).
- Exceptions that are no `LogDBError` leave `send_*_batch` without `on_error`.
- Two callers of an empty `EndpointResolver` both discover
  (`discovery.py:83`).
- Two first `log()` calls may create two batchers, one of which `flush()` and
  `close()` never reach; its entries still settle through its own worker.
- Two closers, or a `log()` that passed the test of `_closed` before `close()`,
  may find the HTTP client closed under a pending batch.
- A reader raises a 5xx answer without a retry and without `on_error`, has no
  circuit breaker, and raises what `response.json()` raises.
- A body of an unexpected shape is an empty result for `get_collections()` and
  `get_event_log_status()`; for the methods that return pages one with odd items
  or a scalar raises `AttributeError` or the like (`DataOf`). The count of logs is 0
  when the body is a list.
- A constructor that gets `options` and `api_key` writes the key into the shared
  object (`client.py:132`), also when it then raises. A client made from it
  before sends with the new key from then on, and two clients do share state
  (`client.py:6`); `OwnKey` excludes exactly these objects (`rekeyed`).
- Defaults are stamped into the caller's own entry (`client.py:76` calls it
  non-destructive). An entry that is logged again through another client keeps
  the first one's key and defaults, and an entry changed after `log()` is sent as
  changed; `DeliveredAsMeant` excludes these.
- Entries of a handler of an async client are never stamped: they go past
  `log()`, although `logging_handler.py:108` relies on the client to do it.
- The constructor does not read `LOGDB_API_KEY`, which its error message names
  (`client.py:136`); only `LogDBClientOptions.from_env` does.
- A handler that logs after the `close()` of an async client that has logged
  nothing makes a batcher whose task nobody ends (`client.py:294` says that it is
  shut down).
- Each failing batch may produce records that are entries again; nothing ends
  this before `close()`. With `enable_batching=False` an `on_error` that logs
  recurses.
- A builder that adds the same attribute name with values of different types
  keeps it in two maps.
- `max_batch_retries` and `max_degree_of_parallelism` are read nowhere; a cached
  endpoint is never refreshed.

## Proofs

TLAPS proves, for every value of the constants that satisfies the named
assumptions of the modules, every invariant and every action property that a
passing run checks, and the refinements. Where an invariant is not
inductive, its strengthening was first checked by TLC on the instance of the run.

**`SyncBatcherProofs`.** `TypeCorrect` includes `ClosingOK`: at any time at most
one thread is past the test of `_closed` in `close()`, `on_error` in the worker
included, the batcher is closed then, and only then does the worker end
(`ClosingNext`). The run checks it without callbacks that close. The inductive
invariant of the ledger is `LedgerInv`: `NoDoubles` (no entry is in two places,
and none is there that was not accepted), `BatchesInOrder`, and `HandsEmpty` (a
thread that is outside its sending loop holds nothing). `HandsEmpty` is what
makes the step that takes buffers safe: it overwrites the thread's `to_send`,
which would lose entries if it held any. From it follow `BatchesInOrderHolds`
and `Implements`: a batch is a run of consecutive numbers
(`ConsecutiveInterval`), none of which settled before, so settling it is a step
of `EntryLedger`; all else is a stutter. That nothing is missing (`NoneGone`) is
kept by every step of the batcher, which gives `EntriesAccountedHolds`, but not
by an interrupt; `LedgerInv` survives it, and so `InterruptsImplement` holds
also when any call of the main thread may end with `KeyboardInterrupt`.
`NoLostWakeupHolds` is inductive with the types: the event is cleared only on
the way to a look at the buffers, and each taking of buffers removes every full
one (`TakeEmptiesFull`). `FlushTookAllHolds` needs `MarksBounded` in addition: a
flush cannot have marked entries that do not exist yet. `NothingStrandedHolds`
assumes that `on_error` does not close the batcher. `OldestTracksBufferHolds`:
the worker takes the kinds that are past their interval at the moment at which
it read the clock, later, and a buffer that another thread has emptied meanwhile
must not keep a timestamp.

`WaitBoundedHolds` is about the batcher with a clock, whose behaviours are
behaviours of `SyncBatcher` (`TimedIsBatcher`), so that the theorems above serve
it. `WaitInv` says that no entry of a buffer is older than the buffer's timestamp
(`OldestIsOldest`), and that the worker takes what is past `flush_interval` in
the round in which it looks, so that while it waits the age of an entry and what
is left of the wait stay below the two together (`LooksInTime`). Its hypothesis,
that `on_error` does not call `close()`, is needed: after `CallbackCloseFails`
entries wait for ever.

**`AsyncClientProofs`.** `TypeCorrect` of `AsyncBatcher`. Everything the client,
its handler and the application do to the batcher is a step of it
(`ClientRunsBatcher`), so that the theorems about the batcher hold below the
client. `ShutInv`: at most one task is past the test of `_closed` in `close()`,
it drains only when the worker is over, and then the buffers stay empty, because
nothing enters a closed batcher. With `HttpInv` (when the HTTP client of a closed
batcher is closed, the batcher's `close()` has run to its end) it gives
`ClientTypeCorrect` and `ClosesInOrderHolds`. `LedgerInv` is that of the sync
engine with a further place, `lost`, where cancellation puts what a task held;
a lemma for each way in which one task moves entries (`OneTaskMoves`) keeps the
accounts. `EntriesAccountedHolds`, `Implements` and the same for the client
(`ClientEntriesAccounted`, `ClientImplements`) follow.

**`SyncClientProofs`.** `TypeInv` adds to the types that the slot `_batcher`
holds a batcher that was made from the moment a thread may use it. `AccountInv`:
two calls of `log()` have different entries, and a thread that is not sending
holds nothing, so that accepting and draining move entries between disjoint
places (`SpreadUpdate`). `ClosingInv` follows a closing thread: it has no batcher
in its hands before it takes it out of the slot, from the join on that batcher is
shut, and a shut and empty batcher stays empty; `DrainsBeforeHttpClosesHolds`.
`FlushInv` adds that batchers that are not made are empty and that what a flush
marked was accepted; with one batcher, the thread that drains it has drained
them all (`FlushReachesAllHolds`).

**`CircuitBreakerProofs`.** `BreakerInv` adds to the types, which include the
age order of the samples that `_prune_locked` relies on, that a closed breaker
keeps no more samples than were recorded since it closed. That is why four new
records are needed to open it (`CleanAfterRecoveryHolds`) and, with the lemma
that pruning an ordered window leaves exactly the fresh samples, why it opens
only on a fresh window (`TripsOnFreshWindowHolds`). `OpenNotExtendedHolds` is
a property of single steps. `OpenHoldsForLoneCaller` assumes that any two
callers are equal; its invariant is that nobody is inside a call while the
breaker is open.

**`SendPathProofs`.** `LoopInv` says that inside the loop every answer so far
was one to try again after, and that a sleeping caller has an attempt left;
`FinalAnswerEndsCallHolds` follows. `FailureNotSilentHolds` rests on the lemma
that the status and the base class of an exception are two readings of one
classification (`StatusAndReport`). `UsesBreakerHolds` maps every step to one
of `CircuitBreaker` or a stutter, so that what is proved about the breaker
holds for it inside the send path: `TypeCorrect` instantiates the module of the
breaker's theorems for its own part, and adds which place inside the breaker
belongs to which place in the call (`LinkInv`). `SendPathAssumption` repeats the
breaker's assumptions on the threshold, the window and the break.

**`EndpointResolverProofs`.** `CacheInv`: who entered knowing an endpoint finds
one and is not on the way to a discovery, and who is past the test finds one.
`TypeCorrect`, `CacheStopsDiscoveryHolds` and `ReturnsEndpointHolds` follow.

**`ReadPathProofs`.** `ReadInv` adds to `CacheInv`, place by place, how many
requests a read has made, that it knows its endpoint in the loop, and that only
its end reports. Every step of a reader is one of its resolver or a stutter
(`ResolverSteps`), which gives `ReaderUsesResolver` and lets `CacheInv` be reused
as it is. `ReadTypeCorrect`, `ReportedWhenExhaustedHolds` and
`FailuresAreLogDBErrorsHold` follow.

**`EntryObjectsProofs`.** `LevelsMapped`: the cascade of comparisons equals the
highest standard level that a number reaches, for every integer.
`AttributesMapped`: the order of the `isinstance` tests is right for all types.
`EntryInv` has three parts. `ObjectsInv`: every object's lists and maps hold, by
value, what was asked of it. That is inductive although objects share them,
because nothing is ever written into one that exists (`NewObject`: all growth is
a new object over cells of which the old ones are a prefix); for fields only up
to the first `log()`, which stamps in place. `ConfigInv`: a client whose options
nobody rekeyed finds the key there that it was made with. `PendingInv`: what
waits has the fields its caller asked for and the defaults of the time at which
it was stamped. `BuilderIsolatedHolds`, `DeliveredAsMeantHolds` and `OwnKeyHolds`
follow. The copies that `build()` and `emit()` make are handled by `Copied`; it
rests on `SetToSeq` listing every element of a finite set (`Listing`).
`EntryObjectsAssumption` says that the numbers of levels are integers.

**Only model-checked**: the liveness properties `NoEntryWaitsForever`,
`EveryEntrySettles`, `CloseReturns`, `CloseCompletes`, `Recovers`,
`RecoversFromOutage`, `AcceptedSettles` and `QuietAfterClose`, since the
installed prover has no ENABLED; and the three disagreements, which are
counterexamples. No induction over data and no recursive operator is needed by
what is proved: sequences are handled by ranges of indices.

## Not modelled

- The end of the process: the worker is a daemon thread and nothing is
  persisted.
- `KeyboardInterrupt` inside a critical section of the sync engine, and
  `flush()` or `close()` called from `on_error` in a caller's thread.
- `enable_circuit_breaker=False`, `enable_batching=False` through `log()` and a
  missing `on_error`: each removes steps of the model.
- `from_env(api_key=None)`: an override that is `None` is taken for one that is
  absent, and the options it makes for those that an empty environment makes.
- Lengths of back-off delays and their jitter; a negative `max_retries`.
- The text of discovery answers (`_normalize`), of requests and of responses;
  formatting of dates, messages and tracebacks.
- The fields of a row that a reader returns: which shapes of a body become rows
  is modelled, the copying of each field is not.
- Creation of a batcher by a handler on a thread without an event loop (it
  raises), and the shutdown of the event loop.
- `__init__.py`, which only exports names.

## Plan

Done, in this order:

1. Batch engine: `EntryLedger`, `SyncBatcher`, `SyncBatcherTimed`,
   `AsyncBatcher`, with `SyncBatcherProofs`.
2. Circuit breaker: `CircuitBreaker`, `CircuitBreakerProofs`.
3. Send path: `Classification`, `SendPath`, `SendPathProofs`.
4. Discovery and reads: `EndpointResolver`, `ReadPath` composed with it, and the
   proofs of both.
5. Client life cycles: `SyncClient` with the echo of its handler, `AsyncClient`
   over the detailed batcher.
6. `AsyncHandler`: `emit()` on threads that are not the loop's.
7. Data: `DataMapping` with proofs, `EntryObjects`.

8. Proofs of every invariant that a run checks, module by module as above.

Left:

9. The abstract batcher of `SyncClient` as a specification of its own that
   `SyncBatcher` implements.
