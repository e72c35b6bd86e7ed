# A verification development of figbird

figbird is a client-side data store for Feathers services and React. It keeps one
normalized entity cache per service, keeps query results live under realtime
events, and lets an application write optimistically. There is one JavaScript
thread, and everything interesting happens *between* turns of its event loop:
responses, realtime events, answers to mutations, timers, promise continuations,
renders and effects arrive in any order, and each touches state the others left
half way. That is what these modules model.

Line references are to files under `src/lib/core/` unless they say otherwise. Which
lines each definition stands for is in `PROJECT.json` under "map".

## 1. Inventory

| component | state | operations | who calls whom |
|---|---|---|---|
| fetch journal (`fetchRebase.ts`) | one event sequence per service, a cursor per fetch in flight, its overflow mark | `begin`, `record`, `read`, `end`, `#compact` | the store begins a cursor per fetch, records every authoritative event, reads it when the response arrives |
| fetch rebase (`fetchRebase.ts`) | none | `planFetchRebase`, `rebaseResponseData` | the store lays the journalled events and the active overlays over a response |
| mutation lanes (`mutationLanes.ts`) | per entity: base, visible projection, entries, running flag, deferred queries | `ensure`, `enqueue`, `takeNext`, `settle`, `acceptAuthoritative`, `defer*`, `release`, `replaceTail`, `cancel` | the store drives them; projections come back as cache events |
| entity cache, event queue (`queryStore.ts`) | entities per service, batch queue, which queries show which item | `#processEvent`, `#processQueuedEvents`, `#settleQueuedMutation` | the realtime feed, lanes and fetches write; queries are notified |
| mutations without a lane (`queryStore.ts`, `mutations.ts`) | none of their own | batch and id-less creates, patches of all, custom calls | handles and the deprecated `useMutation` |
| mutation tracker (`mutationTracker.ts`) | mutations in flight, a snapshot | `start`, `end` | hooks read it |
| fetch lifecycle, reconcile gate (`queryStore.ts`) | status, pending, dirty, generation, cooldown windows, hidden-tab set | `ensureFresh`, `#queue`, `#fetched`, `#requestReconcile`, `#vacuum`, visibility, reconnect | subscriptions and events ask for fetches |
| local answers, materialized roots (`queryStore.ts`) | which services are held whole | `#tryLocalFind`, `diffCompleteSet`, sweeps | answer queries from complete sets |
| window maintenance (`windowMaintenance.ts`) | none: rows and total of each query | `applyEventsToService`, `mergeEventIntoWindow` | called for each batch and each rebase |
| mutation queue, gated attempts (`mutationQueue.ts`, `gatedMutationAttempt.ts`) | items, readiness, timers, a pause, a detached mark, a status | enqueue, coalesce, `flush`, `retry`, `discard`, `detach`, `expedite` | feeds lanes; lanes expedite it |
| paged roots (`queryRoots.ts`) | pages, load-more state, a reconciliation | `loadMore`, `refetch`, page-by-page reconciliation | own several store queries |
| window query and pagers (`windowQuery.ts`, `windowQueryPager.ts`) | readers, pages, checkpoints, cold reads | reads, moves, eviction | own store queries |
| relational queries (`relationalQuery.ts`, `relationalFilters.ts`, `relationalAssembly.ts`) | a root, relation subscriptions, last assembly, Suspense claim | source sets, gather and assemble, cleanup | own store queries over several services |
| facade (`figbird.ts`) | keyed mutation queues, interned query references, window queries | `getMutationQueue`, `retainMutationQueue`, `query`, `window`, `prepare`, `prefetch` | hands all of the above to hooks |
| React hooks (`src/lib/react/`) | refs, reducers | render, effect, cleanup, Suspense, error boundaries | hold references and queues |
| devtools and bridge (`devtoolsBridge.ts`, `src/lib/devtools/`, `src/extensions/`) | records, payloads, traces; sessions, frames | capture, trim, poll, activate | listen to the store's events |
| query definition (`queryBuilder.ts`, `queryClassification.ts`, ...) | none | descriptors, identity, classification | decides what the store may maintain locally |
| adapters, matcher (`src/lib/adapters/`) | none | requests, `isItemStale`, totals, matching | called by the store |
| demo, docs, build tasks, testing helpers | | | not part of the library |

What makes them hard, and what each has to get right:

* **Journal.** One sequence serves all fetches; compaction for one must be invisible
  to the others, a hung fetch must not make it grow, an overflowed one must know it.
* **Lanes and cache.** Optimistic intents are stacked on a base that moves under
  them; answers, echoes, other clients' events, refusals and failures of executed
  writes interleave: no ghost of a settled intent, convergence, no dependant of a
  failed create sent, no owed reconciliation lost, every lane released.
* **Windows.** Events are merged into a page whose complement the client cannot see:
  it is the server's page or a reconciliation is owed.
* **Lifecycle.** Fetches overlap with subscriptions, retries, cooldown, a hidden tab,
  vacuum and re-creation: no request dropped, no query left fetching, nothing of a
  dead query acting on its successor.
* **Complete services.** Local answers are as complete as the server's, under
  outages, page-wise reads and failing refetches.
* **Queues.** Two serial orders (queue and lane) meet: both are kept, no write that
  is due waits for a timer, discards are complete, no circular wait.
* **Pages, pagers, relations.** Several cached queries shown as one while they load,
  fail, are evicted and replaced apart from each other.
* **References.** Renders may be thrown away, StrictMode runs effects twice, a tree
  is hidden and shown: what is in use must not be evicted, what is not must go.
* **Devtools.** Bounded records of unbounded streams, without a payload kept in vain
  or an end taken for another's.

The hazards, each at its line with the properties that watch it, are in
`PROJECT.json` under "hazards".

## 2. Modules

```
FetchLog <--implemented by-- FetchEventJournal <-- FetchEventJournal_proofs
QueryReconciliation <-- MCQueryReconciliation, QueryReconciliation_proofs
MutationLanes <-- EntityStore <-- MCEntityStore, EntityStore_proofs
              <-- MutationQueue
              <-- MutationLanes_proofs <-- EntityStore_proofs <-- EntityStoreConvergence_proofs
MutationQueue, MutationLanes_proofs <-- MutationQueue_proofs
WindowMaintenance <-- WindowQuery <-- MCWindowQuery
                  <-- MaterializedService <-- MCMaterializedService
UnkeyedMutations, MaterializedService <-- ServiceCache <-- MCServiceCache
UnkeyedMutations <-- UnkeyedMutations_proofs
PagedQueryRoot <-- MCPagedQueryRoot
WindowPager <-- MCWindowPager
RelationalQuery <-- MCRelationalQuery
MutationQueueRetention, QueryRefs, WindowRefs <-- Hooks
MutationQueueRetention <-- MutationQueueRetention_proofs
DevtoolsCollector, DevtoolsBridge <-- Devtools <-- MCDevtools
```

Operations are operators from one state to the next, named after the code's
functions; an action is a turn of the event loop and calls the operators its handler
calls. A module's state is collected in the record `State`, threaded through the
operators, and put back by `Become`. Definitions marked "Mutant" are plausible bugs;
they are used by nothing but the mutation of the definition below them.

**FetchLog** is what the comment of `class FetchEventJournal` promises: each fetch
has a log of its own, which holds what was recorded since it began, or has
overflowed. **FetchEventJournal** is the code: `Begin`, `Record`, `End` are the
methods, `Read` what `read()` returns, `Compacted` is `#compact`. The refinement
mapping shows `Read(c)` as the private log of `c`.

**MutationLanes** has the transitions of one lane as operators on a record. An item
is the server revision it comes from and the local intents folded over it, so that a
rollback that leaves a trace is visible. `update` and `patch` take the same path and
are one. **EntityStore** composes the lanes with the cache, the batching event queue,
a covering query's fetch and the server: `Call` is `registerMutation` of a keyed
call, `Deliver` the arrival of an answer (the whole `#settleQueuedMutation`) or of an
event, `BatchTimer` the flush, `BeginFetch`/`EndFetch` the fetch of an `.all()` query
with `realtime: 'refetch'`. The server executes or refuses, and may execute and still
report a failure.

**MutationQueue** has the queues over the same lane operators. An item is one
transport request; `calls` are the calls coalesced into it and `sent` those it held
when it last went out. `Arm` is `#armCurrent`, `Wake` the `whenReady` listener with
the recursion through `expedite` (`Woken` is whom it reaches, `Awake` what becomes of
them, `Begin` the drain of each), `DrainLane` is `#drainMutationLane`, `Observe` is
`#settled`. A schedule is reduced to whether a method waits. Entries are not
optimistic here: projections are the subject of EntityStore.

**UnkeyedMutations** has the writes without a lane, the tracker, and the reducers of
`useAction` and `useMutation`; `heard` is what a `useMutating` subscriber read when it
was last told. **MaterializedService** has a service read page by page by `findAll`,
the local answer of another query over it, synthetic events from `diffCompleteSet`,
and the sweep after a reconnect. **ServiceCache** puts the two side by side.

**WindowMaintenance** translates `mergeEventIntoWindow`, the complete-list merge and
`findInsertIndex`, with the cases that give up and ask for a refetch.
**WindowQuery** runs one query of a given shape against a server, with its fetch, its
journal and `rebaseResponseData`.

**QueryReconciliation** is the life of one stored query. `jobs` are the `#queue` loops
under way (there may be several), `window` its cooldown entry, `deferred` its
membership in `#deferredWhileHidden`. `version` counts relevant changes at the server;
`shown` is the version on screen, `requested` the newest one a reconciliation was
asked for, `seen` what a response holds and `journal` what its events bring it to.

**PagedQueryRoot** is the root of `.paginate()` over the store's queries, cursor and
offset pages: `OnState` is the listener of a page, `BeginReconcile`, `Advance`,
`Restart`, `Abort` the phases of the page-by-page reconciliation, `Phase` what
`snapshot()` says. **WindowPager** is `WindowQueryRef` with both pagers: readers,
`SyncPages`, protected and evicted pages, checkpoints, cold reads, the sync and
cleanup microtasks. **RelationalQuery** is a root with a relation of one of three kinds and one
nested under it: `SyncRelations` follows source sets, `Gather` and `Assemble` build
the tree, `Settled` decides what is shown while parts load.

**MutationQueueRetention**, **QueryRefs** and **WindowRefs** are the three tables of
the facade with the hooks that use them; React is their environment. An action is a
task with the microtasks it leaves. A commit runs first the cleanups of what it
removes or hides, then the effects of what it shows. **Hooks** puts them side by side.

**DevtoolsCollector** (records, payload retention, traces) and **DevtoolsBridge** (a
page's bridge and the polling panel) are operators; **Devtools** is the machine of a
store, a page and a panel that calls them.

ServiceCache and Hooks compose parts that share no state: every behaviour is one of
one part, chosen at first by the variable `part`, and the others stay as they begin.
They exist so that one run covers the parts.

Inputs the code gets from elsewhere are chosen freely from small sets: which method,
entity, row, whether the server fails. Listeners of the application do not call back
into the store inside an operation (section 7).

## 3. Runs

| run | instance | shows |
|---|---|---|
| `journal` | 3 cursors, 2 events, limit 2 | the shared journal implements private logs (`ImplementsFetchLog`), stays bounded (`JournalIsBounded`), and the invariant of the proofs (`IInv`) |
| `entity_store` | 1 entity with 3 calls of any method and 2 revisions, or 2 calls and 4 revisions, events applied as they come; the same with 2 calls and answers that overtake events; 2 entities with batched events and answers that overtake them | no settled intent remains in the cache (`NoGhostIntent`), it converges to the server (`Converged`), owed reconciliations survive the lanes (`NoReconcileLost`), dependants of a failed create are not sent (`DependantsAreNotSent`), lanes are released (`LanesAreReleased`) |
| `windows` | 4 query shapes, 3 ids, 3 sort values with ties, 2 writes, own creates | once nothing is under way and no reconciliation is owed the window is the server's (`MatchesServer`); that state is reached (`EventuallyMatchesServer`) |
| `reconcile` | all policies, 3 changes, 2 subscribers, 2 subscriptions, hidden once, 1 failure, 1 retry | no event is lost (`EventsAreNeverDropped`), `fetching` is true and a vacuum leaves nothing (`QueryStateIsTrue`), what was asked for is shown in the end (`EventuallyReconciled`) |
| `mutation_queue` | 2 queues, one debounced, and direct calls on 1 entity and a laneless custom method; 3 calls, 1 failure, 1 automatic retry | serial, ordered sends (`Serial`), nothing coalesces into what was sent (`CoalescedCallsAreSent`), no timer holds back a write that is due (`NoTimerHoldsBack`), discards are complete (`DiscardIsComplete`), calls end (`EveryCallSettles`) |
| `paged_root` | both strategies, 3 rows in pages of 1, 1 failure, 3 (cursor) or 1 (offset) turns of the application | at rest the pages are a prefix of the server's rows (`ShowsPrefixUnlessRaced`), the chain has no gap and keeps its depth (`ChainIsKept`), loading ends (`EventuallyIdle`) |
| `window_pager` | offset, cursor with and without totals, 4 rows in pages of 2, 1 page retained, 2 ranges | readers are served and nothing outlives the last of them (`PagesFollowReaders`), no page a reader needs is evicted (`EvictionSparesReaders`), suspended reads settle (`ColdReadsSettle`) |
| `relational` | all kinds of relation, 2 rows, 1 change, 1 failure, 3 calls | at rest the tree is the join (`ShowsTheTree`), nothing outlives it (`TornDownWhenLeft`), shown rows never turn into a loading gap (`NothingVanishes`), suspended reads settle (`SuspendedReadsSettle`) |
| `devtools` | 8 workloads (what happens together), limits of 1 to 3, 2 queries | records hold what they show and no more (`RecordsAreExact`), what is shown in flight is (`InFlightIsTrue`), a visible panel catches up (`PanelCatchesUp`) |
| `service_cache` | 7 cases of a service of 3 rows read in pages of 1; 2 calls, 3 revisions, hidden once | a local answer is what the server would answer (`AnswersAgree`), the cache holds the service (`CacheIsComplete`), hooks tell the truth (`HooksTellTheTruth`), laneless writes converge (`CacheConverges`) |
| `hooks` | 2 keyed components and one without a key, 2 queues; a `useQuery` and a `useQueries` reader of 2 queries; 2 window readers with a cache of 1 | queues and failures stay reachable (`QueuesAreReachable`), unfinished work is not evicted (`UnfinishedIsKept`), readers of one query share it (`ReadersShare`), reads in use are kept (`ColdReadsAreKept`), what nobody uses is let go (`ComesToRest`) |
| `lost_force` | a root nobody watches, two reconciliations within a cooldown | a counterexample to `RootsReconcileUnwatched` (section 6) |

Why these bounds. A lane needs three calls for a middle one to be rolled back between
two others and for create, remove, create; a third revision is the write of another
client between an own write and its echo. A journal needs a third cursor for one to
overflow, one to hold and one to be compacted under. A page of two rows among three
ids has full, one-short and empty states and a row entering, leaving and moving on
each side. Two overlapping fetches need two subscriptions. An expedited write needs a
debounced queue with two items and another writer: three calls. A chain of three
pages has a first, a middle and a last one; a page retained beyond the readers' needs
one more range than readers. A hand-over needs two keyed components and a queue that
was evicted under the first of two. What the bounds exclude: a chain of expedites over
two lanes (four calls on two entities), windows of more than two rows, more than two
fetches of one query at a time, more than one relation at a level.

`CHECK_DEADLOCK FALSE` is set everywhere because an application may stop calling, and
the bounded counters stop the environment.

Conditions inside properties are known limits and not conveniences: `~raced`
in PagedQueryRoot and `stale` in MutationQueueRetention are history variables that
mark the behaviours of section 6 which break the property; `EntityStore` applies
`Converged` and `NoGhostIntent` where events are applied as they come; `WindowQuery`
runs with `PageMoves = FALSE`: under `$skip`, no patch moves a row across the start of
the page.

### Fairness

* `EntityStore`, `WindowQuery`, `MaterializedService`: requests are handled, the wire
  delivers, timers fire, requested reconciliations run. Nobody need write.
* `QueryReconciliation`: requests are answered or fail, answers arrive, timers fire.
  Nobody need subscribe, look at the tab or ask.
* `MutationQueue`: requests are answered or fail, timers fire, promise continuations
  run. Nobody need decide about a failure: `EveryCallSettles` excepts what a paused
  queue holds up.
* `PagedQueryRoot`, `WindowPager`, `RelationalQuery`: microtasks run, requests are
  answered or fail. In the latter two an answer must come though calls of the
  application keep arriving first, hence the form `<>[](no request) \/ []<><<answer>>`.
* `MutationQueueRetention`, `QueryRefs`, `WindowRefs`: retention timers fire, fetches
  end, a render that is not thrown away commits, and a suspended one whose promise has
  settled is tried again. Nobody need mount, leave or decide.
* `Devtools`: the poll timer fires, the page runs, what a panel waits for is heard, a
  session nobody polls expires.

These are obligations of the event loop, of a server and of React; where figbird
clears a timer the models clear it too. A request that hangs for ever is not covered
by the liveness properties; the safety properties allow it. Most conditions are
written with the guard of their action (`[]<>~guard \/ []<><<A>>_vars`), which says
the same as `WF_vars(A)` for an action whose guard implies that it changes something,
and spares TLC the evaluation of ENABLED.

### Mutants

Each property of a passing run names, in `PROJECT.json`, a plausible bug in the code
that breaks it: a guard dropped, a reset forgotten, an order swapped.

## 4. Proofs

Proofs are about the specifications the runs check, for every value of the constants
that satisfies the named assumption of the module. Liveness is not among them.

### The journal (`FetchEventJournal_proofs`)

For every set of fetches and of events and every limit (`MaxEvents \in Nat \ {0}`; the
code's constant is 1024): `JournalInvariant` (`Spec => []IInv`), its corollaries
`JournalTypes`, `JournalStaysBounded`, `NothingIsRetainedInVain`, and the refinement
`JournalImplementsFetchLog`.

`JournalIsBounded` is not inductive: whether an append overflows depends on where the
cursors are. `IInv == TypeOK /\ Reach /\ NothingRetainedInVain`. `Reach` says that each
safe cursor points into the journal, at most the limit behind its end;
`NothingRetainedInVain` that a journal that is not empty starts at a safe cursor. The
refinement needs both, since compaction subtracts an index that must be the least
one, and a suffix of a suffix must be the suffix it is supposed to be. Lemmas on
sequences and minima come first, then compaction (`CompactedProperties`: the safe
cursors read what they read before), then one step per action.

### One query's fetches (`QueryReconciliation_proofs`)

For any policies, sets of reasons, retries, with and without a cooldown, any number of
subscribers, changes, failures and overlapping fetches (`ReconciliationAssumption`
only types the constants): `ReconciliationInvariant` (`Spec => []IInv`),
`QueryStateStaysTrue` and `ReconciliationsAreNeverDropped`.

The two properties speak of states in which nothing is under way; the invariant says
what must be true before. `Basics`: the state is typed, a query that is fetching has a
fetch of its generation, no fetch is of a later generation than the query, and a
query that is not in the cache has no timer and no mark. `Recalls`, where all reasons
are such that their events are journalled: every answer on its way will cover the
newest request (`Covers`: it has seen it, or its journal has), and the query shows
it, or has a fetch or a timer, or is marked for the next subscriber. `Marks`, as long
as no fetches of the query overlapped, and whatever the reasons: every answer of the
current generation covers the request or the query is flagged. The operators of the
store (`Queue`, `Refetch`, `Gate`, `Fetched`, `Discarded`, `Failed`) get one lemma
each, over an arbitrary state of the store; the lemmas about actions cite them.

### The table of mutation queues (`MutationQueueRetention_proofs`)

For any components, any subset of them with the key, and any bounds:
`RetentionInvariant` (`Spec => []IInv`), `QueuesStayReachable`, and the action
property `UnfinishedWorkIsKept`. They are about the specification of
`MutationQueueRetention`; the run `hooks` checks the same properties of it next to
the other two tables.

`QueuesAreReachable` is not inductive: that a mounted component can use its queue
depends on who owns which queue, and that a failure stays reachable on what happens to
work that has not failed yet. `IInv` has five parts: `Placed` (components hold queues
there are, owners hold what they own, a private queue is held by one component),
`Registered` (the owners of keyed queues own the registered one, which is not
detached; nothing detached has failed), `Mounted` (a component owns its queue exactly
while it is mounted), `Private` (a private queue is detached when its component is
hidden, and unused before it is shown), `Reachable` (unfinished work is detached,
registered, or of a private component that is there). A commit runs many cleanups and
effects one after the other, and between them `Mounted` is false of the components
whose turn has not come. So the parts are stated relative to two sets, of the
components going and coming: each cleanup takes one out of the first, each effect one
out of the second, and after the commit both are empty. Each operator of the registry
has a lemma that it keeps `Sound` and what it leaves alone; `Keeps` carries
`UnfinishedIsKept` through the same lemmas.

### The entity cache and its lanes (`EntityStore_proofs`, `MutationLanes_proofs`)

For any finite set of setups (`EntityStoreAssumption`): any entities and methods, any
number of calls and of writes of the server's, events that wait in a batch or not,
answers in order with events or overtaking them, any number of fetches.
`StoreInvariant` (`Spec => []EntityStoreInvariant`), its corollaries `StoreIsTyped`,
`NoIntentIsLeft` (`NoGhostIntent`) and `ReconcileIsNeverLost` (`NoReconcileLost`), and
`DependantsAreCancelled` (`DependantsAreNotSent`), half of which is about steps.

The invariant has five parts. `Typed`. `LanesRest`: between operations a lane holds the
unsettled mutations of its entity, all of them (`Complete`), in the order of the calls
(`InCallOrder`), of which the first alone has been sent (`Entered`); what it shows is
the projection of its entries (`Projects`), and it is open exactly while it waits for
a request (`Busy`). `RowsShown`: where no event waits, the row is what the lane shows,
except that a fetch may replace the row under a lane without optimistic entries.
`InFlight`: a request and its answer are about a mutation that was sent and is not
settled, one of the two at most, and once. `Noticed`: `NoReconcileLost` with the lanes
that owe the reconciliation named. None of the three properties is inductive. That a
row shows no settled intent needs the lane to hold exactly what is not settled; that a
settlement cancels the right mutations needs the answer to be about the head of its
lane, hence `InFlight`, and the order of the entries, since the code cancels by
position and the property speaks of calls.

The projection of a lane, the application of a batch and what a settlement cancels are
folds or positions in sequences. The library's induction theorems take an operator as
a parameter and cannot be used; `Project` and `ApplyBatch` are recursive functions
over an initial segment of the naturals instead, and `Induction`, `BoundedInduction`
and `Recursion` in `MutationLanes_proofs` state induction and recursion over sets,
from the existence of least elements. On them rest `ProjectFolds` (what
`Project` computes, entry by entry), `ProjectTyped`, `ProjectPlain`, `ProjectAppend`,
`ApplyBatchDoes`, and `SparedIsStretch` (what is left of a lane is one stretch of it).
Then each operator of the store has a lemma over an arbitrary client
(`FlushDoes`, `ShowProjectionDoes`, `DrainDoes`, `SettledDoes`, `CallDoes`,
`IngestedDoes`), each action one step.

Two things came out of the attempt. `NoGhostIntent` used to say of batched setups, too,
that a row shows its lane where the lane has an overlay: the induction failed, and a
counterexample exists (section 6, first item); the property now keeps to events
applied as they come. In exchange its second half, which had been restricted to
answers that do not overtake events, holds of every order of answers.

### Convergence (`EntityStoreConvergence_proofs`)

`CacheConverges` states `Converged` for any of those setups; the property itself speaks
of the ones in which events are applied as they come and answers do not overtake them.
It is about rest, and what must be true before is `Convergent`, which says of every
entity that the client is in step with the server (`InStep`). What the client knows of
an entity is the base of its lane, or the cached row without one. `News`: the events
and acknowledgements of the entity on the wire (`Coming`) carry revisions in the order
of the writes, and the last of them brings the server's row. `Knows`: what is known is
never newer than the server's row, and is the server's row when there is no news.
`Asks`, while a response is on its way: if it is older than what is known the fetch's
journal contradicts it (`Against`), and if it is newer than what is known or is coming,
the message that brings it is on the wire. `ShowsLane`: the row shows its lane, except
that a row may be missing while news is on its way; that exception is real, since a
response computed after a removal empties the row under an optimistic lane whose base
is the older row.

The steps that touch revisions are first proved about numbers and sets of positions
(`NewsKeeps`, `WriteKeeps`, `AnswerIsAsked`, `AskedIsKnown`); then each operator of the
store says which row it leaves known (`SettledTells`, `IngestedTells`, `FetchedStands`),
and each action is the two put together. The case that makes the invariant what it is
is the end of a fetch: a response is believed only if the journal does not contradict
it, and it has to be shown that then nothing newer has been applied and nothing older
is still to come that would undo it.

### The mutation queues (`MutationQueue_proofs`)

For any finite set of queues, any subset of them debounced, any entities, methods,
retries, failures and calls (`MutationQueueAssumption`; that the names for "no queue"
and "no entity" are not queues and entities is part of it): `MutationQueueInvariant`
(`Spec => []Inv`), and `OneByOneInOrder` (`Serial`), `NoCallIsLost`
(`CoalescedCallsAreSent`), `DiscardedIsNeverSent` (`DiscardIsComplete`) and
`NothingWaitsForATimer` (`NoTimerHoldsBack`).

A mutation stands in two lists at once, the queue it was put into and the lane of its
entity, and either may be the one that holds it back. `Serial` is not inductive: that
the next thing sent is the oldest of its queue and of its lane has to be known before
it is sent. `Holds` has one part for each kind of object. `LaneHolds`: a lane holds
the unsettled mutations of its entity in call order, the first runs exactly when the
lane does, and nothing behind any of them has been sent. `QueueHolds` says the same of
a queue and of what it has not heard the end of, and that only the first may be ready
or the subject of a decision. A lane and a queue may disagree for a moment on whether
a mutation has ended, since the queue hears of it a turn later; so the first of a
queue is not yet observed, while others may have settled, by a cancellation.
`ItemHolds`: what is under way was ready and heads its lane, what has been sent is
not cancelled and gets no more calls. `InOrder` is the order of the log. `Inv` adds
that mutations are numbered in the order of the calls, and that what was discarded
is cancelled, which, with `ItemHolds`, is `DiscardIsComplete`.

One call of the code does much at once: the end of a request cancels, drains the
lane, tells the queue, arms the next timer, wakes what is due, expedites what stands
before it in other queues and drains their lanes. The model threads a record through
these, and so does the proof. `Holds` is true between any two of them, and `Keeps`
lists what one leaves alone that the next relies on (what a queue holds, its pause,
the ends of mutations). Each operator has one lemma in these terms: it keeps `Holds`,
and it `Keeps` everything but the mutation it is about. The recursive functions
(`Woken` by waves, `Wake` and `DiscardAfter` by mutation number) are unrolled with
`Recursion` and `BoundedInduction` of `MutationLanes_proofs`. The actions then
follow in a few lines each.

`NoTimerHoldsBack` is the part of `Inv` named `Covered`: whatever stops a mutation that
is due (`Stops`: an older one of its lane, waiting in another queue) is covered by a
flush of that queue, and the head of that queue is due (`Quiet`), so there is nothing
for a timer. `Covered(s, Q, B)` allows for exceptions in the middle of an operation:
queues `Q` whose new head has not been armed yet, and mutations `B` that have just been
registered and have not woken yet. Most operators only let lanes and what waits shrink
(`Shrinks`), and then nothing new can stop anything (`CoveredShrinks`). Three do not:
a mutation is registered (`EnterCovered`, which leaves itself or its queue as an
exception), a queue hears of an end (`HearsCovered`, its next head is the exception),
and both end in a `Wake` or an `Arm`, which close the exception (`WakeCovered`,
`ArmCovered`). For this, `Wake` has to reach everything that stands before what it
wakes, through any chain of queues and lanes, in as many waves as there are queues:
`Together` says that what is woken with a mutation contains the head of each queue
that holds one of them back, and it holds because a wave that adds anything adds the
head of a queue that had none awake, so that the queues run out first (`OnwardFrees`,
`FreedTogether`).

### Writes without a lane (`UnkeyedMutations_proofs`)

For any finite set of records, any components, any number of calls and of times they
are hidden (`UnkeyedAssumption`; that `MaxRevs` is below `Local` says that the mark of an
optimistic row is not a revision of the server's): `Invariance` (`Spec => []IInv`),
`OutcomesAreTold` (`HooksTellTheTruth`) and `CacheCatchesUp` (`CacheConverges`). The order
of messages is that of `MayPass`, which is an assumption on the connection: answers may
come late, but not past what they would undo.

No lane orders these writes: an answer is applied as it comes, together with what waits
for the batch timer, and only `patched` events are compared by revision. So the
invariant is about the events that are under way, in the queue or on the wire, there as
news or as what an answer will be turned into. `Ordered`: what comes before the creation
of a record is the same creation again, and what comes after its removal is the removal
again. `StoredArrives` and `RemovedArrives`: the server's row is cached, or an event
under way brings it, and nothing newer is cached or coming; what the server has not is
not cached, or its removal is under way. `CreatedFirst`: as long as a creation is under
way nothing later was applied. `DoneIsShown` and `LocalIsSent` relate writes to rows: one
that is done is shown, and a row is optimistic only for a batch that is not settled.
`AnswersFit`, `WritesFit` and `UnbornAreNew` are the bookkeeping of requests and answers,
and that the records of a create belong to nothing else until the server has made them.
The parts are `Holds(World, 0)`; `IInv` adds that the tracker holds exactly the writes
that are not settled, and that the actions and mutations of components are right
(`AreRight`), for which the pending count of an action is the cardinality of its writes
in flight.

A step applies any number of events, and at the end of a write its outcome is recorded
before its events are applied. `Holds(x, t)` is therefore stated of a world: the cache, how
much of the queue has been applied, the writes, the wire and what the server holds, with
`t` the write whose events are being applied. The lemmas are about worlds: one event is
applied (`HeadApplies`), the rest of the queue is, by induction (`FlushHolds`), a message is
taken from the wire (`TakeDoes`, `Passable` for why what `MayPass` lets by changes no
order), a write is settled (`SettlesDoes`), the server handles a request or another
client writes (`ServeDoes`), a call begins (`CallHolds`). What the code does to its own
state in one of these is a record with many parts (the tracker is told, subscribers
hear, an actor moves), which the lemmas `...Form` turn into one client made of its parts.
`NotBusyMeansShown` speaks of what subscribers heard last, so the proof has to show that
each step that hides an outcome, or reveals one, also tells them.

### Only model-checked

* Every liveness property, since neither fairness nor ENABLED is within the provers'
  reach: `EventuallyReconciled`, `EventuallyMatchesServer`, `LanesAreReleased` (its
  safety half is a corollary of `Busy` and `Entered`), `EveryCallSettles`,
  `EventuallyIdle`, `ColdReadsSettle`, `SuspendedReadsSettle`, `PanelCatchesUp`,
  `ComesToRest`.
* The replay of events in `WindowMaintenance`, `WindowQuery` and `MaterializedService`;
  the chain of pages of `PagedQueryRoot`; the pages of `WindowPager`; the sets of
  subscriptions of `RelationalQuery`; the records of `Devtools`: their operators are
  recursive or fold over sets.
* The bound of `flushThrough` in the `TypeOK` of `MutationQueue`.
* The tables of `QueryRefs` and `WindowRefs`, which could be treated the way
  MutationQueueRetention is.

## 5. Plan

Next to be proved, in this order: the sharing and keeping of references in
`QueryRefs` (`ReadersShare`), with the invariant that a live reference is interned or
has a listener; that of `WindowRefs`; then `CacheIsComplete` of `MaterializedService`.

## 6. Findings and known deviations

**`lost_force`.** The trailing timer of the reconcile cooldown re-enters
`#requestReconcile` without the `force` of the request it stands for
(`queryStore.ts:2420`), and so does `#drainDeferredReconciles` (`queryStore.ts:2465`).
A materialized root nobody watches is then only marked pending, against
`queryStore.ts:2508-2509` ("Materialization roots reconcile even with no
subscribers") and `queryStore.ts:2342` ("a reconciliation may be delayed and
coalesced, never dropped").

The models follow the code in what comes next as well; the properties are stated so
that they hold beside it, or an environment assumption that is named keeps it out.

*Lanes and cache.*
* A lane takes the *cached* row as its base (`queryStore.ts:863`), although a newer
  event may wait in the batch queue; when its mutations fail, the rollback publishes
  the outdated row, or with batching a ghost of an intent. An event or an older
  projection that waited is also applied over the projection of a lane opened, or
  given a newer base by a fetch, in the meantime: until the next projection the row
  does not show the lane (a remote create waits, an optimistic remove of the row that
  is not cached yet opens a lane without a base, and the timer applies the creation).
* `settle` installs the acknowledged item without the staleness check of
  `acceptAuthoritative` (`mutationLanes.ts:167`; `docs/content/_index.md:1763`): an
  answer that comes after a newer event takes the cache back.
* Answers of batch creates and removals have no staleness check either
  (`windowMaintenance.ts:171-176`); `MayPass` in UnkeyedMutations keeps such answers from
  overtaking. A batch create that is executed and reported as failed is undone although the
  server has its rows (`queryStore.ts:811-815`); `Handle` excludes it.
* A listener that cancels the last queued write of a lane while that lane's
  settlement is being applied releases it, and the settlement then fails in
  `#require` (`queryStore.ts:989-1026`, `mutationLanes.ts:339-343`).

*Windows.*
* The only row of a full window, moved down in the order, is merged in place before
  the window is asked whether it is full (`windowMaintenance.ts:882`).
* A `$skip` window whose earlier page loses an uncached row to a patch is not
  reconciled (`windowMaintenance.ts:763-771`).
* The total counts an own create twice when its echo follows
  (`windowMaintenance.ts:788`), and does not count an uncached row patched into the result.
* Rows with equal sort values are placed without asking (`windowMaintenance.ts:819,
  838-843`); the comparison with the server is of sort values for that reason.

*Lifecycle.*
* `ensureFresh` starts a second fetch beside one in flight (`queryStore.ts:630`); the
  older answer may land last and requests whose events no journal holds are forgotten
  (`overlapped`).
* A fetch found `dirty` after the last subscriber left stays dirty and not pending
  (`queryStore.ts:1783-1787`): a later cache-first subscription shows the old rows.
* Inactive `realtime: 'refetch'` queries are not marked pending (`queryStore.ts:2326-2334`).

*Complete services.* `findAll` is no snapshot; a root refetch that fails leaves
`materialized` set over an old cache; a row that was never cached and leaves ahead of an
offset window before the service is complete leaves that window wrong until the next
event. Windows with `$skip` are left out of the run.

*Mutation queues.* `#onAttemptFailure` tells the listeners "failed" before the decision
can be taken (`mutationQueue.ts:359-362`): a listener that retries or discards at
once is ignored, one that detaches leaves a detached queue paused.

*Paged roots* (what `raced` marks).
* `loadMore` while page zero is refetched uses the old cursor (`queryRoots.ts:373`,
  comment 216-218): a gap, or a row shown twice.
* A page met under way is fetched again and may be dirty as well, which fetches it
  twice and can leave the reconciliation "failed" without a visible error.
* `hasMoreSticky` is overwritten by the notification of any page.

*Window queries.*
* A block covered by several short pages, of which only the last is retained, is not
  refetched, and its reader stays loading (`windowQueryPager.ts:179`;
  `docs/content/_index.md:403-406`). The run fills every page but the last.
* A background refetch of a cursor page that fails throws in `pageSucceeded`
  (`windowQueryPager.ts:232`): the error is not shown and `isFetching` stays. The
  total of a cursor window is set once, at its end (`windowQueryPager.ts:245-247`).
* A cleanup before a waiting sync microtask has page zero fetched without readers.
* An offset page's notification installs that page's old total again.
* More than 20 window queries suspended at a time evict each other
  (`windowQuery.ts:446`); a reference evicted before its component commits shows an
  empty map for a moment; an abandoned settled read stays until the next trim; a
  cold error of a new range beside a subscribed reader is thrown again at every reset
  of the error boundary.

*Relational queries.*
* Nested subscriptions are not disposed of when the parent relation becomes empty
  (`relationalQuery.ts:737`).
* With one query per parent, a failed child and a nested relation not set up yet,
  `isFetching` is true and nothing is in flight.
* A refetch for a related event queued while there are no listeners is dropped
  (`relationalQuery.ts:1504-1511`).
* `useQuery` throws a promise that has already been resolved while a settled query is
  loading again after a cold error, until the fetch ends.
* Filters that refer to the service itself are not evaluated anew for dependents.
* A read suspended when the query is cleaned up never settles
  (`relationalQuery.ts:1636`, comment 259-262; `docs/content/_index.md:907`).

*Facade and hooks.*
* An idle keyed queue may be evicted between render and commit, and retaining it then
  throws (`figbird.ts:839-841`). After a tree was hidden its keyed queue may have been
  evicted, and a queue without a key stays detached. A call through an idle queue
  already evicted pauses for ever when it fails (variable `stale`;
  `docs/content/_index.md:663, 666`).
* A `useQueries` that throws one query's error before the others start, and a tagged
  render that is given up, leave an interned entry nobody evicts; an abandoned
  successful suspended read stays subscribed (history `orphans`).
* A run of `useAction` that settles while effects are disconnected dispatches nothing,
  and `pending` stays (`src/lib/react/useAction.ts:18, 110`). Overlapping calls of
  `useMutation` can leave "success" with the error or the data of another call.

*Devtools.* Parameters of finished spans escape the payload retention
(`src/lib/devtools/collector.ts:1080`). A write rolled back may be trimmed between its
rollback and its error and recreated without its arguments. During the delay before a
retry a fetch is shown as failed and not fetching. A write that ends while the panel
is hidden stays "in-flight" there. Traces of forgotten spans stay until the next trim.

## 7. What is not modelled

* **Callbacks inside an operation.** Listeners are told after a step and act in steps
  of their own; the consequences known of that are in section 6.
* **Projections, `$select`, snapshot responses**: rows are whole.
* **`#tryLocalGet`** and the cache edits of the devtools.
* **`staleTime`** other than zero or for ever, and the jitter of reconnects, which is
  the freedom of when a sweep is told.
* **Query building, identity, classification, plans, cursor maintenance of the rows
  inside a page**: pure functions; what they decide is a constant of the models.
* **`useQueryByDesc`, `useDelayedFlag`, `useDebouncedTransition`**, the layout of the
  devtools, `timelineModel.ts`, testing helpers, demo, docs and build: they present
  what the store holds, or are no part of the library.
