----------------------------- MODULE EntityStore -----------------------------
(***************************************************************************)
(* The entity cache of one service and everything that writes to it        *)
(* (lib/core/queryStore.ts): mutations through their lanes, the realtime   *)
(* feed through the batching event queue, and the fetches of a query that  *)
(* covers the service (.all() with realtime: 'refetch').                   *)
(*                                                                         *)
(* The server and the network are external.  The server executes a request *)
(* or refuses it, may execute it and still have the client told that it    *)
(* failed, and broadcasts an event for every write, the client's own       *)
(* included.  Events arrive in the order of the writes; answers to         *)
(* mutations are ordered with them on one connection (acksInOrder) or not. *)
(***************************************************************************)
EXTENDS Naturals, Sequences, FiniteSets, MutationLanes

CONSTANTS
    Setups,       \* how the client and its application may be set up, one of:
                  \*   ids          the entities that are written
                  \*   methods      the mutation methods the application uses
                  \*   calls, revs  bounds: mutations called, writes accepted
                  \*   batching     eventBatchInterval > 0: events wait for a timer
                  \*   acksInOrder  mutation answers and events share one FIFO connection
    MaxFetches    \* bound: fetches of the query

Id == UNION { s.ids : s \in Setups }
Methods == UNION { s.methods : s \in Setups }
MaxCalls == Max({ s.calls : s \in Setups })
MaxRev == Max({ s.revs : s \in Setups })

ASSUME EntityStoreAssumption ==
    /\ IsFiniteSet(Setups)
    /\ \A s \in Setups : /\ s.methods \subseteq {"create", "patch", "remove"}
                         /\ s.calls \in Nat /\ s.revs \in Nat \ {0}
                         /\ s.batching \in BOOLEAN /\ s.acksInOrder \in BOOLEAN
    /\ MaxFetches \in Nat

VARIABLES
    setup,      \* the setup of this behaviour
    \* the client
    lanes,      \* [Id -> lane], MutationLanes.#lanes
    cache,      \* [Id -> item], ServiceState.entities
    queue,      \* #eventQueue
    reconcile,  \* a reconciliation of the query has been requested and not begun
    fetch,      \* the query's fetch: [inFlight, answered, rows, log]
    calls,      \* the mutations called: sequence of [id, method, optimistic]
    status,     \* what has become of the m-th: "none" before it is called, "queued",
                \* "sent", "done", "failed" or "cancelled"
    \* the server and the network
    server,     \* [Id -> revision], 0 when there is no row
    clock,      \* the last revision given out
    requests,   \* mutations on their way to the server
    wire,       \* what is on its way to the client
    fetches,    \* how many fetches were begun
    \* history
    sent,       \* every mutation that ever reached the adapter, in order
    unseen      \* a change was published that no fetch begun since has covered

client == <<lanes, cache, queue, reconcile, fetch, calls, status>>
network == <<server, clock, requests, wire>>
vars == <<setup, client, network, fetches, sent, unseen>>

Entry(m) == [mutation |-> m, method |-> calls[m].method, optimistic |-> calls[m].optimistic]

Idle == [inFlight |-> FALSE, answered |-> FALSE, rows |-> [id \in Id |-> 0],
         log |-> [id \in Id |-> {}]]

Init ==
    /\ setup \in Setups
    /\ server \in { f \in [Id -> {0, 1}] : \A id \in Id \ setup.ids : f[id] = 0 }
    /\ clock = 1
    /\ cache = [id \in Id |-> Row(server[id])]
    /\ lanes = [id \in Id |-> NoLane]
    /\ queue = << >>
    /\ reconcile = FALSE
    /\ fetch = Idle
    /\ calls = << >>
    /\ status = [m \in 1 .. MaxCalls |-> "none"]
    /\ requests = {}
    /\ wire = << >>
    /\ fetches = 0
    /\ sent = << >>
    /\ unseen = FALSE

-----------------------------------------------------------------------------
(* Applying events: processQueuedEvents and what it publishes.             *)

\* applyEventsToService: a server patch older than the cached row is skipped;
\* creations, removals and projections always apply.
Applies(entities, event) ==
    ~ (/\ event.mode = "server" /\ event.type = "patched"
       /\ IsItemStale(entities[event.id], event.item))

ApplyEvent(entities, event) ==
    [entities EXCEPT ![event.id] = IF event.type = "removed" THEN Absent ELSE event.item]

\* A batch, applied in order: the entities after it and the events that took
\* effect.
ApplyBatch(entities, events) ==
    LET done[n \in 0 .. Len(events)] ==
          IF n = 0 THEN [entities |-> entities, effects |-> << >>]
          ELSE IF Applies(done[n - 1].entities, events[n])
          THEN [entities |-> ApplyEvent(done[n - 1].entities, events[n]),
                effects  |-> Append(done[n - 1].effects, events[n])]
          ELSE done[n - 1]
    IN  done[Len(events)]

\* The fetch journal: effects while a fetch is in flight are kept for it.  What its
\* rebase reads is the revision the latest event of each entity carries.
Journal(f, events) ==
    LET about(id) == { i \in DOMAIN events : events[i].id = id }
    IN  IF f.inFlight
        THEN [f EXCEPT !.log = [id \in Id |-> IF about(id) = {} THEN @[id]
                                              ELSE { events[Max(about(id))].item.rev }]]
        ELSE f

\* publishServiceEventEffects: a batch with an authoritative event asks for a
\* reconciliation of the refetch query at once; a projection leaves it to its
\* lane, or asks at once when the lane is gone.
Authoritative(effects) == \E i \in DOMAIN effects : effects[i].mode = "server"

Projected(effects) == { effects[i].id : i \in DOMAIN effects }

PublishTo(ls, effects) ==
    IF Authoritative(effects) THEN ls
    ELSE [id \in Id |-> IF id \in Projected(effects) /\ ls[id].open THEN Defer(ls[id])
                                                                    ELSE ls[id]]

AsksAtOnce(ls, effects) ==
    \/ Authoritative(effects)
    \/ \E id \in Projected(effects) : ~ls[id].open

\* The client state the operations below thread through.
State == [lanes |-> lanes, cache |-> cache, queue |-> queue, reconcile |-> reconcile,
          fetch |-> fetch, status |-> status, started |-> << >>, published |-> FALSE]

\* processQueuedEvents
Flush(s) ==
    LET batch == ApplyBatch(s.cache, s.queue)
    IN  [s EXCEPT !.cache     = batch.entities,
                  !.queue     = << >>,
                  !.fetch     = Journal(@, batch.effects),
                  !.lanes     = PublishTo(@, batch.effects),
                  !.reconcile = @ \/ AsksAtOnce(s.lanes, batch.effects),
                  !.published = @ \/ batch.effects # << >>]

\* applyProjection, immediate: nothing at all happens without a change.
ShowProjection(s, id, previous, newBase) ==
    LET events == ProjectionEvents(id, previous, s.lanes[id].visible, newBase)
    IN  IF events = << >> THEN s ELSE Flush([s EXCEPT !.queue = @ \o events])

\* Mutants of drainMutationLane: an empty lane is kept; what a released lane had
\* deferred is forgotten.
DrainKeepsLane(s, id) ==
    IF CanTake(s.lanes[id])
    THEN [s EXCEPT !.lanes[id] = TakeNext(@),
                   !.status[Head(s.lanes[id].entries).mutation] = "sent",
                   !.started = Append(@, Head(s.lanes[id].entries).mutation)]
    ELSE s

DrainForgets(s, id) ==
    IF CanTake(s.lanes[id])
    THEN [s EXCEPT !.lanes[id] = TakeNext(@),
                   !.status[Head(s.lanes[id].entries).mutation] = "sent",
                   !.started = Append(@, Head(s.lanes[id].entries).mutation)]
    ELSE IF s.lanes[id].entries = << >> THEN [s EXCEPT !.lanes[id] = NoLane] ELSE s

\* drainMutationLane: send the head if the lane is idle; release an empty lane
\* and hand on what it had deferred.
Drain(s, id) ==
    LET lane == s.lanes[id]
    IN  IF CanTake(lane)
        THEN [s EXCEPT !.lanes[id] = TakeNext(lane),
                       !.status[Head(lane.entries).mutation] = "sent",
                       !.started = Append(@, Head(lane.entries).mutation)]
        ELSE IF lane.entries = << >>
        THEN [s EXCEPT !.lanes[id] = NoLane, !.reconcile = @ \/ lane.owed]
        ELSE s

\* The action's new client state.
Become(s) ==
    /\ lanes' = s.lanes
    /\ UNCHANGED setup
    /\ cache' = s.cache
    /\ queue' = s.queue
    /\ reconcile' = s.reconcile
    /\ fetch' = s.fetch
    /\ status' = s.status
    /\ sent' = sent \o s.started
    /\ unseen' = (unseen \/ s.published)

-----------------------------------------------------------------------------
(* The client.                                                             *)

\* registerMutation / enqueueMutation
Call(id, method, optimistic) ==
    LET m     == Len(calls) + 1
        entry == [mutation |-> m, method |-> method, optimistic |-> optimistic]
        lane  == Ensure(lanes[id], cache[id])
        s     == [State EXCEPT !.lanes[id] = Enqueue(lane, entry),
                               !.status[m] = "queued"]
        shown == Drain(ShowProjection(s, id, lane.visible, FALSE), id)
    IN  /\ m <= setup.calls
        /\ Become(shown)
        /\ calls' = Append(calls, [id |-> id, method |-> method, optimistic |-> optimistic])
        /\ requests' = requests \union ToSet(shown.started)
        /\ UNCHANGED <<server, clock, wire, fetches>>

\* settleQueuedMutation, on the answer to mutation m.  The acknowledgement is
\* journalled even when it changes no projection, and published when nothing
\* else in the lane would.
Settled(m, ok, item) ==
    LET id        == calls[m].id
        lane      == lanes[id]
        after     == Settle(lane, ok, item)
        doomed    == Cancelled(Entry(m), ok, Tail(lane.entries))
        ack       == << [mode |-> "server", id |-> id, type |-> EventType(calls[m].method),
                         item |-> item] >>
        changed   == ProjectionEvents(id, lane.visible, after.visible, ok)
        s1        == [State EXCEPT
                        !.lanes[id] = after,
                        !.fetch = IF ok THEN Journal(@, ack) ELSE @,
                        !.status = [n \in DOMAIN status |->
                                       IF n = m THEN IF ok THEN "done" ELSE "failed"
                                       ELSE IF n \in doomed THEN "cancelled"
                                       ELSE status[n]]]
        s2        == ShowProjection(s1, id, lane.visible, ok)
        s3        == IF changed = << >> /\ ok /\ after.entries = << >>
                     THEN [s2 EXCEPT !.reconcile = TRUE, !.published = TRUE]
                     ELSE s2
    IN  Drain(s3, id)

\* ingestAuthoritativeEvent for the realtime feed: an open lane takes the item
\* as its base unless it is stale, and only the resulting projection is queued;
\* without a lane the event itself is.
Ingested(event) ==
    LET lane  == lanes[event.id]
        after == AcceptAuthoritative(lane, event.type, event.item)
        shown == ProjectionEvents(event.id, lane.visible, after.visible, event.type # "removed")
        s     == IF ~lane.open THEN [State EXCEPT !.queue = Append(@, event)]
                 ELSE IF ~Accepts(lane, event.type, event.item) THEN State
                 ELSE [State EXCEPT !.lanes[event.id] = after,
                                    !.fetch = Journal(@, << event >>),
                                    !.queue = @ \o shown]
    IN  IF s.queue # << >> /\ ~setup.batching THEN Flush(s) ELSE s

\* What may arrive next: the oldest message, or the oldest of its kind.
Deliverable ==
    { i \in DOMAIN wire : \A j \in 1 .. i - 1 : ~setup.acksInOrder /\ wire[j].kind # wire[i].kind }

Deliver(i) ==
    LET msg == wire[i]
        s   == IF msg.kind = "answer"
               THEN Settled(msg.mutation, msg.ok, msg.item)
               ELSE Ingested([mode |-> "server", id |-> msg.id, type |-> msg.type,
                              item |-> msg.item])
    IN  /\ Become(s)
        /\ wire' = RemoveAt(wire, i)
        /\ requests' = requests \union ToSet(s.started)
        /\ UNCHANGED <<calls, server, clock, fetches>>

\* The batch timer fires.
BatchTimer ==
    /\ queue # << >>
    /\ Become(Flush(State))
    /\ UNCHANGED <<calls, network, fetches>>

\* The requested reconciliation begins a fetch (at once, after the cooldown, or
\* as the follow-up of the fetch it found in flight).
BeginFetch ==
    /\ reconcile
    /\ ~fetch.inFlight
    /\ fetches < MaxFetches
    /\ fetches' = fetches + 1
    /\ reconcile' = FALSE
    /\ fetch' = [Idle EXCEPT !.inFlight = TRUE]
    /\ unseen' = FALSE
    /\ UNCHANGED <<setup, lanes, cache, queue, calls, status, network, sent>>

\* planFetchRebase: the entities whose journalled events the response is not
\* provably newer than.
Journalled(f) ==
    { id \in Id : \E rev \in f.log[id] : ~IsItemStale(Row(f.rows[id]), Row(rev)) }

\* fetched(): rows no event contradicts first become the base of their open
\* lanes, then every row that neither an event nor an overlay protects replaces
\* the cached one unless that is newer; unprotected rows the complete response
\* does not have are deleted.
EndFetch ==
    LET row(id)   == Row(fetch.rows[id])
        kept      == Journalled(fetch)
        taken     == { id \in Id \ kept : /\ fetch.rows[id] # 0
                                          /\ lanes[id].open
                                          /\ Accepts(lanes[id], "patched", row(id)) }
        lanes1    == [id \in Id |-> IF id \in taken
                                    THEN AcceptAuthoritative(lanes[id], "patched", row(id))
                                    ELSE lanes[id]]
        shown     == { id \in taken : ProjectionEvents(id, lanes[id].visible,
                                                       lanes1[id].visible, TRUE) # << >> }
        cache1    == [id \in Id |-> IF id \in shown THEN lanes1[id].visible ELSE cache[id]]
        overlaid  == { id \in Id : HasOverlay(lanes1[id]) }
        protected == kept \union overlaid
        next(id)  == IF id \in protected \/ IsItemStale(cache1[id], row(id))
                     THEN cache1[id] ELSE row(id)
    IN  /\ fetch.answered
        /\ lanes' = [id \in Id |-> IF id \in overlaid THEN Defer(lanes1[id]) ELSE lanes1[id]]
        /\ cache' = [id \in Id |-> next(id)]
        /\ reconcile' = (reconcile \/ kept # {})
        /\ fetch' = Idle
        /\ unseen' = (unseen \/ overlaid # {})
        /\ UNCHANGED <<setup, queue, calls, status, network, fetches, sent>>

-----------------------------------------------------------------------------
(* The server and the other clients.                                       *)

Answer(m, ok, item) == [kind |-> "answer", mutation |-> m, ok |-> ok, item |-> item]

Broadcast(id, method, item) ==
    [kind |-> "event", id |-> id, type |-> EventType(method), item |-> item]

\* A write of the server's: creates need no row, the others one.
Writable(id, method) ==
    /\ clock < setup.revs
    /\ (server[id] = 0) <=> (method = "create")

Written(id, method) == IF method = "remove" THEN Row(server[id]) ELSE Row(clock + 1)

Write(id, method) ==
    /\ Writable(id, method)
    /\ clock' = clock + 1
    /\ server' = [server EXCEPT ![id] = IF method = "remove" THEN 0 ELSE clock + 1]

\* The server handles a request: refused, or executed and reported truthfully
\* or not, the answer before or after its own event.
Handle(m) ==
    LET id     == calls[m].id
        method == calls[m].method
        event  == Broadcast(id, method, Written(id, method))
    IN  /\ m \in requests
        /\ requests' = requests \ {m}
        /\ \/ /\ wire' = Append(wire, Answer(m, FALSE, Absent))
              /\ UNCHANGED <<server, clock>>
           \/ /\ Write(id, method)
              /\ \E ok \in BOOLEAN :
                    LET answer == Answer(m, ok, IF ok THEN Written(id, method) ELSE Absent)
                    IN  \/ wire' = wire \o << answer, event >>
                        \/ wire' = wire \o << event, answer >>
        /\ UNCHANGED <<setup, client, fetches, sent, unseen>>

\* Another client writes.
Remote(id, method) ==
    /\ Write(id, method)
    /\ wire' = Append(wire, Broadcast(id, method, Written(id, method)))
    /\ UNCHANGED <<setup, client, requests, fetches, sent, unseen>>

\* The server computes the response of the fetch; it may reach the client
\* before or after any event.
AnswerFetch ==
    /\ fetch.inFlight
    /\ ~fetch.answered
    /\ fetch' = [fetch EXCEPT !.answered = TRUE, !.rows = server]
    /\ UNCHANGED <<setup, lanes, cache, queue, reconcile, calls, status, network, fetches, sent, unseen>>

Next ==
    \/ \E id \in setup.ids, method \in setup.methods, optimistic \in BOOLEAN :
            Call(id, method, optimistic)
    \/ \E i \in Deliverable : Deliver(i)
    \/ BatchTimer
    \/ BeginFetch
    \/ EndFetch
    \/ \E m \in DOMAIN calls : Handle(m)
    \/ \E id \in setup.ids, method \in setup.methods : Remote(id, method)
    \/ AnswerFetch

\* Requests are answered, what is on the wire arrives, timers fire and a
\* requested reconciliation is run; nobody has to call or write anything.  Weak
\* fairness of each of these steps is written with the condition that enables
\* it, which spares TLC the evaluation of ENABLED.
Fairness ==
    /\ []<>(requests = {}) \/ []<><<\E m \in DOMAIN calls : Handle(m)>>_vars
    /\ []<>(wire = << >>) \/ []<><<\E i \in Deliverable : Deliver(i)>>_vars
    /\ []<>(queue = << >>) \/ []<><<BatchTimer>>_vars
    /\ []<>~(reconcile /\ ~fetch.inFlight /\ fetches < MaxFetches) \/ []<><<BeginFetch>>_vars
    /\ []<>~(fetch.inFlight /\ ~fetch.answered) \/ []<><<AnswerFetch>>_vars
    /\ []<>~fetch.answered \/ []<><<EndFetch>>_vars

Spec == Init /\ [][Next]_vars

FairSpec == Spec /\ Fairness

-----------------------------------------------------------------------------
Item == [rev : 0 .. MaxRev, intents : Seq(1 .. MaxCalls)]

TypeOK ==
    /\ cache \in [Id -> Item]
    /\ server \in [Id -> 0 .. MaxRev]
    /\ clock \in 1 .. MaxRev
    /\ reconcile \in BOOLEAN /\ unseen \in BOOLEAN
    /\ status \in [1 .. MaxCalls ->
                     {"none", "queued", "sent", "done", "failed", "cancelled"}]
    /\ \A m \in DOMAIN status : m \in DOMAIN calls <=> status[m] # "none"
    /\ requests \subseteq DOMAIN calls
    /\ \A id \in Id : lanes[id].base \in Item /\ lanes[id].visible \in Item
    /\ \A id \in Id : IF lanes[id].open
                     THEN lanes[id].entries # << >> /\ lanes[id].running
                     ELSE lanes[id] = NoLane

\* Nothing is under way.
Quiescent ==
    /\ wire = << >> /\ requests = {} /\ queue = << >>
    /\ ~fetch.inFlight
    /\ \A id \in Id : ~lanes[id].open

\* What was queued behind a create when it fails, and the patches and removes
\* queued behind a remove when it succeeds, never reach the server: there is no
\* row they could be about.
DependantsAreNotSent ==
    /\ [][\A m, n \in DOMAIN calls :
            (/\ m < n /\ calls[m].id = calls[n].id
             /\ status[m] = "sent" /\ status[n] = "queued"
             /\ \/ calls[m].method = "create" /\ status'[m] = "failed"
                \/ /\ calls[m].method = "remove" /\ status'[m] = "done"
                   /\ \A k \in m + 1 .. n :
                        calls[k].id = calls[m].id => calls[k].method # "create")
            => status'[n] = "cancelled"]_vars
    /\ [](\A i \in DOMAIN sent : status[sent[i]] \notin {"queued", "cancelled"})

\* Events are applied as they come and answers do not overtake them.
Direct == ~setup.batching /\ setup.acksInOrder

\* Where events are applied as they come, the cache shows the projection of every
\* lane that has one, and no intent of a mutation that has been settled: a rolled
\* back, acknowledged or cancelled intent is gone from every row with the
\* settlement.  (Where events wait in a batch, one that waited when the lane was
\* opened, or when a fetch installed a newer base, is applied over the projection.)
NoGhostIntent ==
    ~setup.batching =>
        \A id \in Id :
            /\ HasOverlay(lanes[id]) => cache[id] = lanes[id].visible
            /\ \A m \in ToSet(cache[id].intents) : status[m] \in {"queued", "sent"}

\* When everything has been delivered and settled, the cache is the server's
\* state, even before a reconciliation that is still owed.
Converged == (Direct /\ Quiescent) => \A id \in Id : cache[id] = Row(server[id])

\* "collected by the lane and released once when the lane drains": a change the
\* refetch query has not been fetched over since is never forgotten.
NoReconcileLost ==
    (/\ unseen /\ \A id \in Id : ~lanes[id].open) => reconcile

\* A lane is there for the mutations it still has to settle, and every lane
\* drains and is released (calls are bounded, so that none is opened again and
\* again), which takes the settlement of every mutation in it.
LanesAreReleased ==
    /\ [](\A id \in Id : lanes[id].open =>
            \E m \in DOMAIN calls : calls[m].id = id /\ status[m] \in {"queued", "sent"})
    /\ []<>(\A id \in Id : ~lanes[id].open)
=============================================================================
