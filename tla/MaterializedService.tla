------------------------- MODULE MaterializedService -------------------------
(***************************************************************************)
(* A fully materialized service (lib/core/queryStore.ts): its unfiltered   *)
(* .all() query, the root, is fetched page after page, and once that has   *)
(* succeeded the entity cache is taken for the complete row set, from      *)
(* which another query of the service is answered without a request.       *)
(* Realtime events, the refetches of the root - whose differences reach    *)
(* the other query as synthetic events - and the sweep after a reconnect   *)
(* keep it so.  The server and the connection are external.                *)
(***************************************************************************)
EXTENDS WindowMaintenance

CONSTANTS
    Id,          \* the ids of the service, given out in ascending order
    Key,         \* the values of the sort field, 0 when the other's filter does not match
    Starts,      \* the rows at the beginning, as sequences of their keys
    PageSize,    \* defaultPageSizeWhenFetchingAll
    Retry,       \* failed fetches are tried again this often
    Cases        \* what the other query asks for, [skip, limit, ordered, exact, server],
                 \* and whether the connection stands from the start, with [cooldown, writes,
                 \* turns, outages, failures]: reconcileCooldown > 0, and as bounds how many
                 \* writes the server accepts, queries are mounted, unmounted or refetched by
                 \* hand, connections lost and requests fail

MaterializedServiceAssumption ==
    /\ Cases \subseteq
          [asked : [skip : Nat, limit : Nat, ordered : BOOLEAN, exact : BOOLEAN, server : BOOLEAN],
           online : BOOLEAN,
           left  : [cooldown : BOOLEAN, writes : Nat, turns : Nat, outages : Nat, failures : Nat]]
    /\ Id \subseteq Nat \ {0} /\ Key \subseteq Nat
    /\ Starts \subseteq Seq(Key)
    /\ PageSize \in Nat \ {0} /\ Retry \in Nat

VARIABLES
    asked,     \* what the other query asks for; server when it is .server()
    server,    \* [Id -> row], None when there is none
    link,      \* the connection: up, missed when the adapter has heard of a disconnect or an
               \* attempt to reconnect since, and whether a reconnect sweep is scheduled
    wire,      \* events on their way, in the server's order
    store,     \* the store, see below
    top,       \* the last id given out
    left,      \* what the bounds leave, and whether there is a cooldown
    \* History:
    past       \* shifted: the root's last answer was read across a removal ahead of its
               \* offset; dropped: a reconciliation forced on the root has become a mere
               \* note on it; cut: the connection has been lost

vars == <<asked, server, top, link, wire, store, left, past>>

QueryName == {"root", "other"}

\* A query that nothing has asked for yet.
NoQuery == [status |-> "loading", rows |-> << >>, total |-> 0, watched |-> FALSE,
            fetching |-> TRUE, pending |-> TRUE, dirty |-> FALSE,
            hot |-> FALSE, trailing |-> FALSE]

\* The store: the entity cache, ServiceState.materialized, the two queries and the
\* fetch attempts under way, each with the journal of the events since it began.
EmptyStore(ids) ==
    [entities     |-> [id \in ids |-> None],
     materialized |-> FALSE,
     queries      |-> [name \in QueryName |-> NoQuery],
     fetches      |-> << >>]

Attempt(name, attempt) ==
    [of |-> name, phase |-> "asked", attempt |-> attempt, rows |-> << >>, total |-> 0,
     journal |-> << >>, torn |-> FALSE]

Exists(s, id) == s[id] # None

-----------------------------------------------------------------------------
(* Functions of the store.                                                 *)

\* #tryLocalFind: the service is materialized, the order known and the query not
\* authoritative at the server.
AnswersLocally(s, name) ==
    name = "other" /\ s.materialized /\ asked.ordered /\ ~asked.server

\* The cache filtered, sorted and sliced.
LocalFind(entities) == ServerPage(asked, entities)

\* hasRetryOwner, and whether a fetch is followed by another one.
HasOwner(s, name) == s.queries[name].watched \/ (name = "root" /\ s.materialized)

\* A local answer is shown in the same turn; a fetch asked for meanwhile follows it
\* and has the same answer.
ShowLocalAnswer(s) ==
    [s EXCEPT !.queries["other"].status   = "success",
              !.queries["other"].rows     = LocalFind(s.entities),
              !.queries["other"].total    = Cardinality(ResultSet(s.entities)),
              !.queries["other"].fetching = FALSE,
              !.queries["other"].dirty    = @ /\ ~s.queries["other"].watched]

\* #fetch, which begins every attempt.
BeginAttempt(s, name, attempt) ==
    IF AnswersLocally(s, name) THEN ShowLocalAnswer(s)
    ELSE [s EXCEPT !.fetches = Append(@, Attempt(name, attempt))]

\* #queue and #fetching.
Queue(s, name) ==
    BeginAttempt(
        [s EXCEPT !.queries[name].pending  = FALSE,
                  !.queries[name].dirty    = FALSE,
                  !.queries[name].fetching = TRUE,
                  !.queries[name].rows     = IF s.queries[name].status = "success"
                                             THEN @ ELSE << >>,
                  !.queries[name].status   = IF @ = "success" THEN @ ELSE "loading"],
        name, 0)

\* refetch(): now, or after the fetch that is under way.
RefetchQuery(s, name) ==
    IF s.queries[name].fetching
    THEN [s EXCEPT !.queries[name].dirty = TRUE]
    ELSE Queue(s, name)

MarkPending(s, name) == [s EXCEPT !.queries[name].pending = TRUE]

\* #requestReconcile.  The first request opens a cooldown, the others are coalesced
\* into its trailing timer.
RequestReconcile(s, name, force) ==
    IF ~force /\ ~s.queries[name].watched THEN MarkPending(s, name)
    ELSE IF ~s.queries[name].hot
    THEN RefetchQuery([s EXCEPT !.queries[name].hot = left.cooldown], name)
    ELSE [s EXCEPT !.queries[name].trailing = TRUE]

\* ensureFresh() of a subscriber, which may accept the age of what is cached.
EnsureFresh(s, name, accepts) ==
    LET query == s.queries[name]
    IN  IF \/ query.pending
           \/ query.status = "success" /\ ~query.fetching /\ ~accepts
           \/ query.status = "error" /\ ~query.fetching
        THEN Queue(s, name) ELSE s

\* What an event does to the root, which every row of the service belongs to.
MergeIntoRoot(query, event) ==
    LET id == event.item.id
    IN  CASE event.type = "removed" /\ HasItem(query.rows, id) ->
               [query EXCEPT !.rows = Without(@, id), !.total = Counted(@, -1)]
          [] event.type # "removed" /\ HasItem(query.rows, id) ->
               [query EXCEPT !.rows = Replaced(@, event.item)]
          [] event.type # "removed" /\ ~HasItem(query.rows, id) ->
               [query EXCEPT !.rows = Append(@, event.item), !.total = @ + 1]
          [] OTHER -> query

\* The other query as the merging operators take it.
Shape(query) ==
    [skip |-> asked.skip, limit |-> asked.limit, ordered |-> asked.ordered,
     exact |-> asked.exact, rows |-> query.rows, total |-> query.total]

Reshaped(query, shape) == [query EXCEPT !.rows = shape.rows, !.total = shape.total]

\* applyMergeEventToQuery for the other query: the query, and whether it reconciles.
MergeIntoOther(state, event) ==
    IF asked.server THEN [state EXCEPT !.reconcile = TRUE]
    ELSE IF state.query.status # "success" THEN state
    ELSE LET result == MergeEvent(Shape(state.query), event)
         IN  [query     |-> Reshaped(state.query, Applied(Shape(state.query), result)),
              reconcile |-> state.reconcile \/ result.action = "refetch"]

MergeAllIntoOther(query, events) ==
    FoldLeft(MergeIntoOther, [query |-> query, reconcile |-> FALSE], events)

\* replayFetchedQueryFromEvents: an authoritative query takes events by value.
ReplayedInto(name, query, events, cached) ==
    LET step(q, e) ==
            CASE name = "root"  -> MergeIntoRoot(q, e)
              [] asked.server   -> Reshaped(q, VisibleEffect(Shape(q), e, cached[e.item.id]))
              [] OTHER          -> Reshaped(q, Replayed(Shape(q), e, cached[e.item.id]))
    IN  FoldLeft(step, query, events)

\* The ids of a complete set, after the events since it was asked for.
CompleteIds(rows, events) ==
    { id \in IdsOf(rows) \union Journalled(events) :
        id \in Journalled(events) => LatestFor(events, id).type # "removed" }

DiffEvent(type, item, previous) == [type |-> type, item |-> item, previous |-> previous]

\* Mutant: rows that are new to the cache go unreported.
DiffOfCached(before, after, response, complete, protected) ==
    { DiffEvent("removed", before[id], before[id]) :
        id \in { i \in DOMAIN before : before[i] # None /\ i \notin complete \union protected } }
    \union { DiffEvent("updated", after[id], before[id]) :
        id \in { i \in complete \ protected : before[i] # None } }

\* diffCompleteSet: what a complete set changed, rows left to their events aside.  A
\* row taken over from the response is "updated" even when it says the same.
Diff(before, after, response, complete, protected) ==
    LET removed == { id \in DOMAIN before : before[id] # None /\ id \notin complete \union protected }
        created == { id \in complete \ protected : before[id] = None }
        updated == { id \in complete \ protected :
                       before[id] # None /\ \E i \in DOMAIN response :
                          response[i].id = id /\ ~IsItemStale(before[id], response[i]) }
    IN  { DiffEvent("removed", before[id], before[id]) : id \in removed }
          \union { DiffEvent("created", after[id], None) : id \in created }
          \union { DiffEvent("updated", after[id], before[id]) : id \in updated }

\* The order of its events: removed rows first.
DiffSequence(events) ==
    SetToSortSeq(events, LAMBDA a, b :
        \/ a.type = "removed" /\ b.type # "removed"
        \/ (a.type = "removed") = (b.type = "removed") /\ a.item.id < b.item.id)

-----------------------------------------------------------------------------
\* What #fetched makes of the answer of an attempt, up to the fetches it asks for.
Installed(s, fetch, events) ==
    LET name      == fetch.of
        rows      == RebasedRows(fetch.rows, events, s.entities,
                                 name = "other" /\ asked.exact /\ ~asked.server)
        upserted  == Upserted(s.entities, rows, events)
        complete  == CompleteIds(rows, events)
        protected == Journalled(events)
        absent    == { id \in Id : Exists(s.entities, id) /\ id \notin complete \union protected }
        cached    == IF name = "root" THEN [id \in Id |-> IF id \in absent THEN None ELSE upserted[id]]
                     ELSE upserted
        loaded    == [s.queries[name] EXCEPT !.status = "success", !.rows = rows,
                                             !.total = fetch.total, !.fetching = FALSE]
        diff      == IF name = "root"
                     THEN DiffSequence(Diff(s.entities, upserted, fetch.rows, complete, protected))
                     ELSE << >>
        merged    == MergeAllIntoOther(s.queries["other"], diff)
    IN  [store |-> [s EXCEPT
            !.entities       = cached,
            !.materialized   = @ \/ name = "root",
            !.queries["other"] = IF name = "root" THEN merged.query ELSE @,
            !.queries[name]  = ReplayedInto(name, loaded, events, cached)],
         reconcile |-> name = "root" /\ merged.reconcile]

\* ... and those: the one asked for meanwhile, or a reconciliation of what events
\* were replayed into; and of the other query what the difference could not decide.
Followed(s, name, replayed, reconcileOther) ==
    LET again    == s.queries[name].dirty /\ HasOwner(s, name)
        followed == IF again THEN Queue(s, name) ELSE s
        others   == IF reconcileOther THEN RequestReconcile(followed, "other", FALSE) ELSE followed
    IN  IF replayed /\ ~again THEN RequestReconcile(others, name, name = "root") ELSE others

WithoutFetch(s, i) == [s EXCEPT !.fetches = RemoveAt(@, i)]

\* #fetchFailed: what is cached, and that it is complete, stays.
FetchFailed(s, name) ==
    LET failed == [s EXCEPT !.queries[name].status = "error", !.queries[name].rows = << >>,
                            !.queries[name].total = 0, !.queries[name].fetching = FALSE]
    IN  IF failed.queries[name].dirty /\ HasOwner(s, name) THEN Queue(failed, name) ELSE failed

Become(s) == store' = s

-----------------------------------------------------------------------------
(* Fetches.                                                                *)

IsAsked(i, name) ==
    /\ i \in DOMAIN store.fetches
    /\ store.fetches[i].of = name
    /\ store.fetches[i].phase = "asked"
    /\ link.up

AllRows == SetToSortSeq({ server[id] : id \in { i \in Id : Exists(server, i) } },
                        LAMBDA a, b : a.id < b.id)

\* One turn of the loop of findAll: a page at the offset of what has been read, until
\* one is short or empty or the total has been reached.
ReadPage(i) ==
    /\ IsAsked(i, "root")
    /\ LET read == store.fetches[i].rows
           page == SubSeq(AllRows, Len(read) + 1,
                          IF Len(read) + PageSize < Len(AllRows) THEN Len(read) + PageSize ELSE Len(AllRows))
           rows == read \o page
           done == Len(page) < PageSize \/ (Len(AllRows) > 0 /\ Len(rows) >= Len(AllRows))
       IN  store' = [store EXCEPT !.fetches[i].rows  = rows,
                                  !.fetches[i].total = Len(AllRows),
                                  !.fetches[i].phase = IF done THEN "answered" ELSE "asked"]
    /\ UNCHANGED <<asked, server, top, link, wire, left, past>>

\* The server answers the other query.
Answer(i) ==
    /\ IsAsked(i, "other")
    /\ store' = [store EXCEPT !.fetches[i].rows  = ServerPage(asked, server),
                              !.fetches[i].total = Cardinality(ResultSet(server)),
                              !.fetches[i].phase = "answered"]
    /\ UNCHANGED <<asked, server, top, link, wire, left, past>>

\* #fetched
EndFetch(i) ==
    /\ i \in DOMAIN store.fetches
    /\ store.fetches[i].phase = "answered"
    /\ \E fetch \in { store.fetches[i] } :
       \E events \in { Effective(fetch.journal, fetch.rows) } :
       \E result \in { Installed(WithoutFetch(store, i), fetch, events) } :
          /\ Become(Followed(result.store, fetch.of, events # << >>, result.reconcile))
          /\ past' = IF fetch.of = "root"
                     THEN [past EXCEPT !.shifted = fetch.torn, !.dropped = FALSE] ELSE past
    /\ UNCHANGED <<asked, server, top, link, wire, left>>

\* A request fails, or its answer was lost with the connection: it is tried again
\* later, or the query shows the error.
Fail(i) ==
    /\ i \in DOMAIN store.fetches
    /\ LET fetch == store.fetches[i]
       IN  /\ \/ fetch.phase = "lost" /\ UNCHANGED left
              \/ /\ fetch.phase = "asked"
                 /\ left.failures > 0
                 /\ left' = [left EXCEPT !.failures = @ - 1]
           /\ Become(IF HasOwner(store, fetch.of) /\ fetch.attempt < Retry
                     THEN [store EXCEPT !.fetches[i] =
                              [Attempt(fetch.of, fetch.attempt + 1) EXCEPT !.phase = "waiting"]]
                     ELSE FetchFailed(WithoutFetch(store, i), fetch.of))
    /\ UNCHANGED <<asked, server, top, link, wire, past>>

\* The retry delay is over.
RetryTimer(i) ==
    /\ i \in DOMAIN store.fetches
    /\ LET fetch == store.fetches[i]
       IN  /\ fetch.phase = "waiting"
           /\ Become(IF HasOwner(store, fetch.of)
                     THEN BeginAttempt(WithoutFetch(store, i), fetch.of, fetch.attempt)
                     ELSE FetchFailed(WithoutFetch(store, i), fetch.of))
    /\ UNCHANGED <<asked, server, top, link, wire, left, past>>

\* The cooldown of a query is over.  Its trailing timer enters the gate again, and
\* does so without the force the coalesced request may have had.
CoolDown(name) ==
    LET query  == store.queries[name]
        cooled == [store EXCEPT !.queries[name].hot = FALSE, !.queries[name].trailing = FALSE]
    IN  /\ query.hot
        /\ Become(IF query.trailing THEN RequestReconcile(cooled, name, FALSE) ELSE cooled)
        /\ past' = [past EXCEPT !.dropped = @ \/ (name = "root" /\ query.trailing /\ ~query.watched)]
        /\ UNCHANGED <<asked, server, top, link, wire, left>>

-----------------------------------------------------------------------------
(* Events and the connection.                                              *)

\* An event reaches the cache, the fetches under way and the queries.
Deliver ==
    LET message  == Head(wire)
        previous == store.entities[message.item.id]
        event    == DiffEvent(message.type, message.item, previous)
        applied  == [store EXCEPT
                       !.entities[message.item.id] =
                           IF message.type = "removed" THEN None ELSE message.item,
                       !.queries["root"] = IF @.status = "success" THEN MergeIntoRoot(@, event) ELSE @,
                       !.queries["other"] = MergeAllIntoOther(@, << event >>).query,
                       !.fetches = FoldLeft(LAMBDA done, f :
                           Append(done, IF f.phase = "waiting" THEN f
                                        ELSE [f EXCEPT !.journal = Append(@, event)]), << >>, @)]
    IN  /\ wire # << >>
        /\ wire' = Tail(wire)
        /\ Become(IF message.type = "patched" /\ IsItemStale(previous, message.item) THEN store
                  ELSE IF MergeAllIntoOther(store.queries["other"], << event >>).reconcile
                  THEN RequestReconcile(applied, "other", FALSE)
                  ELSE applied)
        /\ UNCHANGED <<asked, server, top, link, left, past>>

\* What is under way between the server and the client is lost.
Disconnect ==
    /\ link.up
    /\ left.outages > 0
    /\ link' = [link EXCEPT !.up = FALSE, !.missed = TRUE]
    /\ wire' = << >>
    /\ store' = [store EXCEPT !.fetches = FoldLeft(LAMBDA done, f :
                    Append(done, IF f.phase \in {"asked", "answered"}
                                 THEN [f EXCEPT !.phase = "lost"] ELSE f), << >>, @)]
    /\ left' = [left EXCEPT !.outages = @ - 1]
    /\ past' = [past EXCEPT !.cut = TRUE]
    /\ UNCHANGED <<asked, server, top>>

\* The manager's "reconnect_attempt", after an outage or a first attempt that failed.
ReconnectAttempt ==
    /\ ~link.up /\ ~link.missed
    /\ link' = [link EXCEPT !.missed = TRUE]
    /\ UNCHANGED <<asked, server, top, wire, store, left, past>>

\* The socket's "connect": "reconnected" after a disconnect or a failed attempt,
\* which schedules a sweep unless one is scheduled, "connected" otherwise.
Connect ==
    /\ ~link.up
    /\ link' = [up |-> TRUE, missed |-> FALSE, sweep |-> link.sweep \/ link.missed]
    /\ UNCHANGED <<asked, server, top, wire, store, left, past>>

\* Mutant: the sweep reaches watched queries only.
SweptIfWatched(s) ==
    LET first == IF s.queries["root"].watched THEN RequestReconcile(s, "root", FALSE) ELSE s
    IN  IF s.queries["other"].watched THEN RequestReconcile(first, "other", FALSE) ELSE first

\* #refetchActiveQueries: a materialization root first, watched or not.
Swept(s) ==
    LET first  == IF HasOwner(s, "root") THEN RequestReconcile(s, "root", s.materialized) ELSE s
    IN  IF s.queries["other"].watched THEN RequestReconcile(first, "other", FALSE) ELSE first

Sweep ==
    /\ link.sweep
    /\ link' = [link EXCEPT !.sweep = FALSE]
    /\ Become(Swept(store))
    /\ UNCHANGED <<asked, server, top, wire, left, past>>

-----------------------------------------------------------------------------
(* The application.                                                        *)

Mounted(s, name, accepts) ==
    EnsureFresh([s EXCEPT !.queries[name].watched = TRUE], name, accepts)

Turn == /\ left.turns > 0
        /\ left' = [left EXCEPT !.turns = @ - 1]
        /\ UNCHANGED <<asked, server, top, link, wire, past>>

Subscribe(name) ==
    /\ Turn
    /\ ~store.queries[name].watched
    /\ \E accepts \in BOOLEAN : Become(Mounted(store, name, accepts))

Unsubscribe(name) ==
    /\ Turn
    /\ store.queries[name].watched
    /\ store' = [store EXCEPT !.queries[name].watched = FALSE]

\* refetchQueries()
Manual ==
    LET refetched(s, name) ==
            IF HasOwner(s, name) THEN RefetchQuery(s, name) ELSE MarkPending(s, name)
    IN  /\ Turn
        /\ Become(refetched(refetched(store, "root"), "other"))

-----------------------------------------------------------------------------
(* The server.                                                             *)

Distinct(s) == \A a, b \in Id : (a # b /\ Member(s[a])) => s[a].key # s[b].key

\* It accepts a write, and tells a client that is connected.
Accept(id, row, type, item) ==
    /\ left.writes > 0
    /\ server' = [server EXCEPT ![id] = row]
    /\ Distinct(server')
    /\ wire' = IF link.up THEN Append(wire, [type |-> type, item |-> item]) ELSE wire
    /\ left' = [left EXCEPT !.writes = @ - 1]
    /\ top' = IF id > top THEN id ELSE top
    /\ UNCHANGED <<asked, link, past>>

Version(id, key) ==
    [id |-> id, rev |-> IF Exists(server, id) THEN server[id].rev + 1 ELSE 1, key |-> key]

Create(id, key) ==
    /\ id = top + 1
    /\ Accept(id, Version(id, key), "created", Version(id, key))
    /\ UNCHANGED store

Patch(id, key) ==
    /\ Exists(server, id)
    /\ Accept(id, Version(id, key), "patched", Version(id, key))
    /\ UNCHANGED store

\* A removal ahead of the offset of a fetch of the root, with rows to be read yet,
\* moves one of them to where it will not look.
Torn(fetch, id) ==
    LET before(j) == Cardinality({ k \in Id : Exists(server, k) /\ k <= j })
    IN  /\ fetch.of = "root" /\ fetch.phase = "asked"
        /\ before(id) <= Len(fetch.rows)
        /\ Len(fetch.rows) < Len(AllRows)

Delete(id) ==
    /\ Exists(server, id)
    /\ Accept(id, None, "removed", server[id])
    /\ store' = [store EXCEPT !.fetches = FoldLeft(LAMBDA done, f :
                    Append(done, [f EXCEPT !.torn = @ \/ Torn(f, id)]), << >>, @)]

-----------------------------------------------------------------------------
\* A screen has mounted one of the two queries, or both in either order.
Init ==
    /\ \E case \in Cases :
          /\ asked = case.asked
          /\ left = case.left
          /\ link = [up |-> case.online, missed |-> FALSE, sweep |-> FALSE]
    /\ \E start \in Starts :
          /\ server = [id \in Id |-> IF id \notin DOMAIN start THEN None
                                     ELSE [id |-> id, rev |-> 1, key |-> start[id]]]
          /\ top = Len(start)
    /\ wire = << >>
    /\ \E first, second \in QueryName :
          store = Mounted(Mounted(EmptyStore(Id), first, TRUE), second, TRUE)
    /\ past = [shifted |-> FALSE, dropped |-> FALSE, cut |-> FALSE]

Next ==
    \/ \E i \in DOMAIN store.fetches : ReadPage(i)
    \/ \E i \in DOMAIN store.fetches : Answer(i)
    \/ \E i \in DOMAIN store.fetches : EndFetch(i)
    \/ \E i \in DOMAIN store.fetches : Fail(i)
    \/ \E i \in DOMAIN store.fetches : RetryTimer(i)
    \/ \E name \in QueryName : CoolDown(name)
    \/ Deliver
    \/ Disconnect
    \/ ReconnectAttempt
    \/ Connect
    \/ Sweep
    \/ \E name \in QueryName : Subscribe(name)
    \/ \E name \in QueryName : Unsubscribe(name)
    \/ Manual
    \/ \E id \in Id, key \in Key : Create(id, key)
    \/ \E id \in Id, key \in Key : Patch(id, key)
    \/ \E id \in Id : Delete(id)

Spec == Init /\ [][Next]_vars

-----------------------------------------------------------------------------
\* Nothing is under way and no timer is running.
Settled ==
    /\ wire = << >> /\ link.up /\ ~link.sweep
    /\ store.fetches = << >>
    /\ \A name \in QueryName : ~store.queries[name].trailing

SortValues(rows) == [i \in DOMAIN rows |-> rows[i].key]

\* The root has been read anew since anything it cannot know of happened.
UpToDate == Settled /\ store.queries["root"].status = "success" /\ ~past.dropped

\* A query that is answered from the cache shows what the cache says, unless it is
\* known to be out of date: whatever changes the cache - an event, an answer, the
\* difference of a complete set - changes it too.  An answer of the server's may be
\* ahead of the events on their way, and of events lost in an outage.
AnswersAgree ==
    LET other == store.queries["other"]
        local == LocalFind(store.entities)
    IN  (/\ AnswersLocally(store, "other") /\ other.status = "success"
         /\ ~other.fetching /\ ~other.pending /\ ~other.dirty /\ ~other.trailing
         /\ UpToDate \/ (wire = << >> /\ ~past.cut)) =>
            /\ \A i \in DOMAIN other.rows : other.rows[i] = store.entities[other.rows[i].id]
            /\ IF asked.exact THEN ToSet(other.rows) = ToSet(local)
               ELSE SortValues(other.rows) = SortValues(local)

\* When nothing is under way the cache of a materialized service holds exactly the
\* rows of the server, in their latest versions, and so does the root: events, page
\* by page reading, outages and failed requests notwithstanding.  Excepted are a root
\* whose refetch failed for good, one read across a removal, and one whose
\* reconciliation was dropped.
CacheIsComplete ==
    (store.materialized /\ UpToDate /\ ~past.shifted) =>
        /\ store.entities = server
        /\ ToSet(store.queries["root"].rows) = ToSet(AllRows)

\* The comment in #activeReconnectQueries: materialization roots reconcile even with
\* no subscribers, since every local read depends on their completeness and events
\* may have been missed while offline; and the gate delays a reconciliation or
\* coalesces it, but drops none.  So nothing excuses a cache that stays behind but a
\* root that cannot be read.
RootsReconcileUnwatched ==
    (/\ Settled /\ store.materialized /\ store.queries["root"].status = "success"
     /\ ~past.shifted) => store.entities = server
=============================================================================
