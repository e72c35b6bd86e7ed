---------------------------- MODULE RelationalQuery ----------------------------
(***************************************************************************)
(* A query with relations (lib/core/relationalQuery.ts): the rows of a     *)
(* root query, the rows of "a" related to them, and the rows of "b"        *)
(* related to those.  Each is a query of the store over the set of source  *)
(* values its parents have; when that set changes the relation's query is  *)
(* replaced.  The relation "a" is of one of three kinds: one query for all *)
(* parents (fanIn), one through a junction service "j" (the second hop is  *)
(* the subscription "d"), or one query per parent.  "b" is a fan-in.       *)
(*                                                                         *)
(* A row is named by the one source value it has, so a row of "a" belongs  *)
(* to the root row of the same name.  The store's queries are the          *)
(* environment: an answer shows the server as it is when it lands, and an  *)
(* event updates every query that has data (how it does is the subject of  *)
(* other modules).  The instance that replaces one cleaned up starts from  *)
(* the same empty state, so one record stands for both.  Left out:         *)
(* paginated roots (PagedQueryRoot), snapshot queries, names and graph     *)
(* runs of the devtools.                                                   *)
(***************************************************************************)
EXTENDS Naturals, Sequences, FiniteSets, SequencesExt, FiniteSetsExt, TLC

CONSTANTS
    Kinds,       \* how "a" is related: "fanIn", "junction", "perParent"
    Rows,        \* names of rows, in every service
    Starts,      \* the rows the root has at first; the other services have all
    Consumers,   \* what subscribes: mounted hooks, prepared and prefetched queries
    MaxChanges,  \* bound: changes of the server's data
    MaxFails,    \* bound: fetches that fail
    MaxCalls,    \* bound: calls of the application
    MaxSteps     \* bound: all of these together

ASSUME RelationalAssumption ==
    /\ Kinds \subseteq {"fanIn", "junction", "perParent"}
    /\ Starts \subseteq SUBSET Rows
    /\ MaxChanges \in Nat /\ MaxFails \in Nat /\ MaxCalls \in Nat /\ MaxSteps \in Nat

VARIABLES
    kind,
    world,   \* the rows each service of the server has
    intent,  \* rows an optimistic change elsewhere takes out of the root's filter
    store,   \* the queries of the store
    ref,     \* the relational query
    tasks,   \* its microtasks, and the queries whose listeners the store will tell
    read,    \* the promise a suspended render holds
    spent

vars == <<kind, world, intent, store, ref, tasks, read, spent>>

Services == {"root", "j", "a", "b"}
Keys == {"a", "d", "b"}

Root == [service |-> "root", over |-> Rows]
Query(service, source) == [service |-> service, over |-> source]
Queries == {Root} \cup {Query(s, over) : s \in {"j", "a", "b"}, over \in SUBSET Rows \ {{}}}

NoSub == [kind |-> "none", source |-> {}]
Empty(source) == [kind |-> "empty", source |-> source]

Nothing == [items |-> {}, edges |-> {}]

NoSnapshot == [status |-> "none", data |-> {}, error |-> FALSE, fetching |-> FALSE]

\* The state #cleanup leaves, and a new instance has.
NewRef ==
    [live |-> FALSE, subs |-> [k \in Keys |-> NoSub], listeners |-> {},
     cleanup |-> FALSE, refilter |-> FALSE,
     snap |-> NoSnapshot, rows |-> {}, refs |-> {}, nodes |-> << >>, partial |-> FALSE,
     promise |-> "none", settled |-> FALSE, claim |-> FALSE]

State == [store |-> store, ref |-> ref, tasks |-> tasks]

Become(s) ==
    /\ store' = s.store
    /\ ref' = s.ref
    /\ tasks' = s.tasks

Schedule(s, task) == [s EXCEPT !.tasks.queue = Append(@, task)]

-----------------------------------------------------------------------------
(* The store.                                                              *)

Loaded(s, q) == s.store[q].status = "success"

\* #queue and #fetching: the fetch starts, its listeners are told in a microtask.
Fetch(s, q) ==
    LET started == [s EXCEPT !.store[q] =
            [@ EXCEPT !.status = IF @ = "success" THEN @ ELSE "loading",
                      !.fetching = TRUE, !.again = FALSE, !.missed = FALSE]]
    IN  IF s.tasks.notices = << >>
        THEN Schedule([started EXCEPT !.tasks.notices = <<q>>], "notice")
        ELSE [started EXCEPT !.tasks.notices = IF Contains(@, q) THEN @ ELSE Append(@, q)]

\* subscribe() and ensureFresh(); a positive stale time never expires here.
EnsureFresh(s, q, fresh) ==
    IF s.store[q].fetching \/ (fresh /\ Loaded(s, q)) THEN s ELSE Fetch(s, q)

\* refetch()
RefetchQuery(s, q) ==
    IF s.store[q].fetching THEN [s EXCEPT !.store[q].again = TRUE] ELSE Fetch(s, q)

\* #currentStaleTime
Lenient(s) == s.ref.listeners # {} /\ \A l \in s.ref.listeners : l.fresh

-----------------------------------------------------------------------------
(* The subscriptions of the relations.                                     *)

ServiceOf(key) == IF key = "b" THEN "b" ELSE "a"

\* The queries a subscription holds.
Held(key, sub) ==
    CASE sub.kind = "fanIn"     -> {Query(ServiceOf(key), sub.source)}
      [] sub.kind = "junction"  -> {Query("j", sub.source)}
      [] sub.kind = "perParent" -> {Query("a", {v}) : v \in sub.source}
      [] OTHER                  -> {}

SubQuery(s, key) == CHOOSE q \in Held(key, s.ref.subs[key]) : TRUE

Subscribed(s, key, sub) ==
    FoldSet(LAMBDA q, t : EnsureFresh(t, q, Lenient(s)), [s EXCEPT !.ref.subs[key] = sub],
            Held(key, sub))

\* #syncFanInRelation, but for what is nested in it.
FanIn(s, source, key) ==
    LET old == s.ref.subs[key]
    IN  CASE old.kind \in {"fanIn", "empty"} /\ old.source = source -> s
          [] source = {} -> [s EXCEPT !.ref.subs[key] = Empty(source)]
          [] OTHER -> Subscribed(s, key, [kind |-> "fanIn", source |-> source])

\* #syncNested and #syncNestedFromSnapshot
Nested(s, key) ==
    IF s.ref.subs[key].kind = "fanIn" /\ Loaded(s, SubQuery(s, key))
    THEN FanIn(s, s.store[SubQuery(s, key)].data, "b") ELSE s

SyncFanIn(s, source, key) == Nested(FanIn(s, source, key), key)

\* #syncNestedWindowedRelationIfReady: nothing below before every parent has its rows.
NestedPerParent(s) ==
    LET children == Held("a", s.ref.subs["a"])
    IN  IF \A q \in children : Loaded(s, q)
        THEN FanIn(s, UNION {s.store[q].data : q \in children}, "b") ELSE s

\* #syncWindowedManyRelation
SyncPerParent(s, source) ==
    LET old == s.ref.subs["a"]
    IN  CASE old.kind = "perParent" /\ old.source = source -> NestedPerParent(s)
          [] source = {} -> [s EXCEPT !.ref.subs["a"] = Empty(source)]
          [] OTHER -> NestedPerParent(
                          Subscribed(s, "a", [kind |-> "perParent", source |-> source]))

\* #syncDestFromJunction: the second hop, once the junction's rows are known.
Dest(s) ==
    LET q == SubQuery(s, "a")
    IN  IF Loaded(s, q) THEN SyncFanIn(s, s.store[q].data, "d") ELSE s

\* #syncJunctionRelation: replacing a junction disposes of its second hop.
SyncJunction(s, source) ==
    LET old  == s.ref.subs["a"]
        gone == IF old.kind = "junction" THEN [s EXCEPT !.ref.subs["d"] = NoSub] ELSE s
    IN  CASE old.kind = "junction" /\ old.source = source -> Dest(s)
          [] source = {} -> [gone EXCEPT !.ref.subs["a"] = Empty(source)]
          [] OTHER -> Dest(Subscribed(gone, "a", [kind |-> "junction", source |-> source]))

\* Mutant: a relation that has been set up is not looked at again.
SyncOnce(s, source) ==
    CASE s.ref.subs["a"].kind # "none" -> s
      [] kind = "fanIn"     -> SyncFanIn(s, source, "a")
      [] kind = "junction"  -> SyncJunction(s, source)
      [] kind = "perParent" -> SyncPerParent(s, source)

\* #syncRelations, on every success of the root.
SyncRelations(s, source) ==
    CASE kind = "fanIn"     -> SyncFanIn(s, source, "a")
      [] kind = "junction"  -> SyncJunction(s, source)
      [] kind = "perParent" -> SyncPerParent(s, source)

-----------------------------------------------------------------------------
(* The snapshot.                                                           *)

\* What is known of part of the tree: who is loading or failed, the data refs that tell
\* a change, and the rows ready to be assembled.
Ready(key, refs, node) ==
    [loading |-> FALSE, failed |-> FALSE, fetching |-> FALSE, refs |-> refs,
     nodes |-> key :> node]

Unready(status, refs) ==
    [loading |-> status = "loading", failed |-> status = "error",
     fetching |-> status = "loading", refs |-> refs, nodes |-> << >>]

Both(g, h) ==
    [loading |-> g.loading \/ h.loading, failed |-> g.failed \/ h.failed,
     fetching |-> g.fetching \/ h.fetching, refs |-> g.refs \cup h.refs,
     nodes |-> h.nodes @@ g.nodes]

Ref(key, data) == [key |-> key, of |-> {}, data |-> {data}]
NoData(key) == [key |-> key, of |-> {}, data |-> {}]

\* A fan-in, as the node of the given key; its edges are its rows.
GatherFanIn(s, sub, key) ==
    LET held == s.ref.subs[sub]
        q    == s.store[SubQuery(s, sub)]
    IN  CASE held.kind = "none"    -> Unready("loading", {NoData(key)})
          [] held.kind = "empty"   -> Ready(key, {NoData(key)}, Nothing)
          [] q.status # "success"  -> Unready(q.status, {NoData(key)})
          [] OTHER -> [Ready(key, {Ref(key, q.data)}, [items |-> q.data, edges |-> q.data])
                       EXCEPT !.fetching = q.fetching]

GatherJunction(s) ==
    LET held  == s.ref.subs["a"]
        j     == s.store[SubQuery(s, "a")]
        edge  == IF j.status = "success" THEN Ref("a#junction", j.data) ELSE NoData("a#junction")
        dest  == GatherFanIn(s, "d", "a")
        last  == IF "a" \in DOMAIN s.ref.nodes THEN s.ref.nodes["a"].items ELSE {}
        items == IF "a" \in DOMAIN dest.nodes THEN dest.nodes["a"].items ELSE last
    IN  CASE held.kind = "none"   -> Unready("loading", {NoData("a")})
          [] held.kind = "empty"  -> Ready("a", {NoData("a")}, Nothing)
          [] j.status # "success" -> Unready(j.status, {NoData("a"), edge})
          [] OTHER -> [dest EXCEPT !.fetching = @ \/ j.fetching, !.refs = @ \cup {edge},
                                   !.nodes = "a" :> [items |-> items, edges |-> j.data]]

\* The rows a parent had are kept while its query loads or has failed.
GatherPerParent(s) ==
    LET held == s.ref.subs["a"]
        last == IF "a" \in DOMAIN s.ref.nodes THEN s.ref.nodes["a"].items ELSE {}
        child(v) == s.store[Query("a", {v})]
        rows(v)  == IF child(v).status = "success" THEN child(v).data ELSE last \cap {v}
        refs == {NoData("a")} \cup
                {[IF child(v).status = "success" THEN Ref("a", child(v).data) ELSE NoData("a")
                  EXCEPT !.of = {v}] : v \in held.source}
        all  == UNION {rows(v) : v \in held.source}
    IN  CASE held.kind = "none"  -> Unready("loading", {NoData("a")})
          [] held.kind = "empty" -> Ready("a", {NoData("a")}, Nothing)
          [] OTHER ->
               [loading  |-> \E v \in held.source : child(v).status = "loading",
                failed   |-> \E v \in held.source : child(v).status = "error",
                fetching |-> \E v \in held.source :
                                child(v).status = "loading" \/ child(v).fetching,
                refs     |-> refs,
                nodes    |-> "a" :> [items |-> all, edges |-> all]]

\* Below a fan-in only once it has its rows, below a query per parent always.
Descends(s) ==
    CASE kind = "perParent" -> s.ref.subs["a"].kind = "perParent"
      [] kind = "fanIn"     -> s.ref.subs["a"].kind = "fanIn" /\ Loaded(s, SubQuery(s, "a"))
      [] kind = "junction"  -> /\ s.ref.subs["a"].kind = "junction"
                               /\ Loaded(s, SubQuery(s, "a"))
                               /\ s.ref.subs["d"].kind = "fanIn"
                               /\ Loaded(s, SubQuery(s, "d"))

\* #gatherRelationData
Gather(s) ==
    LET a == CASE kind = "fanIn"     -> GatherFanIn(s, "a", "a")
               [] kind = "junction"  -> GatherJunction(s)
               [] kind = "perParent" -> GatherPerParent(s)
    IN  IF Descends(s) THEN Both(a, GatherFanIn(s, "b", "b")) ELSE a

\* assembleRelations
Assemble(rows, nodes) ==
    LET at(key) == IF key \in DOMAIN nodes THEN nodes[key].items \cap nodes[key].edges ELSE {}
    IN  {[row |-> r, a |-> r \in at("a"), b |-> r \in at("a") \cap at("b")] : r \in rows}

Shows(s, snapshot) == [s EXCEPT !.ref.snap = snapshot]

Fetching(s) ==
    IF s.ref.snap.status = "success" THEN [s EXCEPT !.ref.snap.fetching = TRUE]
    ELSE Shows(s, [NoSnapshot EXCEPT !.status = "loading", !.fetching = TRUE])

\* What was shown stays, with the error.
Failed(s) ==
    IF s.ref.snap.status = "success"
    THEN [s EXCEPT !.ref.snap.error = TRUE, !.ref.snap.fetching = FALSE]
    ELSE Shows(s, [NoSnapshot EXCEPT !.status = "error", !.error = TRUE])

\* Mutant: while part of the tree loads, nothing that was ready before is kept.
SettledAfresh(s, root, g) ==
    LET changed == s.ref.rows # root.data \/ s.ref.refs # g.refs \/ s.ref.partial
    IN  [s EXCEPT !.ref.rows = root.data, !.ref.refs = g.refs, !.ref.nodes = g.nodes,
                  !.ref.partial = g.loading \/ g.failed,
                  !.ref.snap = [status |-> "success",
                                data |-> IF @.status = "success" /\ ~changed THEN @.data
                                         ELSE Assemble(root.data, g.nodes),
                                error |-> g.failed \/ (g.loading /\ @.error),
                                fetching |-> root.fetching \/ g.fetching]]

\* The rows that are ready replace those of before, node by node; data is assembled
\* anew when the root's rows or a data ref have changed.
Settled(s, root, g) ==
    LET nodes   == g.nodes @@ s.ref.nodes
        ready   == ~g.loading /\ ~g.failed
        changed == \/ s.ref.rows # root.data \/ s.ref.refs # g.refs
                   \/ s.ref.partial /\ ready
    IN  [s EXCEPT !.ref.rows = root.data, !.ref.refs = g.refs, !.ref.nodes = nodes,
                  !.ref.partial = ~ready,
                  !.ref.snap = [status |-> "success",
                                data |-> IF @.status = "success" /\ ~changed THEN @.data
                                         ELSE Assemble(root.data, nodes),
                                error |-> g.failed \/ (g.loading /\ @.error),
                                fetching |-> root.fetching \/ g.fetching]]

\* getSnapshot(), with what was gathered
Seen(s, root, g, cold) ==
    CASE \/ ~s.ref.live
         \/ root.status = "loading"
         \/ root.status = "success" /\ cold /\ g.loading /\ ~g.failed -> Fetching(s)
      [] s.ref.live /\ (root.status = "error" \/ (root.status = "success" /\ cold /\ g.failed))
             -> Failed(s)
      [] OTHER -> Settled(s, root, g)

Snapshot(s) == Seen(s, s.store[Root], Gather(s), s.ref.snap.status # "success")

\* Mutant: a first fetch that fails does not settle the promise.
SettleSuccess(s) ==
    IF s.ref.settled \/ s.ref.snap.status # "success" THEN s
    ELSE [s EXCEPT !.ref.settled = TRUE,
                   !.ref.promise = IF @ = "pending" THEN "settled" ELSE @]

\* #settleSuspense
SettleSuspense(s) ==
    IF s.ref.settled \/ s.ref.snap.status \notin {"success", "error"} THEN s
    ELSE [s EXCEPT !.ref.settled = TRUE,
                   !.ref.promise = IF @ = "pending" THEN "settled" ELSE @]

\* #notifyListeners
Notified(s) == SettleSuspense(Snapshot(s))

Of(s, q, key) == q \in Held(key, s.ref.subs[key])

\* What follows a success of the root, or of one of the relations.
Synced(s, q) ==
    CASE q = Root -> SyncRelations(s, s.store[q].data)
      [] Of(s, q, "a") /\ kind = "junction"  -> Dest(s)
      [] Of(s, q, "a") /\ kind = "perParent" -> NestedPerParent(s)
      [] Of(s, q, "a") /\ kind = "fanIn"     -> Nested(s, "a")
      [] Of(s, q, "d") -> Nested(s, "d")
      [] OTHER -> s

\* The listeners of one query of the store: the root, or a relation.
Tell(s, q) ==
    IF s.ref.live /\ (q = Root \/ \E k \in Keys : Of(s, q, k))
    THEN Notified(IF Loaded(s, q) THEN Synced(s, q) ELSE s) ELSE s

-----------------------------------------------------------------------------
(* Calls of the application.                                               *)

SyncIfLoaded(s) == IF Loaded(s, Root) THEN SyncRelations(s, s.store[Root].data) ELSE s

\* #setupRoot
SetupRoot(s) ==
    Snapshot(SyncIfLoaded(EnsureFresh([s EXCEPT !.ref.live = TRUE], Root, Lenient(s))))

Leaves(s) == UNION {Held(k, s.ref.subs[k]) : k \in Keys}

\* #ensureFresh: the root and every leaf.
EnsureAllFresh(s, fresh) ==
    Snapshot(FoldSet(LAMBDA q, t : EnsureFresh(t, q, fresh), EnsureFresh(s, Root, fresh), Leaves(s)))

\* refetch()
RefetchAll(s) ==
    Snapshot(FoldSet(LAMBDA q, t : RefetchQuery(t, q), RefetchQuery(s, Root), Leaves(s)))

ScheduleCleanup(s) ==
    IF s.ref.cleanup THEN s ELSE Schedule([s EXCEPT !.ref.cleanup = TRUE], "cleanup")

Init ==
    /\ kind \in Kinds
    /\ \E start \in Starts : world = [s \in Services |-> IF s = "root" THEN start ELSE Rows]
    /\ intent = {}
    /\ store = [q \in Queries |->
                   [status |-> "loading", data |-> {}, fetching |-> FALSE, again |-> FALSE,
                    missed |-> FALSE]]
    /\ ref = NewRef
    /\ tasks = [queue |-> << >>, notices |-> << >>]
    /\ read = [held |-> "none", dropped |-> FALSE]
    /\ spent = [changes |-> 0, fails |-> 0, calls |-> 0]

Bounded == spent.changes + spent.fails + spent.calls < MaxSteps

Call == Bounded /\ spent.calls < MaxCalls /\ spent' = [spent EXCEPT !.calls = @ + 1]

Names(s) == {l.name : l \in s.ref.listeners}

\* The first subscriber after a suspended read takes over its fetch.
Joined(s, fresh) ==
    CASE ~s.ref.live                -> SetupRoot(s)
      [] s.ref.live /\ s.ref.claim -> Schedule(s, "claim")
      [] OTHER                      -> EnsureAllFresh(s, fresh)

\* subscribe()
Subscribe(c, fresh) ==
    /\ c \notin Names(State)
    /\ Become(Joined([State EXCEPT !.ref.listeners = @ \cup {[name |-> c, fresh |-> fresh]}], fresh))
    /\ Call
    /\ UNCHANGED <<kind, world, intent, read>>

Unsubscribe(c) ==
    /\ c \in Names(State)
    /\ LET left == [State EXCEPT !.ref.listeners = {l \in @ : l.name # c}]
       IN  Become(IF left.ref.listeners = {} THEN ScheduleCleanup(left) ELSE left)
    /\ Call
    /\ UNCHANGED <<kind, world, intent, read>>

Waiting(s) ==
    LET asked == [s EXCEPT !.ref.promise = "pending"]
    IN  IF s.ref.live THEN asked
        ELSE SetupRoot([asked EXCEPT !.ref.claim = @ \/ s.ref.listeners = {}])

Thrown(s) ==
    /\ Become(s)
    /\ read' = [read EXCEPT !.held = IF s.ref.settled THEN "settled" ELSE "pending"]

\* A render finds nothing to show: suspensePromise().
Suspend ==
    /\ read.held # "pending" /\ ref.promise = "none" /\ ~ref.settled
    /\ Snapshot(State).ref.snap.status = "loading"
    /\ Thrown(Notified(Waiting(Snapshot(State))))
    /\ Call
    /\ UNCHANGED <<kind, world, intent>>

ReleaseColdStart(s) ==
    IF s.ref.settled /\ s.ref.listeners = {} THEN ScheduleCleanup(s) ELSE s

\* A render finds an error: releaseColdStart().
Release ==
    /\ Snapshot(State).ref.snap.status = "error"
    /\ Become(ReleaseColdStart(Snapshot(State)))
    /\ Call
    /\ UNCHANGED <<kind, world, intent, read>>

Refetch ==
    /\ ref.live
    /\ Become(RefetchAll(State))
    /\ Call
    /\ UNCHANGED <<kind, world, intent, read>>

-----------------------------------------------------------------------------
(* Microtasks.                                                             *)

Quiet == tasks.queue = << >>

\* #cleanup
Cleanup(s) == [s EXCEPT !.ref = [NewRef EXCEPT !.listeners = s.ref.listeners]]

\* Mutant: a teardown that was scheduled is not called off.
RunAnyway(s, task) ==
    CASE task = "notice"  -> FoldLeft(LAMBDA t, q : Tell(t, q), [s EXCEPT !.tasks.notices = << >>],
                                      s.tasks.notices)
      [] task = "cleanup" -> IF s.ref.live THEN Cleanup(s) ELSE [s EXCEPT !.ref.cleanup = FALSE]
      [] task = "claim"   -> [s EXCEPT !.ref.claim = FALSE]
      [] task = "filter"  ->
           IF s.ref.listeners = {}
           THEN [s EXCEPT !.ref.refilter = FALSE, !.store[Root].missed = TRUE]
           ELSE RefetchAll([s EXCEPT !.ref.refilter = FALSE])

Run(s, task) ==
    CASE task = "notice"  -> FoldLeft(LAMBDA t, q : Tell(t, q), [s EXCEPT !.tasks.notices = << >>],
                                      s.tasks.notices)
      [] task = "cleanup" -> IF s.ref.live /\ s.ref.listeners = {} THEN Cleanup(s)
                             ELSE [s EXCEPT !.ref.cleanup = FALSE]
      [] task = "claim"   -> [s EXCEPT !.ref.claim = FALSE]
      [] task = "filter"  ->
           IF s.ref.listeners = {}
           THEN [s EXCEPT !.ref.refilter = FALSE, !.store[Root].missed = TRUE]
           ELSE RefetchAll([s EXCEPT !.ref.refilter = FALSE])

\* The promise a render holds settles with the query's; a teardown leaves it behind.
Observed(s) ==
    [held    |-> IF read.held = "pending" /\ s.ref.promise = "settled" THEN "settled" ELSE read.held,
     dropped |-> read.dropped \/ (read.held = "pending" /\ s.ref.promise = "none")]

Ends(s) == Become(s) /\ read' = Observed(s)

Microtasks ==
    /\ ~Quiet
    /\ Ends(FoldLeft(LAMBDA s, n :
                         IF s.tasks.queue = << >> THEN s
                         ELSE Run([s EXCEPT !.tasks.queue = Tail(@)], Head(s.tasks.queue)),
                     State, [n \in 1 .. 8 |-> n]))
    /\ UNCHANGED <<kind, world, intent, spent>>

-----------------------------------------------------------------------------
(* The server.                                                             *)

Change ==
    /\ Quiet /\ Bounded
    /\ spent.changes < MaxChanges /\ spent' = [spent EXCEPT !.changes = @ + 1]

Toggled(rows, v) == IF v \in rows THEN rows \ {v} ELSE rows \cup {v}

\* An event of a service: the queries that have data follow, and tell their listeners.
Event(service, v) ==
    /\ Change
    /\ world' = [world EXCEPT ![service] = Toggled(@, v)]
    /\ LET touched == {q \in Queries : /\ q.service = service /\ v \in q.over
                                       /\ store[q].status = "success"}
           updated == [State EXCEPT !.store = [q \in Queries |->
                          IF q \in touched
                          THEN [store[q] EXCEPT !.data = world'[service] \cap q.over]
                          ELSE store[q]]]
       IN  Ends(FoldSet(LAMBDA q, s : Tell(s, q), updated, touched))
    /\ UNCHANGED <<kind, intent>>

\* #queueRelationalFilterRefetch
QueueFilterRefetch(s) ==
    IF s.ref.refilter THEN s ELSE Schedule([s EXCEPT !.ref.refilter = TRUE], "filter")

\* No query listens to events before it is set up.
Heard(s) == IF s.ref.live THEN QueueFilterRefetch(s) ELSE [s EXCEPT !.store[Root].missed = TRUE]

\* An event of a service the root's filter depends on changes which rows the root has.
Depend(v) ==
    /\ Change
    /\ world' = [world EXCEPT !["root"] = Toggled(@, v)]
    /\ Become(Heard(State))
    /\ UNCHANGED <<kind, intent, read>>

\* reapplyQuery(): the root's rows are matched again with what is known.
Reapply(s, rows) ==
    IF ~s.ref.live \/ ~Loaded(s, Root) THEN s
    ELSE Tell([s EXCEPT !.store[Root].data = rows], Root)

\* An optimistic change there takes a row out of the filter,
Optimistic(v) ==
    /\ intent = {} /\ v \in world["root"]
    /\ Change
    /\ intent' = {v}
    /\ Ends(Reapply(State, store[Root].data \ {v}))
    /\ UNCHANGED <<kind, world>>

\* and is confirmed or rolled back; the settled projection is fetched either way.
Settle(v, ok) ==
    /\ Quiet /\ intent = {v}
    /\ intent' = {}
    /\ world' = IF ok THEN [world EXCEPT !["root"] = @ \ {v}] ELSE world
    /\ LET rows == store[Root].data \cup (world["root"] \cap {v})
       IN  Ends(Heard(IF ok THEN State ELSE Reapply(State, rows)))
    /\ UNCHANGED <<kind, spent>>

\* A fetch of the store ends, and is repeated if it was asked for meanwhile.
Repeated(s, q, wanted) == IF wanted THEN Fetch(s, q) ELSE s

Landed(s, q, wanted) == Repeated(Tell(s, q), q, wanted)

HasListener(s, q) == s.ref.live /\ (q = Root \/ q \in Leaves(s))

Answer(q) ==
    /\ Quiet /\ store[q].fetching
    /\ LET new == [status |-> "success", data |-> world[q.service] \cap q.over,
                   fetching |-> FALSE, again |-> FALSE,
                    missed |-> FALSE]
       IN  Ends(Landed([State EXCEPT !.store[q] = new], q,
                       store[q].again /\ HasListener(State, q)))
    /\ UNCHANGED <<kind, world, intent, spent>>

Fail(q) ==
    /\ Quiet /\ store[q].fetching
    /\ Bounded /\ spent.fails < MaxFails /\ spent' = [spent EXCEPT !.fails = @ + 1]
    /\ LET new == [status |-> "error", data |-> {}, fetching |-> FALSE, again |-> FALSE,
                    missed |-> FALSE]
       IN  Ends(Landed([State EXCEPT !.store[q] = new], q,
                       store[q].again /\ HasListener(State, q)))
    /\ UNCHANGED <<kind, world, intent>>

Next ==
    \/ \E c \in Consumers, fresh \in BOOLEAN : Subscribe(c, fresh)
    \/ \E c \in Consumers : Unsubscribe(c)
    \/ Suspend
    \/ Release
    \/ Refetch
    \/ Microtasks
    \/ \E service \in Services, v \in Rows : Event(service, v)
    \/ \E v \in Rows : Depend(v)
    \/ \E v \in Rows : Optimistic(v)
    \/ \E v \in Rows, ok \in BOOLEAN : Settle(v, ok)
    \/ \E q \in Queries : Answer(q)
    \/ \E q \in Queries : Fail(q)

Spec == Init /\ [][Next]_vars

Asked == \E q \in Queries : store[q].fetching

\* Microtasks run, and every request is answered in the end.
FairSpec ==
    /\ Spec
    /\ []<>Quiet \/ []<><<Microtasks>>_vars
    /\ <>[](~(Quiet /\ Asked)) \/ []<><<\E q \in Queries : Answer(q) \/ Fail(q)>>_vars

-----------------------------------------------------------------------------
AtRest == Quiet /\ intent = {} /\ ~Asked

\* The nodes of the tree as it is shown: a relation below an empty one is not part of it.
InTree ==
    {Root} \cup Held("a", ref.subs["a"])
    \cup (IF kind = "junction" /\ ref.subs["a"].kind = "junction" THEN Held("d", ref.subs["d"]) ELSE {})
    \cup (IF Descends(State) THEN Held("b", ref.subs["b"]) ELSE {})

Broken == \E q \in InTree : store[q].status = "error"

Truth ==
    LET a == IF kind = "junction" THEN world["a"] \cap world["j"] ELSE world["a"]
    IN  {[row |-> r, a |-> r \in a, b |-> r \in a \cap world["b"]] : r \in world["root"]}

\* Once everything has arrived, a query somebody subscribes to shows every root row with
\* the related rows the server has, and no error nor fetch; or, if a part of its tree
\* failed, it says so, and has whatever it had.  (With a query per parent and one of them
\* failed, what is nested below is never set up and counts as loading.)
ShowsTheTree ==
    (AtRest /\ ref.listeners # {}) =>
        /\ ref.snap.status \in {"success", "error"}
        /\ Broken <=> ref.snap.error
        /\ (~Broken /\ ~store[Root].missed) => ref.snap.data = Truth
        /\ (Broken /\ kind = "perParent") \/ ~ref.snap.fetching

\* While part of the tree is fetched, or has failed, what was shown stays: a related row
\* goes only because the server no longer has it.
NothingVanishes ==
    [][(ref.live /\ ref'.live /\ ref.snap.status = "success") =>
          /\ ref'.snap.status = "success"
          /\ \A old \in ref.snap.data, new \in ref'.snap.data :
                old.row = new.row =>
                    /\ (old.a /\ ~new.a) => \E s \in {"a", "j"} : old.row \notin world'[s]
                    /\ (old.b /\ ~new.b) => \E s \in {"a", "j", "b"} : old.row \notin world'[s]]_vars

\* A query nobody subscribes to any more lets go of its queries, unless it still waits for
\* its first subscriber; and one that has a subscriber keeps them.
TornDownWhenLeft ==
    Quiet => /\ (ref.live /\ ref.listeners = {}) => (ref.claim \/ read.held = "pending")
             /\ ref.listeners # {} => ref.live
             /\ ~ref.live => ref = NewRef

\* A render that suspended is resumed, unless its query was torn down meanwhile.
SuspendedReadsSettle == []<>(read.held # "pending" \/ read.dropped)

\* As the comment on #suspensePromise says, the promise resolves or rejects on the first
\* success or error: no teardown leaves it behind.
NoReadIsDropped == ~read.dropped
=============================================================================
