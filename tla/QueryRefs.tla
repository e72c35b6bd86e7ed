------------------------------- MODULE QueryRefs -------------------------------
(***************************************************************************)
(* Who keeps a query alive: the references Figbird interns by the hash of  *)
(* a query (lib/core/figbird.ts), their listeners, suspended reads and     *)
(* teardown (lib/core/relationalQuery.ts), and the hooks useQuery and      *)
(* useQueries that take them in every render (lib/react).                  *)
(*                                                                         *)
(* A reference has one query of the store under it, which outlives it;     *)
(* what is related to the rows is the subject of RelationalQuery.  React   *)
(* is the environment: a render may be thrown away before its effects run, *)
(* a suspended one is tried again when its promise settles, an error       *)
(* unmounts the component until somebody resets the boundary, StrictMode   *)
(* runs the effects of a new component twice with a cleanup between.       *)
(* Every action is a task of the event loop with the microtasks it leaves, *)
(* run in the order they were queued.                                      *)
(***************************************************************************)
EXTENDS Naturals, Sequences, FiniteSets, SequencesExt, FiniteSetsExt, TLC

CONSTANTS
    Keys,      \* hashes of queries
    Readers,   \* components
    Tagged,    \* those that read with suspense: false
    Many,      \* those that use useQueries; the others read one query
    Ids,       \* names for references: a positive bound on those in use at once
    MaxCalls,  \* bound: what the application and its user start
    MaxFails   \* bound: fetches that fail

RefsAssumption ==
    /\ Tagged \subseteq Readers /\ Many \subseteq Readers \ Tagged
    /\ Ids = 1 .. Cardinality(Ids)
    /\ MaxCalls \in Nat /\ MaxFails \in Nat

VARIABLES
    cache,     \* #relationalQueryCache: the reference each hash has, or none
    refs,      \* the references
    store,     \* the queries of the store
    pins,      \* the references prefetch() and prepare() hold, by hash
    readers,   \* the components
    thrown,    \* promises thrown from renders that are not settled
    due,       \* suspensePromiseAll: sets of references to release in a timer
    spent,
    \* History:
    orphans,   \* references of suspended or uncommitted renders React gave up
    lost       \* readers whose promise was dropped by a teardown

vars == <<cache, refs, store, pins, readers, thrown, due, spent, orphans, lost>>

None == 0
Awake == {"woken", "awake"}
PinKinds == {"prefetch", "prepare"}

NoRefs == [k \in Keys |-> None]

NewRef(key) ==
    [key |-> key, live |-> FALSE, shown |-> FALSE, listeners |-> {}, parked |-> FALSE,
     promise |-> FALSE, settled |-> FALSE, claim |-> FALSE]

\* sub is what the last effect subscribed to, next what the last render took.
Unused ==
    [at |-> "out", wants |-> {}, sub |-> NoRefs, next |-> NoRefs, dirty |-> FALSE, new |-> TRUE]

\* The state an operation works on; tasks is the microtask queue.
State ==
    [cache |-> cache, refs |-> refs, store |-> store, pins |-> pins, readers |-> readers,
     thrown |-> thrown, due |-> due, orphans |-> orphans, lost |-> lost, tasks |-> << >>]

Queue(s, kind, of) == [s EXCEPT !.tasks = Append(@, [kind |-> kind, of |-> of])]

RefsIn(f) == {f[k] : k \in Keys} \ {None}

-----------------------------------------------------------------------------
(* The store.                                                              *)

\* #queue and #fetching: listeners are told in a microtask.
Fetch(s, k) ==
    Queue([s EXCEPT !.store[k] = [@ EXCEPT !.status = IF @ = "success" THEN @ ELSE "loading",
                                           !.fetching = TRUE, !.again = FALSE]],
          "notice", k)

\* ensureFresh(): with a stale time, which does not expire here, data is fresh enough.
EnsureFresh(s, k, lenient) ==
    IF s.store[k].fetching \/ (lenient /\ s.store[k].status = "success") THEN s ELSE Fetch(s, k)

\* refetch()
RefetchQuery(s, k) ==
    IF s.store[k].fetching THEN [s EXCEPT !.store[k].again = TRUE] ELSE Fetch(s, k)

-----------------------------------------------------------------------------
(* A reference.                                                            *)

\* getSnapshot(), its status: what was shown once stays through later failures.
Status(s, r) ==
    LET ref == s.refs[r]
    IN  CASE ~ref.live -> "loading"
          [] ref.shown -> "success"
          [] OTHER -> s.store[ref.key].status

\* A promise of r settles.  The reader that threw it is woken by the first
\* rejection or the last success; suspensePromiseAll waits, after a
\* rejection, for the others before it releases them all.
Settled(s, r, failed) ==
    LET Told(p) ==
            IF r \notin p.waits THEN p
            ELSE [p EXCEPT !.waits = @ \ {r}, !.failed = @ \/ failed]
        told  == {Told(p) : p \in s.thrown}
        wakes == {p.reader : p \in {q \in told : r \in q.all /\ (q.failed \/ q.waits = {})}}
    IN  [s EXCEPT !.thrown = {p \in told : p.waits # {} /\ (p.failed => p.reader \in Many)},
                  !.due = @ \cup {p.all : p \in {q \in told : q.waits = {} /\ q.failed
                                                              /\ q.reader \in Many}},
                  !.readers = [c \in Readers |->
                      IF c \in wakes /\ @[c].at = "suspended" THEN [@[c] EXCEPT !.at = "woken"]
                      ELSE @[c]]]

\* #settleSuspense
SettleSuspense(s, r) ==
    LET status == Status(s, r)
        ref    == s.refs[r]
        done   == [s EXCEPT !.refs[r].settled = TRUE, !.refs[r].promise = FALSE]
    IN  CASE ref.settled \/ status \notin {"success", "error"} -> s
          [] ref.promise -> Settled(done, r, status = "error")
          [] OTHER -> done

\* What a snapshot shows changed: those who subscribed render again, and so
\* will those who have rendered it and not subscribed.
Changed(s, r) ==
    [s EXCEPT !.readers = [c \in Readers |->
        IF \/ c \in s.refs[r].listeners
           \/ @[c].at = "rendered" /\ r \in RefsIn(@[c].next)
        THEN [@[c] EXCEPT !.dirty = TRUE] ELSE @[c]]]

\* The store tells the references over k: #notifyListeners.
Notify(s, k) ==
    FoldSet(LAMBDA r, t : Changed(SettleSuspense(
                [t EXCEPT !.refs[r].shown = @ \/ t.store[k].status = "success"], r), r),
            s, {r \in Ids : s.refs[r].live /\ s.refs[r].key = k})

\* #setupRoot
SetupRoot(s, r, lenient) ==
    LET k     == s.refs[r].key
        fresh == EnsureFresh(s, k, lenient)
    IN  [fresh EXCEPT !.refs[r].live = TRUE, !.refs[r].shown = fresh.store[k].status = "success"]

\* subscribe(): the first to subscribe after a suspended read takes its fetch.
Subscribe(s, r, listener, lenient) ==
    LET joined == [s EXCEPT !.refs[r].listeners = @ \cup {listener}]
    IN  CASE ~s.refs[r].live -> SetupRoot(joined, r, lenient)
          [] s.refs[r].claim -> Queue(joined, "claimed", r)
          [] OTHER           -> EnsureFresh(joined, s.refs[r].key, lenient)

\* #scheduleCleanup
ScheduleCleanup(s, r) ==
    IF s.refs[r].parked THEN s ELSE Queue([s EXCEPT !.refs[r].parked = TRUE], "cleanup", r)

Unsubscribe(s, r, listener) ==
    LET left == [s EXCEPT !.refs[r].listeners = @ \ {listener}]
    IN  IF left.refs[r].listeners = {} THEN ScheduleCleanup(left, r) ELSE left

\* Mutant: an error that was thrown is left in the cache.
KeepColdStart(s, r) == s

\* releaseColdStart()
ReleaseColdStart(s, r) ==
    IF s.refs[r].settled /\ s.refs[r].listeners = {} THEN ScheduleCleanup(s, r) ELSE s

\* suspensePromise(); the promise is settled on return if s.refs[r].settled.
SuspensePromise(s, r) ==
    LET promised == [s EXCEPT !.refs[r].promise = TRUE]
        begun    == IF s.refs[r].live THEN promised
                    ELSE SetupRoot([promised EXCEPT !.refs[r].claim = s.refs[r].listeners = {}],
                                   r, FALSE)
    IN  IF s.refs[r].settled \/ s.refs[r].promise THEN s ELSE SettleSuspense(begun, r)

\* Mutant: whatever the cache has goes.
EvictAnyway(s, r) == [s EXCEPT !.cache[s.refs[r].key] = None]

\* onEvict: only the instance the cache has takes its entry along.
Evict(s, r) ==
    IF s.cache[s.refs[r].key] = r THEN [s EXCEPT !.cache[s.refs[r].key] = None] ELSE s

\* #cleanup: a promise that is not settled is forgotten.
Cleanup(s, r) ==
    LET waiting == {p \in s.thrown : r \in p.waits}
        torn    == Changed(s, r)
        gone    == [torn EXCEPT !.refs[r] = [NewRef(@.key) EXCEPT !.listeners = torn.refs[r].listeners],
                                !.thrown = @ \ waiting,
                                !.lost = @ \cup {p.reader : p \in {q \in waiting :
                                                                   torn.readers[q.reader].at = "suspended"}},
                                !.orphans = @ \ {r}]
    IN  Evict(gone, r)

\* Mutant: whoever came back in the meantime is not noticed.
RunCleanupAnyway(s, r) ==
    LET awake == [s EXCEPT !.refs[r].parked = FALSE]
    IN  IF s.refs[r].live THEN Cleanup(awake, r) ELSE awake

\* The microtask of #scheduleCleanup.
RunCleanup(s, r) ==
    LET awake == [s EXCEPT !.refs[r].parked = FALSE]
    IN  IF s.refs[r].listeners = {} /\ s.refs[r].live THEN Cleanup(awake, r) ELSE awake

RunTask(s, task) ==
    CASE task.kind = "notice"  -> Notify(s, task.of)
      [] task.kind = "claimed" -> [s EXCEPT !.refs[task.of].claim = FALSE]
      [] OTHER                 -> RunCleanup(s, task.of)

\* The end of a task: no microtask queues another.
Become(s) ==
    \E done \in {FoldLeft(RunTask, s, s.tasks)} :
        /\ cache' = done.cache
        /\ refs' = done.refs
        /\ store' = done.store
        /\ pins' = done.pins
        /\ readers' = done.readers
        /\ thrown' = done.thrown
        /\ due' = done.due
        /\ orphans' = done.orphans
        /\ lost' = done.lost

-----------------------------------------------------------------------------
(* Figbird.                                                                *)

InUse(s) ==
    RefsIn(s.cache) \cup RefsIn(s.pins["prefetch"]) \cup RefsIn(s.pins["prepare"])
    \cup UNION {RefsIn(s.readers[c].sub) \cup RefsIn(s.readers[c].next) : c \in Readers}
    \cup UNION {p.all : p \in s.thrown} \cup UNION s.due
    \cup {r \in Ids : s.refs[r].live \/ s.refs[r].parked}

\* query(): the interned reference, or a new one.
Intern(s, k) ==
    IF s.cache[k] # None THEN s
    ELSE LET r == Min(Ids \ InUse(s))
         IN  [s EXCEPT !.cache[k] = r, !.refs[r] = NewRef(k), !.orphans = @ \ {r}]

CanIntern(s, ks) == Cardinality(Ids \ InUse(s)) >= Cardinality({k \in ks : s.cache[k] = None})

Interned(s, ks) == FoldSet(LAMBDA k, t : Intern(t, k), s, ks)

-----------------------------------------------------------------------------
(* The hooks.                                                              *)

Leaves(s, c) ==
    [FoldSet(LAMBDA r, t : Unsubscribe(t, r, c), s, RefsIn(s.readers[c].sub))
        EXCEPT !.readers[c].sub = NoRefs]

\* The component throws an error: every reference that failed is released for
\* a retry, and the boundary unmounts what is below it.
Throw(s, c, failed) ==
    LET released == FoldSet(LAMBDA r, t : ReleaseColdStart(t, r), s, failed)
    IN  [Leaves(released, c) EXCEPT !.readers[c].at = "failed", !.readers[c].dirty = FALSE]

\* The component throws a promise, of suspensePromiseAll when it reads many.
\* One that has settled is tried again at once: "woken" and "awake" are one
\* phase, with two names so that going on like this is not a stutter.
Suspend(s, c, pending) ==
    LET asked == FoldSet(LAMBDA r, t : SuspensePromise(t, r), s, pending)
        waits == {r \in pending : ~asked.refs[r].settled}
        bad   == \E r \in pending \ waits : Status(asked, r) = "error" /\ ~s.refs[r].settled
        again == IF s.readers[c].at = "woken" THEN "awake" ELSE "woken"
    IN  [asked EXCEPT !.readers[c].at = IF waits = {} \/ bad THEN again ELSE "suspended",
                      !.readers[c].dirty = FALSE,
                      !.thrown = IF waits = {} THEN @
                                 ELSE @ \cup {[reader |-> c, all |-> pending, waits |-> waits,
                                               failed |-> bad]}]

\* One render of useQuery or useQueries over the keys the component wants.
Rendered(s, c) ==
    LET keys   == s.readers[c].wants
        taken  == Interned(s, keys)
        next   == [k \in Keys |-> IF k \in keys THEN taken.cache[k] ELSE None]
        t      == [taken EXCEPT !.readers[c].next = next]
        With(status) == {r \in RefsIn(next) : Status(t, r) = status}
        done   == [t EXCEPT !.readers[c].at = IF next = t.readers[c].sub THEN "in" ELSE "rendered",
                            !.readers[c].dirty = FALSE]
    IN  CASE c \in Tagged -> done
          [] With("error") # {} -> Throw(t, c, With("error"))
          [] With("loading") # {} -> Suspend(t, c, With("loading"))
          [] OTHER -> done

\* The effect of useSyncExternalStore when what it subscribes to is another.
Effect(s, c) ==
    LET left == Leaves(s, c)
        next == s.readers[c].next
    IN  FoldSet(LAMBDA r, t : Subscribe(t, r, c, FALSE),
                [left EXCEPT !.readers[c].sub = next, !.readers[c].at = "in",
                             !.readers[c].new = FALSE],
                RefsIn(next))

-----------------------------------------------------------------------------

Init ==
    /\ cache = NoRefs
    /\ refs = [r \in Ids |-> NewRef(CHOOSE k \in Keys : TRUE)]
    /\ store = [k \in Keys |-> [status |-> "none", fetching |-> FALSE, again |-> FALSE]]
    /\ pins = [p \in PinKinds |-> NoRefs]
    /\ readers = [c \in Readers |-> Unused]
    /\ thrown = {} /\ due = {} /\ orphans = {} /\ lost = {}
    /\ spent = [calls |-> 0, fails |-> 0]

CallMade == spent.calls < MaxCalls /\ spent' = [spent EXCEPT !.calls = @ + 1]

CanRead(c, ks) == IF c \in Many THEN Cardinality(ks) > 1 ELSE Cardinality(ks) = 1

\* A component is rendered for the first time.
Mount(c, ks) ==
    /\ readers[c].at = "out" /\ CanRead(c, ks) /\ CanIntern(State, ks)
    /\ CallMade
    /\ Become(Rendered([State EXCEPT !.readers[c].wants = ks], c))

CanRerender(c) ==
    \/ readers[c].at \in Awake
    \/ readers[c].at \in {"in", "suspended"} /\ readers[c].dirty

\* The promise it threw has settled, or a store it subscribed to has changed.
Rerender(c) ==
    /\ CanRerender(c)
    /\ CanIntern(State, readers[c].wants)
    /\ Become(Rendered(State, c))
    /\ UNCHANGED spent

\* The boundary is reset.
Reset(c) ==
    /\ readers[c].at = "failed" /\ CanIntern(State, readers[c].wants)
    /\ CallMade
    /\ Become(Rendered([State EXCEPT !.readers[c].new = TRUE], c))

\* It renders with other arguments.
ChangeArgs(c, ks) ==
    /\ readers[c].at \in {"in", "suspended"}
    /\ CanRead(c, ks) /\ ks # readers[c].wants /\ CanIntern(State, ks)
    /\ CallMade
    /\ Become(Rendered([State EXCEPT !.readers[c].wants = ks,
                                     !.orphans = @ \cup RefsIn(readers[c].next),
                                     !.lost = @ \ {c}], c))

\* The effects of a render that was committed.
Commit(c, strict) ==
    /\ readers[c].at = "rendered" /\ (strict => readers[c].new)
    /\ LET once == Effect(State, c)
       IN  Become(IF strict THEN Effect(once, c) ELSE once)
    /\ UNCHANGED spent

\* The component is unmounted, or React gives up a render it has not committed.
Leave(c) ==
    /\ readers[c].at # "out"
    /\ LET s == Leaves(State, c)
       IN  Become([s EXCEPT
               !.readers[c] = Unused,
               !.lost = @ \ {c},
               !.orphans = IF readers[c].at \in Awake \cup {"suspended", "rendered"}
                           THEN @ \cup RefsIn(readers[c].next) ELSE @])
    /\ UNCHANGED spent

\* An attempt of a fetch ends.
FetchEnds(k, ok) ==
    /\ store[k].fetching
    /\ ok \/ spent.fails < MaxFails
    /\ spent' = [spent EXCEPT !.fails = IF ok THEN @ ELSE @ + 1]
    /\ LET ended == Notify([State EXCEPT !.store[k].status = IF ok THEN "success" ELSE "error",
                                         !.store[k].fetching = FALSE], k)
       IN  Become(IF store[k].again /\ \E r \in Ids : refs[r].live /\ refs[r].key = k
                  THEN Fetch(ended, k) ELSE ended)

\* prefetch() and prepare(): a prefetch of the same query a while ago is replaced.
Pin(k, kind) ==
    /\ CanIntern(State, {k})
    /\ kind = "prepare" => pins[kind][k] = None
    /\ CallMade
    /\ LET taken == Intern(State, k)
           r     == taken.cache[k]
           old   == pins[kind][k]
           left  == IF old = None THEN taken ELSE Unsubscribe(taken, old, kind)
           held  == Subscribe([left EXCEPT !.pins[kind][k] = r], r, kind, kind = "prefetch")
       IN  Become(IF kind = "prepare" THEN SuspensePromise(held, r) ELSE held)

\* The timer of a prefetch, or the release of what was prepared.
Unpin(k, kind) ==
    /\ pins[kind][k] # None
    /\ Become(Unsubscribe([State EXCEPT !.pins[kind][k] = None], pins[kind][k], kind))
    /\ UNCHANGED spent

\* A mounted component asks for a refetch.
Refetch(c, k) ==
    /\ readers[c].at = "in" /\ readers[c].sub[k] # None
    /\ CallMade
    /\ Become(RefetchQuery(State, k))

\* The timer of suspensePromiseAll.
ReleaseAll(all) ==
    /\ all \in due
    /\ Become(FoldSet(LAMBDA r, t : ReleaseColdStart(t, r), [State EXCEPT !.due = @ \ {all}], all))
    /\ UNCHANGED spent

Next ==
    \/ \E c \in Readers, ks \in SUBSET Keys : Mount(c, ks) \/ ChangeArgs(c, ks)
    \/ \E c \in Readers : Rerender(c) \/ Reset(c) \/ Leave(c)
    \/ \E c \in Readers, strict \in BOOLEAN : Commit(c, strict)
    \/ \E k \in Keys, ok \in BOOLEAN : FetchEnds(k, ok)
    \/ \E k \in Keys, kind \in PinKinds : Pin(k, kind) \/ Unpin(k, kind)
    \/ \E c \in Readers, k \in Keys : Refetch(c, k)
    \/ \E all \in due : ReleaseAll(all)

Spec == Init /\ [][Next]_vars

\* React runs what it has scheduled, timers fire, fetches end; users and
\* routers may do nothing more.  What is fair changes something when it is
\* taken, so its guards are spelled out.
Fairness ==
    /\ \A c \in Readers :
            /\ []<>(~CanRerender(c)) \/ []<><<Rerender(c)>>_vars
            /\ []<>(readers[c].at # "rendered") \/ []<><<Commit(c, FALSE) \/ Commit(c, TRUE)>>_vars
    /\ \A k \in Keys :
            /\ []<>(~store[k].fetching) \/ []<><<FetchEnds(k, TRUE) \/ FetchEnds(k, FALSE)>>_vars
            /\ []<>(pins["prefetch"][k] = None) \/ []<><<Unpin(k, "prefetch")>>_vars
    /\ []<>(due = {}) \/ []<><<\E all \in due : ReleaseAll(all)>>_vars

FairSpec == Spec /\ Fairness

-----------------------------------------------------------------------------
(* Properties.                                                             *)

TypeOK ==
    /\ cache \in [Keys -> Ids \cup {None}]
    /\ refs \in [Ids -> [key : Keys, live : BOOLEAN, shown : BOOLEAN,
                         listeners : SUBSET (Readers \cup PinKinds), parked : BOOLEAN,
                         promise : BOOLEAN, settled : BOOLEAN, claim : BOOLEAN]]
    /\ store \in [Keys -> [status : {"none", "loading", "success", "error"},
                           fetching : BOOLEAN, again : BOOLEAN]]
    /\ pins \in [PinKinds -> [Keys -> Ids \cup {None}]]
    /\ \A c \in Readers :
            /\ readers[c].at \in Awake \cup {"out", "suspended", "rendered", "in", "failed"}
            /\ readers[c].wants \subseteq Keys

\* Nothing is left to do but what users, routers and timers start.
AtRest ==
    /\ \A k \in Keys : ~store[k].fetching
    /\ due = {}
    /\ \A c \in Readers : readers[c].at \in {"out", "in", "suspended", "failed"} /\ ~readers[c].dirty

\* Once everything has settled, all who use a query use the one instance the
\* cache has, although instances are evicted between the render that took
\* them and the effect that subscribes (figbird.ts:394), and a pin is on it
\* at all times.
ReadersShare ==
    /\ \A p \in PinKinds, k \in Keys : pins[p][k] # None => pins[p][k] = cache[k]
    /\ AtRest => \A c \in Readers, k \in Keys :
            readers[c].at = "in" /\ readers[c].sub[k] # None => readers[c].sub[k] = cache[k]

\* Nothing stays behind when nobody reads it: neither after an error that was
\* thrown, so that a retry starts a new fetch (useQuery.ts:343), nor in the
\* set of a useQueries one of whose queries failed (relationalQuery.ts:1643).
\* Reads that React gave up before it committed them are the exception.
NothingStaysBehind ==
    AtRest => \A r \in Ids \ orphans :
        refs[r].live =>
            \/ refs[r].listeners # {}
            \/ \E c \in Readers : readers[c].at = "suspended" /\ r \in RefsIn(readers[c].next)

\* Evicting, interning, subscribing and tearing down never go on for ever
\* (figbird.ts:394), and a suspended read is woken unless its promise was dropped.
ComesToRest == []<>(AtRest /\ \A c \in Readers : readers[c].at = "suspended" => c \in lost)

\* A component that reads a query while it is prefetched gets it when the
\* fetch ends, also when the pin is released before.
NoReadIsDropped == lost = {}

=============================================================================
