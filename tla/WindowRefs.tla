------------------------------- MODULE WindowRefs -------------------------------
(***************************************************************************)
(* Who keeps a window query alive: Figbird's cache of window references    *)
(* (lib/core/figbird.ts), which is bounded and gives up the least recently *)
(* used abandoned one, the readers and cold reads of a reference           *)
(* (lib/core/windowQuery.ts), and the hook useWindowQuery                  *)
(* (lib/react/useWindowQuery.ts).                                          *)
(*                                                                         *)
(* How a range is covered with pages is the subject of WindowPager: here a *)
(* range is one page, of a query nobody shares, and none is dropped while  *)
(* the reference is in use.  React is the environment, as in QueryRefs,    *)
(* and every action is a task with the microtasks it leaves.               *)
(***************************************************************************)
EXTENDS Naturals, Sequences, FiniteSets, SequencesExt, FiniteSetsExt

CONSTANTS
    Keys,      \* hashes of window queries
    Ranges,    \* the ranges readers ask for
    Readers,   \* components
    Tagged,    \* those that read with suspense: false
    Capacity,  \* MAX_WINDOW_QUERY_CACHE_SIZE
    Ids,       \* names for references: a positive bound on those in use at once
    MaxCalls,  \* bound: what users start
    MaxFails   \* bound: fetches that fail

WindowRefsAssumption ==
    /\ Tagged \subseteq Readers
    /\ Ids = 1 .. Cardinality(Ids)
    /\ Capacity \in Nat \ {0} /\ MaxCalls \in Nat /\ MaxFails \in Nat

VARIABLES
    cache,    \* #windowQueryCache: references, the least recently used first
    refs,     \* the references
    readers,  \* the components
    spent,
    lost      \* history: readers whose promise was dropped

vars == <<cache, refs, readers, spent, lost>>

None == 0
Awake == {"woken", "awake"}

NewRef(key) ==
    [key |-> key, subs |-> [r \in Ranges |-> {}], reads |-> [r \in Ranges |-> "none"],
     pages |-> [r \in Ranges |-> "none"], again |-> {}]

\* The reference and range of the last effect and of the last render, and
\* whether the WindowQueryReader of that render's reference has shown rows.
Unused ==
    [at |-> "out", key |-> None, range |-> None, sub |-> <<None, None>>, next |-> <<None, None>>,
     seen |-> FALSE, dirty |-> FALSE, new |-> TRUE]

State == [cache |-> cache, refs |-> refs, readers |-> readers, lost |-> lost, parked |-> << >>]

-----------------------------------------------------------------------------
(* A reference.  A page is loading, has rows, failed without any, or is    *)
(* being fetched again or failed with some.                                *)

\* getSnapshot(), its status.
Status(s, r, range) ==
    CASE s.refs[r].pages[range] \in {"none", "loading"} -> "loading"
      [] s.refs[r].pages[range] \in {"error", "failed"} -> "error"
      [] OTHER -> "success"

Fetching(s, r, range) == s.refs[r].pages[range] \in {"loading", "refetching"}

Read(s, r) == {range \in Ranges : s.refs[r].reads[range] # "none"}
Watched(s, r) == {range \in Ranges : s.refs[r].subs[range] # {}}

InUse(s, r) == Read(s, r) \cup Watched(s, r) # {}

\* #scheduleNotify: those who subscribed, or are about to, render again.
Notify(s, r) ==
    [s EXCEPT !.readers = [c \in Readers |->
        IF \/ \E range \in Ranges : c \in s.refs[r].subs[range]
           \/ @[c].at = "rendered" /\ @[c].next[1] = r
        THEN [@[c] EXCEPT !.dirty = TRUE] ELSE @[c]]]

Dropped(s, r) ==
    {c \in Readers : /\ s.readers[c].at = "suspended" /\ s.readers[c].next[1] = r
                      /\ s.refs[r].reads[s.readers[c].next[2]] = "pending"}

\* Mutant: whatever the cache has for the key goes.
OnEvictAnyway(s, r) ==
    [s EXCEPT !.cache = SelectSeq(@, LAMBDA other : s.refs[other].key # s.refs[r].key)]

\* onEvict
OnEvict(s, r) == [s EXCEPT !.cache = SelectSeq(@, LAMBDA other : other # r)]

\* #cleanup
Cleanup(s, r) ==
    OnEvict([Notify(s, r) EXCEPT !.refs[r] = [NewRef(@.key) EXCEPT !.subs = s.refs[r].subs],
                                 !.lost = @ \cup Dropped(s, r)], r)

\* Mutant: a read nobody has subscribed to is abandoned, pending or not.
EvictUnwatched(s, r) ==
    IF Watched(s, r) # {} \/ Read(s, r) = {} THEN s ELSE Cleanup(s, r)

\* evictAbandonedRead()
EvictAbandonedRead(s, r) ==
    IF \/ Watched(s, r) # {} \/ Read(s, r) = {}
       \/ \E range \in Ranges : s.refs[r].reads[range] = "pending"
    THEN s ELSE Cleanup(s, r)

\* #trimWindowQueryCache
Trim(s, protected) ==
    FoldLeft(LAMBDA t, r : IF Len(t.cache) <= Capacity \/ r = protected THEN t
                           ELSE EvictAbandonedRead(t, r),
             s, s.cache)

\* Mutant: a read whose page fails is left waiting.
SettleReadyReads(s, r) ==
    LET done == {range \in Ranges : s.refs[r].reads[range] = "pending"
                                    /\ Status(s, r, range) = "success"}
        settled == [s EXCEPT
            !.refs[r].reads = [range \in Ranges |-> IF range \in done THEN "settled" ELSE @[range]],
            !.readers = [c \in Readers |->
                IF @[c].at = "suspended" /\ @[c].next[1] = r /\ @[c].next[2] \in done
                THEN [@[c] EXCEPT !.at = "woken"] ELSE @[c]]]
    IN  IF done = {} THEN s ELSE Trim(settled, r)

\* #settleColdReads: who suspended is woken, whether there are rows or an error.
SettleColdReads(s, r) ==
    LET done == {range \in Ranges : s.refs[r].reads[range] = "pending"
                                    /\ Status(s, r, range) # "loading"}
        settled == [s EXCEPT
            !.refs[r].reads = [range \in Ranges |-> IF range \in done THEN "settled" ELSE @[range]],
            !.readers = [c \in Readers |->
                IF @[c].at = "suspended" /\ @[c].next[1] = r /\ @[c].next[2] \in done
                THEN [@[c] EXCEPT !.at = "woken"] ELSE @[c]]]
    IN  IF done = {} THEN s ELSE Trim(settled, r)

\* #syncPages: pages that are desired are asked for.
SyncPages(s, r) ==
    [s EXCEPT !.refs[r].pages = [range \in Ranges |->
        IF @[range] = "none" /\ range \in Read(s, r) \cup Watched(s, r) THEN "loading" ELSE @[range]]]

\* #scheduleCleanup
ScheduleCleanup(s, r) ==
    IF InUse(s, r) \/ Contains(s.parked, r) THEN s ELSE [s EXCEPT !.parked = Append(@, r)]

\* releaseColdStart() and #releaseColdRead
ReleaseColdRead(s, r, range) ==
    IF s.refs[r].reads[range] = "none" THEN s
    ELSE ScheduleCleanup([s EXCEPT !.refs[r].reads[range] = "none"], r)

\* subscribe()
Subscribe(s, r, range, c) ==
    LET joined == [s EXCEPT !.refs[r].subs[range] = @ \cup {c}]
    IN  SyncPages(IF s.refs[r].reads[range] = "settled" THEN ReleaseColdRead(joined, r, range)
                  ELSE joined, r)

\* The function it returns.
Unsubscribe(s, r, range, c) == ScheduleCleanup([s EXCEPT !.refs[r].subs[range] = @ \ {c}], r)

\* suspensePromise() of a range without rows
SuspensePromise(s, r, range) ==
    IF s.refs[r].reads[range] # "none" THEN s
    ELSE SyncPages([s EXCEPT !.refs[r].reads[range] = "pending"], r)

\* Pages that have been asked for are fetched again.
FetchAgain(s, r, ranges) ==
    Notify([s EXCEPT !.refs[r].again = @ \ ranges,
                     !.refs[r].pages = [range \in Ranges |->
                         CASE range \notin ranges -> @[range]
                           [] @[range] \in {"success", "failed"} -> "refetching"
                           [] @[range] = "error" -> "loading"
                           [] OTHER -> @[range]]], r)

\* The end of a task: the microtask of #scheduleCleanup.
Become(s) ==
    \E done \in {FoldLeft(LAMBDA t, r : IF InUse(t, r) THEN t ELSE Cleanup(t, r), s, s.parked)} :
        /\ cache' = done.cache
        /\ refs' = done.refs
        /\ readers' = done.readers
        /\ lost' = done.lost

-----------------------------------------------------------------------------
(* Figbird.                                                                *)

Cached(s, k) ==
    LET found == {r \in Range(s.cache) : s.refs[r].key = k}
    IN  IF found = {} THEN None ELSE CHOOSE r \in found : TRUE

Free(s) ==
    {r \in Ids : r \notin Range(s.cache) /\ ~InUse(s, r) /\ ~Contains(s.parked, r)
                 /\ \A c \in Readers : r \notin {s.readers[c].sub[1], s.readers[c].next[1]}}

CanIntern(k) == Cached(State, k) # None \/ Free(State) # {}

\* window(): the reference of the key becomes the most recently used.
Window(s, k) ==
    LET found == Cached(s, k)
        r     == IF found # None THEN found ELSE Min(Free(s))
        known == IF found # None THEN s ELSE [s EXCEPT !.refs[r] = NewRef(k)]
    IN  Trim([known EXCEPT !.cache = Append(SelectSeq(@, LAMBDA other : other # r), r)], r)

-----------------------------------------------------------------------------
(* The hook.                                                               *)

Leaves(s, c) ==
    LET sub == s.readers[c].sub
    IN  IF sub[1] = None THEN s
        ELSE [Unsubscribe(s, sub[1], sub[2], c) EXCEPT !.readers[c].sub = <<None, None>>]

\* The render throws the error, and its boundary unmounts it.
Throw(s, c, r, range) ==
    [Leaves(ReleaseColdRead(s, r, range), c)
        EXCEPT !.readers[c].at = "failed", !.readers[c].dirty = FALSE]

\* The render throws the promise of a cold read.
Suspend(s, c, r, range) ==
    LET asked == SuspensePromise(s, r, range)
        again == IF s.readers[c].at = "woken" THEN "awake" ELSE "woken"
    IN  [asked EXCEPT !.readers[c].at = IF asked.refs[r].reads[range] = "settled" THEN again
                                        ELSE "suspended",
                      !.readers[c].dirty = FALSE]

\* One render of useWindowQuery: a reader that has shown rows of this
\* reference goes on showing what there is.
Rendered(s, c) ==
    LET range  == s.readers[c].range
        taken  == Window(s, s.readers[c].key)
        r      == Last(taken.cache)
        status == Status(taken, r, range)
        seen   == status = "success" \/ (s.readers[c].seen /\ s.readers[c].next[1] = r)
        t      == [taken EXCEPT !.readers[c].next = <<r, range>>, !.readers[c].seen = seen]
    IN  CASE c \in Tagged \/ seen ->
               [t EXCEPT !.readers[c].at = IF t.readers[c].sub = <<r, range>> THEN "in" ELSE "rendered",
                         !.readers[c].dirty = FALSE]
          [] status = "error" -> Throw(t, c, r, range)
          [] OTHER -> Suspend(t, c, r, range)

\* The effect of useSyncExternalStore when what it subscribes to is another.
Effect(s, c) ==
    LET next == s.readers[c].next
    IN  Subscribe([Leaves(s, c) EXCEPT !.readers[c].sub = next, !.readers[c].at = "in",
                                       !.readers[c].new = FALSE],
                  next[1], next[2], c)

-----------------------------------------------------------------------------

Init ==
    /\ cache = << >>
    /\ refs = [r \in Ids |-> NewRef(None)]
    /\ readers = [c \in Readers |-> Unused]
    /\ spent = [calls |-> 0, fails |-> 0]
    /\ lost = {}

CallMade == spent.calls < MaxCalls /\ spent' = [spent EXCEPT !.calls = @ + 1]

\* A component is rendered for the first time.
Mount(c, k, range) ==
    /\ readers[c].at = "out" /\ CanIntern(k)
    /\ CallMade
    /\ Become(Rendered([State EXCEPT !.readers[c].key = k, !.readers[c].range = range], c))

\* It renders another query or another range.
ChangeArgs(c, k, range) ==
    /\ readers[c].at \in {"in", "suspended"}
    /\ <<k, range>> # <<readers[c].key, readers[c].range>> /\ CanIntern(k)
    /\ CallMade
    /\ Become(Rendered([State EXCEPT !.readers[c].key = k, !.readers[c].range = range], c))

CanRerender(c) == readers[c].at \in Awake \/ (readers[c].at = "in" /\ readers[c].dirty)

\* The promise it threw has settled, or what it subscribed to has changed.
Rerender(c) ==
    /\ CanRerender(c) /\ CanIntern(readers[c].key)
    /\ Become(Rendered(State, c))
    /\ UNCHANGED spent

\* The boundary is reset: the state of the component is new.
Reset(c) ==
    /\ readers[c].at = "failed" /\ CanIntern(readers[c].key)
    /\ CallMade
    /\ Become(Rendered([State EXCEPT !.readers[c].new = TRUE, !.readers[c].seen = FALSE], c))

\* The effects of a render that was committed.
Commit(c, strict) ==
    /\ readers[c].at = "rendered" /\ (strict => readers[c].new)
    /\ LET once == Effect(State, c)
       IN  Become(IF strict THEN Effect(once, c) ELSE once)
    /\ UNCHANGED spent

\* It is unmounted, or React gives up a render it has not committed.
Leave(c) ==
    /\ readers[c].at # "out"
    /\ LET s == Leaves(State, c)
       IN  Become([s EXCEPT !.readers[c] = Unused, !.lost = @ \ {c}])
    /\ UNCHANGED spent

\* The fetch of a page ends: #pageChanged.
FetchEnds(r, range, ok) ==
    /\ Fetching(State, r, range)
    /\ ok \/ spent.fails < MaxFails
    /\ spent' = [spent EXCEPT !.fails = IF ok THEN @ ELSE @ + 1]
    /\ LET had   == refs[r].pages[range] = "refetching"
           ended == [State EXCEPT !.refs[r].pages[range] = CASE ok  -> "success"
                                                             [] had -> "failed"
                                                             [] OTHER -> "error"]
           told  == Notify(SettleColdReads(ended, r), r)
       IN  Become(IF range \in refs[r].again THEN FetchAgain(told, r, {range}) ELSE told)

\* refetch(): a page that is being fetched will be again.
Refetch(c) ==
    /\ readers[c].at = "in"
    /\ CallMade
    /\ LET r    == readers[c].sub[1]
           busy == {range \in Ranges : Fetching(State, r, range)}
       IN  Become(FetchAgain([State EXCEPT !.refs[r].again = @ \cup busy], r, Ranges \ busy))

Next ==
    \/ \E c \in Readers, k \in Keys, range \in Ranges : Mount(c, k, range) \/ ChangeArgs(c, k, range)
    \/ \E c \in Readers : Rerender(c) \/ Reset(c) \/ Leave(c) \/ Refetch(c)
    \/ \E c \in Readers, strict \in BOOLEAN : Commit(c, strict)
    \/ \E r \in Ids, range \in Ranges, ok \in BOOLEAN : FetchEnds(r, range, ok)

Spec == Init /\ [][Next]_vars

\* React runs what it has scheduled and fetches end.  What is fair changes
\* something when it is taken, so its guards are spelled out.
Fairness ==
    /\ \A c \in Readers :
            /\ []<>(~CanRerender(c)) \/ []<><<Rerender(c)>>_vars
            /\ []<>(readers[c].at # "rendered") \/ []<><<Commit(c, FALSE) \/ Commit(c, TRUE)>>_vars
    /\ \A r \in Ids, range \in Ranges :
            []<>(~Fetching(State, r, range))
            \/ []<><<FetchEnds(r, range, TRUE) \/ FetchEnds(r, range, FALSE)>>_vars

FairSpec == Spec /\ Fairness

-----------------------------------------------------------------------------
(* Properties.                                                             *)

TypeOK ==
    /\ cache \in Seq(Ids) /\ IsInjective(cache)
    /\ \A r \in Ids :
            /\ refs[r].key \in Keys \cup {None}
            /\ refs[r].subs \in [Ranges -> SUBSET Readers]
            /\ refs[r].reads \in [Ranges -> {"none", "pending", "settled"}]
            /\ refs[r].pages \in [Ranges -> {"none", "loading", "success", "error", "refetching", "failed"}]
            /\ refs[r].again \subseteq Ranges
    /\ \A c \in Readers :
            readers[c].at \in Awake \cup {"out", "suspended", "rendered", "in", "failed"}

\* Nothing is left to do but what users start.
AtRest ==
    /\ \A r \in Ids, range \in Ranges : ~Fetching(State, r, range)
    /\ \A c \in Readers : readers[c].at \in {"out", "in", "suspended", "failed"} /\ ~readers[c].dirty

\* Once everything has settled, the readers of a window query that are shown
\* use the one reference the cache has, and its page for their range has
\* been asked for: the bounded cache gives up neither what a reader has
\* subscribed to, nor does a reference evicted between render and effect stay
\* in use beside its successor (figbird.ts:456, windowQuery.ts:317).
ReadersShare ==
    AtRest => \A c \in Readers :
        readers[c].at = "in" =>
            /\ readers[c].sub[1] = Cached(State, readers[c].key)
            /\ refs[readers[c].sub[1]].pages[readers[c].sub[2]] # "none"

\* A promise a render has thrown is never dropped: a pending read keeps its
\* reference, however full the cache (windowQuery.ts:320).
ReadsAreKept == lost = {}

\* More window queries are read, or still shown while others are read, than
\* the cache has room for.
Crowded ==
    LET Reading(c) == ({readers[c].key} \cup {refs[r].key : r \in {readers[c].sub[1]} \ {None}})
    IN  Cardinality(UNION {Reading(c) : c \in Readers} \ {None}) > Capacity

\* Eviction, retries and new references do not chase each other for ever
\* while the cache has room for all that are read (figbird.ts:450), and no
\* reader is left suspended.
ReadersArrive == []<>(Crowded \/ (AtRest /\ \A c \in Readers : readers[c].at # "suspended"))

=============================================================================
