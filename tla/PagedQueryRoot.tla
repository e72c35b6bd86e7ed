---------------------------- MODULE PagedQueryRoot ----------------------------
(***************************************************************************)
(* The root of a .paginate() query (lib/core/queryRoots.ts): a sequence of *)
(* pages, each a cached query of its own, over the part of the query store *)
(* those queries use (lib/core/queryStore.ts).  Offset pages are           *)
(* independent of each other.  Cursor pages form a chain, each asked for   *)
(* with the end cursor of the one before; page zero stands for the chain,  *)
(* and a background fetch of it rebuilds the loaded prefix, page after     *)
(* page, behind rows that stay as they were.                               *)
(*                                                                         *)
(* The server's list is a set of numbers in their order.  A page's key is  *)
(* what tells its query from the others': the row it starts after (0 for   *)
(* none), or its number among the offset pages.  The subscribers' stale    *)
(* time is zero.  The gate of event-driven refetches is reduced to what    *)
(* QueryReconciliation shows of it: a request is delayed, never dropped.   *)
(***************************************************************************)
EXTENDS Naturals, Sequences, FiniteSets, SequencesExt, FiniteSetsExt

CONSTANTS
    Modes,       \* the pagination strategies: "cursor", "offset"
    Rows,        \* the rows the server may have
    PageSize,
    Starts,      \* the rows it may have at first
    MaxFailures, \* bound: fetches that fail
    MaxTurns     \* bound: changes, failures, updates in place, refetches by hand and
                 \* the teardown, together, in each mode

ASSUME PagedAssumption ==
    /\ Modes \subseteq {"cursor", "offset"}
    /\ Rows \subseteq Nat \ {0}
    /\ PageSize \in Nat \ {0}
    /\ Starts \subseteq SUBSET Rows
    /\ MaxFailures \in Nat
    /\ \A m \in Modes : MaxTurns[m] \in Nat

VARIABLES
    mode,     \* sequential or not
    server,   \* the rows the server has
    news,     \* a change the client has not been told of
    queries,  \* the cached page queries, by key
    jobs,     \* their fetches under way
    owed,     \* the keys whose reconciliation the gate holds back
    notices,  \* the keys whose listeners hear of a fetch in the next microtask
    root,     \* the PagedQueryRoot
    depth,    \* history: the pages the application has asked to see
    raced,    \* history: a page had two requests under way, or met one it adopted
    spent     \* what the bounds count

vars == <<mode, server, news, queries, jobs, owed, notices, root, depth, raced, spent>>

Keys == Rows \cup {0}

Sorted(rows) == SetToSortSeq(rows, <)

\* What the server answers for a key: the rows of the page and whether more follow.
Page(key) ==
    LET rest == IF mode = "cursor" THEN Sorted({r \in server : r > key})
                ELSE LET all  == Sorted(server)
                         skip == key * PageSize
                     IN  IF skip >= Len(all) THEN << >> ELSE SubSeq(all, skip + 1, Len(all))
    IN  [rows |-> IF Len(rest) > PageSize THEN SubSeq(rest, 1, PageSize) ELSE rest,
         more |-> Len(rest) > PageSize]

NoQuery == [status |-> "none", fetching |-> FALSE, pending |-> FALSE, dirty |-> FALSE,
            rows |-> << >>, more |-> FALSE]

\* A page of the root: the query it subscribes to, whether loadMore() waits for it,
\* and whether it is fetched again once the request it met under way has settled.
\* History: it may show what was not read after the page before it, as a request for
\* it, or for page zero, was under way when it was set up.
PageOf(key, settling, again, stray) ==
    [key |-> key, settling |-> settling, again |-> again, stray |-> stray]

-----------------------------------------------------------------------------
(* The query store.  Its operators thread a state of these fields.         *)

State == [queries |-> queries, jobs |-> jobs, notices |-> notices, root |-> root]

Overlapping(s) == \E i, j \in DOMAIN s.jobs : i # j /\ s.jobs[i].key = s.jobs[j].key

Become(s) ==
    /\ raced' = (raced \/ Overlapping(s)
                       \/ \E i \in DOMAIN s.root.pages : s.root.pages[i].stray)
    /\ queries' = s.queries
    /\ jobs' = s.jobs
    /\ notices' = s.notices
    /\ root' = s.root

Subscribed(s, key) == \E i \in DOMAIN s.root.pages : s.root.pages[i].key = key

\* #queue and #fetching: the listeners hear of it in the next microtask.
Queue(s, key) ==
    [s EXCEPT
        !.queries[key] = [@ EXCEPT !.pending = FALSE, !.dirty = FALSE, !.fetching = TRUE,
                                   !.status = IF @ = "success" THEN "success" ELSE "loading"],
        !.jobs = Append(@, [key |-> key, answered |-> FALSE, ok |-> TRUE,
                            rows |-> << >>, more |-> FALSE]),
        !.notices = IF Contains(@, key) THEN @ ELSE Append(@, key)]

\* refetch()
RefetchQuery(s, key) ==
    IF s.queries[key].status = "none" THEN s
    ELSE IF s.queries[key].fetching THEN [s EXCEPT !.queries[key].dirty = TRUE]
    ELSE Queue(s, key)

\* ensureFresh() of a query of policy swr and a stale time of zero.
EnsureFresh(s, key) ==
    LET q == s.queries[key]
    IN  IF q.pending \/ ~q.fetching THEN Queue(s, key) ELSE s

\* materialize() and subscribe()
Subscribe(s, key) ==
    EnsureFresh(IF s.queries[key].status # "none" THEN s
                ELSE [s EXCEPT !.queries[key] = [NoQuery EXCEPT !.status = "loading",
                                                                !.fetching = TRUE,
                                                                !.pending = TRUE]], key)

-----------------------------------------------------------------------------
(* The root.  Pages are counted from 1 here.                               *)

\* #setupPage.  The query, being subscribed to, is under way, so that the first
\* look at its state changes nothing.
SetupPage(s, key, settling) ==
    LET again == /\ s.root.phase = "running"
                 /\ key \in s.root.previous
                 /\ s.queries[key].fetching
        stray == \/ s.queries[key].fetching /\ ~again
                 \/ settling /\ s.queries[0].fetching
    IN  Subscribe([s EXCEPT !.root.pages = Append(@, PageOf(key, settling, again, stray))], key)

\* Mutant: one page too many stays.
DropFollowupsButOne(s) == [s EXCEPT !.root.pages = SubSeq(@, 1, IF Len(@) > 2 THEN 2 ELSE Len(@))]

\* #dropFollowupPages
DropFollowups(s) == [s EXCEPT !.root.pages = SubSeq(@, 1, IF Len(@) = 0 THEN 0 ELSE 1)]

\* #pageHasMore
HasMore(q) == IF mode = "cursor" THEN q.more ELSE Len(q.rows) >= PageSize

\* #allPagesData
AllRows(s) ==
    IF s.root.phase # "idle" THEN s.root.rows
    ELSE FlattenSeq([i \in 1 .. Len(s.root.pages) |->
            LET q == s.queries[s.root.pages[i].key]
            IN  IF q.status = "success" THEN q.rows ELSE << >>])

\* snapshot(): what the root shows.  An error of any page hides the rows; a page beyond
\* the first shows nothing while it loads.
Phase ==
    LET statuses == {queries[root.pages[i].key].status : i \in DOMAIN root.pages}
    IN  CASE "error" \in statuses -> "error"
          [] statuses = {} \/ queries[0].status = "loading" -> "loading"
          [] OTHER -> "ready"

\* Mutant: a reconciliation that failed is begun anew with the pages it still has.
BeginReconcileShallow(s) ==
    LET r == s.root
    IN  IF r.phase = "running" THEN [s EXCEPT !.root.rerun = TRUE]
        ELSE IF Len(r.pages) <= 1 /\ r.phase # "failed" THEN s
        ELSE DropFollowups(
               [s EXCEPT !.root = [@ EXCEPT
                   !.phase    = "running",
                   !.target   = Len(r.pages),
                   !.rows     = AllRows(s),
                   !.previous = {r.pages[i].key : i \in 2 .. Len(r.pages)},
                   !.rerun    = FALSE,
                   !.more     = TRUE,
                   !.loading  = FALSE,
                   !.failed   = FALSE]])

\* #beginReconcile
BeginReconcile(s) ==
    LET r      == s.root
        failed == r.phase = "failed"
    IN  IF r.phase = "running" THEN [s EXCEPT !.root.rerun = TRUE]
        ELSE IF Len(r.pages) <= 1 /\ ~failed THEN s
        ELSE DropFollowups(
               [s EXCEPT !.root = [@ EXCEPT
                   !.phase    = "running",
                   !.target   = IF failed THEN @ ELSE Len(r.pages),
                   !.rows     = IF failed THEN @ ELSE AllRows(s),
                   !.previous = IF failed THEN @ ELSE {r.pages[i].key : i \in 2 .. Len(r.pages)},
                   !.rerun    = FALSE,
                   !.more     = TRUE,
                   !.loading  = FALSE,
                   !.failed   = FALSE]])

EndCursor(q) == q.rows[Len(q.rows)]

Done(s) == [s EXCEPT !.root = [@ EXCEPT !.phase = "idle", !.target = 0, !.rows = << >>,
                                        !.previous = {}, !.rerun = FALSE]]

\* #advanceReconcile(i, q) of a chain nobody asked to run again.
Onward(s, i, q) ==
    IF i < s.root.target /\ q.more THEN SetupPage(s, EndCursor(q), FALSE) ELSE Done(s)

\* #restartReconcile
Restart(s) ==
    LET again == DropFollowups([s EXCEPT !.root.rerun = FALSE])
        first == s.queries[s.root.pages[1].key]
    IN  IF first.status = "success" /\ ~first.fetching THEN Onward(again, 1, first) ELSE again

\* Mutant: the chain ends though page zero was fetched again meanwhile.
AdvanceOnce(s, i, q) == Onward(s, i, q)

\* #advanceReconcile: the last page of the chain so far has settled.
Advance(s, i, q) ==
    IF ~(i < s.root.target /\ q.more) /\ s.root.rerun THEN Restart(s) ELSE Onward(s, i, q)

\* A page arrived: what is known about the list's end, and what waited for it.
Settle(s, i, q) ==
    IF q.fetching THEN s
    ELSE IF s.root.pages[i].settling
         THEN [s EXCEPT !.root = [@ EXCEPT !.pages[i].settling = FALSE, !.loading = FALSE,
                                           !.failed = FALSE, !.more = HasMore(q)]]
    ELSE IF ~s.root.loading THEN [s EXCEPT !.root.more = HasMore(q)]
    ELSE s

\* Mutant: the error leaves the page being loaded.
LoadFailedQuietly(s) == s

\* The error of the page loadMore() waits for: it goes, and may be asked for again.
LoadFailed(s) ==
    [s EXCEPT !.root = [@ EXCEPT !.pages = SubSeq(@, 1, Len(@) - 1), !.loading = FALSE,
                                 !.failed = TRUE, !.more = TRUE]]

\* #abortReconcile
Abort(s) == IF s.root.phase = "running" THEN [s EXCEPT !.root.phase = "failed"] ELSE s

\* onState of page i.
OnState(s, i) ==
    LET page == s.root.pages[i]
        q    == s.queries[page.key]
        r    == IF mode = "cursor" /\ i = 1 /\ q.fetching THEN BeginReconcile(s) ELSE s
    IN  CASE page.again /\ ~q.fetching ->
                RefetchQuery([r EXCEPT !.root.pages[i].again = FALSE], page.key)
          [] ~(page.again /\ ~q.fetching) /\ q.status = "success" ->
                LET settled == Settle(r, i, q)
                IN  IF settled.root.phase = "running" /\ ~q.fetching /\ i = Len(settled.root.pages)
                    THEN Advance(settled, i, q) ELSE settled
          [] ~(page.again /\ ~q.fetching) /\ q.status = "error" ->
                IF page.settling THEN LoadFailed(r) ELSE Abort(r)
          [] OTHER -> r

\* #invokeListeners: the root is the one listener of its pages.
Invoke(s, key) ==
    IF Subscribed(s, key)
    THEN OnState(s, SelectInSeq(s.root.pages, LAMBDA page : page.key = key)) ELSE s

Idle == [pages |-> << >>, loading |-> FALSE, failed |-> FALSE, more |-> TRUE, phase |-> "idle",
         target |-> 0, rows |-> << >>, previous |-> {}, rerun |-> FALSE]

\* The constructor has set up page zero.
Init ==
    /\ mode \in Modes
    /\ server \in Starts
    /\ news = FALSE
    /\ owed = {}
    /\ LET s == SetupPage([queries |-> [k \in Keys |-> NoQuery], jobs |-> << >>,
                           notices |-> << >>, root |-> Idle], 0, FALSE)
       IN  /\ queries = s.queries /\ jobs = s.jobs
           /\ notices = s.notices /\ root = s.root
    /\ depth = 1
    /\ raced = FALSE
    /\ spent = [turns |-> 0, failures |-> 0]

-----------------------------------------------------------------------------
(* Steps.  Listeners told in a microtask hear of it before anything else   *)
(* happens.                                                                *)

Quiet == notices = << >>

Turn == spent.turns < MaxTurns[mode] /\ spent' = [spent EXCEPT !.turns = @ + 1]

\* History: a rebuilt chain may end sooner than it did, and a page that fails to load
\* is taken back.
Depth(s) ==
    IF /\ root.phase # "idle" /\ s.root.phase = "idle"
       /\ ~s.queries[s.root.pages[Len(s.root.pages)].key].more
    THEN Len(s.root.pages)
    ELSE IF root.loading /\ ~s.root.loading /\ s.root.failed THEN depth - 1
    ELSE depth

Microtask ==
    /\ ~Quiet
    /\ LET s == FoldLeft(LAMBDA t, key : Invoke(t, key), [State EXCEPT !.notices = << >>], notices)
       IN  Become(s) /\ depth' = Depth(s)
    /\ UNCHANGED <<mode, server, news, owed, spent>>

\* A row is inserted or removed.
Change ==
    /\ Quiet
    /\ Turn
    /\ \E row \in Rows :
          server' = IF row \in server THEN server \ {row} ELSE server \cup {row}
    /\ news' = TRUE
    /\ UNCHANGED <<mode, queries, jobs, owed, notices, root, depth, raced>>

\* The queries an event asks to reconcile: page zero for the chain, else each.
Watching == IF mode = "cursor" THEN {0} ELSE {k \in Keys : queries[k].status # "none"}

\* The client is told: the gate takes the request of a query somebody watches and
\* notes it on the others.
Event ==
    /\ Quiet /\ news
    /\ news' = FALSE
    /\ owed' = owed \cup {k \in Watching : Subscribed(State, k)}
    /\ queries' = [k \in Keys |-> IF k \in Watching /\ ~Subscribed(State, k)
                                  THEN [queries[k] EXCEPT !.pending = TRUE] ELSE queries[k]]
    /\ UNCHANGED <<mode, server, jobs, notices, root, depth, raced, spent>>

Gate(key) ==
    /\ Quiet /\ key \in owed
    /\ owed' = owed \ {key}
    /\ Become(IF Subscribed(State, key) THEN RefetchQuery(State, key)
              ELSE [State EXCEPT !.queries[key].pending = TRUE])
    /\ UNCHANGED <<mode, server, news, depth, spent>>

\* A value of a row shown changes and nothing else does: the pages that show it are
\* updated in place, and their listeners told.
VisibleUpdate ==
    /\ Quiet
    /\ Turn
    /\ \E row \in server, i \in DOMAIN root.pages :
          /\ Contains(queries[root.pages[i].key].rows, row)
          /\ queries[root.pages[i].key].status = "success"
          /\ LET s == OnState(State, i) IN Become(s) /\ depth' = Depth(s)
    /\ UNCHANGED <<mode, server, news, owed>>

\* The server answers, or the fetch fails with its retries.
Answer(j) ==
    /\ Quiet /\ ~jobs[j].answered
    /\ \E ok \in BOOLEAN :
          /\ \/ ok /\ UNCHANGED spent
             \/ /\ ~ok /\ spent.failures < MaxFailures /\ spent.turns < MaxTurns[mode]
                /\ spent' = [turns |-> spent.turns + 1, failures |-> spent.failures + 1]
          /\ jobs' = [jobs EXCEPT ![j] = [@ EXCEPT !.answered = TRUE, !.ok = ok,
                            !.rows = IF ok THEN Page(jobs[j].key).rows ELSE << >>,
                            !.more = ok /\ Page(jobs[j].key).more]]
    /\ UNCHANGED <<mode, server, news, queries, owed, notices, root, depth, raced>>

\* #fetched and #fetchFailed: the listeners are told, then a dirty query somebody
\* watches is fetched again.
Arrive(j) ==
    LET job     == jobs[j]
        landed  == [State EXCEPT
                       !.jobs = RemoveAt(@, j),
                       !.queries[job.key] = [@ EXCEPT
                           !.status = IF job.ok THEN "success" ELSE "error",
                           !.fetching = FALSE, !.rows = job.rows, !.more = job.more]]
        told    == Invoke(landed, job.key)
    IN  /\ Quiet /\ job.answered
        /\ LET s == IF queries[job.key].dirty /\ Subscribed(told, job.key)
                    THEN Queue(told, job.key) ELSE told
           IN  Become(s) /\ depth' = Depth(s)
        /\ UNCHANGED <<mode, server, news, owed, spent>>

PageSettled(i) == queries[root.pages[i].key].status = "success"

\* The next page starts after the end cursor of the last one.
NextKey ==
    LET n == Len(root.pages)
    IN  IF mode = "cursor" THEN EndCursor(queries[root.pages[n].key]) ELSE n

LoadMore ==
    LET n == Len(root.pages)
    IN  /\ Quiet
        /\ root.phase = "idle" /\ ~root.loading /\ root.more /\ n > 0
        /\ PageSettled(1) /\ PageSettled(n)
        /\ mode = "cursor" => queries[root.pages[n].key].more
        /\ NextKey \in Keys
        /\ Become(SetupPage([State EXCEPT !.root.loading = TRUE, !.root.failed = FALSE],
                            NextKey, TRUE))
        /\ depth' = depth + 1
            /\ UNCHANGED <<mode, server, news, owed, spent>>

\* refetch(): the pages after the first are dropped.
Refetch ==
    /\ Quiet /\ root.pages # << >>
    /\ Turn
    /\ LET dropped == DropFollowups(Done(State))
       IN  Become(RefetchQuery([dropped EXCEPT !.root.more = TRUE, !.root.loading = FALSE,
                                               !.root.failed = FALSE], 0))
    /\ depth' = 1
    /\ UNCHANGED <<mode, server, news, owed>>

\* ensureFresh(): a subscriber joins.
Join ==
    /\ Quiet
    /\ \E i \in DOMAIN root.pages : ~queries[root.pages[i].key].fetching
    /\ Turn
    /\ Become(IF mode = "cursor" THEN EnsureFresh(State, 0)
              ELSE FoldLeft(LAMBDA s, page : EnsureFresh(s, page.key), State, root.pages))
    /\ UNCHANGED <<mode, server, news, owed, depth>>

\* refetchQueries(): every cached query, a page of an earlier chain among them.
RefetchAll ==
    /\ Quiet
    /\ Turn
    /\ Become(FoldLeft(LAMBDA s, key :
                  IF s.queries[key].status = "none" THEN s
                  ELSE IF Subscribed(s, key) THEN RefetchQuery(s, key)
                  ELSE [s EXCEPT !.queries[key].pending = TRUE],
              State, Sorted(Keys)))
    /\ UNCHANGED <<mode, server, news, owed, depth>>

\* teardown(): the pages are unsubscribed from.
Teardown ==
    /\ Quiet /\ root.pages # << >>
    /\ Turn
    /\ root' = [Done(State).root EXCEPT !.pages = << >>]
    /\ depth' = 0
    /\ UNCHANGED <<mode, server, news, queries, jobs, owed, notices, raced>>

Next ==
    \/ Microtask
    \/ Change
    \/ Event
    \/ \E key \in Keys : Gate(key)
    \/ VisibleUpdate
    \/ \E j \in DOMAIN jobs : Answer(j)
    \/ \E j \in DOMAIN jobs : Arrive(j)
    \/ LoadMore
    \/ Refetch
    \/ Join
    \/ RefetchAll
    \/ Teardown

Spec == Init /\ [][Next]_vars

\* Microtasks run, requests are answered, answers arrive, and the gate opens.
FairSpec ==
    /\ Spec
    /\ []<>Quiet \/ []<><<Microtask>>_vars
    /\ []<>(\A j \in DOMAIN jobs : jobs[j].answered \/ ~Quiet)
       \/ []<><<\E j \in DOMAIN jobs : Answer(j)>>_vars
    /\ []<>(\A j \in DOMAIN jobs : ~jobs[j].answered \/ ~Quiet)
       \/ []<><<\E j \in DOMAIN jobs : Arrive(j)>>_vars
    /\ []<>(owed = {}) \/ []<><<\E key \in Keys : Gate(key)>>_vars
-----------------------------------------------------------------------------
\* Nothing is under way or owed, and no error is left to be dealt with.
Settled ==
    /\ root.phase # "failed"
    /\ Quiet /\ ~news /\ owed = {} /\ jobs = << >>
    /\ Phase = "ready"

Prefix(n) == LET all == Sorted(server) IN SubSeq(all, 1, IF Len(all) < n THEN Len(all) ELSE n)

\* "A background fetch there rebuilds the loaded prefix before exposing any of it":
\* the pages of an accumulated list show together the beginning of the server's
\* list, each row once, when everything has arrived.
ShowsPrefix == Settled => AllRows(State) = Prefix(Len(root.pages) * PageSize)

\* Unless a page had two requests under way, or was set up while one of an earlier
\* chain, or for page zero, was.
ShowsPrefixUnlessRaced == ~raced => ShowsPrefix

\* The rows of a chain exposed belong to one chain: each page starts after the end
\* of the one before.
ChainIsWhole ==
    (mode = "cursor" /\ root.phase = "idle" /\ Quiet /\ ~raced) =>
        \A i \in 1 .. Len(root.pages) - 1 :
           PageSettled(i) => root.pages[i + 1].key = EndCursor(queries[root.pages[i].key])

\* However often the chain is rebuilt, fails and is rebuilt again, as many pages are
\* shown as the application had loaded, or as there are.
DepthIsKept ==
    (root.phase = "idle" /\ Quiet) => Len(root.pages) = depth

\* What a reconciliation page by page leaves is the chain there was: without a gap,
\* and as deep.
ChainIsKept == ChainIsWhole /\ DepthIsKept

\* A reconciliation ends, and so does the loading of a page.
EventuallyIdle == []<>(root.pages # << >> => root.phase # "running" /\ ~root.loading)
=============================================================================
