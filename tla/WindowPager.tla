------------------------------ MODULE WindowPager ------------------------------
(***************************************************************************)
(* The viewport-indexed query behind useWindowQuery (lib/core/             *)
(* windowQuery.ts) and its pagers (lib/core/windowQueryPager.ts): readers  *)
(* ask for ranges of rows, the query keeps the blocks they need, each a    *)
(* cached query of its own, and drops distant ones.  An offset service is  *)
(* asked for any block; a cursor service is walked from checkpoints, the   *)
(* row indexes at which a page is known to end.                            *)
(*                                                                         *)
(* The server's list is a set of numbers in their order; a cursor is the   *)
(* row it points behind.  Work the query puts off to microtasks waits in a *)
(* queue: calls of the application may come between, answers of the server *)
(* may not.  A dropped page's query goes with it (gcOnUnsubscribe), and no *)
(* other query shares it.  Relations are left out, and so are the cap of   *)
(* 20 on settled cold reads and stale times other than zero.  An event     *)
(* makes the pages that listen to events be fetched again (the gate before *)
(* that is the subject of QueryReconciliation, merging in place that of    *)
(* WindowQuery).                                                           *)
(***************************************************************************)
EXTENDS Naturals, Sequences, FiniteSets, SequencesExt, FiniteSetsExt, TLC

CONSTANTS
    Modes,       \* records: cursor or offset, with totals or not
    Rows,        \* the rows the server may have
    Starts,      \* those it may have at first
    Ranges,      \* the ranges readers ask for, as records [start, end)
    PageSize,
    PreloadPages,
    MaxPages,    \* the pages to retain
    MaxTurns,    \* bound: changes, failures and refetches by hand, together
    MaxCalls     \* bound: the other calls of the application

ASSUME WindowAssumption ==
    /\ Rows \subseteq Nat \ {0}
    /\ Starts \subseteq SUBSET Rows
    /\ \A r \in Ranges : r.start \in Nat /\ r.end \in Nat /\ r.start < r.end
    /\ PageSize \in Nat \ {0} /\ MaxPages \in Nat \ {0}
    /\ PreloadPages \in Nat /\ MaxTurns \in Nat /\ MaxCalls \in Nat

VARIABLES
    mode,
    server,   \* the rows the server has
    news,     \* a change the client has not been told of
    pages,    \* the pages, in the order in which they were made
    recent,   \* their starts, the least recently used first
    pager,    \* checkpoints, the end of the list, whether page zero was seen, the total
    readers,  \* subscriptions, cold reads, and the snapshots computed since the last change
    tasks,    \* microtasks, and the pages whose listeners the first of them tells
    spent     \* what the bounds count

vars == <<mode, server, news, pages, recent, pager, readers, tasks, spent>>

\* A number that is not known yet, beyond all others.
Unknown == 1000

Least(a, b) == IF a < b THEN a ELSE b

Sorted(rows) == SetToSortSeq(rows, <)

State == [pages |-> pages, recent |-> recent, pager |-> pager, readers |-> readers,
          tasks |-> tasks]

Become(s) ==
    /\ pages' = s.pages
    /\ recent' = s.recent
    /\ pager' = s.pager
    /\ readers' = s.readers
    /\ tasks' = s.tasks

-----------------------------------------------------------------------------
(* Pages.                                                                  *)

NoJob == [phase |-> "none", rows |-> << >>, more |-> FALSE, total |-> Unknown]

\* A page just made: its query is asked for at once.  raw is the state of the query,
\* had whether the page ever succeeded, fresh whether its rows are new to the pager.
NewPage(start, after) ==
    [start |-> start, after |-> after, raw |-> "loading", had |-> FALSE, failed |-> FALSE,
     fresh |-> FALSE, dirty |-> FALSE, rows |-> << >>, more |-> FALSE, total |-> Unknown,
     job |-> [NoJob EXCEPT !.phase = "asked"]]

\* The status of the page's reference, which keeps its rows through later failures.
Status(p) == IF p.had THEN "success" ELSE p.raw

Index(s, start) == SelectInSeq(s.pages, LAMBDA p : p.start = start)

Has(s, start) == Index(s, start) # 0

PageAt(s, start) == s.pages[Index(s, start)]

\* #touchPage
Touch(s, start) == [s EXCEPT !.recent = Append(SelectSeq(@, LAMBDA k : k # start), start)]

\* #dropPage
DropPage(s, start) ==
    [s EXCEPT !.pages = SelectSeq(@, LAMBDA p : p.start # start),
              !.recent = SelectSeq(@, LAMBDA k : k # start),
              !.tasks.notices = SelectSeq(@, LAMBDA k : k # start)]

DropAll(s, starts) ==
    FoldLeft(LAMBDA t, k : DropPage(t, k), s, SetToSeq(starts))

-----------------------------------------------------------------------------
(* The pagers.                                                             *)

\* targetStarts()
TargetStarts(s, range, preload) ==
    LET first == range.start \div PageSize
        last  == (range.end - 1) \div PageSize + preload
    IN  {k * PageSize : k \in (IF first < preload THEN 0 ELSE first - preload) .. last}
            \cap 0 .. (s.pager.total - 1)

\* #pageCovering: its place among the pages, or zero.
Covering(s, index) ==
    SelectInSeq(s.pages, LAMBDA p : /\ Status(p) = "success"
                                    /\ p.start <= index /\ index < p.start + Len(p.rows))

Checkpoints(s) == DOMAIN s.pager.cursorAt

\* #nearestCheckpoint
NearestCheckpoint(s, index) == Max({c \in Checkpoints(s) : c <= index})

KnownEnd(s, range) ==
    Least(range.end, IF s.pager.terminal # Unknown THEN s.pager.terminal ELSE s.pager.total)

\* #pagesForRange: the pages met walking through the range, up to the first gap, and
\* the page the walk goes on from there.
PagesForRange(s, range) ==
    LET walk[i \in 0 .. Cardinality(Rows) + PageSize] ==
            IF i >= KnownEnd(s, range) THEN {}
            ELSE IF Covering(s, i) # 0
                 THEN LET p == s.pages[Covering(s, i)]
                      IN  {p.start} \cup walk[p.start + Len(p.rows)]
            ELSE {NearestCheckpoint(s, i)}
    IN  walk[range.start]

\* requiredStarts(), those that have a page.
RequiredStarts(s, range) ==
    {k \in IF mode.cursor THEN PagesForRange(s, range) ELSE TargetStarts(s, range, 0) : Has(s, k)}

\* fetchingStarts(), likewise.
FetchingStarts(s, range) ==
    IF mode.cursor THEN {s.pages[i].start : i \in DOMAIN s.pages}
    ELSE {k \in TargetStarts(s, range, PreloadPages) : Has(s, k)}

\* rangeReady()
RangeReady(s, range) ==
    IF mode.cursor
    THEN \A i \in range.start .. (KnownEnd(s, range) - 1) : Covering(s, i) # 0
    ELSE \A k \in TargetStarts(s, range, 0) : Has(s, k) /\ Status(PageAt(s, k)) = "success"

\* The last index of a block, as far as the list is known to go.
LastIndex(s, target) == Least(target + PageSize, s.pager.total) - 1

\* Mutant: but for page zero of a chain, use alone decides what is retained.
ProtectedRoot(s, targets) == IF mode.cursor THEN {0} ELSE {}

\* protectedStarts()
ProtectedStarts(s, targets) ==
    IF ~mode.cursor THEN targets
    ELSE {0}
         \cup {s.pages[i].start : i \in {j \in DOMAIN s.pages : \E t \in targets :
                /\ Status(s.pages[j]) = "success"
                /\ s.pages[j].start < t + PageSize
                /\ s.pages[j].start + Len(s.pages[j].rows) > t}}
         \cup {NearestCheckpoint(s, LastIndex(s, t)) : t \in targets}

\* #resetDescendants
ResetDescendants(s) ==
    [DropAll(s, {s.pages[i].start : i \in DOMAIN s.pages} \ {0})
        EXCEPT !.pager.cursorAt = 0 :> 0, !.pager.terminal = Unknown]

\* What a cursor page's success says of page zero's identity, ...
SeenRoot(s, p) ==
    IF ~mode.cursor \/ p.start # 0 \/ ~p.fresh THEN s
    ELSE [(IF s.pager.rooted THEN ResetDescendants(s) ELSE s) EXCEPT !.pager.rooted = TRUE]

\* ... of the total, ...
SeenTotal(s, p) ==
    IF p.total = Unknown THEN s
    ELSE IF mode.cursor THEN [s EXCEPT !.pager.total = p.total, !.pager.terminal = p.total]
    ELSE [s EXCEPT !.pager.total = p.total]

\* ... and of the end of the list.
SeenEnd(s, p) ==
    LET end == p.start + Len(p.rows)
    IN  IF ~mode.cursor THEN s
        ELSE IF p.more THEN [s EXCEPT !.pager.cursorAt = (end :> Last(p.rows)) @@ @]
        ELSE [s EXCEPT !.pager.terminal = end,
                       !.pager.total = IF @ = Unknown THEN end ELSE @]

\* pageSucceeded()
PageSucceeded(s, p) == SeenEnd(SeenTotal(SeenRoot(s, p), p), p)

-----------------------------------------------------------------------------
(* The window query.                                                       *)

\* #scheduleSync, #scheduleNotify, #scheduleCleanup
Schedule(s, task) ==
    IF Contains(s.tasks.queue, task) THEN s ELSE [s EXCEPT !.tasks.queue = Append(@, task)]

Unread == [status |-> "unread", error |-> FALSE, fetching |-> FALSE]

\* getSnapshot() without its cache.
Compute(s, range) ==
    LET required == {PageAt(s, k) : k \in RequiredStarts(s, range)}
        fetching == \E k \in RequiredStarts(s, range) \cup FetchingStarts(s, range) :
                       PageAt(s, k).job.phase # "none"
    IN  IF \E p \in required : Status(p) = "error" \/ p.failed
        THEN [status |-> "error", error |-> TRUE, fetching |-> FALSE]
        ELSE IF ~RangeReady(s, range)
        THEN [status |-> "loading", error |-> FALSE, fetching |-> TRUE]
        ELSE [status |-> "success", error |-> FALSE, fetching |-> fetching]

\* getSnapshot()
Snapshot(s, range) ==
    IF s.readers.shown[range] # Unread THEN s.readers.shown[range] ELSE Compute(s, range)

Read(s, range) == [s EXCEPT !.readers.shown[range] = Snapshot(s, range)]

\* The version changes: snapshots are computed anew, and the listeners told.
Changed(s) == [s EXCEPT !.readers.shown = [r \in Ranges |-> Unread]]

\* Mutant: a read whose page failed is left waiting.
SettleReadyReads(s) ==
    [s EXCEPT !.readers.reads = [r \in Ranges |->
        IF @[r] = "pending" /\ RangeReady(s, r) THEN "settled" ELSE @[r]]]

\* #settleColdReads
SettleReads(s) ==
    [s EXCEPT !.readers.reads = [r \in Ranges |->
        IF /\ @[r] = "pending"
           /\ \/ \E k \in RequiredStarts(s, r) : Status(PageAt(s, k)) = "error"
              \/ RangeReady(s, r)
        THEN "settled" ELSE @[r]]]

\* #pageChanged.  A cursor page that has rows and whose query fails, or starts again
\* after a failure, has no pageInfo: pageSucceeded() throws, and nobody is told.
PageChanged(s, start) ==
    IF ~Has(s, start) THEN s
    ELSE LET p       == PageAt(s, start)
             orphan  == p.had /\ p.raw # "success"
             told    == IF p.raw = "success" THEN PageSucceeded(s, p) ELSE s
             noted   == [told EXCEPT !.pages[Index(told, start)].fresh = FALSE]
         IN  IF mode.cursor /\ orphan THEN s
             ELSE Schedule(Schedule(SettleReads(Changed(noted)), "sync"), "notify")

\* #queue and #fetching: the listeners hear of it in a microtask.
Queue(s, start) ==
    Schedule([s EXCEPT
        !.pages[Index(s, start)] = [@ EXCEPT !.dirty = FALSE,
                                             !.raw = IF @ = "success" THEN "success" ELSE "loading",
                                             !.job = [NoJob EXCEPT !.phase = "asked"]],
        !.tasks.notices = IF Contains(@, start) THEN @ ELSE Append(@, start)], "notice")

\* #ensurePage
EnsurePage(s, start) ==
    IF Has(s, start) THEN Touch(s, start)
    ELSE LET made == [s EXCEPT !.pages = Append(@, NewPage(start,
                                              IF mode.cursor THEN s.pager.cursorAt[start] ELSE 0))]
         IN  PageChanged(Queue(Touch(made, start), start), start)

\* #ensurePath
EnsurePath(s, target) ==
    IF s.pager.terminal # Unknown /\ target >= s.pager.terminal THEN s
    ELSE IF Covering(s, target) # 0 THEN Touch(s, s.pages[Covering(s, target)].start)
    ELSE EnsurePage(s, NearestCheckpoint(s, target))

\* #desiredStarts
Desired(s) ==
    UNION {TargetStarts(s, r, PreloadPages) :
              r \in s.readers.subs \cup {x \in Ranges : s.readers.reads[x] # "none"}}

\* sync()
Sync(s, targets) ==
    IF mode.cursor
    THEN FoldLeft(LAMBDA t, target : EnsurePath(t, LastIndex(t, target)),
                  EnsurePage(s, 0), Sorted(targets))
    ELSE FoldLeft(LAMBDA t, target : EnsurePage(t, target), s, Sorted(targets))

\* #evictPages: the least recently used of the others go while there are too many.
Evicted(s, protected) ==
    LET old    == SelectSeq(s.recent, LAMBDA k : k \notin protected)
        excess == IF Len(s.pages) > MaxPages THEN Len(s.pages) - MaxPages ELSE 0
    IN  ToSet(SubSeq(old, 1, Least(excess, Len(old))))

\* #syncPages
SyncPages(s) ==
    LET desired == Desired(s)
        synced  == Sync(s, desired)
        evicted == Evicted(synced, ProtectedStarts(synced, desired))
    IN  IF evicted = {} THEN synced
        ELSE Schedule(Changed(DropAll(synced, evicted)), "notify")

NoReads == [r \in Ranges |-> "none"]

NewPager == [cursorAt |-> 0 :> 0, terminal |-> Unknown, rooted |-> FALSE, total |-> Unknown]

Unused(s) == s.readers.subs = {} /\ s.readers.reads = NoReads

\* #cleanup
Cleanup(s) ==
    [DropAll(s, {s.pages[i].start : i \in DOMAIN s.pages}) EXCEPT
        !.pager = NewPager, !.readers.reads = NoReads,
        !.readers.shown = [r \in Ranges |-> Unread]]

\* Mutant: cleaning up is left to the last subscriber.
ReleaseReadOnly(s, range) == [s EXCEPT !.readers.reads[range] = "none"]

\* #releaseColdRead
ReleaseRead(s, range) ==
    LET released == [s EXCEPT !.readers.reads[range] = "none"]
    IN  IF Unused(released) THEN Schedule(released, "cleanup") ELSE released

Init ==
    /\ mode \in Modes
    /\ server \in Starts
    /\ news = FALSE
    /\ pages = << >>
    /\ recent = << >>
    /\ pager = NewPager
    /\ readers = [subs |-> {}, reads |-> NoReads, shown |-> [r \in Ranges |-> Unread],
                  cut |-> FALSE]
    /\ tasks = [queue |-> << >>, notices |-> << >>]
    /\ spent = [turns |-> 0, calls |-> 0]

-----------------------------------------------------------------------------
(* Steps of the application.                                               *)

Turn == spent.turns < MaxTurns /\ spent' = [spent EXCEPT !.turns = @ + 1]

Call == spent.calls < MaxCalls /\ spent' = [spent EXCEPT !.calls = @ + 1]

\* subscribe(): the reader's render has read the snapshot.
Subscribe(range) ==
    /\ range \notin readers.subs
    /\ LET joined == [Read(State, range) EXCEPT !.readers.subs = @ \cup {range}]
       IN  Become(SyncPages(IF readers.reads[range] = "settled"
                            THEN ReleaseRead(joined, range) ELSE joined))
    /\ Call
    /\ UNCHANGED <<mode, server, news>>

Unsubscribe(range) ==
    /\ range \in readers.subs
    /\ LET left == Schedule([State EXCEPT !.readers.subs = @ \ {range}], "sync")
       IN  Become(IF Unused(left) THEN Schedule(left, "cleanup") ELSE left)
    /\ Call
    /\ UNCHANGED <<mode, server, news>>

\* suspensePromise() of a reader that finds no rows.
Suspend(range) ==
    /\ range \notin readers.subs
    /\ readers.reads[range] = "none"
    /\ Snapshot(State, range).status = "loading"
    /\ Become(SettleReads(SyncPages([Read(State, range) EXCEPT !.readers.reads[range] = "pending"])))
    /\ Call
    /\ UNCHANGED <<mode, server, news>>

\* releaseColdStart(): the render that was suspended finds an error.
Release(range) ==
    /\ range \notin readers.subs
    /\ readers.reads[range] # "none"
    /\ Snapshot(State, range).status = "error"
    /\ Become(ReleaseRead(Read(State, range), range))
    /\ Call
    /\ UNCHANGED <<mode, server, news>>

\* evictAbandonedRead(): Figbird's cache of window queries is full.
EvictAbandoned ==
    /\ readers.subs = {} /\ readers.reads # NoReads
    /\ \A r \in Ranges : readers.reads[r] # "pending"
    /\ Become([Cleanup(State) EXCEPT !.readers.cut = @ \/ Contains(tasks.queue, "sync")])
    /\ Call
    /\ UNCHANGED <<mode, server, news>>

\* QueryStore.refetch() of a page's query.
RefetchPage(s, start) ==
    IF PageAt(s, start).job.phase # "none"
    THEN [s EXCEPT !.pages[Index(s, start)].dirty = TRUE] ELSE Queue(s, start)

\* refetch()
Refetch ==
    /\ Turn
    /\ pages # << >>
    /\ Become(FoldLeft(LAMBDA s, p : RefetchPage(s, p.start), State, pages))
    /\ UNCHANGED <<mode, server, news>>

-----------------------------------------------------------------------------
(* Microtasks, and the server.                                             *)

Quiet == tasks.queue = << >>

Notify(s) == FoldLeft(LAMBDA t, r : Read(t, r), s, SetToSeq(s.readers.subs))

Tell(s) ==
    FoldLeft(LAMBDA t, start : PageChanged(t, start),
             [s EXCEPT !.tasks.notices = << >>], s.tasks.notices)

Run(s, task) ==
    CASE task = "notice"  -> Tell(s)
      [] task = "sync"    -> SyncPages(s)
      [] task = "notify"  -> Notify(s)
      [] task = "cleanup" ->
           IF Unused(s)
           THEN [Cleanup(s) EXCEPT !.readers.cut = @ \/ Contains(s.tasks.queue, "sync")]
           ELSE s

\* The microtasks that wait, and those they schedule, a few at a time.
Microtasks ==
    /\ ~Quiet
    /\ Become(FoldLeft(LAMBDA s, n :
                  IF s.tasks.queue = << >> THEN s
                  ELSE Run([s EXCEPT !.tasks.queue = Tail(@)], Head(s.tasks.queue)),
              State, [n \in 1 .. 8 |-> n]))
    /\ UNCHANGED <<mode, server, news, spent>>

Change ==
    /\ Quiet
    /\ Turn
    /\ \E row \in Rows :
          server' = IF row \in server THEN server \ {row} ELSE server \cup {row}
    /\ news' = TRUE
    /\ UNCHANGED <<mode, pages, recent, pager, readers, tasks>>

\* The client is told of the change: page zero stands for a chain of cursors.
Event ==
    /\ Quiet /\ news
    /\ news' = FALSE
    /\ Become(FoldLeft(LAMBDA s, p : RefetchPage(s, p.start), State,
                       SelectSeq(pages, LAMBDA p : mode.cursor => p.start = 0)))
    /\ UNCHANGED <<mode, server, spent>>

\* What the server answers for a page, filling it as far as its rows go.
AnswerTo(p) ==
    LET all  == Sorted(server)
        rest == IF mode.cursor THEN SelectSeq(all, LAMBDA r : r > p.after)
                ELSE SubSeq(all, p.start + 1, Len(all))
        full == Least(PageSize, Len(rest))
    IN  [phase |-> "ok", rows |-> SubSeq(rest, 1, full), more |-> Len(rest) > full,
         total |-> IF mode.totals /\ (mode.cursor => p.start = 0) THEN Len(all) ELSE Unknown]

Answer(i) ==
    /\ Quiet /\ pages[i].job.phase = "asked"
    /\ pages' = [pages EXCEPT ![i].job = AnswerTo(pages[i])]
    /\ UNCHANGED <<mode, server, news, recent, pager, readers, tasks, spent>>

Fail(i) ==
    /\ Quiet /\ pages[i].job.phase = "asked"
    /\ Turn
    /\ pages' = [pages EXCEPT ![i].job = [NoJob EXCEPT !.phase = "failed"]]
    /\ UNCHANGED <<mode, server, news, recent, pager, readers, tasks>>

\* Mutant: the page marked to be fetched again is not.
LandedClean(s, start) == PageChanged(s, start)

\* #fetched and #fetchFailed end with the fetch a dirty query is due.
Landed(s, start) ==
    LET told == PageChanged(s, start)
    IN  IF Has(told, start) /\ PageAt(told, start).dirty THEN Queue(told, start) ELSE told

Arrive(i) ==
    LET p   == pages[i]
        job == p.job
        new == IF job.phase = "ok"
               THEN [p EXCEPT !.raw = "success", !.had = TRUE, !.failed = FALSE, !.fresh = TRUE,
                              !.rows = job.rows, !.more = job.more, !.total = job.total,
                              !.job = NoJob]
               ELSE [p EXCEPT !.raw = "error", !.failed = p.had, !.job = NoJob]
    IN  /\ Quiet /\ job.phase \in {"ok", "failed"}
        /\ Become(Landed([State EXCEPT !.pages[i] = new], p.start))
        /\ UNCHANGED <<mode, server, news, spent>>

Next ==
    \/ \E r \in Ranges : Subscribe(r) \/ Unsubscribe(r) \/ Suspend(r) \/ Release(r)
    \/ EvictAbandoned
    \/ Refetch
    \/ Microtasks
    \/ Change
    \/ Event
    \/ \E i \in DOMAIN pages : Answer(i)
    \/ \E i \in DOMAIN pages : Fail(i)
    \/ \E i \in DOMAIN pages : Arrive(i)

Spec == Init /\ [][Next]_vars

Asked == Quiet /\ \E i \in DOMAIN pages : pages[i].job.phase = "asked"

Answered == Quiet /\ \E i \in DOMAIN pages : pages[i].job.phase \in {"ok", "failed"}

\* Microtasks run.  Requests are answered and answers arrive, however often the
\* application's calls come first.
FairSpec ==
    /\ Spec
    /\ []<>Quiet \/ []<><<Microtasks>>_vars
    /\ <>[](~Asked) \/ []<><<\E i \in DOMAIN pages : Answer(i) \/ Fail(i)>>_vars
    /\ <>[](~Answered) \/ []<><<\E i \in DOMAIN pages : Arrive(i)>>_vars

-----------------------------------------------------------------------------
AtRest == Quiet /\ ~news /\ \A i \in DOMAIN pages : pages[i].job = NoJob

NoErrors == \A i \in DOMAIN pages : pages[i].raw = "success"

\* #rebuildData: later pages override earlier ones.
RowAt(index) ==
    LET holding == {i \in DOMAIN pages : /\ Status(pages[i]) = "success"
                                         /\ pages[i].start <= index
                                         /\ index < pages[i].start + Len(pages[i].rows)}
        latest  == CHOOSE i \in holding : \A j \in holding : pages[j].start <= pages[i].start
    IN  IF holding = {} THEN 0 ELSE pages[latest].rows[index - pages[latest].start + 1]

\* A service that reports no totals has its list's first end remembered as the total.
TotalIsStale == pager.total # Unknown /\ pager.total < Cardinality(server)

Served(r) ==
    /\ readers.shown[r].status = "success"
    /\ \A i \in r.start .. (Least(r.end, Cardinality(server)) - 1) :
          RowAt(i) = Sorted(server)[i + 1]

\* When everything has arrived without an error, every reader has the rows the server
\* has at the indexes it asks for; of an offset service, it is told of a failure.
ReadersAreServed ==
    AtRest => \A r \in readers.subs :
        /\ NoErrors /\ ~TotalIsStale => Served(r)
        /\ (~mode.cursor /\ \E k \in RequiredStarts(State, r) : PageAt(State, k).failed) =>
               readers.shown[r].error

\* Retention never takes a page an active reader needs: whoever comes or goes, and
\* whatever is synchronised after it, a range that is complete stays so, unless the list
\* is found to end elsewhere.
EvictionSparesReaders ==
    [][(pager' = pager /\ (~Quiet \/ readers'.subs # readers.subs)) =>
          \A r \in readers.subs \cap readers'.subs :
             RangeReady(State, r) => RangeReady(State, r)']_vars

\* A query without readers keeps no page, unless it was cleaned up while a
\* synchronisation waited.
NothingLeftBehind ==
    (Quiet /\ Unused(State) /\ ~readers.cut) => pages = << >>

\* The pages are those the readers ask for, in content and in number.
PagesFollowReaders == ReadersAreServed /\ NothingLeftBehind

\* A render that suspended is resumed.
ColdReadsSettle ==
    \A r \in Ranges : []<>(readers.reads[r] # "pending")
=============================================================================
