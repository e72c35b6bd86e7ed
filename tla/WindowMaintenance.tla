------------------------- MODULE WindowMaintenance -------------------------
(***************************************************************************)
(* How one realtime event changes one loaded find query                    *)
(* (lib/core/windowMaintenance.ts), as pure operators.  A query is what it *)
(* asks for - [skip, limit], ordered when it has a $sort or the            *)
(* application a defaultSort, exact when it is local-exact: no window,     *)
(* complete for its filter - and what it shows: its rows and total.        *)
(*                                                                         *)
(* A row is [id, rev, key]: the server revision it is and the value of its *)
(* sort field, 0 when the query's filter does not match it.  The           *)
(* comparator the client builds from $sort sees the key only; the server   *)
(* breaks ties by id.                                                      *)
(***************************************************************************)
EXTENDS Integers, Sequences, SequencesExt, FiniteSets

None == [id |-> 0, rev |-> 0, key |-> 0]

\* The query's filter matches it.
Member(row) == row.key # 0

\* isItemStale(current, next) for rows with a timestamp.
IsItemStale(current, next) == current # None /\ next.rev < current.rev

IdsOf(rows) == { rows[i].id : i \in DOMAIN rows }

HasItem(rows, id) == id \in IdsOf(rows)

Without(rows, id) == SelectSeq(rows, LAMBDA row : row.id # id)

Replaced(rows, item) == [i \in DOMAIN rows |-> IF rows[i].id = item.id THEN item ELSE rows[i]]

\* findInsertIndex: how many rows do not sort after the item, on sorted rows.
InsertIndex(rows, item) ==
    LET after == { i \in DOMAIN rows : item.key < rows[i].key }
    IN  IF after = {} THEN Len(rows) ELSE (CHOOSE i \in after : \A j \in after : i <= j) - 1

Inserted(rows, item, i) == SubSeq(rows, 1, i) \o << item >> \o SubSeq(rows, i + 1, Len(rows))

\* An event as applyEventsToService leaves it: [type, item, previous], previous
\* being the cached row or None.
Matches(event) == event.type # "removed" /\ Member(event.item)

WasMember(event) ==
    IF event.previous # None
    THEN Member(event.previous)
    ELSE event.type = "removed" /\ Member(event.item)

-----------------------------------------------------------------------------
\* The answers of mergeEventIntoWindow.
Refetch == [action |-> "refetch"]
Noop == [action |-> "noop"]
Merge(rows, moved) == [action |-> "merge", rows |-> rows, moved |-> moved]

\* Mutant: a window is full when it overflows.
Overfull(q) == Len(q.rows) > q.limit

Full(q) == Len(q.rows) >= q.limit

\* An invisible member provably lies past the visible run.
BeyondWindow(q, item) ==
    \/ q.skip = 0
    \/ q.ordered /\ q.rows # << >> /\ item.key > Last(q.rows).key

\* An invisible row that is not in the result set afterwards.
MergeInvisibleLeaver(q, event) ==
    LET place == IF event.previous # None THEN event.previous ELSE event.item
    IN  CASE ~WasMember(event)       -> Noop
          [] BeyondWindow(q, place)  -> Merge(q.rows, -1)
          [] OTHER                   -> Refetch

\* metaOp: the total grows for a created row and for one whose cached version did
\* not match.
Growth(event) ==
    IF event.type = "created" \/ (event.previous # None /\ ~WasMember(event)) THEN 1 ELSE 0

\* The total moves, the visible rows do not.
TotalOnly(q, event) == IF Growth(event) = 0 THEN Noop ELSE Merge(q.rows, Growth(event))

\* An ordered, non-empty window takes in a row that was not visible: before the
\* page, past it, or strictly inside the run, evicting the overflow.
MergeAtPosition(q, event) ==
    LET i      == InsertIndex(q.rows, event.item)
        data   == Inserted(q.rows, event.item, i)
        atEnd  == i = Len(q.rows)
    IN  IF i = 0 /\ q.skip > 0 THEN Refetch
        ELSE IF ~atEnd
        THEN Merge(IF Len(data) > q.limit THEN Front(data) ELSE data, Growth(event))
        ELSE IF ~Full(q) THEN Merge(data, Growth(event))
        ELSE IF event.item.key = Last(q.rows).key THEN Refetch
        ELSE TotalOnly(q, event)

\* A row that was not visible belongs to the result set now.
MergeEntrant(q, event) ==
    CASE q.skip > 0 /\ event.previous = None /\ event.type # "created" -> Refetch
      [] WasMember(event) /\ ~BeyondWindow(q, event.previous)          -> Refetch
      [] OTHER ->
           IF q.limit = 0 THEN TotalOnly(q, event)
           ELSE IF q.ordered /\ q.rows # << >> THEN MergeAtPosition(q, event)
           ELSE IF q.skip > 0 \/ Full(q) THEN Refetch
           ELSE Merge(Append(q.rows, event.item), Growth(event))

\* A visible row that still matches: in place, or re-placed within the run.
MergeVisible(q, event) ==
    LET item == event.item
        old  == q.rows[CHOOSE i \in DOMAIN q.rows : q.rows[i].id = item.id]
        rest == Without(q.rows, item.id)
        i    == InsertIndex(rest, item)
    IN  IF ~q.ordered \/ old.key = item.key THEN Merge(Replaced(q.rows, item), 0)
        ELSE IF rest = << >> THEN Merge(<< item >>, 0)
        ELSE IF (i = 0 /\ q.skip > 0) \/ (i = Len(rest) /\ Full(q)) THEN Refetch
        ELSE Merge(Inserted(rest, item, i), 0)

MergeEventIntoWindow(q, event) ==
    LET visible == HasItem(q.rows, event.item.id)
    IN  CASE ~visible /\ ~Matches(event) -> MergeInvisibleLeaver(q, event)
          [] ~visible /\ Matches(event)  -> MergeEntrant(q, event)
          [] visible /\ Matches(event)   -> MergeVisible(q, event)
          [] visible /\ ~Matches(event)  ->
               IF Full(q) THEN Refetch ELSE Merge(Without(q.rows, event.item.id), -1)

\* Mutant: every matching event counts as an arrival.
MergeCountingArrivals(q, event) ==
    IF Matches(event)
    THEN Merge(IF HasItem(q.rows, event.item.id) THEN Replaced(q.rows, event.item)
               ELSE Append(q.rows, event.item), 1)
    ELSE IF HasItem(q.rows, event.item.id)
    THEN Merge(Without(q.rows, event.item.id), -1)
    ELSE Noop

\* The tail of applyMergeEventToQuery: a local-exact find takes every event.
MergeEventIntoExact(q, event) ==
    LET visible == HasItem(q.rows, event.item.id)
    IN  CASE visible /\ Matches(event)   -> Merge(Replaced(q.rows, event.item), 0)
          [] visible /\ ~Matches(event)  -> Merge(Without(q.rows, event.item.id), -1)
          [] ~visible /\ Matches(event)  -> Merge(Append(q.rows, event.item), 1)
          [] ~visible /\ ~Matches(event) -> Noop

-----------------------------------------------------------------------------
\* applyMergeEventToQuery, and its answer applied.  itemRemoved never counts
\* below zero.
MergeEvent(q, event) ==
    IF q.exact THEN MergeEventIntoExact(q, event) ELSE MergeEventIntoWindow(q, event)

Counted(total, moved) == IF total + moved < 0 THEN 0 ELSE total + moved

Applied(q, result) ==
    IF result.action = "merge"
    THEN [q EXCEPT !.rows = result.rows, !.total = Counted(@, result.moved)]
    ELSE q

\* applyVisibleEventEffect: what an event does to a visible row by value.
VisibleEffect(q, event, cached) ==
    LET item == IF cached # None THEN cached ELSE event.item
    IN  IF ~HasItem(q.rows, item.id) THEN q
        ELSE IF event.type = "removed"
        THEN Applied(q, Merge(Without(q.rows, item.id), -1))
        ELSE [q EXCEPT !.rows = Replaced(@, item)]

\* One event of replayFetchedQueryFromEvents: merged when provable, else applied
\* by value to a server-maintained window.
Replayed(q, event, cached) ==
    LET result == MergeEvent(q, event)
    IN  IF result.action = "merge" \/ q.exact
        THEN Applied(q, result)
        ELSE VisibleEffect(q, event, cached)

-----------------------------------------------------------------------------
\* planFetchRebase: journalled events of a row the response is provably newer than
\* are dropped.
Effective(journal, response) ==
    LET superseded(id) ==
            LET last == SelectLastInSeq(journal, LAMBDA e : e.item.id = id)
            IN  \E i \in DOMAIN response :
                   response[i].id = id /\ IsItemStale(response[i], journal[last].item)
    IN  SelectSeq(journal, LAMBDA e : ~superseded(e.item.id))

Journalled(events) == { events[i].item.id : i \in DOMAIN events }

LatestFor(events, id) == events[SelectLastInSeq(events, LAMBDA e : e.item.id = id)]

\* rebaseResponseData: the rows of a response as they are shown.  A row an event
\* came for, or the cache has a newer version of, shows what is cached; such a
\* version is dropped when a local-exact query does not match it.
RebasedRows(response, events, entities, exact) ==
    LET rebased(row) ==
            LET cached == entities[row.id]
            IN  IF row.id \in Journalled(events)
                THEN IF LatestFor(events, row.id).type = "removed" \/ cached = None
                     THEN row ELSE cached
                ELSE IF ~IsItemStale(cached, row) THEN row
                ELSE IF exact /\ ~Member(cached) THEN None ELSE cached
    IN  SelectSeq([i \in DOMAIN response |-> rebased(response[i])], LAMBDA row : row # None)

\* The cache takes the rows of a response no event came for, unless it is newer.
Upserted(entities, rows, events) ==
    [id \in DOMAIN entities |->
        IF HasItem(rows, id) /\ id \notin Journalled(events)
        THEN LET row == rows[CHOOSE i \in DOMAIN rows : rows[i].id = id]
             IN  IF IsItemStale(entities[id], row) THEN entities[id] ELSE row
        ELSE entities[id]]

-----------------------------------------------------------------------------
\* The server's side: the result set in the server's order, and a query's page.
\* A query without an order is served in id order, which no patch changes.
ServerBefore(q, a, b) ==
    \/ q.ordered /\ a.key < b.key
    \/ (q.ordered => a.key = b.key) /\ a.id < b.id

ResultSet(server) == { server[id] : id \in { i \in DOMAIN server : Member(server[i]) } }

ServerPage(q, server) ==
    LET all  == SetToSortSeq(ResultSet(server), LAMBDA a, b : ServerBefore(q, a, b))
        last == IF Len(all) < q.skip + q.limit THEN Len(all) ELSE q.skip + q.limit
    IN  IF q.exact THEN all ELSE SubSeq(all, q.skip + 1, last)
=============================================================================
