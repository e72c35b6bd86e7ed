--------------------------- MODULE MutationLanes ---------------------------
(***************************************************************************)
(* The mutation lane of one entity (lib/core/mutationLanes.ts): the state  *)
(* transitions of the class MutationLanes, as operators on a lane record.  *)
(* A specification keeps one lane per entity and decides when each         *)
(* transition happens.                                                     *)
(*                                                                         *)
(* An item is what the properties tell apart of a row: the server revision *)
(* it comes from (its updatedAt) and the local intents folded over it, in  *)
(* order.  A row invented by an optimistic create has no revision, so no   *)
(* timestamp: rev 0.  "update" and "patch" take the same path through this *)
(* file; both are "patch" here.                                            *)
(***************************************************************************)
EXTENDS Naturals, Sequences, SequencesExt

Absent == [rev |-> 0, intents |-> << >>]

\* A row as the server holds it.
Row(rev) == [rev |-> rev, intents |-> << >>]

Present(item) == item # Absent

\* FeathersAdapter.isItemStale: next is older than current; a missing
\* timestamp on either side is never stale.
IsItemStale(current, next) ==
    /\ current.rev # 0
    /\ next.rev # 0
    /\ next.rev < current.rev

-----------------------------------------------------------------------------
\* Entries are records with at least [mutation, method, optimistic].

\* #applyIntent.  A patch of a row that is not there, whose payload names no
\* id, shows nothing.
ApplyIntent(item, entry) ==
    CASE entry.method = "create" -> [rev |-> 0, intents |-> << entry.mutation >>]
      [] entry.method = "remove" -> Absent
      [] entry.method = "patch"  ->
            IF Present(item)
            THEN [item EXCEPT !.intents = Append(@, entry.mutation)]
            ELSE Absent

\* The fold of #reproject: the optimistic entries over the confirmed base.
Project(base, entries) ==
    LET item[n \in 0 .. Len(entries)] ==
          IF n = 0 THEN base
          ELSE IF entries[n].optimistic THEN ApplyIntent(item[n - 1], entries[n])
          ELSE item[n - 1]
    IN  item[Len(entries)]

\* No lane: the map has no entry for the entity.
NoLane == [open |-> FALSE, base |-> Absent, visible |-> Absent, seen |-> FALSE,
           entries |-> << >>, running |-> FALSE, owed |-> FALSE]

\* #reproject; seen is whether lastPresent has ever been set.
Reproject(lane) ==
    LET next == Project(lane.base, lane.entries)
    IN  [lane EXCEPT !.visible = next, !.seen = @ \/ Present(next)]

\* ensure(): the row cached when the first mutation arrives becomes the base.
Ensure(lane, cached) ==
    IF lane.open
    THEN lane
    ELSE [NoLane EXCEPT !.open = TRUE, !.base = cached, !.visible = cached,
                        !.seen = Present(cached)]

Enqueue(lane, entry) == Reproject([lane EXCEPT !.entries = Append(@, entry)])

\* cancel(): the entry of a mutation, wherever it stands, leaves the fold.
Cancel(lane, m) ==
    LET index == SelectInSeq(lane.entries, LAMBDA e : e.mutation = m)
    IN  IF index = 0 THEN lane
        ELSE Reproject([lane EXCEPT !.entries = RemoveAt(@, index)])

\* takeNext(): one request of an entity at a time.
CanTake(lane) == ~lane.running /\ lane.entries # << >>

TakeNext(lane) == [lane EXCEPT !.running = TRUE]

\* #setBase
SetBase(lane, type, item) ==
    [lane EXCEPT !.base = IF type = "removed" THEN Absent ELSE item,
                 !.seen = @ \/ type # "removed"]

EventType(method) ==
    CASE method = "create" -> "created"
      [] method = "patch"  -> "patched"
      [] method = "remove" -> "removed"

\* The position of the first create among the entries, one past the end
\* without one.
FirstCreate(entries) ==
    LET creates == { i \in DOMAIN entries : entries[i].method = "create" }
    IN  IF creates = {} THEN Len(entries) + 1
        ELSE CHOOSE i \in creates : \A j \in creates : i <= j

\* Mutant: a failed create dooms nothing.
DoomedByRemoves(entry, ok, rest) ==
    CASE ~ok /\ entry.method = "remove" -> [from |-> FirstCreate(rest), to |-> Len(rest)]
      [] ok /\ entry.method = "remove"  -> [from |-> 1, to |-> FirstCreate(rest) - 1]
      [] OTHER                          -> [from |-> 1, to |-> 0]

\* settle(): the entries behind the settled one that are cancelled with it, from one
\* position to another.  A failed create takes everything queued on the identity, a
\* failed remove what follows the next create, a successful remove what precedes it.
Doomed(entry, ok, rest) ==
    CASE ~ok /\ entry.method = "create" -> [from |-> 1, to |-> Len(rest)]
      [] ~ok /\ entry.method = "remove" -> [from |-> FirstCreate(rest), to |-> Len(rest)]
      [] ok /\ entry.method = "remove"  -> [from |-> 1, to |-> FirstCreate(rest) - 1]
      [] OTHER                          -> [from |-> 1, to |-> 0]

Cancelled(entry, ok, rest) ==
    LET doomed == Doomed(entry, ok, rest)
    IN  { rest[i].mutation : i \in doomed.from .. doomed.to }

\* Array.splice: what is left without those.
Spared(entry, ok, rest) ==
    LET doomed == Doomed(entry, ok, rest)
    IN  SubSeq(rest, 1, doomed.from - 1) \o SubSeq(rest, doomed.to + 1, Len(rest))

\* Mutant of settle(): the rest is not projected anew.
SettleUnprojected(lane, ok, item) ==
    LET entry   == Head(lane.entries)
        settled == [lane EXCEPT !.entries = Spared(entry, ok, Tail(@)), !.running = FALSE]
    IN  IF ok THEN SetBase(settled, EventType(entry.method), item) ELSE settled

\* settle() of the running entry, the head of the lane: an acknowledged item
\* becomes the base, a failed intent just leaves the fold.
Settle(lane, ok, item) ==
    LET entry   == Head(lane.entries)
        settled == [lane EXCEPT !.entries = Spared(entry, ok, Tail(@)), !.running = FALSE]
    IN  Reproject(IF ok THEN SetBase(settled, EventType(entry.method), item) ELSE settled)

\* Mutant: patches are kept out of a lane that has a base.
AcceptsUnlessKnown(lane, type, item) == ~ (type = "patched" /\ Present(lane.base))

\* acceptAuthoritative(): whether the staleness guard lets the item in, and the
\* lane with it as its base.
Accepts(lane, type, item) ==
    ~ (type = "patched" /\ Present(lane.base) /\ IsItemStale(lane.base, item))

AcceptAuthoritative(lane, type, item) == Reproject(SetBase(lane, type, item))

\* deferQueryIds / deferProjection: reconciliations wait for the lane to drain.
Defer(lane) == [lane EXCEPT !.owed = TRUE]

\* overlayEvents(): the lane has an optimistic projection a fetch must respect.
HasOverlay(lane) ==
    /\ lane.open
    /\ \E i \in DOMAIN lane.entries : lane.entries[i].optimistic
    /\ Present(lane.visible) \/ lane.seen

-----------------------------------------------------------------------------
\* #projectionEvent of the store: the cache event a change of projection asks
\* for, as a sequence of at most one.  The code compares references: a change
\* is seen when the operation installed a new base object, or when a patch was
\* folded into a new one, even if the contents are equal.
IsFolded(item) == Len(item.intents) > (IF item.rev = 0 THEN 1 ELSE 0)

ProjectionEvents(id, previous, next, newBase) ==
    LET event(type, item) ==
          << [mode |-> "optimistic", id |-> id, type |-> type, item |-> item] >>
    IN  IF Present(previous) /\ Present(next)
        THEN IF previous # next \/ (newBase /\ next.intents = << >>) \/ IsFolded(next)
             THEN event("patched", next) ELSE << >>
        ELSE IF Present(next) THEN event("created", next)
        ELSE IF Present(previous) THEN event("removed", previous)
        ELSE << >>
=============================================================================
