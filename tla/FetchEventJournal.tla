------------------------- MODULE FetchEventJournal -------------------------
(***************************************************************************)
(* The event journal a fetch response is rebased over                      *)
(* (lib/core/fetchRebase.ts, class FetchEventJournal).                     *)
(*                                                                         *)
(* All fetches of a service share ONE sequence of cache events; a fetch    *)
(* holds an index into it.  Events no safe fetch still needs are dropped,  *)
(* and a fetch that would need more than MaxEvents of them is marked       *)
(* unsafe, so the sequence stays bounded.  The class keeps one journal per *)
(* service and no operation touches the journal of another: the module is  *)
(* the journal of one service.  A journal without an active fetch is       *)
(* deleted by the code; here it is the empty one, on which every operation *)
(* behaves the same.                                                       *)
(*                                                                         *)
(* record() handles a batch one event at a time, and every prefix of a     *)
(* batch is a batch, so an action records one event.                       *)
(***************************************************************************)
EXTENDS Naturals, Sequences, FiniteSets

CONSTANTS
    Cursor,     \* cursor ids; nextCursorId never hands out an id twice
    Event,      \* cache events of the service
    MaxEvents   \* the journal limit, MAX_FETCH_JOURNAL_EVENTS in production

ASSUME MaxEventsAssumption == MaxEvents \in Nat \ {0}

VARIABLES
    events,     \* journal.events
    begun,      \* the cursors handed out so far
    active,     \* keys of journal.activeFetches
    eventIndex, \* ActiveFetch.eventIndex, counted from 0 as in the code
    overflowed  \* ActiveFetch.overflowed

vars == <<events, begun, active, eventIndex, overflowed>>

TypeOK ==
    /\ events \in Seq(Event)
    /\ begun \in SUBSET Cursor
    /\ active \in SUBSET begun
    /\ eventIndex \in [Cursor -> Nat]
    /\ overflowed \in [Cursor -> BOOLEAN]

Init ==
    /\ events = << >>
    /\ begun = {}
    /\ active = {}
    /\ eventIndex = [c \in Cursor |-> 0]
    /\ overflowed = [c \in Cursor |-> FALSE]

-----------------------------------------------------------------------------
\* The fetches in flight whose history is still complete.
Safe == { c \in active : ~overflowed[c] }

\* What is left of the journal past its first n events.
Suffix(journal, n) == SubSeq(journal, n + 1, Len(journal))

\* How long a prefix of the journal no safe fetch needs.
FirstRequiredIndex(safe, index) ==
    CHOOSE n \in { index[c] : c \in safe } : \A c \in safe : n <= index[c]

\* Mutant of #compact: no fetch is shifted.
CompactedUnshifted(journal, safe, index) ==
    IF safe = {}
    THEN [events |-> << >>, index |-> index]
    ELSE LET n == CHOOSE n \in { index[c] : c \in safe } : \A c \in safe : n <= index[c]
         IN  [events |-> Suffix(journal, n), index |-> index]

\* #compact: drop that prefix and shift the indices of the safe fetches.
Compacted(journal, safe, index) ==
    IF safe = {}
    THEN [events |-> << >>, index |-> index]
    ELSE LET n == FirstRequiredIndex(safe, index)
         IN  [events |-> Suffix(journal, n),
              index  |-> [c \in Cursor |-> IF c \in safe THEN index[c] - n
                                                         ELSE index[c]]]

-----------------------------------------------------------------------------
\* begin(): an existing journal is compacted first; the new cursor points at
\* its end.
Begin(c) ==
    /\ c \notin begun
    /\ begun' = begun \union {c}
    /\ active' = active \union {c}
    /\ LET kept == Compacted(events, Safe, eventIndex)
       IN  /\ events' = kept.events
           /\ eventIndex' = [kept.index EXCEPT ![c] = Len(kept.events)]
    /\ overflowed' = [overflowed EXCEPT ![c] = FALSE]

\* Mutant: one event too late.
LateByOne(length) == { c \in Safe : length - eventIndex[c] > MaxEvents + 1 }

\* Mutant: when one fetch overflows, all do.
LateTogether(length) ==
    IF \E c \in Safe : length - eventIndex[c] > MaxEvents THEN Safe ELSE {}

\* The safe fetches that cannot follow a journal of this length.
Late(length) == { c \in Safe : length - eventIndex[c] > MaxEvents }

\* record(): dropped when no safe fetch is listening; a fetch the event leaves
\* more than MaxEvents behind overflows, and only then is the journal compacted.
Record(e) ==
    /\ Safe # {}
    /\ LET journal == Append(events, e)
           late    == Late(Len(journal))
           kept    == IF late = {}
                      THEN [events |-> journal, index |-> eventIndex]
                      ELSE Compacted(journal, Safe \ late, eventIndex)
       IN  /\ events' = kept.events
           /\ eventIndex' = kept.index
           /\ overflowed' = [c \in Cursor |-> overflowed[c] \/ c \in late]
    /\ UNCHANGED <<begun, active>>

\* end(): the last fetch takes the journal with it, any other compacts it.
End(c) ==
    /\ c \in active
    /\ active' = active \ {c}
    /\ LET kept == Compacted(events, Safe \ {c}, eventIndex)
       IN  /\ events' = kept.events
           /\ eventIndex' = kept.index
    /\ UNCHANGED <<begun, overflowed>>

Next ==
    \/ \E c \in Cursor : Begin(c) \/ End(c)
    \/ \E e \in Event : Record(e)

Spec == Init /\ [][Next]_vars

-----------------------------------------------------------------------------
\* read(): what a response is rebased over.
Read(c) ==
    IF c \notin active
    THEN [events |-> << >>, overflowed |-> TRUE]
    ELSE [events |-> IF overflowed[c] THEN << >>
                     ELSE Suffix(events, eventIndex[c]),
          overflowed |-> overflowed[c]]

\* Every cursor reads exactly what it would read from a log of its own:
\* sharing, compaction and the overflow of OTHER fetches are invisible to it.
FetchLogSpec == INSTANCE FetchLog WITH view <- [c \in Cursor |-> Read(c)]

ImplementsFetchLog == FetchLogSpec!Spec

\* However many fetches overlap, and however long one of them hangs, the
\* journal never retains more events than the limit ("Bounded event history").
JournalIsBounded == Len(events) <= MaxEvents

\* Everything retained is needed: a non-empty journal starts at the cursor of
\* some fetch that can still use it, so a hung fetch that overflowed, or one
\* that ended, holds on to nothing.
NothingRetainedInVain == events # << >> => \E c \in Safe : eventIndex[c] = 0

\* No safe fetch points past the end of the journal or needs more than the
\* limit: with the two invariants above, what induction needs.
Reach == \A c \in Safe : /\ eventIndex[c] <= Len(events)
                         /\ Len(events) - eventIndex[c] <= MaxEvents

IInv == TypeOK /\ Reach /\ NothingRetainedInVain
=============================================================================
