--------------------------------- MODULE Hooks ---------------------------------
(***************************************************************************)
(* What React's components hold of a client, side by side: the mutation    *)
(* queues they keep (MutationQueueRetention), the queries they read        *)
(* (QueryRefs) and the windows they read (WindowRefs).  The three share no *)
(* state, so that a behaviour is one of one of them: which is chosen at    *)
(* first, and the others stay as they begin.                               *)
(***************************************************************************)
EXTENDS MutationQueueRetention

CONSTANTS
    Keys,        \* hashes, of queries and of window queries
    Readers,     \* the components that read queries
    Tagged,      \* those that read with suspense: false
    Many,        \* those that use useQueries
    QueryIds,    \* names for references
    Windowed,    \* the components that read windows
    Ranges,      \* the ranges they ask for
    Capacity,    \* MAX_WINDOW_QUERY_CACHE_SIZE
    WindowIds,   \* names for references
    MaxReads     \* bound: what users start

VARIABLES
    part,
    cache, refs, store, pins, readers, thrown, due, done, orphans, lost,
    wcache, wrefs, wreaders, wdone, wlost

queryVars == <<cache, refs, store, pins, readers, thrown, due, done, orphans, lost>>
windowVars == <<wcache, wrefs, wreaders, wdone, wlost>>

hooksVars == <<part, vars, queryVars, windowVars>>

Queries == INSTANCE QueryRefs WITH Ids <- QueryIds, MaxCalls <- MaxReads, spent <- done

Windows == INSTANCE WindowRefs WITH
    Readers <- Windowed, Tagged <- {}, Ids <- WindowIds, MaxCalls <- MaxReads,
    cache <- wcache, refs <- wrefs, readers <- wreaders, spent <- wdone, lost <- wlost

ASSUME HooksAssumption == Queries!RefsAssumption /\ Windows!WindowRefsAssumption

-----------------------------------------------------------------------------

HooksInit ==
    /\ part \in {"queues", "queries", "windows"}
    /\ Init /\ Queries!Init /\ Windows!Init

HooksNext ==
    \/ part = "queues" /\ Next /\ UNCHANGED <<part, queryVars, windowVars>>
    \/ part = "queries" /\ Queries!Next /\ UNCHANGED <<part, vars, windowVars>>
    \/ part = "windows" /\ Windows!Next /\ UNCHANGED <<part, vars, queryVars>>

\* The fairness of each part: none of it asks anything of a part that has not begun.
HooksSpec ==
    /\ HooksInit /\ [][HooksNext]_hooksVars
    /\ Fairness /\ Queries!Fairness /\ Windows!Fairness

-----------------------------------------------------------------------------
(* Properties.                                                             *)

\* Components that read the same query share one reference to it, whether it is a
\* query or a window: no effect, timer or eviction leaves one of them with a
\* reference the cache no longer knows (figbird.ts:398, figbird.ts:483).
ReadersShare == Queries!ReadersShare /\ Windows!ReadersShare

\* What a render began and gave up does not stay behind (useQuery.ts:343,
\* relationalQuery.ts:1643), and what a suspended render still waits for is not
\* taken from it (windowQuery.ts:320).
ColdReadsAreKept == Queries!NothingStaysBehind /\ Windows!ReadsAreKept

\* Evicting, interning, subscribing and tearing down do not chase each other for
\* ever (figbird.ts:394), suspended readers of queries and windows are woken, and
\* no queue stays registered for ever without an owner (figbird.ts:829).
ComesToRest == UnownedQueuesLeave /\ Queries!ComesToRest /\ Windows!ReadersArrive

=============================================================================
