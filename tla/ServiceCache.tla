----------------------------- MODULE ServiceCache -----------------------------
(***************************************************************************)
(* The cache of a service next to what it does not see in order: writes    *)
(* that take no lane, with the hooks that tell of writes                   *)
(* (UnkeyedMutations), and local answers over a materialized service       *)
(* (MaterializedService).  The two share no state, so that a behaviour is  *)
(* one of one of them: which is chosen at first, and the other stays as it *)
(* begins.                                                                 *)
(***************************************************************************)
EXTENDS UnkeyedMutations

CONSTANTS Id, Key, Starts, PageSize, Retry, Cases  \* MaterializedService

VARIABLES
    part,
    asked, tables, link, events, store, top, left, past

materializedVars == <<asked, tables, link, events, store, top, left, past>>

cacheVars == <<part, vars, materializedVars>>

Materialized == INSTANCE MaterializedService WITH server <- tables, wire <- events

ASSUME ServiceCacheAssumption == Materialized!MaterializedServiceAssumption

-----------------------------------------------------------------------------

\* What the variables of a materialized service are while there is none.
Nothing == "nothing"

CacheInit ==
    /\ Init
    /\ \/ part = "materialized" /\ Materialized!Init /\ server = [id \in Ids |-> 0]
       \/ /\ part = "unkeyed"
          /\ asked = Nothing /\ tables = Nothing /\ link = Nothing /\ events = Nothing
          /\ store = Nothing /\ top = Nothing /\ left = Nothing /\ past = Nothing

CacheNext ==
    \/ part = "materialized" /\ Materialized!Next /\ UNCHANGED <<part, vars>>
    \/ part = "unkeyed" /\ Next /\ UNCHANGED <<part, materializedVars>>

CacheSpec == CacheInit /\ [][CacheNext]_cacheVars

-----------------------------------------------------------------------------
(* Properties.                                                             *)

\* A query that is answered from the cache of a materialized service shows what the
\* cache says: whatever changes the cache - an event, an answer, the difference of a
\* complete set - changes it too (queryStore.ts:2084).
AnswersAgree == part = "materialized" => Materialized!AnswersAgree

\* When nothing is under way a materialized service has the rows of the server, in
\* their latest versions, whatever events, page by page reading, outages and failed
\* requests did meanwhile (queryStore.ts:1655).
CacheIsComplete == part = "materialized" => Materialized!CacheIsComplete

=============================================================================
