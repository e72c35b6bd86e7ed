----------------------------- MODULE WindowQuery -----------------------------
(***************************************************************************)
(* One subscribed find query kept current by merging (realtime: 'merge'):  *)
(* its rows, the entity cache under it, the realtime events, and the       *)
(* fetches with which it reconciles (lib/core/windowMaintenance.ts,        *)
(* fetchRebase.ts and #fetched of queryStore.ts).  The server is external. *)
(***************************************************************************)
EXTENDS WindowMaintenance

CONSTANTS
    Queries,     \* the queries subscribed to: [skip, limit, ordered, exact]
    Id,          \* the ids of the service, positive numbers
    Key,         \* the values of the sort field
    Ties,        \* two rows of a first page may have the same sort value
    Writes,      \* the writes of other clients: "created", "patched", "removed"
    OwnCreates,  \* this client creates rows too
    MaxWrites,   \* bound: writes the server accepts
    PageMoves    \* under a $skip, patches move rows and take them out of the result set

ASSUME WindowQueryAssumption ==
    /\ Queries \subseteq [skip : Nat, limit : Nat, ordered : BOOLEAN, exact : BOOLEAN]
    /\ Id \subseteq Nat \ {0} /\ Key \subseteq Nat
    /\ Writes \subseteq {"created", "patched", "removed"}
    /\ MaxWrites \in Nat
    /\ Ties \in BOOLEAN /\ OwnCreates \in BOOLEAN /\ PageMoves \in BOOLEAN

VARIABLES
    query,      \* what it asks for and [rows, total]: QueryState.data, meta.total
    entities,   \* [Id -> row], the entity cache; None when not cached
    reconcile,  \* a reconciliation is requested, or the query is dirty
    fetch,      \* "idle", "asked" or "answered"
    response,   \* [rows, total, after]: the answer on its way to the client
    journal,    \* the events applied since the fetch began
    server,     \* [Id -> row], None when there is none
    writes,     \* how many writes the server has accepted
    wire        \* events on their way, in the server's order

vars == <<query, entities, reconcile, fetch, response, journal, server, writes, wire>>

Row == [id : Id, rev : 1 .. MaxWrites + 1, key : Key \union {0}]

Exists(s, id) == s[id] # None

\* Rows of the result set have distinct sort values, unless ties are allowed and
\* the query asks for a first page.
Distinct(s, q) ==
    \/ Ties /\ q.skip = 0
    \/ \A a, b \in Id : (a # b /\ Member(s[a])) => s[a].key # s[b].key

NoResponse == [rows |-> << >>, total |-> 0]

NoRow == -1

\* A query as a complete answer of the server's leaves it.
Loaded(asked, rows, total) ==
    [skip |-> asked.skip, limit |-> asked.limit, ordered |-> asked.ordered,
     exact |-> asked.exact, rows |-> rows, total |-> total]

\* The query has just been loaded.
Init ==
    /\ \E keys \in [Id -> Key \union { 0, NoRow }] :
          server = [id \in Id |-> IF keys[id] = NoRow THEN None
                                  ELSE [id |-> id, rev |-> 1, key |-> keys[id]]]
    /\ \E asked \in Queries :
          query = Loaded(asked, ServerPage(asked, server), Cardinality(ResultSet(server)))
    /\ Distinct(server, query)
    /\ entities = [id \in Id |-> IF HasItem(query.rows, id) THEN server[id] ELSE None]
    /\ reconcile = FALSE
    /\ fetch = "idle"
    /\ response = NoResponse
    /\ journal = << >>
    /\ writes = 0
    /\ wire = << >>

-----------------------------------------------------------------------------
\* applyEventsToService, updateQueriesFromEvents and the reconciliations they
\* ask for.  A patch older than the cached row changes nothing.
Deliver ==
    LET msg    == Head(wire)
        item   == msg.item
        event  == [type |-> msg.type, item |-> item, previous |-> entities[item.id]]
        result == MergeEvent(query, event)
    IN  /\ wire # << >>
        /\ wire' = Tail(wire)
        /\ IF msg.type = "patched" /\ IsItemStale(entities[item.id], item)
           THEN UNCHANGED <<query, entities, reconcile, journal>>
           ELSE /\ entities' = [entities EXCEPT ![item.id] =
                                   IF msg.type = "removed" THEN None ELSE item]
                /\ query' = Applied(query, result)
                /\ reconcile' = (reconcile \/ result.action = "refetch")
                /\ journal' = IF fetch = "idle" THEN journal ELSE Append(journal, event)
        /\ UNCHANGED <<fetch, response, server, writes>>

\* Mutant: the request outlives the fetch that answers it.
BeginFetchUnanswered ==
    /\ reconcile
    /\ fetch = "idle"
    /\ fetch' = "asked"
    /\ journal' = << >>
    /\ UNCHANGED <<query, entities, reconcile, response, server, writes, wire>>

\* The reconciliation's fetch begins, and with it its cursor in the journal.
BeginFetch ==
    /\ reconcile
    /\ fetch = "idle"
    /\ reconcile' = FALSE
    /\ fetch' = "asked"
    /\ journal' = << >>
    /\ UNCHANGED <<query, entities, response, server, writes, wire>>

\* The server reads the page.  The response and the events overtake each other.
AnswerFetch ==
    /\ fetch = "asked"
    /\ fetch' = "answered"
    /\ response' = [rows |-> ServerPage(query, server),
                    total |-> Cardinality(ResultSet(server))]
    /\ UNCHANGED <<query, entities, reconcile, journal, server, writes, wire>>

\* fetched(): the rebased response replaces the rows, rows no event protects
\* enter the cache unless it is newer, the events are replayed in order, and if
\* there were any one more reconciliation is asked for.
EndFetch ==
    LET events == Effective(journal, response.rows)
        rows   == RebasedRows(response.rows, events, entities, query.exact)
        cached == Upserted(entities, rows, events)
    IN  /\ fetch = "answered"
        /\ entities' = cached
        /\ query' = FoldLeft(LAMBDA q, e : Replayed(q, e, cached[e.item.id]),
                             Loaded(query, rows, response.total), events)
        /\ reconcile' = (reconcile \/ events # << >>)
        /\ fetch' = "idle"
        /\ response' = NoResponse
        /\ journal' = << >>
        /\ UNCHANGED <<server, writes, wire>>

-----------------------------------------------------------------------------
\* The server accepts a write and broadcasts it.
Accept(id, row, messages) ==
    /\ writes < MaxWrites
    /\ writes' = writes + 1
    /\ server' = [server EXCEPT ![id] = row]
    /\ Distinct(server', query)
    /\ wire' = wire \o messages
    /\ UNCHANGED <<query, entities, reconcile, fetch, response, journal>>

Version(id, key) == [id |-> id, rev |-> writes + 2, key |-> key]

Message(type, item) == << [type |-> type, item |-> item] >>

RemoteCreate(id, key) ==
    LET row == Version(id, key)
    IN  /\ "created" \in Writes
        /\ ~Exists(server, id)
        /\ Accept(id, row, Message("created", row))

RemotePatch(id, key) ==
    LET row == Version(id, key)
    IN  /\ "patched" \in Writes
        /\ Exists(server, id)
        /\ \/ PageMoves \/ query.skip = 0
           \/ key = server[id].key \/ ~Member(server[id])
        /\ Accept(id, row, Message("patched", row))

RemoteRemove(id) ==
    /\ "removed" \in Writes
    /\ Exists(server, id)
    /\ Accept(id, None, Message("removed", server[id]))

\* This client's own create reaches the query twice, as the projection its lane
\* makes of the acknowledgement and as the server's event, which is a second
\* "created" unless it came first and made the acknowledgement a change in place.
OwnCreate(id, key) ==
    LET row == Version(id, key)
    IN  /\ OwnCreates
        /\ ~Exists(server, id)
        /\ \E second \in {"created", "patched"} :
              Accept(id, row, Message("created", row) \o Message(second, row))

Next ==
    \/ Deliver
    \/ BeginFetch
    \/ AnswerFetch
    \/ EndFetch
    \/ \E id \in Id, key \in Key \union {0} : RemoteCreate(id, key)
    \/ \E id \in Id, key \in Key \union {0} : RemotePatch(id, key)
    \/ \E id \in Id : RemoteRemove(id)
    \/ \E id \in Id, key \in Key \union {0} : OwnCreate(id, key)

Spec == Init /\ [][Next]_vars

\* Events and responses arrive and requested reconciliations run.  Weak fairness
\* of the first two is spelled out with their guards, which spares TLC the
\* evaluation of ENABLED.
FairSpec ==
    /\ Spec
    /\ []<>(wire = << >>) \/ []<><<Deliver>>_vars
    /\ []<>(fetch # "answered") \/ []<><<EndFetch>>_vars
    /\ WF_vars(BeginFetch)
    /\ WF_vars(AnswerFetch)

-----------------------------------------------------------------------------
TypeOK ==
    /\ query.rows \in Seq(Row) /\ query.total \in Nat
    /\ entities \in [Id -> Row \union { None }]
    /\ server \in [Id -> Row \union { None }]
    /\ reconcile \in BOOLEAN
    /\ fetch \in {"idle", "asked", "answered"}
    /\ response.rows \in Seq(Row) /\ response.total \in Nat
    /\ writes \in 0 .. MaxWrites

Settled == wire = << >> /\ fetch = "idle" /\ ~reconcile


SortValues(rows) == [i \in DOMAIN rows |-> rows[i].key]

\* When everything has arrived and no reconciliation is owed, the client shows
\* the server's page, each row in its latest version: the same rows, or where it
\* knows the order rows with the same sort values in the same order, since which
\* of two rows with equal ones the server puts first is not known to it.
RowsMatchServer ==
    Settled =>
        /\ \A i \in DOMAIN query.rows : query.rows[i] = server[query.rows[i].id]
        /\ LET page == ServerPage(query, server)
           IN  IF query.ordered /\ ~query.exact
               THEN SortValues(query.rows) = SortValues(page)
               ELSE ToSet(query.rows) = ToSet(page)

\* ... and of a complete list the server's count.
ListTotalMatchesServer ==
    (Settled /\ query.exact) => query.total = Cardinality(ResultSet(server))

\* So windows survive events, responses and own writes that overtake each other.
MatchesServer == RowsMatchServer /\ ListTotalMatchesServer

\* What a subscriber sees becomes the server's page and stays it.
EventuallyMatchesServer == <>[](Settled /\ RowsMatchServer)
=============================================================================
