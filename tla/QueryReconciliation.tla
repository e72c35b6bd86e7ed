------------------------- MODULE QueryReconciliation -------------------------
(***************************************************************************)
(* The fetch lifecycle of one cached query (lib/core/queryStore.ts): its   *)
(* subscribers, its fetches with their retries, and the reconciliation     *)
(* gate every event-driven refetch passes, which delays requests while the *)
(* tab is hidden, coalesces them within the cooldown and notes them on a   *)
(* query nobody watches.                                                   *)
(*                                                                         *)
(* What the query's answer is at the server is a version, which grows with *)
(* every change that matters to it.                                        *)
(***************************************************************************)
EXTENDS Naturals, Sequences, SequencesExt

CONSTANTS
    Policies,      \* the fetch policies the query may have
    Reasons,       \* the sets of reasons it may be fetched anew for
    Retry,         \* failed fetches are tried again this often
    Cooldown,      \* reconcileCooldown > 0
    MaxChanges,    \* bound: changes at the server
    MaxListeners,  \* bound: subscribers at a time
    MaxSubscribes, \* bound: subscriptions made
    MaxHides,      \* bound: times the tab is hidden
    MaxFailures    \* bound: fetches that fail

ASSUME ReconciliationAssumption ==
    /\ Policies \subseteq {"swr", "cache-first", "network-only"}
    /\ Reasons \subseteq SUBSET {"event", "refetch", "related", "sweep", "manual"}
    /\ Cooldown \in BOOLEAN
    /\ \A bound \in {Retry, MaxChanges, MaxListeners, MaxSubscribes, MaxHides, MaxFailures} :
          bound \in Nat

VARIABLES
    policy,      \* QueryConfig.fetchPolicy
    reasons,     \* why this query is fetched anew
    query,       \* the stored query, NoQuery when it is not in the cache
    generation,  \* the last generation given out
    jobs,        \* the #queue loops under way
    window,      \* its #reconcileWindows entry: [hot, trailing], the trailing timer
                 \* "none", "armed" or "due"
    deferred,    \* it is in #deferredWhileHidden
    listeners,   \* how many subscribers it has
    hidden,      \* the tab is hidden
    version,     \* the server's version
    told,        \* the last version the client was told about
    requested,   \* the version the latest reconciliation was requested for
    overlapped,  \* two fetches of one generation have been under way together
    spent        \* what the bounds count

vars == <<policy, reasons, query, generation, jobs, window, deferred, listeners, hidden,
          version, told, requested, overlapped, spent>>

NoQuery == [status |-> "none", fetching |-> FALSE, pending |-> FALSE, dirty |-> FALSE,
            shown |-> 0, generation |-> 0]

NoWindow == [hot |-> FALSE, trailing |-> "none"]

Exists(s) == s.query.status # "none"

Init ==
    /\ policy \in Policies
    /\ reasons \in Reasons
    /\ query = NoQuery
    /\ generation = 0
    /\ jobs = << >>
    /\ window = NoWindow
    /\ deferred = FALSE
    /\ listeners = 0
    /\ hidden = FALSE
    /\ version = 1
    /\ told = 1
    /\ requested = 0
    /\ overlapped = FALSE
    /\ spent = [subscribes |-> 0, hides |-> 0, failures |-> 0]

\* A fetch of the query as it is, not of one that was vacuumed.
IsCurrent(s, job) == Exists(s) /\ s.query.generation = job.generation

Overlapping(s) ==
    \E i, j \in DOMAIN s.jobs : i # j /\ IsCurrent(s, s.jobs[i]) /\ IsCurrent(s, s.jobs[j])

\* The state the store's functions thread through.
State == [query |-> query, jobs |-> jobs, window |-> window, deferred |-> deferred]

Become(s) ==
    /\ query' = s.query
    /\ jobs' = s.jobs
    /\ window' = s.window
    /\ deferred' = s.deferred
    /\ overlapped' = (overlapped \/ Overlapping(s))

-----------------------------------------------------------------------------
\* #queue and #fetching: a fetch attempt begins, what was asked for before is
\* answered by it.
Queue(s) ==
    [s EXCEPT
        !.query.pending  = FALSE,
        !.query.dirty    = FALSE,
        !.query.fetching = TRUE,
        !.query.status   = IF @ = "success" THEN "success" ELSE "loading",
        !.jobs = Append(@, [generation |-> s.query.generation, phase |-> "asked",
                            attempt |-> 0, ok |-> TRUE, seen |-> 0, journal |-> 0])]

\* refetch(): now, or after the fetch that is under way.
Refetch(s) == IF s.query.fetching THEN [s EXCEPT !.query.dirty = TRUE] ELSE Queue(s)

MarkPending(s) == [s EXCEPT !.query.pending = TRUE]

\* Mutant: requests within the cooldown are dropped.
RequestLeadingEdge(s, isHidden) ==
    IF ~Exists(s) THEN s
    ELSE IF listeners = 0 THEN MarkPending(s)
    ELSE IF isHidden THEN MarkPending([s EXCEPT !.deferred = TRUE])
    ELSE IF s.window.hot THEN s
    ELSE Refetch([s EXCEPT !.window.hot = Cooldown])

\* #requestReconcile.
RequestReconcile(s, isHidden) ==
    IF ~Exists(s) THEN s
    ELSE IF listeners = 0 THEN MarkPending(s)
    ELSE IF isHidden THEN MarkPending([s EXCEPT !.deferred = TRUE])
    ELSE IF ~Cooldown THEN Refetch(s)
    ELSE IF ~s.window.hot THEN Refetch([s EXCEPT !.window.hot = TRUE])
    ELSE [s EXCEPT !.window.trailing = IF @ = "none" THEN "armed" ELSE @]

\* ensureFresh() of a new subscriber that accepts no staleness.
EnsureFresh(s) ==
    IF \/ s.query.pending
       \/ s.query.status = "success" /\ policy = "swr" /\ ~s.query.fetching
       \/ s.query.status = "error" /\ ~s.query.fetching
    THEN Queue(s) ELSE s

\* materialize(): the query enters the cache in a new generation.
Materialize(s) ==
    IF Exists(s) THEN s
    ELSE [s EXCEPT !.query = [NoQuery EXCEPT !.status = "loading", !.fetching = TRUE,
                                             !.pending = TRUE,
                                             !.generation = generation + 1]]

\* Mutant: the gate's state stays behind.
VacuumQueryOnly(s) == [s EXCEPT !.query = NoQuery]

\* #vacuum
Vacuum(s) == [s EXCEPT !.query = NoQuery, !.window = NoWindow, !.deferred = FALSE]

-----------------------------------------------------------------------------
(* The application and the browser.                                        *)

Subscribe ==
    /\ listeners < MaxListeners
    /\ spent.subscribes < MaxSubscribes
    /\ Become(EnsureFresh(Materialize(State)))
    /\ generation' = query'.generation
    /\ listeners' = listeners + 1
    /\ spent' = [spent EXCEPT !.subscribes = @ + 1]
    /\ UNCHANGED <<policy, reasons, hidden, version, told, requested>>

\* The result of a network-only query goes with its last subscriber.
Unsubscribe ==
    /\ listeners > 0
    /\ listeners' = listeners - 1
    /\ Become(IF policy = "network-only" /\ listeners = 1 THEN Vacuum(State) ELSE State)
    /\ UNCHANGED <<policy, reasons, generation, hidden, version, told, requested, spent>>

Hide ==
    /\ ~hidden
    /\ spent.hides < MaxHides
    /\ hidden' = TRUE
    /\ spent' = [spent EXCEPT !.hides = @ + 1]
    /\ UNCHANGED <<policy, reasons, query, generation, jobs, window, deferred, listeners,
                   version, told, requested, overlapped>>

\* #drainDeferredReconciles on becoming visible.
Show ==
    /\ hidden
    /\ hidden' = FALSE
    /\ LET drained == [State EXCEPT !.deferred = FALSE]
       IN  Become(IF deferred THEN RequestReconcile(drained, FALSE) ELSE drained)
    /\ UNCHANGED <<policy, reasons, generation, listeners, version, told, requested, spent>>

-----------------------------------------------------------------------------
(* Reconciliations are asked for.                                          *)

\* The server's answer to the query changes.
Change ==
    /\ version < MaxChanges
    /\ version' = version + 1
    /\ UNCHANGED <<policy, reasons, query, generation, jobs, window, deferred, listeners, hidden,
                   told, requested, overlapped, spent>>

\* The fetches under way have this change in their journal.
Journalled ==
    [i \in DOMAIN jobs |->
        IF jobs[i].phase = "waiting" THEN jobs[i] ELSE [jobs[i] EXCEPT !.journal = version]]

\* The client learns of the changes so far: from an event of the query's own
\* service that cannot be merged ("event"), or of a realtime: 'refetch' query
\* ("refetch"); from an event of a service its filter depends on ("related");
\* from a reconnection ("sweep").  The second and the last ask for watched
\* queries only.
Told(cause) ==
    /\ cause \in reasons
    /\ told < version
    /\ told' = version
    /\ LET s == IF cause \in {"event", "refetch"} THEN [State EXCEPT !.jobs = Journalled] ELSE State
       IN  IF cause \in {"refetch", "sweep"} /\ listeners = 0
           THEN Become(s) /\ UNCHANGED requested
           ELSE Become(RequestReconcile(s, hidden)) /\ requested' = version
    /\ UNCHANGED <<policy, reasons, generation, listeners, hidden, version, spent>>

\* The application refetches, which is not gated: this query through its
\* reference, or every query of the service.
Manual(everyQuery) ==
    /\ "manual" \in reasons
    /\ Exists(State)
    /\ requested < version
    /\ requested' = version
    /\ Become(IF everyQuery /\ listeners = 0 THEN MarkPending(State) ELSE Refetch(State))
    /\ UNCHANGED <<policy, reasons, generation, listeners, hidden, version, told, spent>>

\* The cooldown ends, and a timer armed in it is due.
CoolDown ==
    /\ window.hot
    /\ window' = [hot |-> FALSE, trailing |-> IF window.trailing = "none" THEN "none" ELSE "due"]
    /\ UNCHANGED <<policy, reasons, query, generation, jobs, deferred, listeners, hidden,
                   version, told, requested, overlapped, spent>>

\* The trailing timer re-enters the gate.
Trailing ==
    /\ window.trailing = "due"
    /\ Become(RequestReconcile([State EXCEPT !.window.trailing = "none"], hidden))
    /\ UNCHANGED <<policy, reasons, generation, listeners, hidden, version, told, requested, spent>>

-----------------------------------------------------------------------------
(* Fetches.                                                                *)

Current(job) == IsCurrent(State, job)

\* The server answers, or the request fails.
Answer(i) ==
    /\ jobs[i].phase = "asked"
    /\ \E ok \in BOOLEAN :
          /\ ~ok => spent.failures < MaxFailures
          /\ jobs' = [jobs EXCEPT ![i] = [@ EXCEPT !.phase = "answered", !.ok = ok,
                                                   !.seen = IF ok THEN version ELSE 0]]
          /\ spent' = [spent EXCEPT !.failures = IF ok THEN @ ELSE @ + 1]
    /\ UNCHANGED <<policy, reasons, query, generation, window, deferred, listeners, hidden,
                   version, told, requested, overlapped>>

\* Mutant: nothing is asked for on account of the journal.
FetchedUnreplayed(s, seen, replayed) ==
    LET shown == [s EXCEPT !.query.status = "success", !.query.fetching = FALSE,
                           !.query.shown = seen]
    IN  IF shown.query.dirty /\ listeners > 0 THEN Queue(shown) ELSE shown

\* fetched(): the answer is shown; a dirty query somebody watches is fetched once
\* more, and events that may be newer than the answer ask for it through the gate.
Fetched(s, seen, replayed) ==
    LET shown == [s EXCEPT !.query.status = "success", !.query.fetching = FALSE,
                           !.query.shown = seen]
    IN  IF shown.query.dirty /\ listeners > 0 THEN Queue(shown)
        ELSE IF replayed THEN RequestReconcile(shown, hidden)
        ELSE shown

\* discardFetchedResponse(): the journal had overflowed.
Discarded(s) == RequestReconcile([s EXCEPT !.query.fetching = FALSE], hidden)

\* Mutant: the failed query still says it is fetching.
FailedStillFetching(s) ==
    IF s.query.dirty /\ listeners > 0 THEN Queue([s EXCEPT !.query.status = "error"])
    ELSE [s EXCEPT !.query.status = "error"]

\* fetchFailed()
Failed(s) ==
    LET failed == [s EXCEPT !.query.status = "error", !.query.fetching = FALSE]
    IN  IF failed.query.dirty /\ listeners > 0 THEN Queue(failed) ELSE failed

\* The answer arrives.  Journalled events count unless the answer is provably
\* newer; a fetch of an earlier generation is forgotten; a failure is retried
\* while somebody watches.
Arrive(i) ==
    LET job  == jobs[i]
        done == [State EXCEPT !.jobs = RemoveAt(@, i)]
    IN  /\ job.phase = "answered"
        /\ \/ /\ ~Current(job)
              /\ Become(done)
           \/ /\ Current(job) /\ job.ok
              /\ \/ \E replayed \in IF job.journal = 0 THEN {FALSE}
                                    ELSE IF job.seen < job.journal THEN {TRUE} ELSE BOOLEAN :
                       Become(Fetched(done, job.seen, replayed))
                 \/ job.journal > 0 /\ Become(Discarded(done))
           \/ /\ Current(job) /\ ~job.ok
              /\ listeners > 0 /\ job.attempt < Retry
              /\ Become([State EXCEPT !.jobs[i] = [job EXCEPT !.phase = "waiting",
                                                              !.attempt = job.attempt + 1]])
           \/ /\ Current(job) /\ ~job.ok
              /\ listeners = 0 \/ job.attempt >= Retry
              /\ Become(Failed(done))
        /\ UNCHANGED <<policy, reasons, generation, listeners, hidden, version, told, requested, spent>>

\* The retry delay is over.
RetryTimer(i) ==
    LET job  == jobs[i]
        done == [State EXCEPT !.jobs = RemoveAt(@, i)]
    IN  /\ job.phase = "waiting"
        /\ Become(IF ~Current(job) THEN done
                  ELSE IF listeners = 0 THEN Failed(done)
                  ELSE [State EXCEPT !.jobs[i] = [job EXCEPT !.phase = "asked", !.journal = 0]])
        /\ UNCHANGED <<policy, reasons, generation, listeners, hidden, version, told, requested, spent>>

Next ==
    \/ Subscribe
    \/ Unsubscribe
    \/ Hide
    \/ Show
    \/ Change
    \/ \E cause \in {"event", "refetch", "related", "sweep"} : Told(cause)
    \/ \E everyQuery \in BOOLEAN : Manual(everyQuery)
    \/ CoolDown
    \/ Trailing
    \/ \E i \in DOMAIN jobs : Answer(i)
    \/ \E i \in DOMAIN jobs : Arrive(i)
    \/ \E i \in DOMAIN jobs : RetryTimer(i)

Spec == Init /\ [][Next]_vars

\* Requests are answered or fail, answers arrive and timers fire; nobody has to
\* subscribe or to look.
FairSpec ==
    /\ Spec
    /\ WF_vars(CoolDown)
    /\ WF_vars(\E i \in DOMAIN jobs : Answer(i))
    /\ []<>(\A i \in DOMAIN jobs : jobs[i].phase # "answered")
       \/ []<><<\E i \in DOMAIN jobs : Arrive(i)>>_vars
    /\ []<>(\A i \in DOMAIN jobs : jobs[i].phase # "waiting")
       \/ []<><<\E i \in DOMAIN jobs : RetryTimer(i)>>_vars
    /\ []<>(window.trailing # "due") \/ []<><<Trailing>>_vars

-----------------------------------------------------------------------------
TypeOK ==
    /\ policy \in Policies
    /\ query.status \in {"none", "loading", "success", "error"}
    /\ query.fetching \in BOOLEAN /\ query.pending \in BOOLEAN /\ query.dirty \in BOOLEAN
    /\ query.shown \in 0 .. version /\ query.generation \in {0, generation}
    /\ \A i \in DOMAIN jobs :
          /\ jobs[i].generation \in 1 .. generation
          /\ jobs[i].phase \in {"asked", "answered", "waiting"}
          /\ jobs[i].attempt \in 0 .. Retry
          /\ jobs[i].seen \in 0 .. version /\ jobs[i].journal \in 0 .. version
    /\ window \in [hot : BOOLEAN, trailing : {"none", "armed", "due"}]
    /\ deferred \in BOOLEAN /\ hidden \in BOOLEAN
    /\ listeners \in 0 .. MaxListeners
    /\ told \in 1 .. version /\ requested \in 0 .. version

\* Nothing of the query's is under way or scheduled.
Idle ==
    /\ \A i \in DOMAIN jobs : ~Current(jobs[i])
    /\ window.trailing = "none"
    /\ ~deferred

\* "A reconciliation may be delayed and coalesced, never dropped": once nothing is
\* under way the query shows an answer at least as new as the latest request, or
\* an error, or will be fetched when somebody subscribes.
NeverDropped ==
    (Idle /\ query.status = "success") =>
        \/ query.shown >= requested
        \/ listeners = 0 /\ (query.pending \/ policy = "swr")

\* What is true of every query: unless two of its fetches overlapped, a request
\* not yet answered has left its mark on the query, if only one nobody reads.
RequestIsRemembered ==
    (Idle /\ query.status = "success" /\ ~overlapped) =>
        \/ query.shown >= requested
        \/ query.pending \/ query.dirty
        \/ listeners = 0 /\ policy = "swr"

\* Requests for an event of the query's own service are never dropped, whatever
\* overlaps: a fetch under way has the event in its journal; other requests, as
\* long as no fetches of the query overlap.
Journalling == {"event", "refetch"}

EventsAreNeverDropped ==
    /\ (reasons \subseteq Journalling) => NeverDropped
    /\ RequestIsRemembered

\* A query that says it is fetching has a fetch under way: nobody is left
\* loading for an answer that will not come.
FetchingIsTrue ==
    query.fetching => \E i \in DOMAIN jobs : Current(jobs[i])

\* Nothing outlives a query that was vacuumed.
VacuumLeavesNothing ==
    query.status = "none" => window = NoWindow /\ ~deferred

\* What the store says of a query is about the query there is now.
QueryStateIsTrue == FetchingIsTrue /\ VacuumLeavesNothing

\* What such an event asked for is eventually shown to those who stay to see it.
EventuallyReconciled ==
    (reasons \subseteq Journalling /\ listeners > 0 /\ query.shown < requested) ~>
        (query.shown >= requested \/ query.status = "error" \/ listeners = 0 \/ hidden)
=============================================================================
