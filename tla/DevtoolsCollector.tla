--------------------------- MODULE DevtoolsCollector ---------------------------
(***************************************************************************)
(* What the devtools keep of the events of a Figbird instance: the         *)
(* collector (lib/devtools/collector.ts), its retention of payloads        *)
(* (payloadRetention.ts) and of the facts known of a trace                 *)
(* (timelineTraceStore.ts).  The operators take a collector to what a      *)
(* call leaves of it; Devtools is the machine that calls them.             *)
(*                                                                         *)
(* A payload is the number of the value, new for every value captured;     *)
(* None stands where there is none.  All payloads cost the same.  The time *)
(* of an event is its position.  Totals, durations and texts are left out. *)
(***************************************************************************)
EXTENDS Naturals, Sequences, FiniteSets, SequencesExt, FiniteSetsExt, TLC

CONSTANTS
    EventLimit,     \* of the event log, and of two lanes of the timeline
    TimelineLimit,  \* of all that is settled on the timeline
    PayloadLimit,
    SpanLimit,      \* of the finished fetches of one query
    WriteLimit,
    HistoryLimit    \* of queries, those that are gone included

ASSUME CollectorAssumption ==
    \A n \in {EventLimit, TimelineLimit, PayloadLimit, SpanLimit, WriteLimit, HistoryLimit} :
        n \in Nat \ {0}

None == 0

NewCollector ==
    [events     |-> << >>,  \* the payloads of the log
     realtime   |-> << >>,
     connection |-> << >>,
     queries    |-> << >>,  \* by query, a function
     writes     |-> << >>,  \* by write
     traces     |-> << >>,  \* by trace
     fetches    |-> << >>,  \* #fetchTraces, by fetch
     kept       |-> << >>,  \* the active handles, oldest first
     gone       |-> {},     \* values replaced by EVICTED_VALUE
     moved      |-> {},     \* history: params whose span has become another object
     value      |-> 1,      \* the next value
     started    |-> 1, time |-> 0, cutoff |-> 0,
     dirty      |-> TRUE]   \* #sourceStateDirty

\* Step applied to the value of s; the choice has TLC compute it once.
Then(s, Step(_)) == CHOOSE r \in {Step(v) : v \in {s}} : TRUE

Without(f, S) == [x \in DOMAIN f \ S |-> f[x]]

\* CappedBuffer.push
Pushed(buffer, item, limit) ==
    Append(IF Len(buffer) = limit THEN Tail(buffer) ELSE buffer, item)

Dropped(buffer, limit) == IF Len(buffer) = limit THEN {Head(buffer)} ELSE {}

-----------------------------------------------------------------------------
(* PayloadRetention.                                                       *)

\* retain and #vacuum
Retain(s, v) ==
    IF Len(s.kept) < PayloadLimit THEN [s EXCEPT !.kept = Append(@, v)]
    ELSE [s EXCEPT !.kept = Append(Tail(@), v), !.gone = @ \cup {Head(s.kept)}]

Release(s, values) == [s EXCEPT !.kept = SelectSeq(@, LAMBDA v : v \notin values)]

SpanPayloads(span) == {span.params, span.outcome}

\* Mutant: the params a fetch started with are forgotten.
ReleaseOutcome(s, spans) == Release(s, {span.outcome : span \in spans})

\* #releaseSpanPayloads; the params of a finished span have no handle of their own.
ReleaseSpans(s, spans) == Release(s, UNION {SpanPayloads(span) : span \in spans})

ReleaseWrites(s, ids) ==
    Release(s, UNION {{s.writes[w].args, s.writes[w].error} : w \in ids})

-----------------------------------------------------------------------------
(* Fetches.                                                                *)

NewRecord(gen, present, fetching, at) ==
    [present |-> present, gen |-> gen, fetching |-> fetching, seen |-> at,
     spans |-> << >>, active |-> << >>, error |-> None]

\* #ensureFetchRecord
EnsureRecord(s, e, present) ==
    IF e.query \notin DOMAIN s.queries
    THEN [s EXCEPT !.queries = (e.query :> NewRecord(e.gen, present, TRUE, s.time)) @@ @]
    ELSE LET r == s.queries[e.query]
         IN  [s EXCEPT !.queries[e.query] =
                 IF e.gen > r.gen /\ (present \/ ~r.present)
                 THEN [r EXCEPT !.seen = s.time, !.gen = e.gen, !.present = present, !.fetching = TRUE]
                 ELSE [r EXCEPT !.seen = s.time,
                                !.present = @ \/ (present /\ e.gen = r.gen)]]

LaterOf(a, b) == IF a > b THEN a ELSE b

Started(s, e) ==
    LET span == [at |-> LaterOf(s.time, s.started), traces |-> e.traces,
                 params |-> s.value, outcome |-> None]
    IN  Retain([s EXCEPT !.value = @ + 1,
                         !.fetches = (e.fetch :> [at |-> s.time, traces |-> e.traces]) @@ @,
                         !.queries[e.query].active = (e.fetch :> span) @@ @,
                         !.queries[e.query].fetching = TRUE],
               s.value)

\* #recordFetchStart: a start of a generation that is gone is not shown.
RecordFetchStart(ensured, e) ==
    LET r == ensured.queries[e.query]
    IN  IF r.present /\ r.gen = e.gen THEN Started(ensured, e) ELSE ensured

\* The finished span takes over what the active one says, its params too, as
\* another object than the one their handle replaces.
PushSpan(s, e, span) ==
    ReleaseSpans([s EXCEPT !.queries[e.query].spans = Pushed(@, span, SpanLimit)],
                 Dropped(s.queries[e.query].spans, SpanLimit))

\* Mutant: whichever generation has ended, the query shown has.
SettledAnyway(s, e) == [s EXCEPT !.queries[e.query].fetching = FALSE]

\* The last lines of #finishFetch.
SettledRecord(s, e) ==
    IF s.queries[e.query].gen # e.gen THEN s
    ELSE [s EXCEPT !.queries[e.query].fetching = FALSE]

\* retainQueryError; the span's own handle follows.
Failed(s, e) ==
    Retain([Release(s, {s.queries[e.query].error})
                EXCEPT !.queries[e.query].error = s.value, !.value = @ + 1],
           s.value)

Ended(s, e, outcome, hasParams) ==
    LET q == s.queries[e.query]
        traces == IF e.fetch \in DOMAIN s.fetches THEN s.fetches[e.fetch].traces
                  ELSE IF hasParams THEN q.active[e.fetch].traces ELSE {}
        span == [at |-> LaterOf(e.start, s.started), traces |-> traces,
                 params |-> IF hasParams /\ q.active[e.fetch].params \notin s.gone
                            THEN s.value + 1 ELSE None,
                 outcome |-> outcome]
        taken == [s EXCEPT !.value = @ + 2,
                           !.queries[e.query].active = Without(@, {e.fetch}),
                           !.moved = @ \cup {q.active[f].params :
                                                f \in {e.fetch} \cap DOMAIN q.active}]
        held  == Then(taken, LAMBDA t : IF outcome = None THEN t ELSE Retain(t, outcome))
        shown == Then(held, LAMBDA t : PushSpan(t, e, span))
    IN  [Then(shown, LAMBDA t : SettledRecord(t, e)) EXCEPT !.fetches = Without(@, {e.fetch})]

\* #finishFetch.  The result is what the query's row has at that time.
FinishFetch(ensured, e, hasData) ==
    Then(IF e.kind = "fetch:error" THEN Failed(ensured, e) ELSE ensured,
         LAMBDA s : Ended(s, e,
                          IF e.kind = "fetch:error" \/ hasData THEN s.value ELSE None,
                          e.fetch \in DOMAIN s.queries[e.query].active))

-----------------------------------------------------------------------------
(* Writes: #recordMutation.                                                 *)

InFlight(write) == write.status = "in-flight"

Oldest(s, ids, n) ==
    {w \in ids : Cardinality({v \in ids : s.writes[v].at < s.writes[w].at}) < n}

ForgetWrites(s, ids) == [ReleaseWrites(s, ids) EXCEPT !.writes = Without(@, ids)]

\* #trimWrites
TrimWrites(s) ==
    LET excess == Cardinality(DOMAIN s.writes) - WriteLimit
    IN  IF excess <= 0 THEN s
        ELSE ForgetWrites(s, Oldest(s, {w \in DOMAIN s.writes : ~InFlight(s.writes[w])}, excess))

Base(s, e) ==
    IF e.write \in DOMAIN s.writes THEN s.writes[e.write]
    ELSE [at |-> s.time, status |-> "in-flight", args |-> None, error |-> None, trace |-> e.trace]

\* #retainWriteArgs: the arguments of a write that was known are kept, and
\* retained anew.
WriteArgs(s, e, base, args) ==
    LET known == [s EXCEPT !.writes = (e.write :> [base EXCEPT !.args = args]) @@ @]
    IN  IF args \in s.gone \cup {None} THEN known
        ELSE Retain([Release(known, {base.args, base.error}) EXCEPT !.value = @ + 1], args)

WriteSettled(s, e, base, status) ==
    [s EXCEPT !.writes = (e.write :> [base EXCEPT !.status = status]) @@ @]

WriteFailed(s, e, base) ==
    TrimWrites(Retain([WriteSettled(s, e, [base EXCEPT !.error = s.value], "error")
                           EXCEPT !.value = @ + 1],
                      s.value))

RecordWrite(s, e) ==
    CASE e.kind = "mutate:start" /\ e.write \in DOMAIN s.writes ->
            WriteArgs(s, e, s.writes[e.write], s.writes[e.write].args)
      [] e.kind \in {"mutate:start", "mutate:update"} -> WriteArgs(s, e, Base(s, e), s.value)
      [] e.kind = "mutate:end" -> TrimWrites(WriteSettled(s, e, Base(s, e), "success"))
      [] e.kind = "mutate:rollback" -> TrimWrites(WriteSettled(s, e, Base(s, e), "rollback"))
      [] e.kind = "mutate:error" -> WriteFailed(s, e, Base(s, e))

-----------------------------------------------------------------------------
(* Traces.                                                                 *)

NoFacts == [updated |-> FALSE, fetches |-> 0, swept |-> FALSE]

Facts(s, t) == IF t \in DOMAIN s.traces THEN s.traces[t] ELSE NoFacts

\* recordFetch, recordCacheUpdate and recordSweep of the TimelineTraceStore
Learnt(facts, e) ==
    CASE e.kind = "fetch:start" -> [facts EXCEPT !.fetches = @ + 1]
      [] e.kind = "cache:updated" -> [facts EXCEPT !.updated = TRUE]
      [] e.kind = "reconnect:sweep" -> [facts EXCEPT !.swept = TRUE]

RecordTraces(s, e) ==
    [s EXCEPT !.traces = [t \in e.traces |-> Learnt(Facts(s, t), e)] @@ @]

Spans(r) == Range(r.spans) \cup {r.active[f] : f \in DOMAIN r.active}

RecentWrites(s) == {w \in DOMAIN s.writes : s.writes[w].at >= s.started}

\* Mutant: what waits for its answer is not on the timeline.
TracesSettled(s) ==
    UNION {UNION {span.traces : span \in Range(s.queries[q].spans)} : q \in DOMAIN s.queries}
    \cup {item.trace : item \in Range(s.connection)}
    \cup {s.writes[w].trace : w \in RecentWrites(s)}

TracesOnTimeline(s) ==
    UNION {UNION {span.traces : span \in Spans(s.queries[q])} : q \in DOMAIN s.queries}
    \cup {item.trace : item \in Range(s.realtime) \cup Range(s.connection)}
    \cup {s.writes[w].trace : w \in RecentWrites(s)}

\* #trimTimelineTraces
TrimTraces(s) == [s EXCEPT !.traces = Without(@, DOMAIN @ \ TracesOnTimeline(s))]

-----------------------------------------------------------------------------
(* The timeline: #trimTimeline.                                            *)

SettledWrites(s) == {w \in RecentWrites(s) : ~InFlight(s.writes[w])}

Count(s) ==
    MapThenSumSet(LAMBDA q : Len(s.queries[q].spans), DOMAIN s.queries)
        + Len(s.realtime) + Len(s.connection) + Cardinality(SettledWrites(s))

Heads(lane) == {lane[i] : i \in {1} \cap DOMAIN lane}

\* The head of each lane and every settled write, with the order ties have.
Candidates(s) ==
    {[at |-> Head(s.queries[q].spans).at, lane |-> 1, key |-> q] :
        q \in {p \in DOMAIN s.queries : s.queries[p].spans # << >>}}
    \cup {[at |-> item.at, lane |-> 2, key |-> 0] : item \in Heads(s.realtime)}
    \cup {[at |-> item.at, lane |-> 3, key |-> 0] : item \in Heads(s.connection)}
    \cup {[at |-> s.writes[w].at, lane |-> 4, key |-> w] : w \in SettledWrites(s)}

Before(a, b) ==
    \/ a.at < b.at
    \/ a.at = b.at /\ (a.lane < b.lane \/ (a.lane = b.lane /\ a.key <= b.key))

Evict(s, c) ==
    CASE c.lane = 1 -> [ReleaseSpans(s, {Head(s.queries[c.key].spans)})
                            EXCEPT !.queries[c.key].spans = Tail(@)]
      [] c.lane = 2 -> [Release(s, {Head(s.realtime).payload}) EXCEPT !.realtime = Tail(@)]
      [] c.lane = 3 -> [s EXCEPT !.connection = Tail(@)]
      [] c.lane = 4 -> ForgetWrites(s, {c.key})

EvictOldest(s, candidates) ==
    Then(CHOOSE c \in candidates : \A d \in candidates : Before(c, d), LAMBDA c : Evict(s, c))

TrimOne(s) ==
    IF Count(s) <= TimelineLimit THEN s
    ELSE Then(Candidates(s), LAMBDA candidates : EvictOldest(s, candidates))

\* One event puts at most two things on the timeline.
TrimSettled(s) == Then(Then(s, TrimOne), TrimOne)

\* Fetches that have been active for ten minutes are given up.
Overdue(s, r) == {f \in DOMAIN r.active : r.active[f].at < s.cutoff}

GiveUp(s, late) ==
    [ReleaseSpans(s, UNION {{s.queries[q].active[f] : f \in late[q]} : q \in DOMAIN late})
        EXCEPT !.queries = [q \in DOMAIN @ |-> [@[q] EXCEPT !.active = Without(@, late[q])]],
               !.fetches = Without(@, UNION Range(late)
                                          \cup {f \in DOMAIN @ : @[f].at < s.cutoff})]

TrimActive(s) == GiveUp(s, [q \in DOMAIN s.queries |-> Overdue(s, s.queries[q])])

TrimTimeline(s) == Then(Then(Then(s, TrimSettled), TrimActive), TrimTraces)

-----------------------------------------------------------------------------
(* Events: #recordEvent.                                                   *)

\* payloadForRetention.  The arguments of a start are left to its write.
HasPayload(e) ==
    e.kind \in {"fetch:start", "fetch:error", "realtime", "cache:updated", "mutate:update",
                "mutate:error"}

PushEvent(s, e) ==
    [Release(s, Dropped(s.events, EventLimit))
        EXCEPT !.events = Pushed(@, None, EventLimit), !.time = @ + 1]

PushRealtime(s, e) ==
    Release([Retain(s, s.value)
                EXCEPT !.realtime = Pushed(@, [at |-> s.time, trace |-> e.trace, payload |-> s.value],
                                           EventLimit),
                       !.value = @ + 1],
            {item.payload : item \in Dropped(s.realtime, EventLimit)})

\* Whether the instance shows the generation the event is of.
Inspected(e, rows) == e.query \in DOMAIN rows /\ rows[e.query].gen = e.gen

Handle(s, e, rows) ==
    CASE e.kind = "fetch:start" ->
            RecordTraces(Then(EnsureRecord(s, e, TRUE), LAMBDA t : RecordFetchStart(t, e)), e)
      [] e.kind \in {"fetch:end", "fetch:error"} ->
            Then(EnsureRecord(s, e, FALSE), LAMBDA t : FinishFetch(t, e, Inspected(e, rows)))
      [] e.kind = "realtime" -> PushRealtime(s, e)
      [] e.kind = "connection" ->
            [s EXCEPT !.connection = Pushed(@, [at |-> s.time, trace |-> e.trace], EventLimit)]
      [] e.kind = "cache:updated" -> [RecordTraces(s, e) EXCEPT !.dirty = TRUE]
      [] e.kind = "reconnect:sweep" -> RecordTraces(s, e)
      [] OTHER -> RecordWrite(s, e)

\* #retainEventPayload
RetainEvent(s, e) ==
    IF ~HasPayload(e) THEN s
    ELSE Retain([s EXCEPT !.events[Len(s.events)] = s.value, !.value = @ + 1], s.value)

Record(s, e, rows) ==
    LET pushed   == Then(s, LAMBDA t : PushEvent(t, e))
        handled  == Then(pushed, LAMBDA t : Handle(t, e, rows))
        retained == Then(handled, LAMBDA t : RetainEvent(t, e))
    IN  TrimTimeline(retained)

-----------------------------------------------------------------------------
(* Snapshots: #refreshQueries and #trimQueries.  rows is what the instance *)
(* shows of each query it has: its generation and whether it is fetching.  *)

ForgetQueries(s, qs) ==
    [Release(ReleaseSpans(s, UNION {Spans(s.queries[q]) : q \in qs}),
             {s.queries[q].error : q \in qs})
        EXCEPT !.queries = Without(@, qs)]

\* Ties go by the name, which stands for the order of insertion.
SeenBefore(s, p, q) ==
    \/ s.queries[p].seen < s.queries[q].seen
    \/ s.queries[p].seen = s.queries[q].seen /\ p < q

TrimQueries(s, rows) ==
    LET excess == Cardinality(DOMAIN s.queries) - HistoryLimit
        unseen == DOMAIN s.queries \ DOMAIN rows
    IN  ForgetQueries(s, {q \in unseen : Cardinality({p \in unseen : SeenBefore(s, p, q)}) < excess})

Observed(s, q, rows) ==
    IF q \notin DOMAIN rows THEN [s.queries[q] EXCEPT !.present = FALSE]
    ELSE IF q \notin DOMAIN s.queries THEN NewRecord(rows[q].gen, TRUE, rows[q].fetching, s.time)
    ELSE [s.queries[q] EXCEPT !.present = TRUE, !.gen = rows[q].gen,
                              !.fetching = rows[q].fetching, !.seen = s.time]

Refresh(s, rows) ==
    Then([s EXCEPT !.queries = [q \in DOMAIN @ \cup DOMAIN rows |-> Observed(s, q, rows)],
                   !.dirty = FALSE],
         LAMBDA t : TrimQueries(t, rows))

\* getSnapshot
Snapshot(s, rows) ==
    Then(TrimTimeline(s), LAMBDA t : IF t.dirty THEN Refresh(t, rows) ELSE t)

\* clearEvents
ClearEvents(s) == [Release(s, Range(s.events)) EXCEPT !.events = << >>]

\* clearTimeline
ClearTimeline(s) ==
    LET settled == {w \in DOMAIN s.writes : ~InFlight(s.writes[w])}
        emptied == ForgetWrites(Release(s, {item.payload : item \in Range(s.realtime)}), settled)
    IN  [ReleaseSpans(Then(emptied, LAMBDA t : t), UNION {Range(s.queries[q].spans) : q \in DOMAIN s.queries})
            EXCEPT !.realtime = << >>, !.connection = << >>, !.traces = << >>,
                   !.started = s.time + 1,
                   !.queries = [q \in DOMAIN @ |->
                       [@[q] EXCEPT !.spans = << >>,
                                    !.active = [f \in DOMAIN @ |->
                                                   [@[f] EXCEPT !.at = s.time + 1]]]]]

\* reset
Reset(s) ==
    [NewCollector EXCEPT !.value = s.value, !.time = s.time, !.started = s.time + 1,
                         !.cutoff = s.cutoff]

=============================================================================
