------------------------------- MODULE Devtools -------------------------------
(***************************************************************************)
(* The devtools at work: a Figbird instance emits events and changes its   *)
(* state; a collector shows them, either in the page itself or, in the     *)
(* panel of the browser extension, from what the page's bridge sends.      *)
(*                                                                         *)
(* The instance is the environment, reduced to when the query store emits  *)
(* (lib/core/queryStore.ts): queries come and go with new generations,     *)
(* fetches of old generations end late, attempts are retried, a dirty      *)
(* query starts its next fetch from within the answer to the last.         *)
(***************************************************************************)
EXTENDS DevtoolsCollector, DevtoolsBridge

CONSTANTS
    Queries,
    Workloads,   \* each the kinds of things that happen, and "page" or "panel"
    MaxSteps,    \* bound: steps of an instance shown in the page, clearings
    MaxRemote,   \* bound: steps of an instance shown in a panel
    MaxPanel     \* bound: of what happens to the connection

VARIABLES
    c,       \* the collector
    rows,    \* the queries the instance has
    jobs,    \* fetches at the adapter
    writes,  \* writes in flight, and whether they are optimistic
    issued,  \* numbers given to generations, fetches, traces and writes
    page, panel,
    wire,    \* expressions on their way to the page, in order
    answer,  \* of the page to the panel
    remote,  \* #remoteQueries
    told,    \* whether the panel has yet to hear that the page is another
    workload, steps,
    \* History:
    facts,   \* what the collector heard of each trace
    missed   \* the panel has lost a session with what it had not sent yet

instance == <<rows, jobs, writes, issued>>
bridge == <<page, panel, wire, answer, remote, told>>
vars == <<c, instance, bridge, workload, steps, facts, missed>>

InPage == "page" \in workload

NoAnswer == [is |-> "none"]

NoSteps == [instance |-> 0, panel |-> 0, session |-> 0]

NothingIssued == [gen |-> 0, fetch |-> 0, trace |-> 0, write |-> 0]

Init ==
    /\ workload \in Workloads
    /\ c = IF InPage THEN Refresh(NewCollector, << >>) ELSE NewCollector
    /\ rows = << >> /\ jobs = {} /\ writes = {}
    /\ issued = NothingIssued
    /\ page = NewPage(FALSE) /\ panel = NewPanel
    /\ wire = << >> /\ answer = NoAnswer /\ remote = << >> /\ told = TRUE
    /\ steps = NoSteps
    /\ facts = << >> /\ missed = FALSE

Does(kind) ==
    /\ kind \in workload /\ steps.instance < IF InPage THEN MaxSteps ELSE MaxRemote
    /\ InPage \/ page.instance
    /\ steps' = [steps EXCEPT !.instance = @ + 1]

Tells(e) == e.kind \in {"fetch:start", "cache:updated", "reconnect:sweep"}

\* What the collector makes of events, given the queries it can inspect.
Collect(s, events, shown) ==
    /\ c' = FoldLeft(LAMBDA acc, e : Record(acc, e, shown), s, events)
    /\ facts' = FoldLeft(LAMBDA f, e :
                    [t \in e.traces |-> Learnt(IF t \in DOMAIN f THEN f[t] ELSE NoFacts, e)] @@ f,
                    facts, SelectSeq(events, Tells))

\* The instance emits, and tells whether its state has changed.
Emit(events, changed) ==
    /\ IF InPage
       THEN Collect([c EXCEPT !.dirty = @ \/ changed], events, rows') /\ UNCHANGED page
       ELSE page' = Told(page, events, changed) /\ UNCHANGED <<c, facts>>
    /\ UNCHANGED <<panel, wire, answer, remote, told, workload, missed>>

-----------------------------------------------------------------------------
(* The instance.                                                           *)

FetchEvent(kind, job) ==
    [kind |-> kind, query |-> job.query, gen |-> job.gen, fetch |-> job.fetch,
     traces |-> IF kind = "fetch:start" THEN job.traces ELSE {}, start |-> job.start]

Appear(q) ==
    /\ Does("query") /\ q \notin DOMAIN rows
    /\ issued' = [issued EXCEPT !.gen = @ + 1]
    /\ rows' = (q :> [gen |-> issued.gen + 1, fetching |-> FALSE, retrying |-> FALSE]) @@ rows
    /\ Emit(<< >>, TRUE)
    /\ UNCHANGED <<jobs, writes>>

Vanish(q) ==
    /\ Does("query") /\ q \in DOMAIN rows
    /\ rows' = Without(rows, {q})
    /\ Emit(<< >>, TRUE)
    /\ UNCHANGED <<jobs, writes, issued>>

NewJob(q, traces) ==
    [query |-> q, gen |-> rows[q].gen, fetch |-> issued.fetch + 1, traces |-> traces,
     start |-> c.time + 1]

StartFetch(q, t) ==
    /\ Does("fetch") /\ q \in DOMAIN rows
    /\ rows[q].fetching => rows[q].retrying
    /\ jobs' = jobs \cup {NewJob(q, {t} \ {None})}
    /\ issued' = [issued EXCEPT !.fetch = @ + 1]
    /\ rows' = [rows EXCEPT ![q] = [@ EXCEPT !.fetching = TRUE, !.retrying = FALSE]]
    /\ Emit(<<FetchEvent("fetch:start", NewJob(q, {t} \ {None}))>>, TRUE)
    /\ UNCHANGED writes

Current(job) == job.query \in DOMAIN rows /\ rows[job.query].gen = job.gen

EndFetch(job, ok) ==
    /\ Does("fetch")
    /\ jobs' = jobs \ {job}
    /\ rows' = IF Current(job) THEN [rows EXCEPT ![job.query].fetching = FALSE] ELSE rows
    /\ Emit(<<FetchEvent(IF ok THEN "fetch:end" ELSE "fetch:error", job)>>, Current(job))
    /\ UNCHANGED <<writes, issued>>

\* An attempt fails and another is to follow: nothing changes in the store.
Retry(job) ==
    /\ Does("retry") /\ Current(job)
    /\ jobs' = jobs \ {job}
    /\ rows' = [rows EXCEPT ![job.query].retrying = TRUE]
    /\ Emit(<<FetchEvent("fetch:error", job)>>, FALSE)
    /\ UNCHANGED <<writes, issued>>

\* A dirty query fetches again from within its answer: the new fetch starts
\* before the old one is said to have ended.
EndAgain(job) ==
    /\ Does("retry") /\ Current(job)
    /\ jobs' = (jobs \ {job}) \cup {NewJob(job.query, {})}
    /\ issued' = [issued EXCEPT !.fetch = @ + 1]
    /\ rows' = rows
    /\ Emit(<<FetchEvent("fetch:start", NewJob(job.query, {})), FetchEvent("fetch:end", job)>>, TRUE)
    /\ UNCHANGED writes

TraceEvent(kind, t) == [kind |-> kind, trace |-> t, traces |-> {t}]

Realtime ==
    /\ Does("realtime")
    /\ issued' = [issued EXCEPT !.trace = @ + 1]
    /\ rows' = rows
    /\ Emit(<<TraceEvent("realtime", issued.trace + 1), TraceEvent("cache:updated", issued.trace + 1)>>, TRUE)
    /\ UNCHANGED <<jobs, writes>>

Reconnect ==
    /\ Does("connection")
    /\ issued' = [issued EXCEPT !.trace = @ + 1]
    /\ rows' = rows
    /\ Emit(<<TraceEvent("connection", issued.trace + 1), TraceEvent("reconnect:sweep", issued.trace + 1)>>, FALSE)
    /\ UNCHANGED <<jobs, writes>>

WriteEvent(kind, w) == [kind |-> kind, write |-> w.id, trace |-> w.trace]

StartWrite(optimistic) ==
    /\ Does("write")
    /\ issued' = [issued EXCEPT !.trace = @ + 1, !.write = @ + 1]
    /\ rows' = rows
    /\ LET w == [id |-> issued.write + 1, trace |-> issued.trace + 1, optimistic |-> optimistic]
       IN  writes' = writes \cup {w} /\ Emit(<<WriteEvent("mutate:start", w)>>, optimistic)
    /\ UNCHANGED jobs

UpdateWrite(w) ==
    /\ Does("update")
    /\ rows' = rows
    /\ Emit(<<WriteEvent("mutate:update", w)>>, w.optimistic)
    /\ UNCHANGED <<jobs, writes, issued>>

EndWrite(w, ok) ==
    /\ Does("write")
    /\ writes' = writes \ {w}
    /\ rows' = rows
    /\ Emit(CASE ok -> <<WriteEvent("mutate:end", w)>>
              [] ~ok /\ w.optimistic -> <<WriteEvent("mutate:rollback", w), WriteEvent("mutate:error", w)>>
              [] OTHER -> <<WriteEvent("mutate:error", w)>>, TRUE)
    /\ UNCHANGED <<jobs, issued>>

-----------------------------------------------------------------------------
(* The one who reads the devtools.                                         *)

Read ==
    /\ c' = Snapshot(c, IF InPage THEN rows ELSE remote) /\ c' # c
    /\ UNCHANGED <<facts, steps, missed, workload, instance, bridge>>

Clear ==
    /\ Does("clear") /\ InPage
    /\ c' \in {ClearEvents(c), ClearTimeline(c), Reset(c)}
    /\ UNCHANGED <<facts, missed, workload, instance, bridge>>

TenMinutesPass ==
    /\ Does("clear") /\ InPage /\ jobs # {}
    /\ c' = [c EXCEPT !.cutoff = c.time + 1]
    /\ UNCHANGED <<facts, missed, workload, instance, bridge>>

-----------------------------------------------------------------------------
(* The panel and the page.                                                 *)

Disturbed == steps.panel < MaxPanel /\ steps' = [steps EXCEPT !.panel = @ + 1]

Beside == UNCHANGED <<instance, workload, facts>>

Ask(requests) == wire' = wire \o requests

\* start, when the panel is shown
Show ==
    /\ ~InPage /\ ~panel.running
    /\ IF Polling(panel)
       THEN panel' = Shown(panel) /\ UNCHANGED wire
       ELSE panel' = Begun(Shown(panel)) /\ Ask(<<FirstRequest(Shown(panel))>>)
    /\ UNCHANGED <<c, page, answer, remote, told, steps, missed>> /\ Beside

Goodbye(id) == IF id = NoSession THEN << >> ELSE <<Request("disconnect", id, 0)>>

\* stop, when it is hidden
Hide ==
    /\ Disturbed /\ panel.running
    /\ panel' = Hidden(panel)
    /\ Ask(Goodbye(panel.session))
    /\ missed' = (missed \/ panel.session # NoSession)
    /\ UNCHANGED <<c, page, answer, remote, told>> /\ Beside

\* resetForNavigation
HearNavigation ==
    /\ ~InPage /\ ~told
    /\ told' = TRUE
    /\ LET hidden == Hidden(panel)
           shown  == Shown(hidden)
       IN  IF ~panel.running THEN panel' = hidden /\ Ask(Goodbye(panel.session))
           ELSE IF Polling(panel) THEN panel' = shown /\ Ask(Goodbye(panel.session))
           ELSE panel' = Begun(shown) /\ Ask(Goodbye(panel.session) \o <<FirstRequest(shown)>>)
    /\ c' = Reset(c) /\ remote' = << >> /\ missed' = FALSE
    /\ UNCHANGED <<page, answer, steps>> /\ Beside

PollTimerFires ==
    /\ panel.timer
    /\ IF Polling(panel) THEN UNCHANGED <<panel, wire>>  \* and is set again
       ELSE panel' = Begun(panel) /\ Ask(<<FirstRequest(panel)>>)
    /\ UNCHANGED <<c, page, answer, remote, told, steps, missed>> /\ Beside

Execute(request) ==
    CASE request.op = "disconnect" ->
            page' = Disconnected(page, request.session) /\ UNCHANGED <<answer, steps>>
      [] request.op = "close" ->
            /\ page' = Disconnected(page, request.session)
            /\ answer' = [is |-> "closed"] /\ UNCHANGED steps
      [] request.op = "connect" /\ page.instance ->
            /\ page' = Connected(page, steps.session + 1)
            /\ answer' = [is |-> "session", session |-> steps.session + 1]
            /\ steps' = [steps EXCEPT !.session = @ + 1]
      [] request.op = "read" /\ request.session \in DOMAIN page.sessions ->
            /\ page' = ReadBy(page, request.session, request.version)
            /\ answer' = [is |-> "frame",
                          frame |-> Frame(page.sessions[request.session], request.version, rows)]
            /\ UNCHANGED steps
      [] OTHER -> answer' = [is |-> "null"] /\ UNCHANGED <<page, steps>>

PageRuns ==
    /\ wire # << >>
    /\ wire' = Tail(wire)
    /\ Execute(Head(wire))
    /\ UNCHANGED <<c, panel, remote, told, missed>> /\ Beside

\* Something the page inspects throws, before anything is marked as sent.
PageThrows ==
    /\ Disturbed /\ wire # << >> /\ Head(wire).op \in {"connect", "read"}
    /\ wire' = Tail(wire)
    /\ answer' = [is |-> "throw"]
    /\ UNCHANGED <<c, page, panel, remote, told, missed>> /\ Beside

Stale == panel.poll.gen # panel.gen

\* A poll of an earlier run gives back the session it was given.
HearStale ==
    /\ answer.is # "none" /\ Stale
    /\ IF answer.is = "session"
       THEN /\ Ask(<<Request("close", answer.session, 0)>>)
            /\ panel' = [panel EXCEPT !.poll.stage = "close"]
       ELSE panel' = Done(panel) /\ UNCHANGED wire
    /\ answer' = NoAnswer
    /\ UNCHANGED <<c, page, remote, told, steps, facts, missed, workload, instance>>

HearSession ==
    /\ answer.is = "session" /\ ~Stale
    /\ panel' = [panel EXCEPT !.session = answer.session, !.poll.stage = "read"]
    /\ Ask(<<Request("read", answer.session, panel.version)>>)
    /\ answer' = NoAnswer
    /\ UNCHANGED <<c, page, remote, told, steps, missed>> /\ Beside

\* No bridge, no instance, or no such session.
HearNothing ==
    /\ answer.is \in {"null", "throw"} /\ ~Stale
    /\ panel' = Done(IF answer.is = "null" THEN DroppedConnection(panel) ELSE panel)
    /\ answer' = NoAnswer
    /\ UNCHANGED <<c, page, wire, remote, told, steps, missed>> /\ Beside

\* #publishRead, and ingest of the remote collector
HearFrame ==
    /\ answer.is = "frame" /\ ~Stale
    /\ panel' = Done([panel EXCEPT !.version = answer.frame.version])
    /\ remote' = IF answer.frame.rows = {} THEN remote ELSE CHOOSE r \in answer.frame.rows : TRUE
    /\ Collect([c EXCEPT !.dirty = @ \/ answer.frame.rows # {}], answer.frame.events, remote')
    /\ answer' = NoAnswer
    /\ UNCHANGED <<page, wire, told, steps, missed, workload, instance>>

Register(recent) ==
    /\ ~InPage /\ ~page.instance
    /\ recent => page.marker
    /\ page' = Registered(page, recent)
    /\ UNCHANGED <<c, panel, wire, answer, remote, told, steps, missed>> /\ Beside

\* Ten seconds after a start nobody has connected.
CaptureExpires ==
    /\ page.capturing
    /\ page' = CaptureClosed(page)
    /\ UNCHANGED <<c, panel, wire, answer, remote, told, steps, missed>> /\ Beside

\* The panel has the session, or will hear of it.
Wanted(id) == id = panel.session \/ (answer.is = "session" /\ answer.session = id)

\* Five seconds without a read.
Expire(id) ==
    /\ IF Wanted(id) THEN Disturbed ELSE UNCHANGED steps
    /\ page' = Closed(page, id)
    /\ missed' = (missed \/ id = panel.session)
    /\ UNCHANGED <<c, panel, wire, answer, remote, told>> /\ Beside

Navigate ==
    /\ Disturbed /\ page.instance
    /\ page' = NewPage(page.marker)
    /\ told' = FALSE
    /\ rows' = << >> /\ jobs' = {} /\ writes' = {}
    /\ issued' = NothingIssued
    /\ missed' = TRUE
    /\ UNCHANGED <<c, panel, wire, answer, remote, workload, facts>>

Next ==
    \/ \E q \in Queries : Appear(q) \/ Vanish(q)
    \/ \E q \in Queries, t \in 0 .. issued.trace : StartFetch(q, t)
    \/ \E job \in jobs : Retry(job) \/ EndAgain(job) \/ \E ok \in BOOLEAN : EndFetch(job, ok)
    \/ Realtime \/ Reconnect
    \/ \E optimistic \in BOOLEAN : StartWrite(optimistic)
    \/ \E w \in writes : UpdateWrite(w) \/ \E ok \in BOOLEAN : EndWrite(w, ok)
    \/ Read \/ Clear \/ TenMinutesPass
    \/ Show \/ Hide \/ HearNavigation \/ PollTimerFires
    \/ PageRuns \/ PageThrows
    \/ HearStale \/ HearSession \/ HearNothing \/ HearFrame
    \/ \E recent \in BOOLEAN : Register(recent)
    \/ CaptureExpires \/ Navigate
    \/ \E id \in DOMAIN page.sessions : Expire(id)

Spec == Init /\ [][Next]_vars

\* Timers, expressions and answers run; a session nobody reads expires.
Fairness ==
    /\ WF_vars(PollTimerFires) /\ WF_vars(PageRuns)
    /\ WF_vars(HearStale) /\ WF_vars(HearSession) /\ WF_vars(HearNothing) /\ WF_vars(HearFrame)
    /\ WF_vars(HearNavigation)
    /\ WF_vars(\E id \in DOMAIN page.sessions : ~Wanted(id) /\ Expire(id))

FairSpec == Spec /\ Fairness

-----------------------------------------------------------------------------
(* Properties.                                                             *)

TypeOK ==
    /\ DOMAIN c.queries \subseteq Queries /\ DOMAIN rows \subseteq Queries
    /\ Len(c.events) <= EventLimit /\ Len(c.realtime) <= EventLimit
    /\ Len(c.connection) <= EventLimit /\ Len(c.kept) <= PayloadLimit
    /\ \A q \in DOMAIN c.queries : Len(c.queries[q].spans) <= SpanLimit
    /\ jobs \subseteq [query : Queries, gen : Nat, fetch : Nat, traces : SUBSET Nat, start : Nat]
    /\ panel.session \in Nat /\ panel.version \in Nat
    /\ \A id \in DOMAIN page.sessions : Len(page.sessions[id].events) <= FrameLimit

SpansOf(s) == UNION {Range(s.queries[q].spans) : q \in DOMAIN s.queries}

ActiveOf(s) ==
    UNION {{s.queries[q].active[f] : f \in DOMAIN s.queries[q].active} : q \in DOMAIN s.queries}

Held(s) ==
    (Range(s.events) \cup {item.payload : item \in Range(s.realtime)}
     \cup {span.outcome : span \in SpansOf(s)} \cup {span.params : span \in ActiveOf(s)}
     \cup {s.queries[q].error : q \in DOMAIN s.queries}
     \cup UNION {{s.writes[w].args, s.writes[w].error} : w \in DOMAIN s.writes})
    \ (s.gone \cup {None})

\* What the devtools hold of payloads is exactly what can be read of them: a
\* value whose item has left every log and lane has no handle left to keep it,
\* and nothing that is still shown has lost its handle, so that it would be
\* kept for ever (payloadRetention.ts:7).  The params of a span that has ended
\* are the exception, see moved.
RetentionIsExact == told => Held(c) = Range(c.kept) \ c.moved

\* The panel has all its session has to tell.
UpToDate ==
    \/ InPage
    \/ /\ ~missed /\ panel.session \in DOMAIN page.sessions /\ answer.is = "none"
       /\ LET session == page.sessions[panel.session]
          IN  session.events = << >> /\ ~session.rowsDirty

\* With everything told, what the devtools show as in flight is: a fetch or a
\* write they show running has not ended, none is missing among the writes,
\* and a query shown as present is of the instance's generation and fetching
\* when it is - late ends of old generations, retries and events that come in
\* the order of emission notwithstanding (collector.ts:957, 1041).
InFlightIsTrue ==
    UpToDate =>
        /\ \A q \in DOMAIN c.queries : DOMAIN c.queries[q].active \subseteq {job.fetch : job \in jobs}
        /\ \A w \in DOMAIN c.writes : InFlight(c.writes[w]) <=> \E v \in writes : v.id = w
        /\ \A q \in DOMAIN c.queries :
              c.queries[q].present /\ ~c.dirty =>
                 /\ q \in DOMAIN rows /\ rows[q].gen = c.queries[q].gen
                 /\ rows[q].fetching = c.queries[q].fetching \/ rows[q].retrying

\* What was learnt of a trace is there as long as an item of the timeline is
\* about it, whatever else has been trimmed (collector.ts:1461).
TracesFollowItems ==
    \A item \in Range(c.realtime) \cup Range(c.connection) :
          item.trace \in DOMAIN c.traces /\ c.traces[item.trace] = facts[item.trace]

\* What is kept of payloads and traces follows what can still be read.
RecordsAreExact == RetentionIsExact /\ TracesFollowItems

\* A panel that is shown polls, or has its timer running for it; and whatever
\* happens to the page, the connection and the panel, it comes to show what
\* the page has, and leaves no session behind that nobody reads
\* (extensions/README.md: "Reloading or navigating the inspected tab reconnects
\* the panel").
PanelCatchesUp ==
    /\ [](panel.running => panel.timer \/ panel.poll.gen = panel.gen)
    /\ []<>(/\ panel.running /\ page.instance => remote = rows
            /\ DOMAIN page.sessions \subseteq {panel.session})

=============================================================================
