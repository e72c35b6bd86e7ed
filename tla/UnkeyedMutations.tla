---------------------------- MODULE UnkeyedMutations ----------------------------
(***************************************************************************)
(* Writes that take no lane, and the hooks that tell of writes: creates of *)
(* several records and patches of all, custom methods, and the writes of   *)
(* the deprecated useMutation, which keeps its concurrent transport        *)
(* (lib/core/queryStore.ts, mutations.ts); the tracker behind useMutating  *)
(* (lib/core/mutationTracker.ts), useAction and useMutation (lib/react).   *)
(* Writes of one known record wait in a lane: EntityStore, MutationQueue.  *)
(*                                                                         *)
(* The server, other clients and React are the environment.  Requests are  *)
(* executed or refused in any order; answers and the events of every write *)
(* come to the client in the order of the writes, but that answers may be  *)
(* late.  A component may be hidden (<Activity>) and shown again, which    *)
(* runs its effects' cleanups and its effects.                             *)
(***************************************************************************)
EXTENDS Naturals, Sequences, FiniteSets, SequencesExt, FiniteSetsExt

CONSTANTS
    Ids,        \* records
    Stored,     \* the sets of records the server may have at first
    Actors,     \* components with a useAction and a useMutation of the service
    MaxCalls,   \* bound: writes called
    MaxRevs,    \* bound: revisions the server gives out
    MaxHides    \* bound: components hidden

Absent == 0
Local == 1000  \* an optimistic row: it has no revision of the server's

ASSUME UnkeyedAssumption ==
    /\ IsFiniteSet(Ids) /\ Stored \subseteq SUBSET Ids
    /\ MaxCalls \in Nat \ {0} /\ MaxRevs \in 1 .. Local - 1 /\ MaxHides \in Nat

VARIABLES
    cache,     \* the revision of each record, Absent or Local
    queue,     \* #eventQueue
    calls,     \* the writes called, and what has become of them
    tracker,   \* MutationTracker: those in flight
    heard,     \* what useMutating's subscribers were told last, and the outcomes unseen then
    actors,    \* the components
    \* The environment:
    server, clock, requests, wire, hides

vars == <<cache, queue, calls, tracker, heard, actors, server, clock, requests, wire, hides>>

\* What useMutating can be asked: about a record, or the whole service.
Whole == "service"
Filters == Ids \cup {Whole}

NoOutcome == [kind |-> "none", call |-> 0]
Outcome(m, ok) == [kind |-> IF ok THEN "data" ELSE "error", call |-> m]

\* hid is history: the component has been hidden.
NewActor ==
    [phase |-> "mounted", hid |-> FALSE,
     action |-> [pending |-> 0, slot |-> NoOutcome],
     mutation |-> [status |-> "idle", data |-> 0, error |-> 0]]

State == [cache |-> cache, queue |-> queue, calls |-> calls, tracker |-> tracker,
          heard |-> heard, actors |-> actors]

Become(s) ==
    /\ cache' = s.cache
    /\ queue' = s.queue
    /\ calls' = s.calls
    /\ tracker' = s.tracker
    /\ heard' = s.heard
    /\ actors' = s.actors

-----------------------------------------------------------------------------
(* Which writes come here.  A door is a handle (m.service), its confirmed  *)
(* variant, or what useMutation calls directly.                            *)

Unnamed == {"createMany", "patchAll", "call"}

\* createHandle: whether the write is shown before it is confirmed.
IsOptimistic(door, method) == door = "handle" /\ method # "call"

\* registerMutation: whether the write waits in the lane of its record.
TakesLane(door, method) == door # "direct" /\ method \notin Unnamed

\* The record a tracker entry names.
Named(call) == IF call.method \in Unnamed THEN {} ELSE call.ids

-----------------------------------------------------------------------------
(* The cache.                                                              *)

\* Mutant: what comes last stays.
AppliedBlindly(rows, event) ==
    [rows EXCEPT ![event.id] = IF event.type = "removed" THEN Absent ELSE event.rev]

\* applyEventsToService: an older revision does not replace a newer one.
Applied(rows, event) ==
    CASE event.type = "removed" -> [rows EXCEPT ![event.id] = Absent]
      [] event.type = "patched" /\ rows[event.id] \in event.rev + 1 .. Local - 1 -> rows
      [] OTHER -> [rows EXCEPT ![event.id] = event.rev]

AllApplied(rows, events) ==
    LET after[i \in 0 .. Len(events)] ==
            IF i = 0 THEN rows ELSE Applied(after[i - 1], events[i])
    IN  after[Len(events)]

\* queueEvent
Queued(s, events) == [s EXCEPT !.queue = @ \o events]

\* processQueuedEvents
Flush(s) == [s EXCEPT !.cache = AllApplied(@, s.queue), !.queue = << >>]

\* #processEvent: at once, with whatever waits before it.
ProcessEvent(s, events) == Flush(Queued(s, events))

EventType(method) ==
    CASE method \in {"create", "createMany"} -> "created"
      [] method = "remove" -> "removed"
      [] OTHER -> "patched"

\* One event for each record of a payload.
EventsOf(type, ids, rev) ==
    LET list == SetToSeq(ids)
    IN  [i \in 1 .. Cardinality(ids) |-> [type |-> type, id |-> list[i], rev |-> rev]]

-----------------------------------------------------------------------------
(* The tracker.                                                            *)

\* useMutating()
Busy(s, filter) == \E m \in s.tracker : filter = Whole \/ filter \in Named(s.calls[m])

\* A call has an outcome the rows do not show: neither what it wrote nor something
\* later; or, of a batch create, rows that were only shown for it.
Unseen(s, m) ==
    LET call == s.calls[m]
    IN  \/ call.phase = "done" /\ call.method # "call"
           /\ \E id \in call.ids : s.cache[id] # Absent
                /\ s.cache[id] \notin call.rev + (IF call.method = "remove" THEN 1 ELSE 0) .. Local - 1
        \/ call.phase # "sent" /\ \E id \in call.ids : s.cache[id] = Local

\* #changed: its subscribers read the snapshot at once.
Changed(s) ==
    [s EXCEPT !.heard = [f \in Filters |->
        [busy   |-> Busy(s, f),
         unseen |-> {m \in DOMAIN s.calls : (f = Whole \/ f \in Named(s.calls[m])) /\ Unseen(s, m)}]]]

\* start() and end()
Start(s, m) == Changed([s EXCEPT !.tracker = @ \cup {m}])

End(s, m) == Changed([s EXCEPT !.tracker = @ \ {m}])

-----------------------------------------------------------------------------
(* The hooks.  mountedRef keeps the outcome from a component whose effects *)
(* are not connected.                                                      *)

\* Mutant: pending is a flag.
ActionStartedFlag(a) == [pending |-> 1, slot |-> NoOutcome]

\* actionReducer: start, success and failure.
ActionStarted(a) == [pending |-> a.pending + 1, slot |-> NoOutcome]

ActionSettled(a, outcome) == [pending |-> a.pending - 1, slot |-> outcome]

\* mutationReducer: mutating, success and error.
MutationStarted(a) == [status |-> "loading", data |-> 0, error |-> 0]

MutationSettled(a, outcome) ==
    IF outcome.kind = "data" THEN [a EXCEPT !.status = "success", !.data = outcome.call]
                             ELSE [a EXCEPT !.status = "error", !.error = outcome.call]

\* run(), and executeMutation up to its await.
ActorBegan(actor, door) ==
    IF door = "direct" THEN [actor EXCEPT !.mutation = MutationStarted(@)]
                       ELSE [actor EXCEPT !.action = ActionStarted(@)]

Begun(s, c, door) == [s EXCEPT !.actors[c] = ActorBegan(@, door)]

\* The promise of the write settles: the body of the action, or executeMutation, goes on.
ActorTold(actor, door, outcome) ==
    CASE actor.phase # "mounted" -> actor
      [] actor.phase = "mounted" /\ door = "direct" ->
            [actor EXCEPT !.mutation = MutationSettled(@, outcome)]
      [] OTHER -> [actor EXCEPT !.action = ActionSettled(@, outcome)]

Told(s, m, ok) ==
    [s EXCEPT !.actors[s.calls[m].by] = ActorTold(@, s.calls[m].door, Outcome(m, ok))]

-----------------------------------------------------------------------------
(* The writes.                                                             *)

\* The hooks of a write, run when it has settled: the cache shows the
\* outcome.  A custom method's is not known; a failed create is undone.
OnSettled(s, m, ok, ids, rev) ==
    LET call == s.calls[m]
    IN  CASE ok /\ call.method # "call" -> ProcessEvent(s, EventsOf(EventType(call.method), ids, rev))
          [] ~ok /\ IsOptimistic(call.door, call.method) /\ call.method = "createMany" ->
                 ProcessEvent(s, EventsOf("removed", call.ids, Absent))
          [] OTHER -> s

\* What an answer makes of its write.
Ended(call, ok, ids, rev) ==
    [call EXCEPT !.phase = IF ok THEN "done" ELSE "failed", !.ids = IF ok THEN ids ELSE @, !.rev = rev]

\* Mutant: the tracker's entry ends first.
SettledAfterEnd(s, m, ok, ids, rev) ==
    LET ended == [s EXCEPT !.calls[m] = Ended(@, ok, ids, rev)]
    IN  Told(OnSettled(End(ended, m), m, ok, ids, rev), m, ok)

\* #trackMutation, from its then() on.
Settled(s, m, ok, ids, rev) ==
    LET ended == [s EXCEPT !.calls[m] = Ended(@, ok, ids, rev)]
    IN  Told(End(OnSettled(ended, m, ok, ids, rev), m), m, ok)

\* #trackMutation up to the request: the entry starts before anything is shown.
Registered(s, call) ==
    LET m       == Len(s.calls) + 1
        started == Start([s EXCEPT !.calls = Append(@, call)], m)
    IN  IF IsOptimistic(call.door, call.method) /\ call.method = "createMany"
        THEN ProcessEvent(started, EventsOf("created", call.ids, Local)) ELSE started

Init ==
    /\ server \in {[id \in Ids |-> IF id \in held THEN 1 ELSE 0] : held \in Stored}
    /\ cache = server
    /\ queue = << >> /\ calls = << >> /\ tracker = {}
    /\ heard = [f \in Filters |-> [busy |-> FALSE, unseen |-> {}]]
    /\ actors = [c \in Actors |-> NewActor]
    /\ clock = 1 /\ requests = {} /\ wire = << >> /\ hides = 0

\* Ids given to creates are new.
Fresh(id) == server[id] = 0 /\ cache[id] = Absent /\ \A m \in DOMAIN calls : id \notin calls[m].ids

Sensible(method, ids) ==
    CASE method = "createMany" -> ids # {} /\ \A id \in ids : Fresh(id)
      [] method = "create" -> Cardinality(ids) = 1 /\ \A id \in ids : Fresh(id)
      [] method \in {"patch", "remove"} ->
            Cardinality(ids) = 1 /\ \A id \in ids : cache[id] \notin {Absent, Local}
      [] OTHER -> ids = {}

\* A component that is shown calls a write: run() of its action, or a method of its
\* useMutation.
Call(c, door, method, ids) ==
    /\ Len(calls) < MaxCalls
    /\ actors[c].phase = "mounted"
    /\ ~TakesLane(door, method) /\ (door = "direct" => method \notin Unnamed)
    /\ Sensible(method, ids)
    /\ LET call == [by |-> c, door |-> door, method |-> method, ids |-> ids, rev |-> 0,
                    phase |-> "sent"]
       IN  Become(Registered(Begun(State, c, door), call))
    /\ requests' = requests \cup {Len(calls) + 1}
    /\ UNCHANGED <<server, clock, wire, hides>>

\* reset()
Reset(c) ==
    /\ actors[c].phase = "mounted" /\ actors[c].action.slot # NoOutcome
    /\ actors' = [actors EXCEPT ![c].action.slot = NoOutcome]
    /\ UNCHANGED <<cache, queue, calls, tracker, heard, server, clock, requests, wire, hides>>

\* The effects of a component: its cleanup when it is hidden, or for good; its
\* effect when it is shown again.  Without a write in flight the two change nothing.
Hide(c) ==
    /\ actors[c].phase = "mounted" /\ hides < MaxHides
    /\ \E m \in DOMAIN calls : calls[m].by = c /\ calls[m].phase = "sent"
    /\ actors' = [actors EXCEPT ![c].phase = "hidden", ![c].hid = TRUE]
    /\ hides' = hides + 1
    /\ UNCHANGED <<cache, queue, calls, tracker, heard, server, clock, requests, wire>>

Show(c) ==
    /\ actors[c].phase = "hidden"
    /\ actors' = [actors EXCEPT ![c].phase = "mounted"]
    /\ UNCHANGED <<cache, queue, calls, tracker, heard, server, clock, requests, wire, hides>>

-----------------------------------------------------------------------------
(* The environment.                                                        *)

Events(method, ids, rev) == EventsOf(EventType(method), ids, rev)

\* What a write changes on the server.
Targets(call) == IF call.method = "patchAll" THEN {id \in Ids : server[id] # 0} ELSE call.ids

Executable(call) ==
    IF call.method \in {"create", "createMany"} THEN \A id \in call.ids : server[id] = 0
    ELSE \A id \in Targets(call) : server[id] # 0

Written(method, ids, rev) ==
    [id \in Ids |-> IF id \notin ids THEN server[id] ELSE IF method = "remove" THEN 0 ELSE rev]

\* The server handles a request: it refuses it or executes it, and tells of it
\* before or after the events; what it executed may be reported as a failure,
\* unless rows were shown for it already.
Handle(m, done, ok, eventsFirst) ==
    LET call   == calls[m]
        ids    == IF call.method = "call" THEN {} ELSE Targets(call)
        rev    == clock + 1
        answer == << [kind |-> "answer", call |-> m, ok |-> ok, ids |-> ids, rev |-> rev] >>
        events == IF done THEN << [kind |-> "events", list |-> Events(call.method, ids, rev)] >>
                  ELSE << >>
    IN  /\ m \in requests
        /\ ok => done
        /\ done => Executable(call) /\ clock < MaxRevs
        /\ done /\ ~ok => call.method # "createMany"
        /\ ~done => ~eventsFirst
        /\ requests' = requests \ {m}
        /\ server' = IF done THEN Written(call.method, ids, rev) ELSE server
        /\ clock' = IF done THEN rev ELSE clock
        /\ wire' = wire \o (IF eventsFirst THEN events \o answer ELSE answer \o events)
        /\ UNCHANGED <<cache, queue, calls, tracker, heard, actors, hides>>

\* Another client writes.
OtherWrite(id, method) ==
    /\ server[id] # 0 /\ clock < MaxRevs
    /\ clock' = clock + 1
    /\ server' = Written(method, {id}, clock + 1)
    /\ wire' = Append(wire, [kind |-> "events", list |-> Events(method, {id}, clock + 1)])
    /\ UNCHANGED <<cache, queue, calls, tracker, heard, actors, requests, hides>>

\* What a message writes, and whether it removes it.
Touches(msg) ==
    IF msg.kind = "answer" THEN (IF msg.ok THEN msg.ids ELSE {}) ELSE {e.id : e \in ToSet(msg.list)}

Removes(msg) ==
    IF msg.kind = "answer" THEN calls[msg.call].method = "remove"
                           ELSE \E e \in ToSet(msg.list) : e.type = "removed"

\* Messages come in order but for answers, which may be late: that of a remove or a
\* create not later than another write of the record, which it would undo (its
\* revision is not compared), and no answer later than the record's removal.
MayPass(msg, earlier) ==
    /\ earlier.kind = "answer"
    /\ Touches(msg) \cap Touches(earlier) # {} =>
            ~Removes(msg) /\ calls[earlier.call].method \in {"patch", "patchAll"}

\* A message arrives: an answer, or events, which wait for the batch timer.
Deliver(i) ==
    /\ i \in DOMAIN wire /\ \A j \in 1 .. i - 1 : MayPass(wire[i], wire[j])
    /\ LET msg == wire[i]
       IN  Become(IF msg.kind = "answer" THEN Settled(State, msg.call, msg.ok, msg.ids, msg.rev)
                  ELSE Queued(State, msg.list))
    /\ wire' = RemoveAt(wire, i)
    /\ UNCHANGED <<server, clock, requests, hides>>

BatchTimer ==
    /\ queue # << >>
    /\ Become(Flush(State))
    /\ UNCHANGED <<server, clock, requests, wire, hides>>

\* The confirmed variant of a handle shows nothing for a batch create, which is then
\* like a patch of all.
Doors == {"handle", "direct"}
Methods == {"create", "createMany", "patch", "patchAll", "remove", "call"}

Next ==
    \/ \E c \in Actors, door \in Doors, method \in Methods, ids \in SUBSET Ids :
            Call(c, door, method, ids)
    \/ \E c \in Actors : Reset(c) \/ Hide(c) \/ Show(c)
    \/ \E m \in requests, done, ok, eventsFirst \in BOOLEAN : Handle(m, done, ok, eventsFirst)
    \/ \E id \in Ids, method \in {"patch", "remove"} : OtherWrite(id, method)
    \/ \E i \in DOMAIN wire : Deliver(i)
    \/ BatchTimer

Spec == Init /\ [][Next]_vars

-----------------------------------------------------------------------------
(* Properties.                                                             *)

Rows == [Ids -> 0 .. MaxRevs \cup {Local}]

TypeOK ==
    /\ cache \in Rows
    /\ \A i \in DOMAIN queue : queue[i].id \in Ids /\ queue[i].rev \in 0 .. MaxRevs
    /\ tracker \subseteq DOMAIN calls
    /\ heard \in [Filters -> [busy : BOOLEAN, unseen : SUBSET DOMAIN calls]]
    /\ \A c \in Actors :
            /\ actors[c].phase \in {"mounted", "hidden"}
            /\ actors[c].action.pending \in Nat
            /\ actors[c].mutation.status \in {"idle", "loading", "success", "error"}

InFlight(c, doors) == {m \in DOMAIN calls : calls[m].by = c /\ calls[m].phase = "sent"
                                            /\ calls[m].door \in doors}

\* When a subscriber of useMutating is told that nothing is being written, the
\* cache it reads shows every outcome: what was confirmed, or newer, and no row of a
\* create that failed (queryStore.ts:807).
NotBusyMeansShown ==
    \A f \in Filters : ~heard[f].busy => heard[f].unseen = {}

\* When everything has arrived the cache has the rows the server has, although the
\* answers of concurrent writes, the events of the same writes and those of others
\* are applied at once or in batches (queryStore.ts:710, 1989).
CacheConverges ==
    (requests = {} /\ wire = << >> /\ queue = << >>) => cache = server

\* A component that was never hidden is told of its own writes: the action is
\* pending while a run is in flight, however runs overlap, and shows the outcome
\* of one that settled; useMutation is not left loading (useAction.ts:56).
OwnStateIsTrue ==
    \A c \in {a \in Actors : actors[a].phase = "mounted" /\ ~actors[a].hid} :
        LET action   == actors[c].action
            mutation == actors[c].mutation
        IN  /\ action.pending = Cardinality(InFlight(c, {"handle"}))
            /\ action.slot # NoOutcome =>
                    calls[action.slot.call].phase = IF action.slot.kind = "data" THEN "done" ELSE "failed"
            /\ InFlight(c, {"direct"}) = {} => mutation.status # "loading"
            /\ mutation.status = "success" => calls[mutation.data].phase = "done"
            /\ mutation.status = "error" => calls[mutation.error].phase = "failed"

\* What hooks tell of writes is true: that none is under way, what became of them.
HooksTellTheTruth == NotBusyMeansShown /\ OwnStateIsTrue

=============================================================================
