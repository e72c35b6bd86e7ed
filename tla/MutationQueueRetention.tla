------------------------ MODULE MutationQueueRetention ------------------------
(***************************************************************************)
(* Who keeps a mutation queue alive: the keyed queues Figbird registers    *)
(* (lib/core/figbird.ts), and the hook that takes them                     *)
(* (lib/react/useMutationQueue.ts).                                        *)
(*                                                                         *)
(* One definition and key are modelled, for entries of different keys do   *)
(* not touch each other, next to components whose hook has no key and owns *)
(* its queue.  A queue is reduced to its status: its writes, retries and   *)
(* debounces are the subject of MutationQueue.  Every action is a task of  *)
(* the event loop together with the microtasks it leaves.                  *)
(*                                                                         *)
(* React is the environment: a render may be thrown away; a commit runs    *)
(* the cleanups of the components it removes or hides (<Activity>), then   *)
(* the effects of those it shows; StrictMode runs the effects of a new     *)
(* component twice, with a cleanup between.                                *)
(***************************************************************************)
EXTENDS Naturals, Sequences

CONSTANTS
    Components,  \* components that use the hook
    Keyed,       \* those whose hook has the key
    MaxQueues,   \* bound: queues created
    MaxCalls,    \* bound: calls that find the queue idle
    MaxFails     \* bound: writes that fail

ASSUME RetentionAssumption ==
    /\ Keyed \subseteq Components
    /\ MaxQueues \in Nat /\ MaxCalls \in Nat /\ MaxFails \in Nat

VARIABLES
    hook,        \* of each component, its phase and the queue its useRef holds
    queues,      \* every queue created
    registered,  \* #keyedMutationQueues: the queue the key has, or none
    spent,
    \* History:
    stale        \* queues called after they had left the registry idle

vars == <<hook, queues, registered, spent, stale>>

None == 0

\* hid is history: the component has been hidden since it was mounted.
Unused == [phase |-> "out", queue |-> None, hid |-> FALSE]

\* A queue, and what the entry and the hooks' closures know of it: which
\* components retain it, whether the eviction timer runs.  given is whether a
\* component committed with it, so that the application may have it.
NewQueue ==
    [status |-> "idle", detached |-> FALSE, owners |-> {}, timer |-> FALSE, given |-> FALSE]

State == [queues |-> queues, registered |-> registered, hook |-> hook]

Become(s) ==
    /\ queues' = s.queues
    /\ registered' = s.registered
    /\ hook' = s.hook

Create(s, queue) == [s EXCEPT !.queues = Append(@, queue)]

-----------------------------------------------------------------------------
(* The queue.                                                              *)

\* detach(): what is scheduled is sent, a failure is discarded.
Detach(s, q) ==
    [s EXCEPT !.queues[q].detached = TRUE,
              !.queues[q].status = IF @ = "failed" THEN "idle" ELSE @]

-----------------------------------------------------------------------------
(* The registry.                                                           *)

\* Mutant: an evicted queue is forgotten as it is.
EvictQuietly(s, q) ==
    IF s.queues[q].owners # {} \/ s.registered # q THEN s
    ELSE [s EXCEPT !.registered = None, !.queues[q].timer = FALSE]

\* #evictMutationQueue
Evict(s, q) ==
    IF s.queues[q].owners # {} \/ s.registered # q THEN s
    ELSE LET gone == [s EXCEPT !.registered = None, !.queues[q].timer = FALSE]
         IN  IF s.queues[q].status = "idle" THEN gone ELSE Detach(gone, q)

\* #scheduleMutationQueueEviction
ScheduleEviction(s, q) == [s EXCEPT !.queues[q].timer = TRUE]

\* The entry's own subscription to the queue.
Notify(s, q) ==
    IF s.registered = q /\ s.queues[q].owners = {} /\ s.queues[q].status = "idle"
    THEN Evict(s, q) ELSE s

\* Mutant: only a release starts the retention time.
GetUnscheduled(s) ==
    IF s.registered # None THEN s
    ELSE [Create(s, NewQueue) EXCEPT !.registered = Len(s.queues) + 1]

\* getMutationQueue
GetMutationQueue(s) ==
    IF s.registered # None THEN s
    ELSE LET n == Len(s.queues) + 1
         IN  ScheduleEviction([Create(s, NewQueue) EXCEPT !.registered = n], n)

\* retainMutationQueue, which throws when the queue is not the registered one.
Retain(s, c, q) ==
    IF s.registered # q THEN [s EXCEPT !.hook[c].phase = "crashed"]
    ELSE [s EXCEPT !.queues[q].owners = @ \cup {c}, !.queues[q].timer = FALSE,
                   !.queues[q].given = TRUE]

\* Mutant: whoever leaves leaves for all.
ReleaseForAll(s, c, q) == [s EXCEPT !.queues[q].owners = {}]

\* The function it returns, up to its microtask ...
Release(s, c, q) == [s EXCEPT !.queues[q].owners = @ \ {c}]

\* Mutant: the last owner takes the queue along, finished or not.
AfterReleaseEvicts(s, q) == Evict(s, q)

\* ... and the microtask.
AfterRelease(s, q) ==
    IF s.queues[q].owners # {} \/ s.registered # q THEN s
    ELSE IF s.queues[q].status = "idle" THEN Evict(s, q) ELSE ScheduleEviction(s, q)

-----------------------------------------------------------------------------
(* The effect of useMutationQueue, its cleanup, and the cleanup's          *)
(* microtask.  A component that owns its queue marks it active by being    *)
(* among its owners.                                                       *)

RunEffect(s, c) ==
    LET q == s.hook[c].queue
    IN  IF c \in Keyed THEN Retain(s, c, q)
        ELSE [s EXCEPT !.queues[q].owners = {c}, !.queues[q].given = TRUE]

RunCleanup(s, c) == Release(s, c, s.hook[c].queue)

AfterCleanup(s, c) ==
    LET q == s.hook[c].queue
    IN  IF c \in Keyed THEN AfterRelease(s, q)
        ELSE IF s.queues[q].owners = {} THEN Detach(s, q) ELSE s

-----------------------------------------------------------------------------

Init ==
    /\ hook = [c \in Components |-> Unused]
    /\ queues = << >>
    /\ registered = None
    /\ spent = [calls |-> 0, fails |-> 0]
    /\ stale = {}

\* The first render of a component takes a queue; later ones keep it.
Render(c) ==
    /\ hook[c].phase = "out"
    /\ Len(queues) < MaxQueues \/ (c \in Keyed /\ registered # None)
    /\ LET s == IF c \in Keyed THEN GetMutationQueue(State) ELSE Create(State, NewQueue)
           q == IF c \in Keyed THEN s.registered ELSE Len(s.queues)
       IN  Become([s EXCEPT !.hook[c] = [Unused EXCEPT !.phase = "rendered", !.queue = q]])
    /\ UNCHANGED <<spent, stale>>

\* A render that is thrown away takes the useRef with it.
Discard(c) ==
    /\ hook[c].phase = "rendered"
    /\ hook' = [hook EXCEPT ![c] = Unused]
    /\ UNCHANGED <<queues, registered, spent, stale>>

\* The effects of a component that is shown; StrictMode runs those of a new one
\* twice, with the cleanup between.
Effects(s, c, strict) ==
    LET shown == RunEffect(s, c)
    IN  IF strict /\ shown.hook[c].phase = "rendered"
        THEN RunEffect(RunCleanup(shown, c), c) ELSE shown

\* The microtasks are over: of that cleanup, and of one that leaves or is hidden.
Arrived(s, c, strict) ==
    LET drained == IF strict /\ s.hook[c].phase = "rendered" THEN AfterCleanup(s, c) ELSE s
    IN  IF drained.hook[c].phase = "crashed" THEN drained
        ELSE [drained EXCEPT !.hook[c].phase = "mounted"]

Departed(s, c, hides) ==
    LET drained == AfterCleanup(s, c)
    IN  IF hides THEN [drained EXCEPT !.hook[c].phase = "hidden", !.hook[c].hid = TRUE]
        ELSE [drained EXCEPT !.hook[c] = Unused]

\* A commit: a component leaves or is hidden, one is shown, or one takes the place
\* of the other.
Leave(c, hides) ==
    /\ hook[c].phase = "mounted"
    /\ Become(Departed(RunCleanup(State, c), c, hides))
    /\ UNCHANGED <<spent, stale>>

Show(c, strict) ==
    /\ hook[c].phase \in {"rendered", "hidden"}
    /\ Become(Arrived(Effects(State, c, strict), c, strict))
    /\ UNCHANGED <<spent, stale>>

Replace(c, hides, d, strict) ==
    /\ hook[c].phase = "mounted" /\ hook[d].phase \in {"rendered", "hidden"}
    /\ Become(Arrived(Departed(Effects(RunCleanup(State, c), d, strict), c, hides), d, strict))
    /\ UNCHANGED <<spent, stale>>

\* An error boundary replaces what crashed.
Reset(c) ==
    /\ hook[c].phase = "crashed"
    /\ hook' = [hook EXCEPT ![c] = Unused]
    /\ UNCHANGED <<queues, registered, spent, stale>>

\* The application writes through a queue it was given, from a handler or
\* from asynchronous code that outlives its component.
Call(q) ==
    /\ spent.calls < MaxCalls
    /\ queues[q].given /\ queues[q].status = "idle" /\ ~queues[q].detached
    /\ queues' = [queues EXCEPT ![q].status = "working"]
    /\ spent' = [spent EXCEPT !.calls = @ + 1]
    /\ stale' = IF registered = q \/ \E c \in Components \ Keyed : hook[c].queue = q
                THEN stale ELSE stale \cup {q}
    /\ UNCHANGED <<hook, registered>>

\* The last write settles: #settled.
Finish(q) ==
    /\ queues[q].status = "working"
    /\ Become(Notify([State EXCEPT !.queues[q].status = "idle"], q))
    /\ UNCHANGED <<spent, stale>>

\* A write fails for good: a detached queue discards the rest, another waits.
Fail(q) ==
    /\ queues[q].status = "working" /\ spent.fails < MaxFails
    /\ IF queues[q].detached
       THEN Become(Notify([State EXCEPT !.queues[q].status = "idle"], q))
       ELSE Become([State EXCEPT !.queues[q].status = "failed"])
    /\ spent' = [spent EXCEPT !.fails = @ + 1]
    /\ UNCHANGED stale

\* Somebody who still has the queue retries, or discards what failed.
Retry(q) ==
    /\ queues[q].status = "failed"
    /\ queues' = [queues EXCEPT ![q].status = "working"]
    /\ UNCHANGED <<hook, registered, spent, stale>>

DiscardFailure(q) ==
    /\ queues[q].status = "failed"
    /\ Become(Notify([State EXCEPT !.queues[q].status = "idle"], q))
    /\ UNCHANGED <<spent, stale>>

\* Five minutes have passed.
TimerFires(q) ==
    /\ queues[q].timer
    /\ Become(Evict([State EXCEPT !.queues[q].timer = FALSE], q))
    /\ UNCHANGED <<spent, stale>>

Next ==
    \/ \E c \in Components : Render(c) \/ Discard(c) \/ Reset(c)
    \/ \E c \in Components, hides \in BOOLEAN : Leave(c, hides)
    \/ \E c \in Components, strict \in BOOLEAN : Show(c, strict)
    \/ \E c, d \in Components, hides, strict \in BOOLEAN : Replace(c, hides, d, strict)
    \/ \E q \in DOMAIN queues :
            \/ Call(q) \/ Finish(q) \/ Fail(q) \/ Retry(q) \/ DiscardFailure(q)
            \/ TimerFires(q)

Spec == Init /\ [][Next]_vars

\* The eviction timer is the only thing the code promises to run by itself.
Fairness ==
    \A q \in 1 .. MaxQueues :
        \/ []<>(q \notin DOMAIN queues \/ ~queues[q].timer)
        \/ []<><<q \in DOMAIN queues /\ TimerFires(q)>>_vars

FairSpec == Spec /\ Fairness

-----------------------------------------------------------------------------
(* Properties.                                                             *)

Queue ==
    [status : {"idle", "working", "failed"}, detached : BOOLEAN,
     owners : SUBSET Components, timer : BOOLEAN, given : BOOLEAN]

TypeOK ==
    /\ hook \in [Components -> [phase : {"out", "rendered", "mounted", "hidden", "crashed"},
                               queue : 0 .. MaxQueues, hid : BOOLEAN]]
    /\ queues \in Seq(Queue) /\ Len(queues) <= MaxQueues
    /\ registered \in 0 .. Len(queues)

\* The components that are shown and have never been hidden can use their
\* queue, and those with the key share the one that is registered: neither
\* StrictMode nor a hand-over from one page to the next detaches or evicts it
\* (figbird.ts:839, useMutationQueue.ts:88).
OwnersCanUseTheirQueue ==
    \A c \in Components :
        hook[c].phase = "mounted" /\ ~hook[c].hid =>
            /\ ~queues[hook[c].queue].detached
            /\ c \in Keyed => registered = hook[c].queue

\* A failure that waits for a decision can be reached by the next component
\* with the key, or is of a queue whose component is there: what is left
\* behind has been detached (figbird.ts:870).  Calls through a queue that had
\* already left the registry are the exception: it was idle, and is not
\* detached.
FailuresAreReachable ==
    \A q \in DOMAIN queues \ stale :
        queues[q].status = "failed" =>
            \/ registered = q
            \/ \E c \in Components \ Keyed : hook[c].queue = q /\ hook[c].phase = "mounted"

\* A queue is there for its owner, and its failure for whoever can decide about it.
QueuesAreReachable == OwnersCanUseTheirQueue /\ FailuresAreReachable

\* Unfinished work keeps its place in the registry, whoever comes and goes,
\* until the retention time is over (figbird.ts:851).
UnfinishedIsKept ==
    [][\A q \in DOMAIN queues :
            registered = q /\ queues[q].status # "idle" /\ queues'[q].status # "idle"
                => \/ registered' = q
                   \/ queues[q].timer /\ queues[q].owners = {}]_vars

\* No queue stays registered for ever without an owner, one that was only
\* rendered included (figbird.ts:829).
UnownedQueuesLeave == []<>(registered = None \/ queues[registered].owners # {})

=============================================================================
