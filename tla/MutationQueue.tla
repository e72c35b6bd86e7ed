---------------------------- MODULE MutationQueue ----------------------------
(***************************************************************************)
(* Mutation queues over the lanes of the store (lib/core/mutationQueue.ts, *)
(* gatedMutationAttempt.ts and the scheduling half of queryStore.ts).      *)
(*                                                                         *)
(* A queue sends its writes one at a time, each when its debounce is over; *)
(* a lane sends the writes of an entity one at a time, whoever made them.  *)
(* A write goes out when it is the head of both.  A write that is due      *)
(* expedites the writes of other queues it stands behind.                  *)
(*                                                                         *)
(* Only the scheduling is modelled: what the lanes project is the subject  *)
(* of EntityStore.  A mutation is one request; calls that coalesced into   *)
(* it share its number.                                                    *)
(***************************************************************************)
EXTENDS Naturals, Sequences, FiniteSets, MutationLanes

CONSTANTS
    Queue,        \* the mutation queues
    Debounced,    \* those with a schedule
    Patient,      \* the methods their schedule makes wait
    Id,           \* entities
    Methods,      \* "create", "patch", "remove", and "call" of a custom method
    Direct,       \* the methods that are called outside of any queue, too
    Retries,      \* bound: attempts a policy repeats by itself
    MaxCalls,     \* bound: calls of the application
    MaxFailures   \* bound: attempts that fail

NoQueue == "no queue"
NoEntity == "no entity"

ASSUME MutationQueueAssumption ==
    /\ IsFiniteSet(Queue) /\ NoQueue \notin Queue /\ NoEntity \notin Id
    /\ Debounced \subseteq Queue
    /\ Patient \subseteq Methods
    /\ Methods \subseteq {"create", "patch", "remove", "call"}
    /\ Direct \subseteq Methods \ {"call"}
    /\ Retries \in Nat /\ MaxCalls \in Nat /\ MaxFailures \in Nat

VARIABLES
    lanes,     \* [Id -> lane]
    items,     \* [1 .. MaxCalls -> item], the mutations registered so far
    queues,    \* [Queue -> queue]
    log,       \* the mutations in the order in which they were first sent
    calls,     \* how many calls the application has made
    failures,  \* how many attempts have failed
    discarded  \* history: what stood behind a failure its queue was discarded for

vars == <<lanes, items, queues, log, calls, failures, discarded>>

NoItem == [queue |-> NoQueue, id |-> NoEntity, method |-> "none", calls |-> {}, sent |-> {},
           ready |-> FALSE, attempt |-> "none", phase |-> "none", tries |-> 0,
           outcome |-> "none", observed |-> FALSE]

EmptyQueue == [items |-> << >>, flushThrough |-> 0, deciding |-> FALSE, detached |-> FALSE,
               timer |-> FALSE, status |-> "idle"]

Init ==
    /\ lanes = [id \in Id |-> NoLane]
    /\ items = [m \in 1 .. MaxCalls |-> NoItem]
    /\ queues = [q \in Queue |-> EmptyQueue]
    /\ log = << >>
    /\ calls = 0
    /\ failures = 0
    /\ discarded = {}

\* What the operations below thread through.
State == [lanes |-> lanes, items |-> items, queues |-> queues, log |-> log]

Become(s) ==
    /\ lanes' = s.lanes
    /\ items' = s.items
    /\ queues' = s.queues
    /\ log' = s.log

Entry(s, m) == [mutation |-> m, method |-> s.items[m].method, optimistic |-> FALSE]

\* The row the server answers with: which one does not matter here.
Answered == Row(1)

-----------------------------------------------------------------------------
(* Attempts and lanes.                                                     *)

\* #setSnapshot of the queue of a mutation.
Say(s, m, status) ==
    IF s.items[m].queue = NoQueue THEN s
    ELSE [s EXCEPT !.queues[s.items[m].queue].status = status]

Pending(s, m) == s.items[m].attempt = "pending"

\* GatedMutationAttempt.ready
Ready(s, m) == s.items[m].queue = NoQueue \/ s.items[m].ready

\* GatedMutationAttempt.start and the first attempt of #runControlledAttempt.
Start(s, m) ==
    Say([s EXCEPT !.items[m] = [@ EXCEPT !.attempt = "running", !.phase = "asked",
                                         !.tries = 1, !.sent = s.items[m].calls],
                  !.log = Append(@, m)],
        m, "saving")

\* GatedMutationAttempt.cancel of some mutations: what has started is not
\* cancelled.
CancelAttempts(s, doomed) ==
    [s EXCEPT !.items = [m \in DOMAIN s.items |->
        IF m \in doomed /\ Pending(s, m)
        THEN [s.items[m] EXCEPT !.attempt = "settled", !.outcome = "cancelled"]
        ELSE s.items[m]]]

\* #drainMutationLane: the head is sent once it is ready.
DrainLane(s, id) ==
    LET lane == s.lanes[id]
    IN  IF ~lane.open \/ lane.running THEN s
        ELSE IF lane.entries = << >> THEN [s EXCEPT !.lanes[id] = NoLane]
        ELSE LET m == Head(lane.entries).mutation
             IN  IF ~Ready(s, m) THEN s
                 ELSE Start([s EXCEPT !.lanes[id] = TakeNext(lane)], m)

\* What stands before a mutation in its lane.
Predecessors(s, m) ==
    LET entries == s.lanes[s.items[m].id].entries
        index   == SelectInSeq(entries, LAMBDA e : e.mutation = m)
    IN  { entries[i].mutation : i \in 1 .. index - 1 }

\* #expediteMutationPredecessors: those another queue still holds back.
HeldBack(s, m) ==
    IF s.items[m].id = NoEntity \/ ~Pending(s, m) THEN {}
    ELSE { p \in Predecessors(s, m) : Pending(s, p) /\ ~Ready(s, p) }

\* Mutant: what comes first of what is not ready, though the head is running.
WaitingAnywhere(s, q) ==
    LET waiting == { m \in ToSet(s.queues[q].items) : ~s.items[m].observed /\ ~s.items[m].ready }
    IN  IF s.queues[q].deciding THEN {}
        ELSE { m \in waiting : \A n \in waiting : m <= n }

\* The head of a queue that may be made ready: none while a failure waits for a
\* decision.
Waiting(s, q) ==
    IF s.queues[q].items = << >> \/ s.queues[q].deciding THEN {}
    ELSE { m \in {Head(s.queues[q].items)} : ~s.items[m].observed /\ ~s.items[m].ready }

\* Mutant: only the mutation itself becomes ready.
WokenAlone(s, m) == {m}

\* Everything that becomes ready with a mutation: the heads of the queues whose
\* writes stand before one of them in its lane, and so on.
Woken(s, m) ==
    LET next(ms) == ms \union UNION { Waiting(s, s.items[p].queue) :
                                         p \in UNION { HeldBack(s, w) : w \in ms } }
        wave[n \in 0 .. Cardinality(Queue)] == IF n = 0 THEN {m} ELSE next(wave[n - 1])
    IN  wave[Cardinality(Queue)]

\* What is woken is ready, its queue has no timer, and what is held back before it
\* is covered by a flush.
Awake(s, woken) ==
    LET held     == UNION { HeldBack(s, w) : w \in woken }
        flush(q) == Max({s.queues[q].flushThrough} \union { p \in held : s.items[p].queue = q })
        mine(q)  == \E n \in woken : s.items[n].queue = q
        item(n)  == IF n \in woken THEN [s.items[n] EXCEPT !.ready = TRUE] ELSE s.items[n]
        queue(q) == IF mine(q)
                    THEN [s.queues[q] EXCEPT !.flushThrough = flush(q), !.timer = FALSE,
                                             !.status = "scheduled"]
                    ELSE [s.queues[q] EXCEPT !.flushThrough = flush(q)]
    IN  [s EXCEPT !.items = [n \in DOMAIN s.items |-> item(n)],
                  !.queues = [q \in Queue |-> queue(q)]]

\* A mutation that is ready starts, or its lane is drained up to it.
Begin(s, m) ==
    IF ~Pending(s, m) THEN s
    ELSE IF s.items[m].id = NoEntity THEN Start(s, m)
    ELSE DrainLane(s, s.items[m].id)

\* whenReady of a mutation that is due: it expedites, then what can start does.
Wake(s, m) ==
    LET woken == Woken(s, m)
        begun[n \in 0 .. MaxCalls] ==
            IF n = 0 THEN Awake(s, woken)
            ELSE IF n \in woken THEN Begin(begun[n - 1], n) ELSE begun[n - 1]
    IN  begun[MaxCalls]

\* The deadline of #armCurrent has come: something unsettled of the queue does
\* not wait, or a flush reaches the head.
Due(s, q, m) ==
    \/ m <= s.queues[q].flushThrough
    \/ \E n \in ToSet(s.queues[q].items) :
          ~s.items[n].observed /\ ~ (q \in Debounced /\ s.items[n].method \in Patient)

Scheduled(s, q) == [s EXCEPT !.queues[q] = [@ EXCEPT !.timer = TRUE, !.status = "scheduled"]]

\* #armCurrent: the head is woken when it is due; otherwise its timer runs, see
\* Debounce.
Arm(s, q) ==
    LET head == CHOOSE m \in Waiting(s, q) : TRUE
    IN  IF Waiting(s, q) = {} THEN s
        ELSE IF Due(s, q, head) THEN Wake(s, head) ELSE Scheduled(s, q)

-----------------------------------------------------------------------------
(* Settlement.                                                             *)

\* settleQueuedMutation, or the end of a mutation without a lane.
Settlement(s, m, ok) ==
    LET item    == s.items[m]
        lane    == s.lanes[item.id]
        doomed  == Cancelled(Head(lane.entries), ok, Tail(lane.entries))
        settled == [s EXCEPT !.items[m] = [@ EXCEPT !.attempt = "settled", !.phase = "none",
                                                    !.outcome = IF ok THEN "done" ELSE "failed"]]
    IN  IF item.id = NoEntity THEN settled
        ELSE DrainLane(CancelAttempts([settled EXCEPT !.lanes[item.id] = Settle(lane, ok, Answered)],
                                      doomed),
                       item.id)

\* #cancelQueuedMutation
CancelQueued(s, m) ==
    LET cancelled == CancelAttempts(s, {m})
        id        == s.items[m].id
    IN  IF ~Pending(s, m) THEN s
        ELSE IF id = NoEntity THEN cancelled
        ELSE DrainLane([cancelled EXCEPT !.lanes[id] = Cancel(@, m)], id)

\* What a queue holds behind a mutation of its own.
Behind(s, m) ==
    { n \in ToSet(s.queues[s.items[m].queue].items) : n > m }

\* Mutant: only what waits for the same entity is discarded.
DiscardAfterOfEntity(s, m) ==
    FoldSet(LAMBDA n, t : CancelQueued(t, n), s,
            { n \in Behind(s, m) : s.items[n].id = s.items[m].id })

\* #discardAfter
DiscardAfter(s, m) ==
    LET left[n \in 0 .. MaxCalls] ==
          IF n = 0 THEN s
          ELSE IF n \in Behind(s, m) THEN CancelQueued(left[n - 1], n) ELSE left[n - 1]
    IN  left[MaxCalls]

\* A failure is final: the rest of the queue goes with it.
GiveUp(s, m) == Settlement(DiscardAfter(s, m), m, FALSE)

\* One more attempt of #runControlledAttempt.
Again(s, m) ==
    Say([s EXCEPT !.items[m] = [@ EXCEPT !.phase = "asked", !.tries = s.items[m].tries + 1,
                                         !.sent = s.items[m].calls]],
        m, "saving")

-----------------------------------------------------------------------------
(* The application.                                                        *)

NewItem(q, id, method) ==
    [NoItem EXCEPT !.queue = q, !.id = id, !.method = method, !.calls = {calls + 1},
                   !.attempt = "pending"]

\* The mutation after the last one registered.
NextItem == Cardinality({ m \in DOMAIN items : items[m] # NoItem }) + 1

\* registerMutation / registerCall: the mutation enters its lane, and its queue
\* before that.
Register(q, id, method) ==
    LET m  == NextItem
        s1 == [State EXCEPT !.items[m] = NewItem(q, id, method)]
        s2 == IF q = NoQueue THEN s1 ELSE [s1 EXCEPT !.queues[q].items = Append(@, m)]
        s3 == IF id = NoEntity THEN s2
              ELSE [s2 EXCEPT !.lanes[id] = Enqueue(Ensure(@, Answered), Entry(s2, m))]
    IN  IF q = NoQueue THEN Wake(s3, m) ELSE Arm(s3, q)

\* Mutant: a write coalesces into one that has been sent.
CoalescesAlways(s, q, id, method) ==
    /\ s.queues[q].items # << >>
    /\ LET tail == s.items[Last(s.queues[q].items)]
       IN  method = "patch" /\ tail.method = "patch" /\ tail.id = id /\ ~tail.observed

\* #canCoalesce, and tryUpdate's conditions: a patch of the entity the queue's
\* last patch is about, which has not come due and is the last of its lane.
Coalesces(s, q, id, method) ==
    /\ s.queues[q].items # << >>
    /\ LET m    == Last(s.queues[q].items)
           tail == s.items[m]
       IN  /\ method = "patch" /\ tail.method = "patch" /\ tail.id = id
           /\ ~tail.ready /\ ~tail.observed
           /\ Pending(s, m)
           /\ Last(s.lanes[id].entries).mutation = m

\* The entities a method may be about: "call" is about none.
Subjects(method) == IF method = "call" THEN {NoEntity} ELSE Id

\* #enqueueMutation / #enqueueCall of a queue.
Enqueued(q, id, method) ==
    /\ calls < MaxCalls
    /\ ~queues[q].detached
    /\ calls' = calls + 1
    /\ Become(IF Coalesces(State, q, id, method)
              THEN Arm([State EXCEPT !.items[Last(queues[q].items)].calls = @ \union {calls + 1}], q)
              ELSE Register(q, id, method))
    /\ UNCHANGED <<failures, discarded>>

\* A mutation made outside of any queue.
DirectCall(id, method) ==
    /\ calls < MaxCalls
    /\ calls' = calls + 1
    /\ Become(Register(NoQueue, id, method))
    /\ UNCHANGED <<failures, discarded>>

Flushed(s, q) ==
    IF s.queues[q].items = << >> THEN s
    ELSE Arm([s EXCEPT !.queues[q].flushThrough = Max({@, Last(s.queues[q].items)})], q)

Flush(q) ==
    /\ queues[q].items # << >>
    /\ Become(Flushed(State, q))
    /\ UNCHANGED <<calls, failures, discarded>>

Retry(q) ==
    /\ queues[q].deciding /\ ~queues[q].detached
    /\ Become(Again([State EXCEPT !.queues[q].deciding = FALSE], Head(queues[q].items)))
    /\ UNCHANGED <<calls, failures, discarded>>

Discard(q) ==
    LET m == Head(queues[q].items)
    IN  /\ queues[q].deciding
        /\ Become(GiveUp([State EXCEPT !.queues[q].deciding = FALSE], m))
        /\ discarded' = discarded \union { n \in Behind(State, m) : Pending(State, n) }
        /\ UNCHANGED <<calls, failures>>

\* The mutations of a queue that wait for the delay of a retry.
Retrying(s, q) == { m \in ToSet(s.queues[q].items) : s.items[m].phase = "retrying" }

\* detach(): a pause ends in a discard; otherwise everything is flushed, and a
\* wait for a retry ends in a discard.
Detach(q) ==
    LET s    == [State EXCEPT !.queues[q].detached = TRUE]
        ends == IF queues[q].deciding THEN {Head(queues[q].items)} ELSE Retrying(State, q)
        left == IF queues[q].deciding THEN [s EXCEPT !.queues[q].deciding = FALSE]
                ELSE Flushed(s, q)
    IN  /\ ~queues[q].detached
        /\ Become(IF ends = {} THEN left ELSE GiveUp(left, CHOOSE m \in ends : TRUE))
        /\ discarded' = discarded \union
              { n \in UNION { Behind(State, m) : m \in ends } : Pending(State, n) }
        /\ UNCHANGED <<calls, failures>>

-----------------------------------------------------------------------------
(* The server and the timers.                                              *)

Succeed(m) ==
    /\ items[m].phase = "asked"
    /\ Become(Settlement(State, m, TRUE))
    /\ UNCHANGED <<calls, failures, discarded>>

\* onAttemptFailure: a detached queue discards, the policy retries, or the queue
\* pauses for a decision.  A policy may be any function of the failure.
Fail(m) ==
    LET q == items[m].queue
    IN  /\ items[m].phase = "asked"
        /\ failures < MaxFailures
        /\ failures' = failures + 1
        /\ \/ /\ q = NoQueue
              /\ Become(Settlement(State, m, FALSE))
              /\ UNCHANGED discarded
           \/ /\ q # NoQueue /\ queues[q].detached
              /\ Become(GiveUp(State, m))
              /\ discarded' = discarded \union { n \in Behind(State, m) : Pending(State, n) }
           \/ /\ q # NoQueue /\ ~queues[q].detached /\ items[m].tries <= Retries
              /\ Become(Say([State EXCEPT !.items[m].phase = "retrying"], m, "retrying"))
              /\ UNCHANGED discarded
           \/ /\ q # NoQueue /\ ~queues[q].detached
              /\ Become(Say([State EXCEPT !.items[m].phase = "deciding",
                                          !.queues[q].deciding = TRUE], m, "failed"))
              /\ UNCHANGED discarded
        /\ UNCHANGED calls

\* The delay before a retry is over.
RetryDelay(m) ==
    /\ items[m].phase = "retrying"
    /\ Become(Again(State, m))
    /\ UNCHANGED <<calls, failures, discarded>>

\* The timer of a debounced queue fires.
Debounce(q) ==
    /\ queues[q].timer
    /\ Become(Wake([State EXCEPT !.queues[q].timer = FALSE], Head(queues[q].items)))
    /\ UNCHANGED <<calls, failures, discarded>>

\* A mutation is over and its queue does not know yet.
Unobserved(m) ==
    items[m].queue # NoQueue /\ items[m].outcome # "none" /\ ~items[m].observed

\* The queue once it has heard of the end of a mutation; what is settled leaves
\* from its front.
Heard(m) ==
    LET q    == items[m].queue
        seen == [State EXCEPT !.items[m].observed = TRUE]
        open == SelectInSeq(queues[q].items, LAMBDA n : ~seen.items[n].observed)
    IN  IF open = 0
        THEN [seen EXCEPT !.queues[q] = [@ EXCEPT !.items = << >>, !.flushThrough = 0,
                                                  !.timer = FALSE, !.status = "idle"]]
        ELSE [seen EXCEPT !.queues[q].items = SubSeq(@, open, Len(@))]

\* Mutant: the next write is not armed.
ObserveOnly(m) ==
    /\ Unobserved(m)
    /\ Become(Heard(m))
    /\ UNCHANGED <<calls, failures, discarded>>

\* #settled: the queue hears of the end of a mutation, a little after the lane.
Observe(m) ==
    /\ Unobserved(m)
    /\ Become(Arm(Heard(m), items[m].queue))
    /\ UNCHANGED <<calls, failures, discarded>>

Next ==
    \/ \E q \in Queue, method \in Methods : \E id \in Subjects(method) : Enqueued(q, id, method)
    \/ \E method \in Direct : \E id \in Id : DirectCall(id, method)
    \/ \E q \in Queue : Flush(q) \/ Retry(q) \/ Discard(q) \/ Detach(q)
    \/ \E m \in DOMAIN items : Succeed(m) \/ Fail(m) \/ RetryDelay(m) \/ Observe(m)
    \/ \E q \in Queue : Debounce(q)

Spec == Init /\ [][Next]_vars

\* The server answers, timers fire and promises are continued: weak fairness,
\* spelled out with the guards of the actions.  Nobody has to decide about a
\* failure.
FairSpec ==
    /\ Spec
    /\ []<>(\A m \in DOMAIN items : items[m].phase # "asked")
       \/ []<><<\E m \in DOMAIN items : Succeed(m) \/ Fail(m)>>_vars
    /\ []<>(\A m \in DOMAIN items : items[m].phase # "retrying")
       \/ []<><<\E m \in DOMAIN items : RetryDelay(m)>>_vars
    /\ []<>(\A m \in DOMAIN items : ~Unobserved(m))
       \/ []<><<\E m \in DOMAIN items : Observe(m)>>_vars
    /\ []<>(\A q \in Queue : ~queues[q].timer)
       \/ []<><<\E q \in Queue : Debounce(q)>>_vars

-----------------------------------------------------------------------------
(* Properties.                                                             *)

Mutation == 1 .. MaxCalls

\* Types; a flush reaches nothing that is enqueued after it
\* (mutationQueue.ts:195-200, 304-307, 329-330).
TypeOK ==
    /\ \A m \in Mutation :
          /\ items[m].attempt \in {"none", "pending", "running", "settled"}
          /\ items[m].phase \in {"none", "asked", "retrying", "deciding"}
          /\ items[m].outcome \in {"none", "done", "failed", "cancelled"}
          /\ items[m].calls \subseteq 1 .. calls
          /\ items[m].sent \subseteq items[m].calls
    /\ \A q \in Queue :
          /\ queues[q].items \in Seq(Mutation)
          /\ queues[q].flushThrough \in
                0 .. (IF queues[q].items = << >> THEN 0 ELSE Last(queues[q].items))
    /\ log \in Seq(Mutation)

\* "Serial" (mutationQueue.ts:134): what is under way is the head of its queue,
\* and of its lane, in every interleaving of several queues over shared
\* entities, retries and pauses included; and the server sees the writes of a
\* queue, and of an entity, in the order in which they were made, whatever is
\* expedited, flushed or cancelled.
OneAtATime ==
    \A m \in Mutation : items[m].phase # "none" =>
        /\ items[m].queue # NoQueue => Head(queues[items[m].queue].items) = m
        /\ items[m].id # NoEntity =>
              /\ lanes[items[m].id].running
              /\ Head(lanes[items[m].id].entries).mutation = m

SentInOrder ==
    \A i, j \in DOMAIN log : i < j =>
        LET a == items[log[i]]
            b == items[log[j]]
        IN  (a.queue = b.queue /\ a.queue # NoQueue) \/ (a.id = b.id /\ a.id # NoEntity)
              => log[i] < log[j]

Serial == OneAtATime /\ SentInOrder

\* A call that is told of success was part of what the server acknowledged:
\* nothing coalesces into a write that has been sent (tryUpdate, canCoalesce).
CoalescedCallsAreSent ==
    \A m \in Mutation : items[m].outcome = "done" => items[m].calls = items[m].sent

\* A write that is due never waits for a timer: the writes another queue still
\* holds before it are covered by a flush, and their queue is held up only by a
\* write that is due itself, or by a settlement it is about to hear of.
NoTimerHoldsBack ==
    \A m \in Mutation : Pending(State, m) /\ Ready(State, m) =>
        \A p \in HeldBack(State, m) :
            LET q == items[p].queue
            IN  /\ p <= queues[q].flushThrough
                /\ Waiting(State, q) = {}

\* What a discard, or a detach, gives up behind a failure is never sent, even
\* what waits for other entities in lanes of its own (mutationQueue.ts:211, 525).
DiscardIsComplete == discarded \cap ToSet(log) = {}

\* Every call comes to an end unless a failure is left undecided by the owner of
\* a queue: queues that wait for each other through shared lanes do not wait in
\* a circle, and "no queue can pause without an owner" (mutationQueue.ts:184).
EveryCallSettles ==
    []<>(\/ \A m \in Mutation : items[m].attempt \in {"none", "settled"}
         \/ \E q \in Queue : queues[q].deciding /\ ~queues[q].detached)
=============================================================================
