------------------------ MODULE MutationQueue_proofs ------------------------
(***************************************************************************)
(* Proofs about mutation queues over shared lanes, for any queues, entities *)
(* and methods, and any number of calls, retries and failures.             *)
(*                                                                         *)
(* An operation of the model threads a record through its steps.  What     *)
(* holds between two operations, Holds, also holds between those steps, so *)
(* each of them is a lemma: it keeps Holds, and it Keeps what the steps    *)
(* after it still rely on.                                                 *)
(***************************************************************************)
EXTENDS MutationQueue, MutationLanes_proofs

-----------------------------------------------------------------------------
(* The inductive invariant.                                                *)

Lanes == Lane({0, 1}, Mutation)

Item ==
    [queue : Queue \union {NoQueue}, id : Id \union {NoEntity},
     method : {"none", "create", "patch", "remove", "call"},
     calls : SUBSET Nat, sent : SUBSET Nat, ready : BOOLEAN,
     attempt : {"none", "pending", "running", "settled"},
     phase : {"none", "asked", "retrying", "deciding"}, tries : Nat,
     outcome : {"none", "done", "failed", "cancelled"}, observed : BOOLEAN]

Statuses == {"idle", "scheduled", "saving", "retrying", "failed"}

QueueRecord ==
    [items : Seq(Mutation), flushThrough : Nat, deciding : BOOLEAN, detached : BOOLEAN,
     timer : BOOLEAN, status : Statuses]

States ==
    [lanes : [Id -> Lanes], items : [Mutation -> Item], queues : [Queue -> QueueRecord],
     log : Seq(Mutation)]

\* The mutations that have been sent.
Sent(s) == { s.log[k] : k \in 1 .. Len(s.log) }

\* A lane holds the mutations of its entity in the order in which they were made.
\* The first runs when the lane does, the others wait; nothing that comes after one
\* of them has been sent.
LaneHolds(lane, its, sent, id) ==
    /\ ~ lane.open => lane.entries = << >>
    /\ lane.running => lane.entries # << >>
    /\ \A i, j \in 1 .. Len(lane.entries) :
          i < j => lane.entries[i].mutation < lane.entries[j].mutation
    /\ \A i \in 1 .. Len(lane.entries) :
          /\ its[lane.entries[i].mutation].id = id
          /\ its[lane.entries[i].mutation].attempt =
                IF i = 1 /\ lane.running THEN "running" ELSE "pending"
    /\ \A m \in sent, i \in 1 .. Len(lane.entries) :
          its[m].id = id => m <= lane.entries[i].mutation

\* A queue holds what it has not heard the end of, in the order in which it was
\* made, and begins with such a mutation.  Only that one may be ready, and be the
\* subject of a decision; nothing that comes after one of them has been sent.
QueueHolds(queue, its, sent, q) ==
    /\ \A i, j \in 1 .. Len(queue.items) : i < j => queue.items[i] < queue.items[j]
    /\ \A i \in 1 .. Len(queue.items) : its[queue.items[i]].queue = q
    /\ queue.items # << >> => ~ its[queue.items[1]].observed
    /\ \A m \in Mutation : its[m].queue = q /\ ~ its[m].observed =>
          /\ \E i \in 1 .. Len(queue.items) : queue.items[i] = m
          /\ its[m].ready => queue.items[1] = m
    /\ queue.timer => queue.items # << >>
    /\ queue.deciding => queue.items # << >> /\ its[queue.items[1]].phase = "deciding"
    /\ \A m \in sent, i \in 1 .. Len(queue.items) : its[m].queue = q => m <= queue.items[i]

\* A mutation is under way when it was ready and is the head of its lane.  What has
\* been sent is not cancelled; from then on it gets no more calls.
ItemHolds(item, m, ls, sent) ==
    /\ item.observed => item.attempt = "settled"
    /\ item.attempt = "running" <=> item.phase # "none"
    /\ item.attempt = "settled" <=> item.outcome # "none"
    /\ item.attempt = "running" => item.queue = NoQueue \/ item.ready
    /\ item.attempt = "running" /\ item.id # NoEntity =>
          ls[item.id].running /\ ls[item.id].entries[1].mutation = m
    /\ m \in sent => item.attempt \in {"running", "settled"} /\ item.outcome # "cancelled"
    /\ item.attempt = "running" \/ item.outcome \in {"done", "failed"} => item.sent = item.calls
    /\ item.attempt = "none" => item = NoItem

\* What a queue, or an entity, has in common.
Related(a, b) == (a.queue = b.queue /\ a.queue # NoQueue) \/ (a.id = b.id /\ a.id # NoEntity)

InOrder(lg, its) ==
    \A i, j \in 1 .. Len(lg) : i < j /\ Related(its[lg[i]], its[lg[j]]) => lg[i] < lg[j]

Holds(s) ==
    /\ s \in States
    /\ \A id \in Id : LaneHolds(s.lanes[id], s.items, Sent(s), id)
    /\ \A q \in Queue : QueueHolds(s.queues[q], s.items, Sent(s), q)
    /\ \A m \in Mutation : ItemHolds(s.items[m], m, s.lanes, Sent(s))
    /\ InOrder(s.log, s.items)

\* The first mutations are registered, as many as n.
Registered(s, n) == \A m \in Mutation : s.items[m].attempt # "none" <=> m <= n

-----------------------------------------------------------------------------
(* What a step keeps.                                                      *)

\* A mutation that has ended stays so, one that is under way stays so, and one that
\* waits starts or is cancelled, if anything.
ItemKept(x, y) ==
    /\ y.queue = x.queue /\ y.id = x.id /\ y.calls = x.calls
    /\ x.observed <=> y.observed
    /\ x.ready => y.ready
    /\ x.attempt = "pending" => y.attempt \in {"pending", "running"} \/ y.outcome = "cancelled"
    /\ x.attempt = "running" => y.attempt = "running" /\ y.phase = x.phase
    /\ x.attempt = "settled" => y.attempt = "settled" /\ y.outcome = x.outcome

\* A queue keeps what it holds, and its pause.
QueueKept(x, y) ==
    y.items = x.items /\ (y.deciding <=> x.deciding) /\ (y.detached <=> x.detached)

\* Everything but some mutations is kept.
Keeps(s, t, but) ==
    /\ \A q \in Queue : QueueKept(s.queues[q], t.queues[q])
    /\ \A m \in Mutation : s.items[m].attempt = "none" <=> t.items[m].attempt = "none"
    /\ \A m \in Mutation : m \notin but => ItemKept(s.items[m], t.items[m])

\* A state keeps itself.
LEMMA KeepsItself ==
    ASSUME NEW s, Holds(s)
    PROVE  Keeps(s, s, {})
<1>1. \A m \in Mutation : s.items[m].attempt = "settled" <=> s.items[m].outcome # "none"
    BY DEF Holds, ItemHolds
<1>2. \A m \in Mutation : ItemKept(s.items[m], s.items[m])
    BY DEF ItemKept
<1> QED
    BY <1>2 DEF Keeps, QueueKept

\* What two steps in a row keep, they keep together.
LEMMA KeepsOn ==
    ASSUME NEW s, NEW t, NEW u, NEW b, NEW c, Holds(t), Holds(u), Keeps(s, t, b), Keeps(t, u, c)
    PROVE  Keeps(s, u, b \union c)
<1>1. ASSUME NEW m \in Mutation, m \notin b \union c PROVE ItemKept(s.items[m], u.items[m])
  <2>1. ItemKept(s.items[m], t.items[m]) /\ ItemKept(t.items[m], u.items[m])
      BY <1>1 DEF Keeps
  <2>2. /\ t.items[m].attempt = "settled" <=> t.items[m].outcome # "none"
        /\ u.items[m].attempt = "settled" <=> u.items[m].outcome # "none"
      BY DEF Holds, ItemHolds
  <2> QED
      BY <2>1, <2>2 DEF ItemKept
<1> QED
    BY <1>1 DEF Keeps, QueueKept

\* A step that keeps registers nothing.
LEMMA KeepsRegistered ==
    ASSUME NEW s, NEW t, NEW b, NEW n, Keeps(s, t, b), Registered(s, n)
    PROVE  Registered(t, n)
BY DEF Keeps, Registered

-----------------------------------------------------------------------------
(* What a step leaves alone.                                               *)

\* A lane holds as before when a step leaves its mutations alone and sends nothing
\* of its entity.
LEMMA LaneIsLeft ==
    ASSUME NEW lane, NEW its, NEW sent, NEW id, NEW its2, NEW sent2,
           lane \in Lanes, sent \subseteq Mutation, sent2 \subseteq Mutation,
           LaneHolds(lane, its, sent, id),
           \A m \in Mutation : its2[m].id = its[m].id,
           \A m \in Mutation : its[m].id = id => its2[m].attempt = its[m].attempt,
           \A m \in sent2 : its[m].id = id => m \in sent
    PROVE  LaneHolds(lane, its2, sent2, id)
<1> DEFINE E == lane.entries
<1>1. \A i \in 1 .. Len(E) : E[i].mutation \in Mutation
  <2>1. E \in Seq(EntriesOf(Mutation))
      BY DEF Lanes, Lane
  <2>2. \A i \in 1 .. Len(E) : E[i] \in EntriesOf(Mutation)
      BY <2>1, ElementOfSeq
  <2> QED
      BY <2>2 DEF EntriesOf
<1>2. ASSUME NEW i \in 1 .. Len(E)
      PROVE  /\ its2[E[i].mutation].id = id
             /\ its2[E[i].mutation].attempt = IF i = 1 /\ lane.running THEN "running" ELSE "pending"
  <2>1. E[i].mutation \in Mutation /\ its[E[i].mutation].id = id
      BY <1>1 DEF LaneHolds
  <2>2. its2[E[i].mutation].id = id /\ its2[E[i].mutation].attempt = its[E[i].mutation].attempt
      BY <2>1
  <2> QED
      BY <2>2 DEF LaneHolds
<1>3. ASSUME NEW m \in sent2, NEW i \in 1 .. Len(E), its2[m].id = id PROVE m <= E[i].mutation
  <2>1. m \in Mutation /\ its[m].id = id
      BY <1>3
  <2>2. m \in sent
      BY <2>1
  <2> QED
      BY <2>1, <2>2 DEF LaneHolds
<1> QED
    BY <1>2, <1>3 DEF LaneHolds

\* A queue holds as before when a step leaves what it holds, and readies and sends at
\* most its head.
LEMMA QueueIsLeft ==
    ASSUME NEW queue, NEW its, NEW sent, NEW q, NEW queue2, NEW its2, NEW sent2,
           queue \in QueueRecord, sent \subseteq Mutation, sent2 \subseteq Mutation,
           QueueHolds(queue, its, sent, q), queue2.items = queue.items,
           queue2.timer => queue.items # << >>,
           queue2.deciding => queue.items # << >> /\ its2[queue.items[1]].phase = "deciding",
           \A m \in Mutation : its2[m].queue = its[m].queue,
           \A m \in Mutation : its[m].queue = q => (its2[m].observed <=> its[m].observed),
           \A m \in Mutation : its[m].queue = q /\ ~ its[m].observed /\ its2[m].ready =>
                                  its[m].ready \/ m = queue.items[1],
           \A m \in sent2 : its[m].queue = q =>
              m \in sent \/ (queue.items # << >> /\ m = queue.items[1])
    PROVE  QueueHolds(queue2, its2, sent2, q)
<1> DEFINE I == queue.items
<1>1. Len(I) \in Nat /\ \A i \in 1 .. Len(I) : I[i] \in Mutation
  <2>1. I \in Seq(Mutation)
      BY DEF QueueRecord
  <2> QED
      BY <2>1, ElementOfSeq, LenProperties
<1>2. I # << >> => 1 \in 1 .. Len(I)
  <2>1. I \in Seq(Mutation)
      BY DEF QueueRecord
  <2> QED
      BY <2>1, <1>1, EmptySeq
<1>3. \A i \in 1 .. Len(I) : its2[I[i]].queue = q
    BY <1>1 DEF QueueHolds
<1>4. I # << >> => ~ its2[I[1]].observed
    BY <1>1, <1>2 DEF QueueHolds
<1>5. ASSUME NEW m \in Mutation, its2[m].queue = q, ~ its2[m].observed
      PROVE  /\ \E i \in 1 .. Len(I) : I[i] = m
             /\ its2[m].ready => I[1] = m
  <2>1. its[m].queue = q /\ ~ its[m].observed
      BY <1>5
  <2> QED
      BY <2>1 DEF QueueHolds
<1>6. ASSUME NEW m \in sent2, NEW i \in 1 .. Len(I), its2[m].queue = q PROVE m <= I[i]
  <2>1. m \in Mutation /\ its[m].queue = q
      BY <1>6
  <2>2. CASE m \in sent
      BY <2>1, <2>2 DEF QueueHolds
  <2>3. CASE m = I[1]
    <3>1. I[i] \in Mutation /\ I[1] \in Mutation /\ (i = 1 \/ I[1] < I[i])
        BY <1>1, <1>2 DEF QueueHolds
    <3> QED
        BY <2>3, <3>1 DEF Mutation
  <2> QED
      BY <2>1, <2>2, <2>3
<1>7. \A i, j \in 1 .. Len(I) : i < j => I[i] < I[j]
    BY DEF QueueHolds
<1> QED
    BY <1>3, <1>4, <1>5, <1>6, <1>7 DEF QueueHolds

\* A mutation holds as before when its lane keeps its head.
LEMMA ItemIsLeft ==
    ASSUME NEW item, NEW m, NEW ls, NEW sent, NEW ls2, NEW sent2,
           ItemHolds(item, m, ls, sent), m \in sent2 => m \in sent,
           item.attempt = "running" /\ item.id # NoEntity =>
              /\ ls2[item.id].running <=> ls[item.id].running
              /\ ls2[item.id].entries[1] = ls[item.id].entries[1]
    PROVE  ItemHolds(item, m, ls2, sent2)
BY DEF ItemHolds

\* What is in a state.
LEMMA StateTypes ==
    ASSUME NEW s, s \in States
    PROVE  /\ s.lanes \in [Id -> Lanes] /\ s.items \in [Mutation -> Item]
           /\ s.queues \in [Queue -> QueueRecord] /\ s.log \in Seq(Mutation)
           /\ Sent(s) \subseteq Mutation
<1>1. s.lanes \in [Id -> Lanes] /\ s.items \in [Mutation -> Item]
      /\ s.queues \in [Queue -> QueueRecord] /\ s.log \in Seq(Mutation)
    BY DEF States
<1>2. \A k \in 1 .. Len(s.log) : s.log[k] \in Mutation
    BY <1>1, ElementOfSeq
<1> QED
    BY <1>1, <1>2 DEF Sent

\* A mutation of a queue that is ready, or under way, and not over for the queue is
\* its head.
LEMMA ReadyIsHead ==
    ASSUME NEW s, Holds(s), NEW m \in Mutation, s.items[m].queue \in Queue,
           s.items[m].ready, s.items[m].attempt \in {"pending", "running"}
    PROVE  /\ s.queues[s.items[m].queue].items # << >>
           /\ s.queues[s.items[m].queue].items[1] = m
<1> DEFINE q == s.items[m].queue
<1>1. ~ s.items[m].observed
    BY DEF Holds, ItemHolds
<1>2. QueueHolds(s.queues[q], s.items, Sent(s), q)
    BY DEF Holds
<1>3. \E i \in 1 .. Len(s.queues[q].items) : s.queues[q].items[i] = m
    BY Zenon, <1>1, <1>2 DEF QueueHolds
<1>4. s.queues[q].items # << >>
    BY <1>3
<1> QED
    BY Zenon, <1>1, <1>2, <1>4 DEF QueueHolds

\* #setSnapshot changes no more than the status of a queue.
SameQueues(s, t) ==
    \A q \in Queue : /\ t.queues[q].items = s.queues[q].items
                     /\ t.queues[q].flushThrough = s.queues[q].flushThrough
                     /\ t.queues[q].timer <=> s.queues[q].timer
                     /\ t.queues[q].deciding <=> s.queues[q].deciding
                     /\ t.queues[q].detached <=> s.queues[q].detached

\* A snapshot leaves all but the status of the queues.
LEMMA SayDoes ==
    ASSUME NEW s, s \in States, NEW m \in Mutation, NEW status \in Statuses,
           NoQueue \notin Queue
    PROVE  LET t == Say(s, m, status)
           IN  /\ t \in States /\ t.lanes = s.lanes /\ t.items = s.items /\ t.log = s.log
               /\ SameQueues(s, t)
<1> DEFINE q == s.items[m].queue
           t == Say(s, m, status)
<1>1. q \in Queue \union {NoQueue}
    BY StateTypes DEF Item
<1>2. CASE q = NoQueue
  <2>1. t = s
      BY <1>2 DEF Say
  <2> QED
      BY <2>1 DEF SameQueues
<1>3. CASE q # NoQueue
  <2>1. q \in Queue /\ s.queues \in [Queue -> QueueRecord]
      BY <1>1, <1>3, StateTypes
  <2>2. t = [s EXCEPT !.queues = [s.queues EXCEPT ![q].status = status]]
      BY <1>3 DEF Say, States
  <2> DEFINE qs == [s.queues EXCEPT ![q].status = status]
  <2>3. \A x \in Queue : qs[x] = IF x = q THEN [s.queues[q] EXCEPT !.status = status] ELSE s.queues[x]
      BY <2>1
  <2>4. [s.queues[q] EXCEPT !.status = status] \in QueueRecord
      BY <2>1 DEF QueueRecord
  <2>5. qs \in [Queue -> QueueRecord]
      BY <2>1, <2>4
  <2>6. \A x \in Queue : /\ qs[x].items = s.queues[x].items
                         /\ qs[x].flushThrough = s.queues[x].flushThrough
                         /\ qs[x].timer <=> s.queues[x].timer
                         /\ qs[x].deciding <=> s.queues[x].deciding
                         /\ qs[x].detached <=> s.queues[x].detached
      BY <2>1, <2>3 DEF QueueRecord
  <2> HIDE DEF qs, q, t
  <2>7. t = [s EXCEPT !.queues = qs]
      BY <2>2 DEF qs
  <2>8. t \in States /\ t.lanes = s.lanes /\ t.items = s.items /\ t.log = s.log /\ t.queues = qs
      BY <2>5, <2>7 DEF States
  <2> QED
      BY <2>6, <2>8 DEF t, SameQueues
<1> QED
    BY <1>2, <1>3

-----------------------------------------------------------------------------
(* A mutation starts.                                                      *)

\* The lane that runs.
Takes(s, ls, m) ==
    LET id == s.items[m].id
    IN  \/ id = NoEntity /\ ls = s.lanes
        \/ /\ id \in Id
           /\ s.lanes[id].entries # << >> /\ ~ s.lanes[id].running
           /\ s.lanes[id].entries[1].mutation = m
           /\ ls = [s.lanes EXCEPT ![id] = TakeNext(s.lanes[id])]

\* What Start makes of a mutation.
Started(item) ==
    [item EXCEPT !.attempt = "running", !.phase = "asked", !.tries = 1, !.sent = item.calls]

\* A start, with the lanes it leaves: the mutation runs and is in the log.
LEMMA StartDoes ==
    ASSUME NEW s, s \in States, NEW m \in Mutation, NEW ls, ls \in [Id -> Lanes],
           NoQueue \notin Queue
    PROVE  LET t == Start([s EXCEPT !.lanes = ls], m)
           IN  /\ t \in States /\ t.lanes = ls
               /\ t.items = [s.items EXCEPT ![m] = Started(s.items[m])]
               /\ t.log = Append(s.log, m)
               /\ SameQueues(s, t)
<1> DEFINE u == [s EXCEPT !.lanes = ls]
           x == Started(s.items[m])
           v == [u EXCEPT !.items[m] = x, !.log = Append(@, m)]
<1>1. /\ s.items \in [Mutation -> Item] /\ s.log \in Seq(Mutation)
      /\ s.queues \in [Queue -> QueueRecord] /\ s.items[m] \in Item
    BY StateTypes
<1>2. u \in States /\ u.lanes = ls /\ u.items = s.items /\ u.queues = s.queues /\ u.log = s.log
    BY DEF States
<1>3. x \in Item
    BY <1>1 DEF Item, Started
<1> HIDE DEF u
<1>4. Start(u, m) = Say(v, m, "saving")
    BY <1>2 DEF Start, Started
<1> HIDE DEF x
<1>5. Append(s.log, m) \in Seq(Mutation)
    BY <1>1, AppendProperties
<1>6. [s.items EXCEPT ![m] = x] \in [Mutation -> Item]
    BY <1>1, <1>3
<1>7. v \in States /\ v.lanes = ls /\ v.items = [s.items EXCEPT ![m] = x] /\ v.queues = s.queues
      /\ v.log = Append(s.log, m)
    BY <1>2, <1>5, <1>6 DEF States
<1> HIDE DEF u, v
<1> DEFINE t == Say(v, m, "saving")
<1>8. "saving" \in Statuses
    BY DEF Statuses
<1>9. t \in States /\ t.lanes = v.lanes /\ t.items = v.items /\ t.log = v.log /\ SameQueues(v, t)
    BY <1>7, <1>8, SayDoes
<1> HIDE DEF t
<1>10. t = Start([s EXCEPT !.lanes = ls], m)
    BY <1>4 DEF t, u
<1>11. SameQueues(s, t)
    BY <1>7, <1>9 DEF SameQueues
<1> QED
    BY <1>7, <1>9, <1>10, <1>11 DEF x

\* What has been sent, with one more.
LEMMA SentAppend ==
    ASSUME NEW lg, lg \in Seq(Mutation), NEW m, m \in Mutation
    PROVE  /\ Len(Append(lg, m)) = Len(lg) + 1 /\ Len(lg) \in Nat
           /\ \A k \in 1 .. Len(lg) : Append(lg, m)[k] = lg[k]
           /\ Append(lg, m)[Len(lg) + 1] = m
           /\ { Append(lg, m)[k] : k \in 1 .. Len(Append(lg, m)) } = { lg[k] : k \in 1 .. Len(lg) } \union {m}
<1> DEFINE n == Len(lg)
           more == Append(lg, m)
<1>1. n \in Nat /\ Len(more) = n + 1 /\ more[n + 1] = m /\ \A k \in 1 .. n : more[k] = lg[k]
    BY AppendProperties, LenProperties
<1> HIDE DEF more, n
<1>2. 1 .. n + 1 = (1 .. n) \union {n + 1}
    BY <1>1
<1>3. { more[k] : k \in 1 .. Len(more) } = { lg[k] : k \in 1 .. n } \union {m}
    BY <1>1, <1>2
<1> QED
    BY <1>1, <1>3 DEF more, n

\* A mutation that is ready and that its lane is free for, or that stands in none,
\* starts: the invariant is kept.
LEMMA StartHolds ==
    ASSUME NEW s, Holds(s), NEW m \in Mutation, Pending(s, m), Ready(s, m),
           NEW ls, Takes(s, ls, m)
    PROVE  /\ Holds(Start([s EXCEPT !.lanes = ls], m))
           /\ Keeps(s, Start([s EXCEPT !.lanes = ls], m), {})
<1> DEFINE x == s.items[m]
           y == Started(s.items[m])
           id == s.items[m].id
           q == s.items[m].queue
           t == Start([s EXCEPT !.lanes = ls], m)
<1>0. NoQueue \notin Queue /\ NoEntity \notin Id
    BY MutationQueueAssumption
<1>1. /\ s.items \in [Mutation -> Item] /\ s.log \in Seq(Mutation) /\ s.lanes \in [Id -> Lanes]
      /\ s.queues \in [Queue -> QueueRecord] /\ x \in Item /\ Sent(s) \subseteq Mutation
      /\ s \in States
    BY StateTypes DEF Holds
<1>2. \A i \in Id : /\ ls[i].entries = s.lanes[i].entries /\ ls[i].open = s.lanes[i].open
                    /\ ls[i] \in Lanes
                    /\ ls[i].running <=> (s.lanes[i].running \/ i = id)
  <2> SUFFICES ASSUME NEW i \in Id
               PROVE  /\ ls[i].entries = s.lanes[i].entries /\ ls[i].open = s.lanes[i].open
                      /\ ls[i] \in Lanes
                      /\ ls[i].running <=> (s.lanes[i].running \/ i = id)
      OBVIOUS
  <2>1. CASE i # id
    <3>1. ls[i] = s.lanes[i]
        BY <1>1, <2>1 DEF Takes
    <3> QED
        BY <1>1, <2>1, <3>1
  <2>2. CASE i = id
    <3>1. ls[i] = [s.lanes[i] EXCEPT !.running = TRUE] /\ s.lanes[i] \in Lanes
        BY <1>0, <1>1, <2>2 DEF Takes, TakeNext
    <3> QED
        BY <2>2, <3>1 DEF Lanes, Lane
  <2> QED
      BY <2>1, <2>2
<1>3. ls \in [Id -> Lanes]
  <2>1. CASE ls = s.lanes
      BY <1>1, <2>1
  <2>2. CASE ls = [s.lanes EXCEPT ![id] = TakeNext(s.lanes[id])] /\ id \in Id
    <3>1. TakeNext(s.lanes[id]) \in Lanes
        BY Zenon, <1>1, <2>2 DEF TakeNext, Lanes, Lane
    <3> QED
        BY <1>1, <2>2, <3>1
  <2> QED
      BY <2>1, <2>2 DEF Takes
<1>4. /\ t \in States /\ t.lanes = ls /\ t.items = [s.items EXCEPT ![m] = y]
      /\ t.log = Append(s.log, m) /\ SameQueues(s, t)
    BY <1>0, <1>1, <1>3, StartDoes
<1> HIDE DEF t
<1>5. /\ y.queue = q /\ y.id = id /\ y.calls = x.calls /\ y.ready = x.ready
      /\ y.attempt = "running" /\ y.phase = "asked" /\ y.outcome = x.outcome
      /\ y.observed = x.observed /\ y.sent = x.calls
    BY <1>1 DEF Started, Item
<1> HIDE DEF y
<1>6. /\ t.items[m] = y /\ \A n \in Mutation : n # m => t.items[n] = s.items[n]
    BY <1>1, <1>4
<1>7. x.attempt = "pending" /\ ~ x.observed /\ x.phase = "none" /\ x.outcome = "none" /\ m \notin Sent(s)
  <2>1. ItemHolds(x, m, s.lanes, Sent(s)) /\ x.attempt = "pending"
      BY DEF Holds, Pending
  <2> QED
      BY <2>1 DEF ItemHolds
<1>8. /\ Sent(t) = Sent(s) \union {m} /\ Len(t.log) = Len(s.log) + 1 /\ Len(s.log) \in Nat
      /\ \A k \in 1 .. Len(s.log) : t.log[k] = s.log[k]
      /\ t.log[Len(s.log) + 1] = m
    BY <1>1, <1>4, SentAppend DEF Sent
<1>9. q = NoQueue \/ (q \in Queue /\ x.ready /\ s.queues[q].items # << >> /\ s.queues[q].items[1] = m)
  <2>1. q \in Queue \union {NoQueue}
      BY <1>1 DEF Item
  <2> QED
      BY <1>7, <2>1, ReadyIsHead DEF Ready
<1>10. \/ id = NoEntity
       \/ /\ id \in Id /\ s.lanes[id].entries # << >> /\ ~ s.lanes[id].running
          /\ s.lanes[id].entries[1].mutation = m
    BY DEF Takes
<1> HIDE DEF x, id, q
<1>11. ASSUME NEW i \in Id PROVE LaneHolds(t.lanes[i], t.items, Sent(t), i)
  <2>0. LaneHolds(s.lanes[i], s.items, Sent(s), i) /\ s.lanes[i] \in Lanes
      BY <1>1 DEF Holds
  <2>1. CASE i # id
    <3>1. /\ \A n \in Mutation : t.items[n].id = s.items[n].id
          /\ \A n \in Mutation : s.items[n].id = i => t.items[n].attempt = s.items[n].attempt
          /\ \A n \in Sent(t) : s.items[n].id = i => n \in Sent(s)
        BY <1>5, <1>6, <1>8, <2>1 DEF x, id
    <3>2. Sent(t) \subseteq Mutation
        BY <1>1, <1>8
    <3>3. LaneHolds(s.lanes[i], t.items, Sent(t), i)
        BY <1>1, <2>0, <3>1, <3>2, LaneIsLeft
    <3>4. /\ ls[i].entries = s.lanes[i].entries /\ ls[i].open = s.lanes[i].open
          /\ ls[i].running <=> s.lanes[i].running
        BY <1>2, <2>1
    <3>5. t.lanes[i] = ls[i]
        BY <1>4
    <3> QED
        BY ONLY <3>3, <3>4, <3>5 DEF LaneHolds
  <2>2. CASE i = id
    <3> DEFINE E == s.lanes[i].entries
    <3>1. /\ E # << >> /\ ~ s.lanes[i].running /\ E[1].mutation = m
          /\ t.lanes[i].entries = E /\ t.lanes[i].open = s.lanes[i].open /\ t.lanes[i].running
        BY <1>0, <1>2, <1>4, <1>10, <2>2
    <3>2. E \in Seq(EntriesOf(Mutation))
        BY <2>0 DEF Lanes, Lane
    <3>3. Len(E) \in Nat /\ 1 \in 1 .. Len(E) /\ \A k \in 1 .. Len(E) : E[k] \in EntriesOf(Mutation)
        BY <3>1, <3>2, LenProperties, EmptySeq, ElementOfSeq
    <3>4. \A k \in 1 .. Len(E) : E[k].mutation \in Mutation
        BY <3>3 DEF EntriesOf
    <3> HIDE DEF E
    <3>5. \A k, l \in 1 .. Len(E) : k < l => E[k].mutation < E[l].mutation
        BY <2>0 DEF LaneHolds, E
    <3>6. \A k \in 1 .. Len(E) : k # 1 => E[k].mutation # m /\ m < E[k].mutation
      <4> SUFFICES ASSUME NEW k \in 1 .. Len(E), k # 1 PROVE m < E[k].mutation /\ E[k].mutation # m
          OBVIOUS
      <4>1. 1 < k
          BY <3>3
      <4>2. m < E[k].mutation
          BY <3>1, <3>3, <3>5, <4>1
      <4> QED
          BY <3>4, <4>2 DEF Mutation
    <3>7. ASSUME NEW k \in 1 .. Len(E)
          PROVE  /\ t.items[E[k].mutation].id = i
                 /\ t.items[E[k].mutation].attempt = IF k = 1 THEN "running" ELSE "pending"
      <4>1. CASE k = 1
          BY <1>5, <1>6, <2>2, <3>1, <4>1
      <4>2. CASE k # 1
        <5>1. s.items[E[k].mutation].id = i /\ s.items[E[k].mutation].attempt = "pending"
            BY <2>0, <4>2 DEF LaneHolds, E
        <5>2. E[k].mutation \in Mutation /\ E[k].mutation # m
            BY <3>4, <3>6, <4>2
        <5>3. t.items[E[k].mutation] = s.items[E[k].mutation]
            BY Zenon, <1>6, <5>2
        <5> QED
            BY Zenon, <4>2, <5>1, <5>3
      <4> QED
          BY <4>1, <4>2
    <3>8. ASSUME NEW n \in Sent(t), NEW k \in 1 .. Len(E), t.items[n].id = i PROVE n <= E[k].mutation
      <4>1. CASE n \in Sent(s)
        <5>1. n \in Mutation /\ n # m /\ s.items[n].id = i
            BY <1>1, <1>6, <1>7, <3>8, <4>1
        <5> QED
            BY <2>0, <4>1, <5>1 DEF LaneHolds, E
      <4>2. CASE n = m
        <5>1. k = 1 \/ m < E[k].mutation
            BY <3>6
        <5>2. E[k].mutation \in Mutation
            BY <3>4
        <5> QED
            BY <3>1, <4>2, <5>1, <5>2 DEF Mutation
      <4> QED
          BY <1>8, <4>1, <4>2
    <3>9. s.lanes[i].open
        BY <2>0, <3>1 DEF LaneHolds, E
    <3> QED
        BY <3>1, <3>5, <3>7, <3>8, <3>9 DEF LaneHolds
  <2> QED
      BY <2>1, <2>2
<1>12. ASSUME NEW p \in Queue PROVE QueueHolds(t.queues[p], t.items, Sent(t), p)
  <2>0. QueueHolds(s.queues[p], s.items, Sent(s), p) /\ s.queues[p] \in QueueRecord
      BY <1>1 DEF Holds
  <2>1. /\ t.queues[p].items = s.queues[p].items
        /\ t.queues[p].timer <=> s.queues[p].timer
        /\ t.queues[p].deciding <=> s.queues[p].deciding
      BY <1>4 DEF SameQueues
  <2>2. t.queues[p].timer => s.queues[p].items # << >>
      BY <2>0, <2>1 DEF QueueHolds
  <2>3. t.queues[p].deciding =>
           s.queues[p].items # << >> /\ t.items[s.queues[p].items[1]].phase = "deciding"
    <3> SUFFICES ASSUME t.queues[p].deciding
                 PROVE  s.queues[p].items # << >> /\ t.items[s.queues[p].items[1]].phase = "deciding"
        OBVIOUS
    <3>1. s.queues[p].items # << >> /\ s.items[s.queues[p].items[1]].phase = "deciding"
        BY <2>0, <2>1 DEF QueueHolds
    <3>2. s.queues[p].items \in Seq(Mutation)
        BY <2>0 DEF QueueRecord
    <3>3. s.queues[p].items[1] \in Mutation
        BY <3>1, <3>2, EmptySeq, LenProperties, ElementOfSeq
    <3>4. s.queues[p].items[1] # m
        BY <1>7, <3>1 DEF x
    <3> QED
        BY <1>6, <3>1, <3>3, <3>4
  <2>4. /\ \A n \in Mutation : t.items[n].queue = s.items[n].queue
        /\ \A n \in Mutation : t.items[n].observed <=> s.items[n].observed
        /\ \A n \in Mutation : t.items[n].ready => s.items[n].ready
      BY <1>5, <1>6 DEF x, q
  <2>5. \A n \in Sent(t) : s.items[n].queue = p =>
           n \in Sent(s) \/ (s.queues[p].items # << >> /\ n = s.queues[p].items[1])
      BY <1>0, <1>8, <1>9 DEF x, q
  <2>6. Sent(t) \subseteq Mutation
      BY <1>1, <1>8
  <2> QED
      BY <1>1, <2>0, <2>1, <2>2, <2>3, <2>4, <2>5, <2>6, QueueIsLeft
<1>13. ASSUME NEW n \in Mutation PROVE ItemHolds(t.items[n], n, t.lanes, Sent(t))
  <2>0. ItemHolds(s.items[n], n, s.lanes, Sent(s)) /\ s.items[n] \in Item
      BY <1>1 DEF Holds
  <2>1. CASE n = m
    <3>1. x.id = id /\ x.queue = q
        BY DEF x, id, q
    <3>2. y.id # NoEntity => t.lanes[y.id].running /\ t.lanes[y.id].entries[1].mutation = m
        BY <1>2, <1>4, <1>5, <1>10
    <3>3. y.queue = NoQueue \/ y.ready
        BY <1>5, <1>9
    <3> QED
        BY <1>5, <1>6, <1>7, <2>1, <3>2, <3>3 DEF ItemHolds
  <2>2. CASE n # m
    <3>1. n \in Sent(t) => n \in Sent(s)
        BY <1>8, <2>2
    <3>2. ASSUME s.items[n].attempt = "running", s.items[n].id # NoEntity
          PROVE  /\ ls[s.items[n].id].running <=> s.lanes[s.items[n].id].running
                 /\ ls[s.items[n].id].entries[1] = s.lanes[s.items[n].id].entries[1]
      <4>1. s.items[n].id \in Id /\ s.lanes[s.items[n].id].running
          BY <2>0, <3>2 DEF Item, ItemHolds
      <4> QED
          BY <1>2, <4>1
    <3> HIDE DEF y
    <3>3. ItemHolds(s.items[n], n, ls, Sent(t))
        BY <2>0, <3>1, <3>2, ItemIsLeft
    <3> QED
        BY <1>4, <1>6, <2>2, <3>3
  <2> QED
      BY <2>1, <2>2
<1>14. InOrder(t.log, t.items)
  <2> DEFINE n == Len(s.log)
  <2>1. \A l \in Mutation : t.items[l].queue = s.items[l].queue /\ t.items[l].id = s.items[l].id
      BY <1>5, <1>6 DEF x, q, id
  <2>2. \A k \in 1 .. n : s.log[k] \in Sent(s) /\ s.log[k] \in Mutation
      BY <1>1 DEF Sent
  <2> SUFFICES ASSUME NEW i \in 1 .. n + 1, NEW j \in 1 .. n + 1, i < j,
                      Related(t.items[t.log[i]], t.items[t.log[j]])
               PROVE  t.log[i] < t.log[j]
      BY <1>8 DEF InOrder
  <2>3. i \in 1 .. n /\ t.log[i] = s.log[i]
      BY <1>8
  <2>4. CASE j \in 1 .. n
    <3>1. t.log[j] = s.log[j]
        BY <1>8, <2>4
    <3>2. Related(s.items[s.log[i]], s.items[s.log[j]])
        BY <2>1, <2>2, <2>3, <2>4, <3>1 DEF Related
    <3>3. InOrder(s.log, s.items)
        BY DEF Holds
    <3> QED
        BY <2>3, <2>4, <3>1, <3>2, <3>3 DEF InOrder
  <2>5. CASE j = n + 1
    <3>1. t.log[j] = m /\ s.log[i] \in Sent(s) /\ s.log[i] \in Mutation /\ s.log[i] # m
        BY <1>7, <1>8, <2>2, <2>3, <2>5
    <3>2. Related(s.items[s.log[i]], s.items[m])
        BY <2>1, <2>3, <3>1 DEF Related
    <3>3. s.log[i] <= m
      <4>1. CASE s.items[s.log[i]].queue = s.items[m].queue /\ s.items[m].queue # NoQueue
        <5>1. q \in Queue /\ s.queues[q].items # << >> /\ s.queues[q].items[1] = m
            BY <1>9, <4>1 DEF q
        <5>2. QueueHolds(s.queues[q], s.items, Sent(s), q) /\ s.queues[q].items \in Seq(Mutation)
            BY <1>1, <5>1 DEF Holds, QueueRecord
        <5>3. 1 \in 1 .. Len(s.queues[q].items)
            BY <5>1, <5>2, EmptySeq, LenProperties
        <5> QED
            BY Zenon, <3>1, <4>1, <5>1, <5>2, <5>3 DEF QueueHolds, q
      <4>2. CASE s.items[s.log[i]].id = s.items[m].id /\ s.items[m].id # NoEntity
        <5>1. id \in Id /\ s.lanes[id].entries # << >> /\ s.lanes[id].entries[1].mutation = m
            BY <1>10, <4>2 DEF id
        <5>2. LaneHolds(s.lanes[id], s.items, Sent(s), id) /\ s.lanes[id] \in Lanes
            BY <1>1, <5>1 DEF Holds
        <5>3. s.lanes[id].entries \in Seq(EntriesOf(Mutation))
            BY <5>2 DEF Lanes, Lane
        <5>4. 1 \in 1 .. Len(s.lanes[id].entries)
            BY <5>1, <5>3, EmptySeq, LenProperties
        <5> QED
            BY Zenon, <3>1, <4>2, <5>1, <5>2, <5>4 DEF LaneHolds, id
      <4> QED
          BY <3>2, <4>1, <4>2 DEF Related
    <3> QED
        BY <2>3, <3>1, <3>3 DEF Mutation
  <2> QED
      BY <1>8, <2>4, <2>5
<1>15. Keeps(s, t, {})
  <2>1. \A p \in Queue : QueueKept(s.queues[p], t.queues[p])
      BY <1>4 DEF SameQueues, QueueKept
  <2>2. ASSUME NEW n \in Mutation PROVE ItemKept(s.items[n], t.items[n])
    <3>1. CASE n = m
        BY <1>5, <1>6, <1>7, <3>1 DEF ItemKept, x, q, id
    <3>2. CASE n # m
        BY <1>6, <3>2 DEF ItemKept
    <3> QED
        BY <3>1, <3>2
  <2>3. \A n \in Mutation : s.items[n].attempt = "none" <=> t.items[n].attempt = "none"
      BY <1>5, <1>6, <1>7 DEF x
  <2> QED
      BY <2>1, <2>2, <2>3 DEF Keeps
<1> QED
    BY <1>4, <1>11, <1>12, <1>13, <1>14, <1>15 DEF Holds, t

-----------------------------------------------------------------------------
(* A lane is drained.                                                      *)

\* A lane without entries goes.
LEMMA LaneCloses ==
    ASSUME NEW s, Holds(s), NEW id \in Id, s.lanes[id].entries = << >>
    PROVE  /\ Holds([s EXCEPT !.lanes[id] = NoLane])
           /\ Keeps(s, [s EXCEPT !.lanes[id] = NoLane], {})
<1> DEFINE ls == [s.lanes EXCEPT ![id] = NoLane]
           t == [s EXCEPT !.lanes[id] = NoLane]
<1>1. /\ s.items \in [Mutation -> Item] /\ s.lanes \in [Id -> Lanes]
      /\ Sent(s) \subseteq Mutation /\ s \in States
    BY StateTypes DEF Holds
<1>2. NoLane \in Lanes /\ ~ NoLane.running /\ NoLane.entries = << >> /\ ~ NoLane.open
  <2>1. NoLane \in Lanes
      BY AbsentTyped DEF Lanes
  <2> QED
      BY <2>1 DEF NoLane
<1>3. ls \in [Id -> Lanes] /\ ls[id] = NoLane /\ \A i \in Id : i # id => ls[i] = s.lanes[i]
    BY <1>1, <1>2
<1>4. t \in States /\ t.lanes = ls /\ t.items = s.items /\ t.queues = s.queues /\ t.log = s.log
    BY <1>1, <1>3 DEF States
<1> HIDE DEF t, ls
<1>5. Sent(t) = Sent(s)
    BY <1>4 DEF Sent
<1>6. \A i \in Id : LaneHolds(t.lanes[i], t.items, Sent(t), i)
  <2> SUFFICES ASSUME NEW i \in Id PROVE LaneHolds(t.lanes[i], t.items, Sent(t), i)
      OBVIOUS
  <2>1. CASE i = id
    <3>1. Len(NoLane.entries) = 0
        BY <1>2
    <3> QED
        BY <1>2, <1>3, <1>4, <2>1, <3>1 DEF LaneHolds
  <2>2. CASE i # id
      BY <1>3, <1>4, <1>5, <2>2 DEF Holds
  <2> QED
      BY <2>1, <2>2
<1>7. \A n \in Mutation : ItemHolds(t.items[n], n, t.lanes, Sent(t))
  <2> SUFFICES ASSUME NEW n \in Mutation PROVE ItemHolds(t.items[n], n, t.lanes, Sent(t))
      OBVIOUS
  <2>1. ItemHolds(s.items[n], n, s.lanes, Sent(s)) /\ s.items[n].id \in Id \union {NoEntity}
      BY <1>1 DEF Holds, Item
  <2>2. ~ s.lanes[id].running
      BY DEF Holds, LaneHolds
  <2>3. s.items[n].attempt = "running" /\ s.items[n].id # NoEntity =>
           s.items[n].id \in Id /\ s.items[n].id # id
      BY <2>1, <2>2 DEF ItemHolds
  <2> QED
      BY <1>3, <1>4, <1>5, <2>1, <2>3, ItemIsLeft
<1>8. Holds(t)
    BY <1>4, <1>5, <1>6, <1>7 DEF Holds
<1>9. Keeps(s, t, {})
    BY <1>4, KeepsItself DEF Keeps
<1> QED
    BY <1>8, <1>9 DEF t

\* #drainMutationLane keeps the invariant.
LEMMA DrainHolds ==
    ASSUME NEW s, Holds(s), NEW id \in Id
    PROVE  Holds(DrainLane(s, id)) /\ Keeps(s, DrainLane(s, id), {})
<1> DEFINE lane == s.lanes[id]
           m == Head(lane.entries).mutation
           ls == [s.lanes EXCEPT ![id] = TakeNext(lane)]
<1>1. lane \in Lanes /\ LaneHolds(lane, s.items, Sent(s), id) /\ s \in States
    BY StateTypes DEF Holds
<1>2. CASE ~ lane.open \/ lane.running \/ (lane.entries # << >> /\ ~ Ready(s, m))
  <2>1. DrainLane(s, id) = s
      BY <1>1, <1>2 DEF DrainLane, LaneHolds
  <2> QED
      BY <2>1, KeepsItself
<1>3. CASE lane.open /\ ~ lane.running /\ lane.entries = << >>
  <2>1. DrainLane(s, id) = [s EXCEPT !.lanes[id] = NoLane]
      BY <1>3 DEF DrainLane
  <2> QED
      BY <1>3, <2>1, LaneCloses
<1>4. CASE lane.open /\ ~ lane.running /\ lane.entries # << >> /\ Ready(s, m)
  <2>1. DrainLane(s, id) = Start([s EXCEPT !.lanes[id] = TakeNext(lane)], m)
      BY <1>4 DEF DrainLane
  <2>2. [s EXCEPT !.lanes[id] = TakeNext(lane)] = [s EXCEPT !.lanes = ls]
      BY <1>1 DEF States
  <2>3. lane.entries \in Seq(EntriesOf(Mutation))
      BY <1>1 DEF Lanes, Lane
  <2>4. 1 \in 1 .. Len(lane.entries) /\ m = lane.entries[1].mutation
        /\ lane.entries[1] \in EntriesOf(Mutation)
      BY <1>4, <2>3, EmptySeq, LenProperties, ElementOfSeq, HeadTailProperties
  <2>5. m \in Mutation /\ s.items[m].id = id /\ s.items[m].attempt = "pending"
      BY Zenon, <1>1, <1>4, <2>4 DEF LaneHolds, EntriesOf
  <2>6. Takes(s, ls, m) /\ Pending(s, m)
      BY <1>4, <2>4, <2>5 DEF Takes, Pending
  <2> HIDE DEF ls, m, lane
  <2>7. Holds(Start([s EXCEPT !.lanes = ls], m)) /\ Keeps(s, Start([s EXCEPT !.lanes = ls], m), {})
      BY <1>4, <2>5, <2>6, StartHolds
  <2> QED
      BY <2>1, <2>2, <2>7
<1> QED
    BY <1>2, <1>3, <1>4

-----------------------------------------------------------------------------
(* Mutations wake.                                                         *)

\* The head of a queue that may be made ready.
LEMMA WaitingIsHead ==
    ASSUME NEW s, Holds(s), NEW q \in Queue, NEW m, m \in Waiting(s, q)
    PROVE  /\ s.queues[q].items # << >> /\ s.queues[q].items[1] = m
           /\ m \in Mutation /\ s.items[m].queue = q /\ ~ s.items[m].ready
<1>1. s.queues[q] \in QueueRecord /\ QueueHolds(s.queues[q], s.items, Sent(s), q)
    BY StateTypes DEF Holds
<1>2. s.queues[q].items \in Seq(Mutation)
    BY <1>1 DEF QueueRecord
<1>3. /\ s.queues[q].items # << >> /\ m = Head(s.queues[q].items)
      /\ ~ s.items[m].observed /\ ~ s.items[m].ready
    BY DEF Waiting
<1>4. 1 \in 1 .. Len(s.queues[q].items) /\ m = s.queues[q].items[1] /\ m \in Mutation
    BY <1>2, <1>3, EmptySeq, LenProperties, ElementOfSeq, HeadTailProperties
<1> QED
    BY <1>1, <1>3, <1>4 DEF QueueHolds

\* What is held back before a mutation waits in a queue.
LEMMA HeldBackWaits ==
    ASSUME NEW s, Holds(s), NEW m \in Mutation, NEW p, p \in HeldBack(s, m)
    PROVE  p \in Mutation /\ s.items[p].queue \in Queue
<1> DEFINE id == s.items[m].id
           E == s.lanes[id].entries
           I == { i \in 1 .. Len(E) : E[i].mutation = m }
           index == SelectInSeq(E, LAMBDA e : e.mutation = m)
<1>1. s.items \in [Mutation -> Item] /\ s.lanes \in [Id -> Lanes]
    BY StateTypes DEF Holds
<1>2. id # NoEntity /\ p \in Predecessors(s, m) /\ ~ Ready(s, p)
    BY DEF HeldBack
<1>3. id \in Id
    BY <1>1, <1>2 DEF Item
<1>4. E \in Seq(EntriesOf(Mutation))
  <2>1. s.lanes[id] \in Lanes
      BY <1>1, <1>3
  <2> QED
      BY <2>1 DEF Lanes, Lane
<1>5. Len(E) \in Nat /\ \A i \in 1 .. Len(E) : E[i] \in EntriesOf(Mutation)
    BY <1>4, LenProperties, ElementOfSeq
<1>6. index = IF I # {} THEN Min(I) ELSE 0
    BY DEF SelectInSeq
<1>7. p \in { E[i].mutation : i \in 1 .. index - 1 }
    BY <1>2 DEF Predecessors
<1> HIDE DEF index
<1>8. index \in 0 .. Len(E)
  <2>1. I \subseteq Nat /\ I \subseteq 0 .. Len(E)
      BY <1>5
  <2> HIDE DEF I
  <2>2. CASE I # {}
    <3>1. Min(I) \in I
        BY <2>1, <2>2, MinIsMinimum
    <3>2. index = Min(I)
        BY <1>6, <2>2
    <3> QED
        BY <2>1, <3>1, <3>2
  <2>3. CASE I = {}
    <3>1. index = 0
        BY <1>6, <2>3
    <3> HIDE DEF E
    <3> QED
        BY <1>5, <3>1
  <2> QED
      BY <2>2, <2>3
<1> HIDE DEF E
<1>9. p \in Mutation
  <2>1. PICK i \in 1 .. index - 1 : p = E[i].mutation
      BY <1>7
  <2>2. i \in 1 .. Len(E)
      BY <1>5, <1>8
  <2> QED
      BY <1>5, <2>1, <2>2 DEF EntriesOf
<1> QED
    BY <1>1, <1>2, <1>9 DEF Ready, Item

\* The mutation that is woken is registered, and the head of its queue if it has one.
MayWake(s, m) ==
    /\ m \in Mutation /\ s.items[m].attempt # "none"
    /\ \/ s.items[m].queue = NoQueue
       \/ /\ s.items[m].queue \in Queue
          /\ s.queues[s.items[m].queue].items # << >>
          /\ s.queues[s.items[m].queue].items[1] = m

\* What wakes next, after some mutations.
Onward(s, ms) ==
    ms \union UNION { Waiting(s, s.items[p].queue) : p \in UNION { HeldBack(s, w) : w \in ms } }

\* The queues whose heads have woken.
Freed(s, ms) == { q \in Queue : Waiting(s, q) # {} /\ Waiting(s, q) \subseteq ms }

\* Whoever stands before one of some mutations wakes with them.
Together(s, ms) ==
    \A w \in ms : \A p \in HeldBack(s, w) : Waiting(s, s.items[p].queue) \subseteq ms

\* As long as someone wakes, so does the head of one more queue.
LEMMA OnwardFrees ==
    ASSUME NEW s, Holds(s), NEW ms, ms \subseteq Mutation, Onward(s, ms) # ms
    PROVE  Cardinality(Freed(s, Onward(s, ms))) >= Cardinality(Freed(s, ms)) + 1
<1> DEFINE F == Freed(s, ms)
           G == Freed(s, Onward(s, ms))
<1>0. PICK w \in ms : \E p \in HeldBack(s, w) :
         \E n \in Waiting(s, s.items[p].queue) : n \notin ms
    BY DEF Onward
<1>1. PICK p \in HeldBack(s, w) : \E n \in Waiting(s, s.items[p].queue) : n \notin ms
    BY <1>0
<1> DEFINE q == s.items[p].queue
<1>2. q \in Queue /\ Waiting(s, q) # {} /\ ~ (Waiting(s, q) \subseteq ms)
  <2>1. w \in Mutation
      OBVIOUS
  <2>2. q \in Queue
      BY <2>1, HeldBackWaits
  <2> QED
      BY <1>1, <2>2
<1>3. Waiting(s, q) \subseteq Onward(s, ms) /\ ms \subseteq Onward(s, ms)
    BY DEF Onward
<1> HIDE DEF q
<1>4. q \in G /\ q \notin F /\ F \subseteq G /\ G \subseteq Queue
    BY <1>2, <1>3 DEF Freed
<1> HIDE DEF F, G
<1>5. IsFiniteSet(Queue)
    BY MutationQueueAssumption
<1>6. IsFiniteSet(G)
    BY <1>4, <1>5, FS_Subset
<1>7. IsFiniteSet(F)
    BY <1>4, <1>6, FS_Subset
<1>8. F \union {q} \subseteq G
    BY <1>4
<1>9. Cardinality(F \union {q}) <= Cardinality(G)
    BY <1>6, <1>8, FS_Subset
<1>10. Cardinality(F \union {q}) = Cardinality(F) + 1
    BY <1>4, <1>7, FS_AddElement
<1>11. Cardinality(F) \in Nat /\ Cardinality(G) \in Nat
    BY <1>6, <1>7, FS_CardinalityType
<1>12. Cardinality(G) >= Cardinality(F) + 1
    BY <1>9, <1>10, <1>11
<1> QED
    BY <1>12 DEF F, G

\* When every queue has woken, or nobody does any more, nobody is missing.
LEMMA FreedTogether ==
    ASSUME NEW s, Holds(s), NEW ms, ms \subseteq Mutation,
           Cardinality(Freed(s, ms)) >= Cardinality(Queue) \/ Onward(s, ms) = ms
    PROVE  Together(s, ms)
<1> DEFINE F == Freed(s, ms)
<1>1. CASE Onward(s, ms) = ms
  <2> SUFFICES ASSUME NEW w \in ms, NEW p \in HeldBack(s, w)
               PROVE  Waiting(s, s.items[p].queue) \subseteq ms
      BY DEF Together
  <2>1. Waiting(s, s.items[p].queue) \subseteq Onward(s, ms)
      BY DEF Onward
  <2> QED
      BY <1>1, <2>1
<1>2. CASE Cardinality(F) >= Cardinality(Queue)
  <2>1. F \subseteq Queue /\ IsFiniteSet(Queue)
      BY MutationQueueAssumption DEF Freed
  <2> HIDE DEF F
  <2>2. Cardinality(F) <= Cardinality(Queue)
      BY <2>1, FS_Subset
  <2>3. IsFiniteSet(F)
      BY <2>1, FS_Subset
  <2>4. Cardinality(F) \in Nat /\ Cardinality(Queue) \in Nat
      BY <2>1, <2>3, FS_CardinalityType
  <2>5. Cardinality(F) = Cardinality(Queue)
      BY <1>2, <2>2, <2>4
  <2>6. F = Queue
      BY <2>1, <2>5, FS_Subset
  <2> SUFFICES ASSUME NEW w \in ms, NEW p \in HeldBack(s, w)
               PROVE  Waiting(s, s.items[p].queue) \subseteq ms
      BY DEF Together
  <2>7. w \in Mutation
      OBVIOUS
  <2>8. s.items[p].queue \in Queue
      BY <2>7, HeldBackWaits
  <2>9. s.items[p].queue \in F
      BY <2>6, <2>8
  <2> QED
      BY <2>9 DEF F, Freed
<1> QED
    BY <1>1, <1>2

\* So is all that wakes with it, and it wakes all that stands before one of them.
LEMMA WokenMayWake ==
    ASSUME NEW s, Holds(s), NEW m, MayWake(s, m)
    PROVE  /\ m \in Woken(s, m) /\ \A n \in Woken(s, m) : MayWake(s, n)
           /\ Together(s, Woken(s, m))
<1> DEFINE May == { n \in Mutation : MayWake(s, n) }
           X == { ms \in SUBSET May : m \in ms }
           next(ms) == Onward(s, ms)
           N == Cardinality(Queue)
           IsWave(g) == g = [n \in 0 .. N |-> IF n = 0 THEN {m} ELSE next(g[n - 1])]
           step == [p \in X \X (1 .. N) |-> next(p[1])]
<1>1. N \in Nat
  <2>1. IsFiniteSet(Queue)
      BY MutationQueueAssumption
  <2> QED
      BY Zenon, <2>1, FS_CardinalityType
<1>2. {m} \in X
    BY DEF MayWake
<1>3. ASSUME NEW ms \in X PROVE next(ms) \in X
  <2> SUFFICES ASSUME NEW w \in ms, NEW p, p \in HeldBack(s, w),
                      NEW n, n \in Waiting(s, s.items[p].queue)
               PROVE  n \in May
      BY DEF Onward
  <2>1. w \in Mutation
      OBVIOUS
  <2>2. s.items[p].queue \in Queue
      BY <2>1, HeldBackWaits
  <2> DEFINE q == s.items[p].queue
  <2>3. /\ s.queues[q].items # << >> /\ s.queues[q].items[1] = n
        /\ n \in Mutation /\ s.items[n].queue = q
      BY <2>2, WaitingIsHead
  <2>4. s.items[n].attempt # "none"
    <3>1. s.items[n].queue # NoQueue
        BY <2>2, <2>3, MutationQueueAssumption
    <3>2. ItemHolds(s.items[n], n, s.lanes, Sent(s))
        BY <2>3 DEF Holds
    <3> QED
        BY <3>1, <3>2 DEF ItemHolds, NoItem
  <2> QED
      BY Zenon, <2>2, <2>3, <2>4 DEF MayWake
<1> HIDE DEF X, next
<1>4. step \in [X \X (1 .. N) -> X] /\ \A x \in X, n \in 1 .. N : step[<< x, n >>] = next(x)
    BY <1>3
<1> HIDE DEF step, N
<1>5. HasSolution(X, {m}, N, step)
    BY ONLY <1>1, <1>2, <1>4, Recursion
<1>6. PICK h \in [0 .. N -> X] : h[0] = {m} /\ \A n \in 1 .. N : h[n] = step[<< h[n - 1], n >>]
    BY ONLY <1>5 DEF HasSolution
<1>7. IsWave(h)
  <2>1. ASSUME NEW n \in 0 .. N PROVE h[n] = IF n = 0 THEN {m} ELSE next(h[n - 1])
    <3>1. CASE n = 0
        BY <1>6, <3>1
    <3>2. CASE n # 0
      <4>1. n \in 1 .. N /\ n - 1 \in 0 .. N
          BY <1>1, <3>2
      <4>2. h[n - 1] \in X
          BY <4>1
      <4> QED
          BY <1>4, <1>6, <3>2, <4>1, <4>2
    <3> QED
        BY <3>1, <3>2
  <2> QED
      BY <2>1
<1> DEFINE f == CHOOSE g : IsWave(g)
<1>8. IsWave(f)
    BY <1>7
<1>9. Woken(s, m) = f[N]
    BY DEF Woken, next, Onward, N
<1> HIDE DEF f
<1> DEFINE Enough(n) == Cardinality(Freed(s, f[n])) >= n \/ next(f[n]) = f[n]
           S == { n \in 0 .. N : f[n] \in X /\ Enough(n) }
<1>10. ASSUME NEW ms \in X PROVE ms \subseteq Mutation
    BY DEF X
<1>11. ASSUME NEW ms \in X PROVE Cardinality(Freed(s, ms)) \in Nat
  <2>1. IsFiniteSet(Queue) /\ Freed(s, ms) \subseteq Queue
      BY MutationQueueAssumption DEF Freed
  <2>2. IsFiniteSet(Freed(s, ms))
      BY <2>1, FS_Subset
  <2> QED
      BY <2>2, FS_CardinalityType
<1>12. 0 \in S
  <2>1. f[0] \in X /\ 0 \in 0 .. N
      BY <1>1, <1>2, <1>8
  <2>2. Cardinality(Freed(s, f[0])) >= 0
      BY <1>11, <2>1
  <2> QED
      BY <2>1, <2>2
<1>13. ASSUME NEW n \in 1 .. N, n - 1 \in S PROVE n \in S
  <2>1. n \in 0 .. N /\ n # 0 /\ f[n - 1] \in X /\ Enough(n - 1)
      BY <1>1, <1>13
  <2>2. f[n] = next(f[n - 1])
      BY <1>8, <2>1
  <2>3. f[n] \in X
      BY <1>3, <2>1, <2>2
  <2>4. CASE next(f[n - 1]) = f[n - 1]
      BY <2>1, <2>2, <2>3, <2>4
  <2>5. CASE next(f[n - 1]) # f[n - 1]
    <3>1. f[n - 1] \subseteq Mutation /\ f[n] = Onward(s, f[n - 1])
        BY <1>10, <2>1, <2>2 DEF next
    <3>2. Cardinality(Freed(s, f[n])) >= Cardinality(Freed(s, f[n - 1])) + 1
        BY <2>2, <2>5, <3>1, OnwardFrees
    <3>3. /\ Cardinality(Freed(s, f[n])) \in Nat /\ Cardinality(Freed(s, f[n - 1])) \in Nat
          /\ Cardinality(Freed(s, f[n - 1])) >= n - 1
        BY <1>11, <2>1, <2>3, <2>5
    <3>4. Cardinality(Freed(s, f[n])) >= n
        BY <2>1, <3>2, <3>3
    <3> QED
        BY <2>1, <2>3, <3>4
  <2> QED
      BY <2>4, <2>5
<1> HIDE DEF S
<1>14. \A n \in 0 .. N : n \in S
    BY ONLY <1>1, <1>12, <1>13, BoundedInduction
<1>15. N \in 0 .. N
    BY <1>1
<1>16. f[N] \in X /\ Enough(N)
    BY <1>14, <1>15 DEF S
<1>17. Together(s, f[N])
  <2>1. f[N] \subseteq Mutation
      BY <1>16, <1>10
  <2>2. Cardinality(Freed(s, f[N])) >= Cardinality(Queue) \/ Onward(s, f[N]) = f[N]
      BY <1>16 DEF next, N
  <2> QED
      BY <2>1, <2>2, FreedTogether
<1> QED
    BY <1>9, <1>16, <1>17 DEF X

\* What awakes is ready; the queues keep what they hold, and what is held back before
\* it is covered by a flush.
LEMMA AwakeDoes ==
    ASSUME NEW s, Holds(s), NEW woken, \A n \in woken : MayWake(s, n)
    PROVE  LET t == Awake(s, woken)
           IN  /\ t \in States /\ t.lanes = s.lanes /\ t.log = s.log
               /\ \A n \in Mutation :
                     t.items[n] = IF n \in woken THEN [s.items[n] EXCEPT !.ready = TRUE]
                                  ELSE s.items[n]
               /\ \A q \in Queue : /\ t.queues[q].items = s.queues[q].items
                                   /\ t.queues[q].timer => s.queues[q].timer
                                   /\ t.queues[q].deciding <=> s.queues[q].deciding
                                   /\ t.queues[q].detached <=> s.queues[q].detached
                                   /\ s.queues[q].flushThrough <= t.queues[q].flushThrough
               /\ \A w \in woken : \A p \in HeldBack(s, w) :
                     p <= t.queues[s.items[p].queue].flushThrough
<1> DEFINE held == UNION { HeldBack(s, w) : w \in woken }
           flush(q) == Max({s.queues[q].flushThrough} \union { p \in held : s.items[p].queue = q })
           mine(q) == \E n \in woken : s.items[n].queue = q
           item(n) == IF n \in woken THEN [s.items[n] EXCEPT !.ready = TRUE] ELSE s.items[n]
           queue(q) == IF mine(q)
                       THEN [s.queues[q] EXCEPT !.flushThrough = flush(q), !.timer = FALSE,
                                                !.status = "scheduled"]
                       ELSE [s.queues[q] EXCEPT !.flushThrough = flush(q)]
           its == [n \in DOMAIN s.items |-> item(n)]
           qs == [q \in Queue |-> queue(q)]
           t == [s EXCEPT !.items = its, !.queues = qs]
<1>1. /\ s.items \in [Mutation -> Item] /\ s.queues \in [Queue -> QueueRecord] /\ s \in States
    BY StateTypes DEF Holds
<1>2. Awake(s, woken) = t
    BY DEF Awake
<1>3. held \subseteq Mutation
  <2>1. \A w \in woken : w \in Mutation
      BY DEF MayWake
  <2> QED
      BY <2>1, HeldBackWaits
<1> HIDE DEF held
<1>4. ASSUME NEW q \in Queue
      PROVE  /\ flush(q) \in Nat /\ s.queues[q].flushThrough <= flush(q)
             /\ \A p \in held : s.items[p].queue = q => p <= flush(q)
  <2> DEFINE P == { p \in held : s.items[p].queue = q }
             f == s.queues[q].flushThrough
  <2>1. f \in Nat
      BY <1>1 DEF QueueRecord
  <2>2. P \subseteq Mutation /\ MaxCalls \in Nat
      BY <1>3, MutationQueueAssumption
  <2>3. IsFiniteSet(Mutation)
      BY <2>2, FS_Interval DEF Mutation
  <2>4. \A p \in held : s.items[p].queue = q => p \in P
      OBVIOUS
  <2> HIDE DEF P
  <2>5. IsFiniteSet(P)
      BY <2>2, <2>3, FS_Subset
  <2>6. IsFiniteSet({f}) /\ IsFiniteSet({f} \union P)
      BY <2>5, FS_Singleton, FS_Union
  <2> HIDE DEF f
  <2>7. {f} \union P \subseteq Nat /\ {f} \union P # {}
      BY <2>1, <2>2 DEF Mutation
  <2>8. /\ Max({f} \union P) \in {f} \union P
        /\ \A x \in {f} \union P : x <= Max({f} \union P)
      BY ONLY <2>6, <2>7, MaxIsMaximum
  <2>9. flush(q) = Max({f} \union P)
      BY DEF f, P
  <2> HIDE DEF flush, f
  <2>10. flush(q) \in Nat /\ f <= flush(q) /\ \A p \in P : p <= flush(q)
      BY <2>7, <2>8, <2>9
  <2> QED
      BY <2>4, <2>10 DEF f
<1> HIDE DEF flush, mine
<1>5. ASSUME NEW q \in Queue
      PROVE  /\ queue(q) \in QueueRecord /\ queue(q).items = s.queues[q].items
             /\ queue(q).timer => s.queues[q].timer
             /\ queue(q).deciding <=> s.queues[q].deciding
             /\ queue(q).detached <=> s.queues[q].detached
             /\ queue(q).flushThrough = flush(q)
  <2>1. flush(q) \in Nat /\ s.queues[q] \in QueueRecord /\ "scheduled" \in Statuses
      BY <1>1, <1>4 DEF Statuses
  <2>2. CASE mine(q)
      BY <2>1, <2>2 DEF QueueRecord
  <2>3. CASE ~ mine(q)
      BY <2>1, <2>3 DEF QueueRecord
  <2> QED
      BY <2>2, <2>3
<1>6. ASSUME NEW n \in Mutation PROVE item(n) \in Item
  <2>1. s.items[n] \in Item
      BY <1>1
  <2>2. [s.items[n] EXCEPT !.ready = TRUE] \in Item
      BY <2>1 DEF Item
  <2> QED
      BY <2>1, <2>2
<1> HIDE DEF queue, item
<1>7. qs \in [Queue -> QueueRecord] /\ \A q \in Queue : qs[q] = queue(q)
    BY <1>5
<1>8. its \in [Mutation -> Item] /\ \A n \in Mutation : its[n] = item(n)
    BY <1>1, <1>6
<1> HIDE DEF qs, its
<1>9. t \in States /\ t.lanes = s.lanes /\ t.log = s.log /\ t.items = its /\ t.queues = qs
    BY <1>1, <1>7, <1>8 DEF States
<1> HIDE DEF t
<1>10. \A n \in Mutation :
          t.items[n] = IF n \in woken THEN [s.items[n] EXCEPT !.ready = TRUE] ELSE s.items[n]
    BY <1>8, <1>9 DEF item
<1>11. \A q \in Queue : /\ t.queues[q].items = s.queues[q].items
                        /\ t.queues[q].timer => s.queues[q].timer
                        /\ t.queues[q].deciding <=> s.queues[q].deciding
                        /\ t.queues[q].detached <=> s.queues[q].detached
                        /\ t.queues[q].flushThrough = flush(q)
                        /\ s.queues[q].flushThrough <= t.queues[q].flushThrough
    BY <1>4, <1>5, <1>7, <1>9
<1>12. ASSUME NEW v \in woken, NEW p \in HeldBack(s, v)
       PROVE  p <= t.queues[s.items[p].queue].flushThrough
  <2>1. v \in Mutation
      BY DEF MayWake
  <2>2. s.items[p].queue \in Queue
      BY <2>1, HeldBackWaits
  <2>3. p \in held
      BY DEF held
  <2> QED
      BY <1>4, <1>11, <2>2, <2>3
<1> QED
    BY <1>2, <1>9, <1>10, <1>11, <1>12

\* What may wake, awakes: the invariant is kept.
LEMMA AwakeHolds ==
    ASSUME NEW s, Holds(s), NEW woken, \A n \in woken : MayWake(s, n)
    PROVE  /\ Holds(Awake(s, woken)) /\ Keeps(s, Awake(s, woken), {})
           /\ \A n \in woken : Ready(Awake(s, woken), n)
<1> DEFINE t == Awake(s, woken)
<1>1. /\ s.items \in [Mutation -> Item] /\ s.queues \in [Queue -> QueueRecord]
      /\ s.lanes \in [Id -> Lanes] /\ Sent(s) \subseteq Mutation
    BY StateTypes DEF Holds
<1>2. /\ t \in States /\ t.lanes = s.lanes /\ t.log = s.log
      /\ \A n \in Mutation :
            t.items[n] = IF n \in woken THEN [s.items[n] EXCEPT !.ready = TRUE] ELSE s.items[n]
      /\ \A q \in Queue : /\ t.queues[q].items = s.queues[q].items
                          /\ t.queues[q].timer => s.queues[q].timer
                          /\ t.queues[q].deciding <=> s.queues[q].deciding
                          /\ t.queues[q].detached <=> s.queues[q].detached
    BY AwakeDoes
<1> HIDE DEF t
<1>3. Sent(t) = Sent(s)
    BY <1>2 DEF Sent
<1>4. ASSUME NEW n \in Mutation
      PROVE  LET x == s.items[n]
                 y == t.items[n]
             IN  /\ y.queue = x.queue /\ y.id = x.id /\ y.calls = x.calls /\ y.sent = x.sent
                 /\ y.attempt = x.attempt /\ y.phase = x.phase /\ y.outcome = x.outcome
                 /\ y.observed = x.observed
                 /\ y.ready <=> (x.ready \/ n \in woken)
                 /\ n \notin woken => y = x
  <2>1. s.items[n] \in Item
      BY <1>1
  <2>2. CASE n \in woken
      BY <1>2, <2>1, <2>2 DEF Item
  <2>3. CASE n \notin woken
      BY <1>2, <2>3
  <2> QED
      BY <2>2, <2>3
<1>5. ASSUME NEW i \in Id PROVE LaneHolds(t.lanes[i], t.items, Sent(t), i)
    BY <1>1, <1>2, <1>3, <1>4, LaneIsLeft DEF Holds
<1>6. ASSUME NEW q \in Queue PROVE QueueHolds(t.queues[q], t.items, Sent(t), q)
  <2>1. QueueHolds(s.queues[q], s.items, Sent(s), q) /\ s.queues[q] \in QueueRecord
      BY <1>1 DEF Holds
  <2>2. t.queues[q].items = s.queues[q].items /\ (t.queues[q].timer => s.queues[q].items # << >>)
      BY <1>2, <2>1 DEF QueueHolds
  <2>3. t.queues[q].deciding =>
           s.queues[q].items # << >> /\ t.items[s.queues[q].items[1]].phase = "deciding"
    <3> SUFFICES ASSUME t.queues[q].deciding
                 PROVE  s.queues[q].items # << >> /\ t.items[s.queues[q].items[1]].phase = "deciding"
        OBVIOUS
    <3>1. s.queues[q].items # << >> /\ s.items[s.queues[q].items[1]].phase = "deciding"
        BY <1>2, <2>1 DEF QueueHolds
    <3>2. s.queues[q].items \in Seq(Mutation)
        BY <2>1 DEF QueueRecord
    <3>3. s.queues[q].items[1] \in Mutation
        BY <3>1, <3>2, EmptySeq, LenProperties, ElementOfSeq
    <3> QED
        BY <1>4, <3>1, <3>3
  <2>4. \A n \in Mutation : s.items[n].queue = q /\ ~ s.items[n].observed /\ t.items[n].ready =>
                               s.items[n].ready \/ n = s.queues[q].items[1]
    <3> SUFFICES ASSUME NEW n \in Mutation, s.items[n].queue = q, n \in woken
                 PROVE  n = s.queues[q].items[1]
        BY <1>4
    <3> QED
        BY MutationQueueAssumption DEF MayWake
  <2>5. /\ \A n \in Mutation : t.items[n].queue = s.items[n].queue
        /\ \A n \in Mutation : s.items[n].queue = q => (t.items[n].observed <=> s.items[n].observed)
      BY <1>4
  <2> QED
      BY <1>1, <1>3, <2>1, <2>2, <2>3, <2>4, <2>5, QueueIsLeft
<1>7. ASSUME NEW n \in Mutation PROVE ItemHolds(t.items[n], n, t.lanes, Sent(t))
  <2>1. ItemHolds(s.items[n], n, s.lanes, Sent(s))
      BY DEF Holds
  <2>2. n \in woken => s.items[n].attempt # "none"
      BY DEF MayWake
  <2> QED
      BY <1>2, <1>3, <1>4, <2>1, <2>2 DEF ItemHolds
<1>8. InOrder(t.log, t.items)
  <2>1. \A k \in 1 .. Len(s.log) : s.log[k] \in Mutation
      BY <1>1 DEF Sent
  <2> QED
      BY <1>2, <1>4, <2>1 DEF Holds, InOrder, Related
<1>9. Holds(t)
    BY <1>2, <1>5, <1>6, <1>7, <1>8 DEF Holds
<1>10. Keeps(s, t, {})
  <2>1. ASSUME NEW n \in Mutation PROVE ItemKept(s.items[n], t.items[n])
      BY <1>4 DEF ItemKept
  <2>2. \A q \in Queue : QueueKept(s.queues[q], t.queues[q])
      BY <1>2 DEF QueueKept
  <2> QED
      BY <1>4, <2>1, <2>2 DEF Keeps
<1>11. \A n \in woken : Ready(t, n)
    BY <1>4 DEF Ready, MayWake
<1> QED
    BY <1>9, <1>10, <1>11 DEF t

\* What is ready begins: the invariant is kept.
LEMMA BeginHolds ==
    ASSUME NEW s, Holds(s), NEW m \in Mutation, Ready(s, m)
    PROVE  Holds(Begin(s, m)) /\ Keeps(s, Begin(s, m), {})
<1>1. s \in States /\ s.items[m].id \in Id \union {NoEntity}
    BY StateTypes DEF Holds, Item
<1>2. CASE ~ Pending(s, m)
    BY <1>2, KeepsItself DEF Begin
<1>3. CASE Pending(s, m) /\ s.items[m].id = NoEntity
  <2>1. Takes(s, s.lanes, m)
      BY <1>3 DEF Takes
  <2>2. [s EXCEPT !.lanes = s.lanes] = s
      BY <1>1 DEF States
  <2>3. Begin(s, m) = Start(s, m)
      BY <1>3 DEF Begin
  <2> QED
      BY <1>3, <2>1, <2>2, <2>3, StartHolds
<1>4. CASE Pending(s, m) /\ s.items[m].id # NoEntity
  <2>1. Begin(s, m) = DrainLane(s, s.items[m].id)
      BY <1>4 DEF Begin
  <2> QED
      BY <1>1, <1>4, <2>1, DrainHolds
<1> QED
    BY <1>2, <1>3, <1>4

-----------------------------------------------------------------------------
(* What a mutation waits for.                                              *)

Ascending(E) == \A k, l \in 1 .. Len(E) : k < l => E[k].mutation < E[l].mutation

\* A mutation stands in the lane of an entity.
Stands(s, id, m) ==
    \E i \in 1 .. Len(s.lanes[id].entries) : s.lanes[id].entries[i].mutation = m

\* An older mutation of the same entity waits in another queue for its turn.
Stops(s, m, p) ==
    LET id == s.items[m].id
    IN  /\ id \in Id /\ p < m /\ Stands(s, id, m) /\ Stands(s, id, p)
        /\ Pending(s, m) /\ Pending(s, p) /\ ~ Ready(s, p)

\* The head of a queue, if it has one, is due.
Quiet(s, q) == s.queues[q].items = << >> \/ s.items[s.queues[q].items[1]].ready

\* What a mutation that is due waits for is covered by a flush, and held up by what is
\* due itself; but for some queues, and for some mutations.
Covered(s, Q, B) ==
    \A m, p \in Mutation : m \notin B /\ Ready(s, m) /\ Stops(s, m, p) =>
        /\ p <= s.queues[s.items[p].queue].flushThrough
        /\ s.items[p].queue \in Q \/ Quiet(s, s.items[p].queue)

\* The entries of a lane.
LEMMA LaneEntries ==
    ASSUME NEW s, Holds(s), NEW id \in Id
    PROVE  LET E == s.lanes[id].entries
           IN  /\ E \in Seq(EntriesOf(Mutation)) /\ Len(E) \in Nat /\ Ascending(E)
               /\ \A i \in 1 .. Len(E) : E[i].mutation \in Mutation
<1> DEFINE E == s.lanes[id].entries
<1>1. s.lanes[id] \in Lanes /\ LaneHolds(s.lanes[id], s.items, Sent(s), id)
    BY StateTypes DEF Holds
<1>2. E \in Seq(EntriesOf(Mutation))
    BY <1>1 DEF Lanes, Lane
<1>3. Len(E) \in Nat /\ \A i \in 1 .. Len(E) : E[i] \in EntriesOf(Mutation)
    BY <1>2, LenProperties, ElementOfSeq
<1>4. \A i \in 1 .. Len(E) : E[i].mutation \in Mutation
    BY <1>3 DEF EntriesOf
<1>5. Ascending(E)
    BY <1>1 DEF LaneHolds, Ascending
<1> QED
    BY <1>2, <1>3, <1>4, <1>5

\* #expediteMutationPredecessors finds what stops a mutation.
LEMMA HeldBackStops ==
    ASSUME NEW s, Holds(s), NEW m \in Mutation, NEW p
    PROVE  p \in HeldBack(s, m) <=> (p \in Mutation /\ Stops(s, m, p))
<1> DEFINE id == s.items[m].id
           E == s.lanes[id].entries
           I == { i \in 1 .. Len(E) : E[i].mutation = m }
           index == SelectInSeq(E, LAMBDA e : e.mutation = m)
<1>1. id \in Id \union {NoEntity} /\ NoEntity \notin Id
    BY StateTypes, MutationQueueAssumption DEF Holds, Item
<1>2. CASE id = NoEntity
    BY <1>1, <1>2 DEF HeldBack, Stops
<1>3. CASE id \in Id
  <2>1. /\ Len(E) \in Nat /\ Ascending(E)
        /\ \A i \in 1 .. Len(E) : E[i].mutation \in Mutation
      BY <1>3, LaneEntries
  <2>2. index = IF I # {} THEN Min(I) ELSE 0
      BY DEF SelectInSeq
  <2>3. Predecessors(s, m) = { E[i].mutation : i \in 1 .. index - 1 }
      BY DEF Predecessors
  <2>4. p \in HeldBack(s, m) <=>
           Pending(s, m) /\ p \in Predecessors(s, m) /\ Pending(s, p) /\ ~ Ready(s, p)
      BY <1>1, <1>3 DEF HeldBack
  <2> HIDE DEF index
  <2>5. Stands(s, id, m) <=> I # {}
      BY Zenon DEF Stands
  <2>6. p \in Predecessors(s, m) <=>
           p \in Mutation /\ p < m /\ Stands(s, id, m) /\ Stands(s, id, p)
    <3>1. CASE I = {}
      <4>1. index = 0
          BY Zenon, <2>2, <3>1
      <4> HIDE DEF E
      <4> QED
          BY <2>3, <2>5, <3>1, <4>1
    <3>2. CASE I # {}
      <4>1. I \subseteq Nat
        <5> HIDE DEF E
        <5>1. 1 .. Len(E) \subseteq Nat
            BY <2>1
        <5> QED
            BY <5>1
      <4> HIDE DEF I
      <4>2. index \in I
          BY <2>2, <3>2, <4>1, MinIsMinimum
      <4> USE DEF I
      <4>3. index \in 1 .. Len(E) /\ E[index].mutation = m
          BY <4>2
      <4> HIDE DEF E, I
      <4>4. ASSUME NEW i \in 1 .. index - 1
            PROVE  i \in 1 .. Len(E) /\ E[i].mutation \in Mutation /\ E[i].mutation < m
        <5>1. i \in 1 .. Len(E) /\ i < index
            BY <2>1, <4>3
        <5> QED
            BY <2>1, <4>3, <5>1 DEF Ascending
      <4>5. ASSUME NEW i \in 1 .. Len(E), E[i].mutation < m
            PROVE  i \in 1 .. index - 1
        <5>1. ~ (index < i) /\ i # index
          <6>1. index < i => E[index].mutation < E[i].mutation
              BY <2>1, <4>3 DEF Ascending
          <6> QED
              BY <2>1, <4>3, <4>5, <6>1 DEF Mutation
        <5> QED
            BY <2>1, <4>3, <5>1
      <4> QED
          BY Zenon, <2>1, <2>3, <2>5, <3>2, <4>4, <4>5 DEF Stands, E
    <3> QED
        BY <3>1, <3>2
  <2> QED
      BY <1>3, <2>4, <2>6 DEF Stops
<1> QED
    BY <1>1, <1>2, <1>3

\* What stops a mutation waits in a queue, which holds it.
LEMMA StopsInQueue ==
    ASSUME NEW s, Holds(s), NEW m \in Mutation, NEW p \in Mutation, Stops(s, m, p)
    PROVE  LET q == s.items[p].queue
           IN  /\ q \in Queue /\ ~ s.items[p].ready /\ ~ s.items[p].observed
               /\ s.queues[q].items # << >>
               /\ s.queues[q].items[1] \in Mutation /\ s.queues[q].items[1] <= p
<1> DEFINE q == s.items[p].queue
           I == s.queues[q].items
<1>1. q \in Queue /\ ~ s.items[p].ready /\ ~ s.items[p].observed
  <2>1. s.items[p] \in Item /\ ItemHolds(s.items[p], p, s.lanes, Sent(s))
      BY StateTypes DEF Holds
  <2> QED
      BY <2>1 DEF Stops, Ready, Pending, ItemHolds, Item
<1>2. I \in Seq(Mutation) /\ QueueHolds(s.queues[q], s.items, Sent(s), q)
    BY <1>1, StateTypes DEF Holds, QueueRecord
<1>3. PICK i \in 1 .. Len(I) : I[i] = p
    BY Zenon, <1>1, <1>2 DEF QueueHolds
<1>4. I # << >> /\ 1 \in 1 .. Len(I) /\ I[1] \in Mutation /\ (i = 1 \/ 1 < i)
    BY <1>2, <1>3, EmptySeq, LenProperties, ElementOfSeq
<1>5. 1 < i => I[1] < I[i]
    BY Zenon, <1>2, <1>4 DEF QueueHolds
<1> HIDE DEF I
<1>6. I[1] <= p
    BY <1>3, <1>4, <1>5 DEF Mutation
<1> QED
    BY <1>1, <1>4, <1>6 DEF I

\* A queue whose head is due, and no other, has nothing for a timer.
LEMMA QuietWaits ==
    ASSUME NEW s, Holds(s), NEW q \in Queue
    PROVE  Quiet(s, q) <=> Waiting(s, q) = {}
<1> DEFINE I == s.queues[q].items
<1>1. I \in Seq(Mutation) /\ QueueHolds(s.queues[q], s.items, Sent(s), q)
    BY StateTypes DEF Holds, QueueRecord
<1>2. CASE I = << >>
    BY <1>2 DEF Quiet, Waiting
<1>3. CASE I # << >>
  <2>1. 1 \in 1 .. Len(I) /\ Head(I) = I[1] /\ I[1] \in Mutation
      BY <1>1, <1>3, EmptySeq, LenProperties, ElementOfSeq, HeadTailProperties
  <2>2. ~ s.items[I[1]].observed /\ s.items[I[1]].queue = q
      BY <1>1, <1>3, <2>1 DEF QueueHolds
  <2>3. s.queues[q].deciding => s.items[I[1]].ready
    <3>1. s.queues[q].deciding => s.items[I[1]].phase = "deciding"
        BY <1>1 DEF QueueHolds
    <3> HIDE DEF I
    <3>2. ItemHolds(s.items[I[1]], I[1], s.lanes, Sent(s))
        BY <2>1 DEF Holds
    <3> QED
        BY <2>2, <3>1, <3>2, MutationQueueAssumption DEF ItemHolds
  <2>4. Quiet(s, q) <=> s.items[I[1]].ready
      BY <1>3 DEF Quiet
  <2> HIDE DEF I
  <2>5. Waiting(s, q) = IF s.queues[q].deciding THEN {}
                        ELSE { m \in {I[1]} : ~ s.items[m].observed /\ ~ s.items[m].ready }
      BY <1>3, <2>1 DEF Waiting, I
  <2> QED
      BY <2>2, <2>3, <2>4, <2>5
<1> QED
    BY <1>2, <1>3

\* A step that makes nothing ready, and lets lanes and what waits only shrink.
Shrinks(s, t) ==
    /\ \A n \in Mutation :
          /\ t.items[n].queue = s.items[n].queue /\ t.items[n].id = s.items[n].id
          /\ t.items[n].ready <=> s.items[n].ready
          /\ Pending(t, n) => Pending(s, n)
    /\ \A id \in Id, n \in Mutation : Stands(t, id, n) => Stands(s, id, n)
    /\ \A q \in Queue :
          /\ t.queues[q].items = s.queues[q].items
          /\ \A p \in Mutation : p <= s.queues[q].flushThrough => p <= t.queues[q].flushThrough

\* A state shrinks to itself.
LEMMA ShrinksItself ==
    ASSUME NEW s
    PROVE  Shrinks(s, s)
BY DEF Shrinks

\* Steps that shrink follow one another.
LEMMA ShrinksOn ==
    ASSUME NEW s, NEW t, NEW u, Shrinks(s, t), Shrinks(t, u)
    PROVE  Shrinks(s, u)
BY DEF Shrinks

\* What stopped nothing before such a step stops nothing after it.
LEMMA CoveredShrinks ==
    ASSUME NEW s, Holds(s), NEW t, Shrinks(s, t), NEW Q, NEW B, Covered(s, Q, B)
    PROVE  Covered(t, Q, B)
<1> SUFFICES ASSUME NEW m \in Mutation, NEW p \in Mutation, m \notin B,
                    Ready(t, m), Stops(t, m, p)
             PROVE  /\ p <= t.queues[t.items[p].queue].flushThrough
                    /\ t.items[p].queue \in Q \/ Quiet(t, t.items[p].queue)
    BY DEF Covered
<1> DEFINE q == s.items[p].queue
<1>1. Stops(s, m, p) /\ Ready(s, m)
    BY DEF Shrinks, Stops, Ready
<1>2. /\ p <= s.queues[q].flushThrough
      /\ q \in Q \/ Quiet(s, q)
    BY <1>1 DEF Covered
<1>3. q \in Queue /\ s.queues[q].items # << >> /\ s.queues[q].items[1] \in Mutation
    BY <1>1, StopsInQueue
<1>4. t.items[p].queue = q
    BY DEF Shrinks
<1> HIDE DEF q
<1>5. p <= t.queues[q].flushThrough /\ t.queues[q].items = s.queues[q].items
    BY <1>2, <1>3 DEF Shrinks
<1>6. Quiet(s, q) => Quiet(t, q)
    BY <1>3, <1>5 DEF Quiet, Shrinks
<1> QED
    BY <1>2, <1>4, <1>5, <1>6

\* A step that leaves the mutations, the lanes and the flushes.
LEMMA SameShrinks ==
    ASSUME NEW s, NEW t, t.items = s.items, t.lanes = s.lanes, SameQueues(s, t)
    PROVE  Shrinks(s, t)
BY DEF Shrinks, SameQueues, Stands, Pending

\* A lane that runs keeps its entries.
LEMMA TakesLeaves ==
    ASSUME NEW s, Holds(s), NEW m \in Mutation, NEW ls, Takes(s, ls, m)
    PROVE  ls \in [Id -> Lanes] /\ \A i \in Id : ls[i].entries = s.lanes[i].entries
<1> DEFINE id == s.items[m].id
<1>1. s.lanes \in [Id -> Lanes]
    BY StateTypes DEF Holds
<1>2. CASE ls = s.lanes
    BY <1>1, <1>2
<1>3. CASE id \in Id /\ ls = [s.lanes EXCEPT ![id] = TakeNext(s.lanes[id])]
  <2>1. /\ TakeNext(s.lanes[id]) \in Lanes
        /\ TakeNext(s.lanes[id]).entries = s.lanes[id].entries
      BY <1>1, <1>3 DEF TakeNext, Lanes, Lane
  <2> QED
      BY Zenon, <1>1, <1>3, <2>1
<1> QED
    BY <1>2, <1>3 DEF Takes

\* What starts waits no longer.
LEMMA StartShrinks ==
    ASSUME NEW s, Holds(s), NEW m \in Mutation, NEW ls, Takes(s, ls, m)
    PROVE  Shrinks(s, Start([s EXCEPT !.lanes = ls], m))
<1> DEFINE t == Start([s EXCEPT !.lanes = ls], m)
<1>1. ls \in [Id -> Lanes] /\ \A i \in Id : ls[i].entries = s.lanes[i].entries
    BY TakesLeaves
<1>2. s \in States /\ s.items \in [Mutation -> Item]
    BY StateTypes DEF Holds
<1>3. /\ t.lanes = ls
      /\ t.items = [s.items EXCEPT ![m] = Started(s.items[m])]
      /\ SameQueues(s, t)
    BY <1>1, <1>2, MutationQueueAssumption, StartDoes
<1> HIDE DEF t
<1>4. LET x == s.items[m]
          y == Started(s.items[m])
      IN  y.queue = x.queue /\ y.id = x.id /\ y.ready = x.ready /\ y.attempt = "running"
    BY <1>2 DEF Started, Item
<1>5. ASSUME NEW n \in Mutation
      PROVE  /\ t.items[n].queue = s.items[n].queue /\ t.items[n].id = s.items[n].id
             /\ t.items[n].ready <=> s.items[n].ready
             /\ Pending(t, n) => Pending(s, n)
  <2>1. t.items[n] = IF n = m THEN Started(s.items[m]) ELSE s.items[n]
      BY <1>2, <1>3
  <2> QED
      BY <1>4, <2>1 DEF Pending
<1>6. \A id \in Id, n \in Mutation : Stands(t, id, n) => Stands(s, id, n)
    BY <1>1, <1>3 DEF Stands
<1> QED
    BY <1>3, <1>5, <1>6 DEF Shrinks, SameQueues, t

\* #drainMutationLane makes nothing wait.
LEMMA DrainShrinks ==
    ASSUME NEW s, Holds(s), NEW id \in Id
    PROVE  Shrinks(s, DrainLane(s, id))
<1> DEFINE lane == s.lanes[id]
           m == Head(lane.entries).mutation
           ls == [s.lanes EXCEPT ![id] = TakeNext(lane)]
<1>1. lane \in Lanes /\ LaneHolds(lane, s.items, Sent(s), id) /\ s \in States
      /\ s.lanes \in [Id -> Lanes]
    BY StateTypes DEF Holds
<1>2. CASE ~ lane.open \/ lane.running \/ (lane.entries # << >> /\ ~ Ready(s, m))
  <2>1. DrainLane(s, id) = s
      BY <1>1, <1>2 DEF DrainLane, LaneHolds
  <2> QED
      BY <2>1, ShrinksItself
<1>3. CASE lane.open /\ ~ lane.running /\ lane.entries = << >>
  <2> DEFINE ks == [s.lanes EXCEPT ![id] = NoLane]
             t == [s EXCEPT !.lanes = ks]
  <2>1. DrainLane(s, id) = [s EXCEPT !.lanes[id] = NoLane]
      BY <1>3 DEF DrainLane
  <2>2. DrainLane(s, id) = t
      BY <1>1, <2>1 DEF States
  <2>3. NoLane \in Lanes /\ NoLane.entries = << >>
    <3>1. NoLane \in Lanes
        BY AbsentTyped DEF Lanes
    <3> QED
        BY <3>1 DEF NoLane
  <2>4. \A i \in Id : ks[i] = IF i = id THEN NoLane ELSE s.lanes[i]
      BY <1>1
  <2> HIDE DEF ks
  <2>5. t.items = s.items /\ t.queues = s.queues /\ t.lanes = ks
      BY <1>1 DEF States
  <2> HIDE DEF t
  <2>6. ASSUME NEW i \in Id, NEW n \in Mutation, Stands(t, i, n) PROVE Stands(s, i, n)
    <3>1. ks[i].entries = s.lanes[i].entries
        BY <1>3, <2>3, <2>4
    <3> QED
        BY <2>5, <2>6, <3>1 DEF Stands
  <2>7. Shrinks(s, t)
      BY <2>5, <2>6 DEF Shrinks, Pending
  <2> QED
      BY <2>2, <2>7
<1>4. CASE lane.open /\ ~ lane.running /\ lane.entries # << >> /\ Ready(s, m)
  <2>1. DrainLane(s, id) = Start([s EXCEPT !.lanes[id] = TakeNext(lane)], m)
      BY <1>4 DEF DrainLane
  <2>2. [s EXCEPT !.lanes[id] = TakeNext(lane)] = [s EXCEPT !.lanes = ls]
      BY <1>1 DEF States
  <2>3. lane.entries \in Seq(EntriesOf(Mutation))
      BY <1>1 DEF Lanes, Lane
  <2>4. 1 \in 1 .. Len(lane.entries) /\ m = lane.entries[1].mutation
        /\ lane.entries[1] \in EntriesOf(Mutation)
      BY <1>4, <2>3, EmptySeq, LenProperties, ElementOfSeq, HeadTailProperties
  <2>5. m \in Mutation /\ s.items[m].id = id
      BY Zenon, <1>1, <1>4, <2>4 DEF LaneHolds, EntriesOf
  <2>6. Takes(s, ls, m)
      BY <1>4, <2>4, <2>5 DEF Takes
  <2> HIDE DEF ls, m, lane
  <2>7. Shrinks(s, Start([s EXCEPT !.lanes = ls], m))
      BY <2>5, <2>6, StartShrinks
  <2> QED
      BY <2>1, <2>2, <2>7
<1> QED
    BY <1>2, <1>3, <1>4

\* What begins waits no longer.
LEMMA BeginShrinks ==
    ASSUME NEW s, Holds(s), NEW m \in Mutation
    PROVE  Shrinks(s, Begin(s, m))
<1>1. s \in States /\ s.items[m].id \in Id \union {NoEntity}
    BY StateTypes DEF Holds, Item
<1>2. CASE ~ Pending(s, m)
    BY <1>2, ShrinksItself DEF Begin
<1>3. CASE Pending(s, m) /\ s.items[m].id = NoEntity
  <2>1. Takes(s, s.lanes, m)
      BY <1>3 DEF Takes
  <2>2. [s EXCEPT !.lanes = s.lanes] = s
      BY <1>1 DEF States
  <2>3. Begin(s, m) = Start(s, m)
      BY <1>3 DEF Begin
  <2> QED
      BY <2>1, <2>2, <2>3, StartShrinks
<1>4. CASE Pending(s, m) /\ s.items[m].id # NoEntity
  <2>1. Begin(s, m) = DrainLane(s, s.items[m].id)
      BY <1>4 DEF Begin
  <2> QED
      BY <1>1, <1>4, <2>1, DrainShrinks
<1> QED
    BY <1>2, <1>3, <1>4

-----------------------------------------------------------------------------
(* A mutation that is due wakes.                                           *)

\* What is ready stays so.
LEMMA ReadyIsKept ==
    ASSUME NEW s, NEW t, Keeps(s, t, {}), NEW m \in Mutation, Ready(s, m)
    PROVE  Ready(t, m)
BY DEF Keeps, ItemKept, Ready

\* whenReady keeps the invariant, however many queues are expedited; what begins then
\* waits no longer.
LEMMA WakeHolds ==
    ASSUME NEW s, Holds(s), NEW m, MayWake(s, m)
    PROVE  /\ Holds(Wake(s, m)) /\ Keeps(s, Wake(s, m), {})
           /\ Shrinks(Awake(s, Woken(s, m)), Wake(s, m))
<1> DEFINE woken == Woken(s, m)
           awake == Awake(s, woken)
           X == { t \in States : Holds(t) /\ Keeps(awake, t, {}) /\ Shrinks(awake, t) }
           N == MaxCalls
           next(t, n) == IF n \in woken THEN Begin(t, n) ELSE t
           IsRun(g) == g = [n \in 0 .. N |->
                               IF n = 0 THEN awake
                               ELSE IF n \in woken THEN Begin(g[n - 1], n) ELSE g[n - 1]]
           step == [p \in X \X (1 .. N) |-> next(p[1], p[2])]
<1>1. N \in Nat
    BY MutationQueueAssumption
<1>2. /\ Holds(awake) /\ Keeps(s, awake, {}) /\ \A n \in woken : Ready(awake, n) /\ n \in Mutation
    BY Zenon, WokenMayWake, AwakeHolds DEF MayWake
<1>3. Wake(s, m) = (CHOOSE g : IsRun(g))[N]
    BY DEF Wake
<1> HIDE DEF awake, woken
<1>4. awake \in X
  <2>1. Keeps(awake, awake, {}) /\ Shrinks(awake, awake)
      BY <1>2, KeepsItself, ShrinksItself
  <2> QED
      BY <1>2, <2>1 DEF Holds
<1>5. ASSUME NEW t \in X, NEW n \in 1 .. N PROVE next(t, n) \in X
  <2>1. CASE n \notin woken
      BY <2>1
  <2>2. CASE n \in woken
    <3>1. Ready(t, n) /\ n \in Mutation
        BY <1>2, <2>2, ReadyIsKept
    <3>2. Holds(Begin(t, n)) /\ Keeps(t, Begin(t, n), {})
        BY <3>1, BeginHolds
    <3>3. Keeps(awake, Begin(t, n), {} \union {})
        BY <1>2, <3>2, KeepsOn
    <3>4. Begin(t, n) \in States /\ {} \union {} = {}
        BY <3>2 DEF Holds
    <3>5. Shrinks(awake, Begin(t, n))
        BY <3>1, BeginShrinks, ShrinksOn
    <3> QED
        BY <2>2, <3>2, <3>3, <3>4, <3>5
  <2> QED
      BY <2>1, <2>2
<1> HIDE DEF X
<1>6. step \in [X \X (1 .. N) -> X] /\ \A t \in X, n \in 1 .. N : step[<< t, n >>] = next(t, n)
    BY <1>5
<1> HIDE DEF step, N
<1>7. HasSolution(X, awake, N, step)
    BY ONLY <1>1, <1>4, <1>6, Recursion
<1>8. PICK h \in [0 .. N -> X] : h[0] = awake /\ \A n \in 1 .. N : h[n] = step[<< h[n - 1], n >>]
    BY ONLY <1>7 DEF HasSolution
<1>9. IsRun(h)
  <2>1. ASSUME NEW n \in 0 .. N
        PROVE  h[n] = IF n = 0 THEN awake
                      ELSE IF n \in woken THEN Begin(h[n - 1], n) ELSE h[n - 1]
    <3>1. CASE n = 0
        BY <1>8, <3>1
    <3>2. CASE n # 0
      <4>1. n \in 1 .. N /\ n - 1 \in 0 .. N
          BY <1>1, <3>2
      <4>2. h[n - 1] \in X
          BY <4>1
      <4>3. h[n] = next(h[n - 1], n)
          BY <1>6, <1>8, <4>1, <4>2
      <4> QED
          BY <3>2, <4>3
    <3> QED
        BY <3>1, <3>2
  <2> QED
      BY <2>1
<1> DEFINE f == CHOOSE g : IsRun(g)
<1>10. IsRun(f)
    BY <1>9
<1> HIDE DEF f
<1> DEFINE S == { n \in 0 .. N : f[n] \in X }
<1>11. 0 \in S
    BY <1>1, <1>4, <1>10
<1>12. ASSUME NEW n \in 1 .. N, n - 1 \in S PROVE n \in S
  <2>1. n \in 0 .. N /\ n # 0 /\ f[n - 1] \in X
      BY <1>1, <1>12
  <2>2. f[n] = next(f[n - 1], n)
      BY <1>10, <2>1
  <2> HIDE DEF next
  <2> QED
      BY <1>5, <2>1, <2>2
<1> HIDE DEF S
<1>13. \A n \in 0 .. N : n \in S
    BY ONLY <1>1, <1>11, <1>12, BoundedInduction
<1>14. N \in 0 .. N
    BY <1>1
<1>15. f[N] \in X
    BY <1>13, <1>14 DEF S
<1>16. Holds(f[N]) /\ Keeps(awake, f[N], {}) /\ Shrinks(awake, f[N])
    BY <1>15 DEF X
<1>17. Keeps(s, f[N], {} \union {})
    BY <1>2, <1>16, KeepsOn
<1>18. Wake(s, m) = f[N]
    BY <1>3 DEF f, N
<1> QED
    BY <1>16, <1>17, <1>18 DEF awake, woken

-----------------------------------------------------------------------------
(* A queue is armed.                                                       *)

\* A queue may change anything but what it holds, and pause when the end of its head is
\* to be decided.
LEMMA QueueChanges ==
    ASSUME NEW s, Holds(s), NEW q \in Queue, NEW r, r \in QueueRecord,
           r.items = s.queues[q].items, r.timer => r.items # << >>,
           r.deciding => \/ s.queues[q].deciding
                         \/ /\ s.queues[q].items # << >>
                            /\ s.items[s.queues[q].items[1]].phase = "deciding"
    PROVE  LET t == [s EXCEPT !.queues[q] = r]
           IN  /\ Holds(t) /\ t.lanes = s.lanes /\ t.items = s.items /\ t.log = s.log
               /\ t.queues[q] = r /\ \A p \in Queue : p # q => t.queues[p] = s.queues[p]
<1> DEFINE qs == [s.queues EXCEPT ![q] = r]
           t == [s EXCEPT !.queues[q] = r]
<1>1. /\ s.queues \in [Queue -> QueueRecord] /\ Sent(s) \subseteq Mutation /\ s \in States
      /\ s.items \in [Mutation -> Item]
    BY StateTypes DEF Holds
<1>2. /\ qs \in [Queue -> QueueRecord] /\ qs[q] = r
      /\ \A p \in Queue : p # q => qs[p] = s.queues[p]
    BY <1>1
<1>3. t \in States /\ t.lanes = s.lanes /\ t.items = s.items /\ t.log = s.log /\ t.queues = qs
    BY <1>1, <1>2 DEF States
<1> HIDE DEF t, qs
<1>4. Sent(t) = Sent(s)
    BY <1>3 DEF Sent
<1>5. ASSUME NEW p \in Queue PROVE QueueHolds(t.queues[p], t.items, Sent(t), p)
  <2>1. QueueHolds(s.queues[p], s.items, Sent(s), p) /\ s.queues[p] \in QueueRecord
      BY <1>1 DEF Holds
  <2>2. CASE p # q
      BY <1>2, <1>3, <1>4, <2>1, <2>2
  <2>3. CASE p = q
    <3>1. r.deciding => s.queues[q].items # << >> /\ s.items[s.queues[q].items[1]].phase = "deciding"
        BY Zenon, <2>1, <2>3 DEF QueueHolds
    <3>2. QueueHolds(r, s.items, Sent(s), q)
        BY <1>1, <2>1, <2>3, <3>1, QueueIsLeft
    <3> QED
        BY <1>2, <1>3, <1>4, <2>3, <3>2
  <2> QED
      BY <2>2, <2>3
<1>6. Holds(t)
    BY <1>3, <1>4, <1>5 DEF Holds
<1> QED
    BY <1>2, <1>3, <1>6 DEF t

\* A queue that changes neither what it holds nor what a flush reaches.
LEMMA QueueShrinks ==
    ASSUME NEW s, NEW q \in Queue, NEW t, t.items = s.items, t.lanes = s.lanes,
           t.queues[q].items = s.queues[q].items,
           t.queues[q].flushThrough = s.queues[q].flushThrough,
           \A p \in Queue : p # q => t.queues[p] = s.queues[p]
    PROVE  Shrinks(s, t)
<1>1. \A p \in Queue : /\ t.queues[p].items = s.queues[p].items
                       /\ t.queues[p].flushThrough = s.queues[p].flushThrough
    OBVIOUS
<1> QED
    BY <1>1 DEF Shrinks, Stands, Pending

\* The head of a queue may wake.
LEMMA HeadMayWake ==
    ASSUME NEW s, Holds(s), NEW q \in Queue, s.queues[q].items # << >>
    PROVE  /\ MayWake(s, Head(s.queues[q].items)) /\ Head(s.queues[q].items) = s.queues[q].items[1]
           /\ s.items[Head(s.queues[q].items)].queue = q
<1> DEFINE m == Head(s.queues[q].items)
<1>1. s.queues[q] \in QueueRecord /\ QueueHolds(s.queues[q], s.items, Sent(s), q)
    BY StateTypes DEF Holds
<1>2. s.queues[q].items \in Seq(Mutation)
    BY <1>1 DEF QueueRecord
<1>3. 1 \in 1 .. Len(s.queues[q].items) /\ m = s.queues[q].items[1] /\ m \in Mutation
    BY <1>2, EmptySeq, LenProperties, ElementOfSeq, HeadTailProperties
<1>4. s.items[m].queue = q /\ q # NoQueue
    BY <1>1, <1>3, MutationQueueAssumption DEF QueueHolds
<1>5. s.items[m].attempt # "none"
  <2>1. ItemHolds(s.items[m], m, s.lanes, Sent(s))
      BY <1>3 DEF Holds
  <2> HIDE DEF m
  <2>2. s.items[m].attempt = "none" => s.items[m] = NoItem
      BY <2>1 DEF ItemHolds
  <2>3. NoItem.queue = NoQueue
      BY DEF NoItem
  <2> QED
      BY <1>4, <2>2, <2>3
<1> QED
    BY <1>3, <1>4, <1>5 DEF MayWake

\* #armCurrent keeps the invariant.
LEMMA ArmHolds ==
    ASSUME NEW s, Holds(s), NEW q \in Queue
    PROVE  Holds(Arm(s, q)) /\ Keeps(s, Arm(s, q), {})
<1> DEFINE head == CHOOSE m \in Waiting(s, q) : TRUE
           r == [s.queues[q] EXCEPT !.timer = TRUE, !.status = "scheduled"]
<1>1. CASE Waiting(s, q) = {}
    BY <1>1, KeepsItself DEF Arm
<1>2. CASE Waiting(s, q) # {}
  <2>1. head \in Waiting(s, q)
      BY <1>2
  <2>2. Arm(s, q) = IF Due(s, q, head) THEN Wake(s, head) ELSE Scheduled(s, q)
      BY <1>2 DEF Arm
  <2> HIDE DEF head
  <2>3. s.queues[q].items # << >> /\ s.queues[q].items[1] = head
      BY <2>1, WaitingIsHead
  <2>4. Holds(Wake(s, head)) /\ Keeps(s, Wake(s, head), {})
      BY <2>3, HeadMayWake, WakeHolds
  <2>5. Holds(Scheduled(s, q)) /\ Keeps(s, Scheduled(s, q), {})
    <3>1. s.queues[q] \in QueueRecord /\ "scheduled" \in Statuses
        BY StateTypes DEF Holds, Statuses
    <3>2. /\ r \in QueueRecord /\ r.items = s.queues[q].items /\ r.timer
          /\ r.deciding <=> s.queues[q].deciding
          /\ r.detached <=> s.queues[q].detached
        BY <3>1 DEF QueueRecord
    <3> DEFINE t == [s EXCEPT !.queues[q] = r]
    <3>3. Scheduled(s, q) = t
        BY DEF Scheduled
    <3> HIDE DEF r
    <3>4. /\ Holds(t) /\ t.items = s.items
          /\ t.queues[q] = r /\ \A p \in Queue : p # q => t.queues[p] = s.queues[p]
        BY <2>3, <3>2, QueueChanges
    <3> HIDE DEF t
    <3>5. Keeps(s, t, {})
        BY <3>2, <3>4, KeepsItself DEF Keeps, QueueKept
    <3> QED
        BY <3>3, <3>4, <3>5
  <2> QED
      BY <2>2, <2>4, <2>5
<1> QED
    BY <1>1, <1>2

\* What wakes is not held back: all that stands before it is covered by a flush, and held
\* up only by what has woken with it.
LEMMA AwakeCovered ==
    ASSUME NEW s, Holds(s), NEW m, MayWake(s, m), NEW Q, Q \subseteq {s.items[m].queue},
           NEW B, B \subseteq {m}, Covered(s, Q, B)
    PROVE  Covered(Awake(s, Woken(s, m)), {}, {})
<1> DEFINE woken == Woken(s, m)
           t == Awake(s, woken)
<1>1. m \in woken /\ (\A n \in woken : MayWake(s, n)) /\ Together(s, woken)
    BY WokenMayWake
<1> HIDE DEF woken
<1>2. /\ t \in States /\ t.lanes = s.lanes
      /\ \A n \in Mutation :
            t.items[n] = IF n \in woken THEN [s.items[n] EXCEPT !.ready = TRUE] ELSE s.items[n]
      /\ \A q \in Queue : /\ t.queues[q].items = s.queues[q].items
                          /\ s.queues[q].flushThrough <= t.queues[q].flushThrough
      /\ \A w \in woken : \A p \in HeldBack(s, w) :
            p <= t.queues[s.items[p].queue].flushThrough
    BY <1>1, AwakeDoes
<1> HIDE DEF t
<1>3. /\ s.items \in [Mutation -> Item] /\ s.queues \in [Queue -> QueueRecord]
      /\ t.queues \in [Queue -> QueueRecord]
    BY <1>2, StateTypes DEF Holds
<1>4. ASSUME NEW n \in Mutation
      PROVE  LET x == s.items[n]
                 y == t.items[n]
             IN  /\ y.queue = x.queue /\ y.id = x.id /\ y.attempt = x.attempt
                 /\ y.ready <=> (x.ready \/ n \in woken)
  <2>1. s.items[n] \in Item
      BY <1>3
  <2>2. CASE n \in woken
      BY <1>2, <2>1, <2>2 DEF Item
  <2>3. CASE n \notin woken
      BY <1>2, <2>3
  <2> QED
      BY <2>2, <2>3
<1> SUFFICES ASSUME NEW a \in Mutation, NEW p \in Mutation, Ready(t, a), Stops(t, a, p)
             PROVE  /\ p <= t.queues[t.items[p].queue].flushThrough
                    /\ Quiet(t, t.items[p].queue)
    BY DEF Covered, t, woken
<1> DEFINE q == s.items[p].queue
<1>5. Stops(s, a, p) /\ (Ready(t, a) => Ready(s, a) \/ a \in woken)
  <2>1. t.items[a].id = s.items[a].id /\ Pending(s, a) /\ Pending(s, p) /\ ~ Ready(s, p)
      BY <1>4 DEF Stops, Pending, Ready
  <2>2. \A i \in Id : \A n \in Mutation : Stands(t, i, n) <=> Stands(s, i, n)
      BY <1>2 DEF Stands
  <2>3. Ready(t, a) => Ready(s, a) \/ a \in woken
      BY <1>4 DEF Ready
  <2> QED
      BY <2>1, <2>2, <2>3 DEF Stops
<1>6. /\ q \in Queue /\ s.queues[q].items # << >> /\ s.queues[q].items[1] \in Mutation
      /\ t.items[p].queue = q
    BY <1>4, <1>5, StopsInQueue
<1> HIDE DEF q
<1>7. ASSUME Quiet(s, q) \/ s.queues[q].items[1] \in woken PROVE Quiet(t, q)
    BY <1>2, <1>4, <1>6, <1>7 DEF Quiet
<1>8. CASE a \in woken
  <2>1. p \in HeldBack(s, a)
      BY <1>5, HeldBackStops
  <2>2. p <= t.queues[q].flushThrough
      BY <1>2, <1>8, <2>1 DEF q
  <2>3. Waiting(s, q) \subseteq woken
      BY <1>1, <1>8, <2>1 DEF Together, q
  <2>4. CASE Quiet(s, q)
      BY <1>6, <1>7, <2>2, <2>4
  <2>5. CASE ~ Quiet(s, q)
    <3>1. PICK h \in Waiting(s, q) : TRUE
        BY <1>6, <2>5, QuietWaits
    <3>2. s.queues[q].items[1] = h /\ h \in woken
        BY <1>6, <2>3, <3>1, WaitingIsHead
    <3> QED
        BY <1>6, <1>7, <2>2, <3>2
  <2> QED
      BY <2>4, <2>5
<1>9. CASE a \notin woken
  <2>1. a \notin B /\ Ready(s, a)
      BY <1>1, <1>5, <1>9
  <2>2. p <= s.queues[q].flushThrough /\ (q \in Q \/ Quiet(s, q))
      BY <1>5, <2>1 DEF Covered, q
  <2>3. s.queues[q].flushThrough \in Nat /\ t.queues[q].flushThrough \in Nat
    <3>1. s.queues[q] \in QueueRecord /\ t.queues[q] \in QueueRecord
        BY <1>3, <1>6
    <3> QED
        BY <3>1 DEF QueueRecord
  <2>4. p <= t.queues[q].flushThrough
    <3>1. s.queues[q].flushThrough <= t.queues[q].flushThrough /\ p \in Nat
        BY <1>2, <1>6 DEF Mutation
    <3> QED
        BY <2>2, <2>3, <3>1
  <2>5. q \in Q => s.queues[q].items[1] = m
      BY <1>6, MutationQueueAssumption DEF MayWake
  <2> QED
      BY <1>1, <1>6, <1>7, <2>2, <2>4, <2>5
<1> QED
    BY <1>8, <1>9

\* whenReady covers what the mutation it wakes waits for.
LEMMA WakeCovered ==
    ASSUME NEW s, Holds(s), NEW m, MayWake(s, m), NEW Q, Q \subseteq {s.items[m].queue},
           NEW B, B \subseteq {m}, Covered(s, Q, B)
    PROVE  Covered(Wake(s, m), {}, {})
<1> DEFINE t == Awake(s, Woken(s, m))
<1>1. Covered(t, {}, {})
    BY AwakeCovered
<1>2. \A n \in Woken(s, m) : MayWake(s, n)
    BY WokenMayWake
<1>3. Holds(t)
    BY <1>2, AwakeHolds
<1>4. Shrinks(t, Wake(s, m))
    BY WakeHolds
<1> HIDE DEF t
<1> QED
    BY <1>1, <1>3, <1>4, CoveredShrinks

\* A queue is held up no longer once its head is due.
LEMMA CoveredQuiet ==
    ASSUME NEW s, NEW q, Covered(s, {q}, {}),
           Quiet(s, q) \/ \A a, p \in Mutation : Ready(s, a) /\ Stops(s, a, p) => s.items[p].queue # q
    PROVE  Covered(s, {}, {})
BY DEF Covered

\* #armCurrent leaves no timer that would hold back a write of another queue.
LEMMA ArmCovered ==
    ASSUME NEW s, Holds(s), NEW q \in Queue, Covered(s, {q}, {})
    PROVE  Covered(Arm(s, q), {}, {})
<1> DEFINE head == CHOOSE m \in Waiting(s, q) : TRUE
<1>1. CASE Waiting(s, q) = {}
  <2>1. Arm(s, q) = s
      BY <1>1 DEF Arm
  <2>2. Quiet(s, q)
      BY <1>1, QuietWaits
  <2> QED
      BY <2>1, <2>2, CoveredQuiet
<1>2. CASE Waiting(s, q) # {}
  <2>1. head \in Waiting(s, q)
      BY <1>2
  <2>2. Arm(s, q) = IF Due(s, q, head) THEN Wake(s, head) ELSE Scheduled(s, q)
      BY <1>2 DEF Arm
  <2> HIDE DEF head
  <2>3. s.queues[q].items # << >> /\ s.queues[q].items[1] = head
      BY <2>1, WaitingIsHead
  <2>4. MayWake(s, head) /\ s.items[head].queue = q
      BY <2>3, HeadMayWake
  <2>5. CASE Due(s, q, head)
    <3>1. {q} \subseteq {s.items[head].queue} /\ {} \subseteq {head}
        BY <2>4
    <3>2. Covered(Wake(s, head), {}, {})
        BY <2>4, <3>1, WakeCovered
    <3> QED
        BY <2>2, <2>5, <3>2
  <2>6. CASE ~ Due(s, q, head)
    <3>1. ASSUME NEW a \in Mutation, NEW p \in Mutation, Ready(s, a), Stops(s, a, p),
                 s.items[p].queue = q
          PROVE  FALSE
      <4>1. p <= s.queues[q].flushThrough
          BY <3>1 DEF Covered
      <4>2. head \in Mutation /\ head <= p
          BY <2>3, <3>1, StopsInQueue
      <4>3. s.queues[q].flushThrough \in Nat
        <5>1. s.queues[q] \in QueueRecord
            BY StateTypes DEF Holds
        <5> QED
            BY <5>1 DEF QueueRecord
      <4>4. head <= s.queues[q].flushThrough
          BY <4>1, <4>2, <4>3 DEF Mutation
      <4> QED
          BY <2>6, <4>4 DEF Due
    <3>2. Covered(s, {}, {})
        BY <3>1, CoveredQuiet
    <3> DEFINE r == [s.queues[q] EXCEPT !.timer = TRUE, !.status = "scheduled"]
               qs == [s.queues EXCEPT ![q] = r]
               t == [s EXCEPT !.queues = qs]
    <3>3. Scheduled(s, q) = t
        BY DEF Scheduled, Holds, States
    <3>4. s \in States /\ s.queues \in [Queue -> QueueRecord]
        BY StateTypes DEF Holds
    <3>5. r.items = s.queues[q].items /\ r.flushThrough = s.queues[q].flushThrough
        BY <3>4 DEF QueueRecord
    <3> HIDE DEF r
    <3>6. \A p \in Queue : qs[p] = IF p = q THEN r ELSE s.queues[p]
        BY <3>4
    <3> HIDE DEF qs
    <3>7. t.items = s.items /\ t.lanes = s.lanes /\ t.queues = qs
        BY <3>4 DEF States
    <3> HIDE DEF t
    <3>8. Shrinks(s, t)
        BY <3>5, <3>6, <3>7 DEF Shrinks, Stands, Pending
    <3> QED
        BY <2>2, <2>6, <3>2, <3>3, <3>8, CoveredShrinks
  <2> QED
      BY <2>5, <2>6
<1> QED
    BY <1>1, <1>2

-----------------------------------------------------------------------------
(* Mutations end.                                                          *)

SettledItem(item, ok) ==
    [item EXCEPT !.attempt = "settled", !.phase = "none",
                 !.outcome = IF ok THEN "done" ELSE "failed"]

CancelledItem(item) == [item EXCEPT !.attempt = "settled", !.outcome = "cancelled"]

\* Of some entries, no more than there were.
Thins(E, F) == \A k \in 1 .. Len(F) : \E l \in 1 .. Len(E) : F[k] = E[l]

\* Some mutations that run finish, some that wait are cancelled, all of one entity
\* or without one, and its lane keeps the others.
Ends(s, t, i, finished, cancelled, ok) ==
    /\ t \in States /\ t.log = s.log /\ t.queues = s.queues
    /\ \A n \in finished :
          /\ n \notin cancelled /\ s.items[n].attempt = "running" /\ s.items[n].id = i
          /\ s.items[n].queue = NoQueue \/ ~ s.queues[s.items[n].queue].deciding
          /\ t.items[n] = SettledItem(s.items[n], ok)
    /\ \A n \in cancelled :
          /\ s.items[n].attempt = "pending" /\ s.items[n].id = i
          /\ t.items[n] = CancelledItem(s.items[n])
    /\ \A n \in Mutation : n \notin finished /\ n \notin cancelled => t.items[n] = s.items[n]
    /\ \/ i = NoEntity /\ t.lanes = s.lanes
       \/ /\ i \in Id
          /\ LaneHolds(t.lanes[i], t.items, Sent(s), i)
          /\ \A j \in Id : j # i => t.lanes[j] = s.lanes[j]
          /\ \/ ~ s.lanes[i].running
             \/ s.lanes[i].entries[1].mutation \in finished
             \/ t.lanes[i].running /\ t.lanes[i].entries[1] = s.lanes[i].entries[1]

\* Mutations end: the invariant is kept.
LEMMA EndsHold ==
    ASSUME NEW s, Holds(s), NEW t, NEW i, NEW finished, finished \subseteq Mutation,
           NEW cancelled, cancelled \subseteq Mutation, NEW ok \in BOOLEAN,
           Ends(s, t, i, finished, cancelled, ok)
    PROVE  /\ Holds(t) /\ Keeps(s, t, finished)
           /\ \A n \in cancelled : t.items[n].outcome = "cancelled"
<1>0. NoQueue \notin Queue /\ NoEntity \notin Id
    BY MutationQueueAssumption
<1>1. /\ s.items \in [Mutation -> Item] /\ s.queues \in [Queue -> QueueRecord]
      /\ s.lanes \in [Id -> Lanes] /\ Sent(s) \subseteq Mutation
    BY StateTypes DEF Holds
<1>2. t \in States /\ t.log = s.log /\ t.queues = s.queues /\ Sent(t) = Sent(s)
    BY DEF Ends, Sent
<1>3. ASSUME NEW n \in Mutation
      PROVE  LET x == s.items[n]
                 y == t.items[n]
             IN  /\ ItemHolds(x, n, s.lanes, Sent(s)) /\ x \in Item
                 /\ y.queue = x.queue /\ y.id = x.id /\ y.calls = x.calls /\ y.sent = x.sent
                 /\ y.observed = x.observed /\ y.ready = x.ready
                 /\ \/ n \in finished /\ y.attempt = "settled" /\ y.phase = "none"
                       /\ y.outcome \in {"done", "failed"} /\ x.attempt = "running" /\ x.id = i
                    \/ n \in cancelled /\ n \notin finished /\ y.attempt = "settled"
                       /\ y.phase = x.phase /\ y.outcome = "cancelled" /\ x.attempt = "pending"
                       /\ x.id = i
                    \/ n \notin finished /\ n \notin cancelled /\ y = x
  <2>1. s.items[n] \in Item /\ ItemHolds(s.items[n], n, s.lanes, Sent(s))
      BY <1>1 DEF Holds
  <2>2. CASE n \in finished
    <3>1. t.items[n] = SettledItem(s.items[n], ok) /\ s.items[n].attempt = "running"
          /\ s.items[n].id = i
        BY <2>2 DEF Ends
    <3> QED
        BY <2>1, <2>2, <3>1 DEF SettledItem, Item
  <2>3. CASE n \in cancelled /\ n \notin finished
    <3>1. t.items[n] = CancelledItem(s.items[n]) /\ s.items[n].attempt = "pending"
          /\ s.items[n].id = i
        BY <2>3 DEF Ends
    <3> QED
        BY <2>1, <2>3, <3>1 DEF CancelledItem, Item
  <2>4. CASE n \notin finished /\ n \notin cancelled
    <3>1. t.items[n] = s.items[n]
        BY <2>4 DEF Ends
    <3> QED
        BY <2>1, <2>4, <3>1
  <2> QED
      BY <2>2, <2>3, <2>4
<1>4. ASSUME NEW j \in Id PROVE LaneHolds(t.lanes[j], t.items, Sent(t), j)
  <2>1. CASE j = i
      BY <1>0, <1>2, <2>1 DEF Ends
  <2>2. CASE j # i
    <3>1. t.lanes[j] = s.lanes[j] /\ s.lanes[j] \in Lanes /\ LaneHolds(s.lanes[j], s.items, Sent(s), j)
        BY <1>1, <2>2 DEF Ends, Holds
    <3>2. /\ \A n \in Mutation : t.items[n].id = s.items[n].id
          /\ \A n \in Mutation : s.items[n].id = j => t.items[n].attempt = s.items[n].attempt
        BY <1>3, <2>2
    <3> QED
        BY <1>1, <1>2, <3>1, <3>2, LaneIsLeft
  <2> QED
      BY <2>1, <2>2
<1>5. ASSUME NEW q \in Queue PROVE QueueHolds(t.queues[q], t.items, Sent(t), q)
  <2>1. QueueHolds(s.queues[q], s.items, Sent(s), q) /\ s.queues[q] \in QueueRecord
      BY <1>1 DEF Holds
  <2>2. s.queues[q].timer => s.queues[q].items # << >>
      BY <2>1 DEF QueueHolds
  <2>3. s.queues[q].deciding =>
           s.queues[q].items # << >> /\ t.items[s.queues[q].items[1]].phase = "deciding"
    <3> SUFFICES ASSUME s.queues[q].deciding
                 PROVE  s.queues[q].items # << >> /\ t.items[s.queues[q].items[1]].phase = "deciding"
        OBVIOUS
    <3> DEFINE h == s.queues[q].items[1]
    <3>1. s.queues[q].items # << >> /\ s.items[h].phase = "deciding"
        BY <2>1 DEF QueueHolds
    <3>2. s.queues[q].items \in Seq(Mutation)
        BY <2>1 DEF QueueRecord
    <3>3. 1 \in 1 .. Len(s.queues[q].items) /\ h \in Mutation
        BY <3>1, <3>2, EmptySeq, LenProperties, ElementOfSeq
    <3>4. s.items[h].queue = q
        BY <2>1, <3>3 DEF QueueHolds
    <3> HIDE DEF h
    <3>5. h \notin finished
        BY <1>0, <3>4 DEF Ends
    <3>6. t.items[h].phase = s.items[h].phase
        BY <1>3, <3>3, <3>5
    <3> QED
        BY <3>1, <3>6 DEF h
  <2>4. /\ \A n \in Mutation : t.items[n].queue = s.items[n].queue
        /\ \A n \in Mutation : t.items[n].observed <=> s.items[n].observed
        /\ \A n \in Mutation : t.items[n].ready => s.items[n].ready
      BY <1>3
  <2> QED
      BY <1>1, <1>2, <2>1, <2>2, <2>3, <2>4, QueueIsLeft
<1>6. ASSUME NEW n \in Mutation PROVE ItemHolds(t.items[n], n, t.lanes, Sent(t))
  <2>1. ItemHolds(s.items[n], n, s.lanes, Sent(s)) /\ s.items[n] \in Item
      BY <1>3
  <2>2. CASE n \in finished \/ n \in cancelled
      BY <1>2, <1>3, <2>2 DEF ItemHolds
  <2>3. CASE n \notin finished /\ n \notin cancelled
    <3>1. t.items[n] = s.items[n]
        BY <1>3, <2>3
    <3>2. ASSUME s.items[n].attempt = "running", s.items[n].id # NoEntity
          PROVE  /\ t.lanes[s.items[n].id].running <=> s.lanes[s.items[n].id].running
                 /\ t.lanes[s.items[n].id].entries[1] = s.lanes[s.items[n].id].entries[1]
      <4>1. /\ s.items[n].id \in Id /\ s.lanes[s.items[n].id].running
            /\ s.lanes[s.items[n].id].entries[1].mutation = n
          BY <2>1, <3>2 DEF Item, ItemHolds
      <4>2. CASE s.items[n].id = i
          BY <1>0, <2>3, <4>1, <4>2 DEF Ends
      <4>3. CASE s.items[n].id # i
        <5>1. t.lanes[s.items[n].id] = s.lanes[s.items[n].id]
            BY <4>1, <4>3 DEF Ends
        <5> QED
            BY <5>1
      <4> QED
          BY <4>2, <4>3
    <3> QED
        BY <1>2, <2>1, <3>1, <3>2, ItemIsLeft
  <2> QED
      BY <2>2, <2>3
<1>7. InOrder(t.log, t.items)
  <2>1. \A k \in 1 .. Len(s.log) : s.log[k] \in Mutation
      BY <1>1 DEF Sent
  <2>2. \A n \in Mutation : t.items[n].queue = s.items[n].queue /\ t.items[n].id = s.items[n].id
      BY <1>3
  <2>3. InOrder(s.log, s.items) /\ t.log = s.log
      BY <1>2 DEF Holds
  <2>4. ASSUME NEW k \in 1 .. Len(s.log), NEW l \in 1 .. Len(s.log), k < l,
               Related(t.items[s.log[k]], t.items[s.log[l]])
        PROVE  s.log[k] < s.log[l]
    <3>1. Related(s.items[s.log[k]], s.items[s.log[l]])
        BY <2>1, <2>2, <2>4 DEF Related
    <3> QED
        BY <2>3, <2>4, <3>1 DEF InOrder
  <2> QED
      BY <2>3, <2>4 DEF InOrder
<1>8. Holds(t)
    BY <1>2, <1>4, <1>5, <1>6, <1>7 DEF Holds
<1>9. Keeps(s, t, finished)
  <2>1. ASSUME NEW n \in Mutation, n \notin finished PROVE ItemKept(s.items[n], t.items[n])
      BY <1>3, <2>1 DEF ItemKept
  <2>2. \A q \in Queue : QueueKept(s.queues[q], t.queues[q])
      BY <1>2 DEF QueueKept
  <2>3. \A n \in Mutation : s.items[n].attempt = "none" <=> t.items[n].attempt = "none"
      BY <1>3
  <2> QED
      BY <2>1, <2>2, <2>3 DEF Keeps
<1>10. \A n \in cancelled : t.items[n].outcome = "cancelled"
  <2> SUFFICES ASSUME NEW n \in cancelled PROVE t.items[n].outcome = "cancelled"
      OBVIOUS
  <2>1. n \in Mutation /\ n \notin finished
      BY DEF Ends
  <2> QED
      BY <1>3, <2>1
<1> QED
    BY <1>8, <1>9, <1>10

\* Mutations end and their lane keeps no more than it had: nothing begins to wait.
LEMMA EndsShrinks ==
    ASSUME NEW s, Holds(s), NEW t, NEW i, NEW finished, NEW cancelled, NEW ok \in BOOLEAN,
           Ends(s, t, i, finished, cancelled, ok),
           i = NoEntity \/ Thins(s.lanes[i].entries, t.lanes[i].entries)
    PROVE  Shrinks(s, t)
<1>1. ASSUME NEW n \in Mutation
      PROVE  /\ t.items[n].queue = s.items[n].queue /\ t.items[n].id = s.items[n].id
             /\ t.items[n].ready <=> s.items[n].ready
             /\ Pending(t, n) => Pending(s, n)
  <2>1. s.items[n] \in Item
      BY StateTypes DEF Holds
  <2>2. CASE n \in finished
    <3>1. t.items[n] = SettledItem(s.items[n], ok)
        BY <2>2 DEF Ends
    <3> QED
        BY <2>1, <3>1 DEF SettledItem, Item, Pending
  <2>3. CASE n \in cancelled
    <3>1. t.items[n] = CancelledItem(s.items[n])
        BY <2>3 DEF Ends
    <3> QED
        BY <2>1, <3>1 DEF CancelledItem, Item, Pending
  <2>4. CASE n \notin finished /\ n \notin cancelled
    <3>1. t.items[n] = s.items[n]
        BY <2>4 DEF Ends
    <3> QED
        BY <3>1 DEF Pending
  <2> QED
      BY <2>2, <2>3, <2>4
<1>2. ASSUME NEW j \in Id, NEW n \in Mutation, Stands(t, j, n) PROVE Stands(s, j, n)
  <2>1. t.lanes[j] = s.lanes[j] \/ Thins(s.lanes[j].entries, t.lanes[j].entries)
      BY MutationQueueAssumption DEF Ends
  <2> QED
      BY <1>2, <2>1 DEF Stands, Thins
<1>3. t.queues = s.queues
    BY DEF Ends
<1> QED
    BY <1>1, <1>2, <1>3 DEF Shrinks

\* GatedMutationAttempt.cancel touches what waits.
LEMMA CancelAttemptsDoes ==
    ASSUME NEW s, s \in States, NEW doomed
    PROVE  LET t == CancelAttempts(s, doomed)
           IN  /\ t \in States /\ t.lanes = s.lanes /\ t.queues = s.queues /\ t.log = s.log
               /\ \A n \in Mutation :
                     t.items[n] = IF n \in doomed /\ s.items[n].attempt = "pending"
                                  THEN CancelledItem(s.items[n]) ELSE s.items[n]
<1> DEFINE item(n) == IF n \in doomed /\ s.items[n].attempt = "pending"
                      THEN CancelledItem(s.items[n]) ELSE s.items[n]
           its == [n \in DOMAIN s.items |-> item(n)]
           t == [s EXCEPT !.items = its]
<1>1. s.items \in [Mutation -> Item]
    BY StateTypes
<1>2. CancelAttempts(s, doomed) = t
    BY DEF CancelAttempts, Pending, CancelledItem
<1>3. ASSUME NEW n \in Mutation PROVE item(n) \in Item
  <2>1. s.items[n] \in Item
      BY <1>1
  <2>2. CancelledItem(s.items[n]) \in Item
      BY <2>1 DEF Item, CancelledItem
  <2> QED
      BY <2>1, <2>2
<1> HIDE DEF item
<1>4. its \in [Mutation -> Item] /\ \A n \in Mutation : its[n] = item(n)
    BY <1>1, <1>3
<1> HIDE DEF its
<1>5. t \in States /\ t.lanes = s.lanes /\ t.queues = s.queues /\ t.log = s.log /\ t.items = its
    BY <1>4 DEF States
<1> HIDE DEF t
<1>6. \A n \in Mutation : t.items[n] = item(n)
    BY <1>4, <1>5
<1> QED
    BY <1>2, <1>5, <1>6 DEF item

\* What a settlement cancels lies behind the settled entry.
LEMMA DoomedAreBehind ==
    ASSUME NEW E, NEW rest \in Seq(E), NEW entry, NEW ok \in BOOLEAN
    PROVE  /\ Doomed(entry, ok, rest).from \in Nat \ {0} /\ Doomed(entry, ok, rest).to \in Nat
           /\ Doomed(entry, ok, rest).to <= Len(rest)
<1>1. Len(rest) \in Nat /\ FirstCreate(rest) \in 1 .. Len(rest) + 1
    BY LenProperties, FirstCreateIsFirst
<1> QED
    BY <1>1 DEF Doomed

\* The lane of a mutation that runs: the mutation, and what waits behind it.
LEMMA RunningIsHead ==
    ASSUME NEW s, Holds(s), NEW m \in Mutation, s.items[m].attempt = "running",
           s.items[m].id # NoEntity
    PROVE  LET lane == s.lanes[s.items[m].id]
           IN  /\ s.items[m].id \in Id /\ lane \in Lanes /\ lane.open /\ lane.running
               /\ lane.entries \in Seq(EntriesOf(Mutation)) /\ lane.entries # << >>
               /\ lane.entries[1].mutation = m
<1> DEFINE lane == s.lanes[s.items[m].id]
<1>1. s.items[m].id \in Id
    BY StateTypes DEF Holds, Item
<1>2. lane \in Lanes /\ LaneHolds(lane, s.items, Sent(s), s.items[m].id)
    BY <1>1, StateTypes DEF Holds
<1>3. lane.running /\ lane.entries[1].mutation = m
    BY DEF Holds, ItemHolds
<1>4. lane.entries # << >> /\ lane.open
    BY Zenon, <1>2, <1>3 DEF LaneHolds
<1>5. lane.entries \in Seq(EntriesOf(Mutation))
    BY <1>2 DEF Lanes, Lane
<1> QED
    BY <1>1, <1>2, <1>3, <1>4, <1>5

\* The row of an answer is an item.
LEMMA AnsweredIsRow ==
    Answered \in Items({0, 1}, Mutation)
<1>1. << >> \in Seq(Mutation)
    OBVIOUS
<1> QED
    BY <1>1 DEF Answered, Row, Items

\* What a settlement spares and what it cancels are different mutations, all from
\* behind the head.
Parts(E, F, doomed) ==
    /\ \A k \in 1 .. Len(F) : \E l \in 1 .. Len(E) : l # 1 /\ F[k] = E[l]
    /\ Ascending(F)
    /\ \A n \in doomed : \E l \in 1 .. Len(E) : l # 1 /\ n = E[l].mutation
    /\ \A k \in 1 .. Len(F) : F[k].mutation \notin doomed

\* What settle() spares and what it cancels are apart, and both behind the settled
\* entry.
LEMMA SettlementParts ==
    ASSUME NEW E, E \in Seq(EntriesOf(Mutation)), E # << >>, Ascending(E), NEW ok \in BOOLEAN
    PROVE  Parts(E, Spared(Head(E), ok, Tail(E)), Cancelled(Head(E), ok, Tail(E)))
<1> DEFINE rest == Tail(E)
           entry == Head(E)
           F == Spared(entry, ok, rest)
           doomed == Cancelled(entry, ok, rest)
           from == Doomed(entry, ok, rest).from
           to == Doomed(entry, ok, rest).to
           n == Len(E)
<1>1. /\ rest \in Seq(EntriesOf(Mutation)) /\ Len(rest) = n - 1
      /\ \A k \in 1 .. Len(rest) : rest[k] = E[k + 1]
    BY HeadTailProperties
<1>2. n \in Nat \ {0} /\ \A k \in 1 .. n : E[k] \in EntriesOf(Mutation)
    BY LenProperties, ElementOfSeq, EmptySeq
<1>3. \A k \in 1 .. n : E[k].mutation \in Nat
    BY <1>2 DEF EntriesOf, Mutation
<1>4. from \in Nat \ {0} /\ to \in Nat /\ to <= Len(rest)
    BY <1>1, DoomedAreBehind
<1>5. doomed = { rest[k].mutation : k \in from .. to }
    BY DEF Cancelled
<1>6. PICK a \in Nat, b \in Nat :
         /\ Stretch(F, rest, a, b)
         /\ \A k \in 1 .. Len(rest) : (a <= k /\ k <= b) <=> ~ (from <= k /\ k <= to)
    BY <1>1, SparedIsStretch
<1> HIDE DEF from, to, entry, F, doomed, rest, n
<1>7. a \in 1 .. Len(rest) + 1 /\ b \in 0 .. Len(rest) /\ Len(F) = b - a + 1
      /\ \A k \in 1 .. Len(F) : F[k] = rest[a + k - 1]
    BY <1>6 DEF Stretch
<1>8. ASSUME NEW k \in 1 .. Len(F)
      PROVE  /\ a + k \in 1 .. n /\ a + k # 1 /\ F[k] = E[a + k]
             /\ ~ (from <= a + k - 1 /\ a + k - 1 <= to)
  <2> DEFINE p == a + k - 1
  <2>1. p \in 1 .. Len(rest) /\ a <= p /\ p <= b /\ p + 1 = a + k
      BY <1>1, <1>2, <1>7
  <2>2. F[k] = rest[p]
      BY <1>7
  <2> HIDE DEF p
  <2>3. rest[p] = E[p + 1] /\ ~ (from <= p /\ p <= to)
      BY <1>1, <1>6, <2>1
  <2>4. p + 1 \in 1 .. n /\ p + 1 # 1 /\ p = a + k - 1
      BY <1>1, <1>2, <2>1 DEF p
  <2> QED
      BY <2>1, <2>2, <2>3, <2>4
<1>9. ASSUME NEW m \in doomed
      PROVE  \E l \in 1 .. n : l # 1 /\ m = E[l].mutation /\ from <= l - 1 /\ l - 1 <= to
  <2>1. PICK p \in from .. to : m = rest[p].mutation
      BY <1>5
  <2>2. p \in 1 .. Len(rest)
      BY <1>1, <1>2, <1>4, <2>1
  <2>3. rest[p] = E[p + 1]
      BY <1>1, <2>2
  <2>4. p + 1 \in 1 .. n /\ p + 1 # 1 /\ (p + 1) - 1 = p /\ from <= p /\ p <= to
      BY <1>1, <1>2, <1>4, <2>1, <2>2
  <2> QED
      BY <2>1, <2>3, <2>4
<1>10. ASSUME NEW k \in 1 .. n, NEW l \in 1 .. n, E[k].mutation = E[l].mutation
       PROVE  k = l
  <2>1. k < l => E[k].mutation < E[l].mutation
      BY DEF Ascending, n
  <2>2. l < k => E[l].mutation < E[k].mutation
      BY DEF Ascending, n
  <2>3. E[k].mutation \in Nat /\ E[l].mutation \in Nat
      BY <1>3
  <2> QED
      BY <1>10, <2>1, <2>2, <2>3
<1>11. ASSUME NEW k \in 1 .. Len(F), F[k].mutation \in doomed PROVE FALSE
  <2>1. a + k \in 1 .. n /\ F[k] = E[a + k] /\ ~ (from <= a + k - 1 /\ a + k - 1 <= to)
      BY <1>8
  <2>2. PICK l \in 1 .. n : /\ F[k].mutation = E[l].mutation
                            /\ from <= l - 1 /\ l - 1 <= to
      BY <1>9, <1>11
  <2>3. l = a + k
      BY <1>10, <2>1, <2>2
  <2> QED
      BY <2>1, <2>2, <2>3
<1>12. Ascending(F)
  <2> SUFFICES ASSUME NEW k \in 1 .. Len(F), NEW l \in 1 .. Len(F), k < l
               PROVE  F[k].mutation < F[l].mutation
      BY DEF Ascending
  <2>1. a + k \in 1 .. n /\ F[k] = E[a + k] /\ a + l \in 1 .. n /\ F[l] = E[a + l]
      BY <1>8
  <2>2. a + k < a + l
      OBVIOUS
  <2> QED
      BY <2>1, <2>2 DEF Ascending, n
<1>13. Parts(E, F, doomed)
    BY <1>8, <1>9, <1>11, <1>12 DEF Parts, n
<1> QED
    BY <1>13 DEF F, doomed, rest, entry

\* The lane once its running mutation m has settled.
Resettled(L, doomed, its, sent, i, m) ==
    /\ L \in Lanes /\ L.open /\ ~ L.running
    /\ L.entries \in Seq(EntriesOf(Mutation)) /\ Ascending(L.entries)
    /\ \A k \in 1 .. Len(L.entries) :
          /\ L.entries[k].mutation \in Mutation /\ L.entries[k].mutation # m
          /\ L.entries[k].mutation \notin doomed
          /\ its[L.entries[k].mutation].id = i
          /\ its[L.entries[k].mutation].attempt = "pending"
    /\ \A n \in sent, k \in 1 .. Len(L.entries) : its[n].id = i => n <= L.entries[k].mutation
    /\ \A n \in doomed : n \in Mutation /\ n # m /\ its[n].id = i /\ its[n].attempt = "pending"

\* A lane after settle().
LEMMA LaneResettles ==
    ASSUME NEW lane, lane \in Lanes, lane.running, NEW its, NEW sent, NEW i,
           LaneHolds(lane, its, sent, i), NEW ok \in BOOLEAN
    PROVE  Resettled(Settle(lane, ok, Answered),
                     Cancelled(Head(lane.entries), ok, Tail(lane.entries)),
                     its, sent, i, lane.entries[1].mutation)
<1> DEFINE E == lane.entries
           L == Settle(lane, ok, Answered)
           F == L.entries
           doomed == Cancelled(Head(E), ok, Tail(E))
<1>1. E # << >> /\ lane.open /\ Ascending(E)
    BY DEF LaneHolds, Ascending
<1>2. E \in Seq(EntriesOf(Mutation))
    BY DEF Lanes, Lane
<1>3. L \in Lanes /\ L.open /\ ~ L.running /\ F = Spared(Head(E), ok, Tail(E))
  <2>1. Answered \in Items({0, 1}, Mutation) /\ 0 \in {0, 1}
      BY AnsweredIsRow
  <2>2. lane \in Lane({0, 1}, Mutation) /\ lane.entries # << >>
      BY <1>1 DEF Lanes
  <2>3. /\ Settle(lane, ok, Answered) \in Lane({0, 1}, Mutation)
        /\ Settle(lane, ok, Answered).open = lane.open /\ ~ Settle(lane, ok, Answered).running
        /\ Settle(lane, ok, Answered).entries = Spared(Head(lane.entries), ok, Tail(lane.entries))
      BY <2>1, <2>2, SettleDoes
  <2> QED
      BY <1>1, <2>3 DEF Lanes
<1>4. Parts(E, F, doomed)
    BY <1>1, <1>2, <1>3, SettlementParts
<1> HIDE DEF L, doomed
<1>5. F \in Seq(EntriesOf(Mutation))
    BY <1>3 DEF Lanes, Lane
<1> HIDE DEF E, F
<1>6. Len(E) \in Nat \ {0} /\ \A k \in 1 .. Len(E) : E[k] \in EntriesOf(Mutation)
    BY <1>1, <1>2, LenProperties, ElementOfSeq, EmptySeq
<1>7. \A k \in 1 .. Len(E) : E[k].mutation \in Mutation
    BY <1>6 DEF EntriesOf
<1>8. ASSUME NEW k \in 1 .. Len(E), k # 1
      PROVE  /\ E[k].mutation # E[1].mutation
             /\ its[E[k].mutation].id = i /\ its[E[k].mutation].attempt = "pending"
  <2>1. 1 \in 1 .. Len(E) /\ 1 < k
      BY <1>6, <1>8
  <2>2. E[1].mutation < E[k].mutation
      BY <1>1, <2>1 DEF Ascending
  <2>3. E[1].mutation \in Nat /\ E[k].mutation \in Nat
      BY <1>7, <2>1 DEF Mutation
  <2>4. its[E[k].mutation].id = i /\ its[E[k].mutation].attempt = "pending"
      BY <1>8 DEF LaneHolds, E
  <2> QED
      BY <2>2, <2>3, <2>4
<1>9. ASSUME NEW k \in 1 .. Len(F)
      PROVE  /\ F[k].mutation \in Mutation /\ F[k].mutation # E[1].mutation
             /\ F[k].mutation \notin doomed
             /\ its[F[k].mutation].id = i /\ its[F[k].mutation].attempt = "pending"
             /\ \A n \in sent : its[n].id = i => n <= F[k].mutation
  <2>1. PICK l \in 1 .. Len(E) : l # 1 /\ F[k] = E[l]
      BY <1>4 DEF Parts
  <2>2. F[k].mutation \notin doomed
      BY <1>4 DEF Parts
  <2>3. \A n \in sent : its[n].id = i => n <= E[l].mutation
      BY DEF LaneHolds, E
  <2> QED
      BY <1>7, <1>8, <2>1, <2>2, <2>3
<1>10. ASSUME NEW n \in doomed
       PROVE  n \in Mutation /\ n # E[1].mutation /\ its[n].id = i /\ its[n].attempt = "pending"
  <2>1. PICK l \in 1 .. Len(E) : l # 1 /\ n = E[l].mutation
      BY <1>4 DEF Parts
  <2> QED
      BY <1>7, <1>8, <2>1
<1>11. Ascending(F)
    BY <1>4 DEF Parts
<1>12. Resettled(L, doomed, its, sent, i, E[1].mutation)
    BY <1>3, <1>5, <1>9, <1>10, <1>11 DEF Resettled, F
<1> QED
    BY <1>12 DEF L, doomed, E

\* What settle() leaves of a lane was there.
LEMMA SettleThins ==
    ASSUME NEW s, Holds(s), NEW i \in Id, s.lanes[i].entries # << >>, NEW ok \in BOOLEAN
    PROVE  Thins(s.lanes[i].entries, Settle(s.lanes[i], ok, Answered).entries)
<1> DEFINE lane == s.lanes[i]
           E == lane.entries
<1>1. E \in Seq(EntriesOf(Mutation)) /\ Ascending(E) /\ E # << >> /\ lane \in Lanes
    BY LaneEntries, StateTypes DEF Holds
<1> HIDE DEF lane
<1>2. Settle(lane, ok, Answered).entries = Spared(Head(E), ok, Tail(E))
  <2>1. Answered \in Items({0, 1}, Mutation) /\ 0 \in {0, 1}
      BY AnsweredIsRow
  <2>2. lane \in Lane({0, 1}, Mutation) /\ lane.entries # << >>
      BY <1>1 DEF Lanes
  <2>3. /\ Settle(lane, ok, Answered) \in Lane({0, 1}, Mutation)
        /\ Settle(lane, ok, Answered).entries = Spared(Head(lane.entries), ok, Tail(lane.entries))
      BY <2>1, <2>2, SettleDoes
  <2> QED
      BY <2>3
<1> HIDE DEF E
<1>3. Parts(E, Spared(Head(E), ok, Tail(E)), Cancelled(Head(E), ok, Tail(E)))
    BY <1>1, SettlementParts DEF E
<1> QED
    BY <1>2, <1>3 DEF Parts, Thins, E, lane

\* The end of a mutation with a lane, before the lane is drained.
Settles(s, t, m, i, doomed, ok) ==
    /\ t \in States /\ t.log = s.log /\ t.queues = s.queues
    /\ t.lanes = [s.lanes EXCEPT ![i] = Settle(s.lanes[i], ok, Answered)]
    /\ t.items[m] = SettledItem(s.items[m], ok)
    /\ \A n \in Mutation : n # m =>
          t.items[n] = IF n \in doomed /\ s.items[n].attempt = "pending"
                       THEN CancelledItem(s.items[n]) ELSE s.items[n]

\* The settlement of a mutation that runs ends it, and what it dooms.
LEMMA LaneSettles ==
    ASSUME NEW s, Holds(s), NEW m \in Mutation, s.items[m].attempt = "running",
           s.items[m].id # NoEntity, NEW ok \in BOOLEAN, NEW t, NEW doomed,
           s.items[m].queue = NoQueue \/ ~ s.queues[s.items[m].queue].deciding,
           doomed = Cancelled(Head(s.lanes[s.items[m].id].entries), ok,
                              Tail(s.lanes[s.items[m].id].entries)),
           Settles(s, t, m, s.items[m].id, doomed, ok)
    PROVE  Ends(s, t, s.items[m].id, {m}, doomed, ok) /\ doomed \subseteq Mutation
<1> DEFINE i == s.items[m].id
           lane == s.lanes[i]
           L == Settle(lane, ok, Answered)
           F == L.entries
<1>1. /\ i \in Id /\ lane \in Lanes /\ lane.running /\ lane.entries[1].mutation = m
    BY Zenon, RunningIsHead
<1>2. LaneHolds(lane, s.items, Sent(s), i)
    BY Zenon, <1>1 DEF Holds
<1>3. Resettled(L, doomed, s.items, Sent(s), i, m)
  <2> HIDE DEF i, lane
  <2>1. Resettled(L, Cancelled(Head(lane.entries), ok, Tail(lane.entries)),
                  s.items, Sent(s), i, lane.entries[1].mutation)
      BY Zenon, <1>1, <1>2, LaneResettles
  <2> QED
      BY Zenon, <1>1, <2>1 DEF i, lane
<1>4. s.lanes \in [Id -> Lanes] /\ Sent(s) \subseteq Mutation
    BY Zenon, StateTypes DEF Holds
<1>5. /\ t \in States /\ t.log = s.log /\ t.queues = s.queues
      /\ t.lanes = [s.lanes EXCEPT ![i] = L]
      /\ t.items[m] = SettledItem(s.items[m], ok)
      /\ \A n \in Mutation : n # m =>
            t.items[n] = IF n \in doomed /\ s.items[n].attempt = "pending"
                         THEN CancelledItem(s.items[n]) ELSE s.items[n]
    BY Zenon DEF Settles
<1>6. s.items[m].id = i /\ t.items[m].id = i
  <2>1. s.items[m] \in Item
      BY Zenon, StateTypes DEF Holds
  <2> QED
      BY Zenon, <1>5, <2>1 DEF SettledItem, Item
<1> HIDE DEF L, i, lane
<1>7. t.lanes[i] = L /\ \A j \in Id : j # i => t.lanes[j] = s.lanes[j]
    BY Zenon, <1>1, <1>4, <1>5
<1>8. \A n \in doomed : n \in Mutation /\ n # m /\ s.items[n].id = i /\ s.items[n].attempt = "pending"
    BY Zenon, <1>3 DEF Resettled
<1>9. /\ \A n \in doomed : t.items[n] = CancelledItem(s.items[n])
      /\ \A n \in Mutation : n # m /\ n \notin doomed => t.items[n] = s.items[n]
    BY Zenon, <1>5, <1>8
<1>10. \A k \in 1 .. Len(F) : /\ t.items[F[k].mutation].id = i
                              /\ t.items[F[k].mutation].attempt = "pending"
    BY Zenon, <1>3, <1>9 DEF Resettled
<1>11. \A n \in Sent(s), k \in 1 .. Len(F) : t.items[n].id = i => n <= F[k].mutation
  <2> SUFFICES ASSUME NEW n \in Sent(s), NEW k \in 1 .. Len(F), t.items[n].id = i
               PROVE  n <= F[k].mutation
      BY Zenon
  <2>1. s.items[n].id = i
      BY <1>4, <1>6, <1>8, <1>9
  <2> QED
      BY Zenon, <1>3, <2>1 DEF Resettled
<1>12. LaneHolds(L, t.items, Sent(s), i)
  <2>1. L.open /\ ~ L.running /\ Ascending(F)
      BY Zenon, <1>3 DEF Resettled
  <2> QED
      BY Zenon, <1>10, <1>11, <2>1 DEF LaneHolds, Ascending
<1>13. Ends(s, t, i, {m}, doomed, ok)
    BY <1>1, <1>5, <1>6, <1>7, <1>8, <1>9, <1>12 DEF Ends, lane
<1> QED
    BY Zenon, <1>8, <1>13 DEF i

\* A mutation that is settled, and nothing else.
LEMMA SettledDoes ==
    ASSUME NEW s, s \in States, NEW m \in Mutation, NEW ok \in BOOLEAN
    PROVE  LET t == [s EXCEPT !.items[m] = SettledItem(s.items[m], ok)]
           IN  /\ t \in States /\ t.lanes = s.lanes /\ t.queues = s.queues /\ t.log = s.log
               /\ t.items[m] = SettledItem(s.items[m], ok)
               /\ \A n \in Mutation : n # m => t.items[n] = s.items[n]
<1> DEFINE x == SettledItem(s.items[m], ok)
           its == [s.items EXCEPT ![m] = x]
           t == [s EXCEPT !.items[m] = x]
<1>1. s.items \in [Mutation -> Item] /\ s.items[m] \in Item
    BY StateTypes
<1>2. x \in Item
  <2> DEFINE outcome == IF ok THEN "done" ELSE "failed"
  <2>1. outcome \in {"none", "done", "failed", "cancelled"}
      OBVIOUS
  <2>2. x = [s.items[m] EXCEPT !.attempt = "settled", !.phase = "none", !.outcome = outcome]
      BY DEF SettledItem
  <2> HIDE DEF x, outcome
  <2> QED
      BY <1>1, <2>1, <2>2 DEF Item
<1> HIDE DEF x
<1>3. its \in [Mutation -> Item] /\ its[m] = x /\ \A n \in Mutation : n # m => its[n] = s.items[n]
    BY <1>1, <1>2
<1>4. /\ t \in States /\ t.lanes = s.lanes /\ t.queues = s.queues /\ t.log = s.log
      /\ t.items = its
    BY <1>3 DEF States
<1> HIDE DEF t, its
<1> QED
    BY <1>3, <1>4 DEF t, x

\* settleQueuedMutation keeps the invariant, whatever it cancels; nothing begins to wait.
LEMMA SettlementHolds ==
    ASSUME NEW s, Holds(s), NEW m \in Mutation, s.items[m].attempt = "running",
           s.items[m].queue = NoQueue \/ ~ s.queues[s.items[m].queue].deciding,
           NEW ok \in BOOLEAN
    PROVE  /\ Holds(Settlement(s, m, ok)) /\ Keeps(s, Settlement(s, m, ok), {m})
           /\ Shrinks(s, Settlement(s, m, ok))
<1> DEFINE i == s.items[m].id
           lane == s.lanes[i]
           doomed == Cancelled(Head(lane.entries), ok, Tail(lane.entries))
           u == [s EXCEPT !.items[m] = SettledItem(s.items[m], ok)]
           v == [u EXCEPT !.lanes[i] = Settle(lane, ok, Answered)]
           t == CancelAttempts(v, doomed)
<1>1. s \in States /\ s.lanes \in [Id -> Lanes] /\ s.items[m] \in Item
    BY StateTypes DEF Holds
<1>2. Settlement(s, m, ok) = IF i = NoEntity THEN u ELSE DrainLane(t, i)
    BY DEF Settlement, SettledItem
<1>3. /\ u \in States /\ u.lanes = s.lanes /\ u.queues = s.queues /\ u.log = s.log
      /\ u.items[m] = SettledItem(s.items[m], ok)
      /\ \A n \in Mutation : n # m => u.items[n] = s.items[n]
    BY <1>1, SettledDoes
<1> HIDE DEF u
<1>4. CASE i = NoEntity
  <2>1. Ends(s, u, NoEntity, {m}, {}, ok)
      BY <1>3, <1>4 DEF Ends
  <2>2. Holds(u) /\ Keeps(s, u, {m}) /\ Shrinks(s, u)
      BY <2>1, EndsHold, EndsShrinks
  <2> QED
      BY <1>2, <1>4, <2>2
<1>5. CASE i # NoEntity
  <2>1. i \in Id /\ lane \in Lanes /\ lane.entries # << >>
      BY Zenon, <1>5, RunningIsHead
  <2>2. Settle(lane, ok, Answered) \in Lanes
    <3>1. Answered \in Items({0, 1}, Mutation) /\ 0 \in {0, 1}
        BY AnsweredIsRow
    <3> HIDE DEF lane
    <3> QED
        BY <2>1, <3>1, SettleDoes DEF Lanes
  <2> DEFINE L == Settle(lane, ok, Answered)
             ls == [s.lanes EXCEPT ![i] = L]
  <2> HIDE DEF L
  <2>3. ls \in [Id -> Lanes]
      BY <1>1, <2>1, <2>2 DEF L
  <2>4. v \in States /\ v.lanes = ls /\ v.items = u.items /\ v.queues = s.queues /\ v.log = s.log
    <3>1. v = [u EXCEPT !.lanes = ls]
        BY <1>3 DEF States, L
    <3> HIDE DEF v, ls
    <3> QED
        BY <1>3, <2>3, <3>1 DEF States
  <2> HIDE DEF v, ls
  <2>5. /\ t \in States /\ t.lanes = v.lanes /\ t.queues = v.queues /\ t.log = v.log
        /\ \A n \in Mutation :
              t.items[n] = IF n \in doomed /\ v.items[n].attempt = "pending"
                           THEN CancelledItem(v.items[n]) ELSE v.items[n]
      BY Zenon, <2>4, CancelAttemptsDoes
  <2> HIDE DEF t, doomed
  <2>6. u.items[m].attempt = "settled"
      BY <1>1, <1>3 DEF SettledItem, Item
  <2>7. t.items[m] = SettledItem(s.items[m], ok)
      BY <1>3, <2>4, <2>5, <2>6
  <2>8. \A n \in Mutation : n # m =>
           t.items[n] = IF n \in doomed /\ s.items[n].attempt = "pending"
                        THEN CancelledItem(s.items[n]) ELSE s.items[n]
      BY <1>3, <2>4, <2>5
  <2>9. Settles(s, t, m, i, doomed, ok)
      BY <2>4, <2>5, <2>7, <2>8 DEF Settles, ls, L
  <2>10. Ends(s, t, i, {m}, doomed, ok) /\ doomed \subseteq Mutation
      BY Zenon, <1>5, <2>9, LaneSettles DEF doomed
  <2>16. Thins(lane.entries, t.lanes[i].entries)
    <3>1. t.lanes[i] = L
        BY <1>1, <2>1, <2>4, <2>5 DEF ls
    <3>2. Thins(lane.entries, Settle(lane, ok, Answered).entries)
        BY <2>1, SettleThins
    <3> QED
        BY <3>1, <3>2 DEF L
  <2>11. Holds(t) /\ Keeps(s, t, {m}) /\ Shrinks(s, t)
      BY <2>10, <2>16, EndsHold, EndsShrinks
  <2>12. /\ Holds(DrainLane(t, i)) /\ Keeps(t, DrainLane(t, i), {})
         /\ Shrinks(t, DrainLane(t, i))
      BY <2>1, <2>11, DrainHolds, DrainShrinks
  <2>13. Keeps(s, DrainLane(t, i), {m} \union {})
      BY <2>11, <2>12, KeepsOn
  <2>14. {m} \union {} = {m}
      OBVIOUS
  <2>15. Shrinks(s, DrainLane(t, i))
      BY <2>11, <2>12, ShrinksOn
  <2> QED
      BY <1>2, <1>5, <2>12, <2>13, <2>14, <2>15
<1> QED
    BY <1>4, <1>5

\* A lane that loses an entry that waits keeps the others.
LEMMA LaneCancels ==
    ASSUME NEW lane, lane \in Lanes, NEW its, NEW its2, NEW sent, sent \subseteq Mutation, NEW i,
           LaneHolds(lane, its, sent, i), NEW m, its[m].attempt = "pending",
           \A n \in Mutation : n # m => its2[n] = its[n], its2[m].id = its[m].id
    PROVE  /\ Cancel(lane, m) \in Lanes /\ LaneHolds(Cancel(lane, m), its2, sent, i)
           /\ lane.running => /\ Cancel(lane, m).running
                              /\ Cancel(lane, m).entries[1] = lane.entries[1]
<1> DEFINE E == lane.entries
           L == Cancel(lane, m)
           F == L.entries
           n == Len(E)
           Gone(k) == /\ E[k].mutation = m /\ Len(F) = n - 1
                      /\ \A j \in 1 .. n - 1 : F[j] = E[IF j < k THEN j ELSE j + 1]
           Kept == F = E /\ \A j \in 1 .. n : E[j].mutation # m
<1>1. /\ L \in Lanes /\ L.open = lane.open /\ L.running = lane.running
      /\ Kept \/ \E k \in 1 .. n : Gone(k)
  <2>1. lane \in Lane({0, 1}, Mutation) /\ 0 \in {0, 1}
      BY DEF Lanes
  <2>2. /\ Cancel(lane, m) \in Lane({0, 1}, Mutation)
        /\ Cancel(lane, m).open = lane.open /\ Cancel(lane, m).running = lane.running
        /\ Loses(lane.entries, Cancel(lane, m).entries, m)
      BY <2>1, CancelDoes
  <2> QED
      BY <2>2 DEF Lanes, Loses
<1> HIDE DEF L
<1>2. E \in Seq(EntriesOf(Mutation)) /\ F \in Seq(EntriesOf(Mutation))
    BY <1>1 DEF Lanes, Lane
<1>3. n \in Nat /\ \A k \in 1 .. n : E[k] \in EntriesOf(Mutation)
    BY <1>2, LenProperties, ElementOfSeq
<1>4. \A k \in 1 .. n : E[k].mutation \in Mutation
    BY <1>3 DEF EntriesOf
<1>5. Ascending(E)
    BY DEF LaneHolds, Ascending
<1>6. /\ \A k \in 1 .. n : its[E[k].mutation].id = i
      /\ \A k \in 1 .. n : its[E[k].mutation].attempt =
                              IF k = 1 /\ lane.running THEN "running" ELSE "pending"
      /\ \A x \in sent, k \in 1 .. n : its[x].id = i => x <= E[k].mutation
      /\ lane.running => n # 0
      /\ ~ lane.open => E = << >>
    BY <1>2, <1>3, EmptySeq DEF LaneHolds
<1>7. CASE Kept
  <2>1. \A k \in 1 .. n : its2[E[k].mutation] = its[E[k].mutation]
      BY <1>4, <1>7
  <2>2. \A x \in sent : its2[x].id = its[x].id
      OBVIOUS
  <2>3. LaneHolds(L, its2, sent, i)
      BY <1>1, <1>7, <2>1, <2>2 DEF LaneHolds
  <2> QED
      BY <1>1, <1>7, <2>3 DEF L
<1>8. ASSUME NEW k \in 1 .. n, Gone(k)
      PROVE  LaneHolds(L, its2, sent, i) /\ (lane.running => L.running /\ F[1] = E[1])
  <2> HIDE DEF E, F, n
  <2>1. /\ E[k].mutation = m /\ Len(F) = n - 1
        /\ \A j \in 1 .. n - 1 : F[j] = E[IF j < k THEN j ELSE j + 1]
      BY <1>8
  <2> DEFINE at(j) == IF j < k THEN j ELSE j + 1
  <2>2. \A j \in 1 .. n - 1 : at(j) \in 1 .. n /\ at(j) # k /\ F[j] = E[at(j)]
      BY <1>3, <2>1
  <2>3. \A j, l \in 1 .. n - 1 : j < l => at(j) < at(l)
      BY <1>3
  <2>4. ASSUME NEW j \in 1 .. n, j # k PROVE E[j].mutation # m
    <3>1. j < k \/ k < j
        BY <1>3, <2>4
    <3>2. E[j].mutation < E[k].mutation \/ E[k].mutation < E[j].mutation
        BY <1>5, <3>1 DEF Ascending, n
    <3>3. E[j].mutation \in Nat /\ E[k].mutation \in Nat
        BY <1>4 DEF Mutation
    <3> QED
        BY <2>1, <3>2, <3>3
  <2>5. lane.running => k # 1
      BY <1>6, <2>1
  <2>6. lane.running => \A j \in 1 .. n - 1 : at(j) = 1 <=> j = 1
      BY <1>3, <2>5
  <2>7. ASSUME NEW j \in 1 .. n - 1
        PROVE  /\ its2[F[j].mutation].id = i
               /\ its2[F[j].mutation].attempt = IF j = 1 /\ lane.running THEN "running" ELSE "pending"
    <3>1. at(j) \in 1 .. n /\ at(j) # k /\ F[j] = E[at(j)]
        BY <2>2
    <3> HIDE DEF at
    <3>2. its2[E[at(j)].mutation] = its[E[at(j)].mutation]
        BY <1>4, <2>4, <3>1
    <3>3. at(j) = 1 /\ lane.running <=> j = 1 /\ lane.running
        BY <2>6
    <3> QED
        BY <1>6, <3>1, <3>2, <3>3
  <2>8. Ascending(F)
    <3> SUFFICES ASSUME NEW j \in 1 .. n - 1, NEW l \in 1 .. n - 1, j < l
                 PROVE  F[j].mutation < F[l].mutation
        BY <2>1 DEF Ascending
    <3>1. at(j) \in 1 .. n /\ at(l) \in 1 .. n /\ at(j) < at(l)
        BY <2>2, <2>3
    <3>2. F[j] = E[at(j)] /\ F[l] = E[at(l)]
        BY <2>2
    <3> HIDE DEF at
    <3> QED
        BY <1>5, <3>1, <3>2 DEF Ascending, n
  <2>9. \A x \in sent, j \in 1 .. n - 1 : its2[x].id = i => x <= F[j].mutation
    <3> SUFFICES ASSUME NEW x \in sent, NEW j \in 1 .. n - 1, its2[x].id = i
                 PROVE  x <= F[j].mutation
        OBVIOUS
    <3>1. its[x].id = i
        OBVIOUS
    <3>2. at(j) \in 1 .. n /\ F[j] = E[at(j)]
        BY <2>2
    <3> HIDE DEF at
    <3> QED
        BY <1>6, <3>1, <3>2
  <2>10. lane.running => F # << >> /\ F[1] = E[1]
    <3> SUFFICES ASSUME lane.running PROVE F # << >> /\ F[1] = E[1]
        OBVIOUS
    <3>1. k # 1 /\ n - 1 >= 1 /\ n \in Nat
        BY <1>3, <2>5
    <3>2. 1 \in 1 .. n - 1 /\ at(1) = 1
        BY <3>1
    <3>3. F[1] = E[1] /\ Len(F) # 0
        BY <2>1, <2>2, <3>1, <3>2
    <3>4. F # << >>
        BY <3>3
    <3> QED
        BY <3>3, <3>4
  <2>11. ~ L.open => F = << >>
    <3>1. L.open
        BY <1>1, <1>6, <1>3 DEF E, n
    <3> QED
        BY <3>1
  <2>12. L.running = lane.running
      BY <1>1
  <2> QED
      BY <2>1, <2>7, <2>8, <2>9, <2>10, <2>11, <2>12 DEF LaneHolds, Ascending, F
<1> QED
    BY <1>1, <1>7, <1>8 DEF L

\* What cancel() leaves of a lane was there.
LEMMA CancelThins ==
    ASSUME NEW lane, lane \in Lanes, NEW m
    PROVE  Thins(lane.entries, Cancel(lane, m).entries)
<1> DEFINE E == lane.entries
           F == Cancel(lane, m).entries
<1>1. Loses(E, F, m)
  <2>1. lane \in Lane({0, 1}, Mutation) /\ 0 \in {0, 1}
      BY DEF Lanes
  <2> QED
      BY <2>1, CancelDoes
<1>2. E \in Seq(EntriesOf(Mutation))
    BY DEF Lanes, Lane
<1>3. Len(E) \in Nat
    BY <1>2, LenProperties
<1> HIDE DEF E, F
<1>4. F = E => Thins(E, F)
    BY DEF Thins
<1>5. ASSUME NEW k \in 1 .. Len(E), Len(F) = Len(E) - 1,
             \A j \in 1 .. Len(E) - 1 : F[j] = E[IF j < k THEN j ELSE j + 1]
      PROVE  Thins(E, F)
  <2>1. \A j \in 1 .. Len(F) : (IF j < k THEN j ELSE j + 1) \in 1 .. Len(E)
      BY <1>3, <1>5
  <2> QED
      BY <1>5, <2>1 DEF Thins
<1>6. Thins(E, F)
    BY <1>1, <1>4, <1>5 DEF Loses
<1> QED
    BY <1>6 DEF E, F

\* #cancelQueuedMutation: what waits is cancelled.
LEMMA CancelQueuedHolds ==
    ASSUME NEW s, Holds(s), NEW m \in Mutation
    PROVE  /\ Holds(CancelQueued(s, m)) /\ Keeps(s, CancelQueued(s, m), {})
           /\ Shrinks(s, CancelQueued(s, m))
           /\ Pending(s, m) => CancelQueued(s, m).items[m].outcome = "cancelled"
<1> DEFINE id == s.items[m].id
           c == CancelAttempts(s, {m})
           t == [c EXCEPT !.lanes[id] = Cancel(@, m)]
<1>1. CASE ~ Pending(s, m)
  <2>1. CancelQueued(s, m) = s
      BY <1>1 DEF CancelQueued
  <2> QED
      BY <1>1, <2>1, KeepsItself, ShrinksItself
<1>2. CASE Pending(s, m)
  <2>1. /\ s \in States /\ s.items[m].attempt = "pending" /\ s.lanes \in [Id -> Lanes]
        /\ Sent(s) \subseteq Mutation /\ id \in Id \union {NoEntity}
        /\ s.items \in [Mutation -> Item]
    <3>1. s \in States
        BY DEF Holds
    <3> QED
        BY <1>2, <3>1, StateTypes DEF Item, Pending
  <2>2. /\ c \in States /\ c.lanes = s.lanes /\ c.queues = s.queues /\ c.log = s.log
        /\ c.items[m] = CancelledItem(s.items[m])
        /\ \A n \in Mutation : n # m => c.items[n] = s.items[n]
      BY <2>1, CancelAttemptsDoes
  <2> HIDE DEF c
  <2>3. c.items[m].id = s.items[m].id
      BY <2>1, <2>2 DEF CancelledItem, Item
  <2>4. ASSUME NEW u, NEW i, Ends(s, u, i, {}, {m}, TRUE)
        PROVE  Holds(u) /\ Keeps(s, u, {}) /\ u.items[m].outcome = "cancelled"
      BY <2>4, EndsHold, {} \subseteq Mutation, {m} \subseteq Mutation
  <2>5. CASE id = NoEntity
    <3>1. CancelQueued(s, m) = c
        BY <1>2, <2>5 DEF CancelQueued, c
    <3>2. Ends(s, c, NoEntity, {}, {m}, TRUE)
        BY <2>1, <2>2, <2>5 DEF Ends
    <3>3. Shrinks(s, c)
        BY <3>2, EndsShrinks
    <3> QED
        BY <2>4, <3>1, <3>2, <3>3
  <2>6. CASE id # NoEntity
    <3>1. id \in Id
        BY <2>1, <2>6
    <3>2. CancelQueued(s, m) = DrainLane(t, id)
        BY <1>2, <2>6 DEF CancelQueued, c
    <3> DEFINE L == Cancel(s.lanes[id], m)
    <3>3. LaneHolds(s.lanes[id], s.items, Sent(s), id) /\ s.lanes[id] \in Lanes
        BY <2>1, <3>1 DEF Holds
    <3>4. \A n \in Mutation : n # m => c.items[n] = s.items[n]
        BY <2>2
    <3>5. /\ L \in Lanes /\ LaneHolds(L, c.items, Sent(s), id)
          /\ s.lanes[id].running => L.running /\ L.entries[1] = s.lanes[id].entries[1]
      <4> DEFINE lane == s.lanes[id]
                 sent == Sent(s)
                 its == s.items
                 its2 == c.items
      <4>1. /\ its[m].attempt = "pending" /\ its2[m].id = its[m].id /\ sent \subseteq Mutation
            /\ \A n \in Mutation : n # m => its2[n] = its[n]
            /\ lane \in Lanes /\ LaneHolds(lane, its, sent, id)
          BY <2>1, <2>3, <3>3, <3>4
      <4> HIDE DEF lane, sent, its, its2, id
      <4>2. /\ Cancel(lane, m) \in Lanes /\ LaneHolds(Cancel(lane, m), its2, sent, id)
            /\ lane.running => /\ Cancel(lane, m).running
                               /\ Cancel(lane, m).entries[1] = lane.entries[1]
          BY ONLY <4>1, LaneCancels
      <4> QED
          BY <4>2 DEF lane, sent, its2
    <3>14. Thins(s.lanes[id].entries, L.entries)
        BY <3>3, CancelThins
    <3> HIDE DEF L
    <3> DEFINE ls == [s.lanes EXCEPT ![id] = L]
    <3>6. t = [c EXCEPT !.lanes = ls]
        BY <2>2 DEF States, L
    <3> HIDE DEF t
    <3>7. ls \in [Id -> Lanes] /\ ls[id] = L /\ \A j \in Id : j # id => ls[j] = s.lanes[j]
        BY <2>1, <3>1, <3>5
    <3> HIDE DEF ls
    <3>8. t \in States /\ t.lanes = ls /\ t.queues = c.queues /\ t.log = c.log /\ t.items = c.items
        BY <2>2, <3>6, <3>7 DEF States
    <3>9. Ends(s, t, id, {}, {m}, TRUE)
      <4>1. /\ t \in States /\ t.log = s.log /\ t.queues = s.queues
            /\ t.items[m] = CancelledItem(s.items[m])
            /\ \A n \in Mutation : n # m => t.items[n] = s.items[n]
          BY <2>2, <3>8
      <4> HIDE DEF id
      <4>2. t.lanes[id] = L /\ t.items = c.items /\ \A j \in Id : j # id => t.lanes[j] = s.lanes[j]
          BY <3>7, <3>8
      <4>4. LaneHolds(t.lanes[id], t.items, Sent(s), id)
          BY <3>5, <4>2
      <4>6. \/ ~ s.lanes[id].running
            \/ t.lanes[id].running /\ t.lanes[id].entries[1] = s.lanes[id].entries[1]
          BY <3>5, <4>2
      <4>3. s.items[m].id = id
          BY DEF id
      <4> QED
          BY <2>1, <3>1, <4>1, <4>2, <4>3, <4>4, <4>6 DEF Ends
    <3>15. Shrinks(s, t)
      <4> HIDE DEF id
      <4>1. Thins(s.lanes[id].entries, t.lanes[id].entries)
          BY <3>7, <3>8, <3>14
      <4> QED
          BY <3>9, <4>1, EndsShrinks
    <3>10. Holds(t) /\ Keeps(s, t, {}) /\ Shrinks(s, t) /\ t.items[m].outcome = "cancelled"
        BY <2>4, <3>9, <3>15
    <3>11. /\ Holds(DrainLane(t, id)) /\ Keeps(t, DrainLane(t, id), {})
           /\ Shrinks(t, DrainLane(t, id))
        BY <3>1, <3>10, DrainHolds, DrainShrinks
    <3>12. Keeps(s, DrainLane(t, id), {} \union {}) /\ Shrinks(s, DrainLane(t, id))
        BY <3>10, <3>11, KeepsOn, ShrinksOn
    <3>13. DrainLane(t, id).items[m].outcome = "cancelled"
      <4>1. t.items[m].attempt = "settled"
          BY <3>10 DEF Holds, ItemHolds
      <4> QED
          BY <3>10, <3>11, <4>1 DEF Keeps, ItemKept
    <3> QED
        BY <3>2, <3>11, <3>12, <3>13
  <2> QED
      BY <2>5, <2>6
<1> QED
    BY <1>1, <1>2

-----------------------------------------------------------------------------
(* What stands behind a failure is discarded.                              *)

\* A mutation is the head of its queue.
IsHead(s, m) ==
    /\ m \in Mutation /\ s.items[m].queue \in Queue
    /\ s.queues[s.items[m].queue].items # << >>
    /\ s.queues[s.items[m].queue].items[1] = m

\* What stands behind a mutation is younger and of the same queue.
LEMMA BehindAreMutations ==
    ASSUME NEW s, Holds(s), NEW m \in Mutation, s.items[m].queue \in Queue
    PROVE  \A n \in Behind(s, m) : n \in Mutation /\ n > m /\ s.items[n].queue = s.items[m].queue
<1> DEFINE q == s.items[m].queue
           I == s.queues[q].items
<1>1. I \in Seq(Mutation) /\ QueueHolds(s.queues[q], s.items, Sent(s), q)
    BY StateTypes DEF Holds, QueueRecord
<1>2. \A n \in Behind(s, m) : n > m /\ \E k \in DOMAIN I : n = I[k]
    BY DEF Behind, ToSet
<1>3. \A k \in DOMAIN I : I[k] \in Mutation /\ k \in 1 .. Len(I)
    BY Zenon, <1>1, ElementOfSeq, LenProperties
<1>4. \A k \in 1 .. Len(I) : s.items[I[k]].queue = q
    BY Zenon, <1>1 DEF QueueHolds
<1> HIDE DEF I
<1> QED
    BY <1>2, <1>3, <1>4

\* Until the queue goes on, what stands behind its head does not start.
LEMMA BehindWaits ==
    ASSUME NEW s, Holds(s), NEW m, IsHead(s, m), NEW n, n \in Behind(s, m), Pending(s, n),
           NEW t, Holds(t), Keeps(s, t, {})
    PROVE  Pending(t, n) \/ t.items[n].outcome = "cancelled"
<1> DEFINE q == s.items[m].queue
<1>1. n \in Mutation /\ n > m /\ s.items[n].queue = q /\ m \in Mutation /\ q \in Queue
    BY BehindAreMutations DEF IsHead
<1>2. ItemKept(s.items[n], t.items[n]) /\ QueueKept(s.queues[q], t.queues[q])
    BY <1>1 DEF Keeps
<1>3. t.items[n].attempt \in {"pending", "running"} \/ t.items[n].outcome = "cancelled"
    BY <1>2 DEF ItemKept, Pending
<1>4. t.items[n].queue = q
    BY <1>1, <1>2 DEF ItemKept
<1>5. CASE t.items[n].attempt = "running"
  <2>1. t.items[n].ready
      BY <1>1, <1>4, <1>5, MutationQueueAssumption DEF Holds, ItemHolds
  <2>2. t.queues[q].items[1] = n
      BY <1>1, <1>4, <1>5, <2>1, ReadyIsHead
  <2>3. t.queues[q].items[1] = m
      BY <1>2 DEF QueueKept, IsHead
  <2> QED
      BY <1>1, <2>2, <2>3 DEF Mutation
<1> QED
    BY <1>3, <1>5 DEF Pending

\* #discardAfter cancels all that waits behind the head, whichever lanes it stands in.
LEMMA DiscardAfterHolds ==
    ASSUME NEW s, Holds(s), NEW m, IsHead(s, m)
    PROVE  /\ Holds(DiscardAfter(s, m)) /\ Keeps(s, DiscardAfter(s, m), {})
           /\ Shrinks(s, DiscardAfter(s, m))
           /\ \A n \in Behind(s, m) :
                 Pending(s, n) => DiscardAfter(s, m).items[n].outcome = "cancelled"
<1> DEFINE B == Behind(s, m)
           X == { t \in States : Holds(t) /\ Keeps(s, t, {}) /\ Shrinks(s, t) }
           N == MaxCalls
           Gone(t, n) == n \in B /\ Pending(s, n) => t.items[n].outcome = "cancelled"
           next(t, n) == IF n \in B THEN CancelQueued(t, n) ELSE t
           IsRun(g) == g = [n \in 0 .. N |->
                               IF n = 0 THEN s
                               ELSE IF n \in B THEN CancelQueued(g[n - 1], n) ELSE g[n - 1]]
           step == [p \in X \X (1 .. N) |-> next(p[1], p[2])]
<1>1. N \in Nat
    BY MutationQueueAssumption
<1>2. \A n \in B : n \in 1 .. N
    BY BehindAreMutations DEF IsHead, Mutation
<1>3. DiscardAfter(s, m) = (CHOOSE g : IsRun(g))[N]
    BY DEF DiscardAfter
<1>4. s \in X
    BY KeepsItself, ShrinksItself DEF Holds
<1>5. ASSUME NEW t \in X, NEW n \in 1 .. N
      PROVE  next(t, n) \in X /\ Keeps(t, next(t, n), {}) /\ Gone(next(t, n), n)
  <2>1. CASE n \notin B
      BY <2>1, KeepsItself
  <2>2. CASE n \in B
    <3>1. /\ Holds(CancelQueued(t, n)) /\ Keeps(t, CancelQueued(t, n), {})
          /\ Shrinks(t, CancelQueued(t, n))
          /\ Pending(t, n) => CancelQueued(t, n).items[n].outcome = "cancelled"
        BY CancelQueuedHolds DEF Mutation
    <3>2. Keeps(s, CancelQueued(t, n), {} \union {}) /\ Shrinks(s, CancelQueued(t, n))
        BY <3>1, KeepsOn, ShrinksOn
    <3>3. CancelQueued(t, n) \in States /\ {} \union {} = {}
        BY <3>1 DEF Holds
    <3>4. Pending(s, n) => Pending(t, n) \/ t.items[n].outcome = "cancelled"
        BY <2>2, BehindWaits
    <3>5. t.items[n].outcome = "cancelled" => CancelQueued(t, n).items[n].outcome = "cancelled"
      <4>1. Holds(t)
          OBVIOUS
      <4>2. t.items[n].outcome = "cancelled" => t.items[n].attempt = "settled"
        <5> HIDE DEF X
        <5> QED
            BY <4>1 DEF Holds, ItemHolds, Mutation
      <4> QED
          BY <3>1, <4>2 DEF Keeps, ItemKept, Mutation
    <3> QED
        BY <2>2, <3>1, <3>2, <3>3, <3>4, <3>5
  <2> QED
      BY <2>1, <2>2
<1>6. ASSUME NEW t \in X, NEW u \in X, Keeps(t, u, {}), NEW n \in 1 .. N, Gone(t, n)
      PROVE  Gone(u, n)
  <2>1. t.items[n].outcome = "cancelled" => t.items[n].attempt = "settled"
      BY Zenon DEF Holds, ItemHolds, Mutation
  <2>2. ItemKept(t.items[n], u.items[n])
      BY <1>6 DEF Keeps, Mutation
  <2> QED
      BY <1>6, <2>1, <2>2 DEF ItemKept
<1> HIDE DEF X, B, Gone
<1>7. step \in [X \X (1 .. N) -> X] /\ \A t \in X, n \in 1 .. N : step[<< t, n >>] = next(t, n)
    BY <1>5
<1> HIDE DEF step, N
<1>8. HasSolution(X, s, N, step)
    BY ONLY <1>1, <1>4, <1>7, Recursion
<1>9. PICK h \in [0 .. N -> X] : h[0] = s /\ \A n \in 1 .. N : h[n] = step[<< h[n - 1], n >>]
    BY ONLY <1>8 DEF HasSolution
<1>10. IsRun(h)
  <2>1. ASSUME NEW n \in 0 .. N
        PROVE  h[n] = IF n = 0 THEN s
                      ELSE IF n \in B THEN CancelQueued(h[n - 1], n) ELSE h[n - 1]
    <3>1. CASE n = 0
        BY <1>9, <3>1
    <3>2. CASE n # 0
      <4>1. n \in 1 .. N /\ n - 1 \in 0 .. N
          BY <1>1, <3>2
      <4>2. h[n - 1] \in X
          BY <4>1
      <4>3. h[n] = next(h[n - 1], n)
          BY <1>7, <1>9, <4>1, <4>2
      <4> QED
          BY <3>2, <4>3
    <3> QED
        BY <3>1, <3>2
  <2> QED
      BY <2>1
<1> DEFINE f == CHOOSE g : IsRun(g)
<1>11. IsRun(f)
    BY <1>10
<1> HIDE DEF f
<1> DEFINE S == { n \in 0 .. N : f[n] \in X /\ \A p \in 1 .. n : Gone(f[n], p) }
<1>12. 0 \in S
    BY <1>1, <1>4, <1>11
<1>13. ASSUME NEW n \in 1 .. N, n - 1 \in S PROVE n \in S
  <2>1. n \in 0 .. N /\ n # 0 /\ f[n - 1] \in X /\ \A p \in 1 .. n - 1 : Gone(f[n - 1], p)
      BY <1>1, <1>13
  <2>2. f[n] = next(f[n - 1], n)
      BY <1>11, <2>1
  <2> HIDE DEF next
  <2>3. f[n] \in X /\ Keeps(f[n - 1], f[n], {}) /\ Gone(f[n], n)
      BY <1>5, <2>1, <2>2
  <2>4. ASSUME NEW p \in 1 .. n PROVE Gone(f[n], p)
    <3>1. CASE p = n
        BY <2>3, <3>1
    <3>2. CASE p # n
      <4>1. p \in 1 .. n - 1 /\ p \in 1 .. N
          BY <1>1, <2>1, <3>2
      <4> QED
          BY <1>6, <2>1, <2>3, <4>1
    <3> QED
        BY <3>1, <3>2
  <2> QED
      BY <2>1, <2>3, <2>4
<1> HIDE DEF S
<1>14. \A n \in 0 .. N : n \in S
    BY ONLY <1>1, <1>12, <1>13, BoundedInduction
<1>15. f[N] \in X /\ \A p \in 1 .. N : Gone(f[N], p)
    BY <1>1, <1>14 DEF S
<1>16. DiscardAfter(s, m) = f[N]
    BY <1>3 DEF f, N
<1>17. \A n \in B : n \in 1 .. N
    BY <1>2 DEF N
<1> QED
    BY <1>15, <1>16, <1>17 DEF X, Gone, B

-----------------------------------------------------------------------------
(* A mutation that is under way.                                           *)

\* What a queue may do besides: neither what it holds nor its pause changes.
LEMMA QueueKeeps ==
    ASSUME NEW s, Holds(s), NEW q \in Queue, NEW r, r \in QueueRecord,
           QueueKept(s.queues[q], r), r.timer => r.items # << >>
    PROVE  LET t == [s EXCEPT !.queues[q] = r]
           IN  /\ Holds(t) /\ Keeps(s, t, {}) /\ t.items = s.items
               /\ s.queues[q].flushThrough <= r.flushThrough => Shrinks(s, t)
<1> DEFINE t == [s EXCEPT !.queues[q] = r]
<1>1. /\ Holds(t) /\ t.items = s.items /\ t.lanes = s.lanes
      /\ t.queues[q] = r /\ \A p \in Queue : p # q => t.queues[p] = s.queues[p]
    BY QueueChanges DEF QueueKept
<1> HIDE DEF t
<1>2. Keeps(s, t, {})
    BY <1>1, KeepsItself DEF Keeps, QueueKept
<1>3. ASSUME s.queues[q].flushThrough <= r.flushThrough PROVE Shrinks(s, t)
  <2>1. s.queues[q].flushThrough \in Nat /\ r.flushThrough \in Nat /\ Mutation \subseteq Nat
      BY StateTypes DEF Holds, QueueRecord, Mutation
  <2>2. \A p \in Queue, n \in Mutation :
           n <= s.queues[p].flushThrough => n <= t.queues[p].flushThrough
    <3> SUFFICES ASSUME NEW n \in Mutation, n <= s.queues[q].flushThrough
                 PROVE  n <= r.flushThrough
        BY <1>1
    <3>1. n \in Nat
        BY <2>1
    <3> QED
        BY <1>3, <2>1, <3>1
  <2>3. \A p \in Queue : t.queues[p].items = s.queues[p].items
      BY <1>1 DEF QueueKept
  <2> QED
      BY <1>1, <2>2, <2>3 DEF Shrinks, Stands, Pending
<1> QED
    BY <1>1, <1>2, <1>3 DEF t

\* #setSnapshot keeps the invariant.
LEMMA SayHolds ==
    ASSUME NEW s, Holds(s), NEW m \in Mutation, NEW status \in Statuses
    PROVE  /\ Holds(Say(s, m, status)) /\ Keeps(s, Say(s, m, status), {})
           /\ Say(s, m, status).items = s.items /\ Shrinks(s, Say(s, m, status))
<1> DEFINE q == s.items[m].queue
           r == [s.queues[q] EXCEPT !.status = status]
<1>1. q \in Queue \union {NoQueue}
    BY StateTypes DEF Holds, Item
<1>2. CASE q = NoQueue
  <2>1. Say(s, m, status) = s
      BY <1>2 DEF Say
  <2> QED
      BY <2>1, KeepsItself, ShrinksItself
<1>3. CASE q # NoQueue
  <2>1. q \in Queue /\ s.queues[q] \in QueueRecord
      BY <1>1, <1>3, StateTypes DEF Holds
  <2>2. Say(s, m, status) = [s EXCEPT !.queues[q] = r]
      BY <1>3 DEF Say
  <2>3. /\ r \in QueueRecord /\ QueueKept(s.queues[q], r) /\ (r.timer <=> s.queues[q].timer)
        /\ s.queues[q].flushThrough <= r.flushThrough
      BY <2>1 DEF QueueRecord, QueueKept
  <2>4. s.queues[q].timer => s.queues[q].items # << >>
      BY <2>1 DEF Holds, QueueHolds
  <2>5. r.timer => r.items # << >>
      BY <2>3, <2>4 DEF QueueKept
  <2> HIDE DEF q, r
  <2>6. LET t == [s EXCEPT !.queues[q] = r]
        IN  Holds(t) /\ Keeps(s, t, {}) /\ t.items = s.items /\ Shrinks(s, t)
      BY <2>1, <2>3, <2>5, QueueKeeps
  <2> QED
      BY <2>2, <2>6
<1> QED
    BY <1>1, <1>2, <1>3

\* A mutation of a queue that is under way is its head; its queue pauses when a
\* decision about it is due.
LEMMA RunningHeads ==
    ASSUME NEW s, Holds(s), NEW m \in Mutation, s.items[m].phase # "none",
           s.items[m].queue # NoQueue
    PROVE  /\ IsHead(s, m) /\ s.items[m].attempt = "running"
           /\ s.items[m].phase # "deciding" => ~ s.queues[s.items[m].queue].deciding
<1>1. s.items[m].queue \in Queue
    BY StateTypes DEF Holds, Item
<1>2. s.items[m].attempt = "running" /\ s.items[m].ready
    BY DEF Holds, ItemHolds
<1>3. IsHead(s, m)
    BY <1>1, <1>2, ReadyIsHead DEF IsHead
<1>4. QueueHolds(s.queues[s.items[m].queue], s.items, Sent(s), s.items[m].queue)
    BY <1>1 DEF Holds
<1> QED
    BY Zenon, <1>2, <1>3, <1>4 DEF QueueHolds, IsHead

\* What stays of a mutation while it waits or is under way.
Alike(x, y) ==
    /\ y.queue = x.queue /\ y.id = x.id /\ y.attempt = x.attempt /\ y.outcome = x.outcome
    /\ x.ready <=> y.ready
    /\ x.observed <=> y.observed
    /\ x.attempt # "none"
    /\ y.attempt = "running" <=> y.phase # "none"
    /\ y.attempt = "running" \/ y.outcome \in {"done", "failed"} => y.sent = y.calls

\* A mutation that changes no more than its phase, its tries or its calls.
LEMMA ItemChanges ==
    ASSUME NEW s, Holds(s), NEW m \in Mutation, NEW y, y \in Item, Alike(s.items[m], y),
           \/ y.phase = s.items[m].phase
           \/ s.items[m].queue = NoQueue
           \/ ~ s.queues[s.items[m].queue].deciding
    PROVE  LET t == [s EXCEPT !.items[m] = y]
           IN  /\ Holds(t) /\ Keeps(s, t, {m}) /\ Shrinks(s, t) /\ t.queues = s.queues
               /\ t.items[m] = y /\ \A n \in Mutation : n # m => t.items[n] = s.items[n]
<1> DEFINE its == [s.items EXCEPT ![m] = y]
           t == [s EXCEPT !.items[m] = y]
<1>1. /\ s \in States /\ s.items \in [Mutation -> Item] /\ Sent(s) \subseteq Mutation
      /\ s.lanes \in [Id -> Lanes] /\ s.queues \in [Queue -> QueueRecord] /\ s.log \in Seq(Mutation)
    BY StateTypes DEF Holds
<1>2. its \in [Mutation -> Item] /\ its[m] = y /\ \A n \in Mutation : n # m => its[n] = s.items[n]
    BY <1>1
<1>3. /\ t \in States /\ t.lanes = s.lanes /\ t.queues = s.queues /\ t.log = s.log
      /\ t.items = its
    BY <1>1, <1>2 DEF States
<1> HIDE DEF t, its
<1>4. Sent(t) = Sent(s)
    BY <1>3 DEF Sent
<1>5. \A n \in Mutation : /\ its[n].queue = s.items[n].queue /\ its[n].id = s.items[n].id
                          /\ its[n].attempt = s.items[n].attempt
                          /\ its[n].ready <=> s.items[n].ready
                          /\ its[n].observed <=> s.items[n].observed
    BY <1>2 DEF Alike
<1>6. ASSUME NEW i \in Id PROVE LaneHolds(t.lanes[i], t.items, Sent(t), i)
  <2>1. LaneHolds(s.lanes[i], s.items, Sent(s), i) /\ s.lanes[i] \in Lanes
      BY <1>1 DEF Holds
  <2>2. LaneHolds(s.lanes[i], its, Sent(s), i)
      BY <1>1, <1>5, <2>1, LaneIsLeft
  <2> QED
      BY <1>3, <1>4, <2>2
<1>7. ASSUME NEW q \in Queue PROVE QueueHolds(t.queues[q], t.items, Sent(t), q)
  <2>1. QueueHolds(s.queues[q], s.items, Sent(s), q) /\ s.queues[q] \in QueueRecord
      BY <1>1 DEF Holds
  <2>2. s.queues[q].timer => s.queues[q].items # << >>
      BY <2>1 DEF QueueHolds
  <2>3. s.queues[q].deciding =>
           s.queues[q].items # << >> /\ its[s.queues[q].items[1]].phase = "deciding"
    <3> SUFFICES ASSUME s.queues[q].deciding
                 PROVE  s.queues[q].items # << >> /\ its[s.queues[q].items[1]].phase = "deciding"
        OBVIOUS
    <3> DEFINE h == s.queues[q].items[1]
    <3>1. s.queues[q].items # << >> /\ s.items[h].phase = "deciding"
        BY <2>1 DEF QueueHolds
    <3>2. h \in Mutation /\ s.items[h].queue = q
      <4>1. /\ MayWake(s, Head(s.queues[q].items)) /\ Head(s.queues[q].items) = h
            /\ s.items[Head(s.queues[q].items)].queue = q
          BY <3>1, HeadMayWake
      <4>2. MayWake(s, h) /\ s.items[h].queue = q
          BY <4>1
      <4> QED
          BY <4>2 DEF MayWake
    <3>3. h = m => y.phase = s.items[m].phase
        BY <3>2, MutationQueueAssumption
    <3> HIDE DEF h
    <3> QED
        BY <1>2, <3>1, <3>2, <3>3 DEF h
  <2>4. QueueHolds(s.queues[q], its, Sent(s), q)
      BY <1>1, <1>5, <2>1, <2>2, <2>3, QueueIsLeft
  <2> QED
      BY <1>3, <1>4, <2>4
<1>8. ASSUME NEW n \in Mutation PROVE ItemHolds(t.items[n], n, t.lanes, Sent(t))
  <2>1. ItemHolds(s.items[n], n, s.lanes, Sent(s))
      BY DEF Holds
  <2>2. CASE n # m
      BY <1>2, <1>3, <1>4, <2>1, <2>2
  <2>3. CASE n = m
    <3>1. ItemHolds(y, m, s.lanes, Sent(s))
        BY <2>1, <2>3 DEF ItemHolds, Alike
    <3> QED
        BY <1>2, <1>3, <1>4, <2>3, <3>1
  <2> QED
      BY <2>2, <2>3
<1>9. InOrder(t.log, t.items)
  <2>1. \A k \in 1 .. Len(s.log) : s.log[k] \in Mutation
      BY <1>1, ElementOfSeq
  <2>2. \A i, j \in 1 .. Len(s.log) :
           Related(its[s.log[i]], its[s.log[j]]) <=> Related(s.items[s.log[i]], s.items[s.log[j]])
      BY <1>5, <2>1 DEF Related
  <2>3. InOrder(s.log, s.items)
      BY DEF Holds
  <2> QED
      BY <1>3, <2>2, <2>3 DEF InOrder
<1>10. Holds(t)
    BY <1>3, <1>6, <1>7, <1>8, <1>9 DEF Holds
<1>11. Keeps(s, t, {m})
  <2>1. \A n \in Mutation : ItemKept(s.items[n], s.items[n])
      BY KeepsItself DEF Keeps
  <2>2. \A n \in Mutation : n \notin {m} => ItemKept(s.items[n], t.items[n])
      BY <1>2, <1>3, <2>1
  <2>3. \A n \in Mutation : s.items[n].attempt = "none" <=> t.items[n].attempt = "none"
      BY <1>3, <1>5
  <2>4. \A q \in Queue : QueueKept(s.queues[q], t.queues[q])
      BY <1>3 DEF QueueKept
  <2> QED
      BY <2>2, <2>3, <2>4 DEF Keeps
<1>12. Shrinks(s, t)
    BY <1>3, <1>5 DEF Shrinks, Stands, Pending
<1> QED
    BY <1>2, <1>3, <1>10, <1>11, <1>12 DEF t

\* One more attempt of a mutation that is under way.
LEMMA AgainHolds ==
    ASSUME NEW s, Holds(s), NEW m \in Mutation, s.items[m].attempt = "running",
           s.items[m].queue = NoQueue \/ ~ s.queues[s.items[m].queue].deciding
    PROVE  Holds(Again(s, m)) /\ Keeps(s, Again(s, m), {m}) /\ Shrinks(s, Again(s, m))
<1> DEFINE x == s.items[m]
           y == [x EXCEPT !.phase = "asked", !.tries = x.tries + 1, !.sent = x.calls]
           t == [s EXCEPT !.items[m] = y]
<1>1. x \in Item /\ x.sent = x.calls /\ "saving" \in Statuses
  <2>1. s \in States /\ s.items \in [Mutation -> Item]
      BY StateTypes DEF Holds
  <2> QED
      BY <2>1 DEF Holds, ItemHolds, Statuses
<1>2. y \in Item /\ Alike(x, y)
  <2>1. x.tries + 1 \in Nat /\ x.calls \in SUBSET Nat
      BY <1>1 DEF Item
  <2> HIDE DEF x
  <2>2. y \in Item
      BY <1>1, <2>1 DEF Item
  <2>3. x.attempt = "running" /\ x.outcome = y.outcome
      BY <1>1 DEF x, Item
  <2>4. Alike(x, y)
      BY <1>1, <2>3 DEF Item, Alike
  <2> QED
      BY <2>2, <2>4
<1>3. Again(s, m) = Say(t, m, "saving")
    BY DEF Again
<1> HIDE DEF x, y
<1>4. Holds(t) /\ Keeps(s, t, {m}) /\ Shrinks(s, t)
    BY <1>2, ItemChanges DEF x
<1> HIDE DEF t
<1>5. /\ Holds(Say(t, m, "saving")) /\ Keeps(t, Say(t, m, "saving"), {})
      /\ Shrinks(t, Say(t, m, "saving"))
    BY <1>1, <1>4, SayHolds
<1>6. Keeps(s, Say(t, m, "saving"), {m} \union {}) /\ Shrinks(s, Say(t, m, "saving"))
    BY <1>4, <1>5, KeepsOn, ShrinksOn
<1> QED
    BY <1>3, <1>5, <1>6

\* A failure that is final.
LEMMA GiveUpHolds ==
    ASSUME NEW s, Holds(s), NEW m, IsHead(s, m), s.items[m].attempt = "running",
           ~ s.queues[s.items[m].queue].deciding
    PROVE  /\ Holds(GiveUp(s, m)) /\ Keeps(s, GiveUp(s, m), {m}) /\ Shrinks(s, GiveUp(s, m))
           /\ \A n \in Behind(s, m) :
                 n \in Mutation /\ (Pending(s, n) => GiveUp(s, m).items[n].outcome = "cancelled")
<1> DEFINE t == DiscardAfter(s, m)
           u == Settlement(t, m, FALSE)
<1>1. m \in Mutation /\ s.items[m].queue \in Queue
    BY DEF IsHead
<1>2. /\ Holds(t) /\ Keeps(s, t, {}) /\ Shrinks(s, t)
      /\ \A n \in Behind(s, m) : Pending(s, n) => t.items[n].outcome = "cancelled"
    BY DiscardAfterHolds
<1>3. GiveUp(s, m) = u
    BY DEF GiveUp
<1> HIDE DEF t
<1>4. t.items[m].attempt = "running" /\ t.items[m].queue = s.items[m].queue
      /\ ~ t.queues[t.items[m].queue].deciding
    BY <1>1, <1>2 DEF Keeps, ItemKept, QueueKept
<1>5. Holds(u) /\ Keeps(t, u, {m}) /\ Shrinks(t, u)
    BY <1>1, <1>2, <1>4, SettlementHolds
<1> HIDE DEF u
<1>6. Keeps(s, u, {} \union {m}) /\ Shrinks(s, u)
    BY <1>2, <1>5, KeepsOn, ShrinksOn
<1>7. ASSUME NEW n \in Behind(s, m), Pending(s, n) PROVE u.items[n].outcome = "cancelled"
  <2>1. n \in Mutation /\ t.items[n].outcome = "cancelled"
      BY <1>1, <1>2, <1>7, BehindAreMutations
  <2>2. t.items[n].attempt = "settled"
      BY <1>2, <2>1 DEF Holds, ItemHolds
  <2>3. n # m
      BY <1>4, <2>2
  <2> QED
      BY <1>5, <2>1, <2>2, <2>3 DEF Keeps, ItemKept
<1>8. \A n \in Behind(s, m) : n \in Mutation
    BY <1>1, BehindAreMutations
<1> QED
    BY <1>3, <1>5, <1>6, <1>7, <1>8

\* Everything in a queue is due.
LEMMA FlushedHolds ==
    ASSUME NEW s, Holds(s), NEW q \in Queue
    PROVE  /\ Holds(Flushed(s, q)) /\ Keeps(s, Flushed(s, q), {})
           /\ Covered(s, {}, {}) => Covered(Flushed(s, q), {}, {})
<1> DEFINE I == s.queues[q].items
           reach == {s.queues[q].flushThrough, Last(I)}
           r == [s.queues[q] EXCEPT !.flushThrough = Max(reach)]
           t == [s EXCEPT !.queues[q] = r]
<1>1. CASE I = << >>
  <2>1. Flushed(s, q) = s
      BY <1>1 DEF Flushed
  <2> QED
      BY <2>1, KeepsItself
<1>2. CASE I # << >>
  <2>1. s.queues[q] \in QueueRecord /\ I \in Seq(Mutation) /\ s.queues[q].flushThrough \in Nat
      BY StateTypes DEF Holds, QueueRecord
  <2>2. Last(I) \in Mutation
    <3>1. Len(I) \in 1 .. Len(I)
        BY <1>2, <2>1, EmptySeq, LenProperties
    <3> QED
        BY <2>1, <3>1, ElementOfSeq DEF Last
  <2>3. reach \subseteq Nat /\ IsFiniteSet(reach) /\ reach # {}
    <3>1. IsFiniteSet({s.queues[q].flushThrough})
        BY FS_Singleton
    <3>2. IsFiniteSet({s.queues[q].flushThrough} \union {Last(I)})
        BY <3>1, FS_AddElement
    <3>3. reach = {s.queues[q].flushThrough} \union {Last(I)}
        OBVIOUS
    <3>4. reach \subseteq Nat /\ reach # {}
        BY <2>1, <2>2 DEF Mutation
    <3> HIDE DEF reach
    <3> QED
        BY <3>2, <3>3, <3>4
  <2>4. Flushed(s, q) = Arm(t, q)
      BY <1>2 DEF Flushed
  <2> HIDE DEF reach
  <2>5. Max(reach) \in Nat /\ s.queues[q].flushThrough <= Max(reach)
    <3>1. s.queues[q].flushThrough \in reach
        BY DEF reach
    <3> QED
        BY <2>3, <3>1, MaxIsMaximum
  <2>6. /\ r \in QueueRecord /\ QueueKept(s.queues[q], r) /\ r.items = I
        /\ s.queues[q].flushThrough <= r.flushThrough
      BY <2>1, <2>5 DEF QueueRecord, QueueKept
  <2> HIDE DEF r
  <2>7. Holds(t) /\ Keeps(s, t, {}) /\ Shrinks(s, t)
      BY <1>2, <2>6, QueueKeeps
  <2> HIDE DEF t
  <2>10. Covered(s, {}, {}) => Covered(Arm(t, q), {}, {})
    <3>1. Covered(s, {}, {}) => Covered(t, {}, {})
        BY <2>7, CoveredShrinks
    <3>2. Covered(t, {}, {}) => Covered(t, {q}, {})
        BY DEF Covered
    <3> QED
        BY <2>7, <3>1, <3>2, ArmCovered
  <2>8. Holds(Arm(t, q)) /\ Keeps(t, Arm(t, q), {})
      BY <2>7, ArmHolds
  <2>9. Keeps(s, Arm(t, q), {} \union {})
      BY <2>7, <2>8, KeepsOn
  <2> QED
      BY <2>4, <2>8, <2>9, <2>10
<1> QED
    BY <1>1, <1>2

-----------------------------------------------------------------------------
(* A mutation is registered.                                               *)

\* ensure() and enqueue(): the mutation is the last of its lane.
LEMMA LaneEnters ==
    ASSUME NEW lane, lane \in Lanes, NEW its, NEW sent, NEW id, LaneHolds(lane, its, sent, id),
           NEW e, e \in EntriesOf(Mutation)
    PROVE  LET L == Enqueue(Ensure(lane, Answered), e)
           IN  /\ L \in Lanes /\ L.open /\ (L.running <=> lane.running)
               /\ L.entries = Append(lane.entries, e)
<1> DEFINE K == Ensure(lane, Answered)
           more == [K EXCEPT !.entries = Append(@, e)]
<1>1. /\ K \in Lane({0, 1}, Mutation) /\ K.open
      /\ lane.open => K = lane
      /\ ~ lane.open => K.entries = << >> /\ ~ K.running
  <2>1. lane \in Lane({0, 1}, Mutation) /\ 0 \in {0, 1} /\ Answered \in Items({0, 1}, Mutation)
      BY AnsweredIsRow DEF Lanes
  <2> QED
      BY <2>1, EnsureDoes
<1>2. ~ lane.open => lane.entries = << >> /\ ~ lane.running
    BY DEF LaneHolds
<1>3. K.entries = lane.entries /\ (K.running <=> lane.running)
    BY <1>1, <1>2
<1>4. Enqueue(K, e) = Reproject(more)
    BY DEF Enqueue
<1> HIDE DEF K
<1>5. /\ more \in Lane({0, 1}, Mutation) /\ more.open /\ (more.running <=> lane.running)
      /\ more.entries = Append(lane.entries, e)
  <2>1. Append(K.entries, e) \in Seq(EntriesOf(Mutation))
      BY <1>1, AppendProperties DEF Lane
  <2>2. more = [K EXCEPT !.entries = Append(K.entries, e)]
      BY <1>1 DEF Lane
  <2> DEFINE entries == Append(K.entries, e)
  <2> HIDE DEF more, entries
  <2>3. more = [K EXCEPT !.entries = entries] /\ entries \in Seq(EntriesOf(Mutation))
      BY <2>1, <2>2 DEF entries
  <2>4. more \in Lane({0, 1}, Mutation) /\ more.open = K.open /\ more.running = K.running
        /\ more.entries = entries
      BY <1>1, <2>3 DEF Lane
  <2> QED
      BY <1>1, <1>3, <2>4 DEF entries
<1> HIDE DEF more
<1>6. /\ Reproject(more) \in Lane({0, 1}, Mutation) /\ Reproject(more).entries = more.entries
      /\ Reproject(more).open = more.open /\ Reproject(more).running = more.running
  <2>1. 0 \in {0, 1} /\ more \in Lane({0, 1}, Mutation)
      BY <1>5
  <2> QED
      BY ONLY <2>1, ReprojectDoes
<1> QED
    BY <1>4, <1>5, <1>6 DEF K, Lanes

\* A new mutation joins its queue and its lane.
Enters(s, t, m) ==
    /\ t \in States /\ t.log = s.log
    /\ \A n \in Mutation : n # m => t.items[n] = s.items[n]
    /\ t.items[m].attempt = "pending" /\ t.items[m].phase = "none"
    /\ t.items[m].outcome = "none" /\ ~ t.items[m].observed /\ ~ t.items[m].ready
    /\ \A q \in Queue : q # t.items[m].queue => t.queues[q] = s.queues[q]
    /\ \A q \in Queue : q = t.items[m].queue =>
          /\ t.queues[q].items = Append(s.queues[q].items, m)
          /\ t.queues[q].deciding <=> s.queues[q].deciding
          /\ t.queues[q].flushThrough = s.queues[q].flushThrough
    /\ \A i \in Id : i # t.items[m].id => t.lanes[i] = s.lanes[i]
    /\ \A i \in Id : i = t.items[m].id =>
          /\ t.lanes[i].open /\ (t.lanes[i].running <=> s.lanes[i].running)
          /\ \E e : e.mutation = m /\ t.lanes[i].entries = Append(s.lanes[i].entries, e)

\* What there is comes before it.
OlderThan(s, m) ==
    /\ s.items[m] = NoItem
    /\ \A n \in Mutation : s.items[n].attempt # "none" => n < m
    /\ \A x \in Sent(s) : x < m
    /\ \A i \in Id : \A k \in 1 .. Len(s.lanes[i].entries) :
          s.lanes[i].entries[k].mutation \in Mutation /\ s.lanes[i].entries[k].mutation < m
    /\ \A q \in Queue : \A k \in 1 .. Len(s.queues[q].items) :
          s.queues[q].items[k] \in Mutation /\ s.queues[q].items[k] < m

\* The mutation after the last one registered is younger than all there is.
LEMMA NewIsLast ==
    ASSUME NEW s, Holds(s), NEW m \in Mutation, Registered(s, m - 1)
    PROVE  OlderThan(s, m)
<1>1. \A n \in Mutation : s.items[n].attempt # "none" => n < m
    BY DEF Registered, Mutation
<1>2. s.items[m] = NoItem
  <2>1. s.items[m].attempt = "none"
      BY DEF Registered, Mutation
  <2> QED
      BY <2>1 DEF Holds, ItemHolds
<1>3. ASSUME NEW x \in Sent(s) PROVE x < m
  <2>1. x \in Mutation
      BY StateTypes DEF Holds
  <2>2. s.items[x].attempt # "none"
      BY <2>1 DEF Holds, ItemHolds
  <2> QED
      BY <1>1, <2>1, <2>2
<1>4. ASSUME NEW i \in Id, NEW k \in 1 .. Len(s.lanes[i].entries)
      PROVE  s.lanes[i].entries[k].mutation \in Mutation /\ s.lanes[i].entries[k].mutation < m
  <2> DEFINE n == s.lanes[i].entries[k].mutation
  <2>1. s.lanes[i] \in Lanes /\ LaneHolds(s.lanes[i], s.items, Sent(s), i)
      BY StateTypes DEF Holds
  <2>2. s.lanes[i].entries \in Seq(EntriesOf(Mutation))
      BY <2>1 DEF Lanes, Lane
  <2>3. s.lanes[i].entries[k] \in EntriesOf(Mutation)
      BY <2>2, ElementOfSeq
  <2>4. n \in Mutation
      BY <2>3 DEF EntriesOf
  <2>5. s.items[n].attempt # "none"
      BY <2>1 DEF LaneHolds
  <2> QED
      BY <1>1, <2>4, <2>5
<1>5. ASSUME NEW q \in Queue, NEW k \in 1 .. Len(s.queues[q].items)
      PROVE  s.queues[q].items[k] \in Mutation /\ s.queues[q].items[k] < m
  <2> DEFINE n == s.queues[q].items[k]
  <2>1. s.queues[q].items \in Seq(Mutation) /\ QueueHolds(s.queues[q], s.items, Sent(s), q)
      BY StateTypes DEF Holds, QueueRecord
  <2>2. n \in Mutation /\ s.items[n].queue = q
      BY <2>1, ElementOfSeq DEF QueueHolds
  <2>3. s.items[n].attempt # "none"
    <3>1. s.items[n].attempt = "none" => s.items[n] = NoItem
        BY <2>2 DEF Holds, ItemHolds
    <3> HIDE DEF n
    <3> QED
        BY <2>2, <3>1, MutationQueueAssumption DEF NoItem
  <2> QED
      BY <1>1, <2>2, <2>3
<1> QED
    BY <1>1, <1>2, <1>3, <1>4, <1>5 DEF OlderThan

\* A mutation that joins its queue and its lane keeps the invariant.
LEMMA EnterHolds ==
    ASSUME NEW s, Holds(s), NEW t, NEW m \in Mutation, OlderThan(s, m), Enters(s, t, m)
    PROVE  Holds(t)
<1>1. /\ s \in States /\ s.items \in [Mutation -> Item] /\ Sent(s) \subseteq Mutation
      /\ s.lanes \in [Id -> Lanes] /\ s.queues \in [Queue -> QueueRecord] /\ s.log \in Seq(Mutation)
      /\ t \in States /\ t.lanes \in [Id -> Lanes] /\ t.queues \in [Queue -> QueueRecord]
  <2>1. s \in States /\ t \in States
      BY DEF Holds, Enters
  <2> QED
      BY <2>1, StateTypes
<1>2. /\ \A n \in Mutation : n # m => t.items[n] = s.items[n]
      /\ t.items[m].attempt = "pending" /\ t.items[m].phase = "none"
      /\ t.items[m].outcome = "none" /\ ~ t.items[m].observed /\ ~ t.items[m].ready
      /\ t.log = s.log
    BY DEF Enters
<1>3. Sent(t) = Sent(s) /\ m \notin Sent(s) /\ \A x \in Sent(s) : x \in Mutation /\ x # m /\ x < m
  <2>1. \A x \in Sent(s) : x < m /\ x \in Mutation
      BY <1>1 DEF OlderThan
  <2>2. ~ (m < m)
      BY DEF Mutation
  <2> QED
      BY <1>2, <2>1, <2>2 DEF Sent
<1>4. \A x \in Sent(s) : t.items[x] = s.items[x]
    BY <1>2, <1>3
<1>5. ASSUME NEW i \in Id PROVE LaneHolds(t.lanes[i], t.items, Sent(t), i)
  <2> DEFINE E == s.lanes[i].entries
             n == Len(E)
  <2>1. LaneHolds(s.lanes[i], s.items, Sent(s), i) /\ s.lanes[i] \in Lanes
      BY <1>1 DEF Holds
  <2>2. E \in Seq(EntriesOf(Mutation)) /\ n \in Nat /\ (E = << >> <=> n = 0)
      BY <2>1, LenProperties, EmptySeq DEF Lanes, Lane
  <2>3. \A k \in 1 .. n : /\ E[k].mutation \in Mutation /\ E[k].mutation < m
                          /\ t.items[E[k].mutation] = s.items[E[k].mutation]
    <3>1. \A k \in 1 .. n : E[k].mutation \in Mutation /\ E[k].mutation < m
        BY DEF OlderThan
    <3>2. \A k \in 1 .. n : E[k].mutation # m
        BY <3>1 DEF Mutation
    <3> QED
        BY <1>2, <3>1, <3>2
  <2>4. /\ \A k, l \in 1 .. n : k < l => E[k].mutation < E[l].mutation
        /\ \A k \in 1 .. n : t.items[E[k].mutation].id = i
        /\ \A k \in 1 .. n : t.items[E[k].mutation].attempt =
                                IF k = 1 /\ s.lanes[i].running THEN "running" ELSE "pending"
        /\ \A x \in Sent(s), k \in 1 .. n : t.items[x].id = i => x <= E[k].mutation
        /\ s.lanes[i].running => E # << >>
        /\ ~ s.lanes[i].open => E = << >>
      BY Zenon, <1>4, <2>1, <2>3 DEF LaneHolds
  <2>5. CASE i # t.items[m].id
    <3>1. t.lanes[i] = s.lanes[i]
        BY <2>5 DEF Enters
    <3> QED
        BY <1>3, <2>4, <3>1 DEF LaneHolds
  <2>6. CASE i = t.items[m].id
    <3>1. PICK e : /\ t.lanes[i].open /\ (t.lanes[i].running <=> s.lanes[i].running)
                   /\ e.mutation = m /\ t.lanes[i].entries = Append(E, e)
        BY Zenon, <2>6 DEF Enters
    <3> DEFINE F == t.lanes[i].entries
    <3>2. Len(F) = n + 1 /\ F[n + 1] = e /\ \A k \in 1 .. n : F[k] = E[k]
      <4>1. F = Append(E, e)
          BY <3>1
      <4> HIDE DEF E, F
      <4> QED
          BY <2>2, <4>1
    <3> HIDE DEF E, F, n
    <3>3. ASSUME NEW k \in 1 .. Len(F)
          PROVE  \/ k \in 1 .. n /\ F[k] = E[k]
                 \/ k = n + 1 /\ F[k].mutation = m
        BY <2>2, <3>1, <3>2
    <3>4. Ascending(F)
      <4> SUFFICES ASSUME NEW k \in 1 .. Len(F), NEW l \in 1 .. Len(F), k < l
                   PROVE  F[k].mutation < F[l].mutation
          BY DEF Ascending
      <4>1. k \in 1 .. n /\ F[k] = E[k] /\ (l \in 1 .. n \/ l = n + 1)
          BY <2>2, <3>2, <3>3
      <4> QED
          BY <2>3, <2>4, <3>3, <4>1
    <3>5. \A k \in 1 .. Len(F) : t.items[F[k].mutation].id = i
        BY <2>4, <2>6, <3>3
    <3>6. ASSUME NEW k \in 1 .. Len(F)
          PROVE  t.items[F[k].mutation].attempt =
                    IF k = 1 /\ t.lanes[i].running THEN "running" ELSE "pending"
      <4>1. CASE k \in 1 .. n /\ F[k] = E[k]
          BY <2>4, <3>1, <4>1
      <4>2. CASE k = n + 1 /\ F[k].mutation = m
          BY <1>2, <2>2, <2>4, <3>1, <4>2
      <4> QED
          BY <3>3, <4>1, <4>2
    <3>7. ASSUME NEW x \in Sent(s), NEW k \in 1 .. Len(F), t.items[x].id = i PROVE x <= F[k].mutation
      <4>1. CASE k \in 1 .. n /\ F[k] = E[k]
          BY <2>4, <3>7, <4>1
      <4>2. CASE k = n + 1 /\ F[k].mutation = m
          BY <1>3, <4>2 DEF Mutation
      <4> QED
          BY <3>3, <4>1, <4>2
    <3>8. F # << >>
        BY <2>2, <3>2
    <3> QED
        BY <1>3, <3>1, <3>4, <3>5, <3>6, <3>7, <3>8 DEF LaneHolds, Ascending, F
  <2> QED
      BY <2>5, <2>6
<1>6. ASSUME NEW q \in Queue PROVE QueueHolds(t.queues[q], t.items, Sent(t), q)
  <2> DEFINE I == s.queues[q].items
             n == Len(I)
  <2>1. QueueHolds(s.queues[q], s.items, Sent(s), q) /\ s.queues[q] \in QueueRecord
      BY <1>1 DEF Holds
  <2>2. I \in Seq(Mutation) /\ n \in Nat /\ (I = << >> <=> n = 0)
      BY <2>1, LenProperties, EmptySeq DEF QueueRecord
  <2>3. \A k \in 1 .. n : /\ I[k] \in Mutation /\ I[k] < m
                          /\ t.items[I[k]] = s.items[I[k]]
    <3>1. \A k \in 1 .. n : I[k] \in Mutation /\ I[k] < m
        BY DEF OlderThan
    <3>2. \A k \in 1 .. n : I[k] # m
        BY <3>1 DEF Mutation
    <3> QED
        BY <1>2, <3>1, <3>2
  <2>4. I # << >> => 1 \in 1 .. n
      BY <2>2
  <2>5. /\ \A k, l \in 1 .. n : k < l => I[k] < I[l]
        /\ \A k \in 1 .. n : t.items[I[k]].queue = q
        /\ I # << >> => ~ t.items[I[1]].observed
        /\ \A x \in Mutation : x # m /\ t.items[x].queue = q /\ ~ t.items[x].observed =>
              /\ \E k \in 1 .. n : I[k] = x
              /\ t.items[x].ready => I[1] = x
        /\ s.queues[q].timer => I # << >>
        /\ s.queues[q].deciding => I # << >> /\ t.items[I[1]].phase = "deciding"
        /\ \A x \in Sent(s), k \in 1 .. n : t.items[x].queue = q => x <= I[k]
    <3>1. \A k \in 1 .. n : s.items[I[k]] = t.items[I[k]]
        BY <2>3
    <3>2. \A x \in Mutation : x # m => s.items[x] = t.items[x]
        BY <1>2
    <3> QED
        BY <1>4, <2>1, <2>4, <3>1, <3>2 DEF QueueHolds
  <2>6. CASE q # t.items[m].queue
    <3>1. t.queues[q] = s.queues[q]
        BY <2>6 DEF Enters
    <3>2. \A x \in Mutation : t.items[x].queue = q /\ ~ t.items[x].observed =>
              /\ \E k \in 1 .. n : I[k] = x
              /\ t.items[x].ready => I[1] = x
        BY <2>5, <2>6
    <3> QED
        BY <1>3, <2>5, <3>1, <3>2 DEF QueueHolds
  <2>7. CASE q = t.items[m].queue
    <3> DEFINE J == t.queues[q].items
    <3>1. J = Append(I, m) /\ (t.queues[q].deciding <=> s.queues[q].deciding)
        BY Zenon, <2>7 DEF Enters
    <3>2. Len(J) = n + 1 /\ J[n + 1] = m /\ \A k \in 1 .. n : J[k] = I[k]
      <4> HIDE DEF I, J
      <4> QED
          BY <2>2, <3>1
    <3> HIDE DEF I, J, n
    <3>3. J # << >> /\ (I # << >> => J[1] = I[1]) /\ (I = << >> => J[1] = m)
        BY <2>2, <2>4, <3>2
    <3>4. ASSUME NEW k \in 1 .. Len(J) PROVE (k \in 1 .. n /\ J[k] = I[k]) \/ (k = n + 1 /\ J[k] = m)
        BY <2>2, <3>2
    <3>5. ASSUME NEW k \in 1 .. Len(J), NEW l \in 1 .. Len(J), k < l PROVE J[k] < J[l]
      <4>1. k \in 1 .. n /\ J[k] = I[k] /\ (l \in 1 .. n \/ l = n + 1)
          BY <2>2, <3>2, <3>4, <3>5
      <4> QED
          BY <2>3, <2>5, <3>4, <3>5, <4>1
    <3>6. \A k \in 1 .. Len(J) : t.items[J[k]].queue = q
        BY <2>5, <2>7, <3>4
    <3>7. ~ t.items[J[1]].observed
        BY <1>2, <2>5, <3>3
    <3>8. ASSUME NEW x \in Mutation, t.items[x].queue = q, ~ t.items[x].observed
          PROVE  /\ \E k \in 1 .. Len(J) : J[k] = x
                 /\ t.items[x].ready => J[1] = x
      <4>1. CASE x = m
        <5>1. n + 1 \in 1 .. Len(J)
            BY <2>2, <3>2
        <5> QED
            BY <1>2, <3>2, <4>1, <5>1
      <4>2. CASE x # m
        <5>1. PICK k \in 1 .. n : I[k] = x
            BY <2>5, <3>8, <4>2
        <5>2. k \in 1 .. Len(J) /\ J[k] = x
            BY <2>2, <3>2, <5>1
        <5>3. I # << >>
            BY <2>2, <5>1
        <5>4. t.items[x].ready => I[1] = x
            BY <2>5, <3>8, <4>2
        <5> QED
            BY <3>3, <5>2, <5>3, <5>4
      <4> QED
          BY <4>1, <4>2
    <3>9. t.queues[q].deciding => t.items[J[1]].phase = "deciding"
        BY <2>5, <3>1, <3>3
    <3>10. ASSUME NEW x \in Sent(s), NEW k \in 1 .. Len(J), t.items[x].queue = q PROVE x <= J[k]
      <4>1. CASE k \in 1 .. n /\ J[k] = I[k]
          BY <2>5, <3>10, <4>1
      <4>2. CASE k = n + 1 /\ J[k] = m
          BY <1>3, <4>2 DEF Mutation
      <4> QED
          BY <3>4, <4>1, <4>2
    <3> QED
        BY <1>3, <3>3, <3>5, <3>6, <3>7, <3>8, <3>9, <3>10 DEF QueueHolds, J
  <2> QED
      BY <2>6, <2>7
<1>7. ASSUME NEW n \in Mutation PROVE ItemHolds(t.items[n], n, t.lanes, Sent(t))
  <2>1. CASE n = m
      BY <1>2, <1>3, <2>1 DEF ItemHolds
  <2>2. CASE n # m
    <3> DEFINE x == s.items[n]
    <3>1. ItemHolds(x, n, s.lanes, Sent(s)) /\ t.items[n] = x
        BY <1>2, <2>2 DEF Holds
    <3>2. ASSUME x.attempt = "running", x.id # NoEntity
          PROVE  /\ t.lanes[x.id].running <=> s.lanes[x.id].running
                 /\ t.lanes[x.id].entries[1] = s.lanes[x.id].entries[1]
      <4>1. x.id \in Id
          BY <1>1, <3>2 DEF Item
      <4>2. CASE x.id # t.items[m].id
          BY <4>1, <4>2 DEF Enters
      <4>3. CASE x.id = t.items[m].id
        <5> DEFINE E == s.lanes[x.id].entries
        <5>1. PICK e : /\ t.lanes[x.id].running <=> s.lanes[x.id].running
                       /\ t.lanes[x.id].entries = Append(E, e)
            BY Zenon, <4>1, <4>3 DEF Enters
        <5>2. E \in Seq(EntriesOf(Mutation)) /\ E # << >>
            BY <3>2, RunningIsHead
        <5>3. Len(E) \in Nat /\ 1 \in 1 .. Len(E)
            BY <5>2, LenProperties, EmptySeq
        <5> HIDE DEF E
        <5>4. Append(E, e)[1] = E[1]
            BY <5>2, <5>3
        <5> QED
            BY Zenon, <5>1, <5>4 DEF E
      <4> QED
          BY <4>2, <4>3
    <3> HIDE DEF x
    <3>3. ItemHolds(x, n, t.lanes, Sent(t))
        BY <1>3, <3>1, <3>2, ItemIsLeft
    <3> QED
        BY <3>1, <3>3
  <2> QED
      BY <2>1, <2>2
<1>8. InOrder(t.log, t.items)
  <2>1. \A k \in 1 .. Len(s.log) : t.items[s.log[k]] = s.items[s.log[k]]
      BY <1>4 DEF Sent
  <2>2. InOrder(s.log, s.items)
      BY DEF Holds
  <2> QED
      BY <1>2, <2>1, <2>2 DEF InOrder
<1> QED
    BY <1>1, <1>5, <1>6, <1>7, <1>8 DEF Holds

\* A mutation that joins its queue and its lane stops nothing there is; it may be stopped
\* itself, or be the head of its queue.
LEMMA EnterCovered ==
    ASSUME NEW s, Holds(s), NEW t, NEW m \in Mutation, OlderThan(s, m), Enters(s, t, m),
           Covered(s, {}, {}), NEW Q, t.items[m].queue \in Queue => t.items[m].queue \in Q,
           NEW B, t.items[m].queue = NoQueue => m \in B
    PROVE  Covered(t, Q, B)
<1> SUFFICES ASSUME NEW a \in Mutation, NEW p \in Mutation, a \notin B,
                    Ready(t, a), Stops(t, a, p)
             PROVE  /\ p <= t.queues[t.items[p].queue].flushThrough
                    /\ t.items[p].queue \in Q \/ Quiet(t, t.items[p].queue)
    BY DEF Covered
<1> DEFINE id == t.items[a].id
           q == s.items[p].queue
<1>1. /\ \A n \in Mutation : n # m => t.items[n] = s.items[n]
      /\ ~ t.items[m].ready
    BY DEF Enters
<1>2. a # m
    BY <1>1 DEF Ready
<1>3. t.items[a] = s.items[a] /\ a < m
  <2>1. t.items[a] = s.items[a]
      BY <1>1, <1>2
  <2>2. s.items[a].attempt # "none"
      BY <2>1 DEF Stops, Pending
  <2> QED
      BY <2>1, <2>2 DEF OlderThan
<1>4. p < m /\ p # m /\ t.items[p] = s.items[p]
  <2>1. p < a
      BY DEF Stops
  <2>2. p < m /\ p # m
      BY <1>3, <2>1 DEF Mutation
  <2> QED
      BY <1>1, <2>2
<1>5. ASSUME NEW n \in Mutation, n # m, Stands(t, id, n), id \in Id PROVE Stands(s, id, n)
  <2> DEFINE E == s.lanes[id].entries
  <2>1. CASE id # t.items[m].id
      BY <1>5, <2>1 DEF Enters, Stands
  <2>2. CASE id = t.items[m].id
    <3>1. PICK e : e.mutation = m /\ t.lanes[id].entries = Append(E, e)
        BY Zenon, <1>5, <2>2 DEF Enters
    <3>2. E \in Seq(EntriesOf(Mutation)) /\ Len(E) \in Nat
        BY <1>5, LaneEntries
    <3>3. PICK k \in 1 .. Len(Append(E, e)) : Append(E, e)[k].mutation = n
        BY Zenon, <1>5, <3>1 DEF Stands
    <3> HIDE DEF E
    <3>4. (k \in 1 .. Len(E) /\ Append(E, e)[k] = E[k]) \/ Append(E, e)[k] = e
        BY <3>2
    <3>5. \E l \in 1 .. Len(E) : E[l].mutation = n
        BY <1>5, <3>1, <3>3, <3>4
    <3> QED
        BY <3>5 DEF Stands, E
  <2> QED
      BY <2>1, <2>2
<1>6. Stops(s, a, p)
    BY <1>2, <1>3, <1>4, <1>5 DEF Stops, Pending, Ready
<1>7. p <= s.queues[q].flushThrough /\ Quiet(s, q)
    BY <1>3, <1>6 DEF Covered, Ready
<1>8. q \in Queue /\ s.queues[q].items[1] \in Mutation /\ s.queues[q].items[1] <= p
    BY <1>6, StopsInQueue
<1>9. s.queues[q].items[1] # m
    BY <1>4, <1>8 DEF Mutation
<1>10. t.items[p].queue = q
    BY <1>4
<1> HIDE DEF q
<1>11. p <= t.queues[q].flushThrough
    BY <1>7, <1>8 DEF Enters
<1>12. q \in Q \/ Quiet(t, q)
  <2>1. CASE q = t.items[m].queue
      BY <1>8, <2>1
  <2>2. CASE q # t.items[m].queue
    <3>1. t.queues[q] = s.queues[q]
        BY <1>8, <2>2 DEF Enters
    <3> QED
        BY <1>1, <1>7, <1>8, <1>9, <3>1 DEF Quiet
  <2> QED
      BY <2>1, <2>2
<1> QED
    BY <1>10, <1>11, <1>12

\* The mutation that is registered next is that one.
LEMMA NextIsNew ==
    ASSUME Holds(State), NEW n \in Nat, Registered(State, n), n < MaxCalls
    PROVE  NextItem = n + 1 /\ n + 1 \in Mutation /\ OlderThan(State, n + 1)
<1>1. State.items = items /\ items \in [Mutation -> Item] /\ MaxCalls \in Nat
  <2>1. State.items \in [Mutation -> Item]
      BY StateTypes DEF Holds
  <2> QED
      BY <2>1, MutationQueueAssumption DEF State
<1>2. ASSUME NEW m \in Mutation PROVE items[m] # NoItem <=> m <= n
  <2>1. items[m].attempt = "none" <=> items[m] = NoItem
      BY <1>1 DEF Holds, ItemHolds, NoItem
  <2> QED
      BY <1>1, <2>1 DEF Registered
<1>3. { m \in DOMAIN items : items[m] # NoItem } = 1 .. n
    BY <1>1, <1>2 DEF Mutation
<1>4. Cardinality(1 .. n) = n
    BY FS_Interval
<1>5. NextItem = n + 1 /\ n + 1 \in Mutation /\ n + 1 - 1 = n
  <2>1. NextItem = Cardinality(1 .. n) + 1
      BY <1>3 DEF NextItem
  <2>2. n + 1 \in Mutation /\ n + 1 - 1 = n
      BY <1>1 DEF Mutation
  <2> QED
      BY <1>4, <2>1, <2>2
<1> QED
    BY <1>5, NewIsLast

\* What is cancelled stays cancelled.
Stays(s, t) ==
    \A m \in Mutation : s.items[m].outcome = "cancelled" => t.items[m].outcome = "cancelled"

\* A step that keeps what is cancelled takes no cancellation back.
LEMMA KeepsStays ==
    ASSUME NEW s, Holds(s), NEW t, NEW b, Keeps(s, t, b),
           \A m \in b : s.items[m].outcome # "cancelled"
    PROVE  Stays(s, t)
<1>1. \A m \in Mutation : s.items[m].outcome = "cancelled" => s.items[m].attempt = "settled"
    BY DEF Holds, ItemHolds
<1> QED
    BY <1>1 DEF Keeps, ItemKept, Stays

\* registerMutation and registerCall.
LEMMA RegisterHolds ==
    ASSUME Holds(State), NEW n \in Nat, Registered(State, n), n < MaxCalls, calls \in Nat,
           NEW q \in Queue \union {NoQueue}, NEW method \in Methods,
           NEW id \in Id \union {NoEntity}, id # NoEntity => method # "call"
    PROVE  LET t == Register(q, id, method)
           IN  /\ Holds(t) /\ Registered(t, n + 1) /\ Stays(State, t)
               /\ Covered(State, {}, {}) => Covered(t, {}, {})
<1> DEFINE m == NextItem
           x == NewItem(q, id, method)
           s1 == [State EXCEPT !.items[m] = x]
           s2 == IF q = NoQueue THEN s1 ELSE [s1 EXCEPT !.queues[q].items = Append(@, m)]
           e == Entry(s2, m)
           s3 == IF id = NoEntity THEN s2
                 ELSE [s2 EXCEPT !.lanes[id] = Enqueue(Ensure(@, Answered), e)]
           t == IF q = NoQueue THEN Wake(s3, m) ELSE Arm(s3, q)
<1>1. Register(q, id, method) = t
    BY DEF Register
<1>2. m = n + 1 /\ m \in Mutation /\ OlderThan(State, m)
    BY NextIsNew
<1>3. /\ State \in States /\ State.items \in [Mutation -> Item] /\ State.lanes \in [Id -> Lanes]
      /\ State.queues \in [Queue -> QueueRecord]
    BY StateTypes DEF Holds
<1>4. /\ x \in Item /\ x.attempt = "pending" /\ x.phase = "none" /\ x.outcome = "none"
      /\ ~ x.observed /\ ~ x.ready /\ x.queue = q /\ x.id = id /\ x.method = method
  <2>1. method \in {"create", "patch", "remove", "call"} /\ {calls + 1} \in SUBSET Nat
      BY MutationQueueAssumption
  <2> QED
      BY <2>1 DEF NewItem, NoItem, Item
<1> HIDE DEF x, m
<1> DEFINE its == [State.items EXCEPT ![m] = x]
<1>5. its \in [Mutation -> Item] /\ its[m] = x /\ \A k \in Mutation : k # m => its[k] = State.items[k]
    BY <1>2, <1>3, <1>4
<1>6. /\ s1 \in States /\ s1.items = its /\ s1.lanes = State.lanes
      /\ s1.queues = State.queues /\ s1.log = State.log
  <2>1. s1 = [State EXCEPT !.items = its]
      BY <1>3 DEF States
  <2> HIDE DEF s1, its
  <2> QED
      BY <1>3, <1>5, <2>1 DEF States
<1> HIDE DEF s1, its
<1>7. /\ s2 \in States /\ s2.items = its /\ s2.lanes = State.lanes /\ s2.log = State.log
      /\ \A p \in Queue : p # q => s2.queues[p] = State.queues[p]
      /\ \A p \in Queue : p = q =>
            /\ s2.queues[p].items = Append(State.queues[p].items, m)
            /\ s2.queues[p].deciding <=> State.queues[p].deciding
            /\ s2.queues[p].flushThrough = State.queues[p].flushThrough
  <2>1. CASE q = NoQueue
    <3>1. s2 = s1 /\ q \notin Queue
        BY <2>1, MutationQueueAssumption
    <3> HIDE DEF s2
    <3> QED
        BY <1>6, <3>1
  <2>2. CASE q # NoQueue
    <3> DEFINE r == [State.queues[q] EXCEPT !.items = Append(State.queues[q].items, m)]
               qs == [State.queues EXCEPT ![q] = r]
    <3>1. q \in Queue /\ State.queues[q] \in QueueRecord /\ State.queues[q].items \in Seq(Mutation)
        BY <1>3, <2>2 DEF QueueRecord
    <3>2. Append(State.queues[q].items, m) \in Seq(Mutation)
        BY <1>2, <3>1, AppendProperties
    <3>3. /\ r \in QueueRecord /\ r.items = Append(State.queues[q].items, m)
          /\ r.deciding <=> State.queues[q].deciding
          /\ r.flushThrough = State.queues[q].flushThrough
      <4> DEFINE I == Append(State.queues[q].items, m)
      <4> HIDE DEF I
      <4>1. I \in Seq(Mutation)
          BY <3>2 DEF I
      <4>2. [State.queues[q] EXCEPT !.items = I] \in QueueRecord
            /\ [State.queues[q] EXCEPT !.items = I].items = I
            /\ ([State.queues[q] EXCEPT !.items = I].deciding <=> State.queues[q].deciding)
            /\ [State.queues[q] EXCEPT !.items = I].flushThrough = State.queues[q].flushThrough
          BY <3>1, <4>1 DEF QueueRecord
      <4> QED
          BY <4>2 DEF I
    <3>4. s2 = [s1 EXCEPT !.queues = qs]
        BY <1>6, <2>2 DEF States
    <3> HIDE DEF r
    <3>5. qs \in [Queue -> QueueRecord] /\ qs[q] = r /\ \A p \in Queue : p # q => qs[p] = State.queues[p]
        BY <1>3, <3>1, <3>3
    <3> HIDE DEF s2, qs
    <3>6. /\ s2 \in States /\ s2.items = its /\ s2.lanes = State.lanes /\ s2.log = State.log
          /\ s2.queues = qs
        BY <1>6, <3>4, <3>5 DEF States
    <3> QED
        BY <3>3, <3>5, <3>6
  <2> QED
      BY <2>1, <2>2
<1> HIDE DEF s2
<1>8. e.mutation = m /\ (id # NoEntity => e \in EntriesOf(Mutation))
  <2>1. s2.items[m].method = method
      BY <1>4, <1>5, <1>7
  <2>2. id # NoEntity => method \in {"create", "patch", "remove"}
      BY MutationQueueAssumption
  <2> QED
      BY <1>2, <2>1, <2>2 DEF Entry, EntriesOf
<1> HIDE DEF e
<1>9. /\ s3 \in States /\ s3.items = its /\ s3.queues = s2.queues /\ s3.log = State.log
      /\ \A i \in Id : i # id => s3.lanes[i] = State.lanes[i]
      /\ \A i \in Id : i = id =>
            /\ s3.lanes[i].open /\ (s3.lanes[i].running <=> State.lanes[i].running)
            /\ s3.lanes[i].entries = Append(State.lanes[i].entries, e)
  <2>1. CASE id = NoEntity
    <3>1. s3 = s2 /\ id \notin Id
        BY <2>1, MutationQueueAssumption
    <3> HIDE DEF s3
    <3> QED
        BY <1>7, <3>1
  <2>2. CASE id # NoEntity
    <3> DEFINE lane == State.lanes[id]
               L == Enqueue(Ensure(lane, Answered), e)
               ls == [State.lanes EXCEPT ![id] = L]
    <3>1. id \in Id /\ lane \in Lanes /\ LaneHolds(lane, State.items, Sent(State), id)
        BY <1>3, <2>2 DEF Holds
    <3>2. /\ L \in Lanes /\ L.open /\ (L.running <=> lane.running)
          /\ L.entries = Append(lane.entries, e)
        BY <1>8, <2>2, <3>1, LaneEnters
    <3>3. s3 = [s2 EXCEPT !.lanes = ls]
        BY <1>7, <2>2 DEF States
    <3> HIDE DEF L, s3
    <3>4. ls \in [Id -> Lanes] /\ ls[id] = L /\ \A i \in Id : i # id => ls[i] = State.lanes[i]
        BY <1>3, <3>1, <3>2
    <3> HIDE DEF ls
    <3>5. s3 \in States /\ s3.items = its /\ s3.queues = s2.queues /\ s3.log = State.log /\ s3.lanes = ls
        BY <1>7, <3>3, <3>4 DEF States
    <3> QED
        BY <3>2, <3>4, <3>5
  <2> QED
      BY <2>1, <2>2
<1> HIDE DEF s3
<1>10. Enters(State, s3, m)
  <2>1. s3.items[m].queue = q /\ s3.items[m].id = id
      BY <1>4, <1>5, <1>9
  <2>2. /\ s3 \in States /\ s3.log = State.log
        /\ \A k \in Mutation : k # m => s3.items[k] = State.items[k]
      BY <1>5, <1>9
  <2>3. /\ s3.items[m].attempt = "pending" /\ s3.items[m].phase = "none"
        /\ s3.items[m].outcome = "none" /\ ~ s3.items[m].observed /\ ~ s3.items[m].ready
      BY <1>4, <1>5, <1>9
  <2>4. /\ \A p \in Queue : p # q => s3.queues[p] = State.queues[p]
        /\ \A p \in Queue : p = q =>
              /\ s3.queues[p].items = Append(State.queues[p].items, m)
              /\ s3.queues[p].deciding <=> State.queues[p].deciding
              /\ s3.queues[p].flushThrough = State.queues[p].flushThrough
      BY <1>7, <1>9
  <2>5. \A i \in Id : i = id =>
            /\ s3.lanes[i].open /\ (s3.lanes[i].running <=> State.lanes[i].running)
            /\ \E d : d.mutation = m /\ s3.lanes[i].entries = Append(State.lanes[i].entries, d)
      BY <1>8, <1>9
  <2>6. \A i \in Id : i # id => s3.lanes[i] = State.lanes[i]
      BY <1>9
  <2> QED
      BY Zenon, <2>1, <2>2, <2>3, <2>4, <2>5, <2>6 DEF Enters
<1>11. Holds(s3)
    BY <1>2, <1>10, EnterHolds
<1>12. Registered(s3, n + 1)
  <2>1. ASSUME NEW k \in Mutation PROVE s3.items[k].attempt # "none" <=> k <= n + 1
    <3>1. CASE k = m
        BY <1>2, <1>4, <1>5, <1>9, <3>1 DEF Mutation
    <3>2. CASE k # m
        BY <1>2, <1>5, <1>9, <3>2 DEF Mutation, Registered
    <3> QED
        BY <3>1, <3>2
  <2> QED
      BY <2>1 DEF Registered
<1>13. Stays(State, s3)
  <2>1. State.items[m].outcome # "cancelled"
      BY <1>2 DEF OlderThan, NoItem
  <2> QED
      BY <1>5, <1>9, <2>1 DEF Stays
<1>18. q = NoQueue => MayWake(s3, m)
    BY <1>2, <1>4, <1>5, <1>9 DEF MayWake
<1>14. Holds(t) /\ Keeps(s3, t, {})
  <2>1. CASE q = NoQueue
      BY <1>11, <1>18, <2>1, WakeHolds
  <2>2. CASE q # NoQueue
      BY <1>11, <2>2, ArmHolds
  <2> QED
      BY <2>1, <2>2
<1>19. ASSUME Covered(State, {}, {}) PROVE Covered(t, {}, {})
  <2>1. s3.items[m].queue = q
      BY <1>4, <1>5, <1>9
  <2>2. CASE q = NoQueue
    <3>1. Covered(s3, {}, {m})
        BY <1>2, <1>10, <1>19, <2>1, <2>2, EnterCovered, MutationQueueAssumption
    <3>2. Covered(Wake(s3, m), {}, {})
        BY <1>11, <1>18, <2>2, <3>1, WakeCovered
    <3> QED
        BY <2>2, <3>2
  <2>3. CASE q # NoQueue
    <3>1. Covered(s3, {q}, {})
        BY <1>2, <1>10, <1>19, <2>1, <2>3, EnterCovered
    <3>2. Covered(Arm(s3, q), {}, {})
        BY <1>11, <2>3, <3>1, ArmCovered
    <3> QED
        BY <2>3, <3>2
  <2> QED
      BY <2>2, <2>3
<1> HIDE DEF t
<1>15. Registered(t, n + 1)
    BY <1>12, <1>14, KeepsRegistered
<1>16. Stays(s3, t)
    BY <1>11, <1>14, KeepsStays
<1>17. Stays(State, t)
    BY <1>13, <1>16 DEF Stays
<1> QED
    BY <1>1, <1>14, <1>15, <1>17, <1>19

-----------------------------------------------------------------------------
(* A queue hears of the end of a mutation.                                 *)

\* What a queue has heard the end of, up to a position, leaves from its front.
Hears(s, t, m, k) ==
    LET q == s.items[m].queue
        I == s.queues[q].items
    IN  /\ q \in Queue /\ k \in 1 .. Len(I) + 1
        /\ s.items[m].attempt = "settled"
        /\ \A i \in 1 .. k - 1 : I[i] = m \/ s.items[I[i]].observed
        /\ k \in 1 .. Len(I) => I[k] # m /\ ~ s.items[I[k]].observed
        /\ t \in States /\ t.lanes = s.lanes /\ t.log = s.log
        /\ t.items[m] = [s.items[m] EXCEPT !.observed = TRUE]
        /\ \A n \in Mutation : n # m => t.items[n] = s.items[n]
        /\ \A p \in Queue : p # q => t.queues[p] = s.queues[p]
        /\ Len(t.queues[q].items) = Len(I) - k + 1
        /\ \A i \in 1 .. Len(I) - k + 1 : t.queues[q].items[i] = I[k + i - 1]
        /\ t.queues[q].timer => t.queues[q].items # << >>
        /\ t.queues[q].deciding <=> s.queues[q].deciding
        /\ t.queues[q].items # << >> => t.queues[q].flushThrough = s.queues[q].flushThrough

\* The queue forgets what it has heard the end of: the invariant is kept.
LEMMA HearsHolds ==
    ASSUME NEW s, Holds(s), NEW t, NEW m \in Mutation, NEW k, Hears(s, t, m, k)
    PROVE  Holds(t) /\ Stays(s, t) /\ \A n \in Nat : Registered(s, n) => Registered(t, n)
<1> DEFINE q == s.items[m].queue
           I == s.queues[q].items
           J == t.queues[q].items
           N == Len(I)
<1>1. /\ s \in States /\ s.items \in [Mutation -> Item] /\ Sent(s) \subseteq Mutation
      /\ s.lanes \in [Id -> Lanes] /\ s.queues \in [Queue -> QueueRecord] /\ s.log \in Seq(Mutation)
      /\ t \in States /\ t.queues \in [Queue -> QueueRecord]
  <2>1. s \in States /\ t \in States
      BY Zenon DEF Holds, Hears
  <2> QED
      BY <2>1, StateTypes
<1>2. /\ q \in Queue /\ k \in 1 .. N + 1 /\ s.items[m].attempt = "settled"
      /\ \A i \in 1 .. k - 1 : I[i] = m \/ s.items[I[i]].observed
      /\ k \in 1 .. N => I[k] # m /\ ~ s.items[I[k]].observed
    BY Zenon DEF Hears
<1>3. /\ t.lanes = s.lanes /\ t.log = s.log
      /\ t.items[m] = [s.items[m] EXCEPT !.observed = TRUE]
      /\ \A n \in Mutation : n # m => t.items[n] = s.items[n]
      /\ \A p \in Queue : p # q => t.queues[p] = s.queues[p]
    BY Zenon DEF Hears
<1>4. /\ Len(J) = N - k + 1 /\ \A i \in 1 .. N - k + 1 : J[i] = I[k + i - 1]
      /\ t.queues[q].timer => J # << >>
      /\ t.queues[q].deciding <=> s.queues[q].deciding
    BY Zenon DEF Hears
<1>5. /\ I \in Seq(Mutation) /\ J \in Seq(Mutation) /\ N \in Nat
      /\ \A i \in 1 .. N : I[i] \in Mutation
      /\ J = << >> <=> Len(J) = 0
  <2>1. I \in Seq(Mutation) /\ J \in Seq(Mutation)
      BY Zenon, <1>1, <1>2 DEF QueueRecord
  <2> HIDE DEF I, J
  <2> QED
      BY <2>1, ElementOfSeq, LenProperties, EmptySeq
<1>6. /\ t.items[m].observed /\ t.items[m].queue = q /\ t.items[m].id = s.items[m].id
      /\ t.items[m].attempt = "settled" /\ t.items[m].phase = s.items[m].phase
      /\ t.items[m].outcome = s.items[m].outcome /\ t.items[m].ready = s.items[m].ready
      /\ t.items[m].sent = s.items[m].sent /\ t.items[m].calls = s.items[m].calls
      /\ s.items[m] \in Item
  <2>1. s.items[m] \in Item
      BY <1>1
  <2> QED
      BY Zenon, <1>2, <1>3, <2>1 DEF Item
<1>7. \A n \in Mutation : /\ t.items[n].queue = s.items[n].queue /\ t.items[n].id = s.items[n].id
                          /\ t.items[n].attempt = s.items[n].attempt
                          /\ t.items[n].phase = s.items[n].phase
                          /\ t.items[n].outcome = s.items[n].outcome
                          /\ t.items[n].ready = s.items[n].ready
                          /\ t.items[n].observed <=> (s.items[n].observed \/ n = m)
  <2> SUFFICES ASSUME NEW n \in Mutation
               PROVE  /\ t.items[n].queue = s.items[n].queue /\ t.items[n].id = s.items[n].id
                      /\ t.items[n].attempt = s.items[n].attempt
                      /\ t.items[n].phase = s.items[n].phase
                      /\ t.items[n].outcome = s.items[n].outcome
                      /\ t.items[n].ready = s.items[n].ready
                      /\ t.items[n].observed <=> (s.items[n].observed \/ n = m)
      OBVIOUS
  <2>1. CASE n = m
      BY Zenon, <1>2, <1>6, <2>1
  <2>2. CASE n # m
      BY <1>3, <2>2
  <2> QED
      BY <2>1, <2>2
<1>8. Sent(t) = Sent(s)
    BY <1>3 DEF Sent
<1>9. ASSUME NEW i \in Id PROVE LaneHolds(t.lanes[i], t.items, Sent(t), i)
  <2>1. LaneHolds(s.lanes[i], s.items, Sent(s), i) /\ s.lanes[i] \in Lanes
      BY <1>1 DEF Holds
  <2>2. LaneHolds(s.lanes[i], t.items, Sent(s), i)
      BY <1>1, <1>7, <2>1, LaneIsLeft
  <2> QED
      BY <1>3, <1>8, <2>2
<1> HIDE DEF q, I, J, N
<1>10. QueueHolds(s.queues[q], s.items, Sent(s), q)
    BY <1>2 DEF Holds
<1>11. ASSUME NEW p \in Queue, p # q PROVE QueueHolds(t.queues[p], t.items, Sent(t), p)
  <2>1. QueueHolds(s.queues[p], s.items, Sent(s), p) /\ s.queues[p] \in QueueRecord
      BY <1>1 DEF Holds
  <2>2. s.items[m].queue # p
      BY <1>11 DEF q
  <2>3. \A n \in Mutation : s.items[n].queue = p => (t.items[n].observed <=> s.items[n].observed)
      BY <1>7, <2>2
  <2>4. s.queues[p].timer => s.queues[p].items # << >>
      BY <2>1 DEF QueueHolds
  <2>5. s.queues[p].deciding =>
           s.queues[p].items # << >> /\ t.items[s.queues[p].items[1]].phase = "deciding"
    <3> SUFFICES ASSUME s.queues[p].deciding
                 PROVE  s.queues[p].items # << >> /\ t.items[s.queues[p].items[1]].phase = "deciding"
        OBVIOUS
    <3>1. s.queues[p].items # << >> /\ s.items[s.queues[p].items[1]].phase = "deciding"
        BY <2>1 DEF QueueHolds
    <3>2. s.queues[p].items \in Seq(Mutation)
        BY <2>1 DEF QueueRecord
    <3>3. s.queues[p].items[1] \in Mutation
        BY <3>1, <3>2, EmptySeq, LenProperties, ElementOfSeq
    <3> QED
        BY <1>7, <3>1, <3>3
  <2>6. QueueHolds(s.queues[p], t.items, Sent(s), p)
      BY <1>1, <1>7, <2>1, <2>3, <2>4, <2>5, QueueIsLeft
  <2> QED
      BY <1>3, <1>8, <1>11, <2>6
<1>12. QueueHolds(t.queues[q], t.items, Sent(t), q)
  <2>1. /\ \A i, j \in 1 .. N : i < j => I[i] < I[j]
        /\ \A i \in 1 .. N : s.items[I[i]].queue = q
        /\ s.queues[q].deciding => I # << >> /\ s.items[I[1]].phase = "deciding"
        /\ \A x \in Sent(s), i \in 1 .. N : s.items[x].queue = q => x <= I[i]
        /\ \A n \in Mutation : s.items[n].queue = q /\ ~ s.items[n].observed =>
              /\ \E i \in 1 .. N : I[i] = n
              /\ s.items[n].ready => I[1] = n
      BY <1>10 DEF QueueHolds, I, N
  <2>2. \A i \in 1 .. Len(J) : k + i - 1 \in 1 .. N /\ k + i - 1 \in Nat /\ J[i] = I[k + i - 1]
      BY <1>2, <1>4, <1>5
  <2>3. ASSUME NEW i \in 1 .. Len(J), NEW j \in 1 .. Len(J), i < j PROVE J[i] < J[j]
    <3>1. k + i - 1 < k + j - 1
        BY <1>2, <1>5, <2>3
    <3> QED
        BY <2>1, <2>2, <3>1
  <2>4. \A i \in 1 .. Len(J) : J[i] \in Mutation /\ t.items[J[i]].queue = q
    <3> SUFFICES ASSUME NEW i \in 1 .. Len(J) PROVE J[i] \in Mutation /\ t.items[J[i]].queue = q
        OBVIOUS
    <3> DEFINE j == k + i - 1
    <3>1. j \in 1 .. N /\ J[i] = I[j]
        BY <2>2
    <3> HIDE DEF j
    <3>2. I[j] \in Mutation /\ s.items[I[j]].queue = q
        BY <1>5, <2>1, <3>1
    <3> QED
        BY <1>7, <3>1, <3>2
  <2>5. J # << >> => k \in 1 .. N /\ J[1] = I[k]
    <3> SUFFICES ASSUME J # << >> PROVE k \in 1 .. N /\ J[1] = I[k]
        OBVIOUS
    <3>1. Len(J) # 0 /\ Len(J) = N - k + 1
        BY <1>4, <1>5
    <3>2. k \in 1 .. N /\ 1 \in 1 .. Len(J) /\ k + 1 - 1 = k
        BY <1>2, <1>5, <3>1
    <3>3. J[1] = I[k + 1 - 1]
        BY <2>2, <3>2
    <3> QED
        BY <3>2, <3>3
  <2>6. J # << >> => ~ t.items[J[1]].observed
      BY <1>2, <1>5, <1>7, <2>5
  <2>7. \A i \in 1 .. N : ~ t.items[I[i]].observed => i >= k
    <3> SUFFICES ASSUME NEW i \in 1 .. N, i < k PROVE t.items[I[i]].observed
        BY <1>2, <1>5
    <3>1. i \in 1 .. k - 1
        BY <1>2, <1>5
    <3> QED
        BY <1>2, <1>5, <1>7, <3>1
  <2>8. I # << >> /\ ~ t.items[I[1]].observed => J # << >> /\ J[1] = I[1]
    <3> SUFFICES ASSUME I # << >>, ~ t.items[I[1]].observed PROVE J # << >> /\ J[1] = I[1]
        OBVIOUS
    <3>1. N # 0
        BY <1>5, EmptySeq DEF N
    <3>2. 1 \in 1 .. N
        BY <1>5, <3>1
    <3>3. k = 1
        BY <1>2, <1>5, <2>7, <3>2
    <3>4. Len(J) # 0
        BY <1>4, <1>5, <3>1, <3>3
    <3> QED
        BY <1>5, <2>5, <3>3, <3>4
  <2>9. ASSUME NEW n \in Mutation, t.items[n].queue = q, ~ t.items[n].observed
        PROVE  /\ \E i \in 1 .. Len(J) : J[i] = n
               /\ t.items[n].ready => J[1] = n
    <3>1. s.items[n].queue = q /\ ~ s.items[n].observed /\ s.items[n].ready = t.items[n].ready
        BY <1>7, <2>9
    <3>2. PICK i \in 1 .. N : I[i] = n
        BY <2>1, <3>1
    <3>3. i >= k
        BY <2>7, <2>9, <3>2
    <3>4. i - k + 1 \in 1 .. Len(J) /\ k + (i - k + 1) - 1 = i
        BY <1>2, <1>4, <1>5, <3>3
    <3>5. J[i - k + 1] = n
        BY <2>2, <3>2, <3>4
    <3>6. I # << >>
        BY <1>5, EmptySeq DEF N
    <3>7. t.items[n].ready => J[1] = n
        BY <2>1, <2>8, <2>9, <3>1, <3>6
    <3> QED
        BY <3>4, <3>5, <3>7
  <2>10. t.queues[q].deciding => J # << >> /\ t.items[J[1]].phase = "deciding"
    <3> SUFFICES ASSUME t.queues[q].deciding PROVE J # << >> /\ t.items[J[1]].phase = "deciding"
        OBVIOUS
    <3>1. I # << >> /\ s.items[I[1]].phase = "deciding"
        BY <1>4, <2>1
    <3>2. I[1] \in Mutation
      <4>1. 1 \in 1 .. N
          BY <1>5, <3>1, EmptySeq DEF N
      <4> QED
          BY <1>5, <4>1
    <3>3. s.items[I[1]].attempt = "running"
        BY <3>1, <3>2 DEF Holds, ItemHolds
    <3>4. ~ s.items[I[1]].observed /\ I[1] # m
        BY <1>2, <3>2, <3>3 DEF Holds, ItemHolds
    <3> QED
        BY <1>7, <2>8, <3>1, <3>2, <3>4
  <2>11. \A x \in Sent(s), i \in 1 .. Len(J) : t.items[x].queue = q => x <= J[i]
      BY <1>1, <1>7, <2>1, <2>2
  <2>12. t.queues[q].timer => J # << >>
      BY <1>4
  <2> QED
      BY <1>8, <2>3, <2>4, <2>6, <2>9, <2>10, <2>11, <2>12 DEF QueueHolds, J
<1>13. ASSUME NEW n \in Mutation PROVE ItemHolds(t.items[n], n, t.lanes, Sent(t))
  <2>1. ItemHolds(s.items[n], n, s.lanes, Sent(s))
      BY DEF Holds
  <2>2. CASE n = m
      BY <1>2, <1>3, <1>6, <1>8, <2>1, <2>2 DEF ItemHolds
  <2>3. CASE n # m
      BY <1>3, <1>8, <2>1, <2>3
  <2> QED
      BY <2>2, <2>3
<1>14. InOrder(t.log, t.items)
  <2>1. \A i \in 1 .. Len(s.log) : s.log[i] \in Mutation
      BY <1>1, ElementOfSeq
  <2>2. \A i, j \in 1 .. Len(s.log) :
           Related(t.items[s.log[i]], t.items[s.log[j]]) <=> Related(s.items[s.log[i]], s.items[s.log[j]])
      BY <1>7, <2>1 DEF Related
  <2>3. InOrder(s.log, s.items)
      BY DEF Holds
  <2> QED
      BY <1>3, <2>2, <2>3 DEF InOrder
<1>15. Holds(t)
    BY <1>1, <1>9, <1>11, <1>12, <1>13, <1>14 DEF Holds
<1>16. Stays(s, t)
    BY <1>7 DEF Stays
<1>17. \A n \in Nat : Registered(s, n) => Registered(t, n)
    BY <1>7 DEF Registered
<1> QED
    BY <1>15, <1>16, <1>17

\* Nothing begins to wait when a queue hears of an end; its next head may not be due yet.
LEMMA HearsCovered ==
    ASSUME NEW s, Holds(s), NEW t, NEW m \in Mutation, NEW k, Hears(s, t, m, k),
           Covered(s, {}, {})
    PROVE  Covered(t, {s.items[m].queue}, {})
<1> DEFINE q == s.items[m].queue
<1> SUFFICES ASSUME NEW a \in Mutation, NEW p \in Mutation, Ready(t, a), Stops(t, a, p)
             PROVE  /\ p <= t.queues[t.items[p].queue].flushThrough
                    /\ t.items[p].queue = q \/ Quiet(t, t.items[p].queue)
    BY DEF Covered
<1>1. \A n \in Mutation : /\ t.items[n].queue = s.items[n].queue /\ t.items[n].id = s.items[n].id
                          /\ t.items[n].attempt = s.items[n].attempt
                          /\ t.items[n].ready <=> s.items[n].ready
  <2>1. s.items[m] \in Item
      BY StateTypes DEF Holds
  <2>2. t.items[m] = [s.items[m] EXCEPT !.observed = TRUE]
        /\ \A n \in Mutation : n # m => t.items[n] = s.items[n]
      BY Zenon DEF Hears
  <2>3. /\ t.items[m].queue = s.items[m].queue /\ t.items[m].id = s.items[m].id
        /\ t.items[m].attempt = s.items[m].attempt
        /\ t.items[m].ready <=> s.items[m].ready
      BY <2>1, <2>2 DEF Item
  <2> QED
      BY Zenon, <2>2, <2>3
<1>2. t.lanes = s.lanes
    BY Zenon DEF Hears
<1>3. Stops(s, a, p) /\ Ready(s, a)
    BY Zenon, <1>1, <1>2 DEF Stops, Ready, Pending, Stands
<1> DEFINE w == s.items[p].queue
<1>4. p <= s.queues[w].flushThrough /\ Quiet(s, w)
    BY <1>3 DEF Covered
<1>5. w \in Queue /\ s.queues[w].items[1] \in Mutation
    BY <1>3, StopsInQueue
<1>6. t.items[p].queue = w
    BY <1>1
<1>7. t.queues[w].items # << >>
  <2>1. Holds(t)
      BY HearsHolds
  <2> QED
      BY <1>6, <2>1, StopsInQueue
<1> HIDE DEF w
<1>8. CASE w = q
  <2>1. t.queues[w].flushThrough = s.queues[w].flushThrough
      BY Zenon, <1>7, <1>8 DEF Hears
  <2> QED
      BY <1>4, <1>6, <1>8, <2>1
<1>9. CASE w # q
  <2>1. t.queues[w] = s.queues[w]
      BY Zenon, <1>5, <1>9 DEF Hears
  <2> QED
      BY <1>1, <1>4, <1>5, <1>6, <2>1 DEF Quiet
<1> QED
    BY <1>8, <1>9

\* #settled hears of the end of a mutation.
LEMMA HeardDoes ==
    ASSUME Holds(State), NEW m \in Mutation, Unobserved(m)
    PROVE  \E k : Hears(State, Heard(m), m, k)
<1> DEFINE s == State
           q == s.items[m].queue
           I == s.queues[q].items
           N == Len(I)
           x == [s.items[m] EXCEPT !.observed = TRUE]
           its == [s.items EXCEPT ![m] = x]
           seen == [s EXCEPT !.items[m].observed = TRUE]
           left == { i \in 1 .. N : ~ seen.items[I[i]].observed }
           open == SelectInSeq(I, LAMBDA n : ~ seen.items[n].observed)
           none == [s.queues[q] EXCEPT !.items = << >>, !.flushThrough = 0, !.timer = FALSE,
                                       !.status = "idle"]
           rest == SubSeq(I, open, N)
           some == [s.queues[q] EXCEPT !.items = rest]
           k == IF open = 0 THEN N + 1 ELSE open
           r == IF open = 0 THEN none ELSE some
           qs == [s.queues EXCEPT ![q] = r]
           t == Heard(m)
<1>1. /\ s \in States /\ s.items \in [Mutation -> Item] /\ s.queues \in [Queue -> QueueRecord]
      /\ s.items[m] \in Item
    BY StateTypes DEF Holds
<1>2. s.items = items /\ s.queues = queues
    BY DEF State
<1>3. /\ q \in Queue /\ s.queues[q] \in QueueRecord /\ I \in Seq(Mutation) /\ N \in Nat
      /\ QueueHolds(s.queues[q], s.items, Sent(s), q)
      /\ s.items[m].attempt = "settled" /\ ~ s.items[m].observed
  <2>1. s.items[m].queue # NoQueue /\ s.items[m].outcome # "none" /\ ~ s.items[m].observed
      BY <1>2 DEF Unobserved
  <2>2. q \in Queue
      BY <1>1, <2>1 DEF Item
  <2>3. s.queues[q] \in QueueRecord
      BY <1>1, <2>2
  <2>4. I \in Seq(Mutation)
      BY <2>3 DEF QueueRecord
  <2>5. N \in Nat
      BY <2>4, LenProperties
  <2> QED
      BY <2>1, <2>2, <2>3, <2>4, <2>5 DEF Holds, ItemHolds
<1>4. /\ x \in Item
      /\ its \in [Mutation -> Item] /\ its[m] = x
      /\ \A n \in Mutation : n # m => its[n] = s.items[n]
  <2>1. x \in Item
      BY <1>1 DEF Item
  <2> HIDE DEF x
  <2> QED
      BY <1>1, <2>1
<1>5. seen = [s EXCEPT !.items = its]
    BY <1>1 DEF States
<1>6. t = IF open = 0
          THEN [seen EXCEPT !.queues[q] = [@ EXCEPT !.items = << >>, !.flushThrough = 0,
                                                    !.timer = FALSE, !.status = "idle"]]
          ELSE [seen EXCEPT !.queues[q].items = SubSeq(@, open, Len(@))]
    BY <1>2 DEF Heard
<1>7. open = IF left # {} THEN Min(left) ELSE 0
    BY DEF SelectInSeq
<1> HIDE DEF open, t, its, x, I, N
<1>8. /\ seen \in States /\ seen.items = its /\ seen.queues = s.queues
      /\ seen.lanes = s.lanes /\ seen.log = s.log
  <2> HIDE DEF seen
  <2> QED
      BY <1>1, <1>4, <1>5 DEF States
<1> HIDE DEF seen
<1>9. \A n \in Mutation : seen.items[n].observed <=> (s.items[n].observed \/ n = m)
  <2>1. x.observed
      BY <1>1 DEF x, Item
  <2> QED
      BY <1>4, <1>8, <2>1
<1>10. \A i \in 1 .. N : I[i] \in Mutation
    BY <1>3, ElementOfSeq DEF N
<1>11. left \subseteq Nat /\ (left # {} => open \in left /\ \A i \in left : open <= i)
  <2>1. left \subseteq Nat
      BY <1>3
  <2> HIDE DEF left
  <2> QED
      BY <1>7, <2>1, MinIsMinimum
<1>12. open = 0 <=> left = {}
    BY <1>3, <1>7, <1>11
<1>13. k \in 1 .. N + 1 /\ \A i \in 1 .. k - 1 : I[i] = m \/ s.items[I[i]].observed
  <2>1. CASE open = 0
    <3>1. \A i \in 1 .. N : seen.items[I[i]].observed
        BY <1>12, <2>1
    <3>2. k = N + 1 /\ k - 1 = N /\ k \in 1 .. N + 1
        BY <1>3, <2>1
    <3> HIDE DEF k
    <3> QED
        BY <1>9, <1>10, <3>1, <3>2
  <2>2. CASE open # 0
    <3>1. open \in 1 .. N /\ \A i \in left : open <= i
        BY <1>11, <1>12, <2>2
    <3>2. ASSUME NEW i \in 1 .. open - 1 PROVE I[i] = m \/ s.items[I[i]].observed
      <4>1. i \in 1 .. N /\ ~ (open <= i)
          BY <1>3, <3>1
      <4>2. seen.items[I[i]].observed
          BY <3>1, <4>1
      <4> QED
          BY <1>9, <1>10, <4>1, <4>2
    <3> QED
        BY <1>3, <2>2, <3>1, <3>2
  <2> QED
      BY <2>1, <2>2
<1>14. k \in 1 .. N => I[k] # m /\ ~ s.items[I[k]].observed
  <2> SUFFICES ASSUME k \in 1 .. N PROVE I[k] # m /\ ~ s.items[I[k]].observed
      OBVIOUS
  <2>1. open # 0
      BY <1>3
  <2>2. k = open /\ open \in left
      BY <1>11, <1>12, <2>1
  <2>3. ~ seen.items[I[k]].observed
      BY <2>2
  <2> HIDE DEF k
  <2> QED
      BY <1>9, <1>10, <2>3
<1>15. /\ r \in QueueRecord /\ Len(r.items) = N - k + 1
       /\ \A i \in 1 .. N - k + 1 : r.items[i] = I[k + i - 1]
       /\ r.timer => r.items # << >>
       /\ r.deciding <=> s.queues[q].deciding
       /\ r.items # << >> => r.flushThrough = s.queues[q].flushThrough
  <2>1. CASE open = 0
    <3>1. /\ r \in QueueRecord /\ r.items = << >> /\ ~ r.timer
          /\ r.deciding <=> s.queues[q].deciding
      <4>1. r = none
          BY <2>1
      <4>2. << >> \in Seq(Mutation) /\ "idle" \in Statuses /\ 0 \in Nat
          BY EmptySeq DEF Statuses
      <4> HIDE DEF q, r
      <4>3. none \in QueueRecord /\ none.items = << >> /\ ~ none.timer
            /\ (none.deciding <=> s.queues[q].deciding)
          BY <1>3, <4>2 DEF QueueRecord
      <4> QED
          BY <4>1, <4>3
    <3>2. N - k + 1 = 0
        BY <1>3, <2>1
    <3> HIDE DEF r, k
    <3> QED
        BY <3>1, <3>2
  <2>2. CASE open # 0
    <3>1. open \in 1 .. N /\ k = open
        BY <1>11, <1>12, <2>2
    <3>2. /\ rest \in Seq(Mutation) /\ Len(rest) = N - open + 1
          /\ \A i \in 1 .. N - open + 1 : rest[i] = I[open + i - 1]
      <4>1. open \in Int /\ N \in Int /\ open <= N /\ \A i \in open .. N : I[i] \in Mutation
          BY <1>3, <1>10, <3>1
      <4>2. /\ rest \in Seq(Mutation) /\ Len(rest) = IF open <= N THEN N - open + 1 ELSE 0
            /\ \A i \in 1 .. N - open + 1 : rest[i] = I[open + i - 1]
          BY ONLY <4>1, SubSeqProperties
      <4> QED
          BY <4>1, <4>2
    <3> HIDE DEF rest, k
    <3>3. /\ some \in QueueRecord /\ some.items = rest /\ (some.deciding <=> s.queues[q].deciding)
          /\ some.flushThrough = s.queues[q].flushThrough
        BY <1>3, <3>2 DEF QueueRecord
    <3>4. rest # << >>
        BY <1>3, <3>1, <3>2
    <3>5. r = some
        BY <2>2
    <3> HIDE DEF some, r
    <3> QED
        BY <3>1, <3>2, <3>3, <3>4, <3>5
  <2> QED
      BY <2>1, <2>2
<1>16. t = [seen EXCEPT !.queues = qs]
  <2>1. CASE open = 0
      BY <1>6, <1>8, <2>1 DEF States
  <2>2. CASE open # 0
    <3>1. t = [seen EXCEPT !.queues =
                  [s.queues EXCEPT ![q] =
                      [s.queues[q] EXCEPT !.items = SubSeq(@, open, Len(@))]]]
        BY <1>6, <1>8, <2>2 DEF States
    <3>2. [s.queues[q] EXCEPT !.items = SubSeq(@, open, Len(@))] = some
        BY <1>3 DEF QueueRecord, N, I
    <3> QED
        BY Zenon, <2>2, <3>1, <3>2
  <2> QED
      BY <2>1, <2>2
<1> HIDE DEF r, k
<1>17. qs \in [Queue -> QueueRecord] /\ qs[q] = r /\ \A p \in Queue : p # q => qs[p] = s.queues[p]
    BY <1>1, <1>3, <1>15
<1> HIDE DEF qs
<1>18. t \in States /\ t.items = its /\ t.queues = qs /\ t.lanes = s.lanes /\ t.log = s.log
    BY <1>8, <1>16, <1>17 DEF States
<1>19. Hears(s, t, m, k)
    BY Zenon, <1>3, <1>4, <1>13, <1>14, <1>15, <1>17, <1>18 DEF Hears, I, N, x
<1> QED
    BY <1>19 DEF t

-----------------------------------------------------------------------------
(* The steps of the specification.                                         *)

\* What is registered, and what is cancelled, stays so.
Goes(s, t) == Stays(s, t) /\ \A n \in Nat : Registered(s, n) => Registered(t, n)

\* A step that leaves the mutations alone goes on.
LEMMA SameGoes ==
    ASSUME NEW s, NEW t, t.items = s.items
    PROVE  Goes(s, t)
BY DEF Goes, Stays, Registered

\* What is kept goes on.
LEMMA KeepsGoes ==
    ASSUME NEW s, Holds(s), NEW t, NEW b, Keeps(s, t, b),
           \A m \in b : m \in Mutation /\ s.items[m].attempt # "settled"
    PROVE  Goes(s, t)
<1>1. \A m \in b : s.items[m].outcome # "cancelled"
    BY DEF Holds, ItemHolds
<1>2. Stays(s, t)
    BY <1>1, KeepsStays
<1>3. \A n \in Nat : Registered(s, n) => Registered(t, n)
    BY KeepsRegistered
<1> QED
    BY <1>2, <1>3 DEF Goes

\* Steps that go on follow one another.
LEMMA GoesOn ==
    ASSUME NEW s, NEW t, NEW u, Goes(s, t), Goes(t, u)
    PROVE  Goes(s, u)
BY DEF Goes, Stays

\* The inductive invariant.
Inv ==
    /\ Holds(State)
    /\ calls \in Nat
    /\ \E n \in 0 .. calls : Registered(State, n)
    /\ Covered(State, {}, {})
    /\ \A m \in discarded : m \in Mutation /\ items[m].outcome = "cancelled"

\* The next state is the record the operations end with.
LEMMA StateBecomes ==
    ASSUME NEW t, t \in States, Become(t)
    PROVE  State' = t
BY DEF Become, State, States

\* What is discarded has been cancelled.
Discards(t) ==
    \A m \in discarded' :
        m \in discarded \/ (m \in Mutation /\ t.items[m].outcome = "cancelled")

\* A step that ends in a good record keeps the inductive invariant.
LEMMA Steps ==
    ASSUME Inv, NEW t, Become(t), Holds(t), Stays(State, t), Covered(t, {}, {}), calls' \in Nat,
           \E n \in 0 .. calls' : Registered(t, n), Discards(t)
    PROVE  Inv'
<1>1. State' = t /\ items' = t.items
    BY StateBecomes DEF Holds, Become
<1>2. Holds(State') /\ Covered(State', {}, {})
    BY <1>1
<1>3. \E n \in 0 .. calls' : Registered(State', n)
    BY <1>1
<1>4. ASSUME NEW m \in discarded' PROVE m \in Mutation /\ items'[m].outcome = "cancelled"
  <2>1. State.items = items
      BY DEF State
  <2> QED
      BY <1>1, <1>4, <2>1 DEF Discards, Inv, Stays
<1> QED
    BY <1>2, <1>3, <1>4 DEF Inv

\* So does one that registers nothing.
LEMMA Proceeds ==
    ASSUME Inv, NEW t, Become(t), Holds(t), Goes(State, t), Covered(t, {}, {}),
           UNCHANGED calls, Discards(t)
    PROVE  Inv'
<1>1. calls \in Nat /\ calls' = calls
    BY DEF Inv
<1>2. PICK n \in 0 .. calls : Registered(State, n)
    BY DEF Inv
<1>3. Registered(t, n) /\ n \in 0 .. calls'
    BY <1>1, <1>2 DEF Goes
<1> QED
    BY <1>1, <1>3, Steps DEF Goes

\* The variables, as the operations see them.
LEMMA InvHolds ==
    ASSUME Inv
    PROVE  /\ Holds(State) /\ State.items = items /\ State.queues = queues
           /\ State.lanes = lanes /\ State.log = log /\ DOMAIN items = Mutation
           /\ Covered(State, {}, {})
<1>1. /\ Holds(State) /\ State.items = items /\ State.queues = queues
      /\ State.lanes = lanes /\ State.log = log /\ Covered(State, {}, {})
    BY DEF Inv, State
<1>2. State.items \in [Mutation -> Item]
    BY <1>1, StateTypes DEF Holds
<1> QED
    BY <1>1, <1>2

\* The inductive invariant holds at first.
LEMMA InitInv ==
    ASSUME Init
    PROVE  Inv
<1>1. /\ State.lanes = [id \in Id |-> NoLane] /\ State.items = [m \in Mutation |-> NoItem]
      /\ State.queues = [q \in Queue |-> EmptyQueue] /\ State.log = << >>
    BY DEF Init, State, Mutation
<1>2. NoLane \in Lanes
    BY AbsentTyped, EmptySeq DEF NoLane, Lanes, Lane
<1>3. NoItem \in Item
    BY DEF NoItem, Item
<1>4. EmptyQueue \in QueueRecord
    BY EmptySeq DEF EmptyQueue, QueueRecord, Statuses
<1>5. State \in States
  <2>1. << >> \in Seq(Mutation)
      BY EmptySeq
  <2>2. State = [lanes |-> State.lanes, items |-> State.items, queues |-> State.queues,
                 log |-> State.log]
      BY DEF State
  <2> QED
      BY <1>1, <1>2, <1>3, <1>4, <2>1, <2>2 DEF States
<1>6. Sent(State) = {}
    BY <1>1 DEF Sent
<1>7. ASSUME NEW id \in Id PROVE LaneHolds(State.lanes[id], State.items, Sent(State), id)
    BY <1>1, <1>6 DEF LaneHolds, NoLane
<1>8. ASSUME NEW q \in Queue PROVE QueueHolds(State.queues[q], State.items, Sent(State), q)
    BY <1>1, <1>6, MutationQueueAssumption DEF QueueHolds, EmptyQueue, NoItem
<1>9. ASSUME NEW m \in Mutation PROVE ItemHolds(State.items[m], m, State.lanes, Sent(State))
    BY <1>1, <1>6 DEF ItemHolds, NoItem
<1>10. InOrder(State.log, State.items)
    BY <1>1 DEF InOrder
<1>11. Holds(State)
    BY <1>5, <1>7, <1>8, <1>9, <1>10 DEF Holds
<1>12. Registered(State, 0)
    BY <1>1 DEF Registered, NoItem, Mutation
<1>13. Covered(State, {}, {})
    BY <1>1 DEF Covered, Stops, Pending, NoItem
<1> QED
    BY <1>11, <1>12, <1>13 DEF Inv, Init

\* #enqueueMutation and #enqueueCall: a call coalesces, or is registered.
LEMMA EnqueuedInv ==
    ASSUME Inv, NEW q \in Queue, NEW method \in Methods, NEW id \in Subjects(method),
           Enqueued(q, id, method)
    PROVE  Inv'
<1> DEFINE I == queues[q].items
           m == Last(I)
           x == State.items[m]
           y == [x EXCEPT !.calls = x.calls \union {calls + 1}]
           s == [State EXCEPT !.items[m] = y]
<1>1. /\ Holds(State) /\ State.items = items /\ State.queues = queues
      /\ calls \in Nat /\ calls < MaxCalls /\ calls' = calls + 1 /\ MaxCalls \in Nat
      /\ discarded' = discarded /\ Covered(State, {}, {})
    BY InvHolds, MutationQueueAssumption DEF Inv, Enqueued
<1>2. PICK n \in 0 .. calls : Registered(State, n)
    BY DEF Inv
<1>3. CASE Coalesces(State, q, id, method)
  <2>1. I # << >> /\ Pending(State, m)
      BY <1>1, <1>3 DEF Coalesces
  <2>2. Become(Arm(s, q))
    <3>1. Become(Arm([State EXCEPT !.items[m].calls = @ \union {calls + 1}], q))
        BY <1>3 DEF Enqueued
    <3>2. [State EXCEPT !.items[m].calls = @ \union {calls + 1}] = s
        BY DEF State
    <3> QED
        BY <3>1, <3>2
  <2>3. m \in Mutation
    <3>1. I \in Seq(Mutation)
        BY <1>1, StateTypes DEF Holds, QueueRecord
    <3>2. Len(I) \in 1 .. Len(I)
        BY <2>1, <3>1, EmptySeq, LenProperties
    <3> HIDE DEF I
    <3> QED
        BY <3>1, <3>2, ElementOfSeq DEF Last
  <2> HIDE DEF m
  <2>4. x \in Item /\ x.attempt = "pending" /\ ItemHolds(x, m, State.lanes, Sent(State))
      BY <1>1, <2>1, <2>3, StateTypes DEF Holds, Pending
  <2> HIDE DEF x
  <2>5. y \in Item /\ y.phase = x.phase /\ Alike(x, y)
    <3>1. x.calls \union {calls + 1} \in SUBSET Nat
        BY <1>1, <2>4 DEF Item
    <3> DEFINE all == x.calls \union {calls + 1}
    <3> HIDE DEF all
    <3>2. all \in SUBSET Nat
        BY <3>1 DEF all
    <3> DEFINE z == [x EXCEPT !.calls = all]
    <3>3. /\ z \in Item /\ z.phase = x.phase /\ z.queue = x.queue /\ z.id = x.id
          /\ z.attempt = x.attempt /\ z.outcome = x.outcome
          /\ (x.ready <=> z.ready) /\ (x.observed <=> z.observed)
        BY <2>4, <3>2 DEF Item
    <3> HIDE DEF z
    <3>4. Alike(x, z)
        BY <2>4, <3>3 DEF Alike, ItemHolds
    <3> QED
        BY <3>3, <3>4 DEF z, all
  <2> HIDE DEF y
  <2>6. Holds(s) /\ Keeps(State, s, {m}) /\ Shrinks(State, s)
      BY <1>1, <2>3, <2>5, ItemChanges DEF x
  <2> HIDE DEF s
  <2>7. Holds(Arm(s, q)) /\ Keeps(s, Arm(s, q), {})
      BY <2>6, ArmHolds
  <2>8. Goes(State, s) /\ Goes(s, Arm(s, q))
      BY <1>1, <2>3, <2>4, <2>6, <2>7, KeepsGoes DEF x
  <2>9. Goes(State, Arm(s, q))
      BY <2>8, GoesOn
  <2>10. Registered(Arm(s, q), n) /\ n \in 0 .. calls' /\ calls' \in Nat
      BY <1>1, <1>2, <2>9 DEF Goes
  <2>11. Covered(Arm(s, q), {}, {})
    <3>1. Covered(s, {}, {})
        BY <1>1, <2>6, CoveredShrinks
    <3>2. Covered(s, {q}, {})
        BY <3>1 DEF Covered
    <3> QED
        BY <2>6, <3>2, ArmCovered
  <2> QED
      BY <1>1, <2>2, <2>7, <2>9, <2>10, <2>11, Steps DEF Discards, Goes
<1>4. CASE ~ Coalesces(State, q, id, method)
  <2>1. Become(Register(q, id, method))
      BY <1>4 DEF Enqueued
  <2>2. id \in Id \union {NoEntity} /\ (id # NoEntity => method # "call")
      BY DEF Subjects
  <2>3. n \in Nat /\ n < MaxCalls /\ n + 1 \in 0 .. calls' /\ calls' \in Nat
      BY <1>1
  <2>4. LET t == Register(q, id, method)
        IN  Holds(t) /\ Registered(t, n + 1) /\ Stays(State, t) /\ Covered(t, {}, {})
      BY <1>1, <1>2, <2>2, <2>3, RegisterHolds
  <2> QED
      BY <1>1, <2>1, <2>3, <2>4, Steps DEF Discards
<1> QED
    BY <1>3, <1>4

\* A mutation made outside of any queue.
LEMMA DirectCallInv ==
    ASSUME Inv, NEW method \in Direct, NEW id \in Id, DirectCall(id, method)
    PROVE  Inv'
<1>1. /\ Holds(State) /\ calls \in Nat /\ calls < MaxCalls /\ calls' = calls + 1
      /\ MaxCalls \in Nat /\ discarded' = discarded /\ Become(Register(NoQueue, id, method))
      /\ Covered(State, {}, {})
    BY InvHolds, MutationQueueAssumption DEF Inv, DirectCall
<1>2. PICK n \in 0 .. calls : Registered(State, n)
    BY DEF Inv
<1>3. method \in Methods /\ method # "call" /\ id # NoEntity
    BY MutationQueueAssumption
<1>4. n \in Nat /\ n < MaxCalls /\ n + 1 \in 0 .. calls' /\ calls' \in Nat
    BY <1>1
<1>5. LET t == Register(NoQueue, id, method)
      IN  Holds(t) /\ Registered(t, n + 1) /\ Stays(State, t) /\ Covered(t, {}, {})
    BY <1>1, <1>2, <1>3, <1>4, RegisterHolds
<1> QED
    BY <1>1, <1>4, <1>5, Steps DEF Discards

\* flush().
LEMMA FlushInv ==
    ASSUME Inv, NEW q \in Queue, Flush(q)
    PROVE  Inv'
<1> DEFINE t == Flushed(State, q)
<1>1. Become(t) /\ UNCHANGED calls /\ discarded' = discarded
    BY DEF Flush
<1>2. Holds(State) /\ Holds(t) /\ Keeps(State, t, {}) /\ Covered(t, {}, {})
    BY InvHolds, FlushedHolds
<1> HIDE DEF t
<1>3. Goes(State, t)
    BY <1>2, KeepsGoes
<1> QED
    BY <1>1, <1>2, <1>3, Proceeds DEF Discards

\* The head of a queue that pauses is under way; the pause may end.
LEMMA PauseEnds ==
    ASSUME NEW s, Holds(s), NEW q \in Queue, s.queues[q].deciding
    PROVE  LET t == [s EXCEPT !.queues[q].deciding = FALSE]
               m == Head(s.queues[q].items)
           IN  /\ Holds(t) /\ t.items = s.items /\ ~ t.queues[q].deciding
               /\ \A p \in Queue : t.queues[p].items = s.queues[p].items
               /\ m \in Mutation /\ s.items[m].queue = q /\ s.items[m].attempt = "running"
               /\ IsHead(s, m) /\ IsHead(t, m) /\ Shrinks(s, t)
<1> DEFINE m == Head(s.queues[q].items)
           r == [s.queues[q] EXCEPT !.deciding = FALSE]
           t == [s EXCEPT !.queues[q] = r]
<1>1. /\ s.queues[q] \in QueueRecord /\ QueueHolds(s.queues[q], s.items, Sent(s), q)
      /\ s \in States /\ s.queues \in [Queue -> QueueRecord]
    BY StateTypes DEF Holds
<1>2. s.queues[q].items # << >> /\ s.items[s.queues[q].items[1]].phase = "deciding"
      /\ (s.queues[q].timer => s.queues[q].items # << >>)
    BY <1>1 DEF QueueHolds
<1>3. m = s.queues[q].items[1] /\ m \in Mutation /\ s.items[m].queue = q
  <2>1. MayWake(s, m) /\ m = s.queues[q].items[1] /\ s.items[m].queue = q
      BY <1>2, HeadMayWake
  <2> HIDE DEF m
  <2> QED
      BY <2>1 DEF MayWake
<1> HIDE DEF m
<1>4. s.items[m].attempt = "running"
    BY <1>2, <1>3 DEF Holds, ItemHolds
<1>5. /\ r \in QueueRecord /\ r.items = s.queues[q].items /\ ~ r.deciding
      /\ r.timer <=> s.queues[q].timer
      /\ r.flushThrough = s.queues[q].flushThrough
    BY <1>1 DEF QueueRecord
<1>6. [s EXCEPT !.queues[q].deciding = FALSE] = t
    BY DEF States
<1> HIDE DEF r
<1>7. /\ Holds(t) /\ t.items = s.items /\ t.lanes = s.lanes
      /\ t.queues[q] = r /\ \A p \in Queue : p # q => t.queues[p] = s.queues[p]
    BY <1>2, <1>5, QueueChanges
<1> HIDE DEF t
<1>8. IsHead(s, m) /\ IsHead(t, m)
  <2>1. t.queues[q].items = s.queues[q].items
      BY <1>5, <1>7
  <2>2. IsHead(s, m)
      BY <1>2, <1>3 DEF IsHead
  <2> QED
      BY Zenon, <1>3, <1>7, <2>1, <2>2 DEF IsHead
<1>9. Shrinks(s, t)
    BY <1>5, <1>7, QueueShrinks
<1> QED
    BY <1>3, <1>4, <1>5, <1>6, <1>7, <1>8, <1>9 DEF m

\* retry() of a pause.
LEMMA RetryInv ==
    ASSUME Inv, NEW q \in Queue, Retry(q)
    PROVE  Inv'
<1> DEFINE s == [State EXCEPT !.queues[q].deciding = FALSE]
           m == Head(State.queues[q].items)
           t == Again(s, m)
<1>1. Holds(State) /\ State.queues = queues /\ Covered(State, {}, {})
    BY InvHolds
<1>2. State.queues[q].deciding /\ Become(t) /\ UNCHANGED calls /\ discarded' = discarded
    BY <1>1 DEF Retry
<1>3. /\ Holds(s) /\ Shrinks(State, s) /\ s.items = State.items /\ ~ s.queues[q].deciding
      /\ m \in Mutation /\ State.items[m].queue = q /\ State.items[m].attempt = "running"
    BY <1>1, <1>2, PauseEnds
<1> HIDE DEF s, m
<1>4. Holds(t) /\ Keeps(s, t, {m}) /\ Shrinks(s, t)
    BY <1>3, AgainHolds
<1> HIDE DEF t
<1>5. Goes(State, s) /\ Goes(s, t)
    BY <1>3, <1>4, SameGoes, KeepsGoes
<1>6. Goes(State, t)
    BY <1>5, GoesOn
<1>7. Covered(t, {}, {})
    BY <1>1, <1>3, <1>4, CoveredShrinks
<1> QED
    BY <1>2, <1>4, <1>6, <1>7, Proceeds DEF Discards

\* A failure that is final discards all that waits behind it.
LEMMA GiveUpGoes ==
    ASSUME NEW s, Holds(s), NEW m, IsHead(s, m), s.items[m].attempt = "running",
           ~ s.queues[s.items[m].queue].deciding
    PROVE  /\ Holds(GiveUp(s, m)) /\ Goes(s, GiveUp(s, m)) /\ Shrinks(s, GiveUp(s, m))
           /\ \A n \in Behind(s, m) :
                 n \in Mutation /\ (Pending(s, n) => GiveUp(s, m).items[n].outcome = "cancelled")
<1>1. /\ Holds(GiveUp(s, m)) /\ Keeps(s, GiveUp(s, m), {m}) /\ Shrinks(s, GiveUp(s, m))
      /\ \A n \in Behind(s, m) :
            n \in Mutation /\ (Pending(s, n) => GiveUp(s, m).items[n].outcome = "cancelled")
    BY GiveUpHolds
<1>2. Goes(s, GiveUp(s, m))
    BY <1>1, KeepsGoes DEF IsHead
<1> QED
    BY <1>1, <1>2

\* discard() of a pause.
LEMMA DiscardInv ==
    ASSUME Inv, NEW q \in Queue, Discard(q)
    PROVE  Inv'
<1> DEFINE s == [State EXCEPT !.queues[q].deciding = FALSE]
           m == Head(State.queues[q].items)
           t == GiveUp(s, m)
<1>1. Holds(State) /\ State.queues = queues /\ Covered(State, {}, {})
    BY InvHolds
<1>2. /\ State.queues[q].deciding /\ Become(t) /\ UNCHANGED calls
      /\ discarded' = discarded \union { n \in Behind(State, m) : Pending(State, n) }
    BY <1>1 DEF Discard
<1>3. /\ Holds(s) /\ s.items = State.items /\ ~ s.queues[q].deciding
      /\ \A p \in Queue : s.queues[p].items = State.queues[p].items
      /\ m \in Mutation /\ State.items[m].queue = q /\ State.items[m].attempt = "running"
      /\ IsHead(s, m) /\ Shrinks(State, s)
    BY <1>1, <1>2, PauseEnds
<1> HIDE DEF s, m
<1>4. /\ Holds(t) /\ Goes(s, t) /\ Shrinks(s, t)
      /\ \A n \in Behind(s, m) : n \in Mutation /\ (Pending(s, n) => t.items[n].outcome = "cancelled")
    BY <1>3, GiveUpGoes
<1> HIDE DEF t
<1>5. Behind(s, m) = Behind(State, m) /\ \A n \in Mutation : Pending(s, n) <=> Pending(State, n)
    BY <1>3 DEF Behind, Pending
<1>6. Discards(t)
    BY <1>2, <1>4, <1>5 DEF Discards
<1>7. Goes(State, t)
    BY <1>3, <1>4, SameGoes, GoesOn
<1>8. Covered(t, {}, {})
    BY <1>1, <1>3, <1>4, CoveredShrinks
<1> QED
    BY <1>2, <1>4, <1>6, <1>7, <1>8, Proceeds

\* What waits for the delay of a retry is the head of its queue.
LEMMA RetryingIsHead ==
    ASSUME NEW s, Holds(s), NEW q \in Queue, NEW m, m \in Retrying(s, q)
    PROVE  /\ m \in Mutation /\ s.items[m].queue = q /\ s.items[m].attempt = "running"
           /\ IsHead(s, m) /\ ~ s.queues[q].deciding
           /\ \A n \in Retrying(s, q) : n = m
<1> DEFINE I == s.queues[q].items
<1>1. ASSUME NEW n \in Retrying(s, q)
      PROVE  n \in Mutation /\ s.items[n].queue = q /\ s.items[n].phase = "retrying"
  <2>1. I \in Seq(Mutation) /\ QueueHolds(s.queues[q], s.items, Sent(s), q)
      BY StateTypes DEF Holds, QueueRecord
  <2>2. PICK k \in DOMAIN I : n = I[k]
      BY DEF Retrying, ToSet
  <2>3. k \in 1 .. Len(I) /\ I[k] \in Mutation
      BY <2>1, ElementOfSeq, LenProperties
  <2>4. s.items[I[k]].queue = q
      BY <2>1, <2>3 DEF QueueHolds
  <2>5. s.items[n].phase = "retrying"
      BY DEF Retrying
  <2> QED
      BY <2>2, <2>3, <2>4, <2>5
<1>2. ASSUME NEW n \in Retrying(s, q)
      PROVE  IsHead(s, n) /\ s.items[n].attempt = "running" /\ ~ s.queues[q].deciding
  <2>1. n \in Mutation /\ s.items[n].queue = q /\ s.items[n].phase = "retrying"
      BY <1>1
  <2>2. s.items[n].queue # NoQueue
      BY <2>1, MutationQueueAssumption
  <2> QED
      BY <2>1, <2>2, RunningHeads
<1>3. \A n \in Retrying(s, q) : n = m
    BY <1>1, <1>2 DEF IsHead
<1> QED
    BY <1>1, <1>2, <1>3

\* detach(): a pause or a wait for a retry ends in a discard.
LEMMA DetachInv ==
    ASSUME Inv, NEW q \in Queue, Detach(q)
    PROVE  Inv'
<1> DEFINE s == [State EXCEPT !.queues[q].detached = TRUE]
           r == [State.queues[q] EXCEPT !.detached = TRUE]
           ends == IF State.queues[q].deciding THEN {Head(State.queues[q].items)}
                   ELSE Retrying(State, q)
           left == IF State.queues[q].deciding THEN [s EXCEPT !.queues[q].deciding = FALSE]
                   ELSE Flushed(s, q)
           t == IF ends = {} THEN left ELSE GiveUp(left, CHOOSE m \in ends : TRUE)
<1>1. Holds(State) /\ State.queues = queues /\ Covered(State, {}, {})
    BY InvHolds
<1>2. /\ Become(t) /\ UNCHANGED calls
      /\ discarded' = discarded \union
            { n \in UNION { Behind(State, m) : m \in ends } : Pending(State, n) }
    BY <1>1 DEF Detach
<1>3. /\ Holds(s) /\ s.items = State.items /\ Shrinks(State, s)
      /\ \A p \in Queue : s.queues[p].items = State.queues[p].items
      /\ s.queues[q].deciding <=> State.queues[q].deciding
  <2>1. /\ State.queues[q] \in QueueRecord /\ QueueHolds(State.queues[q], State.items, Sent(State), q)
        /\ State \in States
      BY <1>1, StateTypes DEF Holds
  <2>2. /\ r \in QueueRecord /\ r.items = State.queues[q].items
        /\ r.deciding <=> State.queues[q].deciding
        /\ r.timer <=> State.queues[q].timer
        /\ r.flushThrough = State.queues[q].flushThrough
      BY <2>1 DEF QueueRecord
  <2>3. State.queues[q].timer => State.queues[q].items # << >>
      BY <2>1 DEF QueueHolds
  <2>4. s = [State EXCEPT !.queues[q] = r]
      BY <2>1 DEF States
  <2> HIDE DEF r, s
  <2>5. /\ Holds(s) /\ s.items = State.items /\ s.lanes = State.lanes
        /\ s.queues[q] = r /\ \A p \in Queue : p # q => s.queues[p] = State.queues[p]
      BY <1>1, <2>2, <2>3, <2>4, QueueChanges
  <2>6. Shrinks(State, s)
      BY <2>2, <2>5, QueueShrinks
  <2> QED
      BY <2>2, <2>5, <2>6
<1> HIDE DEF s
<1>4. Goes(State, s) /\ Covered(s, {}, {})
    BY <1>1, <1>3, SameGoes, CoveredShrinks
<1>5. CASE State.queues[q].deciding
  <2> DEFINE m == Head(s.queues[q].items)
  <2>1. /\ Holds(left) /\ left.items = s.items /\ ~ left.queues[q].deciding
        /\ \A p \in Queue : left.queues[p].items = s.queues[p].items
        /\ m \in Mutation /\ s.items[m].queue = q /\ s.items[m].attempt = "running"
        /\ IsHead(left, m) /\ Shrinks(s, left)
      BY <1>3, <1>5, PauseEnds
  <2>2. m = Head(State.queues[q].items)
      BY <1>3
  <2> HIDE DEF m, left
  <2>3. ends = {m}
      BY <1>5, <2>2
  <2>4. t = GiveUp(left, m)
      BY <2>3
  <2> HIDE DEF t, ends
  <2>5. /\ Holds(t) /\ Goes(left, t) /\ Shrinks(left, t)
        /\ \A n \in Behind(left, m) :
              n \in Mutation /\ (Pending(left, n) => t.items[n].outcome = "cancelled")
      BY <2>1, <2>4, GiveUpGoes
  <2>6. Behind(left, m) = Behind(State, m)
        /\ \A n \in Mutation : Pending(left, n) <=> Pending(State, n)
      BY <1>3, <2>1 DEF Behind, Pending
  <2>7. Discards(t)
    <3>1. { n \in UNION { Behind(State, k) : k \in ends } : Pending(State, n) }
          = { n \in Behind(State, m) : Pending(State, n) }
        BY <2>3
    <3> QED
        BY <1>2, <2>5, <2>6, <3>1 DEF Discards
  <2>8. Goes(State, t)
      BY <1>4, <2>1, <2>5, SameGoes, GoesOn
  <2>9. Covered(t, {}, {})
      BY <1>3, <1>4, <2>1, <2>5, CoveredShrinks
  <2> QED
      BY <1>2, <2>5, <2>7, <2>8, <2>9, Proceeds
<1>6. CASE ~ State.queues[q].deciding
  <2>1. Holds(left) /\ Keeps(s, left, {}) /\ Covered(left, {}, {})
      BY <1>3, <1>4, <1>6, FlushedHolds
  <2> HIDE DEF left
  <2>2. Goes(s, left) /\ Goes(State, left)
      BY <1>3, <1>4, <2>1, KeepsGoes, GoesOn
  <2>3. ends = Retrying(State, q)
      BY <1>6
  <2>4. CASE ends = {}
    <3>1. t = left /\ discarded' = discarded
        BY <1>2, <2>4
    <3> QED
        BY <1>2, <2>1, <2>2, <3>1, Proceeds DEF Discards
  <2>5. CASE ends # {}
    <3> DEFINE m == CHOOSE n \in ends : TRUE
    <3>1. m \in Retrying(State, q) /\ t = GiveUp(left, m)
        BY <2>3, <2>5
    <3> HIDE DEF m, t
    <3>2. /\ m \in Mutation /\ State.items[m].queue = q /\ State.items[m].attempt = "running"
          /\ IsHead(State, m) /\ \A n \in Retrying(State, q) : n = m
        BY <1>1, <3>1, RetryingIsHead
    <3> HIDE DEF ends
    <3>3. ends = {m}
        BY <2>3, <3>1, <3>2
    <3>4. IsHead(s, m)
        BY <1>3, <3>2 DEF IsHead
    <3>5. /\ left.items[m].queue = q /\ left.items[m].attempt = "running"
          /\ left.queues[q].items = s.queues[q].items /\ ~ left.queues[q].deciding
      <4>1. ItemKept(s.items[m], left.items[m]) /\ QueueKept(s.queues[q], left.queues[q])
          BY <2>1, <3>2 DEF Keeps
      <4> QED
          BY <1>3, <1>6, <3>2, <4>1 DEF ItemKept, QueueKept
    <3>6. IsHead(left, m)
        BY <3>4, <3>5, <1>3, <3>2 DEF IsHead
    <3>7. /\ Holds(t) /\ Goes(left, t) /\ Shrinks(left, t)
          /\ \A n \in Behind(left, m) :
                n \in Mutation /\ (Pending(left, n) => t.items[n].outcome = "cancelled")
        BY <2>1, <3>1, <3>5, <3>6, GiveUpGoes
    <3>8. Behind(left, m) = Behind(State, m) /\ Behind(s, m) = Behind(State, m)
        BY <1>3, <3>2, <3>5 DEF Behind
    <3>9. ASSUME NEW n \in Behind(State, m), Pending(State, n)
          PROVE  n \in Mutation /\ t.items[n].outcome = "cancelled"
      <4>1. n \in Mutation
          BY <3>7, <3>8
      <4>2. Pending(s, n)
          BY <1>3, <3>9 DEF Pending
      <4>3. Pending(left, n) \/ left.items[n].outcome = "cancelled"
          BY <1>3, <2>1, <3>4, <3>8, <4>2, BehindWaits
      <4>4. left.items[n].outcome = "cancelled" => t.items[n].outcome = "cancelled"
          BY <3>7, <4>1 DEF Goes, Stays
      <4> QED
          BY <3>7, <3>8, <4>1, <4>3, <4>4
    <3>10. Discards(t)
      <4>1. { n \in UNION { Behind(State, k) : k \in ends } : Pending(State, n) }
            = { n \in Behind(State, m) : Pending(State, n) }
          BY <3>3
      <4> QED
          BY <1>2, <3>9, <4>1 DEF Discards
    <3>11. Goes(State, t)
        BY <2>2, <3>7, GoesOn
    <3>12. Covered(t, {}, {})
        BY <2>1, <3>7, CoveredShrinks
    <3> QED
        BY <1>2, <3>7, <3>10, <3>11, <3>12, Proceeds
  <2> QED
      BY <2>4, <2>5
<1> QED
    BY <1>5, <1>6

\* A mutation that is asked for is under way, and its queue does not pause.
LEMMA AskedRuns ==
    ASSUME NEW s, Holds(s), NEW m \in Mutation, s.items[m].phase \in {"asked", "retrying"}
    PROVE  /\ s.items[m].attempt = "running"
           /\ s.items[m].queue = NoQueue \/ ~ s.queues[s.items[m].queue].deciding
           /\ s.items[m].queue # NoQueue => IsHead(s, m)
<1>1. s.items[m].attempt = "running"
    BY DEF Holds, ItemHolds
<1> QED
    BY <1>1, RunningHeads

\* The server acknowledges a mutation.
LEMMA SucceedInv ==
    ASSUME Inv, NEW m \in Mutation, Succeed(m)
    PROVE  Inv'
<1> DEFINE t == Settlement(State, m, TRUE)
<1>1. /\ Holds(State) /\ State.items[m].phase = "asked" /\ Become(t)
      /\ UNCHANGED calls /\ discarded' = discarded /\ Covered(State, {}, {})
    BY InvHolds DEF Succeed
<1>2. /\ State.items[m].attempt = "running"
      /\ State.items[m].queue = NoQueue \/ ~ State.queues[State.items[m].queue].deciding
    BY <1>1, AskedRuns
<1>3. Holds(t) /\ Keeps(State, t, {m}) /\ Shrinks(State, t)
    BY <1>1, <1>2, SettlementHolds
<1> HIDE DEF t
<1>4. Goes(State, t)
    BY <1>1, <1>2, <1>3, KeepsGoes
<1>5. Covered(t, {}, {})
    BY <1>1, <1>3, CoveredShrinks
<1> QED
    BY <1>1, <1>3, <1>4, <1>5, Proceeds DEF Discards

\* onAttemptFailure.
LEMMA FailInv ==
    ASSUME Inv, NEW m \in Mutation, Fail(m)
    PROVE  Inv'
<1> DEFINE q == State.items[m].queue
           x == State.items[m]
<1>1. /\ Holds(State) /\ x.phase = "asked" /\ UNCHANGED calls
      /\ State.items = items /\ State.queues = queues /\ Covered(State, {}, {})
    BY InvHolds DEF Fail
<1>2. /\ x.attempt = "running" /\ (q = NoQueue \/ ~ State.queues[q].deciding)
      /\ q # NoQueue => IsHead(State, m)
    BY <1>1, AskedRuns
<1>3. x \in Item
    BY <1>1, StateTypes DEF Holds
<1>4. CASE q = NoQueue /\ Become(Settlement(State, m, FALSE)) /\ UNCHANGED discarded
  <2> DEFINE t == Settlement(State, m, FALSE)
  <2>1. Holds(t) /\ Keeps(State, t, {m}) /\ Shrinks(State, t)
      BY <1>1, <1>2, SettlementHolds
  <2> HIDE DEF t
  <2>2. Goes(State, t)
      BY <1>1, <1>2, <2>1, KeepsGoes
  <2>3. Become(t) /\ Discards(t)
      BY <1>4 DEF t, Discards
  <2>4. Covered(t, {}, {})
      BY <1>1, <2>1, CoveredShrinks
  <2> QED
      BY <1>1, <2>1, <2>2, <2>3, <2>4, Proceeds
<1>5. CASE /\ q # NoQueue /\ Become(GiveUp(State, m))
           /\ discarded' = discarded \union { n \in Behind(State, m) : Pending(State, n) }
  <2> DEFINE t == GiveUp(State, m)
  <2>1. /\ Holds(t) /\ Goes(State, t) /\ Shrinks(State, t)
        /\ \A n \in Behind(State, m) :
              n \in Mutation /\ (Pending(State, n) => t.items[n].outcome = "cancelled")
      BY <1>1, <1>2, <1>5, GiveUpGoes
  <2> HIDE DEF t
  <2>2. Become(t) /\ Discards(t)
      BY <1>5, <2>1 DEF t, Discards
  <2>3. Covered(t, {}, {})
      BY <1>1, <2>1, CoveredShrinks
  <2> QED
      BY <1>1, <2>1, <2>2, <2>3, Proceeds
<1>6. ASSUME NEW status \in {"retrying", "deciding"}, q # NoQueue
      PROVE  LET s == [State EXCEPT !.items[m].phase = status]
             IN  /\ Holds(s) /\ Goes(State, s) /\ s.queues = State.queues /\ Shrinks(State, s)
                 /\ s.items[m].phase = status /\ s.items[m].queue = q
  <2> DEFINE y == [x EXCEPT !.phase = status]
             s == [State EXCEPT !.items[m] = y]
  <2>1. [State EXCEPT !.items[m].phase = status] = s
      BY DEF State
  <2>2. x.outcome = "none" /\ x.sent = x.calls
      BY <1>1, <1>2 DEF Holds, ItemHolds
  <2>3. y \in Item /\ Alike(x, y) /\ y.phase = status /\ y.queue = x.queue
      BY <1>2, <1>3, <1>6, <2>2 DEF Item, Alike
  <2> HIDE DEF y
  <2>4. /\ Holds(s) /\ Keeps(State, s, {m}) /\ s.queues = State.queues /\ s.items[m] = y
        /\ Shrinks(State, s)
      BY <1>1, <1>2, <2>3, ItemChanges
  <2> HIDE DEF s
  <2>5. Goes(State, s)
      BY <1>1, <1>2, <2>4, KeepsGoes
  <2> QED
      BY <2>1, <2>3, <2>4, <2>5
<1>7. CASE /\ q # NoQueue /\ UNCHANGED discarded
           /\ Become(Say([State EXCEPT !.items[m].phase = "retrying"], m, "retrying"))
  <2> DEFINE s == [State EXCEPT !.items[m].phase = "retrying"]
             t == Say(s, m, "retrying")
  <2>1. Holds(s) /\ Goes(State, s) /\ Shrinks(State, s)
      BY <1>6, <1>7
  <2> HIDE DEF s
  <2>2. Holds(t) /\ t.items = s.items /\ Shrinks(s, t)
      BY <2>1, SayHolds DEF Statuses
  <2> HIDE DEF t
  <2>3. Goes(State, t)
      BY <2>1, <2>2, SameGoes, GoesOn
  <2>4. Become(t) /\ Discards(t)
      BY <1>7 DEF t, s, Discards
  <2>5. Covered(t, {}, {})
      BY <1>1, <2>1, <2>2, CoveredShrinks
  <2> QED
      BY <1>1, <2>2, <2>3, <2>4, <2>5, Proceeds
<1>8. CASE /\ q # NoQueue /\ UNCHANGED discarded
           /\ Become(Say([State EXCEPT !.items[m].phase = "deciding",
                                       !.queues[q].deciding = TRUE], m, "failed"))
  <2> DEFINE s == [State EXCEPT !.items[m].phase = "deciding"]
             r == [s.queues[q] EXCEPT !.deciding = TRUE]
             u == [s EXCEPT !.queues[q] = r]
             t == Say(u, m, "failed")
  <2>1. /\ Holds(s) /\ Goes(State, s) /\ s.queues = State.queues /\ Shrinks(State, s)
        /\ s.items[m].phase = "deciding" /\ s.items[m].queue = q
      BY <1>6, <1>8
  <2>2. [State EXCEPT !.items[m].phase = "deciding", !.queues[q].deciding = TRUE] = u
      BY DEF State
  <2> HIDE DEF s
  <2>3. q \in Queue /\ s.queues[q].items # << >> /\ s.queues[q].items[1] = m
      BY <1>2, <1>8, <2>1 DEF IsHead
  <2>4. s.queues[q] \in QueueRecord
      BY <2>1, <2>3, StateTypes DEF Holds
  <2>5. r \in QueueRecord /\ r.items = s.queues[q].items
        /\ r.flushThrough = s.queues[q].flushThrough
      BY <2>4 DEF QueueRecord
  <2> HIDE DEF r
  <2>6. /\ Holds(u) /\ u.items = s.items /\ u.lanes = s.lanes
        /\ u.queues[q] = r /\ \A p \in Queue : p # q => u.queues[p] = s.queues[p]
    <3>1. r.items # << >> /\ s.items[s.queues[q].items[1]].phase = "deciding"
        BY <2>1, <2>3, <2>5
    <3> HIDE DEF q
    <3> QED
        BY <2>1, <2>3, <2>5, <3>1, QueueChanges
  <2> HIDE DEF u
  <2>10. Shrinks(s, u)
      BY <2>3, <2>5, <2>6, QueueShrinks
  <2>7. Holds(t) /\ t.items = u.items /\ Shrinks(u, t)
      BY <2>6, SayHolds DEF Statuses
  <2>8. Become(t) /\ Discards(t)
      BY <1>8, <2>2 DEF Discards
  <2> HIDE DEF t
  <2>9. Goes(State, t)
      BY <2>1, <2>6, <2>7, SameGoes, GoesOn
  <2>11. Covered(t, {}, {})
      BY <1>1, <2>1, <2>6, <2>7, <2>10, CoveredShrinks
  <2> QED
      BY <1>1, <2>7, <2>8, <2>9, <2>11, Proceeds
<1>9. \/ q = NoQueue /\ Become(Settlement(State, m, FALSE)) /\ UNCHANGED discarded
      \/ /\ q # NoQueue /\ Become(GiveUp(State, m))
         /\ discarded' = discarded \union { n \in Behind(State, m) : Pending(State, n) }
      \/ /\ q # NoQueue /\ UNCHANGED discarded
         /\ Become(Say([State EXCEPT !.items[m].phase = "retrying"], m, "retrying"))
      \/ /\ q # NoQueue /\ UNCHANGED discarded
         /\ Become(Say([State EXCEPT !.items[m].phase = "deciding",
                                     !.queues[q].deciding = TRUE], m, "failed"))
    BY <1>1 DEF Fail
<1> QED
    BY <1>4, <1>5, <1>7, <1>8, <1>9

\* The delay of a retry is over.
LEMMA RetryDelayInv ==
    ASSUME Inv, NEW m \in Mutation, RetryDelay(m)
    PROVE  Inv'
<1> DEFINE t == Again(State, m)
<1>1. /\ Holds(State) /\ State.items[m].phase = "retrying" /\ Become(t)
      /\ UNCHANGED calls /\ discarded' = discarded /\ Covered(State, {}, {})
    BY InvHolds DEF RetryDelay
<1>2. /\ State.items[m].attempt = "running"
      /\ State.items[m].queue = NoQueue \/ ~ State.queues[State.items[m].queue].deciding
    BY <1>1, AskedRuns
<1>3. Holds(t) /\ Keeps(State, t, {m}) /\ Shrinks(State, t)
    BY <1>1, <1>2, AgainHolds
<1> HIDE DEF t
<1>4. Goes(State, t)
    BY <1>1, <1>2, <1>3, KeepsGoes
<1>5. Covered(t, {}, {})
    BY <1>1, <1>3, CoveredShrinks
<1> QED
    BY <1>1, <1>3, <1>4, <1>5, Proceeds DEF Discards

\* The timer of a queue fires.
LEMMA DebounceInv ==
    ASSUME Inv, NEW q \in Queue, Debounce(q)
    PROVE  Inv'
<1> DEFINE r == [State.queues[q] EXCEPT !.timer = FALSE]
           s == [State EXCEPT !.queues[q] = r]
           m == Head(State.queues[q].items)
           t == Wake(s, m)
<1>1. Holds(State) /\ State.queues = queues /\ Covered(State, {}, {})
    BY InvHolds
<1>2. /\ State.queues[q] \in QueueRecord
      /\ QueueHolds(State.queues[q], State.items, Sent(State), q)
    BY <1>1, StateTypes DEF Holds
<1>3. State.queues[q].timer /\ UNCHANGED calls /\ discarded' = discarded
    BY <1>1 DEF Debounce
<1>4. Become(t)
  <2>1. [State EXCEPT !.queues[q].timer = FALSE] = s
      BY DEF State
  <2>2. Become(Wake([State EXCEPT !.queues[q].timer = FALSE], m))
      BY <1>1 DEF Debounce
  <2> QED
      BY <2>1, <2>2
<1>5. State.queues[q].items # << >>
    BY <1>2, <1>3 DEF QueueHolds
<1>6. r \in QueueRecord /\ r.items = State.queues[q].items /\ ~ r.timer
      /\ QueueKept(State.queues[q], r) /\ State.queues[q].flushThrough <= r.flushThrough
  <2>1. r \in QueueRecord /\ r.items = State.queues[q].items /\ ~ r.timer
        /\ QueueKept(State.queues[q], r)
      BY <1>2 DEF QueueRecord, QueueKept
  <2>2. State.queues[q].flushThrough \in Nat /\ r.flushThrough = State.queues[q].flushThrough
      BY <1>2 DEF QueueRecord
  <2> HIDE DEF r
  <2> QED
      BY <2>1, <2>2
<1> HIDE DEF r
<1>7. Holds(s) /\ Keeps(State, s, {}) /\ s.items = State.items /\ Shrinks(State, s)
    BY <1>1, <1>6, QueueKeeps
<1> HIDE DEF s
<1>8. s.queues[q].items = State.queues[q].items
    BY <1>7 DEF Keeps, QueueKept
<1>9. MayWake(s, m)
    BY <1>5, <1>7, <1>8, HeadMayWake
<1> HIDE DEF m
<1>10. Holds(t) /\ Keeps(s, t, {})
    BY <1>7, <1>9, WakeHolds
<1>12. Covered(t, {}, {})
  <2>1. Covered(s, {}, {})
      BY <1>1, <1>7, CoveredShrinks
  <2> QED
      BY <1>7, <1>9, <2>1, WakeCovered
<1> HIDE DEF t
<1>11. Goes(State, t)
    BY <1>1, <1>7, <1>10, KeepsGoes, GoesOn
<1> QED
    BY <1>3, <1>4, <1>10, <1>11, <1>12, Proceeds DEF Discards

\* A queue hears of an end and arms its next head.
LEMMA ObserveInv ==
    ASSUME Inv, NEW m \in Mutation, Observe(m)
    PROVE  Inv'
<1> DEFINE q == State.items[m].queue
           s == Heard(m)
           t == Arm(s, q)
<1>1. Holds(State) /\ State.items = items /\ Covered(State, {}, {})
    BY InvHolds
<1>2. Unobserved(m) /\ Become(t) /\ UNCHANGED calls /\ discarded' = discarded
    BY <1>1 DEF Observe
<1>3. PICK k : Hears(State, s, m, k)
    BY <1>1, <1>2, HeardDoes
<1> HIDE DEF s
<1>4. Holds(s) /\ Goes(State, s) /\ q \in Queue
  <2>1. Holds(s) /\ Stays(State, s) /\ \A n \in Nat : Registered(State, n) => Registered(s, n)
      BY <1>1, <1>3, HearsHolds
  <2>2. q \in Queue
      BY Zenon, <1>3 DEF Hears
  <2> QED
      BY <2>1, <2>2 DEF Goes
<1>5. Holds(t) /\ Keeps(s, t, {})
    BY <1>4, ArmHolds
<1>7. Covered(t, {}, {})
  <2>1. Covered(s, {q}, {})
      BY <1>1, <1>3, HearsCovered
  <2> QED
      BY <1>4, <2>1, ArmCovered
<1> HIDE DEF t
<1>6. Goes(State, t)
    BY <1>4, <1>5, KeepsGoes, GoesOn
<1> QED
    BY <1>2, <1>5, <1>6, <1>7, Proceeds DEF Discards

\* Every step keeps the inductive invariant.
LEMMA NextInv ==
    ASSUME Inv, [Next]_vars
    PROVE  Inv'
<1>1. CASE Next
  <2>1. DOMAIN items = Mutation
      BY InvHolds
  <2> QED
      BY <1>1, <2>1, EnqueuedInv, DirectCallInv, FlushInv, RetryInv, DiscardInv, DetachInv,
         SucceedInv, FailInv, RetryDelayInv, ObserveInv, DebounceInv DEF Next
<1>2. CASE UNCHANGED vars
  <2>1. State' = State /\ calls' = calls /\ items' = items /\ discarded' = discarded
      BY <1>2 DEF vars, State
  <2>2. Holds(State') /\ Covered(State', {}, {}) /\ \A n : Registered(State, n) => Registered(State', n)
      BY <2>1 DEF Inv
  <2> QED
      BY <2>1, <2>2 DEF Inv
<1> QED
    BY <1>1, <1>2

-----------------------------------------------------------------------------
(* What follows for every reachable state.                                 *)

\* The inductive invariant holds in every reachable state.
THEOREM MutationQueueInvariant ==
    Spec => []Inv
<1>1. Init => Inv
    BY InitInv
<1>2. Inv /\ [Next]_vars => Inv'
    BY NextInv
<1> QED
    BY <1>1, <1>2, PTL DEF Spec

\* "Serial" (mutationQueue.ts:134), whatever several queues over shared entities
\* interleave, expedite, flush, retry or cancel: what is under way is the head of its
\* queue and of its lane, and what a queue or an entity is written reaches the server
\* in the order in which it was made.
THEOREM OneByOneInOrder ==
    Spec => []Serial
<1>1. Inv => Serial
  <2> SUFFICES ASSUME Inv PROVE Serial
      OBVIOUS
  <2>1. /\ Holds(State) /\ State.items = items /\ State.queues = queues
        /\ State.lanes = lanes /\ State.log = log
      BY InvHolds
  <2>2. ASSUME NEW m \in Mutation, items[m].phase # "none", items[m].queue # NoQueue
        PROVE  Head(queues[items[m].queue].items) = m
    <3>1. IsHead(State, m)
        BY <2>1, <2>2, RunningHeads
    <3>2. /\ items[m].queue \in Queue
          /\ State.queues[items[m].queue].items # << >>
          /\ State.queues[items[m].queue].items[1] = m
        BY <2>1, <3>1 DEF IsHead
    <3> QED
        BY <2>1, <3>2, HeadMayWake
  <2>3. ASSUME NEW m \in Mutation, items[m].phase # "none", items[m].id # NoEntity
        PROVE  /\ lanes[items[m].id].running
               /\ Head(lanes[items[m].id].entries).mutation = m
    <3> DEFINE E == State.lanes[State.items[m].id].entries
    <3>1. State.items[m].attempt = "running"
        BY <2>1, <2>3 DEF Holds, ItemHolds
    <3>2. /\ State.lanes[State.items[m].id].running
          /\ E \in Seq(EntriesOf(Mutation)) /\ E # << >> /\ E[1].mutation = m
        BY <2>1, <2>3, <3>1, RunningIsHead
    <3> HIDE DEF E
    <3>3. Head(E) = E[1]
        BY <3>2, HeadTailProperties
    <3>4. Head(E).mutation = m
        BY <3>2, <3>3
    <3> QED
        BY <2>1, <3>2, <3>4 DEF E
  <2>4. OneAtATime
      BY <2>2, <2>3 DEF OneAtATime
  <2>5. SentInOrder
    <3>1. InOrder(log, items) /\ log \in Seq(Mutation)
        BY <2>1, StateTypes DEF Holds
    <3>2. DOMAIN log = 1 .. Len(log)
        BY <3>1, LenProperties
    <3> QED
        BY <3>1, <3>2 DEF SentInOrder, InOrder, Related
  <2> QED
      BY <2>4, <2>5 DEF Serial
<1> QED
    BY <1>1, MutationQueueInvariant, PTL

\* A call that is told of success was part of what the server acknowledged: nothing
\* coalesces into a write that has been sent (tryUpdate, canCoalesce).
THEOREM NoCallIsLost ==
    Spec => []CoalescedCallsAreSent
<1>1. Inv => CoalescedCallsAreSent
    BY InvHolds DEF CoalescedCallsAreSent, Holds, ItemHolds
<1> QED
    BY <1>1, MutationQueueInvariant, PTL

\* What a discard, or a detach, gives up behind a failure is never sent, then or
\* later (mutationQueue.ts:211, 525).
THEOREM DiscardedIsNeverSent ==
    Spec => []DiscardIsComplete
<1>1. Inv => DiscardIsComplete
  <2> SUFFICES ASSUME Inv, NEW m \in discarded, m \in ToSet(log) PROVE FALSE
      BY DEF DiscardIsComplete
  <2>1. /\ Holds(State) /\ State.items = items /\ State.log = log
        /\ m \in Mutation /\ items[m].outcome = "cancelled"
      BY InvHolds DEF Inv
  <2>2. DOMAIN log = 1 .. Len(log)
      BY <2>1, StateTypes, LenProperties DEF Holds
  <2>3. m \in Sent(State)
      BY <2>1, <2>2 DEF Sent, ToSet
  <2> QED
      BY <2>1, <2>3 DEF Holds, ItemHolds
<1> QED
    BY <1>1, MutationQueueInvariant, PTL

\* A write that is due never waits for a timer: what other queues still hold before it
\* is covered by a flush, and held up only by a write that is due itself or by a
\* settlement its queue is about to hear of (#expediteMutationPredecessors,
\* queryStore.ts; expedite and #armCurrent, mutationQueue.ts).
THEOREM NothingWaitsForATimer ==
    Spec => []NoTimerHoldsBack
<1>1. Inv => NoTimerHoldsBack
  <2> SUFFICES ASSUME Inv, NEW m \in Mutation, Ready(State, m), NEW p \in HeldBack(State, m)
               PROVE  /\ p <= queues[items[p].queue].flushThrough
                      /\ Waiting(State, items[p].queue) = {}
      BY InvHolds DEF NoTimerHoldsBack
  <2>1. /\ Holds(State) /\ State.items = items /\ State.queues = queues
        /\ Covered(State, {}, {})
      BY InvHolds
  <2>2. p \in Mutation /\ Stops(State, m, p)
      BY <2>1, HeldBackStops
  <2> DEFINE q == State.items[p].queue
  <2>3. p <= State.queues[q].flushThrough /\ Quiet(State, q)
      BY <2>1, <2>2 DEF Covered
  <2>4. q \in Queue
      BY <2>1, <2>2, StopsInQueue
  <2>5. Waiting(State, q) = {}
      BY <2>1, <2>3, <2>4, QuietWaits
  <2> QED
      BY <2>1, <2>3, <2>5
<1> QED
    BY <1>1, MutationQueueInvariant, PTL

=============================================================================
