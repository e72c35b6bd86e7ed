-------------------------- MODULE EntityStore_proofs --------------------------
(***************************************************************************)
(* Proofs about the entity cache and its lanes, for any setups: any        *)
(* entities and methods, any number of calls and writes, events that wait  *)
(* or not and answers that overtake them or not.                           *)
(***************************************************************************)
EXTENDS EntityStore, MutationLanes_proofs

-----------------------------------------------------------------------------
(* The constants.                                                          *)

Revs == 0 .. MaxRev

\* The bounds bound every setup.
LEMMA SetupsAreBounded ==
    ASSUME NEW s \in Setups
    PROVE  /\ MaxCalls \in Nat /\ s.calls \in 0 .. MaxCalls
           /\ MaxRev \in Nat \ {0} /\ s.revs \in 1 .. MaxRev
           /\ s.ids \subseteq Id /\ s.methods \subseteq {"create", "patch", "remove"}
           /\ s.batching \in BOOLEAN /\ s.acksInOrder \in BOOLEAN
           /\ 0 \in Revs
<1> DEFINE C == { x.calls : x \in Setups }
           V == { x.revs : x \in Setups }
<1>1. IsFiniteSet(Setups) /\ C \subseteq Nat /\ V \subseteq Nat \ {0}
      /\ s.calls \in C /\ s.revs \in V
    BY EntityStoreAssumption
<1>2. IsFiniteSet(C) /\ IsFiniteSet(V)
  <2>1. [x \in Setups |-> x.calls] \in Surjection(Setups, C)
      BY DEF Surjection
  <2>2. [x \in Setups |-> x.revs] \in Surjection(Setups, V)
      BY DEF Surjection
  <2> HIDE DEF C, V
  <2> QED
      BY <1>1, <2>1, <2>2, FS_Surjection
<1>3. MaxCalls = Max(C) /\ MaxRev = Max(V)
    BY DEF MaxCalls, MaxRev
<1> HIDE DEF C, V
<1>4. MaxCalls \in Nat /\ s.calls \in 0 .. MaxCalls
  <2>1. C # {}
      BY <1>1
  <2>2. MaxCalls \in C /\ \A x \in C : x <= MaxCalls
      BY ONLY <1>1, <1>2, <1>3, <2>1, MaxIsMaximum
  <2>3. MaxCalls \in Nat /\ s.calls \in Nat /\ s.calls <= MaxCalls
      BY <1>1, <2>2
  <2> QED
      BY <2>3
<1>5. MaxRev \in V /\ \A x \in V : x <= MaxRev
  <2>1. V \subseteq Nat
      BY <1>1
  <2> QED
      BY <1>1, <1>2, <1>3, <2>1, MaxIsMaximum
<1>6. s.ids \subseteq Id
    BY DEF Id
<1> QED
    BY <1>1, <1>4, <1>5, <1>6, EntityStoreAssumption DEF Revs

-----------------------------------------------------------------------------
(* The state the operations thread through.                                *)

Mutations == 1 .. MaxCalls

Rows == Items(Revs, Mutations)

Lanes == Lane(Revs, Mutations)

Entries == EntriesOf(Mutations)

Statuses == {"none", "queued", "sent", "done", "failed", "cancelled"}

Events == [mode : {"server", "optimistic"}, id : Id,
           type : {"created", "patched", "removed"}, item : Rows]

Fetches == [inFlight : BOOLEAN, answered : BOOLEAN, rows : [Id -> Revs],
            log : [Id -> SUBSET Revs]]

Client == [lanes : [Id -> Lanes], cache : [Id -> Rows], queue : Seq(Events),
           reconcile : BOOLEAN, fetch : Fetches, status : [Mutations -> Statuses],
           started : Seq(Mutations), published : BOOLEAN]

\* What every state has: a setup, so that the bounds are what they should be.
Bounded == MaxCalls \in Nat /\ MaxRev \in Nat \ {0} /\ 0 \in Revs

LEMMA RowsTyped ==
    ASSUME Bounded
    PROVE  /\ Absent \in Rows /\ NoLane \in Lanes
           /\ \A rev \in Revs : Row(rev) \in Rows
           /\ Row(0) = Absent
<1>1. << >> \in Seq(Mutations)
    OBVIOUS
<1>2. \A rev \in Revs : Row(rev) \in Rows
    BY <1>1 DEF Row, Rows, Items
<1> QED
    BY <1>2, AbsentTyped DEF Bounded, Rows, Lanes, Row, Absent

-----------------------------------------------------------------------------
(* Batches of events.                                                      *)

Batches == [entities : [Id -> Rows], effects : Seq(Events)]

\* One step of a batch.
Step(done, event) ==
    IF Applies(done.entities, event)
    THEN [entities |-> ApplyEvent(done.entities, event),
          effects  |-> Append(done.effects, event)]
    ELSE done

LEMMA StepTyped ==
    ASSUME Bounded, NEW done \in Batches, NEW event \in Events
    PROVE  Step(done, event) \in Batches
<1>1. ApplyEvent(done.entities, event) \in [Id -> Rows]
    BY RowsTyped DEF ApplyEvent, Batches, Events
<1>2. Append(done.effects, event) \in Seq(Events)
    BY DEF Batches
<1> QED
    BY <1>1, <1>2 DEF Step, Batches

\* f is what a batch does, event by event.
Batch(f, entities, events) ==
    /\ f[0] = [entities |-> entities, effects |-> << >>]
    /\ \A n \in 1 .. Len(events) : f[n] = Step(f[n - 1], events[n])

LEMMA ApplyBatchDoes ==
    ASSUME Bounded, NEW entities \in [Id -> Rows], NEW events \in Seq(Events)
    PROVE  \E f \in [0 .. Len(events) -> Batches] :
              Batch(f, entities, events) /\ ApplyBatch(entities, events) = f[Len(events)]
<1> DEFINE N == Len(events)
           start == [entities |-> entities, effects |-> << >>]
           step == [p \in Batches \X (1 .. N) |-> Step(p[1], events[p[2]])]
           IsBatch(g) ==
              g = [n \in 0 .. N |->
                     IF n = 0 THEN [entities |-> entities, effects |-> << >>]
                     ELSE IF Applies(g[n - 1].entities, events[n])
                     THEN [entities |-> ApplyEvent(g[n - 1].entities, events[n]),
                           effects  |-> Append(g[n - 1].effects, events[n])]
                     ELSE g[n - 1]]
<1>1. N \in Nat /\ \A n \in 1 .. N : events[n] \in Events
    BY ElementOfSeq, LenProperties
<1>2. start \in Batches
  <2>1. << >> \in Seq(Events)
      OBVIOUS
  <2> QED
      BY <2>1 DEF Batches
<1>3. step \in [Batches \X (1 .. N) -> Batches]
    BY <1>1, StepTyped
<1>4. \A x \in Batches, n \in 1 .. N : step[<< x, n >>] = Step(x, events[n])
    OBVIOUS
<1> HIDE DEF step, start
<1>5. PICK h \in [0 .. N -> Batches] :
            h[0] = start /\ \A n \in 1 .. N : h[n] = step[<< h[n - 1], n >>]
  <2>1. N \in Nat
      BY <1>1
  <2>2. HasSolution(Batches, start, N, step)
      BY ONLY <1>2, <1>3, <2>1, Recursion
  <2> QED
      BY ONLY <2>2 DEF HasSolution
<1>6. IsBatch(h)
  <2>1. ASSUME NEW n \in 0 .. N
        PROVE  h[n] = IF n = 0 THEN [entities |-> entities, effects |-> << >>]
                      ELSE IF Applies(h[n - 1].entities, events[n])
                      THEN [entities |-> ApplyEvent(h[n - 1].entities, events[n]),
                            effects  |-> Append(h[n - 1].effects, events[n])]
                      ELSE h[n - 1]
    <3>1. CASE n = 0
        BY <1>5, <3>1 DEF start
    <3>2. CASE n # 0
      <4>1. n \in 1 .. N /\ n - 1 \in 0 .. N
          BY <1>1, <3>2
      <4>2. h[n] = Step(h[n - 1], events[n])
          BY <1>4, <1>5, <4>1
      <4> QED
          BY <3>2, <4>2 DEF Step
    <3> QED
        BY <3>1, <3>2
  <2> QED
      BY <2>1
<1> DEFINE f == CHOOSE g : IsBatch(g)
<1>7. IsBatch(f)
    BY <1>6
<1>8. ApplyBatch(entities, events) = f[N]
    BY DEF ApplyBatch
<1> HIDE DEF f
<1>9. Batch(f, entities, events)
  <2>1. f[0] = [entities |-> entities, effects |-> << >>]
      BY <1>1, <1>7
  <2>2. ASSUME NEW n \in 1 .. N PROVE f[n] = Step(f[n - 1], events[n])
    <3>1. n \in 0 .. N /\ n # 0
        BY <1>1
    <3>2. f[n] = IF n = 0 THEN [entities |-> entities, effects |-> << >>]
                 ELSE IF Applies(f[n - 1].entities, events[n])
                 THEN [entities |-> ApplyEvent(f[n - 1].entities, events[n]),
                       effects  |-> Append(f[n - 1].effects, events[n])]
                 ELSE f[n - 1]
        BY <1>7, <3>1
    <3> QED
        BY <3>1, <3>2 DEF Step
  <2> QED
      BY <2>1, <2>2 DEF Batch
<1>10. \A n \in 0 .. N : f[n] \in Batches
  <2> DEFINE S == { n \in 0 .. N : f[n] \in Batches }
  <2>1. 0 \in S
      BY <1>1, <1>2, <1>9 DEF Batch, start
  <2>2. ASSUME NEW n \in 1 .. N, n - 1 \in S PROVE n \in S
    <3>1. f[n] = Step(f[n - 1], events[n]) /\ f[n - 1] \in Batches /\ events[n] \in Events
        BY <1>1, <1>9, <2>2 DEF Batch
    <3>2. f[n] \in Batches /\ n \in 0 .. N
        BY <1>1, <3>1, StepTyped
    <3> QED
        BY <3>2
  <2> HIDE DEF S
  <2>3. \A n \in 0 .. N : n \in S
    <3>1. N \in Nat
        BY <1>1
    <3> HIDE DEF N
    <3> QED
        BY ONLY <2>1, <2>2, <3>1, BoundedInduction
  <2> QED
      BY <2>3 DEF S
<1>11. f \in [0 .. N -> Batches]
    BY <1>7, <1>10
<1> QED
    BY <1>8, <1>9, <1>11

\* What a batch leaves is cached rows, and its effects are events.
LEMMA BatchTyped ==
    ASSUME Bounded, NEW entities \in [Id -> Rows], NEW events \in Seq(Events)
    PROVE  /\ ApplyBatch(entities, events).entities \in [Id -> Rows]
           /\ ApplyBatch(entities, events).effects \in Seq(Events)
<1>1. PICK f \in [0 .. Len(events) -> Batches] :
            ApplyBatch(entities, events) = f[Len(events)]
    BY ApplyBatchDoes
<1>2. Len(events) \in 0 .. Len(events)
    BY LenProperties
<1> QED
    BY <1>1, <1>2 DEF Batches

\* A batch of one event.
LEMMA BatchOfOne ==
    ASSUME Bounded, NEW entities \in [Id -> Rows], NEW event \in Events
    PROVE  ApplyBatch(entities, << event >>).entities =
              IF Applies(entities, event) THEN ApplyEvent(entities, event) ELSE entities
<1>1. << event >> \in Seq(Events) /\ Len(<< event >>) = 1 /\ << event >>[1] = event
    OBVIOUS
<1>2. PICK f \in [0 .. 1 -> Batches] :
            Batch(f, entities, << event >>) /\ ApplyBatch(entities, << event >>) = f[1]
    BY <1>1, ApplyBatchDoes
<1>3. /\ f[0].entities = entities
      /\ f[1] = Step(f[0], event)
    BY <1>1, <1>2 DEF Batch
<1> QED
    BY <1>2, <1>3 DEF Step

-----------------------------------------------------------------------------
(* What an operation makes of the state before it.                         *)

\* A change that was published is remembered.
Remembered(s) == s.reconcile \/ \E id \in Id : s.lanes[id].open /\ s.lanes[id].owed

\* A lane is as it was, except that it may have been told to reconcile at its end.
SameLane(lane, next) == next = lane \/ (lane.open /\ next = Defer(lane))

\* t comes from s by showing something: nothing is sent or settled, and what is
\* published is remembered.
Shows(s, t) ==
    /\ t.status = s.status /\ t.started = s.started
    /\ \A id \in Id : SameLane(s.lanes[id], t.lanes[id])
    /\ Remembered(s) => Remembered(t)
    /\ t.published => s.published \/ Remembered(t)

LEMMA DeferTyped ==
    ASSUME NEW lane \in Lanes
    PROVE  /\ Defer(lane) \in Lanes /\ Defer(lane).owed
           /\ Defer(lane).open = lane.open /\ Defer(lane).base = lane.base
           /\ Defer(lane).visible = lane.visible /\ (Defer(lane).seen <=> lane.seen)
           /\ Defer(lane).entries = lane.entries /\ Defer(lane).running = lane.running
BY DEF Defer, Lanes, Lane

LEMMA JournalTyped ==
    ASSUME Bounded, NEW f \in Fetches, NEW events \in Seq(Events)
    PROVE  Journal(f, events) \in Fetches
<1> DEFINE about(id) == { i \in DOMAIN events : events[i].id = id }
           revs(id) == IF about(id) = {} THEN f.log[id]
                       ELSE { events[Max(about(id))].item.rev }
<1>1. Len(events) \in Nat /\ DOMAIN events = 1 .. Len(events)
      /\ \A i \in DOMAIN events : events[i] \in Events
    BY LenProperties, ElementOfSeq
<1>2. ASSUME NEW id \in Id PROVE revs(id) \in SUBSET Revs
  <2>1. CASE about(id) = {}
      BY <2>1 DEF Fetches
  <2>2. CASE about(id) # {}
    <3>1. about(id) \subseteq Nat /\ about(id) \subseteq 1 .. Len(events)
        BY <1>1
    <3>2. IsFiniteSet(about(id))
      <4>1. about(id) \in SUBSET Nat /\ Len(events) \in Nat
            /\ \A i \in about(id) : i <= Len(events)
          BY <1>1, <3>1
      <4> HIDE DEF about
      <4> QED
          BY <4>1, FS_BoundedSetOfNaturals
    <3> HIDE DEF about
    <3>3. Max(about(id)) \in about(id)
        BY <2>2, <3>1, <3>2, MaxIsMaximum
    <3>4. events[Max(about(id))] \in Events
        BY <1>1, <3>1, <3>3
    <3>5. events[Max(about(id))].item.rev \in Revs
        BY <3>4 DEF Events, Rows, Items
    <3> QED
        BY <2>2, <3>5
  <2> QED
      BY <2>1, <2>2
<1>3. Journal(f, events) = IF f.inFlight THEN [f EXCEPT !.log = [id \in Id |-> revs(id)]] ELSE f
    BY DEF Journal, Fetches
<1> HIDE DEF revs
<1> QED
    BY <1>2, <1>3 DEF Fetches

LEMMA PublishDoes ==
    ASSUME NEW ls \in [Id -> Lanes], NEW effects \in Seq(Events)
    PROVE  /\ PublishTo(ls, effects) \in [Id -> Lanes]
           /\ \A id \in Id : SameLane(ls[id], PublishTo(ls, effects)[id])
           /\ effects # << >> =>
                 \/ AsksAtOnce(ls, effects)
                 \/ \E id \in Id : /\ PublishTo(ls, effects)[id].open
                                   /\ PublishTo(ls, effects)[id].owed
<1>1. CASE Authoritative(effects)
    BY <1>1 DEF PublishTo, AsksAtOnce, SameLane
<1>2. CASE ~ Authoritative(effects)
  <2> DEFINE told(id) == id \in Projected(effects) /\ ls[id].open
  <2>1. PublishTo(ls, effects) = [id \in Id |-> IF told(id) THEN Defer(ls[id]) ELSE ls[id]]
      BY <1>2 DEF PublishTo
  <2>2. \A id \in Id : told(id) => ls[id].open
      OBVIOUS
  <2>3. ASSUME effects # << >>, ~ AsksAtOnce(ls, effects) PROVE \E id \in Id : told(id)
    <3>1. Len(effects) \in Nat /\ Len(effects) # 0 /\ DOMAIN effects = 1 .. Len(effects)
        BY <2>3, EmptySeq, LenProperties
    <3>2. 1 \in DOMAIN effects /\ effects[1] \in Events
        BY <3>1, ElementOfSeq
    <3>3. effects[1].id \in Id /\ effects[1].id \in Projected(effects)
        BY <3>2 DEF Projected, Events
    <3> QED
        BY <2>3, <3>3 DEF AsksAtOnce
  <2> HIDE DEF told
  <2>4. \A id \in Id : Defer(ls[id]) \in Lanes /\ Defer(ls[id]).owed
                       /\ Defer(ls[id]).open = ls[id].open
      BY DeferTyped
  <2> QED
      BY <2>1, <2>2, <2>3, <2>4 DEF SameLane
<1> QED
    BY <1>1, <1>2

\* processQueuedEvents: the queue is applied and everything it changed published.
LEMMA FlushDoes ==
    ASSUME Bounded, NEW s \in Client
    PROVE  LET t == Flush(s)
           IN  /\ t \in Client /\ Shows(s, t) /\ t.queue = << >>
               /\ t.cache = ApplyBatch(s.cache, s.queue).entities
<1> DEFINE t == Flush(s)
           batch == ApplyBatch(s.cache, s.queue)
           ls == PublishTo(s.lanes, batch.effects)
           asks == s.reconcile \/ AsksAtOnce(s.lanes, batch.effects)
           tells == s.published \/ batch.effects # << >>
           journal == Journal(s.fetch, batch.effects)
<1>1. batch.entities \in [Id -> Rows] /\ batch.effects \in Seq(Events)
    BY BatchTyped DEF Client
<1>2. /\ ls \in [Id -> Lanes] /\ \A id \in Id : SameLane(s.lanes[id], ls[id])
      /\ batch.effects # << >> =>
            \/ AsksAtOnce(s.lanes, batch.effects) \/ \E id \in Id : ls[id].open /\ ls[id].owed
    BY <1>1, PublishDoes DEF Client
<1>3. journal \in Fetches
    BY <1>1, JournalTyped DEF Client
<1>4. asks \in BOOLEAN /\ tells \in BOOLEAN /\ << >> \in Seq(Events)
    BY DEF AsksAtOnce, Authoritative
<1>5. t = [s EXCEPT !.cache = batch.entities, !.queue = << >>, !.fetch = journal,
                    !.lanes = ls, !.reconcile = asks, !.published = tells]
    BY DEF Flush, Client
<1>6. /\ s.reconcile => asks
      /\ tells => s.published \/ batch.effects # << >>
      /\ AsksAtOnce(s.lanes, batch.effects) => asks
    OBVIOUS
<1>0. ApplyBatch(s.cache, s.queue).entities = batch.entities
    OBVIOUS
<1> HIDE DEF t, batch, ls, asks, tells, journal
<1>7. /\ t \in Client /\ t.queue = << >> /\ t.cache = batch.entities
      /\ t.status = s.status /\ t.started = s.started /\ t.lanes = ls
      /\ t.reconcile = asks /\ t.published = tells
    BY <1>1, <1>2, <1>3, <1>4, <1>5 DEF Client
<1>8. Remembered(s) => Remembered(t)
  <2>1. CASE s.reconcile
      BY <1>6, <1>7, <2>1 DEF Remembered
  <2>2. ASSUME NEW id \in Id, s.lanes[id].open, s.lanes[id].owed PROVE Remembered(t)
    <3>1. s.lanes[id] \in Lanes /\ SameLane(s.lanes[id], ls[id])
        BY <1>2 DEF Client
    <3>2. ls[id].open /\ ls[id].owed
        BY <2>2, <3>1, DeferTyped DEF SameLane
    <3> QED
        BY <1>7, <3>2 DEF Remembered
  <2> QED
      BY <2>1, <2>2 DEF Remembered
<1>9. t.published => s.published \/ Remembered(t)
    BY <1>2, <1>6, <1>7 DEF Remembered
<1> QED
    BY <1>0, <1>2, <1>7, <1>8, <1>9 DEF Shows, t

\* The event a change of projection asks for.
LEMMA ProjectionEventsAre ==
    ASSUME Bounded, NEW id \in Id, NEW previous \in Rows, NEW next \in Rows,
           NEW newBase \in BOOLEAN
    PROVE  \/ /\ ProjectionEvents(id, previous, next, newBase) = << >>
              /\ previous = next
              /\ Present(next) => ~ IsFolded(next) /\ ~ (newBase /\ next.intents = << >>)
           \/ \E e \in Events :
                 /\ ProjectionEvents(id, previous, next, newBase) = << e >>
                 /\ e.id = id /\ e.mode = "optimistic"
                 /\ (IF e.type = "removed" THEN Absent ELSE e.item) = next
<1> DEFINE event(type, item) == [mode |-> "optimistic", id |-> id, type |-> type, item |-> item]
           events == ProjectionEvents(id, previous, next, newBase)
<1>1. \A type \in {"created", "patched", "removed"}, item \in Rows : event(type, item) \in Events
    BY DEF Events
<1>2. CASE Present(previous) /\ Present(next)
  <2>1. CASE previous # next \/ (newBase /\ next.intents = << >>) \/ IsFolded(next)
    <3>1. events = << event("patched", next) >>
        BY <1>2, <2>1 DEF ProjectionEvents
    <3> QED
        BY <1>1, <3>1
  <2>2. CASE ~ (previous # next \/ (newBase /\ next.intents = << >>) \/ IsFolded(next))
    <3>1. events = << >>
        BY <1>2, <2>2 DEF ProjectionEvents
    <3> QED
        BY <2>2, <3>1
  <2> QED
      BY <2>1, <2>2
<1>3. CASE ~ Present(previous) /\ Present(next)
  <2>1. events = << event("created", next) >>
      BY <1>3 DEF ProjectionEvents
  <2> QED
      BY <1>1, <2>1
<1>4. CASE Present(previous) /\ ~ Present(next)
  <2>1. events = << event("removed", previous) >>
      BY <1>4 DEF ProjectionEvents
  <2>2. next = Absent
      BY <1>4 DEF Present
  <2> QED
      BY <1>1, <2>1, <2>2
<1>5. CASE ~ Present(previous) /\ ~ Present(next)
  <2>1. events = << >>
      BY <1>5 DEF ProjectionEvents
  <2> QED
      BY <1>5, <2>1 DEF Present
<1> QED
    BY <1>2, <1>3, <1>4, <1>5

LEMMA ProjectionTyped ==
    ASSUME Bounded, NEW id, id \in Id, NEW previous, previous \in Rows, NEW next, next \in Rows,
           NEW newBase, newBase \in BOOLEAN
    PROVE  ProjectionEvents(id, previous, next, newBase) \in Seq(Events)
<1> DEFINE events == ProjectionEvents(id, previous, next, newBase)
<1>1. events = << >> \/ \E e \in Events : events = << e >>
    BY ProjectionEventsAre
<1> HIDE DEF events
<1>2. << >> \in Seq(Events) /\ \A e \in Events : << e >> \in Seq(Events)
    OBVIOUS
<1> QED
    BY <1>1, <1>2 DEF events

\* applyProjection: where nothing waits, the entity's row becomes the projection if
\* that has changed, and no other row changes.
LEMMA ShowProjectionDoes ==
    ASSUME Bounded, NEW s \in Client, NEW id \in Id, NEW previous \in Rows,
           NEW newBase \in BOOLEAN
    PROVE  LET t == ShowProjection(s, id, previous, newBase)
               next == s.lanes[id].visible
           IN  /\ t \in Client /\ Shows(s, t)
               /\ s.queue = << >> =>
                     /\ t.queue = << >>
                     /\ \A i \in Id \ {id} : t.cache[i] = s.cache[i]
                     /\ IF ProjectionEvents(id, previous, next, newBase) = << >>
                        THEN t.cache[id] = s.cache[id] ELSE t.cache[id] = next
<1> DEFINE next == s.lanes[id].visible
           events == ProjectionEvents(id, previous, next, newBase)
           more == [s EXCEPT !.queue = @ \o events]
<1>1. next \in Rows
    BY DEF Client, Lanes, Lane, Rows
<1>2. CASE events = << >>
  <2>1. ShowProjection(s, id, previous, newBase) = s
      BY <1>2 DEF ShowProjection
  <2>2. Shows(s, s)
      BY DEF Shows, SameLane
  <2> QED
      BY <1>2, <2>1, <2>2
<1>3. CASE events # << >>
  <2>1. PICK e \in Events : /\ events = << e >> /\ e.id = id /\ e.mode = "optimistic"
                            /\ (IF e.type = "removed" THEN Absent ELSE e.item) = next
    <3> HIDE DEF next, events
    <3>1. events = ProjectionEvents(id, previous, next, newBase)
        BY DEF events
    <3> QED
        BY ONLY <1>1, <1>3, <3>1, ProjectionEventsAre, Bounded, id \in Id, previous \in Rows,
                newBase \in BOOLEAN
  <2>2. ShowProjection(s, id, previous, newBase) = Flush(more)
      BY <1>3 DEF ShowProjection
  <2>3. << e >> \in Seq(Events) /\ s.queue \o << e >> \in Seq(Events)
        /\ (s.queue = << >> => s.queue \o << e >> = << e >>)
    <3>1. s.queue \in Seq(Events)
        BY DEF Client
    <3>2. << e >> \in Seq(Events)
        OBVIOUS
    <3> QED
        BY ONLY <3>1, <3>2, ConcatProperties, ConcatEmptySeq
  <2>4. more = [s EXCEPT !.queue = s.queue \o << e >>]
      BY <2>1 DEF Client
  <2> HIDE DEF events, more, next
  <2>5. /\ more \in Client /\ more.status = s.status /\ more.started = s.started
        /\ more.lanes = s.lanes /\ more.reconcile = s.reconcile /\ more.cache = s.cache
        /\ more.published = s.published
        /\ (s.queue = << >> => more.queue = << e >>)
      BY <2>3, <2>4 DEF Client
  <2> DEFINE t == Flush(more)
  <2>6. /\ t \in Client /\ Shows(more, t) /\ t.queue = << >>
        /\ t.cache = ApplyBatch(more.cache, more.queue).entities
      BY <2>5, FlushDoes
  <2> HIDE DEF t
  <2>7. Shows(s, t)
      BY <2>5, <2>6 DEF Shows, Remembered
  <2>8. ASSUME s.queue = << >>
        PROVE  t.cache = [s.cache EXCEPT ![id] = next]
    <3>1. t.cache = ApplyBatch(s.cache, << e >>).entities /\ s.cache \in [Id -> Rows]
        BY <2>5, <2>6, <2>8 DEF Client
    <3>2. Applies(s.cache, e)
        BY <2>1 DEF Applies
    <3>3. t.cache = ApplyEvent(s.cache, e)
        BY <3>1, <3>2, BatchOfOne
    <3> QED
        BY <2>1, <3>3 DEF ApplyEvent
  <2>9. s.cache \in [Id -> Rows]
      BY DEF Client
  <2>10. s.queue = << >> => t.cache[id] = next /\ \A i \in Id \ {id} : t.cache[i] = s.cache[i]
      BY <2>8, <2>9
  <2>11. t = ShowProjection(s, id, previous, newBase)
      BY <2>2 DEF t
  <2> QED
      BY <1>3, <2>6, <2>7, <2>10, <2>11 DEF events, next
<1> QED
    BY <1>2, <1>3

-----------------------------------------------------------------------------
(* What is true of a lane between operations.                              *)

Calls == [id : Id, method : {"create", "patch", "remove"}, optimistic : BOOLEAN]

\* The entries of a lane are mutations called on its entity, of which the first
\* alone may have been sent.
Entered(lane, id, cs, st) ==
    \A i \in 1 .. Len(lane.entries) :
       LET e == lane.entries[i]
       IN  /\ e.mutation \in 1 .. Len(cs)
           /\ cs[e.mutation].id = id /\ cs[e.mutation].method = e.method
           /\ IF i = 1 /\ lane.running THEN st[e.mutation] = "sent"
                                       ELSE st[e.mutation] = "queued"

InCallOrder(lane) ==
    \A i, j \in 1 .. Len(lane.entries) :
       i < j => lane.entries[i].mutation < lane.entries[j].mutation

\* Nothing that is not settled is missing.
Complete(lane, id, cs, st) ==
    \A m \in 1 .. Len(cs) :
       cs[m].id = id /\ st[m] \in {"queued", "sent"} =>
          \E i \in 1 .. Len(lane.entries) : lane.entries[i].mutation = m

\* The lane holds the mutations of its entity that are not settled, in the order of
\* the calls; the first of them alone may have been sent.
Holds(lane, id, cs, st) ==
    /\ Entered(lane, id, cs, st)
    /\ InCallOrder(lane)
    /\ Complete(lane, id, cs, st)

\* The lane shows the projection of its entries.
Projects(lane) ==
    /\ lane.visible = Project(lane.base, lane.entries)
    /\ Present(lane.base) => lane.seen
    /\ ~ lane.open => lane = NoLane

\* The lane is there for the request it waits for.
Busy(lane) == lane.open => lane.entries # << >> /\ lane.running

Plain(item) == item.intents = << >>

\* Where no event waits, the row shows the projection.  A lane without optimistic
\* entries may differ from it: a fetch then replaces the row and not the base.
RowShown(lane, row) ==
    IF lane.open
    THEN /\ Plain(lane.base)
         /\ \/ row = lane.visible
            \/ /\ Plain(row) /\ Present(lane.visible)
               /\ \A i \in 1 .. Len(lane.entries) : ~ lane.entries[i].optimistic
    ELSE Plain(row)

\* Only its entries and its request matter to what a lane holds.
LEMMA HoldsSame ==
    ASSUME NEW lane, NEW after, after.entries = lane.entries, after.running = lane.running,
           NEW id, NEW cs, NEW st, Holds(lane, id, cs, st)
    PROVE  Holds(after, id, cs, st)
<1>1. Entered(after, id, cs, st)
    BY DEF Holds, Entered
<1>2. InCallOrder(after)
    BY DEF Holds, InCallOrder
<1>3. Complete(after, id, cs, st)
    BY DEF Holds, Complete
<1> QED
    BY <1>1, <1>2, <1>3 DEF Holds

LEMMA SameLaneKeeps ==
    ASSUME NEW lane \in Lanes, NEW next, SameLane(lane, next)
    PROVE  /\ next \in Lanes /\ next.open = lane.open /\ (lane.owed => next.owed)
           /\ next.entries = lane.entries /\ next.visible = lane.visible
           /\ next.base = lane.base
           /\ Projects(lane) => Projects(next)
           /\ Busy(lane) => Busy(next)
           /\ \A row : RowShown(lane, row) => RowShown(next, row)
           /\ \A id, cs, st : Holds(lane, id, cs, st) => Holds(next, id, cs, st)
<1>1. CASE next = lane
    BY <1>1
<1>2. CASE lane.open /\ next = Defer(lane)
  <2>1. /\ next \in Lanes /\ next.open = lane.open /\ next.owed
        /\ next.entries = lane.entries /\ next.visible = lane.visible
        /\ next.base = lane.base /\ (next.seen <=> lane.seen) /\ next.running = lane.running
      BY <1>2, DeferTyped
  <2>2. Projects(lane) => Projects(next)
      BY <1>2, <2>1 DEF Projects
  <2>3. Busy(lane) => Busy(next)
      BY <2>1 DEF Busy
  <2>4. \A row : RowShown(lane, row) => RowShown(next, row)
      BY <2>1 DEF RowShown
  <2>5. \A id, cs, st : Holds(lane, id, cs, st) => Holds(next, id, cs, st)
      BY <2>1 DEF Holds, Entered, InCallOrder, Complete
  <2> QED
      BY <2>1, <2>2, <2>3, <2>4, <2>5
<1> QED
    BY <1>1, <1>2 DEF SameLane

\* A lane does not mind what becomes of other entities' mutations.
LEMMA HoldsKept ==
    ASSUME NEW lane \in Lanes, NEW id \in Id, NEW cs \in Seq(Calls), NEW st, NEW st2,
           Holds(lane, id, cs, st),
           \A m \in 1 .. Len(cs) : cs[m].id = id => st2[m] = st[m]
    PROVE  Holds(lane, id, cs, st2)
BY DEF Holds, Entered, InCallOrder, Complete

-----------------------------------------------------------------------------
(* drainMutationLane.                                                      *)

\* At most one mutation, one that was queued on the entity, is sent.
Sends(s, t, id, cs) ==
    \/ t.status = s.status /\ t.started = s.started
    \/ \E h \in 1 .. Len(cs) :
          /\ cs[h].id = id /\ s.status[h] = "queued"
          /\ t.status = [s.status EXCEPT ![h] = "sent"]
          /\ t.started = Append(s.started, h)

\* The lane of an entity is as it should be when the operation is over.
Rests(s, id, cs) ==
    /\ Holds(s.lanes[id], id, cs, s.status)
    /\ Projects(s.lanes[id])
    /\ Busy(s.lanes[id])

LEMMA DrainDoes ==
    ASSUME Bounded, NEW s \in Client, NEW id \in Id, NEW cs \in Seq(Calls),
           Len(cs) <= MaxCalls, Holds(s.lanes[id], id, cs, s.status), Projects(s.lanes[id])
    PROVE  LET t == Drain(s, id)
           IN  /\ t \in Client /\ t.cache = s.cache /\ t.queue = s.queue
               /\ t.published = s.published
               /\ \A i \in Id \ {id} : t.lanes[i] = s.lanes[i]
               /\ Rests(t, id, cs) /\ Sends(s, t, id, cs)
               /\ Remembered(s) => Remembered(t)
               /\ \A row : RowShown(s.lanes[id], row) => RowShown(t.lanes[id], row)
<1> DEFINE lane == s.lanes[id]
           h == Head(lane.entries).mutation
           t == Drain(s, id)
<1>1. /\ lane \in Lanes /\ lane.entries \in Seq(Entries) /\ Len(lane.entries) \in Nat
      /\ Len(cs) \in Nat /\ s.status \in [Mutations -> Statuses] /\ 1 .. Len(cs) \subseteq Mutations
  <2>1. lane \in Lanes /\ s.status \in [Mutations -> Statuses]
      BY DEF Client
  <2>2. lane.entries \in Seq(Entries)
      BY <2>1 DEF Lanes, Lane, Entries
  <2>3. Len(lane.entries) \in Nat /\ Len(cs) \in Nat
      BY <2>2, LenProperties
  <2>4. 1 .. Len(cs) \subseteq Mutations
      BY <2>3 DEF Mutations, Bounded
  <2> QED
      BY <2>1, <2>2, <2>3, <2>4
<1>2. CASE CanTake(lane)
  <2>1. /\ lane.entries # << >> /\ ~ lane.running /\ Len(lane.entries) # 0
        /\ h = lane.entries[1].mutation
      BY <1>1, <1>2, EmptySeq DEF CanTake
  <2>2. h \in 1 .. Len(cs) /\ cs[h].id = id /\ s.status[h] = "queued" /\ h \in Mutations
      BY <1>1, <2>1 DEF Holds, Entered, InCallOrder, Complete
  <2>3. t = [s EXCEPT !.lanes[id] = TakeNext(lane), !.status[h] = "sent",
                      !.started = Append(@, h)]
      BY <1>2 DEF Drain
  <2>4. /\ TakeNext(lane) \in Lanes /\ TakeNext(lane).running
        /\ TakeNext(lane).entries = lane.entries /\ TakeNext(lane).open = lane.open
        /\ TakeNext(lane).base = lane.base /\ TakeNext(lane).visible = lane.visible
        /\ (TakeNext(lane).seen <=> lane.seen) /\ (TakeNext(lane).owed <=> lane.owed)
      BY <1>1 DEF TakeNext, Lanes, Lane
  <2>5. Append(s.started, h) \in Seq(Mutations)
      BY <2>2, AppendProperties DEF Client
  <2>0. lane.open
    <3> SUFFICES ASSUME ~ lane.open PROVE FALSE
        OBVIOUS
    <3>1. lane = NoLane
        BY DEF Projects
    <3> QED
        BY <2>1, <3>1 DEF NoLane
  <2> HIDE DEF t, h
  <2> DEFINE taken == TakeNext(lane)
             st == [s.status EXCEPT ![h] = "sent"]
  <2>6. st \in [Mutations -> Statuses]
      BY <1>1, <2>2 DEF Statuses
  <2>7. /\ t \in Client /\ t.cache = s.cache /\ t.queue = s.queue
        /\ t.published = s.published /\ t.reconcile = s.reconcile
        /\ t.lanes = [s.lanes EXCEPT ![id] = taken] /\ t.lanes[id] = taken
        /\ t.status = st /\ t.started = Append(s.started, h)
        /\ \A i \in Id \ {id} : t.lanes[i] = s.lanes[i]
    <3> HIDE DEF taken, st
    <3>1. taken \in Lanes
        BY <2>4 DEF taken
    <3>2. t = [s EXCEPT !.lanes = [@ EXCEPT ![id] = taken], !.status = st,
                        !.started = Append(s.started, h)]
        BY <2>3 DEF Client, taken, st
    <3> HIDE DEF lane
    <3> QED
        BY <2>5, <2>6, <3>1, <3>2 DEF Client
  <2>8. Holds(taken, id, cs, st)
    <3>1. ASSUME NEW i \in 1 .. Len(lane.entries)
          PROVE  LET e == lane.entries[i]
                 IN  /\ e.mutation \in 1 .. Len(cs)
                     /\ cs[e.mutation].id = id /\ cs[e.mutation].method = e.method
                     /\ IF i = 1 THEN st[e.mutation] = "sent" ELSE st[e.mutation] = "queued"
      <4>1. /\ lane.entries[i].mutation \in 1 .. Len(cs) /\ 1 \in 1 .. Len(lane.entries)
            /\ cs[lane.entries[i].mutation].id = id
            /\ cs[lane.entries[i].mutation].method = lane.entries[i].method
            /\ s.status[lane.entries[i].mutation] = "queued"
          BY <1>1, <2>1 DEF Holds, Entered, InCallOrder, Complete
      <4>2. CASE i = 1
          BY <1>1, <2>1, <4>1, <4>2
      <4>3. CASE i # 1
        <5>1. \A j, k \in 1 .. Len(lane.entries) :
                 j < k => lane.entries[j].mutation < lane.entries[k].mutation
            BY DEF Holds, InCallOrder
        <5>2. 1 < i /\ lane.entries[1].mutation < lane.entries[i].mutation
            BY <1>1, <4>1, <4>3, <5>1
        <5>3. h < lane.entries[i].mutation
            BY <2>1, <5>2
        <5> QED
            BY <1>1, <2>2, <4>1, <4>3, <5>3
      <4> QED
          BY <4>2, <4>3
    <3>2. \A m \in 1 .. Len(cs) : st[m] \in {"queued", "sent"} => s.status[m] \in {"queued", "sent"}
        BY <1>1, <2>2
    <3>3. Entered(taken, id, cs, st)
      <4>1. taken.entries = lane.entries /\ taken.running
          BY <2>4
      <4> HIDE DEF taken, lane, st
      <4> QED
          BY <3>1, <4>1 DEF Entered
    <3>4. InCallOrder(taken)
        BY <2>4 DEF Holds, InCallOrder
    <3>5. Complete(taken, id, cs, st)
        BY <2>4, <3>2 DEF Holds, Complete
    <3> QED
        BY <3>3, <3>4, <3>5 DEF Holds
  <2>9. Projects(taken)
      BY <2>0, <2>4 DEF Projects
  <2>10. Busy(taken)
      BY <2>1, <2>4 DEF Busy
  <2>11. Remembered(s) => Remembered(t)
    <3>1. \A i \in Id : (t.lanes[i].open <=> s.lanes[i].open) /\ (t.lanes[i].owed <=> s.lanes[i].owed)
        BY <2>4, <2>7
    <3> QED
        BY <2>7, <3>1 DEF Remembered
  <2>12. \A row : RowShown(lane, row) => RowShown(taken, row)
      BY <2>4 DEF RowShown
  <2>13. Sends(s, t, id, cs)
      BY <2>2, <2>7 DEF Sends
  <2> HIDE DEF taken, st
  <2> QED
      BY <2>7, <2>8, <2>9, <2>10, <2>11, <2>12, <2>13 DEF Rests, t
<1>3. CASE ~ CanTake(lane) /\ lane.entries = << >>
  <2>1. t = [s EXCEPT !.lanes[id] = NoLane, !.reconcile = @ \/ lane.owed]
      BY <1>3 DEF Drain
  <2> HIDE DEF t
  <2>2. /\ t \in Client /\ t.cache = s.cache /\ t.queue = s.queue
        /\ t.published = s.published /\ (t.reconcile <=> (s.reconcile \/ lane.owed))
        /\ t.lanes[id] = NoLane /\ t.status = s.status /\ t.started = s.started
        /\ \A i \in Id \ {id} : t.lanes[i] = s.lanes[i]
    <3>1. NoLane \in Lanes /\ (s.reconcile \/ lane.owed) \in BOOLEAN
        BY RowsTyped
    <3>2. t = [s EXCEPT !.lanes = [@ EXCEPT ![id] = NoLane], !.reconcile = s.reconcile \/ lane.owed]
        BY <2>1 DEF Client
    <3> HIDE DEF lane
    <3> QED
        BY <3>1, <3>2 DEF Client
  <2>3. /\ NoLane.entries = << >> /\ ~ NoLane.open /\ NoLane.visible = Absent
        /\ NoLane.base = Absent /\ Len(NoLane.entries) = 0 /\ ~ Present(NoLane.base)
      BY DEF NoLane, Present
  <2>4. Holds(NoLane, id, cs, t.status)
    <3>1. \A m \in 1 .. Len(cs) : ~ (cs[m].id = id /\ t.status[m] \in {"queued", "sent"})
        BY <1>3, <2>2 DEF Holds, Entered, InCallOrder, Complete
    <3> QED
        BY <2>3, <3>1 DEF Holds, Entered, InCallOrder, Complete
  <2>5. \A base \in Rows : Project(base, << >>) = base
    <3>1. << >> \in Seq(Entries) /\ \A i \in DOMAIN << >> : ~ << >>[i].optimistic
        OBVIOUS
    <3>2. \A e \in Entries : IsEntry(e, Mutations)
        BY EntriesAreEntries DEF Entries
    <3> QED
        BY <3>1, <3>2, ProjectPlain DEF Rows, Bounded
  <2>6. Projects(NoLane)
    <3>1. Absent \in Rows
        BY RowsTyped
    <3> QED
        BY <2>3, <2>5, <3>1 DEF Projects
  <2>7. Busy(NoLane) /\ Sends(s, t, id, cs)
      BY <2>2, <2>3 DEF Busy, Sends
  <2>8. Remembered(s) => Remembered(t)
      BY <2>2, <2>3 DEF Remembered
  <2>9. ASSUME NEW row, RowShown(lane, row) PROVE RowShown(NoLane, row)
    <3>1. CASE ~ lane.open
        BY <2>3, <2>9, <3>1 DEF RowShown
    <3>2. CASE lane.open
      <4>1. lane.visible = lane.base
          BY <1>1, <1>3, <2>5 DEF Projects, Lanes, Lane, Rows
      <4>2. Plain(row)
          BY <2>9, <3>2, <4>1 DEF RowShown
      <4> QED
          BY <2>3, <4>2 DEF RowShown
    <3> QED
        BY <3>1, <3>2
  <2> QED
      BY <2>2, <2>4, <2>6, <2>7, <2>8, <2>9 DEF Rests, t
<1>4. CASE ~ CanTake(lane) /\ lane.entries # << >>
  <2>1. t = s
      BY <1>4 DEF Drain
  <2>2. Busy(lane)
      BY <1>4 DEF Busy, CanTake
  <2> QED
      BY <2>1, <2>2 DEF Rests, Sends
<1> QED
    BY <1>2, <1>3, <1>4

-----------------------------------------------------------------------------
(* settleQueuedMutation.                                                   *)

\* What becomes of the mutations when m is settled.
Verdict(st, m, ok, doomed) ==
    [n \in DOMAIN st |-> IF n = m THEN IF ok THEN "done" ELSE "failed"
                         ELSE IF n \in doomed THEN "cancelled"
                         ELSE st[n]]

\* The lane waits for the answer to m, the first of its entries.
Awaits(lane, id, m, cs, st) ==
    /\ Holds(lane, id, cs, st)
    /\ lane.running /\ lane.entries # << >> /\ Head(lane.entries).mutation = m

\* What is queued behind m: the rest of its lane.
Behind(rest, lane, id, m, cs, st) ==
    /\ rest \in Seq(Entries) /\ Len(rest) \in Nat /\ Len(cs) \in Nat
    /\ Len(lane.entries) = Len(rest) + 1
    /\ \A i \in 1 .. Len(rest) : rest[i] = lane.entries[i + 1]
    /\ lane.entries[1] = Head(lane.entries) /\ lane.entries[1].mutation = m
    /\ m \in 1 .. Len(cs) /\ cs[m].id = id /\ cs[m].method = Head(lane.entries).method
    /\ Head(lane.entries) \in Entries
    /\ st[m] = "sent"
    /\ \A i \in 1 .. Len(rest) :
          /\ rest[i].mutation \in 1 .. Len(cs) /\ m < rest[i].mutation
          /\ cs[rest[i].mutation].id = id
          /\ cs[rest[i].mutation].method = rest[i].method
          /\ st[rest[i].mutation] = "queued"
    /\ \A i, j \in 1 .. Len(rest) : i < j => rest[i].mutation < rest[j].mutation
    /\ \A n \in 1 .. Len(cs) :
          cs[n].id = id /\ st[n] \in {"queued", "sent"} =>
             n = m \/ \E i \in 1 .. Len(rest) : rest[i].mutation = n

LEMMA AwaitsDoes ==
    ASSUME NEW lane, lane \in Lanes, NEW id, NEW m, NEW cs, cs \in Seq(Calls), NEW st,
           Awaits(lane, id, m, cs, st)
    PROVE  Behind(Tail(lane.entries), lane, id, m, cs, st)
<1> DEFINE rest == Tail(lane.entries)
           es == lane.entries
<1>1. es \in Seq(Entries) /\ es # << >>
    BY DEF Lanes, Lane, Entries, Awaits
<1>2. /\ rest \in Seq(Entries) /\ Len(rest) = Len(es) - 1 /\ Head(es) \in Entries
      /\ \A i \in 1 .. Len(rest) : rest[i] = es[i + 1]
    BY <1>1, HeadTailProperties
<1>3. Len(es) \in Nat \ {0} /\ Len(cs) \in Nat /\ Head(es) = es[1]
    BY <1>1, EmptySeq, LenProperties
<1> HIDE DEF rest
<1>4. Len(rest) \in Nat /\ Len(es) = Len(rest) + 1
    BY <1>2, <1>3
<1>5. /\ es[1].mutation = m
      /\ m \in 1 .. Len(cs) /\ cs[m].id = id /\ cs[m].method = es[1].method /\ st[m] = "sent"
    BY <1>3 DEF Awaits, Holds, Entered
<1>6. ASSUME NEW i \in 1 .. Len(rest)
      PROVE  /\ rest[i].mutation \in 1 .. Len(cs) /\ m < rest[i].mutation
             /\ cs[rest[i].mutation].id = id
             /\ cs[rest[i].mutation].method = rest[i].method
             /\ st[rest[i].mutation] = "queued"
  <2>1. i + 1 \in 1 .. Len(es) /\ 1 \in 1 .. Len(es) /\ i + 1 # 1 /\ 1 < i + 1
      BY <1>4
  <2>2. es[1].mutation < es[i + 1].mutation
      BY <2>1 DEF Awaits, Holds, InCallOrder
  <2> QED
      BY <1>2, <1>5, <2>1, <2>2 DEF Awaits, Holds, Entered
<1>7. ASSUME NEW i \in 1 .. Len(rest), NEW j \in 1 .. Len(rest), i < j
      PROVE  rest[i].mutation < rest[j].mutation
  <2>1. i + 1 \in 1 .. Len(es) /\ j + 1 \in 1 .. Len(es) /\ i + 1 < j + 1
      BY <1>4, <1>7
  <2> QED
      BY <1>2, <2>1 DEF Awaits, Holds, InCallOrder
<1>8. ASSUME NEW n \in 1 .. Len(cs), cs[n].id = id, st[n] \in {"queued", "sent"}
      PROVE  n = m \/ \E i \in 1 .. Len(rest) : rest[i].mutation = n
  <2>1. PICK i \in 1 .. Len(es) : es[i].mutation = n
      BY <1>8 DEF Awaits, Holds, Complete
  <2>2. CASE i = 1
      BY <1>5, <2>1, <2>2
  <2>3. CASE i # 1
    <3>1. i - 1 \in 1 .. Len(rest) /\ (i - 1) + 1 = i
        BY <1>4, <2>3
    <3>2. rest[i - 1].mutation = n
        BY <1>2, <2>1, <3>1
    <3> QED
        BY <3>1, <3>2
  <2> QED
      BY <2>2, <2>3
<1> QED
    BY <1>2, <1>3, <1>4, <1>5, <1>6, <1>7, <1>8 DEF rest, Behind

\* What the settlement of m leaves of its lane, and what it cancels.
Spares(after, doomed, lane, id, m, cs, st, ok) ==
    /\ Holds(after, id, cs, Verdict(st, m, ok, doomed))
    /\ m \notin doomed
    /\ \A n \in doomed : n \in 1 .. Len(cs) /\ cs[n].id = id /\ st[n] = "queued"
    /\ \A i \in 1 .. Len(after.entries) :
          \E j \in 1 .. Len(lane.entries) : after.entries[i] = lane.entries[j]

LEMMA SettledHolds ==
    ASSUME Bounded, NEW lane, lane \in Lanes, NEW id, NEW m, NEW cs, cs \in Seq(Calls),
           NEW st, st \in [Mutations -> Statuses], Len(cs) <= MaxCalls,
           Awaits(lane, id, m, cs, st), NEW ok, ok \in BOOLEAN, NEW item, item \in Rows
    PROVE  Spares(Settle(lane, ok, item),
                  Cancelled(Head(lane.entries), ok, Tail(lane.entries)),
                  lane, id, m, cs, st, ok)
<1> DEFINE rest == Tail(lane.entries)
           entry == Head(lane.entries)
           doomed == Cancelled(entry, ok, rest)
           from == Doomed(entry, ok, rest).from
           to == Doomed(entry, ok, rest).to
           after == Settle(lane, ok, item)
           st2 == Verdict(st, m, ok, doomed)
<1>0. Behind(rest, lane, id, m, cs, st)
    BY AwaitsDoes
<1>1. /\ rest \in Seq(Entries) /\ Len(rest) \in Nat /\ Len(cs) \in Nat
      /\ Len(lane.entries) = Len(rest) + 1
      /\ \A i \in 1 .. Len(rest) : rest[i] = lane.entries[i + 1]
      /\ m \in 1 .. Len(cs) /\ cs[m].id = id /\ st[m] = "sent" /\ entry \in Entries
    BY <1>0 DEF Behind
<1>2. \A i \in 1 .. Len(rest) :
         /\ rest[i].mutation \in 1 .. Len(cs) /\ m < rest[i].mutation
         /\ cs[rest[i].mutation].id = id
         /\ cs[rest[i].mutation].method = rest[i].method
         /\ st[rest[i].mutation] = "queued"
    BY <1>0 DEF Behind
<1>3. \A i, j \in 1 .. Len(rest) : i < j => rest[i].mutation < rest[j].mutation
    BY <1>0 DEF Behind
<1>4. \A n \in 1 .. Len(cs) :
         cs[n].id = id /\ st[n] \in {"queued", "sent"} =>
            n = m \/ \E i \in 1 .. Len(rest) : rest[i].mutation = n
    BY <1>0 DEF Behind
<1>5. /\ after \in Lanes /\ ~ after.running
      /\ after.entries = Spared(entry, ok, rest)
  <2>1. lane.entries # << >>
      BY DEF Awaits
  <2> QED
      BY <2>1, SettleDoes DEF Lanes, Bounded, Rows
<1>6. PICK a, b \in Nat :
         /\ Stretch(Spared(entry, ok, rest), rest, a, b)
         /\ \A i \in 1 .. Len(rest) : (a <= i /\ i <= b) <=> ~ (from <= i /\ i <= to)
    BY <1>1, SparedIsStretch
<1>7. from \in Nat /\ to \in Nat /\ 1 <= from /\ to <= Len(rest)
  <2>1. FirstCreate(rest) \in 1 .. Len(rest) + 1
      BY <1>1, FirstCreateIsFirst
  <2> QED
      BY <1>1, <2>1 DEF Doomed
<1>8. doomed = { rest[i].mutation : i \in from .. to }
    BY DEF Cancelled
<1> HIDE DEF rest, entry, doomed, from, to, after
<1>9. \A i \in from .. to : i \in 1 .. Len(rest)
    BY <1>1, <1>7
<1>10. \A n \in doomed : n \in 1 .. Len(cs) /\ cs[n].id = id /\ st[n] = "queued" /\ m < n
    BY <1>2, <1>8, <1>9
<1>11. m \notin doomed
    BY <1>1, <1>10
<1>12. /\ a \in 1 .. Len(rest) + 1 /\ b \in 0 .. Len(rest) /\ a <= b + 1
       /\ Len(after.entries) = b - a + 1
       /\ \A i \in 1 .. Len(after.entries) : after.entries[i] = rest[a + i - 1]
    BY <1>5, <1>6 DEF Stretch
<1>13. \A i \in 1 .. Len(after.entries) : a + i - 1 \in 1 .. Len(rest) /\ a <= a + i - 1 /\ a + i - 1 <= b
    BY <1>1, <1>12
<1>14. \A i \in 1 .. Len(rest) : a <= i /\ i <= b => rest[i].mutation \notin doomed
  <2> SUFFICES ASSUME NEW i \in 1 .. Len(rest), a <= i, i <= b, rest[i].mutation \in doomed
               PROVE  FALSE
      OBVIOUS
  <2>1. PICK j \in from .. to : rest[j].mutation = rest[i].mutation
      BY <1>8
  <2>2. j \in 1 .. Len(rest) /\ from <= j /\ j <= to
      BY <1>7, <1>9
  <2>3. i # j
      BY <1>6, <2>2
  <2>4. rest[i].mutation \in Nat
      BY <1>1, <1>2
  <2>5. i < j \/ j < i
      BY <2>2, <2>3
  <2> QED
      BY <1>3, <2>1, <2>2, <2>4, <2>5
<1>15. DOMAIN st = Mutations /\ 1 .. Len(cs) \subseteq Mutations
    BY <1>1 DEF Mutations, Bounded
<1>16. \A n \in 1 .. Len(cs) : st2[n] = IF n = m THEN IF ok THEN "done" ELSE "failed"
                                        ELSE IF n \in doomed THEN "cancelled" ELSE st[n]
    BY <1>15 DEF Verdict
<1> HIDE DEF st2
<1>17. Entered(after, id, cs, st2)
  <2>1. ASSUME NEW i \in 1 .. Len(after.entries)
        PROVE  LET e == after.entries[i]
               IN  /\ e.mutation \in 1 .. Len(cs)
                   /\ cs[e.mutation].id = id /\ cs[e.mutation].method = e.method
                   /\ st2[e.mutation] = "queued"
    <3>1. after.entries[i] = rest[a + i - 1] /\ a + i - 1 \in 1 .. Len(rest)
          /\ a <= a + i - 1 /\ a + i - 1 <= b
        BY <1>12, <1>13
    <3> DEFINE k == a + i - 1
    <3> HIDE DEF k
    <3>2. after.entries[i] = rest[k] /\ k \in 1 .. Len(rest) /\ a <= k /\ k <= b
        BY <3>1 DEF k
    <3>3. /\ rest[k].mutation \in 1 .. Len(cs) /\ m < rest[k].mutation
          /\ cs[rest[k].mutation].id = id /\ cs[rest[k].mutation].method = rest[k].method
          /\ st[rest[k].mutation] = "queued" /\ rest[k].mutation \notin doomed
        BY <1>2, <1>14, <3>2
    <3>4. st2[rest[k].mutation] = "queued"
        BY <1>1, <1>16, <3>3
    <3> QED
        BY <3>2, <3>3, <3>4
  <2> QED
      BY <1>5, <2>1 DEF Entered
<1>18. InCallOrder(after)
  <2> SUFFICES ASSUME NEW i \in 1 .. Len(after.entries), NEW j \in 1 .. Len(after.entries), i < j
               PROVE  after.entries[i].mutation < after.entries[j].mutation
      BY DEF InCallOrder
  <2>1. a + i - 1 < a + j - 1 /\ a + i - 1 \in 1 .. Len(rest) /\ a + j - 1 \in 1 .. Len(rest)
      BY <1>13
  <2> QED
      BY <1>3, <1>12, <2>1
<1>19. Complete(after, id, cs, st2)
  <2> SUFFICES ASSUME NEW n \in 1 .. Len(cs), cs[n].id = id, st2[n] \in {"queued", "sent"}
               PROVE  \E i \in 1 .. Len(after.entries) : after.entries[i].mutation = n
      BY DEF Complete
  <2>1. n # m /\ n \notin doomed /\ st[n] \in {"queued", "sent"}
      BY <1>16
  <2>2. PICK j \in 1 .. Len(rest) : rest[j].mutation = n
      BY <1>4, <2>1
  <2>3. ~ (from <= j /\ j <= to)
    <3> SUFFICES ASSUME from <= j, j <= to PROVE FALSE
        OBVIOUS
    <3>1. j \in from .. to
        BY <1>7
    <3> QED
        BY <1>8, <2>1, <2>2, <3>1
  <2>4. a <= j /\ j <= b
      BY <1>6, <2>3
  <2>5. j - a + 1 \in 1 .. Len(after.entries) /\ a + (j - a + 1) - 1 = j
      BY <1>1, <1>12, <2>4
  <2>6. after.entries[j - a + 1].mutation = n
      BY <1>12, <2>2, <2>5
  <2> QED
      BY <2>5, <2>6
<1>20. \A i \in 1 .. Len(after.entries) :
          \E j \in 1 .. Len(lane.entries) : after.entries[i] = lane.entries[j]
  <2> SUFFICES ASSUME NEW i \in 1 .. Len(after.entries)
               PROVE  \E j \in 1 .. Len(lane.entries) : after.entries[i] = lane.entries[j]
      OBVIOUS
  <2>1. a + i - 1 \in 1 .. Len(rest) /\ after.entries[i] = rest[a + i - 1]
      BY <1>12, <1>13
  <2>2. a + i \in 1 .. Len(lane.entries) /\ (a + i - 1) + 1 = a + i
      BY <1>1, <2>1
  <2>3. after.entries[i] = lane.entries[a + i]
      BY <1>1, <2>1, <2>2
  <2> QED
      BY <2>2, <2>3
<1>21. Holds(after, id, cs, st2)
    BY <1>17, <1>18, <1>19 DEF Holds
<1> QED
    BY <1>10, <1>11, <1>20, <1>21 DEF rest, entry, doomed, after, st2, Spares

\* The rest of what it leaves.
Resettled(after, lane, ok, item) ==
    /\ after \in Lanes /\ after.open = lane.open /\ after.owed = lane.owed
    /\ after.base = lane.base \/ after.base = Absent \/ after.base = item
    /\ Projects(lane) /\ lane.open => Projects(after)

LEMMA LaneSettles ==
    ASSUME Bounded, NEW lane, lane \in Lanes, lane.entries # << >>, NEW ok, ok \in BOOLEAN,
           NEW item, item \in Rows
    PROVE  Resettled(Settle(lane, ok, item), lane, ok, item)
<1> DEFINE after == Settle(lane, ok, item)
<1>1. /\ after \in Lanes /\ after.open = lane.open /\ after.owed = lane.owed
      /\ after.base = IF ~ ok THEN lane.base
                      ELSE IF Head(lane.entries).method = "remove" THEN Absent ELSE item
      /\ after.visible = Project(after.base, after.entries)
      /\ lane.seen => after.seen
      /\ Present(after.base) => after.seen \/ after.base = lane.base
    BY SettleDoes DEF Lanes, Bounded, Rows
<1> HIDE DEF after
<1>2. Projects(lane) /\ lane.open => Projects(after)
    BY <1>1 DEF Projects
<1> QED
    BY <1>1, <1>2 DEF Resettled, after

\* What a settlement cancels: everything queued behind a failed create, and what is
\* queued behind an acknowledged remove with no create in between.
LEMMA DependantsAreDoomed ==
    ASSUME NEW lane \in Lanes, NEW id \in Id, NEW m, NEW cs \in Seq(Calls), NEW st,
           Awaits(lane, id, m, cs, st), NEW ok \in BOOLEAN,
           NEW n \in 1 .. Len(cs), cs[n].id = id, st[n] = "queued",
           \/ ~ ok /\ cs[m].method = "create"
           \/ /\ ok /\ cs[m].method = "remove"
              /\ \A k \in m + 1 .. n : cs[k].id = id => cs[k].method # "create"
    PROVE  n \in Cancelled(Head(lane.entries), ok, Tail(lane.entries))
<1> DEFINE rest == Tail(lane.entries)
           entry == Head(lane.entries)
           doomed == Doomed(entry, ok, rest)
<1>0. Behind(rest, lane, id, m, cs, st)
    BY AwaitsDoes
<1>1. /\ rest \in Seq(Entries) /\ Len(rest) \in Nat /\ Len(cs) \in Nat
      /\ m \in 1 .. Len(cs) /\ cs[m].method = entry.method /\ st[m] = "sent"
    BY <1>0 DEF Behind
<1>2. \A i \in 1 .. Len(rest) :
         /\ rest[i].mutation \in 1 .. Len(cs) /\ m < rest[i].mutation
         /\ cs[rest[i].mutation].id = id
         /\ cs[rest[i].mutation].method = rest[i].method
    BY <1>0 DEF Behind
<1>3. \A i, j \in 1 .. Len(rest) : i < j => rest[i].mutation < rest[j].mutation
    BY <1>0 DEF Behind
<1>4. PICK j \in 1 .. Len(rest) : rest[j].mutation = n
    BY <1>0, <1>1 DEF Behind
<1>5. j \in doomed.from .. doomed.to
  <2>0. n \in Nat /\ m \in Nat /\ \A i \in 1 .. Len(rest) : rest[i].mutation \in Nat
    <3> HIDE DEF rest, entry, doomed
    <3> QED
        BY <1>1, <1>2
  <2>1. CASE ~ ok /\ cs[m].method = "create"
      BY <1>1, <2>1 DEF Doomed
  <2>2. CASE /\ ok /\ cs[m].method = "remove"
             /\ \A k \in m + 1 .. n : cs[k].id = id => cs[k].method # "create"
    <3>1. doomed = [from |-> 1, to |-> FirstCreate(rest) - 1]
        BY <1>1, <2>2 DEF Doomed
    <3>2. /\ FirstCreate(rest) \in 1 .. Len(rest) + 1
          /\ FirstCreate(rest) <= Len(rest) => rest[FirstCreate(rest)].method = "create"
        BY <1>1, FirstCreateIsFirst
    <3>3. j < FirstCreate(rest)
      <4> SUFFICES ASSUME FirstCreate(rest) <= j PROVE FALSE
          BY <3>2
      <4> HIDE DEF rest, entry, doomed
      <4> DEFINE c == FirstCreate(rest)
      <4>1. c \in 1 .. Len(rest) /\ rest[c].method = "create"
          BY <1>1, <3>2
      <4>2. c = j \/ c < j
          BY <4>1
      <4> HIDE DEF c
      <4>3. rest[c].mutation \in m + 1 .. n
        <5>1. m < rest[c].mutation /\ m \in Nat /\ n \in Nat /\ rest[c].mutation \in Nat
            BY <1>2, <2>0, <4>1
        <5>2. rest[c].mutation <= n
          <6>1. CASE c = j
              BY <1>4, <5>1, <6>1
          <6>2. CASE c < j
            <7>1. rest[c].mutation < rest[j].mutation
                BY <1>3, <4>1, <6>2
            <7> QED
                BY <1>1, <1>4, <5>1, <7>1
          <6> QED
              BY <4>2, <6>1, <6>2
        <5> QED
            BY <1>1, <5>1, <5>2
      <4> QED
          BY <1>2, <2>2, <4>1, <4>3
    <3> QED
        BY <1>1, <3>1, <3>2, <3>3
  <2> QED
      BY <2>1, <2>2
<1> QED
    BY <1>4, <1>5 DEF Cancelled

-----------------------------------------------------------------------------
(* The invariant.                                                          *)

PlainRows == { item \in Rows : Plain(item) }

Messages ==
    [kind : {"answer"}, mutation : Mutations, ok : BOOLEAN, item : PlainRows]
    \union [kind : {"event"}, id : Id, type : {"created", "patched", "removed"},
            item : PlainRows]

Typed ==
    /\ setup \in Setups
    /\ State \in Client
    /\ calls \in Seq(Calls) /\ Len(calls) <= MaxCalls
    /\ \A m \in Mutations : status[m] # "none" <=> m <= Len(calls)
    /\ server \in [Id -> Revs] /\ clock \in 1 .. MaxRev
    /\ requests \subseteq Mutations
    /\ wire \in Seq(Messages)
    /\ sent \in Seq(Mutations)
    /\ unseen \in BOOLEAN

LanesRest == \A id \in Id : Rests(State, id, calls)

\* Where no event waits, every row shows its lane, and without a lane no intent.
RowsShown(s) ==
    ~ setup.batching =>
        /\ s.queue = << >>
        /\ \A id \in Id : RowShown(s.lanes[id], s.cache[id])

\* A request and its answer are about a mutation that has been sent and not
\* settled, and there is one of the two at most; what was sent stays sent.
InFlight ==
    /\ \A m \in requests : status[m] = "sent"
    /\ \A i \in 1 .. Len(wire) :
          wire[i].kind = "answer" =>
             status[wire[i].mutation] = "sent" /\ wire[i].mutation \notin requests
    /\ \A i, j \in 1 .. Len(wire) :
          i < j /\ wire[i].kind = "answer" /\ wire[j].kind = "answer" =>
             wire[i].mutation # wire[j].mutation
    /\ \A i \in 1 .. Len(sent) : status[sent[i]] \in {"sent", "done", "failed"}

Noticed == unseen => Remembered(State)

EntityStoreInvariant ==
    /\ Typed
    /\ LanesRest
    /\ RowsShown(State)
    /\ InFlight
    /\ Noticed

LEMMA TypedIs ==
    ASSUME Typed
    PROVE  /\ Bounded
           /\ lanes \in [Id -> Lanes] /\ cache \in [Id -> Rows] /\ queue \in Seq(Events)
           /\ reconcile \in BOOLEAN /\ fetch \in Fetches /\ status \in [Mutations -> Statuses]
           /\ State.lanes = lanes /\ State.cache = cache /\ State.queue = queue
           /\ State.reconcile = reconcile /\ State.fetch = fetch /\ State.status = status
           /\ State.started = << >> /\ State.published = FALSE
           /\ Len(calls) \in 0 .. MaxCalls /\ 1 .. Len(calls) \subseteq Mutations
           /\ \A m \in 1 .. Len(calls) : calls[m] \in Calls /\ calls[m].id \in Id
           /\ setup.batching \in BOOLEAN
<1>1. Bounded /\ setup.batching \in BOOLEAN
    BY SetupsAreBounded DEF Typed, Bounded
<1>2. /\ State.lanes = lanes /\ State.cache = cache /\ State.queue = queue
      /\ State.reconcile = reconcile /\ State.fetch = fetch /\ State.status = status
      /\ State.started = << >> /\ State.published = FALSE
    BY DEF State
<1>3. /\ lanes \in [Id -> Lanes] /\ cache \in [Id -> Rows] /\ queue \in Seq(Events)
      /\ reconcile \in BOOLEAN /\ fetch \in Fetches /\ status \in [Mutations -> Statuses]
    BY <1>2 DEF Typed, Client
<1>4. Len(calls) \in Nat /\ \A m \in 1 .. Len(calls) : calls[m] \in Calls
    BY LenProperties, ElementOfSeq DEF Typed
<1>5. Len(calls) \in 0 .. MaxCalls /\ 1 .. Len(calls) \subseteq Mutations
    BY <1>1, <1>4 DEF Typed, Bounded, Mutations
<1> QED
    BY <1>1, <1>2, <1>3, <1>4, <1>5 DEF Calls

\* A mutation that has been sent is the one its lane waits for.
LEMMA SentIsAwaited ==
    ASSUME Typed, LanesRest, NEW m, m \in 1 .. Len(calls), status[m] = "sent"
    PROVE  /\ calls[m].id \in Id
           /\ Awaits(lanes[calls[m].id], calls[m].id, m, calls, status)
           /\ lanes[calls[m].id].open
<1> DEFINE id == calls[m].id
           lane == lanes[id]
<1>1. id \in Id /\ lane \in Lanes /\ State.lanes = lanes /\ State.status = status
    BY TypedIs
<1>2. Holds(lane, id, calls, status) /\ Projects(lane)
    BY <1>1 DEF LanesRest, Rests
<1>3. PICK i \in 1 .. Len(lane.entries) : lane.entries[i].mutation = m
    BY <1>2 DEF Holds, Complete
<1>4. i = 1 /\ lane.running
    BY <1>2, <1>3 DEF Holds, Entered
<1>5. lane.entries \in Seq(Entries) /\ lane.entries # << >> /\ Head(lane.entries) = lane.entries[1]
  <2>1. lane.entries \in Seq(Entries) /\ 1 \in 1 .. Len(lane.entries)
      BY <1>1, <1>3, <1>4 DEF Lanes, Lane, Entries
  <2> QED
      BY <2>1, EmptySeq, LenProperties
<1>6. lane.open
    BY <1>2, <1>4 DEF Projects, NoLane
<1> QED
    BY <1>1, <1>2, <1>3, <1>4, <1>5, <1>6 DEF Awaits

\* A row that shows a lane shows what becomes of it, once the projection is applied
\* if it has changed.
LEMMA RowFollows ==
    ASSUME Bounded, NEW id \in Id, NEW lane \in Lanes, NEW after \in Lanes,
           NEW newBase \in BOOLEAN, NEW row, NEW row2,
           lane.open, after.open, Plain(after.base), RowShown(lane, row),
           IF ProjectionEvents(id, lane.visible, after.visible, newBase) = << >>
           THEN row2 = row ELSE row2 = after.visible,
           /\ \A i \in 1 .. Len(lane.entries) : ~ lane.entries[i].optimistic
           /\ Present(lane.visible)
           /\ ProjectionEvents(id, lane.visible, after.visible, newBase) = << >>
           => \A i \in 1 .. Len(after.entries) : ~ after.entries[i].optimistic
    PROVE  RowShown(after, row2)
<1>1. lane.visible \in Rows /\ after.visible \in Rows
    BY DEF Lanes, Lane, Rows
<1>2. CASE ProjectionEvents(id, lane.visible, after.visible, newBase) # << >>
    BY <1>2 DEF RowShown
<1>3. CASE ProjectionEvents(id, lane.visible, after.visible, newBase) = << >>
  <2>1. lane.visible = after.visible
    <3> DEFINE events == ProjectionEvents(id, lane.visible, after.visible, newBase)
    <3>1. \/ events = << >> /\ lane.visible = after.visible
          \/ \E e \in Events : events = << e >>
        BY <1>1, ProjectionEventsAre
    <3>2. \A e : << e >> # << >>
        OBVIOUS
    <3> QED
        BY <1>3, <3>1, <3>2
  <2> QED
      BY <1>3, <2>1 DEF RowShown
<1> QED
    BY <1>2, <1>3

-----------------------------------------------------------------------------
(* An operation on the lane of one entity: it changes the lane, shows its  *)
(* projection and drains it.                                               *)

\* What becomes of the mutations: m alone is settled.
Moves(s, cs, m) ==
    \A n \in Mutations :
       /\ status[n] \in {"sent", "done", "failed"} => s.status[n] \in {"sent", "done", "failed"}
       /\ status[n] = "sent" /\ n # m => s.status[n] = "sent"
       /\ s.status[n] # "none" <=> n <= Len(cs)

\* What was published is remembered.
Remembers(s) ==
    /\ Remembered(State) => Remembered(s)
    /\ s.published => Remembered(s)

\* Before the lane is drained.
Pending(s, id, cs, m) ==
    /\ s \in Client /\ s.started = << >>
    /\ Holds(s.lanes[id], id, cs, s.status) /\ Projects(s.lanes[id])
    /\ \A i \in Id \ {id} : Rests(s, i, cs)
    /\ Moves(s, cs, m)
    /\ \A n \in Mutations : s.status[n] = "queued" => status[n] \in {"none", "queued"}
    /\ Remembers(s)

\* After.
Concludes(s, cs, m) ==
    /\ s \in Client
    /\ \A i \in Id : Rests(s, i, cs)
    /\ Moves(s, cs, m)
    /\ \/ s.started = << >>
       \/ \E h \in Mutations : /\ s.started = << h >>
                               /\ status[h] \in {"none", "queued"} /\ s.status[h] = "sent"
    /\ RowsShown(s)
    /\ Remembers(s)

LEMMA DrainConcludes ==
    ASSUME Typed, NEW s, NEW id, id \in Id, NEW cs, cs \in Seq(Calls), Len(cs) <= MaxCalls, NEW m,
           Pending(s, id, cs, m), RowsShown(s)
    PROVE  /\ Concludes(Drain(s, id), cs, m)
           /\ \A n \in 1 .. Len(cs) :
                 s.status[n] # "queued" => Drain(s, id).status[n] = s.status[n]
<1> DEFINE t == Drain(s, id)
<1>1. /\ s \in Client /\ Holds(s.lanes[id], id, cs, s.status) /\ Projects(s.lanes[id]) /\ Bounded
      /\ \A i \in Id \ {id} : Rests(s, i, cs)
    BY TypedIs DEF Pending
<1>2. /\ t \in Client /\ t.cache = s.cache /\ t.queue = s.queue
      /\ t.published = s.published
      /\ \A i \in Id \ {id} : t.lanes[i] = s.lanes[i]
      /\ Rests(t, id, cs) /\ Sends(s, t, id, cs)
      /\ Remembered(s) => Remembered(t)
      /\ \A row : RowShown(s.lanes[id], row) => RowShown(t.lanes[id], row)
    BY <1>1, DrainDoes
<1> HIDE DEF t
<1>3. Len(cs) \in Nat /\ 1 .. Len(cs) \subseteq Mutations
  <2>1. Len(cs) \in Nat
      BY LenProperties
  <2> QED
      BY <1>1, <2>1 DEF Mutations, Bounded
<1>4. s.lanes \in [Id -> Lanes] /\ s.status \in [Mutations -> Statuses] /\ s.started = << >>
    BY <1>1 DEF Client, Pending
<1>5. ASSUME NEW i \in Id \ {id} PROVE Rests(t, i, cs)
  <2>1. Holds(s.lanes[i], i, cs, s.status) /\ Projects(s.lanes[i]) /\ Busy(s.lanes[i])
      BY <1>1 DEF Rests
  <2>2. \A n \in 1 .. Len(cs) : cs[n].id = i => t.status[n] = s.status[n]
      BY <1>2, <1>3, <1>4 DEF Sends
  <2>3. s.lanes[i] \in Lanes /\ i \in Id
      BY <1>4
  <2>4. Holds(s.lanes[i], i, cs, t.status)
      BY <2>1, <2>2, <2>3, HoldsKept
  <2> QED
      BY <1>2, <2>1, <2>4 DEF Rests
<1>6. RowsShown(t)
    BY <1>2 DEF RowsShown
<1>7. Moves(t, cs, m) /\ \A n \in 1 .. Len(cs) : s.status[n] # "queued" => t.status[n] = s.status[n]
  <2>1. \A n \in Mutations : \/ t.status[n] = s.status[n]
                             \/ s.status[n] = "queued" /\ t.status[n] = "sent"
      BY <1>2, <1>4 DEF Sends
  <2> QED
      BY <1>3, <2>1 DEF Pending, Moves
<1>8. \/ t.started = << >>
      \/ \E h \in Mutations : /\ t.started = << h >>
                              /\ status[h] \in {"none", "queued"} /\ t.status[h] = "sent"
  <2>1. CASE t.status = s.status /\ t.started = s.started
      BY <1>4, <2>1
  <2>2. ASSUME NEW h \in 1 .. Len(cs), s.status[h] = "queued",
               t.status = [s.status EXCEPT ![h] = "sent"], t.started = Append(s.started, h)
        PROVE  h \in Mutations /\ t.started = << h >>
               /\ status[h] \in {"none", "queued"} /\ t.status[h] = "sent"
    <3>1. h \in Mutations /\ t.started = << h >>
        BY <1>3, <1>4, <2>2
    <3> QED
        BY <1>4, <2>2, <3>1 DEF Pending
  <2> QED
      BY <1>2, <2>1, <2>2 DEF Sends
<1>9. Remembers(t)
    BY <1>2 DEF Pending, Remembers
<1>10. \A i \in Id : Rests(t, i, cs)
    BY <1>2, <1>5
<1>11. Concludes(t, cs, m)
    BY <1>2, <1>6, <1>7, <1>8, <1>9, <1>10 DEF Concludes
<1> QED
    BY <1>7, <1>11 DEF t

\* Showing what the lane has become.
LEMMA ShowPending ==
    ASSUME Typed, NEW s, NEW id, id \in Id, NEW cs, cs \in Seq(Calls), NEW m,
           Pending(s, id, cs, m), NEW lane, lane \in Lanes, NEW newBase, newBase \in BOOLEAN,
           s.lanes[id].open, lane.open,
           ~ setup.batching =>
              /\ s.queue = << >>
              /\ \A i \in Id \ {id} : RowShown(s.lanes[i], s.cache[i])
              /\ RowShown(lane, s.cache[id])
              /\ Plain(s.lanes[id].base)
              /\ \/ \E i \in 1 .. Len(lane.entries) : lane.entries[i].optimistic
                 \/ ~ Present(lane.visible)
                 \/ ProjectionEvents(id, lane.visible, s.lanes[id].visible, newBase) # << >>
                 \/ \A i \in 1 .. Len(s.lanes[id].entries) : ~ s.lanes[id].entries[i].optimistic
    PROVE  LET t == ShowProjection(s, id, lane.visible, newBase)
           IN  /\ Pending(t, id, cs, m) /\ RowsShown(t) /\ t.status = s.status
               /\ Busy(s.lanes[id]) => Busy(t.lanes[id])
<1> DEFINE t == ShowProjection(s, id, lane.visible, newBase)
           next == s.lanes[id].visible
<1>1. /\ s \in Client /\ Bounded /\ s.lanes \in [Id -> Lanes]
      /\ lane.visible \in Rows
    BY TypedIs DEF Pending, Client, Lanes, Lane, Rows
<1>2. /\ t \in Client /\ Shows(s, t)
      /\ s.queue = << >> =>
            /\ t.queue = << >>
            /\ \A i \in Id \ {id} : t.cache[i] = s.cache[i]
            /\ IF ProjectionEvents(id, lane.visible, next, newBase) = << >>
               THEN t.cache[id] = s.cache[id] ELSE t.cache[id] = next
  <2> HIDE DEF t
  <2>1. t = ShowProjection(s, id, lane.visible, newBase)
      BY DEF t
  <2> QED
      BY <1>1, <2>1, ShowProjectionDoes
<1> HIDE DEF t
<1>3. /\ t.status = s.status /\ t.started = s.started
      /\ \A i \in Id : SameLane(s.lanes[i], t.lanes[i])
      /\ Remembered(s) => Remembered(t)
      /\ t.published => s.published \/ Remembered(t)
    BY <1>2 DEF Shows
<1>4. \A i \in Id : /\ Projects(s.lanes[i]) => Projects(t.lanes[i])
                    /\ Busy(s.lanes[i]) => Busy(t.lanes[i])
                    /\ \A row : RowShown(s.lanes[i], row) => RowShown(t.lanes[i], row)
                    /\ \A cs2, st : Holds(s.lanes[i], i, cs2, st) => Holds(t.lanes[i], i, cs2, st)
                    /\ t.lanes[i].open = s.lanes[i].open
    BY <1>1, <1>3, SameLaneKeeps
<1>5. Pending(t, id, cs, m)
  <2>1. Remembers(t)
      BY <1>3 DEF Pending, Remembers
  <2>2. Moves(t, cs, m)
      BY <1>3 DEF Pending, Moves
  <2>3. \A i \in Id \ {id} : Rests(t, i, cs)
      BY <1>3, <1>4 DEF Pending, Rests
  <2>4. Holds(t.lanes[id], id, cs, t.status) /\ Projects(t.lanes[id])
      BY <1>3, <1>4 DEF Pending
  <2> QED
      BY <1>2, <1>3, <2>1, <2>2, <2>3, <2>4 DEF Pending
<1>6. RowsShown(t)
  <2> SUFFICES ASSUME ~ setup.batching
               PROVE  t.queue = << >> /\ \A i \in Id : RowShown(t.lanes[i], t.cache[i])
      BY DEF RowsShown
  <2>1. /\ s.queue = << >> /\ RowShown(lane, s.cache[id]) /\ Plain(s.lanes[id].base)
        /\ \A i \in Id \ {id} : RowShown(s.lanes[i], s.cache[i])
      OBVIOUS
  <2>2. \A i \in Id \ {id} : RowShown(t.lanes[i], t.cache[i])
      BY <1>2, <1>4, <2>1
  <2>3. RowShown(s.lanes[id], t.cache[id])
    <3>1. IF ProjectionEvents(id, lane.visible, next, newBase) = << >>
          THEN t.cache[id] = s.cache[id] ELSE t.cache[id] = next
        BY <1>2, <2>1
    <3> QED
        BY <1>1, <2>1, <3>1, RowFollows
  <2> QED
      BY <1>2, <1>4, <2>1, <2>2, <2>3
<1>7. Busy(s.lanes[id]) => Busy(t.lanes[id])
    BY <1>4
<1> QED
    BY <1>3, <1>5, <1>6, <1>7 DEF t

\* The settlement of a mutation that has been sent.
LEMMA SettledDoes ==
    ASSUME Typed, LanesRest, RowsShown(State), NEW m, m \in 1 .. Len(calls), status[m] = "sent",
           NEW ok, ok \in BOOLEAN, NEW item, item \in PlainRows
    PROVE  LET s == Settled(m, ok, item)
           IN  /\ Concludes(s, calls, m)
               /\ s.status[m] = IF ok THEN "done" ELSE "failed"
               /\ \A n \in 1 .. Len(calls) :
                     n \in Cancelled(Head(lanes[calls[m].id].entries), ok,
                                     Tail(lanes[calls[m].id].entries))
                     => s.status[n] = "cancelled"
<1> DEFINE id == calls[m].id
           lane == lanes[id]
           after == Settle(lane, ok, item)
           doomed == Cancelled(Head(lane.entries), ok, Tail(lane.entries))
           st == Verdict(status, m, ok, doomed)
           ack == << [mode |-> "server", id |-> id, type |-> EventType(calls[m].method),
                      item |-> item] >>
           journal == IF ok THEN Journal(fetch, ack) ELSE fetch
           changed == ProjectionEvents(id, lane.visible, after.visible, ok)
           s1 == [State EXCEPT !.lanes[id] = after, !.fetch = journal, !.status = st]
           s2 == ShowProjection(s1, id, lane.visible, ok)
           s3 == IF changed = << >> /\ ok /\ after.entries = << >>
                 THEN [s2 EXCEPT !.reconcile = TRUE, !.published = TRUE]
                 ELSE s2
<1>1. /\ Bounded /\ State \in Client /\ lanes \in [Id -> Lanes] /\ cache \in [Id -> Rows]
      /\ queue \in Seq(Events)
      /\ fetch \in Fetches /\ status \in [Mutations -> Statuses] /\ item \in Rows
      /\ calls \in Seq(Calls) /\ calls[m] \in Calls /\ Len(calls) <= MaxCalls
      /\ 1 .. Len(calls) \subseteq Mutations
  <2>1. \A n \in 1 .. Len(calls) : calls[n] \in Calls
      BY TypedIs
  <2> QED
      BY <2>1, TypedIs DEF Typed, PlainRows
<1>2. /\ State.lanes = lanes /\ State.cache = cache /\ State.queue = queue
      /\ State.reconcile = reconcile /\ State.fetch = fetch /\ State.status = status
      /\ State.started = << >> /\ State.published = FALSE
    BY DEF State
<1>3. id \in Id /\ Awaits(lane, id, m, calls, status) /\ lane.open /\ lane \in Lanes
    BY <1>1, SentIsAwaited
<1>4. Projects(lane)
    BY <1>2, <1>3 DEF LanesRest, Rests
<1>5. Cancelled(Entry(m), ok, Tail(lane.entries)) = doomed
  <2>1. Head(lane.entries).method = calls[m].method
    <3>1. Behind(Tail(lane.entries), lane, id, m, calls, status)
        BY <1>1, <1>3, AwaitsDoes
    <3> QED
        BY <3>1 DEF Behind
  <2>2. Entry(m).method = calls[m].method
      BY DEF Entry
  <2> QED
      BY <2>1, <2>2 DEF Cancelled, Doomed
<1>6. Settled(m, ok, item) = Drain(s3, id)
  <2> DEFINE t1 == [State EXCEPT
                      !.lanes[id] = after,
                      !.fetch = IF ok THEN Journal(@, ack) ELSE @,
                      !.status = [n \in DOMAIN status |->
                                     IF n = m THEN IF ok THEN "done" ELSE "failed"
                                     ELSE IF n \in Cancelled(Entry(m), ok, Tail(lane.entries))
                                     THEN "cancelled"
                                     ELSE status[n]]]
             t2 == ShowProjection(t1, id, lane.visible, ok)
             t3 == IF changed = << >> /\ ok /\ after.entries = << >>
                   THEN [t2 EXCEPT !.reconcile = TRUE, !.published = TRUE]
                   ELSE t2
  <2>1. Settled(m, ok, item) = Drain(t3, id)
      BY DEF Settled
  <2>2. t1 = s1
    <3> HIDE DEF after, doomed, lane, id, ack
    <3>1. st = [n \in DOMAIN status |-> IF n = m THEN IF ok THEN "done" ELSE "failed"
                                        ELSE IF n \in Cancelled(Entry(m), ok, Tail(lane.entries))
                                        THEN "cancelled"
                                        ELSE status[n]]
        BY <1>5 DEF Verdict
    <3> HIDE DEF st
    <3> QED
        BY <1>2, <3>1 DEF State
  <2> HIDE DEF t1, s1
  <2> QED
      BY <2>1, <2>2
<1>7. /\ Holds(after, id, calls, st)
      /\ m \notin doomed
      /\ \A n \in doomed : n \in 1 .. Len(calls) /\ calls[n].id = id /\ status[n] = "queued"
      /\ \A i \in 1 .. Len(after.entries) :
            \E j \in 1 .. Len(lane.entries) : after.entries[i] = lane.entries[j]
  <2>1. Spares(after, doomed, lane, id, m, calls, status, ok)
      BY <1>1, <1>3, SettledHolds
  <2> HIDE DEF after, doomed, lane, id
  <2> QED
      BY <2>1 DEF Spares
<1>8. /\ after \in Lanes /\ after.open /\ after.owed = lane.owed
      /\ after.base = lane.base \/ Plain(after.base)
      /\ Projects(after)
  <2>1. lane.entries # << >>
      BY <1>3 DEF Awaits
  <2>2. Resettled(after, lane, ok, item)
      BY <1>1, <1>3, <2>1, LaneSettles
  <2>3. Plain(Absent) /\ Plain(item)
      BY DEF Plain, Absent, PlainRows
  <2> HIDE DEF after, lane, id
  <2> QED
      BY <1>3, <1>4, <2>2, <2>3 DEF Resettled
<1>9. ack \in Seq(Events) /\ journal \in Fetches
  <2>1. EventType(calls[m].method) \in {"created", "patched", "removed"}
      BY <1>1, RemovedIsRemove DEF Calls
  <2>2. [mode |-> "server", id |-> id, type |-> EventType(calls[m].method), item |-> item] \in Events
      BY <1>1, <1>3, <2>1 DEF Events
  <2>3. ack \in Seq(Events)
      BY <2>2
  <2> HIDE DEF ack
  <2>4. Journal(fetch, ack) \in Fetches
      BY <1>1, <2>3, JournalTyped
  <2> QED
      BY <1>1, <2>3, <2>4
<1>10. DOMAIN status = Mutations /\ st \in [Mutations -> Statuses]
  <2>1. DOMAIN status = Mutations
      BY <1>1
  <2>2. ASSUME NEW n \in Mutations
        PROVE  (IF n = m THEN IF ok THEN "done" ELSE "failed"
                ELSE IF n \in doomed THEN "cancelled" ELSE status[n]) \in Statuses
      BY <1>1 DEF Statuses
  <2> QED
      BY <2>1, <2>2 DEF Verdict
<1>11. \A n \in Mutations : st[n] = IF n = m THEN IF ok THEN "done" ELSE "failed"
                                    ELSE IF n \in doomed THEN "cancelled" ELSE status[n]
    BY <1>10 DEF Verdict
<1> HIDE DEF after, doomed, st, ack, journal, lane, id
<1>12. /\ s1 \in Client /\ s1.lanes = [lanes EXCEPT ![id] = after] /\ s1.lanes[id] = after
       /\ \A i \in Id \ {id} : s1.lanes[i] = lanes[i]
       /\ s1.cache = cache /\ s1.queue = queue /\ s1.reconcile = reconcile
       /\ s1.status = st /\ s1.started = << >> /\ s1.published = FALSE
  <2>1. s1 = [State EXCEPT !.lanes = [lanes EXCEPT ![id] = after], !.fetch = journal, !.status = st]
      BY <1>2 DEF State
  <2> QED
      BY <1>1, <1>2, <1>3, <1>8, <1>9, <1>10, <2>1 DEF Client
<1> HIDE DEF s1
<1>13. Pending(s1, id, calls, m)
  <2>1. \A i \in Id \ {id} : Rests(s1, i, calls)
    <3> SUFFICES ASSUME NEW i \in Id \ {id} PROVE Rests(s1, i, calls)
        OBVIOUS
    <3>1. Holds(lanes[i], i, calls, status) /\ Projects(lanes[i]) /\ Busy(lanes[i])
          /\ lanes[i] \in Lanes
        BY <1>1, <1>2 DEF LanesRest, Rests
    <3>2. \A n \in 1 .. Len(calls) : calls[n].id = i => st[n] = status[n]
        BY <1>1, <1>7, <1>11 DEF id
    <3>3. Holds(lanes[i], i, calls, st)
        BY <1>1, <3>1, <3>2, HoldsKept
    <3> QED
        BY <1>12, <3>1, <3>3 DEF Rests
  <2>2. Moves(s1, calls, m)
    <3> SUFFICES ASSUME NEW n \in Mutations
                 PROVE  /\ status[n] \in {"sent", "done", "failed"} =>
                              st[n] \in {"sent", "done", "failed"}
                        /\ status[n] = "sent" /\ n # m => st[n] = "sent"
                        /\ st[n] # "none" <=> n <= Len(calls)
        BY <1>12 DEF Moves
    <3>1. status[n] # "none" <=> n <= Len(calls)
        BY DEF Typed
    <3> QED
        BY <1>7, <1>11, <3>1
  <2>3. \A n \in Mutations : st[n] = "queued" => status[n] \in {"none", "queued"}
      BY <1>11
  <2>4. Remembers(s1)
    <3>1. \A i \in Id : (s1.lanes[i].open <=> lanes[i].open) /\ (s1.lanes[i].owed <=> lanes[i].owed)
      <4>1. (s1.lanes[id].open <=> lanes[id].open) /\ (s1.lanes[id].owed <=> lanes[id].owed)
          BY <1>3, <1>8, <1>12 DEF lane
      <4> QED
          BY <1>12, <4>1
    <3> QED
        BY <1>2, <1>12, <3>1 DEF Remembers, Remembered
  <2> QED
      BY <1>7, <1>8, <1>12, <2>1, <2>2, <2>3, <2>4 DEF Pending
<1>14. Pending(s2, id, calls, m) /\ RowsShown(s2) /\ s2.status = s1.status
  <2>1. (\A i \in 1 .. Len(lane.entries) : ~ lane.entries[i].optimistic)
        => (\A i \in 1 .. Len(after.entries) : ~ after.entries[i].optimistic)
      BY <1>7
  <2>2. ASSUME ~ setup.batching
        PROVE  /\ queue = << >> /\ \A i \in Id \ {id} : RowShown(lanes[i], cache[i])
               /\ RowShown(lane, cache[id]) /\ Plain(after.base)
    <3>1. queue = << >> /\ \A i \in Id : RowShown(lanes[i], cache[i])
        BY <1>2, <2>2 DEF RowsShown
    <3>2. RowShown(lane, cache[id])
        BY <1>3, <3>1 DEF lane
    <3>3. Plain(lane.base)
        BY <1>3, <3>2 DEF RowShown
    <3> QED
        BY <1>8, <3>1, <3>2, <3>3
  <2>3. \/ \E i \in 1 .. Len(lane.entries) : lane.entries[i].optimistic
        \/ \A i \in 1 .. Len(s1.lanes[id].entries) : ~ s1.lanes[id].entries[i].optimistic
      BY <1>12, <2>1
  <2>4. /\ s1.lanes[id].open
        /\ ~ setup.batching =>
              /\ s1.queue = << >>
              /\ \A i \in Id \ {id} : RowShown(s1.lanes[i], s1.cache[i])
              /\ RowShown(lane, s1.cache[id])
              /\ Plain(s1.lanes[id].base)
      BY <1>8, <1>12, <2>2
  <2> QED
      BY <1>1, <1>3, <1>13, <2>3, <2>4, ShowPending
<1> HIDE DEF s2
<1>15. Pending(s3, id, calls, m) /\ RowsShown(s3) /\ s3.status = st
  <2>1. CASE ~ (changed = << >> /\ ok /\ after.entries = << >>)
      BY <1>12, <1>14, <2>1
  <2>2. CASE changed = << >> /\ ok /\ after.entries = << >>
    <3>1. s3 = [s2 EXCEPT !.reconcile = TRUE, !.published = TRUE] /\ s2 \in Client
        BY <1>14, <2>2 DEF Pending
    <3> HIDE DEF s3
    <3>2. /\ s3 \in Client /\ s3.lanes = s2.lanes /\ s3.cache = s2.cache /\ s3.queue = s2.queue
          /\ s3.status = s2.status /\ s3.started = s2.started /\ s3.reconcile = TRUE
        BY <3>1 DEF Client
    <3>3. Remembers(s3)
        BY <3>2 DEF Remembers, Remembered
    <3>4. Moves(s3, calls, m) /\ \A i \in Id \ {id} : Rests(s3, i, calls)
        BY <1>14, <3>2 DEF Pending, Moves, Rests
    <3>5. RowsShown(s3)
        BY <1>14, <3>2 DEF RowsShown
    <3> QED
        BY <1>12, <1>14, <3>2, <3>3, <3>4, <3>5 DEF Pending
  <2> QED
      BY <2>1, <2>2
<1> HIDE DEF s3
<1>16. /\ Concludes(Drain(s3, id), calls, m)
       /\ \A n \in 1 .. Len(calls) : s3.status[n] # "queued" => Drain(s3, id).status[n] = s3.status[n]
    BY <1>1, <1>3, <1>15, DrainConcludes
<1>17. Drain(s3, id).status[m] = IF ok THEN "done" ELSE "failed"
    BY <1>1, <1>11, <1>15, <1>16
<1>18. \A n \in 1 .. Len(calls) : n \in doomed => Drain(s3, id).status[n] = "cancelled"
    BY <1>1, <1>7, <1>11, <1>15, <1>16
<1> QED
    BY <1>6, <1>16, <1>17, <1>18 DEF doomed, lane, id

\* A call on an entity: its lane is opened, takes the entry and is drained.
LEMMA CallDoes ==
    ASSUME Typed, LanesRest, RowsShown(State), NEW id, id \in Id,
           NEW method, method \in {"create", "patch", "remove"},
           NEW optimistic, optimistic \in BOOLEAN, Len(calls) + 1 <= MaxCalls
    PROVE  LET m     == Len(calls) + 1
               entry == [mutation |-> m, method |-> method, optimistic |-> optimistic]
               lane  == Ensure(lanes[id], cache[id])
               s     == [State EXCEPT !.lanes[id] = Enqueue(lane, entry),
                                      !.status[m] = "queued"]
               cs    == Append(calls, [id |-> id, method |-> method, optimistic |-> optimistic])
           IN  /\ cs \in Seq(Calls) /\ Len(cs) <= MaxCalls
               /\ Concludes(Drain(ShowProjection(s, id, lane.visible, FALSE), id), cs, 0)
<1> DEFINE m     == Len(calls) + 1
           entry == [mutation |-> m, method |-> method, optimistic |-> optimistic]
           call  == [id |-> id, method |-> method, optimistic |-> optimistic]
           lane  == Ensure(lanes[id], cache[id])
           after == Enqueue(lane, entry)
           st    == [status EXCEPT ![m] = "queued"]
           s     == [State EXCEPT !.lanes[id] = after, !.status[m] = "queued"]
           cs    == Append(calls, call)
           t     == ShowProjection(s, id, lane.visible, FALSE)
<1>1. /\ Bounded /\ State \in Client /\ lanes \in [Id -> Lanes] /\ cache \in [Id -> Rows]
      /\ queue \in Seq(Events) /\ status \in [Mutations -> Statuses]
      /\ calls \in Seq(Calls) /\ Len(calls) \in Nat /\ 1 .. Len(calls) \subseteq Mutations
  <2>1. calls \in Seq(Calls) /\ State \in Client
      BY DEF Typed
  <2>2. Len(calls) \in Nat
      BY <2>1, LenProperties
  <2> QED
      BY <2>1, <2>2, TypedIs
<1>2. /\ State.lanes = lanes /\ State.cache = cache /\ State.queue = queue
      /\ State.reconcile = reconcile /\ State.fetch = fetch /\ State.status = status
      /\ State.started = << >> /\ State.published = FALSE
    BY DEF State
<1>3. m \in Mutations /\ m = Len(calls) + 1 /\ m \notin 1 .. Len(calls)
    BY <1>1 DEF Mutations, Bounded
<1>4. /\ cs \in Seq(Calls) /\ Len(cs) = m /\ cs[m] = call
      /\ \A n \in 1 .. Len(calls) : cs[n] = calls[n]
  <2>1. call \in Calls
      BY DEF Calls
  <2> HIDE DEF call
  <2> QED
      BY <1>1, <2>1, AppendProperties
<1>5. entry \in Entries /\ entry.mutation = m /\ entry.method = method
      /\ entry.optimistic = optimistic
    BY <1>3 DEF Entries, EntriesOf
<1>6. /\ Holds(lanes[id], id, calls, status) /\ Projects(lanes[id]) /\ Busy(lanes[id])
      /\ lanes[id] \in Lanes
    BY <1>1, <1>2 DEF LanesRest, Rests
<1>7. /\ lane \in Lanes /\ lane.open /\ Projects(lane) /\ Holds(lane, id, calls, status)
      /\ lane.running => lane.entries # << >>
      /\ lanes[id].open => lane = lanes[id]
      /\ ~ lanes[id].open => lane.base = cache[id] /\ lane.visible = cache[id]
                             /\ lane.entries = << >> /\ ~ lanes[id].owed
  <2>1. /\ lane \in Lanes /\ lane.open
        /\ lanes[id].open => lane = lanes[id]
        /\ ~ lanes[id].open => /\ lane.base = cache[id] /\ lane.visible = cache[id]
                               /\ (lane.seen <=> Present(cache[id])) /\ lane.entries = << >>
                               /\ ~ lane.running /\ ~ lane.owed
      BY <1>1, <1>6, EnsureDoes DEF Lanes, Bounded, Rows
  <2> HIDE DEF lane
  <2>2. CASE lanes[id].open
      BY <1>6, <2>1, <2>2 DEF Busy
  <2>3. CASE ~ lanes[id].open
    <3>1. /\ lanes[id].entries = << >> /\ ~ lanes[id].running /\ ~ lanes[id].owed
          /\ Len(<< >>) = 0
        BY <1>6, <2>3 DEF Projects, NoLane
    <3>2. Holds(lane, id, calls, status)
      <4>1. lane.entries = lanes[id].entries /\ Len(lane.entries) = 0
          BY <2>1, <2>3, <3>1
      <4> QED
          BY <1>6, <4>1 DEF Holds, Entered, InCallOrder, Complete
    <3>3. Project(cache[id], << >>) = cache[id]
      <4>1. << >> \in Seq(Entries) /\ \A i \in DOMAIN << >> : ~ << >>[i].optimistic
          OBVIOUS
      <4>2. \A e \in Entries : IsEntry(e, Mutations)
          BY EntriesAreEntries DEF Entries
      <4>3. cache[id] \in Items(Revs, Mutations) /\ 0 \in Revs
          BY <1>1 DEF Rows, Bounded
      <4> QED
          BY ONLY <4>1, <4>2, <4>3, ProjectPlain
    <3>4. Projects(lane)
        BY <2>1, <2>3, <3>3 DEF Projects
    <3> QED
        BY <2>1, <2>3, <3>1, <3>2, <3>4
  <2> QED
      BY <2>2, <2>3
<1> HIDE DEF lane, entry, call, cs
<1>8. /\ after \in Lanes /\ after.open /\ after.base = lane.base
      /\ after.entries = Append(lane.entries, entry)
      /\ after.running = lane.running /\ after.owed = lane.owed
      /\ Projects(after) /\ after.visible = Shown(lane.visible, entry)
  <2>1. lane.visible = Project(lane.base, lane.entries) /\ (Present(lane.base) => lane.seen)
      BY <1>7 DEF Projects
  <2>2. lane \in Lane(Revs, Mutations) /\ entry \in EntriesOf(Mutations) /\ 0 \in Revs
      BY <1>1, <1>5, <1>7 DEF Lanes, Entries, Bounded
  <2>3. /\ after \in Lane(Revs, Mutations)
        /\ after.open = lane.open /\ after.base = lane.base
        /\ after.entries = Append(lane.entries, entry)
        /\ after.running = lane.running /\ after.owed = lane.owed
        /\ after.visible = Project(after.base, after.entries)
        /\ after.visible = Shown(lane.visible, entry)
        /\ after.seen <=> (lane.seen \/ Present(after.visible))
      BY <2>1, <2>2, EnqueueDoes
  <2> HIDE DEF after
  <2> QED
      BY <1>7, <2>1, <2>3 DEF Projects, Lanes
<1> HIDE DEF after
<1>9. /\ st \in [Mutations -> Statuses] /\ st[m] = "queued"
      /\ \A n \in Mutations : n # m => st[n] = status[n]
    BY <1>1, <1>3 DEF Statuses
<1> HIDE DEF st
<1>10. /\ lane.entries \in Seq(Entries) /\ Len(lane.entries) \in Nat
       /\ Len(after.entries) = Len(lane.entries) + 1
       /\ after.entries[Len(lane.entries) + 1] = entry
       /\ \A i \in 1 .. Len(lane.entries) : after.entries[i] = lane.entries[i]
  <2>1. lane.entries \in Seq(Entries)
      BY <1>7 DEF Lanes, Lane, Entries
  <2> QED
      BY <1>5, <1>8, <2>1, AppendProperties, LenProperties
<1> HIDE DEF m
<1>11. Entered(after, id, cs, st)
  <2> SUFFICES ASSUME NEW i \in 1 .. Len(after.entries)
               PROVE  LET e == after.entries[i]
                      IN  /\ e.mutation \in 1 .. Len(cs)
                          /\ cs[e.mutation].id = id /\ cs[e.mutation].method = e.method
                          /\ IF i = 1 /\ after.running THEN st[e.mutation] = "sent"
                                                       ELSE st[e.mutation] = "queued"
      BY DEF Entered
  <2>1. CASE i = Len(lane.entries) + 1
    <3>1. ~ (i = 1 /\ after.running)
      <4>1. lane.entries # << >> => Len(lane.entries) # 0
          BY <1>10, EmptySeq
      <4> QED
          BY <1>7, <1>8, <1>10, <2>1, <4>1
    <3>2. after.entries[i].mutation = m /\ after.entries[i].method = method
        BY <1>5, <1>10, <2>1
    <3>3. m \in 1 .. Len(cs) /\ cs[m].id = id /\ cs[m].method = method
        BY <1>1, <1>3, <1>4 DEF call
    <3> QED
        BY <1>9, <3>1, <3>2, <3>3
  <2>2. CASE i # Len(lane.entries) + 1
    <3>1. i \in 1 .. Len(lane.entries) /\ after.entries[i] = lane.entries[i]
        BY <1>10, <2>2
    <3> DEFINE n == lane.entries[i].mutation
    <3>2. /\ n \in 1 .. Len(calls) /\ calls[n].id = id /\ calls[n].method = lane.entries[i].method
          /\ IF i = 1 /\ lane.running THEN status[n] = "sent" ELSE status[n] = "queued"
        BY <1>7, <3>1 DEF Holds, Entered
    <3> HIDE DEF n
    <3>3. n \in Mutations /\ n # m /\ n \in 1 .. Len(cs)
        BY <1>1, <1>3, <1>4, <3>2
    <3>4. st[n] = status[n] /\ cs[n] = calls[n]
        BY <1>4, <1>9, <3>2, <3>3
    <3> QED
        BY <1>8, <3>1, <3>2, <3>3, <3>4 DEF n
  <2> QED
      BY <2>1, <2>2
<1>12. InCallOrder(after)
  <2> SUFFICES ASSUME NEW i \in 1 .. Len(after.entries), NEW j \in 1 .. Len(after.entries), i < j
               PROVE  after.entries[i].mutation < after.entries[j].mutation
      BY DEF InCallOrder
  <2>1. i \in 1 .. Len(lane.entries) /\ after.entries[i] = lane.entries[i]
      BY <1>10
  <2>2. lane.entries[i].mutation \in 1 .. Len(calls)
      BY <1>7, <2>1 DEF Holds, Entered
  <2>3. CASE j = Len(lane.entries) + 1
    <3>1. after.entries[i].mutation = lane.entries[i].mutation
        BY <2>1
    <3>2. after.entries[j].mutation = m
        BY <1>5, <1>10, <2>3
    <3>3. \A k \in 1 .. Len(calls) : k < m
        BY <1>1, <1>3
    <3> QED
        BY <2>2, <3>1, <3>2, <3>3
  <2>4. CASE j # Len(lane.entries) + 1
    <3>1. j \in 1 .. Len(lane.entries) /\ after.entries[j] = lane.entries[j]
        BY <1>10, <2>4
    <3> QED
        BY <1>7, <2>1, <3>1 DEF Holds, InCallOrder
  <2> QED
      BY <2>3, <2>4
<1>13. Complete(after, id, cs, st)
  <2> SUFFICES ASSUME NEW n \in 1 .. Len(cs), cs[n].id = id, st[n] \in {"queued", "sent"}
               PROVE  \E i \in 1 .. Len(after.entries) : after.entries[i].mutation = n
      BY DEF Complete
  <2>1. CASE n = m
    <3>1. Len(lane.entries) + 1 \in 1 .. Len(after.entries)
        BY <1>10
    <3> QED
        BY <1>5, <1>10, <2>1, <3>1
  <2>2. CASE n # m
    <3>1. n \in 1 .. Len(calls) /\ n \in Mutations
        BY <1>1, <1>3, <1>4, <2>2
    <3>2. calls[n].id = id /\ status[n] \in {"queued", "sent"}
        BY <1>4, <1>9, <2>2, <3>1
    <3>3. PICK i \in 1 .. Len(lane.entries) : lane.entries[i].mutation = n
        BY <1>7, <3>1, <3>2 DEF Holds, Complete
    <3>4. i \in 1 .. Len(after.entries) /\ after.entries[i] = lane.entries[i]
        BY <1>10
    <3> QED
        BY <3>3, <3>4
  <2> QED
      BY <2>1, <2>2
<1>14. /\ s \in Client /\ s.lanes = [lanes EXCEPT ![id] = after] /\ s.lanes[id] = after
       /\ \A i \in Id \ {id} : s.lanes[i] = lanes[i]
       /\ s.cache = cache /\ s.queue = queue /\ s.reconcile = reconcile
       /\ s.status = st /\ s.started = << >> /\ s.published = FALSE
  <2>1. s = [State EXCEPT !.lanes = [lanes EXCEPT ![id] = after], !.status = st]
      BY <1>2 DEF State, st
  <2> HIDE DEF s
  <2> QED
      BY <1>1, <1>2, <1>8, <1>9, <2>1 DEF Client
<1> HIDE DEF s
<1>15. Pending(s, id, cs, 0)
  <2>1. \A i \in Id \ {id} : Rests(s, i, cs)
    <3> SUFFICES ASSUME NEW i \in Id \ {id} PROVE Rests(s, i, cs)
        OBVIOUS
    <3>1. Holds(lanes[i], i, calls, status) /\ Projects(lanes[i]) /\ Busy(lanes[i])
        BY <1>2 DEF LanesRest, Rests
    <3>2. \A n \in 1 .. Len(calls) :
             n \in 1 .. Len(cs) /\ n # m /\ cs[n] = calls[n] /\ st[n] = status[n]
        BY <1>1, <1>3, <1>4, <1>9
    <3>3. \A n \in 1 .. Len(cs) : n = m \/ n \in 1 .. Len(calls)
        BY <1>1, <1>3, <1>4
    <3>4. cs[m].id # i
        BY <1>4 DEF call
    <3>5. Entered(lanes[i], i, cs, st)
      <4> SUFFICES ASSUME NEW k \in 1 .. Len(lanes[i].entries)
                   PROVE  LET e == lanes[i].entries[k]
                          IN  /\ e.mutation \in 1 .. Len(cs)
                              /\ cs[e.mutation].id = i /\ cs[e.mutation].method = e.method
                              /\ IF k = 1 /\ lanes[i].running THEN st[e.mutation] = "sent"
                                                              ELSE st[e.mutation] = "queued"
          BY DEF Entered
      <4> DEFINE n == lanes[i].entries[k].mutation
      <4>1. /\ n \in 1 .. Len(calls) /\ calls[n].id = i
            /\ calls[n].method = lanes[i].entries[k].method
            /\ IF k = 1 /\ lanes[i].running THEN status[n] = "sent" ELSE status[n] = "queued"
          BY <3>1 DEF Holds, Entered
      <4> HIDE DEF n
      <4>2. n \in 1 .. Len(cs) /\ cs[n] = calls[n] /\ st[n] = status[n]
          BY <3>2, <4>1
      <4> QED
          BY <4>1, <4>2 DEF n
    <3>6. Complete(lanes[i], i, cs, st)
        BY <3>1, <3>2, <3>3, <3>4 DEF Holds, Complete
    <3>7. Holds(lanes[i], i, cs, st)
        BY <3>1, <3>5, <3>6 DEF Holds
    <3> QED
        BY <1>14, <3>1, <3>7 DEF Rests
  <2>2. Moves(s, cs, 0)
    <3> SUFFICES ASSUME NEW n \in Mutations
                 PROVE  /\ status[n] \in {"sent", "done", "failed"} =>
                              st[n] \in {"sent", "done", "failed"}
                        /\ status[n] = "sent" => st[n] = "sent"
                        /\ st[n] # "none" <=> n <= Len(cs)
        BY <1>14 DEF Moves
    <3>1. status[n] # "none" <=> n <= Len(calls)
        BY DEF Typed
    <3>2. n \in Nat
        BY DEF Mutations
    <3>3. CASE n = m
        BY <1>1, <1>3, <1>4, <1>9, <3>1, <3>3
    <3>4. CASE n # m
      <4>1. n <= Len(calls) <=> n <= m
          BY <1>1, <1>3, <3>2, <3>4
      <4> QED
          BY <1>4, <1>9, <3>1, <3>4, <4>1
    <3> QED
        BY <3>3, <3>4
  <2>3. \A n \in Mutations : st[n] = "queued" => status[n] \in {"none", "queued"}
    <3>1. status[m] = "none"
        BY <1>1, <1>3 DEF Typed
    <3> QED
        BY <1>9, <3>1
  <2>4. Remembers(s)
    <3>1. \A i \in Id : lanes[i].open /\ lanes[i].owed => s.lanes[i].open /\ s.lanes[i].owed
        BY <1>7, <1>8, <1>14
    <3> QED
        BY <1>2, <1>14, <3>1 DEF Remembers, Remembered
  <2>5. Holds(after, id, cs, st)
      BY <1>11, <1>12, <1>13 DEF Holds
  <2> QED
      BY <1>8, <1>14, <2>1, <2>2, <2>3, <2>4, <2>5 DEF Pending
<1>16. ASSUME ~ setup.batching
       PROVE  /\ queue = << >>
              /\ \A i \in Id \ {id} : RowShown(lanes[i], cache[i])
              /\ RowShown(lane, cache[id])
              /\ Plain(lane.base)
  <2>1. queue = << >> /\ \A i \in Id : RowShown(lanes[i], cache[i])
      BY <1>2, <1>16 DEF RowsShown
  <2>2. RowShown(lane, cache[id])
      BY <1>7, <2>1 DEF RowShown
  <2>3. Plain(lane.base)
      BY <1>7, <2>2 DEF RowShown
  <2> QED
      BY <2>1, <2>2, <2>3
<1>17. ASSUME ~ setup.batching
       PROVE  \/ \E i \in 1 .. Len(lane.entries) : lane.entries[i].optimistic
              \/ ~ Present(lane.visible)
              \/ ProjectionEvents(id, lane.visible, after.visible, FALSE) # << >>
              \/ \A i \in 1 .. Len(after.entries) : ~ after.entries[i].optimistic
  <2> SUFFICES ASSUME \A i \in 1 .. Len(lane.entries) : ~ lane.entries[i].optimistic,
                      Present(lane.visible), optimistic
               PROVE  ProjectionEvents(id, lane.visible, after.visible, FALSE) # << >>
    <3> SUFFICES ASSUME \A i \in 1 .. Len(lane.entries) : ~ lane.entries[i].optimistic,
                        ~ optimistic
                 PROVE  \A i \in 1 .. Len(after.entries) : ~ after.entries[i].optimistic
        OBVIOUS
    <3> QED
        BY <1>5, <1>10
  <2>1. lane.visible = lane.base
    <3>1. \A e \in Entries : IsEntry(e, Mutations)
        BY EntriesAreEntries DEF Entries
    <3>2. lane.base \in Items(Revs, Mutations) /\ 0 \in Revs
        BY <1>1, <1>7 DEF Lanes, Lane, Bounded
    <3>3. DOMAIN lane.entries = 1 .. Len(lane.entries)
        BY <1>10, LenProperties
    <3>4. Project(lane.base, lane.entries) = lane.base
        BY <1>10, <3>1, <3>2, <3>3, ProjectPlain
    <3> QED
        BY <1>7, <3>4 DEF Projects
  <2>2. lane.visible.intents = << >> /\ lane.visible \in Rows
      BY <1>7, <1>16, <1>17, <2>1 DEF Plain, Lanes, Lane, Rows
  <2>3. after.visible = ApplyIntent(lane.visible, entry)
      BY <1>5, <1>8 DEF Shown
  <2>4. after.visible # lane.visible
    <3>1. CASE method = "create"
      <4>1. after.visible.intents = << m >>
          BY <1>5, <2>3, <3>1 DEF ApplyIntent
      <4> QED
          BY <2>2, <4>1
    <3>2. CASE method = "remove"
        BY <1>5, <2>3, <3>2 DEF ApplyIntent, Present
    <3>3. CASE method = "patch"
      <4>1. after.visible = [lane.visible EXCEPT !.intents = Append(@, m)]
          BY <1>5, <2>3, <3>3 DEF ApplyIntent
      <4>2. after.visible.intents = Append(<< >>, m)
          BY <2>2, <4>1 DEF Rows, Items
      <4>3. Append(<< >>, m) # << >>
          OBVIOUS
      <4> QED
          BY <2>2, <4>2, <4>3
    <3> QED
        BY <3>1, <3>2, <3>3
  <2> QED
      BY <2>4 DEF ProjectionEvents
<1>18. Pending(t, id, cs, 0) /\ RowsShown(t)
  <2>1. /\ s.lanes[id].open
        /\ ~ setup.batching =>
              /\ s.queue = << >>
              /\ \A i \in Id \ {id} : RowShown(s.lanes[i], s.cache[i])
              /\ RowShown(lane, s.cache[id])
              /\ Plain(s.lanes[id].base)
              /\ \/ \E i \in 1 .. Len(lane.entries) : lane.entries[i].optimistic
                 \/ ~ Present(lane.visible)
                 \/ ProjectionEvents(id, lane.visible, s.lanes[id].visible, FALSE) # << >>
                 \/ \A i \in 1 .. Len(s.lanes[id].entries) : ~ s.lanes[id].entries[i].optimistic
      BY <1>8, <1>14, <1>16, <1>17
  <2> QED
      BY <1>4, <1>7, <1>15, <2>1, ShowPending
<1> HIDE DEF t
<1>19. Len(cs) <= MaxCalls
    BY <1>3, <1>4
<1>20. Concludes(Drain(t, id), cs, 0)
    BY <1>4, <1>18, <1>19, DrainConcludes
<1> QED
    BY <1>4, <1>19, <1>20 DEF t, s, after, lane, entry, cs, call, m

-----------------------------------------------------------------------------
(* Events.                                                                 *)

\* An operation that settles and sends nothing.
Calm(s) ==
    /\ s \in Client
    /\ s.status = status /\ s.started = << >>
    /\ \A id \in Id : Rests(s, id, calls)
    /\ Remembers(s)

LEMMA CalmConcludes ==
    ASSUME Typed, NEW s, Calm(s), RowsShown(s)
    PROVE  Concludes(s, calls, 0)
<1>1. Moves(s, calls, 0)
    BY DEF Calm, Moves, Typed
<1> QED
    BY <1>1 DEF Calm, Concludes

\* The client as it is.
LEMMA StateIsCalm ==
    ASSUME Typed, LanesRest
    PROVE  Calm(State)
<1>1. State \in Client /\ State.status = status /\ State.started = << >>
      /\ State.published = FALSE
    BY TypedIs DEF Typed
<1>2. Remembers(State)
    BY <1>1 DEF Remembers
<1> QED
    BY <1>1, <1>2 DEF Calm, LanesRest

\* Applying the queue.
LEMMA FlushIsCalm ==
    ASSUME Typed, NEW s, Calm(s)
    PROVE  /\ Calm(Flush(s)) /\ Flush(s).queue = << >>
           /\ Flush(s).cache = ApplyBatch(s.cache, s.queue).entities
           /\ \A id \in Id : \A row : RowShown(s.lanes[id], row) => RowShown(Flush(s).lanes[id], row)
<1> DEFINE t == Flush(s)
<1>1. /\ Bounded /\ s \in Client /\ s.lanes \in [Id -> Lanes]
    BY TypedIs DEF Calm, Client
<1>2. /\ t \in Client /\ Shows(s, t) /\ t.queue = << >>
      /\ t.cache = ApplyBatch(s.cache, s.queue).entities
    BY <1>1, FlushDoes
<1> HIDE DEF t
<1>3. \A i \in Id : /\ Projects(s.lanes[i]) => Projects(t.lanes[i])
                    /\ Busy(s.lanes[i]) => Busy(t.lanes[i])
                    /\ \A row : RowShown(s.lanes[i], row) => RowShown(t.lanes[i], row)
                    /\ \A cs, st : Holds(s.lanes[i], i, cs, st) => Holds(t.lanes[i], i, cs, st)
    BY <1>1, <1>2, SameLaneKeeps DEF Shows
<1>4. \A i \in Id : Rests(t, i, calls)
    BY <1>2, <1>3 DEF Calm, Rests, Shows
<1>5. Remembers(t)
    BY <1>2 DEF Calm, Remembers, Shows
<1>6. Calm(t)
    BY <1>2, <1>4, <1>5 DEF Calm, Shows
<1> QED
    BY <1>2, <1>3, <1>6 DEF t

\* An event of the server about an entity without a lane: its row, if the event
\* applies, is the server's.
LEMMA ServerRow ==
    ASSUME Bounded, NEW entities, entities \in [Id -> Rows], NEW event, event \in Events,
           Plain(event.item), Plain(entities[event.id])
    PROVE  LET after == ApplyBatch(entities, << event >>).entities
           IN  /\ Plain(after[event.id])
               /\ \A id \in Id \ {event.id} : after[id] = entities[id]
<1> DEFINE after == ApplyBatch(entities, << event >>).entities
<1>1. after = IF Applies(entities, event) THEN ApplyEvent(entities, event) ELSE entities
    BY BatchOfOne
<1>2. event.id \in Id /\ Plain(Absent)
    BY DEF Events, Plain, Absent
<1>3. /\ Plain(ApplyEvent(entities, event)[event.id])
      /\ \A id \in Id \ {event.id} : ApplyEvent(entities, event)[id] = entities[id]
    BY <1>2 DEF ApplyEvent
<1> HIDE DEF after
<1>4. Plain(after[event.id]) /\ \A id \in Id \ {event.id} : after[id] = entities[id]
    BY <1>1, <1>3
<1> QED
    BY <1>4 DEF after

LEMMA IngestedDoes ==
    ASSUME Typed, LanesRest, RowsShown(State), NEW event, event \in Events,
           event.mode = "server", Plain(event.item)
    PROVE  Concludes(Ingested(event), calls, 0)
<1> DEFINE id    == event.id
           lane  == lanes[id]
           after == AcceptAuthoritative(lane, event.type, event.item)
           newBase == event.type # "removed"
           shown == ProjectionEvents(id, lane.visible, after.visible, newBase)
           journal == Journal(fetch, << event >>)
           s0 == [State EXCEPT !.lanes[id] = after, !.fetch = Journal(@, << event >>)]
           s1 == [State EXCEPT !.lanes[id] = after, !.fetch = Journal(@, << event >>),
                               !.queue = @ \o shown]
           s2 == [State EXCEPT !.queue = Append(@, event)]
           Through(s) == IF s.queue # << >> /\ ~ setup.batching THEN Flush(s) ELSE s
<1>1. /\ Bounded /\ State \in Client /\ lanes \in [Id -> Lanes] /\ cache \in [Id -> Rows]
      /\ queue \in Seq(Events) /\ fetch \in Fetches /\ status \in [Mutations -> Statuses]
      /\ Calm(State)
    BY TypedIs, StateIsCalm DEF Typed
<1>2. /\ State.lanes = lanes /\ State.cache = cache /\ State.queue = queue
      /\ State.reconcile = reconcile /\ State.fetch = fetch /\ State.status = status
      /\ State.started = << >> /\ State.published = FALSE
    BY DEF State
<1>3. /\ id \in Id /\ event.item \in Rows /\ lane \in Lanes
      /\ event.type \in {"created", "patched", "removed"} /\ newBase \in BOOLEAN
    BY <1>1 DEF Events
<1>4. /\ Holds(lane, id, calls, status) /\ Projects(lane) /\ Busy(lane)
    BY <1>2, <1>3 DEF LanesRest, Rests
<1>5. << event >> \in Seq(Events) /\ journal \in Fetches
  <2>1. << event >> \in Seq(Events)
      OBVIOUS
  <2> QED
      BY <1>1, <2>1, JournalTyped
<1>6. Ingested(event) = IF ~ lane.open THEN Through(s2)
                        ELSE IF ~ Accepts(lane, event.type, event.item) THEN Through(State)
                        ELSE Through(s1)
  <2> DEFINE s == IF ~ lane.open THEN s2
                  ELSE IF ~ Accepts(lane, event.type, event.item) THEN State ELSE s1
  <2>1. Ingested(event) = Through(s)
      BY DEF Ingested
  <2> HIDE DEF s2, s1, Through
  <2> QED
      BY <2>1
<1>7. CASE ~ lane.open
  <2> HIDE DEF s2
  <2>1. /\ s2 \in Client /\ s2.lanes = lanes /\ s2.cache = cache /\ s2.reconcile = reconcile
        /\ s2.status = status /\ s2.started = << >> /\ s2.published = FALSE
        /\ s2.queue = Append(queue, event)
    <3>1. Append(queue, event) \in Seq(Events)
        BY <1>1, AppendProperties
    <3> QED
        BY <1>1, <1>2, <3>1 DEF Client, s2
  <2>2. Calm(s2)
    <3>1. Remembers(s2)
        BY <1>2, <2>1 DEF Remembers, Remembered
    <3>2. \A i \in Id : Rests(s2, i, calls)
        BY <1>2, <2>1 DEF LanesRest, Rests
    <3> QED
        BY <2>1, <3>1, <3>2 DEF Calm
  <2>3. CASE setup.batching
    <3>1. Ingested(event) = s2
        BY <1>6, <1>7, <2>3
    <3>2. RowsShown(s2)
        BY <2>3 DEF RowsShown
    <3> QED
        BY <2>2, <3>1, <3>2, CalmConcludes
  <2>4. CASE ~ setup.batching
    <3>1. queue = << >> /\ \A i \in Id : RowShown(lanes[i], cache[i])
        BY <1>2, <2>4 DEF RowsShown
    <3>2. s2.queue = << event >>
        BY <2>1, <3>1
    <3>3. Ingested(event) = Flush(s2)
        BY <1>6, <1>7, <2>4, <3>2
    <3>4. /\ Calm(Flush(s2)) /\ Flush(s2).queue = << >>
          /\ Flush(s2).cache = ApplyBatch(cache, << event >>).entities
          /\ \A i \in Id : \A row : RowShown(lanes[i], row) => RowShown(Flush(s2).lanes[i], row)
        BY <2>1, <2>2, <3>2, FlushIsCalm
    <3>5. RowShown(lane, cache[id])
        BY <1>3, <3>1
    <3>6. Plain(cache[id])
        BY <1>7, <3>5 DEF RowShown
    <3>7. /\ Plain(Flush(s2).cache[id])
          /\ \A i \in Id \ {id} : Flush(s2).cache[i] = cache[i]
        BY <1>1, <3>4, <3>6, ServerRow
    <3>8. RowShown(lane, Flush(s2).cache[id])
        BY <1>7, <3>7 DEF RowShown
    <3>9. \A i \in Id : RowShown(Flush(s2).lanes[i], Flush(s2).cache[i])
        BY <1>3, <3>1, <3>4, <3>7, <3>8
    <3>10. RowsShown(Flush(s2))
        BY <3>4, <3>9 DEF RowsShown
    <3> QED
        BY <3>3, <3>4, <3>10, CalmConcludes
  <2> QED
      BY <2>3, <2>4
<1>8. CASE lane.open /\ ~ Accepts(lane, event.type, event.item)
  <2>1. Ingested(event) = State
    <3>1. setup.batching \/ queue = << >>
        BY <1>2 DEF RowsShown
    <3> QED
        BY <1>2, <1>6, <1>8, <3>1
  <2> QED
      BY <1>1, <2>1, CalmConcludes
<1>9. CASE lane.open /\ Accepts(lane, event.type, event.item)
  <2>1. /\ after \in Lanes
        /\ after.open = lane.open /\ after.entries = lane.entries
        /\ after.running = lane.running /\ after.owed = lane.owed
        /\ after.base = IF event.type = "removed" THEN Absent ELSE event.item
        /\ Projects(after)
    <3>1. lane \in Lane(Revs, Mutations) /\ 0 \in Revs /\ event.item \in Items(Revs, Mutations)
        BY <1>1, <1>3 DEF Lanes, Bounded, Rows
    <3>2. /\ after \in Lane(Revs, Mutations)
          /\ after.open = lane.open /\ after.entries = lane.entries
          /\ after.running = lane.running /\ after.owed = lane.owed
          /\ after.base = IF event.type = "removed" THEN Absent ELSE event.item
          /\ after.visible = Project(after.base, after.entries)
          /\ after.seen <=> (lane.seen \/ event.type # "removed" \/ Present(after.visible))
        BY <3>1, AcceptDoes
    <3> HIDE DEF after
    <3>3. Projects(after)
        BY <1>9, <3>2 DEF Projects, Present
    <3> QED
        BY <3>2, <3>3 DEF Lanes
  <2> HIDE DEF after
  <2>2. Holds(after, id, calls, status) /\ Busy(after)
    <3> HIDE DEF lane, id
    <3> QED
        BY <1>4, <2>1, HoldsSame DEF Busy
  <2>3. /\ after.visible \in Rows /\ lane.visible \in Rows
      BY <1>3, <2>1 DEF Lanes, Lane, Rows
  <2>4. shown \in Seq(Events) /\ queue \o shown \in Seq(Events)
    <3> HIDE DEF lane, id, newBase
    <3>1. shown \in Seq(Events)
        BY <1>1, <1>3, <2>3, ProjectionTyped
    <3> HIDE DEF shown
    <3> QED
        BY <1>1, <3>1, ConcatProperties
  <2> HIDE DEF shown, journal, lane, id, newBase
  <2>5. /\ s0 \in Client /\ s0.lanes[id] = after
        /\ \A i \in Id \ {id} : s0.lanes[i] = lanes[i]
        /\ s0.cache = cache /\ s0.queue = queue /\ s0.reconcile = reconcile
        /\ s0.status = status /\ s0.started = << >> /\ s0.published = FALSE
    <3>1. s0 = [State EXCEPT !.lanes = [lanes EXCEPT ![id] = after], !.fetch = journal]
        BY <1>2 DEF State, journal
    <3> QED
        BY <1>1, <1>2, <1>3, <1>5, <2>1, <3>1 DEF Client
  <2>6. /\ s1 \in Client /\ s1.lanes[id] = after
        /\ \A i \in Id \ {id} : s1.lanes[i] = lanes[i]
        /\ s1.reconcile = reconcile
        /\ s1.status = status /\ s1.started = << >> /\ s1.published = FALSE
        /\ s1.queue = queue \o shown
        /\ s1 = [s0 EXCEPT !.queue = @ \o shown]
    <3>1. s1 = [State EXCEPT !.lanes = [lanes EXCEPT ![id] = after], !.fetch = journal,
                             !.queue = queue \o shown]
        BY <1>2 DEF State, journal
    <3>2. s1 = [s0 EXCEPT !.queue = @ \o shown]
        BY <1>2 DEF State
    <3> QED
        BY <1>1, <1>2, <1>3, <1>5, <2>1, <2>4, <3>1, <3>2 DEF Client
  <2> HIDE DEF s0, s1
  <2>7. \A s : /\ s.lanes[id] = after /\ \A i \in Id \ {id} : s.lanes[i] = lanes[i]
               /\ s.reconcile = reconcile /\ s.published = FALSE /\ s.status = status
               => /\ \A i \in Id : Rests(s, i, calls)
                  /\ Remembers(s)
    <3> SUFFICES ASSUME NEW s, s.lanes[id] = after, \A i \in Id \ {id} : s.lanes[i] = lanes[i],
                        s.reconcile = reconcile, s.published = FALSE, s.status = status
                 PROVE  (\A i \in Id : Rests(s, i, calls)) /\ Remembers(s)
        OBVIOUS
    <3>1. \A i \in Id \ {id} : Rests(s, i, calls)
        BY <1>2 DEF LanesRest, Rests
    <3>2. Rests(s, id, calls)
        BY <2>1, <2>2 DEF Rests
    <3>3. \A i \in Id : (s.lanes[i].open <=> lanes[i].open) /\ (s.lanes[i].owed <=> lanes[i].owed)
      <4>1. (s.lanes[id].open <=> lanes[id].open) /\ (s.lanes[id].owed <=> lanes[id].owed)
          BY <2>1 DEF lane
      <4> QED
          BY <4>1
    <3>4. Remembers(s)
        BY <1>2, <3>3 DEF Remembers, Remembered
    <3> QED
        BY <3>1, <3>2, <3>4
  <2>8. CASE setup.batching
    <3>1. Ingested(event) = s1
        BY <1>6, <1>9, <2>8
    <3>2. RowsShown(s1)
        BY <2>8 DEF RowsShown
    <3>3. Calm(s1)
        BY <2>6, <2>7 DEF Calm
    <3> QED
        BY <3>1, <3>2, <3>3, CalmConcludes
  <2>9. CASE ~ setup.batching
    <3> DEFINE t == ShowProjection(s0, id, lane.visible, newBase)
    <3>1. queue = << >> /\ \A i \in Id : RowShown(lanes[i], cache[i])
        BY <1>2, <2>9 DEF RowsShown
    <3>2. Ingested(event) = t
      <4>1. t = IF shown = << >> THEN s0 ELSE Flush(s1)
          BY <2>5, <2>6 DEF ShowProjection, shown
      <4>2. CASE shown = << >>
        <5>1. s1.queue = << >> /\ s1 = s0
          <6>1. queue \o shown = << >>
              BY <3>1, <4>2
          <6> QED
              BY <2>5, <2>6, <3>1, <6>1 DEF Client
        <5> QED
            BY <1>6, <1>9, <4>1, <4>2, <5>1
      <4>3. CASE shown # << >>
        <5>1. s1.queue = shown
            BY <2>4, <2>6, <3>1, ConcatEmptySeq
        <5> QED
            BY <1>6, <1>9, <2>9, <4>1, <4>3, <5>1
      <4> QED
          BY <4>2, <4>3
    <3>3. Pending(s0, id, calls, 0)
      <4>1. (\A i \in Id : Rests(s0, i, calls)) /\ Remembers(s0)
          BY <2>5, <2>7
      <4>2. Moves(s0, calls, 0)
          BY <2>5 DEF Moves, Typed
      <4> QED
          BY <1>3, <2>1, <2>2, <2>5, <4>1, <4>2 DEF Pending
    <3>4. RowShown(lane, cache[id]) /\ Plain(after.base)
      <4>1. Plain(Absent)
          BY DEF Plain, Absent
      <4> QED
          BY <1>3, <2>1, <3>1, <4>1 DEF lane
    <3>5. /\ s0.lanes[id].open
          /\ ~ setup.batching =>
                /\ s0.queue = << >>
                /\ \A i \in Id \ {id} : RowShown(s0.lanes[i], s0.cache[i])
                /\ RowShown(lane, s0.cache[id])
                /\ Plain(s0.lanes[id].base)
                /\ \/ \E i \in 1 .. Len(lane.entries) : lane.entries[i].optimistic
                   \/ ~ Present(lane.visible)
                   \/ ProjectionEvents(id, lane.visible, s0.lanes[id].visible, newBase) # << >>
                   \/ \A i \in 1 .. Len(s0.lanes[id].entries) :
                         ~ s0.lanes[id].entries[i].optimistic
        BY <1>9, <2>1, <2>5, <3>1, <3>4
    <3>6. calls \in Seq(Calls) /\ lane.open
        BY <1>9 DEF Typed
    <3>7. /\ Pending(t, id, calls, 0) /\ RowsShown(t) /\ t.status = s0.status
          /\ Busy(s0.lanes[id]) => Busy(t.lanes[id])
        BY <1>3, <3>3, <3>5, <3>6, ShowPending
    <3> HIDE DEF t
    <3>8. \A i \in Id : Rests(t, i, calls)
        BY <2>2, <2>5, <3>7 DEF Pending, Rests
    <3>9. Calm(t)
        BY <2>5, <3>7, <3>8 DEF Pending, Calm
    <3> QED
        BY <3>2, <3>7, <3>9, CalmConcludes
  <2> QED
      BY <2>8, <2>9
<1> QED
    BY <1>7, <1>8, <1>9

-----------------------------------------------------------------------------
(* The steps.                                                              *)

\* What may be on its way to the client when m has been settled: answers to other
\* mutations that have been sent and are not requested, one of each.
Carries(w, m) ==
    /\ w \in Seq(Messages)
    /\ \A i \in 1 .. Len(w) :
          w[i].kind = "answer" =>
             /\ w[i].mutation # m
             /\ status[w[i].mutation] = "sent" /\ w[i].mutation \notin requests
    /\ \A i, j \in 1 .. Len(w) :
          i < j /\ w[i].kind = "answer" /\ w[j].kind = "answer" =>
             w[i].mutation # w[j].mutation

LEMMA MessagesAre ==
    ASSUME NEW w, w \in Seq(Messages), NEW i, i \in 1 .. Len(w)
    PROVE  /\ w[i].kind \in {"answer", "event"}
           /\ w[i].kind = "answer" =>
                 w[i].mutation \in Mutations /\ w[i].ok \in BOOLEAN /\ w[i].item \in PlainRows
           /\ w[i].kind = "event" =>
                 /\ w[i].id \in Id /\ w[i].type \in {"created", "patched", "removed"}
                 /\ w[i].item \in PlainRows
<1>1. w[i] \in Messages
    BY ElementOfSeq
<1> QED
    BY <1>1 DEF Messages

\* What a client step concludes with becomes the state.
LEMMA BecomeKeeps ==
    ASSUME EntityStoreInvariant, NEW s, NEW m, m \notin requests, Concludes(s, calls', m),
           Become(s), calls' \in Seq(Calls), Len(calls') <= MaxCalls,
           Carries(wire', m), requests' = requests \union ToSet(s.started),
           UNCHANGED <<server, clock>>
    PROVE  EntityStoreInvariant'
<1> USE DEF EntityStoreInvariant
<1>1. /\ lanes' = s.lanes /\ cache' = s.cache /\ queue' = s.queue /\ reconcile' = s.reconcile
      /\ fetch' = s.fetch /\ status' = s.status /\ sent' = sent \o s.started
      /\ unseen' = (unseen \/ s.published) /\ setup' = setup
    BY DEF Become
<1>2. /\ s \in Client /\ \A i \in Id : Rests(s, i, calls')
      /\ \A n \in Mutations :
            /\ status[n] \in {"sent", "done", "failed"} => s.status[n] \in {"sent", "done", "failed"}
            /\ status[n] = "sent" /\ n # m => s.status[n] = "sent"
            /\ s.status[n] # "none" <=> n <= Len(calls')
      /\ \/ s.started = << >>
         \/ \E h \in Mutations : /\ s.started = << h >>
                                 /\ status[h] \in {"none", "queued"} /\ s.status[h] = "sent"
      /\ RowsShown(s) /\ Remembers(s)
    BY DEF Concludes, Moves
<1>3. /\ State'.lanes = s.lanes /\ State'.cache = s.cache /\ State'.queue = s.queue
      /\ State'.status = s.status /\ State'.reconcile = s.reconcile
    BY <1>1 DEF State
<1>4. State' \in Client
  <2>1. << >> \in Seq(Mutations)
      OBVIOUS
  <2>2. State' = [lanes |-> s.lanes, cache |-> s.cache, queue |-> s.queue,
                  reconcile |-> s.reconcile, fetch |-> s.fetch, status |-> s.status,
                  started |-> << >>, published |-> FALSE]
      BY <1>1 DEF State
  <2>3. /\ s.lanes \in [Id -> Lanes] /\ s.cache \in [Id -> Rows] /\ s.queue \in Seq(Events)
        /\ s.reconcile \in BOOLEAN /\ s.fetch \in Fetches
        /\ s.status \in [Mutations -> Statuses]
      BY <1>2 DEF Client
  <2> QED
      BY <2>1, <2>2, <2>3 DEF Client
<1>5. /\ ToSet(s.started) \subseteq Mutations /\ s.started \in Seq(Mutations)
      /\ \A h \in ToSet(s.started) : status[h] \in {"none", "queued"} /\ s.status[h] = "sent"
      /\ \A i \in 1 .. Len(s.started) : s.started[i] \in ToSet(s.started)
  <2>1. CASE s.started = << >>
    <3>1. ToSet(<< >>) = {} /\ Len(<< >>) = 0 /\ << >> \in Seq(Mutations)
        BY DEF ToSet
    <3> QED
        BY <2>1, <3>1
  <2>2. ASSUME NEW h \in Mutations, s.started = << h >>,
               status[h] \in {"none", "queued"}, s.status[h] = "sent"
        PROVE  /\ ToSet(s.started) \subseteq Mutations /\ s.started \in Seq(Mutations)
               /\ \A k \in ToSet(s.started) : status[k] \in {"none", "queued"} /\ s.status[k] = "sent"
               /\ \A i \in 1 .. Len(s.started) : s.started[i] \in ToSet(s.started)
    <3>1. << h >> \in Seq(Mutations) /\ DOMAIN << h >> = {1} /\ << h >>[1] = h /\ Len(<< h >>) = 1
        OBVIOUS
    <3>2. ToSet(<< h >>) = {h}
        BY <3>1 DEF ToSet
    <3> QED
        BY <2>2, <3>1, <3>2
  <2> QED
      BY <1>2, <2>1, <2>2
<1>6. Typed'
  <2>1. sent' \in Seq(Mutations)
      BY <1>1, <1>5, ConcatProperties DEF Typed
  <2>2. requests' \subseteq Mutations
      BY <1>5 DEF Typed
  <2>3. unseen' \in BOOLEAN
      BY <1>1, <1>2 DEF Client, Typed
  <2>4. \A n \in Mutations : status'[n] # "none" <=> n <= Len(calls')
      BY <1>1, <1>2
  <2>5. wire' \in Seq(Messages)
      BY DEF Carries
  <2> QED
      BY <1>1, <1>4, <2>1, <2>2, <2>3, <2>4, <2>5 DEF Typed
<1>7. LanesRest'
    BY <1>2, <1>3 DEF LanesRest, Rests
<1>8. RowsShown(State)'
    BY <1>1, <1>2, <1>3 DEF RowsShown
<1>9. InFlight'
  <2>1. \A n \in requests' : status'[n] = "sent"
    <3>1. \A n \in requests : n \in Mutations /\ n # m /\ status[n] = "sent"
        BY DEF InFlight, Typed
    <3> QED
        BY <1>1, <1>2, <1>5, <3>1
  <2>2. ASSUME NEW i \in 1 .. Len(wire'), wire'[i].kind = "answer"
        PROVE  status'[wire'[i].mutation] = "sent" /\ wire'[i].mutation \notin requests'
    <3>1. wire'[i].mutation # m /\ status[wire'[i].mutation] = "sent"
          /\ wire'[i].mutation \notin requests
        BY <2>2 DEF Carries
    <3>2. wire'[i].mutation \in Mutations
        BY <2>2, MessagesAre DEF Carries
    <3>3. wire'[i].mutation \notin ToSet(s.started)
        BY <1>5, <3>1
    <3> QED
        BY <1>1, <1>2, <3>1, <3>2, <3>3
  <2>3. ASSUME NEW i \in 1 .. Len(sent')
        PROVE  status'[sent'[i]] \in {"sent", "done", "failed"}
    <3>1. /\ sent \in Seq(Mutations) /\ Len(sent) \in Nat /\ Len(s.started) \in Nat
          /\ Len(sent') = Len(sent) + Len(s.started)
          /\ sent'[i] = IF i <= Len(sent) THEN sent[i] ELSE s.started[i - Len(sent)]
      <4>1. sent \in Seq(Mutations) /\ s.started \in Seq(Mutations)
          BY <1>5 DEF Typed
      <4> QED
          BY <1>1, <2>3, <4>1, ConcatProperties, LenProperties
    <3>2. CASE i <= Len(sent)
      <4>1. i \in 1 .. Len(sent) /\ sent'[i] = sent[i]
          BY <3>1, <3>2
      <4>2. sent[i] \in Mutations /\ status[sent[i]] \in {"sent", "done", "failed"}
          BY <3>1, <4>1, ElementOfSeq DEF InFlight
      <4> QED
          BY <1>1, <1>2, <4>1, <4>2
    <3>3. CASE ~ (i <= Len(sent))
      <4>1. i - Len(sent) \in 1 .. Len(s.started) /\ sent'[i] = s.started[i - Len(sent)]
          BY <3>1, <3>3
      <4> QED
          BY <1>1, <1>5, <4>1
    <3> QED
        BY <3>2, <3>3
  <2>4. \A i, j \in 1 .. Len(wire') :
           i < j /\ wire'[i].kind = "answer" /\ wire'[j].kind = "answer" =>
              wire'[i].mutation # wire'[j].mutation
      BY DEF Carries
  <2> QED
      BY <2>1, <2>2, <2>3, <2>4 DEF InFlight
<1>10. Noticed'
  <2> SUFFICES ASSUME unseen' PROVE Remembered(State')
      BY DEF Noticed
  <2>1. Remembered(s)
    <3>1. unseen \/ s.published
        BY <1>1
    <3>2. CASE unseen
        BY <1>2, <3>2 DEF Noticed, Remembers
    <3>3. CASE s.published
        BY <1>2, <3>3 DEF Remembers
    <3> QED
        BY <3>1, <3>2, <3>3
  <2> QED
      BY <1>3, <2>1 DEF Remembered
<1> QED
    BY <1>6, <1>7, <1>8, <1>9, <1>10

\* Taking one away: the others stay, in order.
LEMMA RemoveAtDoes ==
    ASSUME NEW T, NEW w, w \in Seq(T), NEW i, i \in 1 .. Len(w)
    PROVE  /\ RemoveAt(w, i) \in Seq(T) /\ Len(RemoveAt(w, i)) = Len(w) - 1
           /\ \A k \in 1 .. Len(w) - 1 :
                 RemoveAt(w, i)[k] = IF k < i THEN w[k] ELSE w[k + 1]
<1> DEFINE n == Len(w)
           before == SubSeq(w, 1, i - 1)
           after == SubSeq(w, i + 1, n)
<1>1. n \in Nat /\ i \in 1 .. n /\ \A k \in 1 .. n : w[k] \in T
    BY LenProperties, ElementOfSeq
<1>2. /\ before \in Seq(T) /\ Len(before) = i - 1
      /\ \A k \in 1 .. i - 1 : before[k] = w[k]
  <2>1. 1 \in Int /\ i - 1 \in Int /\ \A k \in 1 .. i - 1 : w[k] \in T
      BY <1>1
  <2> QED
      BY <1>1, <2>1, SubSeqProperties
<1>3. /\ after \in Seq(T) /\ Len(after) = n - i
      /\ \A k \in 1 .. n - i : after[k] = w[i + k]
  <2>1. i + 1 \in Int /\ n \in Int /\ \A k \in i + 1 .. n : w[k] \in T
      BY <1>1
  <2> QED
      BY <1>1, <2>1, SubSeqProperties
<1> HIDE DEF before, after
<1>4. RemoveAt(w, i) = before \o after
    BY DEF RemoveAt, before, after
<1>5. /\ before \o after \in Seq(T) /\ Len(before \o after) = n - 1
      /\ \A k \in 1 .. n - 1 :
            (before \o after)[k] = IF k <= i - 1 THEN before[k] ELSE after[k - (i - 1)]
  <2>1. /\ before \o after \in Seq(T)
        /\ Len(before \o after) = Len(before) + Len(after)
        /\ \A k \in 1 .. Len(before) + Len(after) :
              (before \o after)[k] = IF k <= Len(before) THEN before[k]
                                     ELSE after[k - Len(before)]
      BY <1>2, <1>3, ConcatProperties
  <2>2. Len(before) + Len(after) = n - 1 /\ Len(before) = i - 1
      BY <1>1, <1>2, <1>3
  <2> QED
      BY <2>1, <2>2
<1>6. ASSUME NEW k \in 1 .. n - 1
      PROVE  (before \o after)[k] = IF k < i THEN w[k] ELSE w[k + 1]
  <2>1. CASE k < i
      BY <1>1, <1>2, <1>5, <2>1
  <2>2. CASE ~ (k < i)
    <3>1. k - (i - 1) \in 1 .. n - i /\ i + (k - (i - 1)) = k + 1 /\ ~ (k <= i - 1)
        BY <1>1, <2>2
    <3>2. after[k - (i - 1)] = w[k + 1]
        BY <1>3, <3>1
    <3> QED
        BY <1>5, <2>2, <3>1, <3>2
  <2> QED
      BY <2>1, <2>2
<1> QED
    BY <1>4, <1>5, <1>6

\* What is on its way stays so when a message is taken from it.
LEMMA TakenAway ==
    ASSUME Typed, InFlight, NEW i, i \in 1 .. Len(wire), NEW m,
           \/ wire[i].kind = "answer" /\ m = wire[i].mutation
           \/ m = 0
    PROVE  Carries(RemoveAt(wire, i), m)
<1> DEFINE w == RemoveAt(wire, i)
           at(k) == IF k < i THEN k ELSE k + 1
<1>1. wire \in Seq(Messages) /\ Len(wire) \in Nat
    BY LenProperties DEF Typed
<1>2. /\ w \in Seq(Messages) /\ Len(w) = Len(wire) - 1
      /\ \A k \in 1 .. Len(w) : w[k] = IF k < i THEN wire[k] ELSE wire[k + 1]
    BY <1>1, RemoveAtDoes
<1> HIDE DEF w
<1>3. \A k \in 1 .. Len(w) : at(k) \in 1 .. Len(wire) /\ at(k) # i /\ w[k] = wire[at(k)]
    BY <1>1, <1>2
<1>4. \A j, k \in 1 .. Len(w) : j < k => at(j) < at(k)
    BY <1>1, <1>2
<1> HIDE DEF at
<1>5. ASSUME NEW k \in 1 .. Len(w), w[k].kind = "answer"
      PROVE  /\ w[k].mutation # m
             /\ status[w[k].mutation] = "sent" /\ w[k].mutation \notin requests
  <2> DEFINE j == at(k)
  <2>1. j \in 1 .. Len(wire) /\ j # i /\ w[k] = wire[j] /\ wire[j].kind = "answer"
      BY <1>3, <1>5
  <2> HIDE DEF j
  <2>2. status[wire[j].mutation] = "sent" /\ wire[j].mutation \notin requests
      BY <2>1 DEF InFlight
  <2>3. wire[j].mutation # m
    <3>1. CASE wire[i].kind = "answer" /\ m = wire[i].mutation
      <4>1. i < j \/ j < i
          BY <1>1, <2>1
      <4> QED
          BY <2>1, <3>1, <4>1 DEF InFlight
    <3>2. CASE m = 0
      <4>1. wire[j].mutation \in Mutations
          BY <1>1, <2>1, MessagesAre
      <4> QED
          BY <3>2, <4>1 DEF Mutations
    <3> QED
        BY <3>1, <3>2
  <2> QED
      BY <2>1, <2>2, <2>3
<1>6. ASSUME NEW j \in 1 .. Len(w), NEW k \in 1 .. Len(w), j < k,
             w[j].kind = "answer", w[k].kind = "answer"
      PROVE  w[j].mutation # w[k].mutation
  <2>1. /\ at(j) \in 1 .. Len(wire) /\ at(k) \in 1 .. Len(wire) /\ at(j) < at(k)
        /\ w[j] = wire[at(j)] /\ w[k] = wire[at(k)]
      BY <1>3, <1>4, <1>6
  <2> QED
      BY <1>6, <2>1 DEF InFlight
<1> QED
    BY <1>2, <1>5, <1>6 DEF Carries, w

LEMMA WireCarries ==
    ASSUME Typed, InFlight
    PROVE  Carries(wire, 0) /\ 0 \notin requests
<1>1. wire \in Seq(Messages) /\ requests \subseteq Mutations
    BY DEF Typed
<1>2. \A i \in 1 .. Len(wire) : wire[i].kind = "answer" => wire[i].mutation \in Mutations
    BY <1>1, MessagesAre
<1> QED
    BY <1>1, <1>2 DEF InFlight, Carries, Mutations

LEMMA CallStep ==
    ASSUME EntityStoreInvariant, NEW id \in setup.ids, NEW method \in setup.methods,
           NEW optimistic \in BOOLEAN, Call(id, method, optimistic)
    PROVE  EntityStoreInvariant'
<1> DEFINE m     == Len(calls) + 1
           entry == [mutation |-> m, method |-> method, optimistic |-> optimistic]
           lane  == Ensure(lanes[id], cache[id])
           s     == [State EXCEPT !.lanes[id] = Enqueue(lane, entry), !.status[m] = "queued"]
           t     == Drain(ShowProjection(s, id, lane.visible, FALSE), id)
           cs    == Append(calls, [id |-> id, method |-> method, optimistic |-> optimistic])
<1>1. /\ id \in Id /\ method \in {"create", "patch", "remove"} /\ m <= MaxCalls
  <2>1. /\ setup.ids \subseteq Id /\ setup.methods \subseteq {"create", "patch", "remove"}
        /\ MaxCalls \in Nat /\ setup.calls \in 0 .. MaxCalls /\ Len(calls) \in Nat
      BY SetupsAreBounded, LenProperties DEF EntityStoreInvariant, Typed
  <2>2. m <= setup.calls
      BY DEF Call
  <2> QED
      BY <2>1, <2>2
<1>2. cs \in Seq(Calls) /\ Len(cs) <= MaxCalls /\ Concludes(t, cs, 0)
    BY <1>1, CallDoes DEF EntityStoreInvariant
<1>3. /\ Become(t) /\ calls' = cs
      /\ requests' = requests \union ToSet(t.started)
      /\ UNCHANGED <<server, clock, wire>>
    BY DEF Call
<1> HIDE DEF t, cs
<1>4. Carries(wire', 0) /\ 0 \notin requests
    BY <1>3, WireCarries DEF EntityStoreInvariant
<1> QED
    BY <1>2, <1>3, <1>4, BecomeKeeps

LEMMA DeliverStep ==
    ASSUME EntityStoreInvariant, NEW i \in Deliverable, Deliver(i)
    PROVE  EntityStoreInvariant'
<1> DEFINE msg == wire[i]
           event == [mode |-> "server", id |-> msg.id, type |-> msg.type, item |-> msg.item]
           s == IF msg.kind = "answer" THEN Settled(msg.mutation, msg.ok, msg.item)
                ELSE Ingested(event)
<1>1. /\ wire \in Seq(Messages) /\ i \in 1 .. Len(wire)
      /\ calls \in Seq(Calls) /\ Len(calls) <= MaxCalls
  <2>1. wire \in Seq(Messages) /\ i \in DOMAIN wire
      BY DEF Deliverable, EntityStoreInvariant, Typed
  <2> QED
      BY <2>1, LenProperties DEF EntityStoreInvariant, Typed
<1>2. /\ Become(s) /\ wire' = RemoveAt(wire, i)
      /\ requests' = requests \union ToSet(s.started)
      /\ UNCHANGED <<calls, server, clock>>
    BY DEF Deliver
<1>3. CASE msg.kind = "answer"
  <2> DEFINE m == msg.mutation
  <2>1. /\ m \in Mutations /\ msg.ok \in BOOLEAN /\ msg.item \in PlainRows
        /\ status[m] = "sent" /\ m \notin requests
      BY <1>1, <1>3, MessagesAre DEF EntityStoreInvariant, InFlight
  <2>2. m \in 1 .. Len(calls)
    <3>1. status[m] # "none" => m <= Len(calls)
        BY <2>1 DEF EntityStoreInvariant, Typed
    <3>2. Len(calls) \in Nat /\ m \in Nat /\ 1 <= m
        BY <1>1, <2>1, LenProperties DEF Mutations
    <3> QED
        BY <2>1, <3>1, <3>2
  <2>3. Concludes(Settled(m, msg.ok, msg.item), calls, m)
      BY <2>1, <2>2, SettledDoes DEF EntityStoreInvariant
  <2>4. Carries(RemoveAt(wire, i), m)
      BY <1>1, <1>3, TakenAway DEF EntityStoreInvariant
  <2>5. Concludes(s, calls', m) /\ Carries(wire', m) /\ calls' = calls
      BY <1>2, <1>3, <2>3, <2>4
  <2> HIDE DEF m, s
  <2> QED
      BY <1>1, <1>2, <2>1, <2>5, BecomeKeeps DEF m
<1>4. CASE msg.kind # "answer"
  <2>1. event \in Events /\ event.mode = "server" /\ Plain(event.item)
    <3>1. /\ msg.kind = "event" /\ msg.id \in Id /\ msg.type \in {"created", "patched", "removed"}
          /\ msg.item \in Rows /\ Plain(msg.item)
        BY <1>1, <1>4, MessagesAre DEF PlainRows
    <3> QED
        BY <3>1 DEF Events
  <2> HIDE DEF event
  <2>2. Concludes(Ingested(event), calls, 0)
      BY <2>1, IngestedDoes DEF EntityStoreInvariant
  <2>3. Carries(RemoveAt(wire, i), 0) /\ 0 \notin requests
      BY <1>1, TakenAway, WireCarries DEF EntityStoreInvariant
  <2>4. Concludes(s, calls', 0) /\ Carries(wire', 0) /\ calls' = calls
      BY <1>2, <1>4, <2>2, <2>3
  <2> HIDE DEF s
  <2> QED
      BY <1>1, <1>2, <2>3, <2>4, BecomeKeeps
<1> QED
    BY <1>3, <1>4

LEMMA BatchTimerStep ==
    ASSUME EntityStoreInvariant, BatchTimer
    PROVE  EntityStoreInvariant'
<1> DEFINE s == Flush(State)
<1>1. /\ calls \in Seq(Calls) /\ Len(calls) <= MaxCalls /\ State.queue = queue
    BY TypedIs DEF EntityStoreInvariant, Typed
<1>2. Become(s) /\ UNCHANGED <<calls, server, clock, requests, wire>> /\ queue # << >>
    BY DEF BatchTimer, network
<1>3. Calm(s)
    BY StateIsCalm, FlushIsCalm DEF EntityStoreInvariant
<1>4. setup.batching
    BY <1>1, <1>2 DEF EntityStoreInvariant, RowsShown
<1> HIDE DEF s
<1>5. RowsShown(s)
    BY <1>4 DEF RowsShown
<1>6. Concludes(s, calls', 0) /\ Carries(wire', 0) /\ 0 \notin requests /\ calls' = calls
    BY <1>2, <1>3, <1>5, CalmConcludes, WireCarries DEF EntityStoreInvariant
<1>7. requests' = requests \union ToSet(s.started)
  <2>1. s.started = << >> /\ ToSet(<< >>) = {}
      BY <1>3 DEF Calm, ToSet
  <2> QED
      BY <1>2, <2>1
<1> QED
    BY <1>1, <1>2, <1>6, <1>7, BecomeKeeps

\* What a fetch makes of a row: it keeps it, or replaces it where no overlay stands
\* in the way.
LEMMA FetchedRow ==
    ASSUME Bounded, NEW lane, lane \in Lanes, Projects(lane), NEW row, row \in PlainRows,
           NEW before, RowShown(lane, before), NEW next,
           \/ next = before
           \/ /\ next = row /\ ~ HasOverlay(lane)
              /\ lane.open => row = Absent \/ lane.base = row \/ Present(lane.base)
    PROVE  RowShown(lane, next)
<1>1. CASE next = before
    BY <1>1
<1>2. CASE ~ lane.open /\ next = row
    BY <1>2 DEF RowShown, PlainRows
<1>3. CASE /\ lane.open /\ next = row /\ ~ HasOverlay(lane)
           /\ row = Absent \/ lane.base = row \/ Present(lane.base)
  <2>1. /\ Plain(lane.base) /\ Plain(row) /\ lane.base \in Rows
        /\ lane.entries \in Seq(Entries) /\ DOMAIN lane.entries = 1 .. Len(lane.entries)
    <3>1. lane.entries \in Seq(Entries) /\ lane.base \in Rows
        BY DEF Lanes, Lane, Entries, Rows
    <3> QED
        BY <1>3, <3>1, LenProperties DEF RowShown, PlainRows
  <2>2. CASE \E i \in 1 .. Len(lane.entries) : lane.entries[i].optimistic
    <3>1. ~ Present(lane.visible) /\ ~ lane.seen
        BY <1>3, <2>1, <2>2 DEF HasOverlay
    <3>2. ~ Present(lane.base)
        BY <3>1 DEF Projects
    <3>3. row = lane.visible
        BY <1>3, <3>1, <3>2 DEF Present
    <3> QED
        BY <1>3, <2>1, <3>3 DEF RowShown
  <2>3. CASE \A i \in 1 .. Len(lane.entries) : ~ lane.entries[i].optimistic
    <3>1. lane.visible = lane.base
      <4>1. \A e \in Entries : IsEntry(e, Mutations)
          BY EntriesAreEntries DEF Entries
      <4>2. lane.base \in Items(Revs, Mutations) /\ 0 \in Revs
          BY <2>1 DEF Bounded, Rows
      <4>3. Project(lane.base, lane.entries) = lane.base
          BY <2>1, <2>3, <4>1, <4>2, ProjectPlain
      <4> QED
          BY <4>3 DEF Projects
    <3>2. row = lane.visible \/ Present(lane.visible)
        BY <1>3, <3>1 DEF Present
    <3> QED
        BY <1>3, <2>1, <2>3, <3>2 DEF RowShown
  <2> QED
      BY <2>2, <2>3
<1> QED
    BY <1>1, <1>2, <1>3

\* What a lane becomes when a fetched row becomes its base.
Takes(after, lane, row, id) ==
    /\ after \in Lanes /\ after.open /\ after.base = row
    /\ after.entries = lane.entries /\ after.running = lane.running
    /\ after.owed = lane.owed
    /\ Projects(after)
    /\ \A before, next :
          /\ RowShown(lane, before)
          /\ IF ProjectionEvents(id, lane.visible, after.visible, TRUE) = << >>
             THEN next = before ELSE next = after.visible
          => RowShown(after, next)

LEMMA TakenRow ==
    ASSUME Bounded, NEW id, id \in Id, NEW lane, lane \in Lanes, lane.open,
           NEW row, row \in PlainRows
    PROVE  Takes(AcceptAuthoritative(lane, "patched", row), lane, row, id)
<1> DEFINE after == AcceptAuthoritative(lane, "patched", row)
<1>1. lane \in Lane(Revs, Mutations) /\ 0 \in Revs /\ row \in Items(Revs, Mutations) /\ Plain(row)
    BY DEF Lanes, Bounded, PlainRows, Rows
<1>2. /\ after \in Lane(Revs, Mutations)
      /\ after.open = lane.open /\ after.entries = lane.entries
      /\ after.running = lane.running /\ after.owed = lane.owed
      /\ after.base = IF "patched" = "removed" THEN Absent ELSE row
      /\ after.visible = Project(after.base, after.entries)
      /\ after.seen <=> (lane.seen \/ "patched" # "removed" \/ Present(after.visible))
    BY <1>1, AcceptDoes
<1> HIDE DEF after
<1>3. /\ after \in Lanes /\ after.open /\ after.base = row /\ Projects(after)
    BY <1>2 DEF Projects, Lanes
<1>4. ASSUME NEW before, NEW next, RowShown(lane, before),
             IF ProjectionEvents(id, lane.visible, after.visible, TRUE) = << >>
             THEN next = before ELSE next = after.visible
      PROVE  RowShown(after, next)
  <2>1. Plain(after.base)
      BY <1>1, <1>3
  <2>2. /\ \A i \in 1 .. Len(lane.entries) : ~ lane.entries[i].optimistic
        /\ Present(lane.visible)
        /\ ProjectionEvents(id, lane.visible, after.visible, TRUE) = << >>
        => \A i \in 1 .. Len(after.entries) : ~ after.entries[i].optimistic
      BY <1>2
  <2> QED
      BY <1>3, <1>4, <2>1, <2>2, RowFollows
<1> QED
    BY <1>2, <1>3, <1>4 DEF after, Takes

LEMMA EndFetchStep ==
    ASSUME EntityStoreInvariant, EndFetch
    PROVE  EntityStoreInvariant'
<1> DEFINE row(id)   == Row(fetch.rows[id])
           kept      == Journalled(fetch)
           taken     == { id \in Id \ kept : /\ fetch.rows[id] # 0
                                             /\ lanes[id].open
                                             /\ Accepts(lanes[id], "patched", row(id)) }
           lanes1    == [id \in Id |-> IF id \in taken
                                       THEN AcceptAuthoritative(lanes[id], "patched", row(id))
                                       ELSE lanes[id]]
           shown     == { id \in taken : ProjectionEvents(id, lanes[id].visible,
                                                          lanes1[id].visible, TRUE) # << >> }
           cache1    == [id \in Id |-> IF id \in shown THEN lanes1[id].visible ELSE cache[id]]
           overlaid  == { id \in Id : HasOverlay(lanes1[id]) }
           protected == kept \union overlaid
           next(id)  == IF id \in protected \/ IsItemStale(cache1[id], row(id))
                        THEN cache1[id] ELSE row(id)
           lanes2    == [id \in Id |-> IF id \in overlaid THEN Defer(lanes1[id]) ELSE lanes1[id]]
           cache2    == [id \in Id |-> next(id)]
           s == [State EXCEPT !.lanes = lanes2, !.cache = cache2,
                              !.reconcile = (reconcile \/ kept # {}), !.fetch = Idle,
                              !.published = (overlaid # {})]
<1>1. /\ Bounded /\ State \in Client /\ lanes \in [Id -> Lanes] /\ cache \in [Id -> Rows]
      /\ fetch \in Fetches /\ status \in [Mutations -> Statuses] /\ reconcile \in BOOLEAN
      /\ calls \in Seq(Calls) /\ Len(calls) <= MaxCalls /\ sent \in Seq(Mutations)
    BY TypedIs DEF EntityStoreInvariant, Typed
<1>2. /\ State.lanes = lanes /\ State.cache = cache /\ State.queue = queue
      /\ State.reconcile = reconcile /\ State.fetch = fetch /\ State.status = status
      /\ State.started = << >> /\ State.published = FALSE
    BY DEF State
<1>3. \A id \in Id : row(id) \in PlainRows /\ (fetch.rows[id] = 0 => row(id) = Absent)
  <2>1. \A rev \in Revs : Row(rev) \in PlainRows
      BY <1>1, RowsTyped DEF PlainRows, Plain, Row
  <2>2. Row(0) = Absent
      BY <1>1, RowsTyped
  <2>3. \A id \in Id : fetch.rows[id] \in Revs
      BY <1>1 DEF Fetches
  <2> QED
      BY <2>1, <2>2, <2>3
<1>4. /\ lanes' = lanes2 /\ cache' = cache2 /\ reconcile' = (reconcile \/ kept # {})
      /\ fetch' = Idle /\ unseen' = (unseen \/ overlaid # {})
      /\ UNCHANGED <<setup, queue, calls, status, network, fetches, sent>>
    BY DEF EndFetch
<1>5. ASSUME NEW id \in Id
      PROVE  /\ Holds(lanes[id], id, calls, status) /\ Projects(lanes[id]) /\ Busy(lanes[id])
             /\ lanes[id] \in Lanes
    BY <1>1, <1>2 DEF EntityStoreInvariant, LanesRest, Rests
<1> HIDE DEF row, kept
<1>6. ASSUME NEW id \in Id
      PROVE  /\ lanes1[id] \in Lanes /\ lanes1[id].open = lanes[id].open
             /\ lanes1[id].entries = lanes[id].entries
             /\ lanes1[id].running = lanes[id].running /\ lanes1[id].owed = lanes[id].owed
             /\ Projects(lanes1[id])
             /\ RowShown(lanes[id], cache[id]) => RowShown(lanes1[id], cache1[id])
             /\ id \in taken => lanes1[id].base = row(id)
             /\ id \notin taken => lanes1[id] = lanes[id]
  <2>1. CASE id \in taken
    <3> DEFINE after == AcceptAuthoritative(lanes[id], "patched", row(id))
    <3>1. /\ lanes1[id] = after /\ lanes[id].open
          /\ cache1[id] = IF ProjectionEvents(id, lanes[id].visible, after.visible, TRUE) = << >>
                          THEN cache[id] ELSE after.visible
        BY <2>1
    <3>2. Takes(after, lanes[id], row(id), id)
        BY <1>1, <1>3, <1>5, <3>1, TakenRow
    <3> HIDE DEF after, lanes1, cache1
    <3>3. RowShown(lanes[id], cache[id]) => RowShown(after, cache1[id])
      <4>1. IF ProjectionEvents(id, lanes[id].visible, after.visible, TRUE) = << >>
            THEN cache1[id] = cache[id] ELSE cache1[id] = after.visible
          BY <3>1
      <4> QED
          BY <3>2, <4>1 DEF Takes
    <3>4. after.open = lanes[id].open
        BY <3>1, <3>2 DEF Takes
    <3> QED
        BY <2>1, <3>1, <3>2, <3>3, <3>4 DEF Takes
  <2>2. CASE id \notin taken
    <3>1. lanes1[id] = lanes[id] /\ cache1[id] = cache[id]
        BY <2>2
    <3> QED
        BY <1>5, <2>2, <3>1
  <2> QED
      BY <2>1, <2>2
<1>7. cache1 \in [Id -> Rows]
  <2>1. \A id \in Id : lanes1[id].visible \in Rows
      BY <1>6 DEF Lanes, Lane, Rows
  <2> HIDE DEF lanes1, shown
  <2> QED
      BY <1>1, <2>1
<1>8. \A id \in Id : /\ ~ Accepts(lanes[id], "patched", row(id)) => Present(lanes[id].base)
                     /\ lanes[id].open /\ id \notin kept /\ fetch.rows[id] # 0
                        /\ Accepts(lanes[id], "patched", row(id)) => id \in taken
    BY DEF Accepts
<1> HIDE DEF lanes1, cache1, taken
<1>9. ASSUME NEW id \in Id
      PROVE  /\ SameLane(lanes1[id], lanes2[id])
             /\ lanes2[id] \in Lanes /\ Projects(lanes2[id]) /\ Busy(lanes2[id])
             /\ Holds(lanes2[id], id, calls, status)
             /\ lanes[id].open /\ lanes[id].owed => lanes2[id].open /\ lanes2[id].owed
             /\ id \in overlaid => lanes2[id].open /\ lanes2[id].owed
             /\ RowShown(lanes[id], cache[id]) => RowShown(lanes2[id], cache2[id])
  <2>1. SameLane(lanes1[id], lanes2[id])
      BY DEF SameLane, HasOverlay
  <2>2. Holds(lanes1[id], id, calls, status)
      BY <1>5, <1>6, HoldsSame
  <2>3. Busy(lanes1[id])
      BY <1>5, <1>6 DEF Busy
  <2>4. /\ lanes2[id] \in Lanes /\ lanes2[id].open = lanes1[id].open
        /\ lanes1[id].owed => lanes2[id].owed
        /\ Projects(lanes1[id]) => Projects(lanes2[id])
        /\ Busy(lanes1[id]) => Busy(lanes2[id])
        /\ \A r : RowShown(lanes1[id], r) => RowShown(lanes2[id], r)
        /\ \A i, cs, st : Holds(lanes1[id], i, cs, st) => Holds(lanes2[id], i, cs, st)
      BY <1>6, <2>1, SameLaneKeeps
  <2>5. id \in overlaid => lanes2[id].open /\ lanes2[id].owed
    <3>1. id \in overlaid => lanes1[id].open /\ lanes2[id] = Defer(lanes1[id])
        BY DEF HasOverlay
    <3> QED
        BY <1>6, <2>4, <3>1, DeferTyped
  <2>6. ASSUME RowShown(lanes[id], cache[id]) PROVE RowShown(lanes2[id], cache2[id])
    <3>1. RowShown(lanes1[id], cache1[id]) /\ cache2[id] = next(id)
        BY <1>6, <2>6
    <3>2. \/ cache2[id] = cache1[id]
          \/ /\ cache2[id] = row(id) /\ ~ HasOverlay(lanes1[id])
             /\ lanes1[id].open => \/ row(id) = Absent \/ lanes1[id].base = row(id)
                                   \/ Present(lanes1[id].base)
      <4>1. CASE id \in protected \/ IsItemStale(cache1[id], row(id))
          BY <3>1, <4>1
      <4>2. CASE ~ (id \in protected \/ IsItemStale(cache1[id], row(id)))
        <5>1. cache2[id] = row(id) /\ ~ HasOverlay(lanes1[id]) /\ id \notin kept
            BY <3>1, <4>2
        <5>2. ASSUME lanes1[id].open
              PROVE  row(id) = Absent \/ lanes1[id].base = row(id) \/ Present(lanes1[id].base)
          <6>1. CASE fetch.rows[id] = 0
              BY <1>3, <6>1
          <6>2. CASE fetch.rows[id] # 0 /\ id \in taken
              BY <1>6, <6>2
          <6>3. CASE fetch.rows[id] # 0 /\ id \notin taken
            <7>1. lanes1[id] = lanes[id]
                BY <1>6, <6>3
            <7>2. ~ Accepts(lanes[id], "patched", row(id))
                BY <1>8, <5>1, <5>2, <6>3, <7>1
            <7> QED
                BY <1>8, <7>1, <7>2
          <6> QED
              BY <6>1, <6>2, <6>3
        <5> QED
            BY <5>1, <5>2
      <4> QED
          BY <4>1, <4>2
    <3> HIDE DEF cache2, overlaid, protected, lanes2
    <3>3. RowShown(lanes1[id], cache2[id])
        BY <1>1, <1>3, <1>6, <3>1, <3>2, FetchedRow
    <3> QED
        BY <2>4, <3>3
  <2> QED
      BY <1>6, <2>1, <2>2, <2>3, <2>4, <2>5, <2>6
<1>10. lanes2 \in [Id -> Lanes] /\ cache2 \in [Id -> Rows] /\ Idle \in Fetches
  <2>1. lanes2 \in [Id -> Lanes]
    <3>1. \A id \in Id : lanes2[id] \in Lanes
        BY <1>9
    <3> HIDE DEF overlaid
    <3> QED
        BY <3>1
  <2>2. \A id \in Id : next(id) \in Rows
      BY <1>3, <1>7 DEF PlainRows
  <2>3. Idle \in Fetches
      BY <1>1 DEF Idle, Fetches, Bounded
  <2> HIDE DEF next
  <2> QED
      BY <2>1, <2>2, <2>3
<1> HIDE DEF lanes2, cache2, overlaid
<1>11. /\ s \in Client /\ s.lanes = lanes2 /\ s.cache = cache2 /\ s.queue = queue
       /\ s.reconcile = (reconcile \/ kept # {}) /\ s.fetch = Idle /\ s.status = status
       /\ s.started = << >> /\ s.published = (overlaid # {})
  <2>1. (reconcile \/ kept # {}) \in BOOLEAN /\ (overlaid # {}) \in BOOLEAN
      OBVIOUS
  <2> QED
      BY <1>1, <1>2, <1>10, <2>1 DEF Client
<1> HIDE DEF s
<1>12. Become(s)
  <2>1. sent' = sent \o s.started
      BY <1>1, <1>4, <1>11, ConcatEmptySeq
  <2> QED
      BY <1>4, <1>11, <2>1 DEF Become
<1>13. Calm(s)
  <2>1. \A id \in Id : Rests(s, id, calls)
      BY <1>9, <1>11 DEF Rests
  <2>2. Remembered(State) => Remembered(s)
    <3>1. Remembered(State) => reconcile \/ \E id \in Id : lanes[id].open /\ lanes[id].owed
        BY <1>2 DEF Remembered
    <3>2. reconcile => Remembered(s)
        BY <1>11 DEF Remembered
    <3>3. (\E id \in Id : lanes[id].open /\ lanes[id].owed) => Remembered(s)
        BY <1>9, <1>11 DEF Remembered
    <3> QED
        BY <3>1, <3>2, <3>3
  <2>3. s.published => Remembered(s)
    <3> SUFFICES ASSUME s.published PROVE Remembered(s)
        OBVIOUS
    <3>1. PICK id \in overlaid : id \in Id
        BY <1>11 DEF overlaid
    <3>2. s.lanes[id].open /\ s.lanes[id].owed
        BY <1>9, <1>11, <3>1
    <3> QED
        BY <3>1, <3>2 DEF Remembered
  <2> QED
      BY <1>11, <2>1, <2>2, <2>3 DEF Calm, Remembers
<1>14. RowsShown(s)
  <2>1. ~ setup.batching => queue = << >> /\ \A id \in Id : RowShown(lanes[id], cache[id])
      BY <1>2 DEF EntityStoreInvariant, RowsShown
  <2> QED
      BY <1>9, <1>11, <2>1 DEF RowsShown
<1>15. calls' = calls /\ UNCHANGED <<server, clock, requests, wire>>
    BY <1>4 DEF network
<1>16. Concludes(s, calls', 0) /\ Carries(wire', 0) /\ 0 \notin requests
    BY <1>13, <1>14, <1>15, CalmConcludes, WireCarries DEF EntityStoreInvariant
<1>17. requests' = requests \union ToSet(s.started)
  <2>1. s.started = << >> /\ ToSet(<< >>) = {}
      BY <1>11 DEF ToSet
  <2> QED
      BY <1>15, <2>1
<1> QED
    BY <1>1, <1>12, <1>15, <1>16, <1>17, BecomeKeeps

\* A step that leaves the client as it is, but for what it fetches, keeps the
\* invariant with the types and with what is under way.
LEMMA ServerStep ==
    ASSUME EntityStoreInvariant,
           UNCHANGED <<setup, lanes, cache, queue, calls, status, sent>>,
           fetch' \in Fetches, reconcile' \in BOOLEAN, unseen' \in BOOLEAN,
           unseen' => unseen /\ reconcile' = reconcile,
           server' \in [Id -> Revs], clock' \in 1 .. MaxRev, requests' \subseteq Mutations,
           wire' \in Seq(Messages), InFlight'
    PROVE  EntityStoreInvariant'
<1> USE DEF EntityStoreInvariant
<1> DEFINE s == State
           t == [lanes |-> lanes', cache |-> cache', queue |-> queue', reconcile |-> reconcile',
                 fetch |-> fetch', status |-> status', started |-> << >>, published |-> FALSE]
<1>1. /\ Bounded /\ lanes \in [Id -> Lanes] /\ cache \in [Id -> Rows] /\ queue \in Seq(Events)
      /\ status \in [Mutations -> Statuses]
      /\ s.lanes = lanes /\ s.cache = cache /\ s.queue = queue /\ s.status = status
      /\ s.reconcile = reconcile
    BY TypedIs
<1>2. State' = t
    BY DEF State
<1>3. t \in Client
  <2>1. << >> \in Seq(Mutations)
      OBVIOUS
  <2> QED
      BY <1>1, <2>1 DEF Client
<1>4. /\ t.lanes = lanes /\ t.cache = cache /\ t.queue = queue /\ t.status = status
      /\ t.reconcile = reconcile'
    OBVIOUS
<1> HIDE DEF t, s
<1>5. Typed'
  <2>1. /\ setup \in Setups /\ calls \in Seq(Calls) /\ Len(calls) <= MaxCalls
        /\ \A m \in Mutations : status[m] # "none" <=> m <= Len(calls)
        /\ sent \in Seq(Mutations)
      BY DEF Typed
  <2> QED
      BY <1>2, <1>3, <2>1 DEF Typed
<1>6. LanesRest'
  <2>1. ASSUME NEW id \in Id PROVE Rests(t, id, calls)
      BY <1>1, <1>4 DEF LanesRest, Rests, s
  <2>2. \A id \in Id : Rests(t, id, calls')
      BY <2>1
  <2> QED
      BY <1>2, <2>2 DEF LanesRest
<1>7. RowsShown(State)'
  <2>1. RowsShown(s)
      BY DEF s
  <2>2. ~ setup'.batching => t.queue = << >> /\ \A id \in Id : RowShown(t.lanes[id], t.cache[id])
      BY <1>1, <1>4, <2>1 DEF RowsShown
  <2> QED
      BY <1>2, <2>2 DEF RowsShown
<1>8. Noticed'
  <2>1. unseen => Remembered(s)
      BY DEF Noticed, s
  <2>2. unseen' => Remembered(t)
      BY <1>1, <1>4, <2>1 DEF Remembered
  <2> QED
      BY <1>2, <2>2 DEF Noticed
<1> QED
    BY <1>5, <1>6, <1>7, <1>8

LEMMA BeginFetchStep ==
    ASSUME EntityStoreInvariant, BeginFetch
    PROVE  EntityStoreInvariant'
<1>1. /\ Bounded /\ fetch \in Fetches /\ InFlight
      /\ server \in [Id -> Revs] /\ clock \in 1 .. MaxRev /\ requests \subseteq Mutations
      /\ wire \in Seq(Messages)
    BY TypedIs DEF EntityStoreInvariant, Typed
<1>2. /\ UNCHANGED <<setup, lanes, cache, queue, calls, status, sent>>
      /\ UNCHANGED <<server, clock, requests, wire>>
      /\ reconcile' = FALSE /\ unseen' = FALSE /\ fetch' = [Idle EXCEPT !.inFlight = TRUE]
    BY DEF BeginFetch, network
<1>3. fetch' \in Fetches
    BY <1>1, <1>2 DEF Idle, Fetches, Bounded
<1>4. InFlight'
    BY <1>1, <1>2 DEF InFlight
<1> QED
    BY <1>1, <1>2, <1>3, <1>4, ServerStep

LEMMA AnswerFetchStep ==
    ASSUME EntityStoreInvariant, AnswerFetch
    PROVE  EntityStoreInvariant'
<1>1. /\ fetch \in Fetches /\ InFlight
      /\ server \in [Id -> Revs] /\ clock \in 1 .. MaxRev /\ requests \subseteq Mutations
      /\ wire \in Seq(Messages) /\ reconcile \in BOOLEAN /\ unseen \in BOOLEAN
    BY TypedIs DEF EntityStoreInvariant, Typed
<1>2. /\ UNCHANGED <<setup, lanes, cache, queue, calls, status, sent>>
      /\ UNCHANGED <<server, clock, requests, wire, reconcile, unseen>>
      /\ fetch' = [fetch EXCEPT !.answered = TRUE, !.rows = server]
    BY DEF AnswerFetch, network
<1>3. fetch' \in Fetches
    BY <1>1, <1>2 DEF Fetches
<1>4. InFlight'
    BY <1>1, <1>2 DEF InFlight
<1> QED
    BY <1>1, <1>2, <1>3, <1>4, ServerStep

\* What the server sends is under way, when it answers what it takes from the requests
\* and answers it once.
LEMMA WireGrows ==
    ASSUME Typed, InFlight, UNCHANGED <<status, sent>>, requests' \subseteq requests,
           NEW extra, extra \in Seq(Messages), wire' = wire \o extra,
           \A k \in 1 .. Len(extra) :
              extra[k].kind = "answer" => extra[k].mutation \in requests \ requests',
           \A j, k \in 1 .. Len(extra) :
              j < k => ~ (extra[j].kind = "answer" /\ extra[k].kind = "answer")
    PROVE  wire' \in Seq(Messages) /\ InFlight'
<1> DEFINE w == wire'
<1>1. /\ wire \in Seq(Messages) /\ Len(wire) \in Nat /\ Len(extra) \in Nat
    BY LenProperties DEF Typed
<1>2. /\ w \in Seq(Messages) /\ Len(w) = Len(wire) + Len(extra)
      /\ \A i \in 1 .. Len(w) : w[i] = IF i <= Len(wire) THEN wire[i] ELSE extra[i - Len(wire)]
    BY <1>1, ConcatProperties
<1>3. ASSUME NEW i \in 1 .. Len(w)
      PROVE  \/ i \in 1 .. Len(wire) /\ w[i] = wire[i]
             \/ /\ ~ i <= Len(wire) /\ i - Len(wire) \in 1 .. Len(extra)
                /\ w[i] = extra[i - Len(wire)]
    BY <1>1, <1>2
<1> HIDE DEF w
<1>4. ASSUME NEW i \in 1 .. Len(w), w[i].kind = "answer"
      PROVE  status[w[i].mutation] = "sent" /\ w[i].mutation \notin requests'
  <2>1. CASE i \in 1 .. Len(wire) /\ w[i] = wire[i]
      BY <1>4, <2>1 DEF InFlight
  <2>2. CASE i - Len(wire) \in 1 .. Len(extra) /\ w[i] = extra[i - Len(wire)]
    <3>1. w[i].mutation \in requests \ requests'
        BY <1>4, <2>2
    <3> QED
        BY <3>1 DEF InFlight
  <2> QED
      BY <1>3, <2>1, <2>2
<1>5. ASSUME NEW i \in 1 .. Len(w), NEW j \in 1 .. Len(w), i < j,
             w[i].kind = "answer", w[j].kind = "answer"
      PROVE  w[i].mutation # w[j].mutation
  <2>1. CASE i \in 1 .. Len(wire) /\ j \in 1 .. Len(wire) /\ w[i] = wire[i] /\ w[j] = wire[j]
      BY <1>5, <2>1 DEF InFlight
  <2>2. CASE /\ i \in 1 .. Len(wire) /\ w[i] = wire[i]
             /\ j - Len(wire) \in 1 .. Len(extra) /\ w[j] = extra[j - Len(wire)]
    <3>1. w[j].mutation \in requests
        BY <1>5, <2>2
    <3>2. w[i].mutation \notin requests
        BY <1>5, <2>2 DEF InFlight
    <3> QED
        BY <3>1, <3>2
  <2>3. CASE ~ i <= Len(wire)
    <3> DEFINE k == i - Len(wire)
               l == j - Len(wire)
    <3>1. k \in 1 .. Len(extra) /\ w[i] = extra[k]
        BY <1>3, <2>3
    <3>2. ~ j <= Len(wire)
        BY <1>1, <1>2, <1>5, <2>3
    <3>3. l \in 1 .. Len(extra) /\ w[j] = extra[l]
        BY <1>3, <3>2
    <3>4. k < l
        BY <1>1, <1>2, <1>5
    <3> QED
        BY <1>5, <3>1, <3>3, <3>4
  <2> QED
      BY <1>3, <2>1, <2>2, <2>3
<1>6. \A i \in 1 .. Len(sent) : status[sent[i]] \in {"sent", "done", "failed"}
    BY DEF InFlight
<1>7. \A m \in requests' : status[m] = "sent"
    BY DEF InFlight
<1> QED
    BY <1>2, <1>4, <1>5, <1>6, <1>7 DEF InFlight, w

LEMMA WriteDoes ==
    ASSUME Typed, NEW id, id \in Id, NEW method, method \in {"create", "patch", "remove"},
           Write(id, method)
    PROVE  /\ server' \in [Id -> Revs] /\ clock' \in 1 .. MaxRev
           /\ Written(id, method) \in PlainRows
           /\ Broadcast(id, method, Written(id, method)) \in Messages
<1>1. Bounded /\ server \in [Id -> Revs] /\ clock \in 1 .. MaxRev
    BY TypedIs DEF Typed
<1>2. setup.revs \in 0 .. MaxRev /\ MaxRev \in Nat
    BY SetupsAreBounded DEF Typed
<1>3. clock + 1 \in 1 .. MaxRev /\ 0 \in Revs /\ clock + 1 \in Revs /\ server[id] \in Revs
    BY <1>1, <1>2 DEF Write, Writable, Revs
<1>4. server' \in [Id -> Revs] /\ clock' \in 1 .. MaxRev
  <2> DEFINE rev == IF method = "remove" THEN 0 ELSE clock + 1
  <2>1. rev \in Revs /\ server' = [server EXCEPT ![id] = rev] /\ clock' = clock + 1
      BY <1>3 DEF Write
  <2> HIDE DEF rev
  <2> QED
      BY <1>1, <1>3, <2>1
<1>5. \A rev \in Revs : Row(rev) \in PlainRows
    BY <1>1, RowsTyped DEF PlainRows, Plain, Row
<1>6. Written(id, method) \in PlainRows
    BY <1>3, <1>5 DEF Written
<1>7. EventType(method) \in {"created", "patched", "removed"}
    BY RemovedIsRemove
<1> QED
    BY <1>4, <1>6, <1>7 DEF Broadcast, Messages

LEMMA SendsOne ==
    ASSUME NEW w, w \in Seq(Messages), NEW x, x \in Messages
    PROVE  /\ Append(w, x) = w \o << x >>
           /\ << x >> \in Seq(Messages) /\ Len(<< x >>) = 1 /\ << x >>[1] = x
<1>1. /\ << x >> \in Seq(Messages) /\ Len(<< x >>) = 1 /\ << x >>[1] = x
    OBVIOUS
<1> QED
    BY <1>1

LEMMA HandleStep ==
    ASSUME EntityStoreInvariant, NEW m, m \in DOMAIN calls, Handle(m)
    PROVE  EntityStoreInvariant'
<1> DEFINE id     == calls[m].id
           method == calls[m].method
           event  == Broadcast(id, method, Written(id, method))
<1>1. /\ Typed /\ InFlight /\ fetch \in Fetches /\ reconcile \in BOOLEAN /\ unseen \in BOOLEAN
      /\ server \in [Id -> Revs] /\ clock \in 1 .. MaxRev /\ requests \subseteq Mutations
    BY TypedIs DEF EntityStoreInvariant, Typed
<1>2. id \in Id /\ method \in {"create", "patch", "remove"} /\ m \in Mutations
  <2>1. m \in 1 .. Len(calls)
      BY LenProperties DEF EntityStoreInvariant, Typed
  <2> QED
      BY <1>1, <2>1, TypedIs DEF Calls
<1>3. /\ UNCHANGED <<setup, lanes, cache, queue, calls, status, sent>>
      /\ UNCHANGED <<fetch, reconcile, unseen>>
      /\ m \in requests /\ requests' = requests \ {m}
    BY DEF Handle, client
<1>4. Absent \in PlainRows
    BY <1>1, TypedIs, RowsTyped DEF PlainRows, Plain, Absent
<1>5. ASSUME NEW ok, ok \in BOOLEAN, NEW item, item \in PlainRows
      PROVE  Answer(m, ok, item) \in Messages /\ Answer(m, ok, item).kind = "answer"
             /\ Answer(m, ok, item).mutation = m
    BY <1>2, <1>5 DEF Answer, Messages
<1>6. event.kind = "event"
    BY DEF Broadcast
<1>7. CASE wire' = Append(wire, Answer(m, FALSE, Absent)) /\ UNCHANGED <<server, clock>>
  <2> DEFINE a == Answer(m, FALSE, Absent)
             extra == << a >>
  <2>1. a \in Messages /\ a.kind = "answer" /\ a.mutation = m
      BY <1>4, <1>5
  <2> HIDE DEF a
  <2>2. wire' = wire \o extra /\ extra \in Seq(Messages) /\ Len(extra) = 1 /\ extra[1] = a
    <3>1. wire \in Seq(Messages) /\ wire' = Append(wire, a)
        BY <1>1, <1>7 DEF a, Typed
    <3> QED
        BY <2>1, <3>1, SendsOne
  <2> HIDE DEF extra
  <2>3. wire' \in Seq(Messages) /\ InFlight'
    <3>1. \A k \in 1 .. Len(extra) :
             extra[k].kind = "answer" => extra[k].mutation \in requests \ requests'
        BY <1>3, <2>1, <2>2
    <3>2. \A j, k \in 1 .. Len(extra) :
             j < k => ~ (extra[j].kind = "answer" /\ extra[k].kind = "answer")
        BY <2>2
    <3> QED
        BY <1>1, <1>3, <2>2, <3>1, <3>2, WireGrows
  <2>4. requests' \subseteq Mutations /\ server' \in [Id -> Revs] /\ clock' \in 1 .. MaxRev
      BY <1>1, <1>3, <1>7
  <2> QED
      BY <1>1, <1>3, <2>3, <2>4, ServerStep
<1>8. ASSUME Write(id, method), NEW ok \in BOOLEAN,
             LET answer == Answer(m, ok, IF ok THEN Written(id, method) ELSE Absent)
             IN  wire' = wire \o << answer, event >> \/ wire' = wire \o << event, answer >>
      PROVE  EntityStoreInvariant'
  <2> DEFINE item == IF ok THEN Written(id, method) ELSE Absent
             a == Answer(m, ok, item)
  <2>1. /\ server' \in [Id -> Revs] /\ clock' \in 1 .. MaxRev
        /\ Written(id, method) \in PlainRows /\ event \in Messages
      BY <1>1, <1>2, <1>8, WriteDoes
  <2>2. item \in PlainRows
      BY <1>4, <2>1
  <2> HIDE DEF item
  <2>3. a \in Messages /\ a.kind = "answer" /\ a.mutation = m
      BY <1>5, <2>2
  <2>4. wire' = wire \o << a, event >> \/ wire' = wire \o << event, a >>
      BY <1>8 DEF item
  <2> HIDE DEF a, event
  <2>5. PICK extra : /\ extra = << a, event >> \/ extra = << event, a >>
                     /\ wire' = wire \o extra
      BY <2>4
  <2>6. /\ extra \in Seq(Messages) /\ Len(extra) = 2
        /\ \/ extra[1] = a /\ extra[2] = event
           \/ extra[1] = event /\ extra[2] = a
    <3>1. CASE extra = << a, event >>
        BY <2>1, <2>3, <3>1
    <3>2. CASE extra = << event, a >>
        BY <2>1, <2>3, <3>2
    <3> QED
        BY <2>5, <3>1, <3>2
  <2>7. wire' \in Seq(Messages) /\ InFlight'
    <3>1. \A k \in 1 .. Len(extra) : extra[k] = a \/ extra[k] = event
        BY <2>6
    <3>2. \A k \in 1 .. Len(extra) :
             extra[k].kind = "answer" => extra[k].mutation \in requests \ requests'
        BY <1>3, <1>6, <2>3, <3>1
    <3>3. \A j, k \in 1 .. Len(extra) :
             j < k => ~ (extra[j].kind = "answer" /\ extra[k].kind = "answer")
        BY <1>6, <2>6
    <3> QED
        BY <1>1, <1>3, <2>5, <2>6, <3>2, <3>3, WireGrows
  <2>8. requests' \subseteq Mutations
      BY <1>1, <1>3
  <2> QED
      BY <1>1, <1>3, <2>1, <2>7, <2>8, ServerStep
<1>9. \/ wire' = Append(wire, Answer(m, FALSE, Absent)) /\ UNCHANGED <<server, clock>>
      \/ /\ Write(id, method)
         /\ \E ok \in BOOLEAN :
               LET answer == Answer(m, ok, IF ok THEN Written(id, method) ELSE Absent)
               IN  wire' = wire \o << answer, event >> \/ wire' = wire \o << event, answer >>
    BY DEF Handle
<1> QED
    BY <1>7, <1>8, <1>9

LEMMA RemoteStep ==
    ASSUME EntityStoreInvariant, NEW id \in setup.ids, NEW method \in setup.methods,
           Remote(id, method)
    PROVE  EntityStoreInvariant'
<1> DEFINE event == Broadcast(id, method, Written(id, method))
           extra == << event >>
<1>1. /\ Typed /\ InFlight /\ fetch \in Fetches /\ reconcile \in BOOLEAN /\ unseen \in BOOLEAN
      /\ requests \subseteq Mutations
    BY TypedIs DEF EntityStoreInvariant, Typed
<1>2. id \in Id /\ method \in {"create", "patch", "remove"}
    BY SetupsAreBounded DEF EntityStoreInvariant, Typed
<1>3. /\ Write(id, method) /\ wire' = Append(wire, event)
      /\ UNCHANGED <<setup, lanes, cache, queue, calls, status, sent>>
      /\ UNCHANGED <<fetch, reconcile, unseen, requests>>
    BY DEF Remote, client
<1>4. server' \in [Id -> Revs] /\ clock' \in 1 .. MaxRev /\ event \in Messages
    BY <1>1, <1>2, <1>3, WriteDoes
<1>5. event.kind = "event"
    BY DEF Broadcast
<1> HIDE DEF event
<1>6. wire' = wire \o extra /\ extra \in Seq(Messages) /\ Len(extra) = 1 /\ extra[1] = event
  <2>1. wire \in Seq(Messages)
      BY <1>1 DEF Typed
  <2> QED
      BY <1>3, <1>4, <2>1, SendsOne
<1> HIDE DEF extra
<1>7. wire' \in Seq(Messages) /\ InFlight'
  <2>1. \A k \in 1 .. Len(extra) : extra[k].kind # "answer"
      BY <1>5, <1>6
  <2> QED
      BY <1>1, <1>3, <1>6, <2>1, WireGrows
<1> QED
    BY <1>1, <1>3, <1>4, <1>7, ServerStep

LEMMA InitInvariant ==
    ASSUME Init
    PROVE  EntityStoreInvariant
<1> DEFINE s == State
<1>1. /\ setup \in Setups /\ clock = 1 /\ reconcile = FALSE /\ unseen = FALSE
      /\ server \in [Id -> {0, 1}] /\ cache = [id \in Id |-> Row(server[id])]
      /\ lanes = [id \in Id |-> NoLane] /\ queue = << >> /\ fetch = Idle /\ calls = << >>
      /\ status = [m \in 1 .. MaxCalls |-> "none"] /\ requests = {} /\ wire = << >>
      /\ sent = << >>
    BY DEF Init
<1>2. Bounded
    BY <1>1, SetupsAreBounded DEF Bounded
<1>3. 0 \in Revs /\ 1 \in Revs /\ 1 \in 1 .. MaxRev
    BY <1>2 DEF Bounded, Revs
<1>4. \A id \in Id : server[id] \in Revs
    BY <1>1, <1>3
<1>5. /\ s.lanes = lanes /\ s.cache = cache /\ s.queue = << >> /\ s.reconcile = FALSE
      /\ s.fetch = fetch /\ s.status = status /\ s.started = << >> /\ s.published = FALSE
    BY <1>1 DEF State
<1>6. s \in Client
  <2>1. lanes \in [Id -> Lanes] /\ cache \in [Id -> Rows]
      BY <1>1, <1>2, <1>4, RowsTyped
  <2>2. fetch \in Fetches
      BY <1>1, <1>3 DEF Idle, Fetches
  <2>3. status \in [Mutations -> Statuses]
      BY <1>1 DEF Mutations, Statuses
  <2>4. << >> \in Seq(Mutations) /\ << >> \in Seq(Events)
      OBVIOUS
  <2> QED
      BY <1>1, <2>1, <2>2, <2>3, <2>4 DEF State, Client
<1>7. Len(calls) = 0 /\ calls \in Seq(Calls) /\ Len(calls) <= MaxCalls
    BY <1>1, <1>2 DEF Bounded
<1>8. Typed
  <2>1. \A m \in Mutations : status[m] # "none" <=> m <= Len(calls)
      BY <1>1, <1>2, <1>7 DEF Mutations, Bounded
  <2>2. server \in [Id -> Revs]
      BY <1>1, <1>4
  <2>3. wire \in Seq(Messages) /\ sent \in Seq(Mutations)
      BY <1>1
  <2> QED
      BY <1>1, <1>3, <1>6, <1>7, <2>1, <2>2, <2>3 DEF Typed
<1>9. LanesRest
  <2> SUFFICES ASSUME NEW id \in Id PROVE Rests(s, id, calls)
      BY DEF LanesRest
  <2>1. s.lanes[id] = NoLane
      BY <1>1, <1>5
  <2>2. NoLane.entries = << >> /\ ~ NoLane.open /\ Len(NoLane.entries) = 0
      BY DEF NoLane
  <2>3. Holds(NoLane, id, calls, s.status)
      BY <1>7, <2>2 DEF Holds, Entered, InCallOrder, Complete
  <2>4. Projects(NoLane)
    <3>1. Absent \in Items(Revs, Mutations) /\ << >> \in Seq(Entries)
        BY <1>2, RowsTyped DEF Rows
    <3>2. \A e \in Entries : IsEntry(e, Mutations)
        BY EntriesAreEntries DEF Entries
    <3>3. Project(Absent, << >>) = Absent
      <4> DEFINE none == << >>
      <4>1. none \in Seq(Entries) /\ DOMAIN none = {}
          OBVIOUS
      <4> HIDE DEF none
      <4>2. Project(Absent, none) = Absent
          BY <1>3, <3>1, <3>2, <4>1, ProjectPlain
      <4> QED
          BY <4>2 DEF none
    <3> QED
        BY <3>3 DEF Projects, NoLane, Present
  <2>5. Busy(NoLane)
      BY <2>2 DEF Busy
  <2> QED
      BY <2>1, <2>3, <2>4, <2>5 DEF Rests
<1>10. RowsShown(State)
  <2>1. ASSUME NEW id \in Id PROVE RowShown(s.lanes[id], s.cache[id])
    <3>1. s.lanes[id] = NoLane /\ ~ NoLane.open /\ s.cache[id] = Row(server[id])
        BY <1>1, <1>5 DEF NoLane
    <3> QED
        BY <3>1 DEF RowShown, Plain, Row
  <2> QED
      BY <1>5, <2>1 DEF RowsShown
<1>11. InFlight
    BY <1>1 DEF InFlight
<1>12. Noticed
    BY <1>1 DEF Noticed
<1> QED
    BY <1>8, <1>9, <1>10, <1>11, <1>12 DEF EntityStoreInvariant

LEMMA NextInvariant ==
    ASSUME EntityStoreInvariant, [Next]_vars
    PROVE  EntityStoreInvariant'
<1>1. ASSUME NEW id \in setup.ids, NEW method \in setup.methods, NEW optimistic \in BOOLEAN,
             Call(id, method, optimistic)
      PROVE  EntityStoreInvariant'
    BY <1>1, CallStep
<1>2. ASSUME NEW i \in Deliverable, Deliver(i) PROVE EntityStoreInvariant'
    BY <1>2, DeliverStep
<1>3. CASE BatchTimer
    BY <1>3, BatchTimerStep
<1>4. CASE BeginFetch
    BY <1>4, BeginFetchStep
<1>5. CASE EndFetch
    BY <1>5, EndFetchStep
<1>6. ASSUME NEW m \in DOMAIN calls, Handle(m) PROVE EntityStoreInvariant'
    BY <1>6, HandleStep
<1>7. ASSUME NEW id \in setup.ids, NEW method \in setup.methods, Remote(id, method)
      PROVE  EntityStoreInvariant'
    BY <1>7, RemoteStep
<1>8. CASE AnswerFetch
    BY <1>8, AnswerFetchStep
<1>9. CASE UNCHANGED vars
  <2>1. /\ UNCHANGED <<setup, lanes, cache, queue, calls, status, sent>>
        /\ UNCHANGED <<fetch, reconcile, unseen, server, clock, requests, wire>>
      BY <1>9 DEF vars, client, network
  <2>2. /\ fetch \in Fetches /\ reconcile \in BOOLEAN /\ unseen \in BOOLEAN
        /\ server \in [Id -> Revs] /\ clock \in 1 .. MaxRev /\ requests \subseteq Mutations
        /\ wire \in Seq(Messages) /\ InFlight
      BY TypedIs DEF EntityStoreInvariant, Typed
  <2>3. InFlight'
      BY <2>1, <2>2 DEF InFlight
  <2> QED
      BY <2>1, <2>2, <2>3, ServerStep
<1> QED
    BY <1>1, <1>2, <1>3, <1>4, <1>5, <1>6, <1>7, <1>8, <1>9 DEF Next

\* The inductive invariant: a lane holds the mutations of its entity that are not
\* settled, in the order of the calls, and shows their projection; a request and its
\* answer are about a mutation that waits for them; where no event waits, every row
\* shows its lane; what was published since the last fetch is asked for or owed.
THEOREM StoreInvariant == Spec => []EntityStoreInvariant
<1>1. Init => EntityStoreInvariant
    BY InitInvariant
<1>2. EntityStoreInvariant /\ [Next]_vars => EntityStoreInvariant'
    BY NextInvariant
<1> QED
    BY <1>1, <1>2, PTL DEF Spec

-----------------------------------------------------------------------------
(* What the invariant says of the properties the runs check.               *)

\* The state is of the type the runs check: lanes, rows and requests are about
\* mutations that were called, and a lane that is there waits for a request.
THEOREM StoreIsTyped == Spec => []TypeOK
<1>1. ASSUME EntityStoreInvariant PROVE TypeOK
  <2>1. /\ Bounded /\ lanes \in [Id -> Lanes] /\ cache \in [Id -> Rows]
        /\ status \in [Mutations -> Statuses] /\ State.lanes = lanes /\ reconcile \in BOOLEAN
        /\ Len(calls) \in Nat /\ DOMAIN calls = 1 .. Len(calls) /\ Len(calls) <= MaxCalls
      BY <1>1, TypedIs, LenProperties DEF EntityStoreInvariant, Typed
  <2>2. Rows = Item
      BY DEF Rows, Items, Item, Revs, Mutations
  <2>3. \A m \in DOMAIN status : m \in DOMAIN calls <=> status[m] # "none"
    <3>1. DOMAIN status = Mutations
        BY <2>1
    <3>2. \A m \in Mutations : m <= Len(calls) <=> m \in 1 .. Len(calls)
        BY <2>1 DEF Mutations, Bounded
    <3>3. \A m \in Mutations : status[m] # "none" <=> m <= Len(calls)
        BY <1>1 DEF EntityStoreInvariant, Typed
    <3> QED
        BY <2>1, <3>1, <3>2, <3>3
  <2>4. requests \subseteq DOMAIN calls
    <3> SUFFICES ASSUME NEW m \in requests PROVE m \in DOMAIN calls
        OBVIOUS
    <3>1. m \in Mutations /\ status[m] = "sent"
        BY <1>1 DEF EntityStoreInvariant, Typed, InFlight
    <3> QED
        BY <2>1, <2>3, <3>1
  <2>5. \A id \in Id : lanes[id].base \in Item /\ lanes[id].visible \in Item
      BY <2>1, <2>2 DEF Lanes, Lane, Rows
  <2>6. \A id \in Id : IF lanes[id].open
                      THEN lanes[id].entries # << >> /\ lanes[id].running
                      ELSE lanes[id] = NoLane
      BY <1>1, <2>1 DEF EntityStoreInvariant, LanesRest, Rests, Busy, Projects
  <2>7. /\ server \in [Id -> 0 .. MaxRev] /\ clock \in 1 .. MaxRev /\ unseen \in BOOLEAN
      BY <1>1 DEF EntityStoreInvariant, Typed, Revs
  <2>8. status \in [1 .. MaxCalls ->
                      {"none", "queued", "sent", "done", "failed", "cancelled"}]
      BY <2>1 DEF Mutations, Statuses
  <2> QED
      BY <2>1, <2>2, <2>3, <2>4, <2>5, <2>6, <2>7, <2>8 DEF TypeOK
<1> QED
    BY <1>1, StoreInvariant, PTL

\* Whatever waits in a batch, fails or is cancelled: a change that was published and
\* not fetched over since is asked for, unless a lane that is still open owes it.
THEOREM ReconcileIsNeverLost == Spec => []NoReconcileLost
<1>1. ASSUME EntityStoreInvariant PROVE NoReconcileLost
  <2>1. State.lanes = lanes /\ State.reconcile = reconcile
      BY <1>1, TypedIs DEF EntityStoreInvariant
  <2> QED
      BY <1>1, <2>1 DEF EntityStoreInvariant, Noticed, Remembered, NoReconcileLost
<1> QED
    BY <1>1, StoreInvariant, PTL

\* The projection of a lane shows no mutation but the ones it holds.
LEMMA ShownIsHeld ==
    ASSUME Bounded, NEW lane \in Lanes, Plain(lane.base), Projects(lane), lane.open,
           NEW n \in ToSet(lane.visible.intents)
    PROVE  \E i \in 1 .. Len(lane.entries) : lane.entries[i].mutation = n
<1> DEFINE N == Len(lane.entries)
           E == { lane.entries[i] : i \in 1 .. N }
           M == { lane.entries[i].mutation : i \in 1 .. N }
<1>1. /\ lane.entries \in Seq(Entries) /\ N \in Nat /\ DOMAIN lane.entries = 1 .. N
      /\ \A i \in 1 .. N : lane.entries[i] \in Entries
  <2>1. lane.entries \in Seq(Entries)
      BY DEF Lanes, Lane, Entries
  <2> QED
      BY <2>1, LenProperties, ElementOfSeq
<1>2. lane.entries \in Seq(E)
  <2>1. lane.entries = [i \in 1 .. N |-> lane.entries[i]]
      BY <1>1
  <2>2. \A i \in 1 .. N : lane.entries[i] \in E
      OBVIOUS
  <2> HIDE DEF E
  <2> QED
      BY <1>1, <2>1, <2>2, SeqDef
<1>3. \A e \in E : IsEntry(e, M)
    BY <1>1 DEF IsEntry, Entries, EntriesOf
<1>4. lane.base \in Items(Revs, M)
  <2>1. lane.base \in Items(Revs, Mutations) /\ lane.base.intents = << >>
      BY DEF Lanes, Lane, Plain
  <2>2. << >> \in Seq(M)
      OBVIOUS
  <2> HIDE DEF M
  <2> QED
      BY <2>1, <2>2 DEF Items
<1>5. 0 \in Revs /\ lane.visible = Project(lane.base, lane.entries)
    BY DEF Bounded, Projects
<1> HIDE DEF E, M
<1>6. lane.visible \in Items(Revs, M)
    BY <1>2, <1>3, <1>4, <1>5, ProjectTyped
<1>7. lane.visible.intents \in Seq(M)
    BY <1>6 DEF Items
<1>8. n \in M
    BY <1>7, LenProperties DEF ToSet
<1> QED
    BY <1>8 DEF M

\* Where events are applied as they come, on one connection or not, a row shows its
\* lane's projection, and the intent of a settled or cancelled mutation is gone.
THEOREM NoIntentIsLeft == Spec => []NoGhostIntent
<1>1. ASSUME EntityStoreInvariant, ~ setup.batching, NEW id \in Id
      PROVE  /\ HasOverlay(lanes[id]) => cache[id] = lanes[id].visible
             /\ \A n \in ToSet(cache[id].intents) : status[n] \in {"queued", "sent"}
  <2> DEFINE lane == lanes[id]
             row == cache[id]
  <2>1. /\ Bounded /\ lane \in Lanes /\ State.lanes = lanes /\ State.cache = cache
        /\ State.status = status /\ Len(calls) \in Nat
      BY <1>1, TypedIs DEF EntityStoreInvariant
  <2>2. RowShown(lane, row)
      BY <1>1, <2>1 DEF EntityStoreInvariant, RowsShown
  <2>3. Entered(lane, id, calls, status) /\ Projects(lane)
      BY <1>1, <2>1 DEF EntityStoreInvariant, LanesRest, Rests, Holds
  <2>4. Plain(row) => ToSet(row.intents) = {}
    <3>1. ToSet(<< >>) = {}
        BY DEF ToSet
    <3> QED
        BY <3>1 DEF Plain
  <2>5. DOMAIN lane.entries = 1 .. Len(lane.entries)
    <3>1. lane.entries \in Seq(Entries)
        BY <2>1 DEF Lanes, Lane, Entries
    <3> QED
        BY <3>1, LenProperties
  <2>6. HasOverlay(lane) => row = lane.visible
      BY <2>2, <2>5 DEF HasOverlay, RowShown
  <2>7. ASSUME NEW n \in ToSet(row.intents) PROVE status[n] \in {"queued", "sent"}
    <3>1. lane.open /\ Plain(lane.base) /\ row = lane.visible
        BY <2>2, <2>4, <2>7 DEF RowShown
    <3>2. PICK i \in 1 .. Len(lane.entries) : lane.entries[i].mutation = n
        BY <2>1, <2>3, <2>7, <3>1, ShownIsHeld
    <3> QED
        BY <2>3, <3>2 DEF Entered
  <2> QED
      BY <2>6, <2>7
<1>2. EntityStoreInvariant => NoGhostIntent
    BY <1>1 DEF NoGhostIntent
<1> QED
    BY <1>2, StoreInvariant, PTL

\* The status of a mutation that was sent changes with the answer to it alone.
LEMMA SettlementsSettle ==
    ASSUME EntityStoreInvariant, [Next]_vars, NEW m, m \in 1 .. Len(calls),
           status[m] = "sent", status'[m] # "sent"
    PROVE  \E ok \in BOOLEAN, item \in PlainRows : status' = Settled(m, ok, item).status
<1> USE DEF EntityStoreInvariant
<1>1. /\ calls \in Seq(Calls) /\ Len(calls) <= MaxCalls /\ State.status = status
      /\ m \in Mutations /\ m # 0 /\ Len(calls) \in Nat
  <2>1. 1 .. Len(calls) \subseteq Mutations /\ State.status = status
      BY TypedIs
  <2>2. calls \in Seq(Calls) /\ Len(calls) <= MaxCalls /\ Len(calls) \in Nat
      BY LenProperties DEF Typed
  <2>3. m # 0
      BY <2>2
  <2> QED
      BY <2>1, <2>2, <2>3
<1>2. ASSUME NEW s, NEW cs, NEW n, n # m, Concludes(s, cs, n), status' = s.status PROVE FALSE
  <2>1. s.status[m] = "sent"
      BY <1>1, <1>2 DEF Concludes, Moves
  <2> QED
      BY <1>2, <2>1
<1>3. ASSUME NEW id \in setup.ids, NEW method \in setup.methods, NEW optimistic \in BOOLEAN,
             Call(id, method, optimistic)
      PROVE  FALSE
  <2> DEFINE k     == Len(calls) + 1
             entry == [mutation |-> k, method |-> method, optimistic |-> optimistic]
             lane  == Ensure(lanes[id], cache[id])
             s     == [State EXCEPT !.lanes[id] = Enqueue(lane, entry), !.status[k] = "queued"]
             t     == Drain(ShowProjection(s, id, lane.visible, FALSE), id)
             cs    == Append(calls, [id |-> id, method |-> method, optimistic |-> optimistic])
  <2>1. /\ setup.ids \subseteq Id /\ setup.methods \subseteq {"create", "patch", "remove"}
        /\ MaxCalls \in Nat /\ setup.calls \in 0 .. MaxCalls
      BY SetupsAreBounded DEF Typed
  <2>2. k <= setup.calls /\ status' = t.status
      BY <1>3 DEF Call, Become
  <2>3. k <= MaxCalls
      BY <1>1, <2>1, <2>2
  <2>4. Concludes(t, cs, 0)
      BY <2>1, <2>3, CallDoes
  <2> HIDE DEF t, cs
  <2> QED
      BY <1>1, <1>2, <2>2, <2>4
<1>4. ASSUME NEW i \in Deliverable, Deliver(i), wire[i].kind # "answer" PROVE FALSE
  <2> DEFINE msg == wire[i]
             event == [mode |-> "server", id |-> msg.id, type |-> msg.type, item |-> msg.item]
  <2>1. wire \in Seq(Messages) /\ i \in 1 .. Len(wire)
      BY LenProperties DEF Deliverable, Typed
  <2>2. /\ msg.id \in Id /\ msg.type \in {"created", "patched", "removed"}
        /\ msg.item \in PlainRows
      BY <1>4, <2>1, MessagesAre
  <2>3. event \in Events /\ event.mode = "server" /\ Plain(event.item)
      BY <2>2 DEF Events, PlainRows
  <2>4. status' = Ingested(event).status
      BY <1>4 DEF Deliver, Become
  <2> HIDE DEF event
  <2>5. Concludes(Ingested(event), calls, 0)
      BY <2>3, IngestedDoes
  <2> QED
      BY <1>1, <1>2, <2>4, <2>5
<1>5. ASSUME NEW i \in Deliverable, Deliver(i), wire[i].kind = "answer"
      PROVE  \E ok \in BOOLEAN, item \in PlainRows : status' = Settled(m, ok, item).status
  <2> DEFINE msg == wire[i]
             n == msg.mutation
             s == Settled(n, msg.ok, msg.item)
  <2>1. wire \in Seq(Messages) /\ i \in 1 .. Len(wire)
      BY LenProperties DEF Deliverable, Typed
  <2>2. n \in Mutations /\ msg.ok \in BOOLEAN /\ msg.item \in PlainRows /\ status[n] = "sent"
      BY <1>5, <2>1, MessagesAre DEF InFlight
  <2>3. status' = s.status
      BY <1>5 DEF Deliver, Become
  <2>4. n \in 1 .. Len(calls)
    <3>1. n <= Len(calls)
        BY <2>2 DEF Typed
    <3> QED
        BY <1>1, <2>2, <3>1 DEF Mutations
  <2>5. Concludes(s, calls, n)
      BY <2>2, <2>4, SettledDoes
  <2> HIDE DEF s
  <2>6. n = m
      BY <1>2, <2>3, <2>5
  <2> QED
      BY <2>2, <2>3, <2>6 DEF s
<1>6. ASSUME BatchTimer PROVE FALSE
  <2>1. Calm(Flush(State)) /\ status' = Flush(State).status
      BY <1>6, StateIsCalm, FlushIsCalm DEF BatchTimer, Become
  <2> QED
      BY <2>1 DEF Calm
<1>7. UNCHANGED status => FALSE
    OBVIOUS
<1>8. ~ BeginFetch /\ ~ EndFetch /\ ~ AnswerFetch
    BY <1>7 DEF BeginFetch, EndFetch, AnswerFetch
<1>9. /\ \A k \in DOMAIN calls : ~ Handle(k)
      /\ \A id \in setup.ids, method \in setup.methods : ~ Remote(id, method)
    BY <1>7 DEF Handle, Remote, client
<1>10. ~ UNCHANGED vars
    BY <1>7 DEF vars, client
<1> QED
    BY <1>3, <1>4, <1>5, <1>6, <1>8, <1>9, <1>10 DEF Next

\* What depends on a row that is gone is not sent: everything queued behind a failed
\* create, and what is queued behind an acknowledged remove before the next create,
\* is cancelled with the settlement; and nothing that was sent is queued or cancelled.
THEOREM DependantsAreCancelled == Spec => DependantsAreNotSent
<1> DEFINE Doom == \A m, n \in DOMAIN calls :
            (/\ m < n /\ calls[m].id = calls[n].id
             /\ status[m] = "sent" /\ status[n] = "queued"
             /\ \/ calls[m].method = "create" /\ status'[m] = "failed"
                \/ /\ calls[m].method = "remove" /\ status'[m] = "done"
                   /\ \A k \in m + 1 .. n :
                        calls[k].id = calls[m].id => calls[k].method # "create")
            => status'[n] = "cancelled"
           Sent == \A i \in DOMAIN sent : status[sent[i]] \notin {"queued", "cancelled"}
<1>1. ASSUME EntityStoreInvariant, [Next]_vars,
             NEW m \in DOMAIN calls, NEW n \in DOMAIN calls, m < n, calls[m].id = calls[n].id,
             status[m] = "sent", status[n] = "queued",
             \/ calls[m].method = "create" /\ status'[m] = "failed"
             \/ /\ calls[m].method = "remove" /\ status'[m] = "done"
                /\ \A k \in m + 1 .. n :
                     calls[k].id = calls[m].id => calls[k].method # "create"
      PROVE  status'[n] = "cancelled"
  <2> DEFINE id == calls[m].id
             lane == lanes[id]
  <2>1. /\ Typed /\ LanesRest /\ RowsShown(State)
        /\ calls \in Seq(Calls) /\ m \in 1 .. Len(calls) /\ n \in 1 .. Len(calls)
      BY <1>1, LenProperties DEF EntityStoreInvariant, Typed
  <2>2. PICK ok \in BOOLEAN, item \in PlainRows : status' = Settled(m, ok, item).status
      BY <1>1, <2>1, SettlementsSettle
  <2>3. /\ status'[m] = (IF ok THEN "done" ELSE "failed")
        /\ n \in Cancelled(Head(lane.entries), ok, Tail(lane.entries)) => status'[n] = "cancelled"
      BY <1>1, <2>1, <2>2, SettledDoes
  <2>4. id \in Id /\ lane \in Lanes /\ Awaits(lane, id, m, calls, status)
      BY <1>1, <2>1, SentIsAwaited, TypedIs
  <2>5. \/ ~ ok /\ calls[m].method = "create"
        \/ /\ ok /\ calls[m].method = "remove"
           /\ \A k \in m + 1 .. n : calls[k].id = id => calls[k].method # "create"
      BY <1>1, <2>3
  <2>6. n \in Cancelled(Head(lane.entries), ok, Tail(lane.entries))
      BY <1>1, <2>1, <2>4, <2>5, DependantsAreDoomed
  <2> QED
      BY <2>3, <2>6
<1>2. EntityStoreInvariant /\ [Next]_vars => [Doom]_vars
    BY <1>1
<1>3. EntityStoreInvariant => Sent
  <2> SUFFICES ASSUME EntityStoreInvariant, NEW i \in DOMAIN sent
               PROVE  status[sent[i]] \notin {"queued", "cancelled"}
      OBVIOUS
  <2>1. i \in 1 .. Len(sent)
      BY LenProperties DEF EntityStoreInvariant, Typed
  <2> QED
      BY <2>1 DEF EntityStoreInvariant, InFlight
<1>4. Spec => [][Doom]_vars
    BY <1>2, StoreInvariant, PTL DEF Spec
<1>5. Spec => []Sent
    BY <1>3, StoreInvariant, PTL
<1> QED
    BY <1>4, <1>5 DEF DependantsAreNotSent

=============================================================================
