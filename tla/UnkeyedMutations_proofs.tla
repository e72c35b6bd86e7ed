---------------------- MODULE UnkeyedMutations_proofs ----------------------
(***************************************************************************)
(* Writes that take no lane: when useMutating says that nothing is being   *)
(* written the cache shows every outcome, useAction and useMutation tell   *)
(* of their own writes, and the cache converges with the server.           *)
(*                                                                         *)
(* The invariant is about the events that are under way: those that wait   *)
(* for the batch timer and those that answers and messages of the wire     *)
(* carry.  Revisions order what patches; creations and removals, which are *)
(* not compared, must keep their place.                                    *)
(***************************************************************************)
EXTENDS UnkeyedMutations, SequenceTheorems, FiniteSetTheorems, WellFoundedInduction, TLAPS

-----------------------------------------------------------------------------
(* Induction and recursion over the natural numbers, stated of sets.       *)

\* A nonempty set of natural numbers has a least element.
LEMMA LeastNumber ==
    ASSUME NEW S, S \subseteq Nat, S # {}
    PROVE  \E n \in S : \A m \in S : n <= m
<1>1. IsWellFoundedOn({p \in Nat \X Nat : p[1] < p[2]}, Nat)
    BY NatLessThanWellFounded DEF OpToRel
<1> DEFINE R == {p \in Nat \X Nat : p[1] < p[2]}
<1>2. \A i, j \in Nat : <<i, j>> \in R <=> i < j
    OBVIOUS
<1>3. IsWellFoundedOn(R, Nat)
    BY <1>1
<1> HIDE DEF R
<1>4. PICK n \in S : \A m \in S : <<m, n>> \notin R
    BY ONLY <1>3, S \subseteq Nat, S # {}, WFMin
<1>5. ASSUME NEW m \in S PROVE n <= m
  <2>1. m \in Nat /\ n \in Nat
      BY <1>5, S \subseteq Nat
  <2>2. ~ (m < n)
      BY <1>2, <1>4, <2>1
  <2> QED
      BY <2>1, <2>2
<1> QED
    BY <1>5

\* Induction: a set with zero and every successor has every natural number.
LEMMA Induction ==
    ASSUME NEW S, 0 \in S, \A n \in Nat : n \in S => n + 1 \in S
    PROVE  \A n \in Nat : n \in S
<1> SUFFICES ASSUME NEW n \in Nat, n \notin S PROVE FALSE
    OBVIOUS
<1> DEFINE T == { k \in Nat : k \notin S }
<1>1. T \subseteq Nat /\ n \in T
    OBVIOUS
<1>2. PICK least \in T : \A k \in T : least <= k
    BY ONLY <1>1, LeastNumber
<1>3. least \in Nat /\ least \notin S /\ least # 0
    BY <1>2
<1>4. least - 1 \in Nat /\ least = (least - 1) + 1 /\ least - 1 \notin S
    BY <1>3
<1>5. least <= least - 1
    BY <1>2, <1>4
<1> QED
    BY <1>3, <1>5

\* Induction up to a bound.
LEMMA BoundedInduction ==
    ASSUME NEW n \in Nat, NEW S, 0 \in S, \A i \in 1 .. n : i - 1 \in S => i \in S
    PROVE  \A i \in 0 .. n : i \in S
<1> DEFINE T == { i \in Nat : i <= n => i \in S }
<1>1. 0 \in T
    OBVIOUS
<1>2. ASSUME NEW i \in Nat, i \in T PROVE i + 1 \in T
  <2> SUFFICES ASSUME i + 1 <= n PROVE i + 1 \in S
      OBVIOUS
  <2>1. i + 1 \in 1 .. n /\ (i + 1) - 1 = i /\ i \in S
      BY <1>2
  <2> QED
      BY <2>1
<1> HIDE DEF T
<1>3. \A i \in Nat : i \in T
    BY ONLY <1>1, <1>2, Induction
<1> QED
    BY <1>3 DEF T

\* A function that begins with c and makes n steps in X.
HasSolution(X, c, n, step) ==
    \E g \in [0 .. n -> X] : g[0] = c /\ \A i \in 1 .. n : g[i] = step[<< g[i - 1], i >>]

\* A recursive definition over an interval has a solution.
LEMMA Recursion ==
    ASSUME NEW X, NEW c, NEW n, NEW step,
           c \in X, n \in Nat, step \in [X \X (1 .. n) -> X]
    PROVE  HasSolution(X, c, n, step)
<1> DEFINE Solves(g, k) == g[0] = c /\ \A i \in 1 .. k : g[i] = step[<< g[i - 1], i >>]
           T == { k \in 0 .. n : \E g \in [0 .. k -> X] : Solves(g, k) }
<1>1. 0 \in T
  <2> DEFINE h == [i \in 0 .. 0 |-> c]
  <2>1. h \in [0 .. 0 -> X] /\ h[0] = c /\ 1 .. 0 = {} /\ 0 \in 0 .. n
      OBVIOUS
  <2> HIDE DEF h
  <2>2. Solves(h, 0)
      BY <2>1
  <2> HIDE DEF Solves
  <2>3. \E g \in [0 .. 0 -> X] : Solves(g, 0)
      BY <2>1, <2>2
  <2> QED
      BY <2>1, <2>3
<1>2. ASSUME NEW k \in 1 .. n, k - 1 \in T PROVE k \in T
  <2>1. PICK g \in [0 .. k - 1 -> X] : Solves(g, k - 1)
      BY <1>2
  <2> DEFINE h == [i \in 0 .. k |-> IF i = k THEN step[<< g[k - 1], k >>] ELSE g[i]]
  <2>2. h \in [0 .. k -> X]
    <3> SUFFICES ASSUME NEW i \in 0 .. k PROVE h[i] \in X
        OBVIOUS
    <3>1. g[k - 1] \in X
        OBVIOUS
    <3>2. step[<< g[k - 1], k >>] \in X
        BY <3>1
    <3>3. i # k => i \in 0 .. k - 1
        OBVIOUS
    <3> QED
        BY <3>2, <3>3
  <2>3. ASSUME NEW i \in 1 .. k PROVE h[i] = step[<< h[i - 1], i >>]
    <3>1. CASE i = k
      <4>1. h[i] = step[<< g[k - 1], k >>] /\ k - 1 \in 0 .. k /\ k - 1 # k
          BY <3>1
      <4>2. h[i - 1] = g[k - 1]
          BY <3>1, <4>1
      <4> QED
          BY <3>1, <4>1, <4>2
    <3>2. CASE i # k
      <4>1. i \in 1 .. k - 1 /\ i - 1 \in 0 .. k - 1
          BY <3>2
      <4> QED
          BY <2>1, <3>2, <4>1
    <3> QED
        BY <3>1, <3>2
  <2>4. h[0] = c
      BY <2>1
  <2>5. Solves(h, k)
      BY <2>3, <2>4
  <2>6. k \in 0 .. n
      OBVIOUS
  <2> HIDE DEF h
  <2> QED
      BY <2>2, <2>5, <2>6
<1> HIDE DEF T
<1>3. \A k \in 0 .. n : k \in T
    BY ONLY <1>1, <1>2, n \in Nat, BoundedInduction
<1>4. n \in T
    BY <1>3
<1> QED
    BY <1>4 DEF T, HasSolution

\* Taking one away: the others stay, in order.
LEMMA RemoveAtDoes ==
    ASSUME NEW T, NEW w, w \in Seq(T), NEW i, i \in 1 .. Len(w)
    PROVE  /\ RemoveAt(w, i) \in Seq(T) /\ Len(RemoveAt(w, i)) = Len(w) - 1
           /\ \A k \in 1 .. Len(w) - 1 :
                 RemoveAt(w, i)[k] = IF k < i THEN w[k] ELSE w[k + 1]
<1> DEFINE n == Len(w)
           before == SubSeq(w, 1, i - 1)
           after == SubSeq(w, i + 1, n)
<1>1. n \in Nat /\ i \in 1 .. n /\ \A k \in 1 .. n : w[k] \in T
    BY LenProperties, ElementOfSeq
<1>2. /\ before \in Seq(T) /\ Len(before) = i - 1
      /\ \A k \in 1 .. i - 1 : before[k] = w[k]
  <2>1. 1 \in Int /\ i - 1 \in Int /\ \A k \in 1 .. i - 1 : w[k] \in T
      BY <1>1
  <2> QED
      BY <1>1, <2>1, SubSeqProperties
<1>3. /\ after \in Seq(T) /\ Len(after) = n - i
      /\ \A k \in 1 .. n - i : after[k] = w[i + k]
  <2>1. i + 1 \in Int /\ n \in Int /\ \A k \in i + 1 .. n : w[k] \in T
      BY <1>1
  <2> QED
      BY <1>1, <2>1, SubSeqProperties
<1> HIDE DEF before, after
<1>4. RemoveAt(w, i) = before \o after
    BY DEF RemoveAt, before, after
<1>5. /\ before \o after \in Seq(T) /\ Len(before \o after) = n - 1
      /\ \A k \in 1 .. n - 1 :
            (before \o after)[k] = IF k <= i - 1 THEN before[k] ELSE after[k - (i - 1)]
  <2>1. /\ before \o after \in Seq(T)
        /\ Len(before \o after) = Len(before) + Len(after)
        /\ \A k \in 1 .. Len(before) + Len(after) :
              (before \o after)[k] = IF k <= Len(before) THEN before[k]
                                     ELSE after[k - Len(before)]
      BY <1>2, <1>3, ConcatProperties
  <2>2. Len(before) + Len(after) = n - 1 /\ Len(before) = i - 1
      BY <1>1, <1>2, <1>3
  <2> QED
      BY <2>1, <2>2
<1>6. ASSUME NEW k \in 1 .. n - 1
      PROVE  (before \o after)[k] = IF k < i THEN w[k] ELSE w[k + 1]
  <2>1. CASE k < i
      BY <1>1, <1>2, <1>5, <2>1
  <2>2. CASE ~ (k < i)
    <3>1. k - (i - 1) \in 1 .. n - i /\ i + (k - (i - 1)) = k + 1 /\ ~ (k <= i - 1)
        BY <1>1, <2>2
    <3>2. after[k - (i - 1)] = w[k + 1]
        BY <1>3, <3>1
    <3> QED
        BY <1>5, <2>2, <3>1, <3>2
  <2> QED
      BY <2>1, <2>2
<1> QED
    BY <1>4, <1>5, <1>6

-----------------------------------------------------------------------------
(* What is under way.                                                      *)

EventTypes == {"created", "patched", "removed"}

Event == [type : EventTypes, id : Ids, rev : 0 .. MaxRevs]

Write == [by : Actors, door : Doors, method : Methods, ids : SUBSET Ids, rev : Nat,
          phase : {"sent", "done", "failed"}]

Answer == [kind : {"answer"}, call : Nat, ok : BOOLEAN, ids : SUBSET Ids, rev : Nat]

News == [kind : {"events"}, list : Seq(Event)]

\* The events a message brings.
Carried(ws, msg) ==
    IF msg.kind = "events" THEN { msg.list[i] : i \in 1 .. Len(msg.list) }
    ELSE IF msg.ok
    THEN { [type |-> EventType(ws[msg.call].method), id |-> id, rev |-> msg.rev] : id \in msg.ids }
    ELSE {}

\* A client with its server and the wire between them.  The first events of the
\* queue have been applied, when the others are about to be.
Worlds ==
    [cache : Rows, queue : Seq(Event), applied : Nat, writes : Seq(Write),
     wire : Seq(Answer \cup News), stored : [Ids -> 0 .. MaxRevs], asked : SUBSET Nat]

World == [cache |-> cache, queue |-> queue, applied |-> 0, writes |-> calls,
          wire |-> wire, stored |-> server, asked |-> requests]

Waiting(x) == x.applied + 1 .. Len(x.queue)
Coming(x, j) == Carried(x.writes, x.wire[j])

UnderWay(x, e) ==
    \/ \E i \in Waiting(x) : e = x.queue[i]
    \/ \E j \in 1 .. Len(x.wire) : e \in Coming(x, j)

Known(x, id) == \E m \in 1 .. Len(x.writes) : id \in x.writes[m].ids

-----------------------------------------------------------------------------
(* The invariant.                                                          *)

\* What may come before what, of one record: nothing but the same event of its
\* creation before that, nothing but the same of its removal after it.
Before(x, e, f) ==
    e.id = f.id =>
        /\ f.type = "created" => e.type = "created" /\ e.rev = f.rev
        /\ e.type = "removed" => f.type = "removed" /\ Known(x, e.id)

Ordered(x) ==
    /\ \A i, j \in Waiting(x) : i < j => Before(x, x.queue[i], x.queue[j])
    /\ \A i \in Waiting(x), j \in 1 .. Len(x.wire) :
          \A f \in Coming(x, j) : Before(x, x.queue[i], f)
    /\ \A i, j \in 1 .. Len(x.wire) : i < j =>
          \A e \in Coming(x, i), f \in Coming(x, j) : Before(x, e, f)

\* A message tells of a record once.
Single(x) ==
    \A j \in 1 .. Len(x.wire) : x.wire[j].kind = "events" =>
        \A k, l \in 1 .. Len(x.wire[j].list) :
            k < l => x.wire[j].list[k].id # x.wire[j].list[l].id

Stamped(x) ==
    \A e \in Event : UnderWay(x, e) /\ e.type # "removed" => e.rev # 0

\* While the event of a creation is under way nothing later was applied.
CreatedFirst(x) ==
    \A e \in Event : UnderWay(x, e) /\ e.type = "created" =>
        x.cache[e.id] \in {Absent, Local, e.rev}

\* What the server has is in the cache or will be, and nothing newer.
StoredArrives(x) ==
    \A id \in Ids : x.stored[id] # 0 =>
        /\ \A e \in Event : UnderWay(x, e) /\ e.id = id =>
              e.type # "removed" /\ e.rev <= x.stored[id]
        /\ x.cache[id] \in {Absent, Local} \/ x.cache[id] <= x.stored[id]
        /\ \/ x.cache[id] = x.stored[id]
           \/ \E e \in Event : UnderWay(x, e) /\ e.id = id /\ e.rev = x.stored[id]

\* What the server has not is not in the cache, or its removal is under way.
RemovedArrives(x) ==
    \A id \in Ids : x.stored[id] = 0 =>
        \/ \E e \in Event : UnderWay(x, e) /\ e.id = id /\ e.type = "removed"
        \/ /\ \A e \in Event : UnderWay(x, e) => e.id # id
           /\ x.cache[id] \in {Absent, Local}

\* Nothing is under way of a record that could be created.
StrangersRest(x) ==
    \A id \in Ids : ~ Known(x, id) /\ x.cache[id] = Absent =>
        x.stored[id] = 0 /\ \A e \in Event : UnderWay(x, e) => e.id # id

Gone(x, id) ==
    /\ x.stored[id] = 0 /\ x.cache[id] = Absent
    /\ \A e \in Event : UnderWay(x, e) /\ e.id = id => e.type = "removed"

\* A write that is done is shown, but for the one whose events are being applied.
DoneIsShown(x, t) ==
    \A m \in 1 .. Len(x.writes) :
        x.writes[m].phase = "done" /\ x.writes[m].method # "call" =>
            \A id \in x.writes[m].ids :
                \/ Gone(x, id)
                \/ x.writes[m].method # "remove" /\ x.cache[id] \in x.writes[m].rev .. Local - 1
                \/ m = t /\ \E i \in Waiting(x) :
                      /\ x.queue[i].type = EventType(x.writes[m].method)
                      /\ x.queue[i].id = id /\ x.queue[i].rev = x.writes[m].rev

\* A row is optimistic for a batch create that is not settled.
LocalIsSent(x, t) ==
    \A id \in Ids : x.cache[id] = Local =>
        /\ Known(x, id)
        /\ \A m \in 1 .. Len(x.writes) : id \in x.writes[m].ids =>
              \/ x.writes[m].phase = "sent" /\ x.writes[m].method = "createMany"
              \/ m = t /\ \E i \in Waiting(x) : x.queue[i].id = id

AnswerOf(x, j, m) == x.wire[j].kind = "answer" /\ x.wire[j].call = m

\* Creates the server has not handled, and batches it has refused.
Unborn(x, m) ==
    /\ x.writes[m].method \in {"create", "createMany"}
    /\ \/ m \in x.asked
       \/ /\ x.writes[m].method = "createMany"
          /\ \E j \in 1 .. Len(x.wire) : AnswerOf(x, j, m) /\ ~ x.wire[j].ok

\* Their records are theirs, and nowhere else.
UnbornAreNew(x) ==
    \A m \in 1 .. Len(x.writes) : Unborn(x, m) =>
        \A id \in x.writes[m].ids :
            /\ x.stored[id] = 0 /\ x.cache[id] \in {Absent, Local}
            /\ \A e \in Event : UnderWay(x, e) => e.id # id
            /\ \A n \in 1 .. Len(x.writes) : n # m => id \notin x.writes[n].ids

\* Every write that is not settled has its request or its answer under way.
AnswersFit(x) ==
    /\ \A m \in x.asked :
          /\ m \in 1 .. Len(x.writes) /\ x.writes[m].phase = "sent"
          /\ \A j \in 1 .. Len(x.wire) : ~ AnswerOf(x, j, m)
    /\ \A j \in 1 .. Len(x.wire), m \in Nat : AnswerOf(x, j, m) =>
          /\ m \in 1 .. Len(x.writes) /\ x.writes[m].phase = "sent"
          /\ \A k \in 1 .. Len(x.wire) : k # j => ~ AnswerOf(x, k, m)
          /\ x.writes[m].method # "patchAll" => x.wire[j].ids = x.writes[m].ids
          /\ x.wire[j].ok => x.wire[j].rev \in 1 .. MaxRevs
    /\ \A m \in 1 .. Len(x.writes) : x.writes[m].phase = "sent" =>
          m \in x.asked \/ \E j \in 1 .. Len(x.wire) : AnswerOf(x, j, m)

WritesFit(x) ==
    \A m \in 1 .. Len(x.writes) :
        /\ x.writes[m].door = "handle" <=> x.writes[m].method \in Unnamed
        /\ x.writes[m].phase = "sent" /\ x.writes[m].method = "patchAll" => x.writes[m].ids = {}
        /\ x.writes[m].method = "call" => x.writes[m].ids = {}
        /\ x.writes[m].phase = "done" => x.writes[m].rev # 0

Holds(x, t) ==
    /\ x \in Worlds
    /\ Ordered(x) /\ Single(x) /\ Stamped(x) /\ CreatedFirst(x)
    /\ StoredArrives(x) /\ RemovedArrives(x) /\ StrangersRest(x)
    /\ DoneIsShown(x, t) /\ LocalIsSent(x, t) /\ UnbornAreNew(x)
    /\ AnswersFit(x) /\ WritesFit(x)

-----------------------------------------------------------------------------
(* An event is applied.                                                    *)

\* The fields of a world.
LEMMA WorldTypes ==
    ASSUME NEW x, x \in Worlds
    PROVE  /\ x.cache \in [Ids -> (0 .. MaxRevs) \cup {Local}] /\ x.stored \in [Ids -> 0 .. MaxRevs]
           /\ x.queue \in Seq(Event) /\ Len(x.queue) \in Nat /\ DOMAIN x.queue = 1 .. Len(x.queue)
           /\ x.applied \in Nat /\ x.asked \in SUBSET Nat
           /\ \A i \in 1 .. Len(x.queue) : x.queue[i] \in Event
           /\ x.wire \in Seq(Answer \cup News) /\ Len(x.wire) \in Nat
           /\ DOMAIN x.wire = 1 .. Len(x.wire)
           /\ \A j \in 1 .. Len(x.wire) : x.wire[j] \in Answer \cup News
           /\ x.writes \in Seq(Write) /\ Len(x.writes) \in Nat
           /\ DOMAIN x.writes = 1 .. Len(x.writes)
           /\ \A m \in 1 .. Len(x.writes) : x.writes[m] \in Write
<1>1. /\ x.cache \in Rows /\ x.stored \in [Ids -> 0 .. MaxRevs] /\ x.queue \in Seq(Event)
      /\ x.applied \in Nat /\ x.wire \in Seq(Answer \cup News) /\ x.writes \in Seq(Write)
      /\ x.asked \in SUBSET Nat
    BY DEF Worlds
<1> QED
    BY <1>1, LenProperties, ElementOfSeq DEF Rows

\* A revision of the service is never the mark of an optimistic row.
LEMMA RevsBelowLocal == MaxRevs \in Nat /\ MaxRevs < Local /\ Local = 1000 /\ MaxRevs # 0
    BY UnkeyedAssumption DEF Local

\* What an event leaves: other records are as they were.
LEMMA AppliedDoes ==
    ASSUME NEW rows \in Rows, NEW h \in Event
    PROVE  /\ Applied(rows, h) \in Rows
           /\ \A id \in Ids : id # h.id => Applied(rows, h)[id] = rows[id]
           /\ h.type = "removed" => Applied(rows, h)[h.id] = Absent
           /\ h.type = "created" => Applied(rows, h)[h.id] = h.rev
           /\ h.type = "patched" /\ h.rev < rows[h.id] /\ rows[h.id] # Local =>
                 Applied(rows, h)[h.id] = rows[h.id]
           /\ h.type = "patched" /\ ~ (h.rev < rows[h.id] /\ rows[h.id] # Local) =>
                 Applied(rows, h)[h.id] = h.rev
<1>1. /\ h.id \in Ids /\ h.rev \in 0 .. MaxRevs /\ h.type \in {"created", "patched", "removed"}
      /\ rows \in [Ids -> (0 .. MaxRevs) \cup {Local}] /\ rows[h.id] \in (0 .. MaxRevs) \cup {Local}
    BY DEF Event, EventTypes, Rows
<1>2. rows[h.id] \in h.rev + 1 .. Local - 1 <=> h.rev < rows[h.id] /\ rows[h.id] # Local
    BY <1>1, RevsBelowLocal
<1>3. CASE h.type = "removed"
  <2>1. Applied(rows, h) = [rows EXCEPT ![h.id] = Absent]
      BY <1>3 DEF Applied
  <2> QED
      BY <1>1, <1>3, <2>1, RevsBelowLocal DEF Rows, Absent
<1>4. CASE h.type = "patched" /\ h.rev < rows[h.id] /\ rows[h.id] # Local
  <2>1. Applied(rows, h) = rows
      BY <1>2, <1>4 DEF Applied
  <2> QED
      BY <1>1, <1>4, <2>1 DEF Rows
<1>5. CASE h.type # "removed" /\ ~ (h.type = "patched" /\ h.rev < rows[h.id] /\ rows[h.id] # Local)
  <2>1. Applied(rows, h) = [rows EXCEPT ![h.id] = h.rev]
      BY <1>2, <1>5 DEF Applied
  <2> QED
      BY <1>1, <1>5, <2>1 DEF Rows
<1> QED
    BY <1>1, <1>3, <1>4, <1>5

\* The first event that waits is applied, and the world still fits together.
LEMMA HeadApplies ==
    ASSUME NEW x, NEW t, Holds(x, t), x.applied < Len(x.queue), NEW y,
           y = [x EXCEPT !.cache = Applied(@, x.queue[x.applied + 1]), !.applied = @ + 1]
    PROVE  /\ Holds(y, t)
           /\ \A id \in Ids : id # x.queue[x.applied + 1].id => y.cache[id] = x.cache[id]
           /\ \A e \in Event : UnderWay(y, e) => UnderWay(x, e)
<1> DEFINE i0 == x.applied + 1
           h == x.queue[i0]
           c == x.cache[h.id]
           v == y.cache[h.id]
<1>1. /\ x \in Worlds /\ x.cache \in Rows /\ i0 \in 1 .. Len(x.queue) /\ h \in Event
      /\ Len(x.queue) \in Nat /\ x.applied \in Nat
      /\ \A i \in 1 .. Len(x.queue) : x.queue[i] \in Event
      /\ \A id \in Ids : x.cache[id] \in (0 .. MaxRevs) \cup {Local} /\ x.stored[id] \in 0 .. MaxRevs
    BY WorldTypes DEF Holds, Rows
<1>2. /\ y.cache = Applied(x.cache, h) /\ y.applied = i0 /\ y.queue = x.queue
      /\ y.writes = x.writes /\ y.wire = x.wire /\ y.stored = x.stored /\ y.asked = x.asked
    BY <1>1 DEF Worlds
<1>3. /\ y.cache \in Rows /\ \A id \in Ids : id # h.id => y.cache[id] = x.cache[id]
      /\ h.type = "removed" => v = Absent
      /\ h.type = "created" => v = h.rev
      /\ h.type = "patched" /\ h.rev < c /\ c # Local => v = c
      /\ h.type = "patched" /\ ~ (h.rev < c /\ c # Local) => v = h.rev
    BY <1>1, <1>2, AppliedDoes
<1>4. y \in Worlds
  <2>1. i0 \in Nat /\ Applied(x.cache, h) \in Rows
      BY <1>1, <1>2, <1>3
  <2>2. y = [x EXCEPT !.cache = Applied(x.cache, h), !.applied = i0]
      OBVIOUS
  <2> HIDE DEF h, i0
  <2> QED
      BY ONLY <1>1, <2>1, <2>2 DEF Worlds
<1>5. /\ Waiting(y) \subseteq Waiting(x) /\ i0 \in Waiting(x) /\ Waiting(x) \subseteq 1 .. Len(x.queue)
      /\ \A i \in Waiting(x) : i # i0 => i \in Waiting(y)
      /\ \A i \in Waiting(y) : i0 < i
    BY <1>1, <1>2 DEF Waiting
<1>6. \A j : Coming(y, j) = Coming(x, j)
    BY <1>2 DEF Coming
<1>7. \A id : Known(y, id) <=> Known(x, id)
    BY <1>2 DEF Known
<1>8. \A e, f : Before(y, e, f) <=> Before(x, e, f)
    BY <1>7 DEF Before
<1>9. \A e : UnderWay(y, e) => UnderWay(x, e) /\ Before(x, h, e)
  <2> SUFFICES ASSUME NEW e, UnderWay(y, e) PROVE UnderWay(x, e) /\ Before(x, h, e)
      OBVIOUS
  <2>1. CASE \E i \in Waiting(y) : e = y.queue[i]
      BY <1>2, <1>5, <2>1 DEF UnderWay, Holds, Ordered
  <2>2. CASE \E j \in 1 .. Len(y.wire) : e \in Coming(y, j)
      BY <1>2, <1>5, <1>6, <2>2 DEF UnderWay, Holds, Ordered
  <2> QED
      BY <2>1, <2>2 DEF UnderWay
<1>10. UnderWay(x, h) /\ \A e : UnderWay(x, e) => UnderWay(y, e) \/ e = h
    BY <1>2, <1>5, <1>6 DEF UnderWay
<1>11. h.id \in Ids /\ h.type \in {"created", "patched", "removed"} /\ h.rev \in 0 .. MaxRevs
    BY <1>1 DEF Event, EventTypes
<1>12. /\ h.type # "removed" => h.rev # 0
       /\ h.type = "created" => c \in {Absent, Local, h.rev}
       /\ c \in (0 .. MaxRevs) \cup {Local} /\ v \in (0 .. MaxRevs) \cup {Local}
       /\ x.stored[h.id] # 0 => h.type # "removed" /\ h.rev <= x.stored[h.id]
  <2> HIDE DEF h, i0
  <2>1. h.type # "removed" => h.rev # 0
      BY <1>1, <1>10 DEF Holds, Stamped
  <2>2. h.type = "created" => c \in {Absent, Local, h.rev}
      BY <1>1, <1>10 DEF Holds, CreatedFirst
  <2>3. x.stored[h.id] # 0 => h.type # "removed" /\ h.rev <= x.stored[h.id]
      BY <1>1, <1>10, <1>11 DEF Holds, StoredArrives
  <2>4. c \in (0 .. MaxRevs) \cup {Local} /\ v \in (0 .. MaxRevs) \cup {Local}
      BY <1>1, <1>3, <1>11 DEF Rows
  <2> QED
      BY <2>1, <2>2, <2>3, <2>4
<1> HIDE DEF h, c, v, i0
<1>13. Ordered(y)
    BY <1>2, <1>5, <1>6, <1>8 DEF Holds, Ordered
<1>14. Single(y) /\ AnswersFit(y) /\ WritesFit(y)
  <2>1. \A j, m : AnswerOf(y, j, m) <=> AnswerOf(x, j, m)
      BY <1>2 DEF AnswerOf
  <2>2. Single(y) /\ WritesFit(y)
      BY <1>2 DEF Holds, Single, WritesFit
  <2>3. AnswersFit(y)
      BY <1>2, <2>1 DEF Holds, AnswersFit
  <2> QED
      BY <2>2, <2>3
<1>15. Stamped(y)
    BY <1>9 DEF Holds, Stamped
<1>16. CreatedFirst(y)
  <2> SUFFICES ASSUME NEW e \in Event, UnderWay(y, e), e.type = "created"
               PROVE  y.cache[e.id] \in {Absent, Local, e.rev}
      BY DEF CreatedFirst
  <2>1. UnderWay(x, e) /\ Before(x, h, e) /\ e.id \in Ids /\ x.cache[e.id] \in {Absent, Local, e.rev}
      BY <1>9 DEF Holds, CreatedFirst, Event
  <2>2. CASE e.id = h.id
      BY <1>3, <2>1, <2>2 DEF Before, v
  <2>3. CASE e.id # h.id
      BY <1>3, <2>1, <2>3
  <2> QED
      BY <2>2, <2>3
<1>17. StoredArrives(y)
  <2> SUFFICES ASSUME NEW id \in Ids, y.stored[id] # 0
               PROVE  /\ \A e \in Event : UnderWay(y, e) /\ e.id = id =>
                            e.type # "removed" /\ e.rev <= y.stored[id]
                      /\ y.cache[id] \in {Absent, Local} \/ y.cache[id] <= y.stored[id]
                      /\ \/ y.cache[id] = y.stored[id]
                         \/ \E e \in Event : UnderWay(y, e) /\ e.id = id /\ e.rev = y.stored[id]
      BY DEF StoredArrives
  <2>1. /\ \A e \in Event : UnderWay(x, e) /\ e.id = id =>
              e.type # "removed" /\ e.rev <= x.stored[id]
        /\ x.cache[id] \in {Absent, Local} \/ x.cache[id] <= x.stored[id]
        /\ \/ x.cache[id] = x.stored[id]
           \/ \E e \in Event : UnderWay(x, e) /\ e.id = id /\ e.rev = x.stored[id]
      BY <1>2 DEF Holds, StoredArrives
  <2>2. \A e \in Event : UnderWay(y, e) /\ e.id = id => e.type # "removed" /\ e.rev <= y.stored[id]
      BY <1>2, <1>9, <2>1
  <2>3. CASE id # h.id
      BY <1>2, <1>3, <1>10, <2>1, <2>2, <2>3
  <2>4. CASE id = h.id
    <3> DEFINE r == x.stored[id]
    <3>1. r \in 1 .. MaxRevs /\ h.type # "removed" /\ h.rev <= r /\ h.rev \in 1 .. MaxRevs
        BY <1>1, <1>2, <1>11, <1>12, <2>4, RevsBelowLocal
    <3>2. c \in {Absent, Local} \/ c <= r
        BY <2>1, <2>4 DEF c
    <3>3. v = c \/ v = h.rev
        BY <1>3, <1>11, <3>1
    <3>4. v \in {Absent, Local} \/ v <= r
        BY <3>1, <3>2, <3>3
    <3>5. c = r => v = r
        BY <1>3, <1>11, <1>12, <3>1, RevsBelowLocal DEF Absent
    <3>6. h.rev = r => v = r
        BY <1>3, <1>11, <1>12, <3>1, <3>2, RevsBelowLocal DEF Absent
    <3>7. v = r \/ \E e \in Event : UnderWay(y, e) /\ e.id = id /\ e.rev = r
        BY <1>10, <2>1, <2>4, <3>5, <3>6 DEF c
    <3> QED
        BY <1>2, <2>2, <2>4, <3>4, <3>7 DEF v
  <2> QED
      BY <2>3, <2>4
<1>18. RemovedArrives(y)
  <2> SUFFICES ASSUME NEW id \in Ids, y.stored[id] = 0
               PROVE  \/ \E e \in Event : UnderWay(y, e) /\ e.id = id /\ e.type = "removed"
                      \/ /\ \A e \in Event : UnderWay(y, e) => e.id # id
                         /\ y.cache[id] \in {Absent, Local}
      BY DEF RemovedArrives
  <2>1. \/ \E e \in Event : UnderWay(x, e) /\ e.id = id /\ e.type = "removed"
        \/ /\ \A e \in Event : UnderWay(x, e) => e.id # id
           /\ x.cache[id] \in {Absent, Local}
      BY <1>2 DEF Holds, RemovedArrives
  <2>2. CASE id # h.id
      BY <1>3, <1>9, <1>10, <2>1, <2>2
  <2>3. CASE id = h.id
    <3>1. PICK e \in Event : UnderWay(x, e) /\ e.id = id /\ e.type = "removed"
        BY <1>1, <1>10, <2>1, <2>3
    <3>2. CASE UnderWay(y, e)
        BY <3>1, <3>2
    <3>3. CASE e = h
      <4>1. v = Absent /\ h.type = "removed"
          BY <1>3, <3>1, <3>3
      <4>2. \A f \in Event : UnderWay(y, f) /\ f.id = id => f.type = "removed"
          BY <1>9, <2>3, <4>1 DEF Before
      <4> QED
          BY <2>3, <4>1, <4>2 DEF v
    <3> QED
        BY <1>10, <3>1, <3>2, <3>3
  <2> QED
      BY <2>2, <2>3
<1>19. StrangersRest(y)
  <2> SUFFICES ASSUME NEW id \in Ids, ~ Known(y, id), y.cache[id] = Absent
               PROVE  y.stored[id] = 0 /\ \A e \in Event : UnderWay(y, e) => e.id # id
      BY DEF StrangersRest
  <2>1. ~ Known(x, id)
      BY <1>7
  <2>2. CASE id # h.id
      BY <1>2, <1>3, <1>9, <2>1, <2>2 DEF Holds, StrangersRest
  <2>3. CASE id = h.id
    <3>1. c # Absent /\ v = Absent
        BY <1>1, <1>10, <2>1, <2>3 DEF Holds, StrangersRest, c, v
    <3>2. h.type = "removed"
        BY <1>3, <1>11, <1>12, <3>1 DEF Absent
    <3>3. \A e \in Event : UnderWay(y, e) => e.id # id
        BY <1>9, <2>1, <2>3, <3>2 DEF Before
    <3> QED
        BY <1>2, <1>12, <2>3, <3>2, <3>3
  <2> QED
      BY <2>2, <2>3
<1>20. DoneIsShown(y, t)
  <2> SUFFICES ASSUME NEW m \in 1 .. Len(y.writes), y.writes[m].phase = "done",
                      y.writes[m].method # "call", NEW id \in y.writes[m].ids
               PROVE  \/ Gone(y, id)
                      \/ /\ y.writes[m].method # "remove"
                         /\ y.cache[id] \in y.writes[m].rev .. Local - 1
                      \/ m = t /\ \E i \in Waiting(y) :
                            /\ y.queue[i].type = EventType(y.writes[m].method)
                            /\ y.queue[i].id = id /\ y.queue[i].rev = y.writes[m].rev
      BY DEF DoneIsShown
  <2> DEFINE w == y.writes[m]
  <2>0. m \in 1 .. Len(x.writes) /\ w = x.writes[m]
      BY <1>2
  <2>1. /\ w \in Write /\ id \in Ids /\ w.rev \in Nat /\ w.rev # 0
        /\ w.method \in {"create", "createMany", "patch", "patchAll", "remove"}
      BY <1>1, <2>0, WorldTypes DEF Write, Methods, Holds, WritesFit
  <2>2. \/ Gone(x, id)
        \/ w.method # "remove" /\ x.cache[id] \in w.rev .. Local - 1
        \/ m = t /\ \E i \in Waiting(x) :
              /\ x.queue[i].type = EventType(w.method)
              /\ x.queue[i].id = id /\ x.queue[i].rev = w.rev
      BY <2>0 DEF Holds, DoneIsShown
  <2> HIDE DEF w
  <2>3. CASE id # h.id
    <3>1. Gone(x, id) => Gone(y, id)
        BY <1>2, <1>3, <1>9, <2>1, <2>3 DEF Gone
    <3>2. \A i \in Waiting(x) : x.queue[i].id = id => i \in Waiting(y)
        BY <1>5, <2>3 DEF h
    <3> QED
        BY <1>2, <1>3, <2>1, <2>2, <2>3, <3>1, <3>2 DEF w
  <2>4. CASE id = h.id
    <3>1. h.type = "removed" => Gone(y, id)
      <4> SUFFICES ASSUME h.type = "removed" PROVE Gone(y, id)
          OBVIOUS
      <4>1. v = Absent /\ x.stored[id] = 0
          BY <1>3, <1>12, <2>4
      <4>2. \A e \in Event : UnderWay(y, e) /\ e.id = id => e.type = "removed"
          BY <1>9, <2>4 DEF Before
      <4> QED
          BY <1>2, <2>4, <4>1, <4>2 DEF Gone, v
    <3>2. CASE Gone(x, id)
        BY <1>1, <1>10, <2>4, <3>1, <3>2 DEF Gone
    <3>3. CASE w.method # "remove" /\ x.cache[id] \in w.rev .. Local - 1
      <4>1. c \in w.rev .. Local - 1 /\ c # Absent /\ c # Local
          BY <2>1, <2>4, <3>3, RevsBelowLocal DEF c, Absent
      <4>2. h.type # "removed" => v \in w.rev .. Local - 1
          BY <1>3, <1>11, <1>12, <2>1, <4>1, RevsBelowLocal
      <4> QED
          BY <2>4, <3>1, <3>3, <4>2 DEF v, w
    <3>4. CASE m = t /\ \E i \in Waiting(x) :
                  /\ x.queue[i].type = EventType(w.method)
                  /\ x.queue[i].id = id /\ x.queue[i].rev = w.rev
      <4>1. PICK i \in Waiting(x) : /\ x.queue[i].type = EventType(w.method)
                                    /\ x.queue[i].id = id /\ x.queue[i].rev = w.rev
          BY <3>4
      <4>2. CASE i # i0
          BY <1>2, <1>5, <3>4, <4>1, <4>2 DEF w
      <4>3. CASE i = i0
        <5>1. h.type = EventType(w.method) /\ h.rev = w.rev
            BY <4>1, <4>3 DEF h
        <5>2. w.method = "remove" <=> h.type = "removed"
            BY <2>1, <5>1 DEF EventType
        <5>3. h.type # "removed" => v \in w.rev .. Local - 1
            BY <1>3, <1>11, <1>12, <2>1, <5>1, RevsBelowLocal
        <5> QED
            BY <2>4, <3>1, <5>2, <5>3 DEF v, w
      <4> QED
          BY <4>2, <4>3
    <3> QED
        BY <2>2, <3>2, <3>3, <3>4
  <2> QED
      BY <2>3, <2>4
<1>21. LocalIsSent(y, t)
  <2> SUFFICES ASSUME NEW id \in Ids, y.cache[id] = Local
               PROVE  /\ Known(y, id)
                      /\ \A m \in 1 .. Len(y.writes) : id \in y.writes[m].ids =>
                            \/ y.writes[m].phase = "sent" /\ y.writes[m].method = "createMany"
                            \/ m = t /\ \E i \in Waiting(y) : y.queue[i].id = id
      BY DEF LocalIsSent
  <2>1. id # h.id
    <3>1. v # Local
        BY <1>3, <1>11, <1>12, RevsBelowLocal DEF Absent
    <3> QED
        BY <3>1 DEF v
  <2>2. x.cache[id] = Local
      BY <1>3, <2>1
  <2>3. \A i \in Waiting(x) : x.queue[i].id = id => i \in Waiting(y)
      BY <1>5, <2>1 DEF h
  <2> QED
      BY <1>2, <1>7, <2>2, <2>3 DEF Holds, LocalIsSent
<1>22. UnbornAreNew(y)
  <2> SUFFICES ASSUME NEW m \in 1 .. Len(y.writes), Unborn(y, m), NEW id \in y.writes[m].ids
               PROVE  /\ y.stored[id] = 0 /\ y.cache[id] \in {Absent, Local}
                      /\ \A e \in Event : UnderWay(y, e) => e.id # id
                      /\ \A n \in 1 .. Len(y.writes) : n # m => id \notin y.writes[n].ids
      BY DEF UnbornAreNew
  <2>1. Unborn(x, m) /\ id \in Ids /\ m \in 1 .. Len(x.writes) /\ id \in x.writes[m].ids
    <3>1. \A j, n : AnswerOf(y, j, n) <=> AnswerOf(x, j, n)
        BY <1>2 DEF AnswerOf
    <3> QED
        BY <1>1, <1>2, <3>1, WorldTypes DEF Unborn, Write
  <2>2. /\ x.stored[id] = 0 /\ x.cache[id] \in {Absent, Local}
        /\ \A e \in Event : UnderWay(x, e) => e.id # id
        /\ \A n \in 1 .. Len(x.writes) : n # m => id \notin x.writes[n].ids
      BY <2>1 DEF Holds, UnbornAreNew
  <2>3. id # h.id
      BY <1>1, <1>10, <2>2
  <2> QED
      BY <1>2, <1>3, <1>9, <2>1, <2>2, <2>3
<1> QED
    BY <1>3, <1>4, <1>9, <1>13, <1>14, <1>15, <1>16, <1>17, <1>18, <1>19, <1>20, <1>21, <1>22
       DEF Holds, h, i0

-----------------------------------------------------------------------------
(* The queue is applied.                                                   *)

\* Events, and those that show a record that is only optimistic.
Showing == [type : EventTypes, id : Ids, rev : (0 .. MaxRevs) \cup {Local}]

\* Events are applied to rows.
LEMMA AppliedRows ==
    ASSUME NEW rows \in Rows, NEW h \in Showing
    PROVE  Applied(rows, h) \in Rows
<1>1. h.id \in Ids /\ h.rev \in (0 .. MaxRevs) \cup {Local} /\ Absent \in 0 .. MaxRevs
    BY RevsBelowLocal DEF Showing, Absent
<1>2. rows \in [Ids -> (0 .. MaxRevs) \cup {Local}]
    BY DEF Rows
<1>3. \A v \in (0 .. MaxRevs) \cup {Local} : [rows EXCEPT ![h.id] = v] \in Rows
    BY <1>1, <1>2 DEF Rows
<1>4. \/ Applied(rows, h) = [rows EXCEPT ![h.id] = Absent] \/ Applied(rows, h) = rows
      \/ Applied(rows, h) = [rows EXCEPT ![h.id] = h.rev]
    BY DEF Applied
<1> QED
    BY <1>1, <1>3, <1>4

\* A queue of events is one of those.
LEMMA EventsShow == ASSUME NEW events \in Seq(Event) PROVE events \in Seq(Showing)
<1>1. Len(events) \in Nat /\ events \in [1 .. Len(events) -> Event]
    BY LenProperties, ElementOfSeq
<1>2. Event \subseteq Showing
    BY DEF Event, Showing
<1>3. events \in [1 .. Len(events) -> Showing]
    BY <1>1, <1>2
<1> QED
    BY <1>1, <1>3, SeqDef

\* What is applied is applied one by one.
LEMMA AllAppliedFolds ==
    ASSUME NEW rows \in Rows, NEW events \in Seq(Showing)
    PROVE  \E f \in [0 .. Len(events) -> Rows] :
              /\ f[0] = rows /\ \A i \in 1 .. Len(events) : f[i] = Applied(f[i - 1], events[i])
              /\ AllApplied(rows, events) = f[Len(events)]
<1> DEFINE N == Len(events)
           step == [p \in Rows \X (1 .. N) |-> Applied(p[1], events[p[2]])]
           IsFold(g) == g = [i \in 0 .. N |-> IF i = 0 THEN rows ELSE Applied(g[i - 1], events[i])]
<1>1. N \in Nat /\ \A i \in 1 .. N : events[i] \in Showing
    BY ElementOfSeq, LenProperties
<1>2. step \in [Rows \X (1 .. N) -> Rows]
    BY <1>1, AppliedRows
<1>3. \A x \in Rows, i \in 1 .. N : step[<< x, i >>] = Applied(x, events[i])
    OBVIOUS
<1> HIDE DEF step
<1>4. PICK h \in [0 .. N -> Rows] : h[0] = rows /\ \A i \in 1 .. N : h[i] = step[<< h[i - 1], i >>]
  <2>1. HasSolution(Rows, rows, N, step)
      BY ONLY rows \in Rows, <1>1, <1>2, Recursion
  <2> QED
      BY ONLY <2>1 DEF HasSolution
<1>5. \A i \in 1 .. N : h[i] = Applied(h[i - 1], events[i])
  <2> SUFFICES ASSUME NEW i \in 1 .. N PROVE h[i] = Applied(h[i - 1], events[i])
      OBVIOUS
  <2>1. i - 1 \in 0 .. N
      BY ONLY <1>1, i \in 1 .. N
  <2>2. h[i - 1] \in Rows
      BY ONLY <2>1, h \in [0 .. N -> Rows]
  <2>3. h[i] = step[<< h[i - 1], i >>]
      BY ONLY <1>4, i \in 1 .. N
  <2>4. step[<< h[i - 1], i >>] = Applied(h[i - 1], events[i])
      BY ONLY <1>3, <2>2, i \in 1 .. N
  <2> QED
      BY ONLY <2>3, <2>4
<1>6. IsFold(h)
  <2>1. ASSUME NEW i \in 0 .. N
        PROVE  h[i] = IF i = 0 THEN rows ELSE Applied(h[i - 1], events[i])
    <3>1. i # 0 => i \in 1 .. N
        BY <1>1
    <3> QED
        BY <1>4, <1>5, <3>1
  <2> QED
      BY <2>1
<1> DEFINE f == CHOOSE g : IsFold(g)
<1>7. IsFold(f)
    BY <1>6
<1>8. AllApplied(rows, events) = f[N]
    BY DEF AllApplied
<1> HIDE DEF f
<1>9. f[0] = rows /\ \A i \in 1 .. N : f[i] = Applied(f[i - 1], events[i])
  <2>1. f[0] = rows
      BY <1>1, <1>7
  <2>2. ASSUME NEW i \in 1 .. N PROVE f[i] = Applied(f[i - 1], events[i])
    <3>1. i \in 0 .. N /\ i # 0
        BY <1>1
    <3> QED
        BY <1>7, <3>1
  <2> QED
      BY <2>1, <2>2
<1>10. \A i \in 0 .. N : f[i] \in Rows
  <2> DEFINE S == { i \in 0 .. N : f[i] \in Rows }
  <2>1. 0 \in S
      BY <1>1, <1>9
  <2>2. ASSUME NEW i \in 1 .. N, i - 1 \in S PROVE i \in S
    <3>1. f[i - 1] \in Rows /\ events[i] \in Showing /\ i \in 0 .. N
        BY <1>1, <2>2
    <3>2. Applied(f[i - 1], events[i]) \in Rows
        BY <3>1, AppliedRows
    <3> QED
        BY <1>9, <3>1, <3>2
  <2> HIDE DEF S
  <2>3. \A i \in 0 .. N : i \in S
      BY ONLY <1>1, <2>1, <2>2, BoundedInduction
  <2> QED
      BY <2>3 DEF S
<1>11. f = [i \in 0 .. N |-> f[i]]
    BY <1>7
<1>12. f \in [0 .. N -> Rows]
    BY <1>10, <1>11
<1> QED
    BY <1>8, <1>9, <1>12

\* To apply events and then others is to apply them all.
LEMMA AllAppliedJoins ==
    ASSUME NEW rows \in Rows, NEW s \in Seq(Showing), NEW t \in Seq(Showing)
    PROVE  /\ AllApplied(rows, s) \in Rows
           /\ AllApplied(rows, s \o t) = AllApplied(AllApplied(rows, s), t)
<1> DEFINE N == Len(s)
           M == Len(t)
<1>1. N \in Nat /\ M \in Nat
    BY LenProperties
<1>2. /\ s \o t \in Seq(Showing) /\ Len(s \o t) = N + M
      /\ \A i \in 1 .. N + M : (s \o t)[i] = IF i <= N THEN s[i] ELSE t[i - N]
    BY ConcatProperties
<1>3. PICK f \in [0 .. N + M -> Rows] :
            /\ f[0] = rows /\ \A i \in 1 .. N + M : f[i] = Applied(f[i - 1], (s \o t)[i])
            /\ AllApplied(rows, s \o t) = f[N + M]
  <2> DEFINE u == s \o t
  <2>1. u \in Seq(Showing) /\ Len(u) = N + M
      BY <1>2
  <2> HIDE DEF u
  <2>2. \E f \in [0 .. Len(u) -> Rows] :
            /\ f[0] = rows /\ \A i \in 1 .. Len(u) : f[i] = Applied(f[i - 1], u[i])
            /\ AllApplied(rows, u) = f[Len(u)]
      BY <2>1, AllAppliedFolds
  <2>3. \E f \in [0 .. N + M -> Rows] :
            /\ f[0] = rows /\ \A i \in 1 .. N + M : f[i] = Applied(f[i - 1], u[i])
            /\ AllApplied(rows, u) = f[N + M]
      BY ONLY <2>1, <2>2, Zenon
  <2> QED
      BY <2>3 DEF u
<1>4. PICK g \in [0 .. N -> Rows] :
            /\ g[0] = rows /\ \A i \in 1 .. N : g[i] = Applied(g[i - 1], s[i])
            /\ AllApplied(rows, s) = g[N]
    BY AllAppliedFolds
<1>5. AllApplied(rows, s) \in Rows
    BY <1>1, <1>4
<1>6. PICK h \in [0 .. M -> Rows] :
            /\ h[0] = AllApplied(rows, s) /\ \A i \in 1 .. M : h[i] = Applied(h[i - 1], t[i])
            /\ AllApplied(AllApplied(rows, s), t) = h[M]
    BY <1>5, AllAppliedFolds
<1>7. f[N] = g[N]
  <2> DEFINE S == { i \in 0 .. N : f[i] = g[i] }
  <2>1. 0 \in S
      BY <1>1, <1>3, <1>4
  <2>2. ASSUME NEW i \in 1 .. N, i - 1 \in S PROVE i \in S
    <3>1. i \in 1 .. N + M /\ i <= N /\ i \in 0 .. N /\ f[i - 1] = g[i - 1]
        BY <1>1, <2>2
    <3>2. (s \o t)[i] = s[i]
        BY <1>2, <3>1
    <3> QED
        BY <1>3, <1>4, <3>1, <3>2
  <2> HIDE DEF S
  <2>3. \A i \in 0 .. N : i \in S
      BY ONLY <1>1, <2>1, <2>2, BoundedInduction
  <2>4. N \in 0 .. N
      BY <1>1
  <2> QED
      BY <2>3, <2>4 DEF S
<1>8. f[N + M] = h[M]
  <2> DEFINE S == { i \in 0 .. M : f[N + i] = h[i] }
  <2>1. 0 \in S
      BY <1>1, <1>4, <1>6, <1>7
  <2>2. ASSUME NEW i \in 1 .. M, i - 1 \in S PROVE i \in S
    <3>1. /\ N + i \in 1 .. N + M /\ ~ (N + i <= N) /\ (N + i) - N = i /\ i \in 0 .. M
          /\ N + (i - 1) = (N + i) - 1
        BY <1>1, <2>2
    <3>2. (s \o t)[N + i] = t[i]
        BY <1>2, <3>1
    <3>3. f[N + (i - 1)] = h[i - 1]
        BY <2>2
    <3> QED
        BY <1>3, <1>6, <3>1, <3>2, <3>3
  <2> HIDE DEF S
  <2>3. \A i \in 0 .. M : i \in S
      BY ONLY <1>1, <2>1, <2>2, BoundedInduction
  <2>4. M \in 0 .. M
      BY <1>1
  <2> QED
      BY <2>3, <2>4 DEF S
<1> QED
    BY <1>3, <1>5, <1>6, <1>8

\* Events that show optimistic records.
LEMMA AllShown ==
    ASSUME NEW rows \in Rows, NEW t \in Seq(Showing),
           \A k \in 1 .. Len(t) : t[k].type = "created" /\ t[k].rev = Local
    PROVE  /\ AllApplied(rows, t) \in Rows
           /\ \A id \in Ids : AllApplied(rows, t)[id] =
                 IF \E k \in 1 .. Len(t) : t[k].id = id THEN Local ELSE rows[id]
<1> DEFINE M == Len(t)
<1>1. M \in Nat /\ \A k \in 1 .. M : t[k] \in Showing /\ t[k].type = "created" /\ t[k].rev = Local
    BY LenProperties, ElementOfSeq
<1>2. PICK h \in [0 .. M -> Rows] :
            /\ h[0] = rows /\ \A i \in 1 .. M : h[i] = Applied(h[i - 1], t[i])
            /\ AllApplied(rows, t) = h[M]
    BY AllAppliedFolds
<1> DEFINE Good(i) == \A id \in Ids :
              h[i][id] = IF \E k \in 1 .. i : t[k].id = id THEN Local ELSE rows[id]
           S == { i \in 0 .. M : Good(i) }
<1>3. 0 \in S
    BY <1>1, <1>2
<1>4. ASSUME NEW i \in 1 .. M, i - 1 \in S PROVE i \in S
  <2>1. i \in 0 .. M /\ i - 1 \in 0 .. M /\ Good(i - 1) /\ h[i - 1] \in Rows /\ t[i].id \in Ids
      BY <1>1, <1>4 DEF Showing
  <2>2. h[i] = [h[i - 1] EXCEPT ![t[i].id] = Local]
      BY <1>1, <1>2 DEF Applied
  <2> SUFFICES ASSUME NEW id \in Ids
               PROVE  h[i][id] = IF \E k \in 1 .. i : t[k].id = id THEN Local ELSE rows[id]
      BY <2>1
  <2>3. (\E k \in 1 .. i : t[k].id = id) <=> (\E k \in 1 .. i - 1 : t[k].id = id) \/ t[i].id = id
    <3>1. \A k \in 1 .. i : k \in 1 .. i - 1 \/ k = i
        BY <1>1
    <3>2. \A k \in 1 .. i - 1 : k \in 1 .. i
        BY <1>1
    <3>3. i \in 1 .. i
        BY <1>1
    <3> QED
        BY <3>1, <3>2, <3>3
  <2>4. h[i][id] = IF t[i].id = id THEN Local ELSE h[i - 1][id]
      BY <2>1, <2>2 DEF Rows
  <2> QED
      BY <2>1, <2>3, <2>4
<1>5. Good(M)
  <2> HIDE DEF S
  <2>1. \A i \in 0 .. M : i \in S
      BY ONLY <1>1, <1>3, <1>4, BoundedInduction
  <2>2. M \in S
      BY <1>1, <2>1
  <2> QED
      BY ONLY <2>2 DEF S
<1> QED
    BY <1>1, <1>2, <1>5

\* What a world is does not depend on what has been applied of its queue.
LEMMA EmptiedHolds ==
    ASSUME NEW x, NEW t, Holds(x, t), Waiting(x) = {}, NEW y,
           y = [x EXCEPT !.queue = << >>, !.applied = 0]
    PROVE  Holds(y, 0) /\ \A e : UnderWay(y, e) <=> UnderWay(x, e)
<1>1. x \in Worlds
    BY DEF Holds
<1>2. /\ y \in Worlds /\ y.queue = << >> /\ y.applied = 0 /\ y.cache = x.cache /\ y.writes = x.writes
      /\ y.wire = x.wire /\ y.stored = x.stored /\ y.asked = x.asked
  <2>1. << >> \in Seq(Event) /\ 0 \in Nat
      BY EmptySeq
  <2> QED
      BY ONLY <1>1, <2>1, y = [x EXCEPT !.queue = << >>, !.applied = 0] DEF Worlds
<1>3. Waiting(y) = {}
    BY <1>2, EmptySeq DEF Waiting
<1>4. /\ \A j : Coming(y, j) = Coming(x, j)
      /\ \A id : Known(y, id) <=> Known(x, id)
      /\ \A j, m : AnswerOf(y, j, m) <=> AnswerOf(x, j, m)
    BY <1>2 DEF Coming, Known, AnswerOf
<1>5. /\ \A e, f : Before(y, e, f) <=> Before(x, e, f)
      /\ \A m : Unborn(y, m) <=> Unborn(x, m)
    BY <1>2, <1>4 DEF Before, Unborn
<1>6. \A e : UnderWay(y, e) <=> UnderWay(x, e)
    BY <1>2, <1>3, <1>4 DEF UnderWay
<1>7. \A id : Gone(y, id) <=> Gone(x, id)
    BY <1>2, <1>6 DEF Gone
<1>8. Ordered(y) /\ Single(y)
    BY <1>2, <1>3, <1>4, <1>5 DEF Holds, Ordered, Single
<1>9. Stamped(y) /\ CreatedFirst(y)
    BY <1>2, <1>6 DEF Holds, Stamped, CreatedFirst
<1>10. StoredArrives(y)
    BY <1>2, <1>6 DEF Holds, StoredArrives
<1>11. RemovedArrives(y) /\ StrangersRest(y)
    BY <1>2, <1>4, <1>6 DEF Holds, RemovedArrives, StrangersRest
<1>12. DoneIsShown(y, 0)
    BY <1>2, <1>3, <1>7 DEF Holds, DoneIsShown
<1>13. LocalIsSent(y, 0)
    BY <1>2, <1>3, <1>4 DEF Holds, LocalIsSent
<1>14. UnbornAreNew(y)
    BY <1>2, <1>5, <1>6 DEF Holds, UnbornAreNew
<1>15. AnswersFit(y) /\ WritesFit(y)
  <2>1. WritesFit(y)
      BY <1>2 DEF Holds, WritesFit
  <2>2. AnswersFit(y)
      BY <1>2, <1>4 DEF Holds, AnswersFit
  <2> QED
      BY <2>1, <2>2
<1> QED
    BY <1>2, <1>6, <1>8, <1>9, <1>10, <1>11, <1>12, <1>13, <1>14, <1>15 DEF Holds

\* The whole queue is applied: what it does not name stays, and the writes whose
\* A world whose queue has been applied.
Flushes(x, y) == y = [x EXCEPT !.cache = AllApplied(@, x.queue), !.queue = << >>]

\* events it had are shown.
LEMMA FlushHolds ==
    ASSUME NEW x, NEW t, Holds(x, t), x.applied = 0, NEW y, Flushes(x, y)
    PROVE  /\ Holds(y, 0)
           /\ \A id \in Ids : (\A i \in 1 .. Len(x.queue) : x.queue[i].id # id) =>
                 y.cache[id] = x.cache[id]
           /\ \A e \in Event : UnderWay(y, e) => UnderWay(x, e)
<1> DEFINE N == Len(x.queue)
<1>1. /\ x \in Worlds /\ x.cache \in Rows /\ x.queue \in Seq(Event) /\ N \in Nat
      /\ \A i \in 1 .. N : x.queue[i] \in Event
    BY WorldTypes DEF Holds, Worlds
<1>2. PICK f \in [0 .. N -> Rows] :
            /\ f[0] = x.cache /\ \A i \in 1 .. N : f[i] = Applied(f[i - 1], x.queue[i])
            /\ AllApplied(x.cache, x.queue) = f[N]
    BY <1>1, EventsShow, AllAppliedFolds
<1> DEFINE w(i) == [x EXCEPT !.cache = f[i], !.applied = i]
           Quiet(i, id) == \A j \in 1 .. N : x.queue[j].id # id
           Good(i) == /\ Holds(w(i), t)
                      /\ \A id \in Ids : Quiet(i, id) => w(i).cache[id] = x.cache[id]
                      /\ \A e \in Event : UnderWay(w(i), e) => UnderWay(x, e)
           S == { i \in 0 .. N : Good(i) }
<1>3. 0 \in S
  <2>1. w(0) = x
      BY <1>1, <1>2 DEF Worlds
  <2>2. 0 \in 0 .. N
      BY <1>1
  <2> HIDE DEF w
  <2> QED
      BY <2>1, <2>2
<1>4. ASSUME NEW i \in 1 .. N, i - 1 \in S PROVE i \in S
  <2>1. Good(i - 1) /\ i - 1 \in 0 .. N /\ (i - 1) + 1 = i /\ i \in 0 .. N
      BY <1>1, <1>4
  <2>2. f[i - 1] \in Rows /\ f[i] \in Rows /\ f[i] = Applied(f[i - 1], x.queue[i])
      BY <1>2, <2>1
  <2>3. /\ w(i - 1).applied = i - 1 /\ w(i - 1).queue = x.queue /\ w(i - 1).cache = f[i - 1]
        /\ w(i).cache = f[i]
      BY <1>1 DEF Worlds
  <2>4. w(i) = [w(i - 1) EXCEPT !.cache = Applied(@, w(i - 1).queue[w(i - 1).applied + 1]),
                                !.applied = @ + 1]
      BY <1>1, <2>1, <2>2, <2>3 DEF Worlds
  <2>5. w(i - 1).applied < Len(w(i - 1).queue)
      BY <1>1, <2>1, <2>3
  <2> HIDE DEF w
  <2>6. /\ Holds(w(i), t)
        /\ \A id \in Ids : id # w(i - 1).queue[w(i - 1).applied + 1].id => w(i).cache[id] = w(i - 1).cache[id]
        /\ \A e \in Event : UnderWay(w(i), e) => UnderWay(w(i - 1), e)
      BY <2>1, <2>4, <2>5, HeadApplies
  <2> QED
      BY <2>1, <2>3, <2>6
<1>5. Good(N)
  <2> HIDE DEF S
  <2>1. \A i \in 0 .. N : i \in S
      BY ONLY <1>1, <1>3, <1>4, BoundedInduction
  <2>2. N \in S
      BY <1>1, <2>1
  <2> QED
      BY ONLY <2>2 DEF S
<1>6. /\ w(N).cache = f[N] /\ Waiting(w(N)) = {}
      /\ y = [w(N) EXCEPT !.queue = << >>, !.applied = 0]
  <2>1. w(N).cache = f[N] /\ w(N).applied = N /\ w(N).queue = x.queue
      BY <1>1 DEF Worlds
  <2>2. y = [w(N) EXCEPT !.queue = << >>, !.applied = 0]
      BY <1>1, <1>2 DEF Worlds, Flushes
  <2> HIDE DEF w
  <2>3. Waiting(w(N)) = {}
      BY <1>1, <2>1 DEF Waiting
  <2> QED
      BY <2>1, <2>2, <2>3
<1>7. y.cache = f[N]
    BY <1>1, <1>2 DEF Worlds, Flushes
<1> HIDE DEF w
<1>8. Holds(y, 0) /\ \A e : UnderWay(y, e) <=> UnderWay(w(N), e)
    BY <1>5, <1>6, EmptiedHolds
<1> QED
    BY <1>5, <1>6, <1>7, <1>8

-----------------------------------------------------------------------------
(* A message is taken from the wire.                                       *)

\* Where the messages that stay were before the i-th was taken.
At(i, k) == IF k < i THEN k ELSE k + 1

\* Taking the i-th message out keeps the order of the others, and loses none of them.
LEMMA AtDoes ==
    ASSUME NEW n \in Nat, NEW i \in 1 .. n
    PROVE  /\ \A k \in 1 .. n - 1 : At(i, k) \in 1 .. n /\ At(i, k) # i
           /\ \A k, l \in 1 .. n - 1 : k < l => At(i, k) < At(i, l)
           /\ \A k, l \in 1 .. n - 1 : k # l => At(i, k) # At(i, l)
           /\ \A j \in 1 .. n : j # i => \E k \in 1 .. n - 1 : At(i, k) = j
<1>1. ASSUME NEW j \in 1 .. n, j # i PROVE \E k \in 1 .. n - 1 : At(i, k) = j
  <2>1. CASE j < i
    <3>1. j \in 1 .. n - 1 /\ At(i, j) = j
        BY <2>1 DEF At
    <3> QED
        BY <3>1
  <2>2. CASE ~ (j < i)
    <3>1. j - 1 \in 1 .. n - 1 /\ At(i, j - 1) = j
        BY <1>1, <2>2 DEF At
    <3> QED
        BY <3>1
  <2> QED
      BY <2>1, <2>2
<1> QED
    BY <1>1 DEF At

\* A world in which the i-th message is gone and its events, or others, wait in the
\* queue.  What has become of the writes does not change what messages bring.
Takes(x, y, i, list, ws) ==
    y = [x EXCEPT !.queue = @ \o list, !.wire = RemoveAt(@, i), !.writes = ws]

SameWrites(x, ws) ==
    /\ Len(ws) = Len(x.writes)
    /\ \A m \in 1 .. Len(x.writes) :
          ws[m].method = x.writes[m].method /\ x.writes[m].ids \subseteq ws[m].ids

Taken(x, y, i, list, ws) ==
    /\ y \in Worlds /\ y.cache = x.cache /\ y.applied = x.applied /\ y.stored = x.stored
    /\ y.asked = x.asked /\ y.writes = ws
    /\ Len(y.queue) = Len(x.queue) + Len(list)
    /\ \A k \in 1 .. Len(x.queue) : y.queue[k] = x.queue[k]
    /\ \A k \in 1 .. Len(list) : y.queue[Len(x.queue) + k] = list[k]
    /\ \A k \in 1 .. Len(x.queue) + Len(list) :
          y.queue[k] = IF k <= Len(x.queue) THEN x.queue[k] ELSE list[k - Len(x.queue)]
    /\ Len(y.wire) = Len(x.wire) - 1
    /\ \A k \in 1 .. Len(x.wire) - 1 :
          /\ y.wire[k] = x.wire[At(i, k)] /\ Coming(y, k) = Coming(x, At(i, k))
          /\ \A m : AnswerOf(y, k, m) <=> AnswerOf(x, At(i, k), m)
    /\ \A id : Known(x, id) => Known(y, id)
    /\ \A e, f : Before(x, e, f) => Before(y, e, f)

\* A message taken off the wire: its events queue behind the others, every other event keeps its
\* place.
LEMMA TakeDoes ==
    ASSUME NEW x, x \in Worlds, AnswersFit(x), NEW y, NEW i \in 1 .. Len(x.wire),
           NEW list \in Seq(Event), NEW ws \in Seq(Write), SameWrites(x, ws),
           Takes(x, y, i, list, ws)
    PROVE  Taken(x, y, i, list, ws)
<1> DEFINE n == Len(x.wire)
           N == Len(x.queue)
<1>1. /\ x.queue \in Seq(Event) /\ x.wire \in Seq(Answer \cup News) /\ n \in Nat /\ N \in Nat
      /\ Len(x.writes) \in Nat /\ Len(list) \in Nat
      /\ \A j \in 1 .. n : x.wire[j] \in Answer \cup News
    BY WorldTypes, LenProperties
<1>2. /\ x.queue \o list \in Seq(Event) /\ Len(x.queue \o list) = N + Len(list)
      /\ \A k \in 1 .. N + Len(list) :
            (x.queue \o list)[k] = IF k <= N THEN x.queue[k] ELSE list[k - N]
    BY <1>1, ConcatProperties
<1>3. /\ RemoveAt(x.wire, i) \in Seq(Answer \cup News) /\ Len(RemoveAt(x.wire, i)) = n - 1
      /\ \A k \in 1 .. n - 1 : RemoveAt(x.wire, i)[k] = IF k < i THEN x.wire[k] ELSE x.wire[k + 1]
  <2> DEFINE w == x.wire
             T == Answer \cup News
  <2>1. w \in Seq(T) /\ i \in 1 .. Len(w)
      BY <1>1
  <2> HIDE DEF w, T
  <2>2. /\ RemoveAt(w, i) \in Seq(T) /\ Len(RemoveAt(w, i)) = Len(w) - 1
        /\ \A k \in 1 .. Len(w) - 1 : RemoveAt(w, i)[k] = IF k < i THEN w[k] ELSE w[k + 1]
      BY ONLY <2>1, RemoveAtDoes
  <2> QED
      BY ONLY <2>2 DEF w, T
<1>4. /\ y \in Worlds /\ y.queue = x.queue \o list /\ y.wire = RemoveAt(x.wire, i) /\ y.writes = ws
      /\ y.cache = x.cache /\ y.applied = x.applied /\ y.stored = x.stored /\ y.asked = x.asked
    BY <1>2, <1>3 DEF Worlds, Takes
<1>5. /\ \A k \in 1 .. N : y.queue[k] = x.queue[k]
      /\ \A k \in 1 .. Len(list) : y.queue[N + k] = list[k]
  <2>1. ASSUME NEW k \in 1 .. N PROVE y.queue[k] = x.queue[k]
    <3>1. k \in 1 .. N + Len(list) /\ k <= N
        BY <1>1
    <3> QED
        BY <1>2, <1>4, <3>1
  <2>2. ASSUME NEW k \in 1 .. Len(list) PROVE y.queue[N + k] = list[k]
    <3>1. N + k \in 1 .. N + Len(list) /\ ~ (N + k <= N) /\ (N + k) - N = k
        BY <1>1
    <3> QED
        BY <1>2, <1>4, <3>1
  <2> QED
      BY <2>1, <2>2
<1>6. \A k \in 1 .. n - 1 : y.wire[k] = x.wire[At(i, k)] /\ At(i, k) \in 1 .. n
    BY <1>1, <1>3, <1>4, AtDoes DEF At
<1>7. ASSUME NEW k \in 1 .. n - 1 PROVE Coming(y, k) = Coming(x, At(i, k))
  <2> DEFINE msg == y.wire[k]
  <2>1. msg = x.wire[At(i, k)] /\ At(i, k) \in 1 .. n /\ msg \in Answer \cup News
      BY <1>1, <1>6
  <2>2. CASE msg.kind = "events"
      BY <2>1, <2>2 DEF Coming, Carried
  <2>3. CASE msg.kind # "events"
    <3>1. msg \in Answer /\ msg.kind = "answer" /\ msg.call \in Nat
        BY <2>1, <2>3 DEF Answer, News
    <3>2. AnswerOf(x, At(i, k), msg.call)
        BY <2>1, <3>1 DEF AnswerOf
    <3>3. msg.call \in 1 .. Len(x.writes)
        BY <2>1, <3>1, <3>2 DEF AnswersFit
    <3>4. ws[msg.call].method = x.writes[msg.call].method
        BY <3>3 DEF SameWrites
    <3> QED
        BY <1>4, <2>1, <2>3, <3>4 DEF Coming, Carried
  <2> QED
      BY <2>2, <2>3
<1>8. \A k \in 1 .. n - 1 : \A m : AnswerOf(y, k, m) <=> AnswerOf(x, At(i, k), m)
    BY <1>6 DEF AnswerOf
<1>9. \A id : Known(x, id) => Known(y, id)
    BY <1>4 DEF Known, SameWrites
<1>10. \A e, f : Before(x, e, f) => Before(y, e, f)
    BY <1>9 DEF Before
<1> QED
    BY <1>2, <1>3, <1>4, <1>5, <1>6, <1>7, <1>8, <1>9, <1>10 DEF Taken

\* What comes to the queue may come after what waits there and before the messages left.
MayTake(x, i, list) ==
    /\ \A k, l \in 1 .. Len(list) : k < l => list[k].id # list[l].id
    /\ \A q \in 1 .. Len(x.queue), k \in 1 .. Len(list) : Before(x, x.queue[q], list[k])
    /\ \A j \in 1 .. Len(x.wire), k \in 1 .. Len(list) :
          j # i => \A f \in Coming(x, j) : Before(x, list[k], f)

\* What is under way once the message is taken.
LeftUnderWay(x, y, i, list) ==
    \A e : UnderWay(y, e) <=>
        \/ \E k \in 1 .. Len(x.queue) : e = x.queue[k]
        \/ \E k \in 1 .. Len(list) : e = list[k]
        \/ \E j \in 1 .. Len(x.wire) : j # i /\ e \in Coming(x, j)

\* Everything stays in order.
LEMMA TakeOrders ==
    ASSUME NEW x, x \in Worlds, AnswersFit(x), Ordered(x), Single(x), x.applied = 0,
           NEW y, NEW i \in 1 .. Len(x.wire),
           NEW list \in Seq(Event), NEW ws \in Seq(Write), SameWrites(x, ws),
           Takes(x, y, i, list, ws), MayTake(x, i, list)
    PROVE  Ordered(y) /\ Single(y) /\ LeftUnderWay(x, y, i, list)
<1> DEFINE n == Len(x.wire)
           N == Len(x.queue)
           M == Len(list)
<1>1. n \in Nat /\ N \in Nat /\ M \in Nat
    BY WorldTypes, LenProperties
<1>2. /\ y \in Worlds /\ y.applied = x.applied /\ Len(y.queue) = N + M /\ Len(y.wire) = n - 1
      /\ \A k \in 1 .. N : y.queue[k] = x.queue[k]
      /\ \A k \in 1 .. M : y.queue[N + k] = list[k]
      /\ \A k \in 1 .. N + M : y.queue[k] = IF k <= N THEN x.queue[k] ELSE list[k - N]
      /\ \A k \in 1 .. n - 1 : y.wire[k] = x.wire[At(i, k)] /\ Coming(y, k) = Coming(x, At(i, k))
      /\ \A e, f : Before(x, e, f) => Before(y, e, f)
  <2>1. Taken(x, y, i, list, ws)
      BY TakeDoes
  <2> QED
      BY <2>1 DEF Taken
<1>3. /\ \A k \in 1 .. n - 1 : At(i, k) \in 1 .. n /\ At(i, k) # i
      /\ \A k, l \in 1 .. n - 1 : k < l => At(i, k) < At(i, l)
      /\ \A j \in 1 .. n : j # i => \E k \in 1 .. n - 1 : At(i, k) = j
    BY ONLY <1>1, AtDoes
<1>4. Waiting(y) = 1 .. N + M /\ Waiting(x) = 1 .. N
    BY <1>1, <1>2, x.applied = 0 DEF Waiting
<1>5. \A k \in 1 .. N + M :
            \/ k \in 1 .. N /\ y.queue[k] = x.queue[k]
            \/ N < k /\ k - N \in 1 .. M /\ y.queue[k] = list[k - N]
    BY <1>1, <1>2
<1>6. ASSUME NEW k \in 1 .. N + M, NEW l \in 1 .. N + M, k < l
      PROVE  Before(y, y.queue[k], y.queue[l])
  <2>1. CASE l \in 1 .. N /\ y.queue[l] = x.queue[l]
    <3>1. k \in 1 .. N
        BY <1>1, <1>6, <2>1
    <3>2. Before(x, x.queue[k], x.queue[l])
        BY <1>4, <1>6, <2>1, <3>1 DEF Ordered
    <3> QED
        BY <1>2, <2>1, <3>1, <3>2
  <2>2. CASE k \in 1 .. N /\ y.queue[k] = x.queue[k] /\ l - N \in 1 .. M /\ y.queue[l] = list[l - N]
      BY <1>2, <2>2 DEF MayTake
  <2>3. CASE /\ N < k /\ k - N \in 1 .. M /\ y.queue[k] = list[k - N]
             /\ l - N \in 1 .. M /\ y.queue[l] = list[l - N]
    <3>1. k - N < l - N
        BY <1>1, <1>6
    <3>2. list[k - N].id # list[l - N].id
        BY <2>3, <3>1 DEF MayTake
    <3> QED
        BY <2>3, <3>2 DEF Before
  <2> QED
      BY <1>5, <2>1, <2>2, <2>3
<1>7. ASSUME NEW k \in 1 .. N + M, NEW j \in 1 .. n - 1, NEW f \in Coming(y, j)
      PROVE  Before(y, y.queue[k], f)
  <2>1. f \in Coming(x, At(i, j)) /\ At(i, j) \in 1 .. n /\ At(i, j) # i
      BY <1>2, <1>3
  <2>2. CASE k \in 1 .. N /\ y.queue[k] = x.queue[k]
      BY <1>2, <1>4, <2>1, <2>2 DEF Ordered
  <2>3. CASE k - N \in 1 .. M /\ y.queue[k] = list[k - N]
      BY <1>2, <2>1, <2>3 DEF MayTake
  <2> QED
      BY <1>5, <2>2, <2>3
<1>8. ASSUME NEW j \in 1 .. n - 1, NEW k \in 1 .. n - 1, j < k,
             NEW e \in Coming(y, j), NEW f \in Coming(y, k)
      PROVE  Before(y, e, f)
    BY <1>2, <1>3, <1>8 DEF Ordered
<1>9. Ordered(y)
    BY <1>2, <1>4, <1>6, <1>7, <1>8 DEF Ordered
<1>10. Single(y)
  <2> SUFFICES ASSUME NEW j \in 1 .. n - 1, y.wire[j].kind = "events",
                      NEW k \in 1 .. Len(y.wire[j].list), NEW l \in 1 .. Len(y.wire[j].list), k < l
               PROVE  y.wire[j].list[k].id # y.wire[j].list[l].id
      BY <1>2 DEF Single
  <2>1. y.wire[j] = x.wire[At(i, j)] /\ At(i, j) \in 1 .. n
      BY <1>2, <1>3
  <2> QED
      BY <2>1 DEF Single
<1>11. ASSUME NEW e
       PROVE  UnderWay(y, e) <=>
                 \/ \E k \in 1 .. N : e = x.queue[k]
                 \/ \E k \in 1 .. M : e = list[k]
                 \/ \E j \in 1 .. n : j # i /\ e \in Coming(x, j)
  <2>1. (\E k \in 1 .. N + M : e = y.queue[k]) <=>
            (\E k \in 1 .. N : e = x.queue[k]) \/ (\E k \in 1 .. M : e = list[k])
    <3>1. ASSUME NEW k \in 1 .. N PROVE k \in 1 .. N + M
        BY <1>1
    <3>2. ASSUME NEW k \in 1 .. M PROVE N + k \in 1 .. N + M
        BY <1>1
    <3>3. (\E k \in 1 .. N + M : e = y.queue[k]) =>
              (\E k \in 1 .. N : e = x.queue[k]) \/ (\E k \in 1 .. M : e = list[k])
        BY Zenon, <1>5
    <3>4. (\E k \in 1 .. N : e = x.queue[k]) => \E k \in 1 .. N + M : e = y.queue[k]
        BY Zenon, <1>2, <3>1
    <3>5. ASSUME NEW k \in 1 .. M, e = list[k] PROVE \E l \in 1 .. N + M : e = y.queue[l]
        BY Zenon, <1>2, <3>2, <3>5
    <3> QED
        BY <3>3, <3>4, <3>5
  <2>2. (\E j \in 1 .. n - 1 : e \in Coming(y, j)) <=> (\E j \in 1 .. n : j # i /\ e \in Coming(x, j))
      BY <1>2, <1>3
  <2> QED
      BY <1>2, <1>4, <2>1, <2>2 DEF UnderWay
<1>12. LeftUnderWay(x, y, i, list)
    BY <1>11 DEF LeftUnderWay
<1> QED
    BY <1>9, <1>10, <1>12


-----------------------------------------------------------------------------
(* The events of a payload.                                                *)

\* A finite set as a sequence: each member once.
LEMMA SetToSeqDoes ==
    ASSUME NEW S, IsFiniteSet(S)
    PROVE  /\ Cardinality(S) \in Nat
           /\ SetToSeq(S) \in [1 .. Cardinality(S) -> S]
           /\ \A k, l \in 1 .. Cardinality(S) : SetToSeq(S)[k] = SetToSeq(S)[l] => k = l
           /\ \A id \in S : \E k \in 1 .. Cardinality(S) : SetToSeq(S)[k] = id
<1> DEFINE n == Cardinality(S)
           f == SetToSeq(S)
<1>1. n \in Nat /\ ExistsBijection(1 .. n, S)
    BY FS_CardinalityType
<1>2. PICK g \in [1 .. n -> S] : \A k, l \in 1 .. n : g[k] = g[l] => k = l
    BY <1>1 DEF ExistsBijection, Bijection, Injection, IsInjective
<1>3. \E h \in [1 .. n -> S] : IsInjective(h)
    BY <1>2 DEF IsInjective
<1>4. f \in [1 .. n -> S] /\ IsInjective(f)
    BY <1>3 DEF SetToSeq
<1>5. \A k, l \in 1 .. n : f[k] = f[l] => k = l
    BY <1>4 DEF IsInjective
<1>6. f \in Injection(1 .. n, S)
    BY <1>4, <1>5 DEF Injection, IsInjective
<1>7. IsFiniteSet(1 .. n) /\ Cardinality(1 .. n) = n
  <2>1. 1 \in Int /\ n \in Int
      BY <1>1
  <2>2. /\ IsFiniteSet(1 .. n)
        /\ Cardinality(1 .. n) = IF 1 > n THEN 0 ELSE n - 1 + 1
      BY <2>1, FS_Interval
  <2> QED
      BY <1>1, <2>2
<1>8. f \in Surjection(1 .. n, S)
  <2> HIDE DEF f, n
  <2>1. Cardinality(1 .. n) = Cardinality(S) <=> f \in Surjection(1 .. n, S)
      BY ONLY <1>6, IsFiniteSet(S), FS_Injection
  <2> QED
      BY <1>7, <2>1 DEF n
<1> QED
    BY <1>1, <1>4, <1>5, <1>8 DEF Surjection

\* One event for each record.
Lists(list, type, ids, rev) ==
    /\ list \in Seq(Showing) /\ (rev # Local => list \in Seq(Event))
    /\ \A k \in 1 .. Len(list) : list[k].type = type /\ list[k].id \in ids /\ list[k].rev = rev
    /\ \A id \in ids : \E k \in 1 .. Len(list) : list[k] = [type |-> type, id |-> id, rev |-> rev]
    /\ \A k, l \in 1 .. Len(list) : k < l => list[k].id # list[l].id

\* The events of a payload.
LEMMA EventsOfDoes ==
    ASSUME NEW type \in EventTypes, NEW ids \in SUBSET Ids, NEW rev \in (0 .. MaxRevs) \cup {Local}
    PROVE  Lists(EventsOf(type, ids, rev), type, ids, rev)
<1> DEFINE n == Cardinality(ids)
           f == SetToSeq(ids)
           list == EventsOf(type, ids, rev)
<1>1. IsFiniteSet(ids)
    BY UnkeyedAssumption, FS_Subset
<1>2. /\ n \in Nat /\ f \in [1 .. n -> ids]
      /\ \A k, l \in 1 .. n : f[k] = f[l] => k = l
      /\ \A id \in ids : \E k \in 1 .. n : f[k] = id
    BY ONLY <1>1, SetToSeqDoes
<1>3. list = [k \in 1 .. n |-> [type |-> type, id |-> f[k], rev |-> rev]]
    BY DEF EventsOf
<1> HIDE DEF f, n, list
<1>4. ASSUME NEW k \in 1 .. n
      PROVE  /\ list[k] = [type |-> type, id |-> f[k], rev |-> rev]
             /\ list[k] \in Showing /\ (rev # Local => list[k] \in Event)
    BY <1>2, <1>3 DEF Event, Showing
<1>5. list \in Seq(Showing) /\ (rev # Local => list \in Seq(Event)) /\ Len(list) = n
  <2>1. list \in [1 .. n -> Showing] /\ (rev # Local => list \in [1 .. n -> Event])
      BY <1>3, <1>4
  <2> QED
      BY <1>2, <2>1, SeqDef, LenProperties
<1>6. ASSUME NEW k \in 1 .. n
      PROVE  list[k].type = type /\ list[k].id = f[k] /\ list[k].rev = rev /\ f[k] \in ids
  <2>1. list[k] = [type |-> type, id |-> f[k], rev |-> rev]
      BY <1>4
  <2>2. f[k] \in ids
      BY <1>2
  <2> QED
      BY ONLY <2>1, <2>2
<1>7. \A id \in ids : \E k \in 1 .. n : list[k] = [type |-> type, id |-> id, rev |-> rev]
    BY <1>2, <1>4
<1>8. \A k, l \in 1 .. n : k < l => list[k].id # list[l].id
  <2> SUFFICES ASSUME NEW k \in 1 .. n, NEW l \in 1 .. n, k < l PROVE list[k].id # list[l].id
      OBVIOUS
  <2>1. k # l
      BY <1>2
  <2>2. f[k] # f[l]
      BY <1>2, <2>1
  <2> QED
      BY <1>6, <2>2
<1> QED
    BY <1>5, <1>6, <1>7, <1>8 DEF list, Lists

-----------------------------------------------------------------------------
(* A message arrives.                                                      *)

\* The i-th message may come before those that were sent before it.
Passes(x, i) ==
    \A j \in 1 .. i - 1 : \A e \in Coming(x, i), f \in Coming(x, j) : Before(x, e, f)

\* Whatever MayPass lets overtake does not reorder two events of which one must come first.
LEMMA Passable ==
    ASSUME World \in Worlds, NEW i \in 1 .. Len(wire), \A j \in 1 .. i - 1 : MayPass(wire[i], wire[j])
    PROVE  Passes(World, i)
<1>0. /\ World.writes = calls /\ World.wire = wire /\ Len(wire) \in Nat
      /\ \A j \in 1 .. Len(wire) : wire[j] \in Answer \cup News
  <2>1. World.writes = calls /\ World.wire = wire
      BY DEF World
  <2> QED
      BY <2>1, WorldTypes
<1> SUFFICES ASSUME NEW j \in 1 .. i - 1, NEW e \in Coming(World, i), NEW f \in Coming(World, j),
                    e.id = f.id
             PROVE  f.type # "created" /\ e.type # "removed"
    BY DEF Passes, Before
<1> DEFINE msg == wire[i]
           earlier == wire[j]
<1>1. j \in 1 .. Len(wire) /\ msg \in Answer \cup News /\ earlier \in Answer \cup News
    BY <1>0
<1>2. earlier.kind = "answer" /\ earlier.kind # "events"
    BY DEF MayPass
<1>3. e \in Carried(calls, msg) /\ f \in Carried(calls, earlier)
    BY <1>0 DEF Coming
<1>4. earlier.ok /\ f.id \in earlier.ids /\ f.type = EventType(calls[earlier.call].method)
    BY <1>2, <1>3 DEF Carried
<1>5. f.id \in Touches(earlier)
    BY <1>2, <1>4 DEF Touches
<1>6. e.id \in Touches(msg) /\ (e.type = "removed" => Removes(msg))
  <2>1. CASE msg.kind = "events"
    <3>1. e \in ToSet(msg.list)
      <4>1. PICK k \in 1 .. Len(msg.list) : e = msg.list[k]
          BY <1>3, <2>1 DEF Carried
      <4>2. msg.list \in Seq(Event)
          BY <1>1, <2>1 DEF Answer, News
      <4>3. DOMAIN msg.list = 1 .. Len(msg.list)
          BY <4>2, LenProperties
      <4> QED
          BY <4>1, <4>3 DEF ToSet
    <3> QED
        BY <2>1, <3>1 DEF Touches, Removes
  <2>2. CASE msg.kind # "events"
    <3>1. msg.kind = "answer"
        BY <1>1, <2>2 DEF Answer, News
    <3>2. msg.ok /\ e.id \in msg.ids /\ e.type = EventType(calls[msg.call].method)
        BY <1>3, <2>2 DEF Carried
    <3>3. e.type = "removed" => calls[msg.call].method = "remove"
        BY <3>2 DEF EventType
    <3> QED
        BY <3>1, <3>2, <3>3 DEF Touches, Removes
  <2> QED
      BY <2>1, <2>2
<1>7. ~ Removes(msg) /\ calls[earlier.call].method \in {"patch", "patchAll"}
    BY <1>5, <1>6 DEF MayPass
<1> QED
    BY <1>4, <1>6, <1>7 DEF EventType

\* What an answer makes of its write.
Answered(call, msg) == Ended(call, msg.ok, msg.ids, msg.rev)

Settles(x, i, ws) ==
    \/ x.wire[i].kind = "events" /\ ws = x.writes
    \/ /\ x.wire[i].kind = "answer"
       /\ ws = [x.writes EXCEPT ![x.wire[i].call] = Answered(@, x.wire[i])]

\* The write a message settles.
Subject(x, i) == IF x.wire[i].kind = "answer" THEN x.wire[i].call ELSE 0

\* The writes after the i-th message.
After(x, i, ws) ==
    LET m == Subject(x, i)
        msg == x.wire[i]
    IN  /\ ws \in Seq(Write) /\ SameWrites(x, ws)
        /\ \A n \in 1 .. Len(x.writes) : n # m => ws[n] = x.writes[n]
        /\ msg.kind = "answer" =>
              /\ msg \in Answer /\ m = msg.call
              /\ m \in 1 .. Len(x.writes) /\ x.writes[m].phase = "sent" /\ m \notin x.asked
              /\ \A k \in 1 .. Len(x.wire) : k # i => ~ AnswerOf(x, k, m)
              /\ x.writes[m].method # "patchAll" => msg.ids = x.writes[m].ids
              /\ ws[m].door = x.writes[m].door /\ ws[m].method = x.writes[m].method
              /\ ws[m].phase = IF msg.ok THEN "done" ELSE "failed"
              /\ ws[m].ids = IF msg.ok THEN msg.ids ELSE x.writes[m].ids
              /\ ws[m].rev = msg.rev
              /\ msg.ok => msg.rev \in 1 .. MaxRevs
        /\ msg.kind # "answer" => msg \in News /\ msg.kind = "events" /\ m = 0 /\ ws = x.writes

\* A message settles at most the write it answers, and leaves every other write alone.
LEMMA SettlesDoes ==
    ASSUME NEW x, x \in Worlds, AnswersFit(x), WritesFit(x), NEW i \in 1 .. Len(x.wire), NEW ws,
           Settles(x, i, ws)
    PROVE  After(x, i, ws)
<1>1. /\ x.writes \in Seq(Write) /\ Len(x.writes) \in Nat /\ x.wire[i] \in Answer \cup News
      /\ \A n \in 1 .. Len(x.writes) : x.writes[n] \in Write
    BY WorldTypes
<1>2. CASE x.wire[i].kind = "events"
  <2>1. ws = x.writes /\ x.wire[i].kind # "answer" /\ x.wire[i] \in News
      BY <1>1, <1>2 DEF Settles, Answer, News
  <2> QED
      BY <1>1, <1>2, <2>1 DEF After, SameWrites, Subject
<1>3. CASE x.wire[i].kind # "events"
  <2> DEFINE msg == x.wire[i]
             m == msg.call
  <2>1. msg.kind = "answer" /\ msg \in Answer /\ m \in Nat /\ AnswerOf(x, i, m)
      BY <1>1, <1>3 DEF Answer, News, AnswerOf
  <2>2. /\ m \in 1 .. Len(x.writes) /\ x.writes[m].phase = "sent" /\ m \notin x.asked
        /\ \A k \in 1 .. Len(x.wire) : k # i => ~ AnswerOf(x, k, m)
        /\ x.writes[m].method # "patchAll" => msg.ids = x.writes[m].ids
        /\ msg.ok => msg.rev \in 1 .. MaxRevs
      BY <2>1 DEF AnswersFit
  <2>3. ws = [x.writes EXCEPT ![m] = Answered(@, msg)]
      BY <1>3 DEF Settles
  <2>4. /\ Answered(x.writes[m], msg) \in Write
        /\ Answered(x.writes[m], msg).door = x.writes[m].door
        /\ Answered(x.writes[m], msg).method = x.writes[m].method
        /\ Answered(x.writes[m], msg).phase = IF msg.ok THEN "done" ELSE "failed"
        /\ Answered(x.writes[m], msg).ids = IF msg.ok THEN msg.ids ELSE x.writes[m].ids
        /\ Answered(x.writes[m], msg).rev = msg.rev
    <3>1. x.writes[m] \in Write /\ msg \in Answer
        BY <1>1, <2>1, <2>2
    <3> HIDE DEF m, msg
    <3> QED
        BY <3>1 DEF Answered, Ended, Write, Answer
  <2> HIDE DEF m, msg
  <2>5. /\ ws \in Seq(Write) /\ Len(ws) = Len(x.writes)
        /\ \A n \in 1 .. Len(x.writes) : ws[n] = IF n = m THEN Answered(x.writes[m], msg) ELSE x.writes[n]
    <3>1. x.writes \in [1 .. Len(x.writes) -> Write]
        BY <1>1, LenProperties, ElementOfSeq
    <3>2. ws \in [1 .. Len(x.writes) -> Write]
        BY <2>2, <2>3, <2>4, <3>1
    <3>3. ws \in Seq(Write)
        BY <1>1, <3>2, SeqDef
    <3>4. Len(ws) = Len(x.writes)
        BY <1>1, <3>2, <3>3, LenProperties
    <3> QED
        BY <2>2, <2>3, <3>1, <3>3, <3>4
  <2>6. x.writes[m].ids \subseteq ws[m].ids
    <3>1. CASE x.writes[m].method = "patchAll"
        BY <2>2, <3>1 DEF WritesFit
    <3>2. CASE x.writes[m].method # "patchAll"
        BY <2>2, <2>4, <2>5, <3>2
    <3> QED
        BY <3>1, <3>2
  <2>7. SameWrites(x, ws)
      BY <2>4, <2>5, <2>6 DEF SameWrites
  <2>8. Subject(x, i) = m /\ msg = x.wire[i] /\ m = msg.call
      BY <2>1 DEF Subject, m, msg
  <2> QED
      BY <2>1, <2>2, <2>4, <2>5, <2>7, <2>8 DEF After
<1> QED
    BY <1>2, <1>3

\* Writes and their answers fit when a message has been taken.
LEMMA TakeFits ==
    ASSUME NEW x, x \in Worlds, AnswersFit(x), WritesFit(x), NEW y, NEW i \in 1 .. Len(x.wire),
           NEW list \in Seq(Event), NEW ws, Settles(x, i, ws), Takes(x, y, i, list, ws)
    PROVE  AnswersFit(y) /\ WritesFit(y)
<1> DEFINE n == Len(x.wire)
           m == Subject(x, i)
           msg == x.wire[i]
<1>1. After(x, i, ws)
    BY SettlesDoes
<1>2. Taken(x, y, i, list, ws)
    BY <1>1, TakeDoes DEF After
<1>3. /\ n \in Nat /\ y.writes = ws /\ y.asked = x.asked /\ Len(y.wire) = n - 1
      /\ \A k \in 1 .. n - 1 :
            /\ y.wire[k] = x.wire[At(i, k)]
            /\ \A w : AnswerOf(y, k, w) <=> AnswerOf(x, At(i, k), w)
    BY <1>2, WorldTypes DEF Taken
<1>4. /\ Len(ws) = Len(x.writes) /\ Len(x.writes) \in Nat
      /\ \A w \in 1 .. Len(x.writes) : w # m => ws[w] = x.writes[w]
      /\ \A w \in 1 .. Len(x.writes) : ws[w].method = x.writes[w].method
      /\ msg.kind = "answer" => AnswerOf(x, i, m) /\ m \notin x.asked
      /\ msg.kind = "answer" => \A k \in 1 .. n : k # i => ~ AnswerOf(x, k, m)
      /\ msg.kind # "answer" => m = 0
    BY <1>1, WorldTypes DEF After, SameWrites, AnswerOf
<1>5. \A w \in x.asked : w \in 1 .. Len(x.writes) /\ w # m
  <2>1. \A w \in x.asked : w \in 1 .. Len(x.writes)
      BY DEF AnswersFit
  <2> QED
      BY <1>4, <2>1
<1>6. /\ \A k \in 1 .. n - 1 : At(i, k) \in 1 .. n /\ At(i, k) # i
      /\ \A k, l \in 1 .. n - 1 : k # l => At(i, k) # At(i, l)
      /\ \A j \in 1 .. n : j # i => \E k \in 1 .. n - 1 : At(i, k) = j
    BY ONLY <1>3, AtDoes
<1> HIDE DEF n, m, msg
<1>7. ASSUME NEW w \in y.asked
      PROVE  /\ w \in 1 .. Len(y.writes) /\ y.writes[w].phase = "sent"
             /\ \A j \in 1 .. Len(y.wire) : ~ AnswerOf(y, j, w)
  <2>1. w \in x.asked /\ w \in 1 .. Len(x.writes) /\ w # m
      BY <1>3, <1>5
  <2>2. x.writes[w].phase = "sent" /\ \A j \in 1 .. n : ~ AnswerOf(x, j, w)
      BY <2>1 DEF AnswersFit, n
  <2> QED
      BY <1>3, <1>4, <1>6, <2>1, <2>2
<1>8. ASSUME NEW j \in 1 .. Len(y.wire), NEW w \in Nat, AnswerOf(y, j, w)
      PROVE  /\ w \in 1 .. Len(y.writes) /\ y.writes[w].phase = "sent"
             /\ \A k \in 1 .. Len(y.wire) : k # j => ~ AnswerOf(y, k, w)
             /\ y.writes[w].method # "patchAll" => y.wire[j].ids = y.writes[w].ids
             /\ y.wire[j].ok => y.wire[j].rev \in 1 .. MaxRevs
  <2>1. j \in 1 .. n - 1 /\ AnswerOf(x, At(i, j), w) /\ At(i, j) \in 1 .. n /\ At(i, j) # i
      BY <1>3, <1>6, <1>8
  <2>2. /\ w \in 1 .. Len(x.writes) /\ x.writes[w].phase = "sent"
        /\ \A k \in 1 .. n : k # At(i, j) => ~ AnswerOf(x, k, w)
        /\ x.writes[w].method # "patchAll" => x.wire[At(i, j)].ids = x.writes[w].ids
        /\ x.wire[At(i, j)].ok => x.wire[At(i, j)].rev \in 1 .. MaxRevs
      BY <2>1 DEF AnswersFit, n
  <2>3. w # m
      BY <1>4, <2>1, <2>2
  <2>4. ws[w] = x.writes[w]
      BY <1>4, <2>2, <2>3
  <2>5. \A k \in 1 .. n - 1 : k # j => ~ AnswerOf(y, k, w)
      BY <1>3, <1>6, <2>1, <2>2
  <2> QED
      BY <1>3, <1>4, <2>1, <2>2, <2>4, <2>5
<1>9. ASSUME NEW w \in 1 .. Len(y.writes), y.writes[w].phase = "sent"
      PROVE  w \in y.asked \/ \E j \in 1 .. Len(y.wire) : AnswerOf(y, j, w)
  <2>1. w \in 1 .. Len(x.writes)
      BY <1>3, <1>4
  <2>2. w # m
    <3> SUFFICES ASSUME w = m PROVE FALSE
        OBVIOUS
    <3>1. msg.kind = "answer"
        BY <1>4, <2>1
    <3>2. ws[m].phase = IF msg.ok THEN "done" ELSE "failed"
        BY <1>1, <3>1 DEF After, m, msg
    <3> QED
        BY <1>3, <1>9, <3>2
  <2>3. x.writes[w].phase = "sent"
      BY <1>3, <1>4, <1>9, <2>1, <2>2
  <2>4. CASE w \in x.asked
      BY <1>3, <2>4
  <2>5. CASE w \notin x.asked
    <3>1. PICK j \in 1 .. n : AnswerOf(x, j, w)
        BY <2>1, <2>3, <2>5 DEF AnswersFit, n
    <3>2. j # i
      <4> SUFFICES ASSUME j = i PROVE FALSE
          OBVIOUS
      <4>1. msg.kind = "answer" /\ msg.call = w
          BY <3>1 DEF AnswerOf, msg
      <4> QED
          BY <2>2, <4>1 DEF Subject, m, msg
    <3>3. PICK k \in 1 .. n - 1 : At(i, k) = j
        BY <1>6, <3>2
    <3>4. AnswerOf(y, k, w)
        BY <1>3, <3>1, <3>3
    <3> QED
        BY <1>3, <3>4
  <2> QED
      BY <2>4, <2>5
<1>10. AnswersFit(y)
    BY <1>7, <1>8, <1>9 DEF AnswersFit
<1>11. ASSUME NEW w \in 1 .. Len(y.writes)
       PROVE  /\ y.writes[w].door = "handle" <=> y.writes[w].method \in Unnamed
              /\ y.writes[w].phase = "sent" /\ y.writes[w].method = "patchAll" => y.writes[w].ids = {}
              /\ y.writes[w].method = "call" => y.writes[w].ids = {}
              /\ y.writes[w].phase = "done" => y.writes[w].rev # 0
  <2>1. w \in 1 .. Len(x.writes)
      BY <1>3, <1>4
  <2>2. /\ x.writes[w].door = "handle" <=> x.writes[w].method \in Unnamed
        /\ x.writes[w].phase = "sent" /\ x.writes[w].method = "patchAll" => x.writes[w].ids = {}
        /\ x.writes[w].method = "call" => x.writes[w].ids = {}
        /\ x.writes[w].phase = "done" => x.writes[w].rev # 0
      BY <2>1 DEF WritesFit
  <2>3. CASE w # m
      BY <1>3, <1>4, <2>1, <2>2, <2>3
  <2>4. CASE w = m
    <3>1. msg.kind = "answer"
        BY <1>4, <2>1, <2>4
    <3>2. /\ ws[m].door = x.writes[m].door /\ ws[m].method = x.writes[m].method
          /\ ws[m].phase = IF msg.ok THEN "done" ELSE "failed"
          /\ ws[m].ids = IF msg.ok THEN msg.ids ELSE x.writes[m].ids
          /\ ws[m].rev = msg.rev
          /\ msg.ok => msg.rev \in 1 .. MaxRevs
          /\ x.writes[m].method # "patchAll" => msg.ids = x.writes[m].ids
        BY <1>1, <3>1 DEF After, m, msg
    <3> QED
        BY <1>3, <2>2, <2>4, <3>2
  <2> QED
      BY <2>3, <2>4
<1>12. WritesFit(y)
    BY <1>11 DEF WritesFit
<1> QED
    BY <1>10, <1>12

\* What messages bring are events.
LEMMA ComingTypes ==
    ASSUME NEW x, x \in Worlds, AnswersFit(x), NEW j \in 1 .. Len(x.wire)
    PROVE  Coming(x, j) \subseteq Event
<1> DEFINE msg == x.wire[j]
<1>1. msg \in Answer \cup News
    BY WorldTypes
<1>2. CASE msg.kind = "events"
  <2>1. msg.list \in Seq(Event)
      BY <1>1, <1>2 DEF Answer, News
  <2>2. \A k \in 1 .. Len(msg.list) : msg.list[k] \in Event
      BY <2>1, ElementOfSeq
  <2> QED
      BY <1>2, <2>2 DEF Coming, Carried
<1>3. CASE msg.kind # "events"
  <2>1. msg \in Answer /\ AnswerOf(x, j, msg.call) /\ msg.call \in Nat
      BY <1>1, <1>3 DEF Answer, News, AnswerOf
  <2>2. msg.ids \subseteq Ids /\ (msg.ok => msg.rev \in 0 .. MaxRevs)
      BY <2>1, RevsBelowLocal DEF Answer, AnswersFit
  <2>3. EventType(x.writes[msg.call].method) \in EventTypes
      BY DEF EventType, EventTypes
  <2>4. msg.ok => \A id \in msg.ids :
            [type |-> EventType(x.writes[msg.call].method), id |-> id, rev |-> msg.rev] \in Event
      BY <2>2, <2>3 DEF Event
  <2> QED
      BY <1>3, <2>4 DEF Coming, Carried
<1> QED
    BY <1>2, <1>3

\* The events that come to the queue with the i-th message: those it carries, or, when
\* a batch create has failed, the removals of the rows it showed.
Carries(x, i, list) ==
    /\ \A e : (\E k \in 1 .. Len(list) : e = list[k]) <=> e \in Coming(x, i)
    /\ x.wire[i].kind = "answer" /\ ~ x.wire[i].ok => x.writes[x.wire[i].call].method # "createMany"

Undoes(x, i, list) ==
    /\ x.wire[i].kind = "answer" /\ ~ x.wire[i].ok
    /\ x.writes[x.wire[i].call].method = "createMany"
    /\ \A k \in 1 .. Len(list) :
          list[k].type = "removed" /\ list[k].id \in x.writes[x.wire[i].call].ids
    /\ \A id \in x.writes[x.wire[i].call].ids : \E k \in 1 .. Len(list) : list[k].id = id

Brings(x, i, list) ==
    /\ list \in Seq(Event)
    /\ \A k, l \in 1 .. Len(list) : k < l => list[k].id # list[l].id
    /\ Carries(x, i, list) \/ Undoes(x, i, list)

\* An event that is new to those under way undoes an unborn row.
Undone(x, m, e) ==
    /\ e.type = "removed" /\ m \in 1 .. Len(x.writes) /\ Unborn(x, m) /\ e.id \in x.writes[m].ids

\* What is under way after a message was taken.
LEMMA TakeUnderWay ==
    ASSUME NEW x, Holds(x, 0), x.applied = 0, NEW y, NEW i \in 1 .. Len(x.wire), Passes(x, i),
           NEW list, Brings(x, i, list), NEW ws, Settles(x, i, ws), Takes(x, y, i, list, ws)
    PROVE  /\ Ordered(y) /\ Single(y)
           /\ \A e : UnderWay(x, e) => UnderWay(y, e)
           /\ \A e : UnderWay(y, e) => UnderWay(x, e) \/ Undone(x, Subject(x, i), e)
<1>1. /\ x \in Worlds /\ AnswersFit(x) /\ Ordered(x) /\ Single(x) /\ WritesFit(x) /\ UnbornAreNew(x)
      /\ list \in Seq(Event) /\ \A k, l \in 1 .. Len(list) : k < l => list[k].id # list[l].id
    BY DEF Holds, Brings
<1>2. After(x, i, ws) /\ ws \in Seq(Write) /\ SameWrites(x, ws)
  <2>1. After(x, i, ws)
      BY <1>1, SettlesDoes
  <2> QED
      BY <2>1 DEF After
<1>3. Len(x.wire) \in Nat /\ Len(x.queue) \in Nat /\ Waiting(x) = 1 .. Len(x.queue)
    BY <1>1, WorldTypes, x.applied = 0 DEF Waiting
<1>4. CASE Carries(x, i, list)
  <2>1. \A e : (\E k \in 1 .. Len(list) : e = list[k]) <=> e \in Coming(x, i)
      BY <1>4 DEF Carries
  <2>2. \A q \in 1 .. Len(x.queue), k \in 1 .. Len(list) : Before(x, x.queue[q], list[k])
      BY <1>1, <1>3, <2>1 DEF Ordered
  <2>3. ASSUME NEW j \in 1 .. Len(x.wire), NEW k \in 1 .. Len(list), j # i, NEW f \in Coming(x, j)
        PROVE  Before(x, list[k], f)
    <3>1. list[k] \in Coming(x, i)
        BY <2>1
    <3>2. CASE j < i
      <4>1. j \in 1 .. i - 1
          BY <1>3, <3>2
      <4> QED
          BY <3>1, <4>1 DEF Passes
    <3>3. CASE ~ (j < i)
      <4>1. i < j
          BY <1>3, <2>3, <3>3
      <4> QED
          BY <1>1, <3>1, <4>1 DEF Ordered
    <3> QED
        BY <3>2, <3>3
  <2> MayTake(x, i, list)
      BY <1>1, <2>2, <2>3 DEF MayTake
  <2>4. Ordered(y) /\ Single(y) /\ LeftUnderWay(x, y, i, list)
      BY <1>1, <1>2, TakeOrders
  <2>5. \A e : UnderWay(y, e) <=> UnderWay(x, e)
      BY <1>3, <2>1, <2>4 DEF UnderWay, LeftUnderWay
  <2> QED
      BY <2>4, <2>5
<1>5. CASE Undoes(x, i, list)
  <2> DEFINE m == x.wire[i].call
  <2>1. /\ x.wire[i].kind = "answer" /\ ~ x.wire[i].ok /\ x.writes[m].method = "createMany"
        /\ \A k \in 1 .. Len(list) : list[k].type = "removed" /\ list[k].id \in x.writes[m].ids
        /\ AnswerOf(x, i, m) /\ Subject(x, i) = m
      BY ONLY <1>5 DEF Undoes, AnswerOf, Subject
  <2>2. m \in 1 .. Len(x.writes)
      BY <1>2, <2>1 DEF After
  <2> HIDE DEF m
  <2>3. Unborn(x, m)
      BY <2>1 DEF Unborn
  <2>4. \A e \in Event : UnderWay(x, e) => e.id \notin x.writes[m].ids
      BY <1>1, <2>2, <2>3 DEF UnbornAreNew
  <2>5. Coming(x, i) = {}
      BY <2>1 DEF Coming, Carried
  <2>6. \A q \in 1 .. Len(x.queue) : x.queue[q].id \notin x.writes[m].ids
    <3>1. \A q \in 1 .. Len(x.queue) : x.queue[q] \in Event /\ UnderWay(x, x.queue[q])
        BY <1>1, <1>3, WorldTypes DEF UnderWay
    <3> QED
        BY <2>4, <3>1
  <2>7. \A q \in 1 .. Len(x.queue), k \in 1 .. Len(list) : Before(x, x.queue[q], list[k])
    <3> SUFFICES ASSUME NEW q \in 1 .. Len(x.queue), NEW k \in 1 .. Len(list)
                 PROVE  x.queue[q].id # list[k].id
        BY DEF Before
    <3> QED
        BY <2>1, <2>6
  <2>8. ASSUME NEW j \in 1 .. Len(x.wire), NEW k \in 1 .. Len(list), j # i, NEW f \in Coming(x, j)
        PROVE  Before(x, list[k], f)
    <3>1. f \in Event
        BY <1>1, ComingTypes
    <3>2. UnderWay(x, f)
        BY DEF UnderWay
    <3>3. f.id # list[k].id
        BY <2>1, <2>4, <3>1, <3>2
    <3> QED
        BY <3>3 DEF Before
  <2> MayTake(x, i, list)
      BY <1>1, <2>7, <2>8 DEF MayTake
  <2>9. Ordered(y) /\ Single(y) /\ LeftUnderWay(x, y, i, list)
      BY <1>1, <1>2, TakeOrders
  <2>10. \A e : UnderWay(y, e) <=> UnderWay(x, e) \/ \E k \in 1 .. Len(list) : e = list[k]
      BY <1>3, <2>5, <2>9 DEF UnderWay, LeftUnderWay
  <2>11. \A k \in 1 .. Len(list) : Undone(x, m, list[k])
      BY <2>1, <2>2, <2>3 DEF Undone
  <2> QED
      BY <2>1, <2>9, <2>10, <2>11
<1> QED
    BY <1>4, <1>5 DEF Brings

\* A message arrives: what it brings waits in the queue, and its write is settled.
LEMMA TakeHolds ==
    ASSUME NEW x, Holds(x, 0), x.applied = 0, NEW y, NEW i \in 1 .. Len(x.wire), Passes(x, i),
           NEW list, Brings(x, i, list), NEW ws, Settles(x, i, ws), Takes(x, y, i, list, ws)
    PROVE  Holds(y, Subject(x, i))
<1> DEFINE m == Subject(x, i)
           msg == x.wire[i]
<1>1. /\ x \in Worlds /\ AnswersFit(x) /\ WritesFit(x) /\ UnbornAreNew(x) /\ Stamped(x)
      /\ CreatedFirst(x) /\ StoredArrives(x) /\ RemovedArrives(x) /\ StrangersRest(x)
      /\ DoneIsShown(x, 0) /\ LocalIsSent(x, 0) /\ list \in Seq(Event)
    BY DEF Holds, Brings
<1>2. After(x, i, ws)
    BY <1>1, SettlesDoes
<1>3. Taken(x, y, i, list, ws)
    BY <1>1, <1>2, TakeDoes DEF After
<1>4. /\ y \in Worlds /\ y.cache = x.cache /\ y.applied = 0 /\ y.stored = x.stored
      /\ y.asked = x.asked /\ y.writes = ws
      /\ Len(y.queue) = Len(x.queue) + Len(list) /\ Len(x.queue) \in Nat /\ Len(list) \in Nat
      /\ \A k \in 1 .. Len(list) : y.queue[Len(x.queue) + k] = list[k]
      /\ \A id : Known(x, id) => Known(y, id)
      /\ Len(x.writes) \in Nat
    BY <1>1, <1>3, WorldTypes, LenProperties, x.applied = 0 DEF Taken
<1>5. /\ Ordered(y) /\ Single(y)
      /\ \A e : UnderWay(x, e) => UnderWay(y, e)
      /\ \A e : UnderWay(y, e) => UnderWay(x, e) \/ Undone(x, m, e)
    BY TakeUnderWay
<1>6. AnswersFit(y) /\ WritesFit(y)
    BY <1>1, TakeFits
<1> HIDE DEF m
<1>7. ASSUME NEW e \in Event, Undone(x, m, e)
      PROVE  /\ e.type = "removed" /\ e.id \in Ids /\ x.stored[e.id] = 0
             /\ x.cache[e.id] \in {Absent, Local} /\ Known(x, e.id)
             /\ \A w \in 1 .. Len(x.writes) : w # m => e.id \notin x.writes[w].ids
  <2>1. e.type = "removed" /\ m \in 1 .. Len(x.writes) /\ Unborn(x, m) /\ e.id \in x.writes[m].ids
      BY <1>7 DEF Undone
  <2>2. e.id \in Ids
      BY DEF Event
  <2>3. Known(x, e.id)
      BY <2>1 DEF Known
  <2> QED
      BY <1>1, <2>1, <2>2, <2>3 DEF UnbornAreNew
<1>8. /\ ws \in Seq(Write) /\ Len(ws) = Len(x.writes)
      /\ \A w \in 1 .. Len(x.writes) : ws[w].method = x.writes[w].method
      /\ \A w \in 1 .. Len(x.writes) : w # m => ws[w] = x.writes[w]
      /\ msg.kind = "answer" =>
              /\ m = msg.call /\ m \in 1 .. Len(x.writes) /\ x.writes[m].phase = "sent"
              /\ m \notin x.asked /\ AnswerOf(x, i, m)
              /\ \A k \in 1 .. Len(x.wire) : k # i => ~ AnswerOf(x, k, m)
              /\ ws[m].phase = IF msg.ok THEN "done" ELSE "failed"
              /\ ws[m].ids = IF msg.ok THEN msg.ids ELSE x.writes[m].ids
              /\ ws[m].rev = msg.rev
      /\ msg.kind # "answer" => msg.kind = "events" /\ m = 0 /\ ws = x.writes
    BY <1>2 DEF After, SameWrites, AnswerOf, m
<1>9. \A k \in 1 .. Len(list) : \E q \in Waiting(y) : y.queue[q] = list[k]
  <2> SUFFICES ASSUME NEW k \in 1 .. Len(list) PROVE \E q \in Waiting(y) : y.queue[q] = list[k]
      OBVIOUS
  <2>1. Len(x.queue) + k \in Waiting(y)
      BY <1>4 DEF Waiting
  <2> QED
      BY <1>4, <2>1
\* A record the settled write names is in the list, if it is shown by the write.
<1>10. ASSUME msg.kind = "answer", NEW id \in ws[m].ids,
              msg.ok \/ x.writes[m].method = "createMany"
       PROVE  /\ \E q \in Waiting(y) : y.queue[q].id = id
              /\ msg.ok => \E q \in Waiting(y) :
                    /\ y.queue[q].type = EventType(ws[m].method)
                    /\ y.queue[q].id = id /\ y.queue[q].rev = ws[m].rev
  <2>1. CASE msg.ok
    <3>1. Carries(x, i, list)
        BY <2>1 DEF Brings, Undoes
    <3> DEFINE e == [type |-> EventType(x.writes[msg.call].method), id |-> id, rev |-> msg.rev]
    <3>2. id \in msg.ids
        BY <1>8, <1>10, <2>1
    <3>3. msg.kind # "events"
        BY <1>10
    <3>4. e \in Coming(x, i)
        BY <2>1, <3>2, <3>3 DEF Coming, Carried
    <3>5. PICK k \in 1 .. Len(list) : e = list[k]
        BY <3>1, <3>4 DEF Carries
    <3>6. PICK q \in Waiting(y) : y.queue[q] = list[k]
        BY <1>9
    <3>7. /\ y.queue[q].type = EventType(x.writes[msg.call].method)
          /\ y.queue[q].id = id /\ y.queue[q].rev = msg.rev
        BY ONLY <3>5, <3>6
    <3> QED
        BY <1>8, <1>10, <3>7
  <2>2. CASE ~ msg.ok
    <3>1. Undoes(x, i, list)
        BY <1>8, <1>10, <2>2 DEF Brings, Carries
    <3>2. id \in x.writes[msg.call].ids
        BY <1>8, <1>10, <2>2
    <3>3. PICK k \in 1 .. Len(list) : list[k].id = id
        BY <3>1, <3>2 DEF Undoes
    <3> QED
        BY <1>9, <2>2, <3>3
  <2> QED
      BY <2>1, <2>2
<1>11. Stamped(y) /\ CreatedFirst(y)
  <2>1. Stamped(y)
      BY <1>1, <1>5 DEF Stamped, Undone
  <2>2. CreatedFirst(y)
      BY <1>1, <1>4, <1>5 DEF CreatedFirst, Undone
  <2> QED
      BY <2>1, <2>2
<1>12. StoredArrives(y)
  <2> SUFFICES ASSUME NEW id \in Ids, x.stored[id] # 0
               PROVE  /\ \A e \in Event : UnderWay(y, e) /\ e.id = id =>
                            e.type # "removed" /\ e.rev <= x.stored[id]
                      /\ x.cache[id] \in {Absent, Local} \/ x.cache[id] <= x.stored[id]
                      /\ \/ x.cache[id] = x.stored[id]
                         \/ \E e \in Event : UnderWay(y, e) /\ e.id = id /\ e.rev = x.stored[id]
      BY <1>4 DEF StoredArrives
  <2>1. \A e \in Event : UnderWay(y, e) /\ e.id = id => UnderWay(x, e)
      BY <1>5, <1>7
  <2> QED
      BY <1>1, <1>5, <2>1 DEF StoredArrives
<1>13. RemovedArrives(y)
  <2> SUFFICES ASSUME NEW id \in Ids, x.stored[id] = 0
               PROVE  \/ \E e \in Event : UnderWay(y, e) /\ e.id = id /\ e.type = "removed"
                      \/ /\ \A e \in Event : UnderWay(y, e) => e.id # id
                         /\ x.cache[id] \in {Absent, Local}
      BY <1>4 DEF RemovedArrives
  <2> QED
      BY <1>1, <1>5, <1>7 DEF RemovedArrives
<1>14. StrangersRest(y)
  <2> SUFFICES ASSUME NEW id \in Ids, ~ Known(y, id), x.cache[id] = Absent
               PROVE  x.stored[id] = 0 /\ \A e \in Event : UnderWay(y, e) => e.id # id
      BY <1>4 DEF StrangersRest
  <2>1. ~ Known(x, id)
      BY <1>4
  <2> QED
      BY <1>1, <1>5, <1>7, <2>1 DEF StrangersRest
<1>15. ASSUME NEW w \in 1 .. Len(y.writes), y.writes[w].phase = "done", y.writes[w].method # "call",
              NEW id \in y.writes[w].ids
       PROVE  \/ Gone(y, id)
              \/ y.writes[w].method # "remove" /\ y.cache[id] \in y.writes[w].rev .. Local - 1
              \/ w = m /\ \E q \in Waiting(y) :
                    /\ y.queue[q].type = EventType(y.writes[w].method)
                    /\ y.queue[q].id = id /\ y.queue[q].rev = y.writes[w].rev
  <2>1. w \in 1 .. Len(x.writes)
      BY <1>4, <1>8
  <2>2. CASE w = m
    <3>1. msg.kind = "answer"
        BY <1>8, <2>1, <2>2
    <3>2. msg.ok
        BY <1>4, <1>8, <1>15, <2>2, <3>1
    <3> QED
        BY <1>4, <1>10, <1>15, <2>2, <3>1, <3>2
  <2>3. CASE w # m
    <3>1. ws[w] = x.writes[w]
        BY <1>8, <2>1, <2>3
    <3>2. \/ Gone(x, id)
          \/ x.writes[w].method # "remove" /\ x.cache[id] \in x.writes[w].rev .. Local - 1
        BY <1>1, <1>4, <1>15, <2>1, <3>1 DEF DoneIsShown
    <3>3. Gone(x, id) => Gone(y, id)
        BY <1>4, <1>5, <1>7 DEF Gone
    <3> QED
        BY <1>4, <3>1, <3>2, <3>3
  <2> QED
      BY <2>2, <2>3
<1>16. DoneIsShown(y, m)
    BY <1>15 DEF DoneIsShown
<1>17. ASSUME NEW id \in Ids, y.cache[id] = Local, NEW w \in 1 .. Len(y.writes), id \in y.writes[w].ids
       PROVE  \/ y.writes[w].phase = "sent" /\ y.writes[w].method = "createMany"
              \/ w = m /\ \E q \in Waiting(y) : y.queue[q].id = id
  <2>1. w \in 1 .. Len(x.writes)
      BY <1>4, <1>8
  <2>2. id \in x.writes[w].ids =>
            x.writes[w].phase = "sent" /\ x.writes[w].method = "createMany"
      BY <1>1, <1>4, <1>17, <2>1 DEF LocalIsSent
  <2>3. CASE w = m
    <3>1. msg.kind = "answer"
        BY <1>8, <2>1, <2>3
    <3>2. msg.ok \/ x.writes[m].method = "createMany"
        BY <1>4, <1>8, <1>17, <2>2, <2>3, <3>1
    <3> QED
        BY <1>4, <1>10, <1>17, <2>3, <3>1, <3>2
  <2>4. CASE w # m
      BY <1>4, <1>8, <1>17, <2>1, <2>2, <2>4
  <2> QED
      BY <2>3, <2>4
<1>18. LocalIsSent(y, m)
    BY <1>1, <1>4, <1>17 DEF LocalIsSent
<1>19. ASSUME NEW w \in 1 .. Len(y.writes), Unborn(y, w), NEW id \in y.writes[w].ids
       PROVE  /\ y.stored[id] = 0 /\ y.cache[id] \in {Absent, Local}
              /\ \A e \in Event : UnderWay(y, e) => e.id # id
              /\ \A n \in 1 .. Len(y.writes) : n # w => id \notin y.writes[n].ids
  <2>1. w \in 1 .. Len(x.writes) /\ ws[w].method = x.writes[w].method
      BY <1>4, <1>8
  <2>2. w # m /\ Unborn(x, w)
    <3>1. CASE w \in y.asked
      <4>1. w \in x.asked
          BY <1>4, <3>1
      <4>2. w # m
          BY <1>8, <2>1, <4>1
      <4> QED
          BY <1>4, <1>19, <2>1, <4>1, <4>2 DEF Unborn
    <3>2. CASE w \notin y.asked
      <4>1. PICK j \in 1 .. Len(y.wire) : AnswerOf(y, j, w) /\ ~ y.wire[j].ok
          BY <1>19, <3>2 DEF Unborn
      <4>2. Len(x.wire) \in Nat /\ j \in 1 .. Len(x.wire) - 1
          BY <1>1, <1>3, WorldTypes DEF Taken
      <4>3. At(i, j) \in 1 .. Len(x.wire) /\ At(i, j) # i
          BY ONLY <4>2, AtDoes, i \in 1 .. Len(x.wire)
      <4>4. AnswerOf(x, At(i, j), w) /\ ~ x.wire[At(i, j)].ok
          BY <1>3, <4>1, <4>2 DEF Taken
      <4>5. w # m
          BY <1>8, <2>1, <4>3, <4>4
      <4> QED
          BY <1>4, <1>19, <2>1, <3>2, <4>3, <4>4, <4>5 DEF Unborn
    <3> QED
        BY <3>1, <3>2
  <2>3. id \in x.writes[w].ids /\ id \in Ids
    <3>1. id \in x.writes[w].ids
        BY <1>4, <1>8, <1>19, <2>1, <2>2
    <3>2. x.writes[w] \in Write
        BY <1>1, <2>1, WorldTypes
    <3> QED
        BY <3>1, <3>2 DEF Write
  <2>4. /\ x.stored[id] = 0 /\ x.cache[id] \in {Absent, Local}
        /\ \A e \in Event : UnderWay(x, e) => e.id # id
        /\ \A n \in 1 .. Len(x.writes) : n # w => id \notin x.writes[n].ids
      BY <1>1, <2>1, <2>2, <2>3 DEF UnbornAreNew
  <2>5. \A e \in Event : UnderWay(y, e) => e.id # id
    <3> SUFFICES ASSUME NEW e \in Event, UnderWay(y, e), e.id = id PROVE FALSE
        OBVIOUS
    <3>1. Undone(x, m, e)
        BY <1>5, <2>4
    <3> QED
        BY <1>7, <2>1, <2>2, <2>3, <3>1
  <2>6. ASSUME NEW n \in 1 .. Len(y.writes), n # w PROVE id \notin y.writes[n].ids
    <3>1. n \in 1 .. Len(x.writes) /\ id \notin x.writes[n].ids
        BY <1>4, <1>8, <2>4, <2>6
    <3>2. CASE n # m
        BY <1>4, <1>8, <3>1, <3>2
    <3>3. CASE n = m
      <4>1. msg.kind = "answer"
          BY <1>8, <3>1, <3>3
      <4> SUFFICES ASSUME msg.ok, id \in msg.ids PROVE FALSE
          BY <1>4, <1>8, <3>1, <3>3, <4>1
      <4> DEFINE e == [type |-> EventType(x.writes[msg.call].method), id |-> id, rev |-> msg.rev]
      <4>2. e \in Coming(x, i)
          BY <4>1 DEF Coming, Carried
      <4>3. e \in Event /\ UnderWay(x, e)
          BY <1>1, <4>2, ComingTypes DEF UnderWay
      <4> QED
          BY <2>4, <4>3
    <3> QED
        BY <3>2, <3>3
  <2> QED
      BY <1>4, <2>4, <2>5, <2>6
<1>20. UnbornAreNew(y)
    BY <1>19 DEF UnbornAreNew
<1> QED
    BY <1>4, <1>5, <1>6, <1>11, <1>12, <1>13, <1>14, <1>16, <1>18, <1>20 DEF Holds, m

-----------------------------------------------------------------------------
(* The server handles a request, or another client's.                      *)

\* What a write leaves on the server.
Saved(stored, type, ids, rev) ==
    [id \in Ids |-> IF id \notin ids THEN stored[id] ELSE IF type = "removed" THEN 0 ELSE rev]

\* The write of these records, of the call m or, for 0, of another client, may be
\* executed.  Without a record nothing is.
Serviceable(x, m, type, ids, rev) ==
    /\ m \in x.asked \cup {0} /\ type \in EventTypes /\ ids \subseteq Ids
    /\ type = "created" =>
          /\ m \in x.asked /\ x.writes[m].method \in {"create", "createMany"}
          /\ ids \subseteq x.writes[m].ids /\ \A id \in ids : x.stored[id] = 0
    /\ type # "created" => \A id \in ids : x.stored[id] # 0
    /\ type = "removed" /\ m # 0 => ids \subseteq x.writes[m].ids
    /\ ids # {} => rev \in 1 .. MaxRevs /\ \A id \in Ids : x.stored[id] < rev

\* It is told of by messages: events, and an answer if it is a call's.
Tells(x, m, type, ids, rev, msg) ==
    \/ /\ msg \in News
       /\ \A k \in 1 .. Len(msg.list) :
             msg.list[k].type = type /\ msg.list[k].id \in ids /\ msg.list[k].rev = rev
       /\ \A id \in ids : \E k \in 1 .. Len(msg.list) :
             msg.list[k] = [type |-> type, id |-> id, rev |-> rev]
       /\ \A k, l \in 1 .. Len(msg.list) : k < l => msg.list[k].id # msg.list[l].id
    \/ /\ msg \in Answer /\ msg.call = m /\ m # 0
       /\ x.writes[m].method # "patchAll" => msg.ids = x.writes[m].ids
       /\ msg.ok => /\ msg.rev \in 1 .. MaxRevs /\ type = EventType(x.writes[m].method)
                    /\ msg.ids = ids /\ (ids # {} => msg.rev = rev)
       /\ ~ msg.ok /\ x.writes[m].method = "createMany" => ids = {}

\* One message or two: if two, in any order.
Reports(x, m, type, ids, rev, msgs) ==
    /\ msgs \in Seq(Answer \cup News) /\ Len(msgs) \in 1 .. 2
    /\ \A k \in 1 .. Len(msgs) : Tells(x, m, type, ids, rev, msgs[k])
    /\ m = 0 => Len(msgs) = 1
    /\ m # 0 => \E k \in 1 .. Len(msgs) :
          msgs[k].kind = "answer" /\ \A l \in 1 .. Len(msgs) : l # k => msgs[l].kind # "answer"
    /\ ids # {} => \E k \in 1 .. Len(msgs) : msgs[k].kind = "events"

Handles(x, y, m, type, ids, rev, msgs) ==
    y = [x EXCEPT !.stored = Saved(@, type, ids, rev), !.wire = @ \o msgs, !.asked = @ \ {m}]

Serves(x, y, m, type, ids, rev, msgs) ==
    /\ Serviceable(x, m, type, ids, rev) /\ Reports(x, m, type, ids, rev, msgs)
    /\ Handles(x, y, m, type, ids, rev, msgs)

\* What the write brings under way.
IsTold(type, ids, rev, e) == e.type = type /\ e.id \in ids /\ e.rev = rev

\* The world after it.
Served(x, y, m, type, ids, rev, msgs) ==
    /\ y \in Worlds /\ y.cache = x.cache /\ y.applied = x.applied /\ y.queue = x.queue
    /\ y.asked = x.asked \ {m} /\ y.writes = x.writes
    /\ \A id \in Ids :
          y.stored[id] = IF id \notin ids THEN x.stored[id] ELSE IF type = "removed" THEN 0 ELSE rev
    /\ Len(y.wire) = Len(x.wire) + Len(msgs)
    /\ \A j \in 1 .. Len(x.wire) :
          y.wire[j] = x.wire[j] /\ Coming(y, j) = Coming(x, j) /\ j \in 1 .. Len(y.wire)
    /\ \A k \in 1 .. Len(msgs) :
          y.wire[Len(x.wire) + k] = msgs[k] /\ Len(x.wire) + k \in 1 .. Len(y.wire)
    /\ \A j \in 1 .. Len(y.wire) : j \in 1 .. Len(x.wire)
          \/ (Len(x.wire) < j /\ j - Len(x.wire) \in 1 .. Len(msgs) /\ y.wire[j] = msgs[j - Len(x.wire)])
    /\ \A id : Known(x, id) <=> Known(y, id)
    /\ \A e, f : Before(x, e, f) <=> Before(y, e, f)

\* A request that is served: every other event keeps its place, and the new ones come behind
\* whatever is on the wire already.
LEMMA ServeDoes ==
    ASSUME NEW x, x \in Worlds, NEW y, NEW m, NEW type, NEW ids, NEW rev, NEW msgs,
           Serves(x, y, m, type, ids, rev, msgs)
    PROVE  Served(x, y, m, type, ids, rev, msgs)
<1> DEFINE n == Len(x.wire)
           K == Len(msgs)
<1>1. /\ x.wire \in Seq(Answer \cup News) /\ msgs \in Seq(Answer \cup News) /\ n \in Nat /\ K \in Nat
      /\ x.stored \in [Ids -> 0 .. MaxRevs] /\ x.asked \in SUBSET Nat
    BY WorldTypes, LenProperties DEF Serves, Reports
<1>2. /\ x.wire \o msgs \in Seq(Answer \cup News) /\ Len(x.wire \o msgs) = n + K
      /\ \A k \in 1 .. n + K : (x.wire \o msgs)[k] = IF k <= n THEN x.wire[k] ELSE msgs[k - n]
    BY <1>1, ConcatProperties
<1>3. Saved(x.stored, type, ids, rev) \in [Ids -> 0 .. MaxRevs]
  <2> SUFFICES ASSUME NEW id \in Ids
               PROVE  (IF id \notin ids THEN x.stored[id] ELSE IF type = "removed" THEN 0 ELSE rev)
                          \in 0 .. MaxRevs
      BY DEF Saved
  <2>1. x.stored[id] \in 0 .. MaxRevs /\ (ids # {} => rev \in 1 .. MaxRevs)
      BY <1>1 DEF Serves, Serviceable
  <2> QED
      BY <2>1, RevsBelowLocal
<1>4. y = [x EXCEPT !.stored = Saved(@, type, ids, rev), !.wire = @ \o msgs, !.asked = @ \ {m}]
    BY DEF Serves, Handles
<1>5. /\ y \in Worlds /\ y.wire = x.wire \o msgs /\ y.writes = x.writes /\ y.queue = x.queue
      /\ y.cache = x.cache /\ y.applied = x.applied /\ y.asked = x.asked \ {m}
      /\ y.stored = Saved(x.stored, type, ids, rev)
    BY <1>1, <1>2, <1>3, <1>4 DEF Worlds
<1>6. \A id \in Ids :
          y.stored[id] = IF id \notin ids THEN x.stored[id] ELSE IF type = "removed" THEN 0 ELSE rev
    BY <1>5 DEF Saved
<1>7. ASSUME NEW j \in 1 .. n
      PROVE  y.wire[j] = x.wire[j] /\ Coming(y, j) = Coming(x, j) /\ j \in 1 .. n + K
  <2>1. j \in 1 .. n + K /\ j <= n
      BY <1>1
  <2>2. y.wire[j] = x.wire[j]
      BY <1>2, <1>5, <2>1
  <2> QED
      BY <1>5, <2>1, <2>2 DEF Coming
<1>8. ASSUME NEW k \in 1 .. K PROVE y.wire[n + k] = msgs[k] /\ n + k \in 1 .. n + K
  <2>1. n + k \in 1 .. n + K /\ ~ (n + k <= n) /\ (n + k) - n = k
      BY <1>1
  <2> QED
      BY <1>2, <1>5, <2>1
<1>9. \A j \in 1 .. n + K : j \in 1 .. n \/ (n < j /\ j - n \in 1 .. K /\ y.wire[j] = msgs[j - n])
    BY <1>1, <1>2, <1>5
<1>10. \A id : Known(x, id) <=> Known(y, id)
    BY <1>5 DEF Known
<1>11. \A e, f : Before(x, e, f) <=> Before(y, e, f)
    BY <1>10 DEF Before
<1>12. Len(y.wire) = n + K
    BY <1>2, <1>5
<1> QED
    BY <1>5, <1>6, <1>7, <1>8, <1>9, <1>10, <1>11, <1>12 DEF Served

\* What comes with the write: its events, of the records it changed.
LEMMA ServeTells ==
    ASSUME NEW x, Holds(x, 0), NEW y, NEW m, NEW type, NEW ids, NEW rev, NEW msgs,
           Serves(x, y, m, type, ids, rev, msgs)
    PROVE  /\ \A k \in 1 .. Len(msgs) : \A e \in Coming(y, Len(x.wire) + k) : IsTold(type, ids, rev, e)
           /\ \A id \in ids : \E k \in 1 .. Len(msgs) :
                 [type |-> type, id |-> id, rev |-> rev] \in Coming(y, Len(x.wire) + k)
<1> DEFINE n == Len(x.wire)
<1>1. Served(x, y, m, type, ids, rev, msgs)
    BY ServeDoes DEF Holds
<1>2. /\ y.writes = x.writes /\ \A k \in 1 .. Len(msgs) : y.wire[n + k] = msgs[k]
    BY <1>1 DEF Served
<1>3. /\ \A k \in 1 .. Len(msgs) : Tells(x, m, type, ids, rev, msgs[k])
      /\ ids # {} => \E k \in 1 .. Len(msgs) : msgs[k].kind = "events"
    BY DEF Serves, Reports
<1>4. ASSUME NEW k \in 1 .. Len(msgs), NEW e \in Coming(y, n + k) PROVE IsTold(type, ids, rev, e)
  <2> DEFINE msg == msgs[k]
  <2>1. e \in Carried(x.writes, msg)
      BY <1>2 DEF Coming
  <2>2. CASE msg \in News
    <3>1. msg.kind = "events" /\ msg \notin Answer
        BY <2>2 DEF News, Answer
    <3>2. PICK l \in 1 .. Len(msg.list) : e = msg.list[l]
        BY <2>1, <3>1 DEF Carried
    <3> QED
        BY <1>3, <3>1, <3>2 DEF Tells, IsTold
  <2>3. CASE msg \notin News
    <3>1. msg \in Answer /\ Tells(x, m, type, ids, rev, msg)
        BY <1>3, <2>3 DEF Tells
    <3>2. msg.kind # "events" /\ msg.call = m
        BY <2>3, <3>1 DEF Answer, Tells
    <3>3. msg.ok /\ e.type = EventType(x.writes[m].method) /\ e.id \in msg.ids /\ e.rev = msg.rev
        BY <2>1, <3>2 DEF Carried
    <3>4. type = EventType(x.writes[m].method) /\ msg.ids = ids /\ (ids # {} => msg.rev = rev)
        BY <2>3, <3>1, <3>3 DEF Tells
    <3> QED
        BY <3>3, <3>4 DEF IsTold
  <2> QED
      BY <2>2, <2>3
<1>5. ASSUME NEW id \in ids
      PROVE  \E k \in 1 .. Len(msgs) : [type |-> type, id |-> id, rev |-> rev] \in Coming(y, n + k)
  <2>1. PICK k \in 1 .. Len(msgs) : msgs[k].kind = "events"
      BY <1>3
  <2>2. msgs[k] \notin Answer
      BY <2>1 DEF Answer
  <2>3. PICK l \in 1 .. Len(msgs[k].list) : msgs[k].list[l] = [type |-> type, id |-> id, rev |-> rev]
      BY <1>3, <2>2 DEF Tells
  <2>4. [type |-> type, id |-> id, rev |-> rev] \in Carried(y.writes, msgs[k])
      BY <2>1, <2>3 DEF Carried
  <2> QED
      BY <1>2, <2>4 DEF Coming
<1> QED
    BY <1>4, <1>5

\* What is under way of the records that are written: nothing that is created, or of
\* what is created nothing; and no removal.
LEMMA Unprecedented ==
    ASSUME NEW x, Holds(x, 0), NEW m, NEW type, NEW ids, NEW rev, Serviceable(x, m, type, ids, rev),
           NEW e \in Event, UnderWay(x, e), e.id \in ids
    PROVE  type # "created" /\ e.type # "removed" /\ x.stored[e.id] # 0 /\ e.rev <= x.stored[e.id]
<1>1. StoredArrives(x) /\ UnbornAreNew(x) /\ AnswersFit(x) /\ e.id \in Ids
    BY DEF Holds, Serviceable
<1>2. CASE type = "created"
  <2>1. m \in x.asked /\ m \in 1 .. Len(x.writes) /\ Unborn(x, m) /\ e.id \in x.writes[m].ids
      BY <1>1, <1>2 DEF Serviceable, AnswersFit, Unborn
  <2> QED
      BY <1>1, <2>1 DEF UnbornAreNew
<1>3. CASE type # "created"
  <2>1. x.stored[e.id] # 0
      BY <1>3 DEF Serviceable
  <2> QED
      BY <1>1, <1>3, <2>1 DEF StoredArrives
<1> QED
    BY <1>2, <1>3

\* What is under way after a write: what was, and its events, in order.
LEMMA ServeUnderWay ==
    ASSUME NEW x, Holds(x, 0), x.applied = 0, NEW y, NEW m, NEW type, NEW ids, NEW rev, NEW msgs,
           Serves(x, y, m, type, ids, rev, msgs)
    PROVE  /\ Ordered(y) /\ Single(y)
           /\ \A e : UnderWay(x, e) => UnderWay(y, e)
           /\ \A e : UnderWay(y, e) => UnderWay(x, e) \/ IsTold(type, ids, rev, e)
           /\ \A id \in ids : UnderWay(y, [type |-> type, id |-> id, rev |-> rev])
<1> DEFINE n == Len(x.wire)
           K == Len(msgs)
<1>1. Served(x, y, m, type, ids, rev, msgs)
    BY ServeDoes DEF Holds
<1>2. /\ y \in Worlds /\ y.queue = x.queue /\ Waiting(y) = Waiting(x) /\ Len(y.wire) = n + K
      /\ \A j \in 1 .. n : y.wire[j] = x.wire[j] /\ Coming(y, j) = Coming(x, j) /\ j \in 1 .. n + K
      /\ \A k \in 1 .. K : y.wire[n + k] = msgs[k] /\ n + k \in 1 .. n + K
      /\ \A j \in 1 .. n + K : j \in 1 .. n
            \/ (n < j /\ j - n \in 1 .. K /\ y.wire[j] = msgs[j - n])
      /\ \A e, f : Before(x, e, f) <=> Before(y, e, f)
      /\ \A id : Known(x, id) <=> Known(y, id)
    BY <1>1 DEF Served, Waiting
<1>3. n \in Nat /\ K \in Nat /\ Len(x.queue) \in Nat /\ x \in Worlds /\ K \in 1 .. 2
      /\ \A q \in Waiting(x) : x.queue[q] \in Event /\ UnderWay(x, x.queue[q])
  <2>1. x \in Worlds /\ msgs \in Seq(Answer \cup News) /\ K \in 1 .. 2
      BY DEF Holds, Serves, Reports
  <2>2. \A q \in Waiting(x) : q \in 1 .. Len(x.queue)
      BY <2>1, WorldTypes, x.applied = 0 DEF Waiting
  <2> QED
      BY <2>1, <2>2, WorldTypes DEF UnderWay
<1>4. Ordered(x) /\ Single(x) /\ AnswersFit(x) /\ Serviceable(x, m, type, ids, rev)
    BY DEF Holds, Serves
<1>5. \A j \in 1 .. n : \A e \in Coming(x, j) : e \in Event /\ UnderWay(x, e)
    BY <1>3, <1>4, ComingTypes DEF UnderWay
<1>6. /\ \A k \in 1 .. K : \A e \in Coming(y, n + k) : IsTold(type, ids, rev, e)
      /\ \A id \in ids : \E k \in 1 .. K :
            [type |-> type, id |-> id, rev |-> rev] \in Coming(y, n + k)
    BY ServeTells
<1>7. \A j \in 1 .. n + K : j \in 1 .. n \/ \A e \in Coming(y, j) : IsTold(type, ids, rev, e)
  <2> SUFFICES ASSUME NEW j \in 1 .. n + K, j \notin 1 .. n, NEW e \in Coming(y, j)
               PROVE  IsTold(type, ids, rev, e)
      OBVIOUS
  <2>1. j - n \in 1 .. K /\ n + (j - n) = j
      BY <1>2, <1>3
  <2> QED
      BY <1>6, <2>1
<1> HIDE DEF n, K
\* Nothing that was under way is disturbed by what comes after it.
<1>8. ASSUME NEW e \in Event, UnderWay(x, e), NEW f, IsTold(type, ids, rev, f) PROVE Before(y, e, f)
  <2> SUFFICES ASSUME e.id = f.id PROVE f.type # "created" /\ e.type # "removed"
      BY DEF Before
  <2>1. e.id \in ids /\ f.type = type
      BY <1>8 DEF IsTold
  <2> QED
      BY <1>4, <1>8, <2>1, Unprecedented
<1>9. ASSUME NEW i \in Waiting(y), NEW j \in 1 .. n + K, NEW f \in Coming(y, j)
      PROVE  Before(y, y.queue[i], f)
  <2>1. CASE j \in 1 .. n
      BY <1>2, <1>4, <2>1 DEF Ordered, n
  <2>2. CASE j \notin 1 .. n
    <3>1. IsTold(type, ids, rev, f)
        BY <1>7, <2>2
    <3> QED
        BY <1>2, <1>3, <1>8, <3>1
  <2> QED
      BY <2>1, <2>2
<1>10. ASSUME NEW i \in 1 .. n + K, NEW j \in 1 .. n + K, i < j, NEW e \in Coming(y, i), NEW f \in Coming(y, j)
       PROVE  Before(y, e, f)
  <2>1. CASE j \in 1 .. n
    <3>1. i \in 1 .. n
        BY <1>3, <1>10, <2>1
    <3>2. e \in Coming(x, i) /\ f \in Coming(x, j)
        BY <1>2, <2>1, <3>1
    <3>3. Before(x, e, f)
        BY <1>4, <1>10, <2>1, <3>1, <3>2 DEF Ordered, n
    <3> QED
        BY <1>2, <3>3
  <2>2. CASE j \notin 1 .. n /\ i \in 1 .. n
    <3>1. IsTold(type, ids, rev, f) /\ e \in Coming(x, i)
        BY <1>2, <1>7, <2>2
    <3> QED
        BY <1>5, <1>8, <2>2, <3>1
  <2>3. CASE j \notin 1 .. n /\ i \notin 1 .. n
    <3>1. IsTold(type, ids, rev, f) /\ IsTold(type, ids, rev, e)
        BY <1>7, <2>3
    <3>2. m # 0
      <4> SUFFICES ASSUME m = 0 PROVE FALSE
          OBVIOUS
      <4>1. K = 1
          BY DEF Serves, Reports, K
      <4> QED
          BY <1>3, <1>10, <2>3, <4>1
    <3>3. type = "removed" => ids \subseteq x.writes[m].ids /\ m \in 1 .. Len(x.writes)
        BY <1>4, <3>2 DEF Serviceable, AnswersFit
    <3>4. type = "removed" => Known(y, e.id)
        BY <1>2, <3>1, <3>3 DEF Known, IsTold
    <3> QED
        BY <3>1, <3>4 DEF Before, IsTold
  <2> QED
      BY <2>1, <2>2, <2>3
<1>11. Ordered(y)
  <2>1. \A i, j \in Waiting(y) : i < j => Before(y, y.queue[i], y.queue[j])
      BY <1>2, <1>4 DEF Ordered
  <2> QED
      BY <1>2, <1>9, <1>10, <2>1 DEF Ordered
<1>12. Single(y)
  <2> SUFFICES ASSUME NEW j \in 1 .. n + K, y.wire[j].kind = "events",
                      NEW k \in 1 .. Len(y.wire[j].list), NEW l \in 1 .. Len(y.wire[j].list), k < l
               PROVE  y.wire[j].list[k].id # y.wire[j].list[l].id
      BY <1>2 DEF Single
  <2>1. CASE j \in 1 .. n
      BY <1>2, <1>4, <2>1 DEF Single, n
  <2>2. CASE j \notin 1 .. n
    <3>1. j - n \in 1 .. K /\ y.wire[j] = msgs[j - n]
        BY <1>2, <2>2
    <3>2. Tells(x, m, type, ids, rev, y.wire[j]) /\ y.wire[j] \notin Answer
        BY <3>1 DEF Serves, Reports, K, Answer
    <3> QED
        BY <3>2 DEF Tells
  <2> QED
      BY <2>1, <2>2
<1>13. \A e : UnderWay(x, e) => UnderWay(y, e)
    BY <1>2 DEF UnderWay, n
<1>14. \A e : UnderWay(y, e) => UnderWay(x, e) \/ IsTold(type, ids, rev, e)
    BY <1>2, <1>7 DEF UnderWay, n
<1>15. \A id \in ids : UnderWay(y, [type |-> type, id |-> id, rev |-> rev])
    BY <1>2, <1>6 DEF UnderWay
<1> QED
    BY <1>11, <1>12, <1>13, <1>14, <1>15

\* Requests and answers fit when a request is handled.
LEMMA ServeFits ==
    ASSUME NEW x, Holds(x, 0), NEW y, NEW m, NEW type, NEW ids, NEW rev, NEW msgs,
           Serves(x, y, m, type, ids, rev, msgs)
    PROVE  AnswersFit(y)
<1> DEFINE n == Len(x.wire)
           K == Len(msgs)
<1>1. Served(x, y, m, type, ids, rev, msgs)
    BY ServeDoes DEF Holds
<1>2. /\ y.writes = x.writes /\ y.asked = x.asked \ {m} /\ Len(y.wire) = n + K
      /\ \A j \in 1 .. n : y.wire[j] = x.wire[j] /\ j \in 1 .. n + K
      /\ \A k \in 1 .. K : y.wire[n + k] = msgs[k] /\ n + k \in 1 .. n + K
      /\ \A j \in 1 .. n + K : j \in 1 .. n
            \/ (n < j /\ j - n \in 1 .. K /\ y.wire[j] = msgs[j - n])
    BY <1>1 DEF Served
<1>3. AnswersFit(x) /\ n \in Nat /\ K \in Nat /\ x.asked \in SUBSET Nat /\ Len(x.writes) \in Nat
      /\ m \in x.asked \cup {0}
    BY WorldTypes, LenProperties DEF Holds, Serves, Reports, Serviceable
<1>4. /\ \A k \in 1 .. K : Tells(x, m, type, ids, rev, msgs[k])
      /\ m # 0 => \E k \in 1 .. K :
            msgs[k].kind = "answer" /\ \A l \in 1 .. K : l # k => msgs[l].kind # "answer"
    BY DEF Serves, Reports
<1>5. \A k \in 1 .. K : msgs[k].kind = "answer" =>
          /\ m # 0 /\ msgs[k].call = m
          /\ x.writes[m].method # "patchAll" => msgs[k].ids = x.writes[m].ids
          /\ msgs[k].ok => msgs[k].rev \in 1 .. MaxRevs
    BY <1>4 DEF Tells, News
<1>6. m # 0 => /\ m \in 1 .. Len(x.writes) /\ x.writes[m].phase = "sent"
               /\ \A j \in 1 .. n : ~ AnswerOf(x, j, m)
    BY <1>3 DEF AnswersFit
<1> HIDE DEF n, K
<1>7. \A j \in 1 .. n, w \in Nat : AnswerOf(y, j, w) <=> AnswerOf(x, j, w)
    BY <1>2 DEF AnswerOf
<1>8. ASSUME NEW j \in 1 .. n + K, j \notin 1 .. n, NEW w \in Nat, AnswerOf(y, j, w)
      PROVE  /\ m # 0 /\ w = m /\ j - n \in 1 .. K /\ y.wire[j] = msgs[j - n]
             /\ msgs[j - n].kind = "answer"
  <2>1. j - n \in 1 .. K /\ y.wire[j] = msgs[j - n]
      BY <1>2, <1>8
  <2>2. msgs[j - n].kind = "answer" /\ msgs[j - n].call = w
      BY <1>8, <2>1 DEF AnswerOf
  <2> QED
      BY <1>5, <2>1, <2>2
<1>9. ASSUME NEW w \in y.asked
      PROVE  /\ w \in 1 .. Len(y.writes) /\ y.writes[w].phase = "sent"
             /\ \A j \in 1 .. Len(y.wire) : ~ AnswerOf(y, j, w)
  <2>1. w \in x.asked /\ w # m /\ w \in Nat
      BY <1>2, <1>3
  <2>2. /\ w \in 1 .. Len(x.writes) /\ x.writes[w].phase = "sent"
        /\ \A j \in 1 .. n : ~ AnswerOf(x, j, w)
      BY <1>3, <2>1 DEF AnswersFit, n
  <2> QED
      BY <1>2, <1>7, <1>8, <2>1, <2>2
<1>10. ASSUME NEW j \in 1 .. Len(y.wire), NEW w \in Nat, AnswerOf(y, j, w)
       PROVE  /\ w \in 1 .. Len(y.writes) /\ y.writes[w].phase = "sent"
              /\ \A k \in 1 .. Len(y.wire) : k # j => ~ AnswerOf(y, k, w)
              /\ y.writes[w].method # "patchAll" => y.wire[j].ids = y.writes[w].ids
              /\ y.wire[j].ok => y.wire[j].rev \in 1 .. MaxRevs
  <2>1. CASE j \in 1 .. n
    <3>1. AnswerOf(x, j, w) /\ y.wire[j] = x.wire[j]
        BY <1>2, <1>7, <1>10, <2>1
    <3>2. /\ w \in 1 .. Len(x.writes) /\ x.writes[w].phase = "sent"
          /\ \A k \in 1 .. n : k # j => ~ AnswerOf(x, k, w)
          /\ x.writes[w].method # "patchAll" => x.wire[j].ids = x.writes[w].ids
          /\ x.wire[j].ok => x.wire[j].rev \in 1 .. MaxRevs
        BY <1>3, <2>1, <3>1 DEF AnswersFit, n
    <3>3. m # 0 => w # m
        BY <1>6, <2>1, <3>1
    <3>4. \A k \in 1 .. n + K : k # j => ~ AnswerOf(y, k, w)
        BY <1>7, <1>8, <3>2, <3>3
    <3> QED
        BY <1>2, <3>1, <3>2, <3>4
  <2>2. CASE j \notin 1 .. n
    <3>1. /\ m # 0 /\ w = m /\ j - n \in 1 .. K /\ y.wire[j] = msgs[j - n]
          /\ msgs[j - n].kind = "answer"
        BY <1>2, <1>8, <1>10, <2>2
    <3>2. ASSUME NEW k \in 1 .. n + K, k # j PROVE ~ AnswerOf(y, k, w)
      <4> SUFFICES ASSUME AnswerOf(y, k, w) PROVE FALSE
          OBVIOUS
      <4>1. CASE k \in 1 .. n
          BY <1>6, <1>7, <3>1, <4>1
      <4>2. CASE k \notin 1 .. n
        <5>1. k - n \in 1 .. K /\ msgs[k - n].kind = "answer"
            BY <1>8, <4>2
        <5>2. k - n # j - n
            BY <1>3, <3>2
        <5> QED
            BY <1>4, <3>1, <5>1, <5>2
      <4> QED
          BY <4>1, <4>2
    <3> QED
        BY <1>2, <1>5, <1>6, <3>1, <3>2
  <2> QED
      BY <2>1, <2>2
<1>11. ASSUME NEW w \in 1 .. Len(y.writes), y.writes[w].phase = "sent"
       PROVE  w \in y.asked \/ \E j \in 1 .. Len(y.wire) : AnswerOf(y, j, w)
  <2>1. CASE w = m /\ m # 0
    <3>1. PICK k \in 1 .. K : msgs[k].kind = "answer"
        BY <1>4, <2>1
    <3>2. AnswerOf(y, n + k, w) /\ n + k \in 1 .. Len(y.wire)
        BY <1>2, <1>5, <2>1, <3>1 DEF AnswerOf
    <3> QED
        BY <3>2
  <2>2. CASE w # m
    <3>1. w \in x.asked \/ \E j \in 1 .. n : AnswerOf(x, j, w)
        BY <1>2, <1>3, <1>11 DEF AnswersFit, n
    <3>2. w \in Nat
        BY <1>2, <1>3
    <3> QED
        BY <1>2, <1>7, <2>2, <3>1, <3>2
  <2> QED
      BY <1>2, <1>3, <2>1, <2>2
<1> QED
    BY <1>9, <1>10, <1>11 DEF AnswersFit

\* The server executes or refuses a write.
LEMMA ServeHolds ==
    ASSUME NEW x, Holds(x, 0), x.applied = 0, NEW y, NEW m, NEW type, NEW ids, NEW rev, NEW msgs,
           Serves(x, y, m, type, ids, rev, msgs)
    PROVE  Holds(y, 0)
<1>1. /\ x \in Worlds /\ AnswersFit(x) /\ WritesFit(x) /\ UnbornAreNew(x) /\ Stamped(x)
      /\ CreatedFirst(x) /\ StoredArrives(x) /\ RemovedArrives(x) /\ StrangersRest(x)
      /\ DoneIsShown(x, 0) /\ LocalIsSent(x, 0)
    BY DEF Holds
<1>2. /\ y \in Worlds /\ y.cache = x.cache /\ y.applied = x.applied /\ y.queue = x.queue
      /\ y.asked = x.asked \ {m} /\ y.writes = x.writes /\ Waiting(y) = Waiting(x)
      /\ \A id \in Ids :
            y.stored[id] = IF id \notin ids THEN x.stored[id] ELSE IF type = "removed" THEN 0 ELSE rev
      /\ \A id : Known(x, id) <=> Known(y, id)
  <2>1. Served(x, y, m, type, ids, rev, msgs)
      BY <1>1, ServeDoes
  <2> QED
      BY <2>1 DEF Served, Waiting
<1>3. /\ Ordered(y) /\ Single(y)
      /\ \A e : UnderWay(x, e) => UnderWay(y, e)
      /\ \A e : UnderWay(y, e) => UnderWay(x, e) \/ IsTold(type, ids, rev, e)
      /\ \A id \in ids : UnderWay(y, [type |-> type, id |-> id, rev |-> rev])
    BY ServeUnderWay
<1>4. AnswersFit(y)
    BY ServeFits
<1>5. WritesFit(y)
    BY <1>1, <1>2 DEF WritesFit
<1>6. /\ m \in x.asked \cup {0} /\ type \in EventTypes /\ ids \subseteq Ids
      /\ ids # {} => rev \in 1 .. MaxRevs /\ \A id \in Ids : x.stored[id] < rev
      /\ type # "created" => \A id \in ids : x.stored[id] # 0
      /\ type = "created" => \A id \in ids : x.stored[id] = 0
    BY DEF Serves, Serviceable
\* What is created is new.
<1>7. ASSUME type = "created", NEW id \in ids
      PROVE  /\ m \in 1 .. Len(x.writes) /\ id \in x.writes[m].ids /\ Known(x, id)
             /\ x.writes[m].phase = "sent"
             /\ x.cache[id] \in {Absent, Local} /\ \A e \in Event : UnderWay(x, e) => e.id # id
             /\ \A w \in 1 .. Len(x.writes) : w # m => id \notin x.writes[w].ids
  <2>1. m \in x.asked /\ x.writes[m].method \in {"create", "createMany"} /\ id \in x.writes[m].ids
      BY <1>7 DEF Serves, Serviceable
  <2>2. m \in 1 .. Len(x.writes) /\ x.writes[m].phase = "sent" /\ Unborn(x, m)
      BY <1>1, <2>1 DEF AnswersFit, Unborn
  <2> QED
      BY <1>1, <2>1, <2>2 DEF UnbornAreNew, Known
<1>8. \A id \in ids : [type |-> type, id |-> id, rev |-> rev] \in Event
    BY <1>6, RevsBelowLocal DEF Event
<1>9. \A e \in Event : IsTold(type, ids, rev, e) => e.id \in ids /\ e.type = type /\ e.rev = rev
    BY DEF IsTold
<1>10. Stamped(y)
  <2> SUFFICES ASSUME NEW e \in Event, UnderWay(y, e), e.type # "removed" PROVE e.rev # 0
      BY DEF Stamped
  <2> QED
      BY <1>1, <1>3, <1>6, <1>9 DEF Stamped
<1>11. CreatedFirst(y)
  <2> SUFFICES ASSUME NEW e \in Event, UnderWay(y, e), e.type = "created"
               PROVE  x.cache[e.id] \in {Absent, Local, e.rev}
      BY <1>2 DEF CreatedFirst
  <2> QED
      BY <1>1, <1>3, <1>7, <1>9 DEF CreatedFirst
<1>12. StoredArrives(y)
  <2> SUFFICES ASSUME NEW id \in Ids, y.stored[id] # 0
               PROVE  /\ \A e \in Event : UnderWay(y, e) /\ e.id = id =>
                            e.type # "removed" /\ e.rev <= y.stored[id]
                      /\ x.cache[id] \in {Absent, Local} \/ x.cache[id] <= y.stored[id]
                      /\ \/ x.cache[id] = y.stored[id]
                         \/ \E e \in Event : UnderWay(y, e) /\ e.id = id /\ e.rev = y.stored[id]
      BY <1>2 DEF StoredArrives
  <2>1. CASE id \notin ids
    <3>1. y.stored[id] = x.stored[id]
        BY <1>2, <2>1
    <3>2. \A e \in Event : UnderWay(y, e) /\ e.id = id => UnderWay(x, e)
        BY <1>3, <1>9, <2>1
    <3> QED
        BY <1>1, <1>3, <3>1, <3>2 DEF StoredArrives
  <2>2. CASE id \in ids
    <3>1. type # "removed" /\ y.stored[id] = rev /\ rev \in 1 .. MaxRevs /\ x.stored[id] < rev
        BY <1>2, <1>6, <2>2
    <3>2. ASSUME NEW e \in Event, UnderWay(y, e), e.id = id
          PROVE  e.type # "removed" /\ e.rev <= rev
      <4>1. CASE UnderWay(x, e)
        <5>1. e.type # "removed" /\ e.rev <= x.stored[id]
            BY <2>2, <3>2, <4>1, Unprecedented DEF Serves
        <5>2. e.rev \in Nat /\ x.stored[id] \in Nat
            BY <1>1, WorldTypes, RevsBelowLocal DEF Event
        <5> QED
            BY <3>1, <5>1, <5>2
      <4>2. CASE IsTold(type, ids, rev, e)
          BY <1>9, <3>1, <4>2
      <4> QED
          BY <1>3, <3>2, <4>1, <4>2
    <3>3. x.cache[id] \in {Absent, Local} \/ x.cache[id] <= rev
      <4>1. CASE type = "created"
          BY <1>7, <2>2, <4>1
      <4>2. CASE type # "created"
        <5>1. x.cache[id] \in {Absent, Local} \/ x.cache[id] <= x.stored[id]
            BY <1>1, <1>6, <2>2, <4>2 DEF StoredArrives
        <5>2. x.cache[id] \in Nat /\ x.stored[id] \in Nat
            BY <1>1, WorldTypes, RevsBelowLocal
        <5> QED
            BY <3>1, <5>1, <5>2
      <4> QED
          BY <4>1, <4>2
    <3> DEFINE e == [type |-> type, id |-> id, rev |-> rev]
    <3>4. e \in Event /\ UnderWay(y, e) /\ e.id = id /\ e.rev = y.stored[id]
        BY <1>3, <1>8, <2>2, <3>1
    <3> QED
        BY <3>1, <3>2, <3>3, <3>4
  <2> QED
      BY <2>1, <2>2
<1>13. RemovedArrives(y)
  <2> SUFFICES ASSUME NEW id \in Ids, y.stored[id] = 0
               PROVE  \/ \E e \in Event : UnderWay(y, e) /\ e.id = id /\ e.type = "removed"
                      \/ /\ \A e \in Event : UnderWay(y, e) => e.id # id
                         /\ x.cache[id] \in {Absent, Local}
      BY <1>2 DEF RemovedArrives
  <2>1. CASE id \notin ids
      BY <1>1, <1>2, <1>3, <1>9, <2>1 DEF RemovedArrives
  <2>2. CASE id \in ids
    <3>1. type = "removed"
        BY <1>2, <1>6, <2>2
    <3> DEFINE e == [type |-> type, id |-> id, rev |-> rev]
    <3>2. e \in Event /\ UnderWay(y, e) /\ e.id = id /\ e.type = "removed"
        BY <1>3, <1>8, <2>2, <3>1
    <3> QED
        BY <3>2
  <2> QED
      BY <2>1, <2>2
<1>14. StrangersRest(y)
  <2> SUFFICES ASSUME NEW id \in Ids, ~ Known(x, id), x.cache[id] = Absent
               PROVE  y.stored[id] = 0 /\ \A e \in Event : UnderWay(y, e) => e.id # id
      BY <1>2 DEF StrangersRest
  <2>1. x.stored[id] = 0 /\ \A e \in Event : UnderWay(x, e) => e.id # id
      BY <1>1 DEF StrangersRest
  <2>2. id \notin ids
      BY <1>6, <1>7, <2>1
  <2> QED
      BY <1>2, <1>3, <1>9, <2>1, <2>2
<1>15. DoneIsShown(y, 0)
  <2> SUFFICES ASSUME NEW w \in 1 .. Len(x.writes), x.writes[w].phase = "done",
                      x.writes[w].method # "call", NEW id \in x.writes[w].ids
               PROVE  \/ Gone(y, id)
                      \/ x.writes[w].method # "remove" /\ x.cache[id] \in x.writes[w].rev .. Local - 1
      BY <1>2 DEF DoneIsShown
  <2>1. \/ Gone(x, id)
        \/ x.writes[w].method # "remove" /\ x.cache[id] \in x.writes[w].rev .. Local - 1
      BY <1>1 DEF DoneIsShown
  <2>2. id \in Ids
    <3>1. x.writes[w] \in Write
        BY <1>1, WorldTypes
    <3> QED
        BY <3>1 DEF Write
  <2>3. Gone(x, id) => id \notin ids
    <3> SUFFICES ASSUME x.stored[id] = 0, id \in ids PROVE FALSE
        BY DEF Gone
    <3>1. type = "created"
        BY <1>6
    <3>2. w = m /\ x.writes[m].phase = "sent"
        BY <1>7, <3>1
    <3> QED
        BY <3>2
  <2> QED
      BY <1>2, <1>3, <1>9, <2>1, <2>2, <2>3 DEF Gone
<1>16. LocalIsSent(y, 0)
    BY <1>1, <1>2 DEF LocalIsSent
<1>17. UnbornAreNew(y)
  <2> SUFFICES ASSUME NEW w \in 1 .. Len(x.writes), Unborn(y, w), NEW id \in x.writes[w].ids
               PROVE  /\ y.stored[id] = 0 /\ x.cache[id] \in {Absent, Local}
                      /\ \A e \in Event : UnderWay(y, e) => e.id # id
                      /\ \A n \in 1 .. Len(x.writes) : n # w => id \notin x.writes[n].ids
      BY <1>2 DEF UnbornAreNew
  <2>1. id \in Ids
    <3>1. x.writes[w] \in Write
        BY <1>1, WorldTypes
    <3> QED
        BY <3>1 DEF Write
  <2>2. Unborn(x, w) /\ id \notin ids
    <3>1. CASE w \in y.asked
      <4>1. w \in x.asked /\ w # m /\ x.writes[w].method \in {"create", "createMany"}
          BY <1>2, <3>1 DEF Unborn
      <4>2. Unborn(x, w)
          BY <4>1 DEF Unborn
      <4> QED
          BY <1>1, <1>6, <1>7, <2>1, <4>1, <4>2 DEF UnbornAreNew
    <3>2. CASE w \notin y.asked
      <4>1. PICK j \in 1 .. Len(y.wire) : AnswerOf(y, j, w) /\ ~ y.wire[j].ok
          BY <3>2 DEF Unborn
      <4>2. x.writes[w].method = "createMany"
          BY <1>2, <3>2 DEF Unborn
      <4>3. CASE j \in 1 .. Len(x.wire)
        <5>1. AnswerOf(x, j, w) /\ ~ x.wire[j].ok
          <6>1. Served(x, y, m, type, ids, rev, msgs)
              BY <1>1, ServeDoes
          <6>2. y.wire[j] = x.wire[j]
              BY <4>3, <6>1 DEF Served
          <6> QED
              BY <4>1, <6>2 DEF AnswerOf
        <5>2. Unborn(x, w)
            BY <4>2, <4>3, <5>1 DEF Unborn
        <5>3. w # m
            BY <1>1, <1>6, <4>3, <5>1 DEF AnswersFit
        <5> QED
            BY <1>1, <1>6, <1>7, <2>1, <5>2, <5>3 DEF UnbornAreNew
      <4>4. CASE j \notin 1 .. Len(x.wire)
        <5>1. PICK k \in 1 .. Len(msgs) : y.wire[j] = msgs[k]
          <6>1. Served(x, y, m, type, ids, rev, msgs)
              BY <1>1, ServeDoes
          <6> QED
              BY <4>4, <6>1 DEF Served
        <5>2. msgs[k].kind = "answer" /\ msgs[k].call = w /\ ~ msgs[k].ok
            BY <4>1, <5>1 DEF AnswerOf
        <5>3. Tells(x, m, type, ids, rev, msgs[k])
            BY DEF Serves, Reports
        <5>4. w = m /\ m # 0 /\ ids = {}
            BY <4>2, <5>2, <5>3 DEF Tells, News
        <5> QED
            BY <1>2, <1>6, <4>2, <5>4 DEF Unborn
      <4> QED
          BY <4>3, <4>4
    <3> QED
        BY <3>1, <3>2
  <2>3. /\ x.stored[id] = 0 /\ x.cache[id] \in {Absent, Local}
        /\ \A e \in Event : UnderWay(x, e) => e.id # id
        /\ \A n \in 1 .. Len(x.writes) : n # w => id \notin x.writes[n].ids
      BY <1>1, <2>1, <2>2 DEF UnbornAreNew
  <2> QED
      BY <1>2, <1>3, <1>9, <2>1, <2>2, <2>3
<1> QED
    BY <1>2, <1>3, <1>4, <1>5, <1>10, <1>11, <1>12, <1>13, <1>14, <1>15, <1>16, <1>17 DEF Holds

-----------------------------------------------------------------------------
(* A write is called.                                                      *)

\* The write goes out; the rows of a batch create are shown.
Sends(x, y, rows, call) ==
    y = [x EXCEPT !.cache = rows, !.writes = Append(@, call), !.asked = @ \cup {Len(x.writes) + 1}]

Calls(x, y, call) ==
    /\ call \in Write /\ call.phase = "sent"
    /\ call.door = "handle" <=> call.method \in Unnamed
    /\ call.method \in {"patchAll", "call"} => call.ids = {}
    /\ call.method \in {"create", "createMany"} =>
          \A id \in call.ids : x.stored[id] = 0 /\ x.cache[id] = Absent /\ ~ Known(x, id)
    /\ call.method \in {"patch", "remove"} => \A id \in call.ids : x.cache[id] \notin {Absent, Local}
    /\ \E rows \in Rows :
          /\ \A id \in Ids :
                rows[id] = IF call.method = "createMany" /\ id \in call.ids THEN Local ELSE x.cache[id]
          /\ Sends(x, y, rows, call)

\* A call begins: the order and bookkeeping of events under way survive an optimistic row and
\* a new request.
LEMMA CallHolds ==
    ASSUME NEW x, Holds(x, 0), x.applied = 0, NEW y, NEW call, Calls(x, y, call)
    PROVE  Holds(y, 0)
<1> DEFINE N == Len(x.writes)
<1>1. /\ x \in Worlds /\ AnswersFit(x) /\ WritesFit(x) /\ UnbornAreNew(x) /\ Stamped(x)
      /\ CreatedFirst(x) /\ StoredArrives(x) /\ RemovedArrives(x) /\ StrangersRest(x)
      /\ DoneIsShown(x, 0) /\ LocalIsSent(x, 0) /\ Ordered(x) /\ Single(x)
    BY DEF Holds
<1>2. /\ N \in Nat /\ x.writes \in Seq(Write) /\ x.asked \in SUBSET Nat /\ x.cache \in Rows
      /\ \A w \in 1 .. N : x.writes[w] \in Write
      /\ \A j \in 1 .. Len(x.wire) : x.wire[j] \in Answer \cup News
    BY <1>1, WorldTypes DEF Worlds
<1>3. PICK rows \in Rows :
          /\ \A id \in Ids :
                rows[id] = IF call.method = "createMany" /\ id \in call.ids THEN Local ELSE x.cache[id]
          /\ y = [x EXCEPT !.cache = rows, !.writes = Append(@, call), !.asked = @ \cup {N + 1}]
    BY DEF Calls, Sends
<1>4. /\ call \in Write /\ call.phase = "sent" /\ call.ids \subseteq Ids
      /\ call.door = "handle" <=> call.method \in Unnamed
      /\ call.method \in {"patchAll", "call"} => call.ids = {}
      /\ call.method \in {"create", "createMany"} =>
            \A id \in call.ids : x.stored[id] = 0 /\ x.cache[id] = Absent /\ ~ Known(x, id)
      /\ call.method \in {"patch", "remove"} => \A id \in call.ids : x.cache[id] \notin {Absent, Local}
      /\ call.method \in Methods
    BY DEF Calls, Write
<1>5. /\ Append(x.writes, call) \in Seq(Write) /\ Len(Append(x.writes, call)) = N + 1
      /\ \A w \in 1 .. N : Append(x.writes, call)[w] = x.writes[w]
      /\ Append(x.writes, call)[N + 1] = call
    BY <1>2, <1>4, AppendProperties
<1>6. /\ y \in Worlds /\ y.cache = rows /\ y.writes = Append(x.writes, call)
      /\ y.asked = x.asked \cup {N + 1} /\ y.queue = x.queue /\ y.applied = x.applied
      /\ y.wire = x.wire /\ y.stored = x.stored /\ Waiting(y) = Waiting(x)
  <2>1. x.asked \cup {N + 1} \in SUBSET Nat
      BY <1>2
  <2>2. /\ y \in Worlds /\ y.cache = rows /\ y.writes = Append(x.writes, call)
        /\ y.asked = x.asked \cup {N + 1} /\ y.queue = x.queue /\ y.applied = x.applied
        /\ y.wire = x.wire /\ y.stored = x.stored
      BY ONLY <1>1, <1>3, <1>5, <2>1 DEF Worlds
  <2> QED
      BY <2>2 DEF Waiting
<1>7. /\ Len(y.writes) = N + 1 /\ y.writes[N + 1] = call
      /\ \A w \in 1 .. N : y.writes[w] = x.writes[w] /\ w \in 1 .. N + 1 /\ w # N + 1
      /\ \A w \in 1 .. N + 1 : w \in 1 .. N \/ w = N + 1
      /\ N + 1 \in 1 .. N + 1 /\ N + 1 \notin 1 .. N
    BY <1>2, <1>5, <1>6
<1> HIDE DEF N
<1>8. \A id : Known(y, id) <=> Known(x, id) \/ id \in call.ids
    BY <1>7 DEF Known, N
<1>9. \A e, f : Before(x, e, f) => Before(y, e, f)
    BY <1>8 DEF Before
<1>10. \A j \in 1 .. Len(x.wire) : \A w : AnswerOf(y, j, w) <=> AnswerOf(x, j, w)
    BY <1>6 DEF AnswerOf
<1>11. \A j \in 1 .. Len(x.wire), w \in Nat : AnswerOf(x, j, w) => w \in 1 .. N
    BY <1>1 DEF AnswersFit, N
<1>12. ASSUME NEW j \in 1 .. Len(x.wire) PROVE Coming(y, j) = Coming(x, j)
  <2>1. CASE x.wire[j].kind = "events"
      BY <1>6, <2>1 DEF Coming, Carried
  <2>2. CASE x.wire[j].kind # "events"
    <3>1. x.wire[j].call \in Nat /\ x.wire[j].kind = "answer"
        BY <1>2, <2>2 DEF Answer, News
    <3>2. x.wire[j].call \in 1 .. N
        BY <1>11, <3>1 DEF AnswerOf
    <3> QED
      <4>1. y.wire[j] = x.wire[j] /\ y.writes[x.wire[j].call] = x.writes[x.wire[j].call]
          BY <1>6, <1>7, <3>2
      <4>2. Carried(y.writes, x.wire[j]) = Carried(x.writes, x.wire[j])
          BY ONLY <4>1 DEF Carried
      <4> QED
          BY <4>1, <4>2 DEF Coming
  <2> QED
      BY <2>1, <2>2
<1>13. \A e : UnderWay(y, e) <=> UnderWay(x, e)
    BY <1>6, <1>12 DEF UnderWay
<1>14. Ordered(y) /\ Single(y)
  <2>1. Ordered(y)
      BY <1>1, <1>6, <1>9, <1>12 DEF Ordered
  <2>2. Single(y)
      BY <1>1, <1>6 DEF Single
  <2> QED
      BY <2>1, <2>2
<1>15. /\ \A id \in Ids : rows[id] = x.cache[id]
             \/ /\ call.method = "createMany" /\ id \in call.ids
                /\ rows[id] = Local /\ x.stored[id] = 0 /\ x.cache[id] = Absent /\ ~ Known(x, id)
       /\ \A id \in call.ids : Known(x, id) => call.method \in {"patch", "remove"}
    BY <1>3, <1>4 DEF Methods
<1>16. Stamped(y) /\ CreatedFirst(y)
  <2>1. Stamped(y)
      BY <1>1, <1>13 DEF Stamped
  <2>2. \A e \in Event : e.id \in Ids
      BY DEF Event
  <2>3. CreatedFirst(y)
      BY <1>1, <1>6, <1>13, <1>15, <2>2 DEF CreatedFirst
  <2> QED
      BY <2>1, <2>3
<1>17. StoredArrives(y)
    BY <1>1, <1>6, <1>13, <1>15 DEF StoredArrives
<1>18. RemovedArrives(y)
    BY <1>1, <1>6, <1>13, <1>15 DEF RemovedArrives
<1>19. StrangersRest(y)
    BY <1>1, <1>6, <1>8, <1>13, <1>15 DEF StrangersRest
<1>20. DoneIsShown(y, 0)
  <2> SUFFICES ASSUME NEW w \in 1 .. N, x.writes[w].phase = "done",
                      x.writes[w].method # "call", NEW id \in x.writes[w].ids
               PROVE  \/ Gone(y, id)
                      \/ x.writes[w].method # "remove" /\ rows[id] \in x.writes[w].rev .. Local - 1
      BY <1>4, <1>6, <1>7 DEF DoneIsShown
  <2>1. \/ Gone(x, id)
        \/ x.writes[w].method # "remove" /\ x.cache[id] \in x.writes[w].rev .. Local - 1
      BY <1>1, <1>2 DEF DoneIsShown, N
  <2>2. id \in Ids /\ Known(x, id)
      BY <1>2 DEF Write, Known, N
  <2>3. rows[id] = x.cache[id]
      BY <1>15, <2>2
  <2> QED
      BY <1>6, <1>13, <2>1, <2>3 DEF Gone
<1>21. LocalIsSent(y, 0)
  <2> SUFFICES ASSUME NEW id \in Ids, rows[id] = Local
               PROVE  /\ Known(y, id)
                      /\ \A w \in 1 .. N + 1 : id \in y.writes[w].ids =>
                            y.writes[w].phase = "sent" /\ y.writes[w].method = "createMany"
      BY <1>6, <1>7 DEF LocalIsSent
  <2>1. CASE rows[id] = x.cache[id]
    <3>1. /\ Known(x, id)
          /\ \A w \in 1 .. N : id \in x.writes[w].ids =>
                x.writes[w].phase = "sent" /\ x.writes[w].method = "createMany"
        BY <1>1, <2>1 DEF LocalIsSent, N
    <3>2. id \notin call.ids
        BY <1>4, <1>15, <2>1, <3>1
    <3> QED
        BY <1>7, <1>8, <3>1, <3>2
  <2>2. CASE rows[id] # x.cache[id]
    <3>1. call.method = "createMany" /\ id \in call.ids /\ ~ Known(x, id)
        BY <1>15, <2>2
    <3> QED
        BY <1>4, <1>7, <1>8, <3>1 DEF Known, N
  <2> QED
      BY <2>1, <2>2
<1>22. UnbornAreNew(y)
  <2> SUFFICES ASSUME NEW w \in 1 .. N + 1, Unborn(y, w), NEW id \in y.writes[w].ids
               PROVE  /\ x.stored[id] = 0 /\ rows[id] \in {Absent, Local}
                      /\ \A e \in Event : UnderWay(y, e) => e.id # id
                      /\ \A n \in 1 .. N + 1 : n # w => id \notin y.writes[n].ids
      BY <1>6, <1>7 DEF UnbornAreNew
  <2>1. CASE w = N + 1
    <3>1. call.method \in {"create", "createMany"} /\ id \in call.ids /\ id \in Ids
        BY <1>4, <1>7, <2>1 DEF Unborn
    <3>2. x.stored[id] = 0 /\ x.cache[id] = Absent /\ ~ Known(x, id)
        BY <1>4, <3>1
    <3>3. rows[id] \in {Absent, Local}
        BY <1>15, <3>1, <3>2
    <3>4. \A e \in Event : UnderWay(x, e) => e.id # id
        BY <1>1, <3>1, <3>2 DEF StrangersRest
    <3>5. \A n \in 1 .. N : id \notin x.writes[n].ids
        BY <3>2 DEF Known, N
    <3> QED
        BY <1>7, <1>13, <2>1, <3>2, <3>3, <3>4, <3>5
  <2>2. CASE w \in 1 .. N
    <3>1. id \in x.writes[w].ids /\ id \in Ids /\ Known(x, id) /\ w # N + 1
      <4>1. id \in x.writes[w].ids /\ x.writes[w] \in Write /\ w # N + 1
          BY <1>2, <1>7, <2>2 DEF N
      <4> QED
          BY <2>2, <4>1 DEF Write, Known, N
    <3>2. Unborn(x, w)
      <4>1. y.writes[w] = x.writes[w] /\ (w \in y.asked => w \in x.asked)
          BY <1>6, <1>7, <2>2
      <4> QED
          BY <1>6, <1>10, <4>1 DEF Unborn
    <3>3. /\ x.stored[id] = 0 /\ x.cache[id] \in {Absent, Local}
          /\ \A e \in Event : UnderWay(x, e) => e.id # id
          /\ \A n \in 1 .. N : n # w => id \notin x.writes[n].ids
        BY <1>1, <2>2, <3>1, <3>2 DEF UnbornAreNew, N
    <3>4. rows[id] \in {Absent, Local}
        BY <1>15, <3>1, <3>3
    <3>5. id \notin call.ids
        BY <1>4, <1>15, <3>1, <3>3
    <3> QED
        BY <1>7, <1>13, <3>3, <3>4, <3>5
  <2> QED
      BY <1>7, <2>1, <2>2
<1>23. AnswersFit(y)
  <2>1. \A w \in x.asked : /\ w \in 1 .. N /\ x.writes[w].phase = "sent"
                           /\ \A j \in 1 .. Len(x.wire) : ~ AnswerOf(x, j, w)
      BY <1>1 DEF AnswersFit, N
  <2>2. N + 1 \in Nat
      BY <1>7, <1>2 DEF N
  <2>3. ASSUME NEW w \in y.asked
        PROVE  /\ w \in 1 .. N + 1 /\ y.writes[w].phase = "sent"
               /\ \A j \in 1 .. Len(y.wire) : ~ AnswerOf(y, j, w)
    <3>1. CASE w \in x.asked
        BY <1>6, <1>7, <1>10, <2>1, <3>1
    <3>2. CASE w = N + 1
        BY <1>4, <1>6, <1>7, <1>10, <1>11, <2>2, <3>2
    <3> QED
        BY <1>6, <3>1, <3>2
  <2>4. ASSUME NEW j \in 1 .. Len(y.wire), NEW w \in Nat, AnswerOf(y, j, w)
        PROVE  /\ w \in 1 .. N + 1 /\ y.writes[w].phase = "sent"
               /\ \A k \in 1 .. Len(y.wire) : k # j => ~ AnswerOf(y, k, w)
               /\ y.writes[w].method # "patchAll" => y.wire[j].ids = y.writes[w].ids
               /\ y.wire[j].ok => y.wire[j].rev \in 1 .. MaxRevs
    <3>1. j \in 1 .. Len(x.wire) /\ AnswerOf(x, j, w) /\ w \in 1 .. N /\ y.writes[w] = x.writes[w]
        BY <1>6, <1>7, <1>10, <1>11, <2>4
    <3>2. /\ x.writes[w].phase = "sent"
          /\ \A k \in 1 .. Len(x.wire) : k # j => ~ AnswerOf(x, k, w)
          /\ x.writes[w].method # "patchAll" => x.wire[j].ids = x.writes[w].ids
          /\ x.wire[j].ok => x.wire[j].rev \in 1 .. MaxRevs
        BY <1>1, <3>1 DEF AnswersFit
    <3> QED
        BY <1>6, <1>7, <1>10, <3>1, <3>2
  <2>5. ASSUME NEW w \in 1 .. N + 1, y.writes[w].phase = "sent"
        PROVE  w \in y.asked \/ \E j \in 1 .. Len(y.wire) : AnswerOf(y, j, w)
    <3>1. CASE w = N + 1
        BY <1>6, <3>1
    <3>2. CASE w \in 1 .. N
      <4>1. w \in x.asked \/ \E j \in 1 .. Len(x.wire) : AnswerOf(x, j, w)
          BY <1>1, <1>7, <2>5, <3>2 DEF AnswersFit, N
      <4> QED
          BY <1>6, <1>10, <4>1
    <3> QED
        BY <1>7, <3>1, <3>2
  <2> QED
      BY <1>7, <2>3, <2>4, <2>5 DEF AnswersFit
<1>24. WritesFit(y)
  <2> SUFFICES ASSUME NEW w \in 1 .. N + 1
               PROVE  /\ y.writes[w].door = "handle" <=> y.writes[w].method \in Unnamed
                      /\ y.writes[w].phase = "sent" /\ y.writes[w].method = "patchAll" =>
                            y.writes[w].ids = {}
                      /\ y.writes[w].method = "call" => y.writes[w].ids = {}
                      /\ y.writes[w].phase = "done" => y.writes[w].rev # 0
      BY <1>7 DEF WritesFit
  <2>1. CASE w = N + 1
      BY <1>4, <1>7, <2>1
  <2>2. CASE w \in 1 .. N
      BY <1>1, <1>7, <2>2 DEF WritesFit, N
  <2> QED
      BY <1>7, <2>1, <2>2
<1> QED
    BY <1>6, <1>14, <1>16, <1>17, <1>18, <1>19, <1>20, <1>21, <1>22, <1>23, <1>24 DEF Holds

-----------------------------------------------------------------------------
(* What the client's operations do to its state.                           *)

Client(rows, events, ws, busy, told, shown) ==
    [cache |-> rows, queue |-> events, calls |-> ws, tracker |-> busy, heard |-> told,
     actors |-> shown]

\* The parts of a client's state are those it was made of.
LEMMA ClientFields ==
    ASSUME NEW rows, NEW events, NEW ws, NEW busy, NEW told, NEW shown
    PROVE  /\ Client(rows, events, ws, busy, told, shown).cache = rows
           /\ Client(rows, events, ws, busy, told, shown).queue = events
           /\ Client(rows, events, ws, busy, told, shown).calls = ws
           /\ Client(rows, events, ws, busy, told, shown).tracker = busy
           /\ Client(rows, events, ws, busy, told, shown).heard = told
           /\ Client(rows, events, ws, busy, told, shown).actors = shown
    BY DEF Client

\* What subscribers are told.
ToldOf(rows, ws, busy) == Changed(Client(rows, << >>, ws, busy, << >>, << >>)).heard

\* A notification changes only what subscribers were told last.
LEMMA ChangedForm ==
    ASSUME NEW rows, NEW events, NEW ws, NEW busy, NEW told, NEW shown
    PROVE  Changed(Client(rows, events, ws, busy, told, shown)) =
               Client(rows, events, ws, busy, ToldOf(rows, ws, busy), shown)
<1> DEFINE s == Client(rows, events, ws, busy, told, shown)
           r == Client(rows, << >>, ws, busy, << >>, << >>)
           Tell(q) == [f \in Filters |->
               [busy   |-> Busy(q, f),
                unseen |-> {m \in DOMAIN q.calls : (f = Whole \/ f \in Named(q.calls[m])) /\ Unseen(q, m)}]]
<1>1. s.cache = rows /\ s.calls = ws /\ s.tracker = busy
    BY DEF Client
<1>2. r.cache = rows /\ r.calls = ws /\ r.tracker = busy
    BY DEF Client
<1>3. Changed(s) = Client(rows, events, ws, busy, Tell(s), shown)
  <2> DEFINE v == Tell(s)
  <2>1. Changed(s) = [s EXCEPT !.heard = v]
      BY DEF Changed
  <2> HIDE DEF v
  <2>2. [s EXCEPT !.heard = v] = Client(rows, events, ws, busy, v, shown)
      BY DEF Client
  <2> QED
      BY <2>1, <2>2 DEF v
<1>4. Changed(r) = Client(rows, << >>, ws, busy, Tell(r), << >>)
  <2> DEFINE v == Tell(r)
  <2>1. Changed(r) = [r EXCEPT !.heard = v]
      BY DEF Changed
  <2> HIDE DEF v
  <2>2. [r EXCEPT !.heard = v] = Client(rows, << >>, ws, busy, v, << >>)
      BY DEF Client
  <2> QED
      BY <2>1, <2>2 DEF v
<1> HIDE DEF s, r
<1>5. \A f : Busy(s, f) = Busy(r, f)
    BY <1>1, <1>2 DEF Busy
<1>6. \A m : Unseen(s, m) = Unseen(r, m)
    BY <1>1, <1>2 DEF Unseen
<1>7. Tell(s) = Tell(r)
    BY <1>1, <1>2, <1>5, <1>6
<1>8. ToldOf(rows, ws, busy) = Tell(r)
  <2> HIDE DEF Tell
  <2> QED
      BY <1>4 DEF ToldOf, Client, r
<1> QED
    BY <1>3, <1>7, <1>8 DEF s

\* A write enters the tracker: one element more, and subscribers are told.
LEMMA StartForm ==
    ASSUME NEW rows, NEW events, NEW ws, NEW busy, NEW told, NEW shown, NEW m
    PROVE  Start(Client(rows, events, ws, busy, told, shown), m) =
               Client(rows, events, ws, busy \cup {m}, ToldOf(rows, ws, busy \cup {m}), shown)
<1>1. [Client(rows, events, ws, busy, told, shown) EXCEPT !.tracker = @ \cup {m}] =
          Client(rows, events, ws, busy \cup {m}, told, shown)
    BY DEF Client
<1> QED
    BY <1>1, ChangedForm DEF Start

\* A write leaves the tracker: one element less, and subscribers are told.
LEMMA EndForm ==
    ASSUME NEW rows, NEW events, NEW ws, NEW busy, NEW told, NEW shown, NEW m
    PROVE  End(Client(rows, events, ws, busy, told, shown), m) =
               Client(rows, events, ws, busy \ {m}, ToldOf(rows, ws, busy \ {m}), shown)
<1>1. [Client(rows, events, ws, busy, told, shown) EXCEPT !.tracker = @ \ {m}] =
          Client(rows, events, ws, busy \ {m}, told, shown)
    BY DEF Client
<1> QED
    BY <1>1, ChangedForm DEF End

\* The queue is applied.
LEMMA FlushForm ==
    ASSUME NEW rows, NEW all, NEW ws, NEW busy, NEW told, NEW shown
    PROVE  Flush(Client(rows, all, ws, busy, told, shown)) =
               Client(AllApplied(rows, all), << >>, ws, busy, told, shown)
<1> DEFINE s == Client(rows, all, ws, busy, told, shown)
           new == AllApplied(rows, all)
<1>1. s.cache = rows /\ s.queue = all
    BY ClientFields
<1>2. Flush(s) = [[s EXCEPT !.cache = AllApplied(s.cache, s.queue)] EXCEPT !.queue = << >>]
    BY DEF Flush
<1>3. AllApplied(s.cache, s.queue) = new
    BY <1>1
<1> HIDE DEF new
<1>4. [s EXCEPT !.cache = new] = Client(new, all, ws, busy, told, shown)
    BY DEF Client
<1>5. [Client(new, all, ws, busy, told, shown) EXCEPT !.queue = << >>] =
          Client(new, << >>, ws, busy, told, shown)
    BY DEF Client
<1> HIDE DEF s
<1> QED
    BY <1>2, <1>3, <1>4, <1>5 DEF new, s

\* Events wait in the queue.
LEMMA QueuedForm ==
    ASSUME NEW rows, NEW events, NEW ws, NEW busy, NEW told, NEW shown, NEW list
    PROVE  Queued(Client(rows, events, ws, busy, told, shown), list) =
               Client(rows, events \o list, ws, busy, told, shown)
<1> DEFINE s == Client(rows, events, ws, busy, told, shown)
           all == events \o list
<1>1. s.queue = events
    BY ClientFields
<1>2. Queued(s, list) = [s EXCEPT !.queue = s.queue \o list]
    BY DEF Queued
<1>3. s.queue \o list = all
    BY <1>1
<1> HIDE DEF all
<1>4. [s EXCEPT !.queue = all] = Client(rows, all, ws, busy, told, shown)
    BY DEF Client
<1> HIDE DEF s
<1> QED
    BY <1>2, <1>3, <1>4 DEF all, s

\* Events are applied at once, with those that wait.
LEMMA ProcessEventForm ==
    ASSUME NEW rows, NEW events, NEW ws, NEW busy, NEW told, NEW shown, NEW list
    PROVE  ProcessEvent(Client(rows, events, ws, busy, told, shown), list) =
               Client(AllApplied(rows, events \o list), << >>, ws, busy, told, shown)
<1>1. Queued(Client(rows, events, ws, busy, told, shown), list) =
          Client(rows, events \o list, ws, busy, told, shown)
    BY QueuedForm
<1>2. Flush(Client(rows, events \o list, ws, busy, told, shown)) =
          Client(AllApplied(rows, events \o list), << >>, ws, busy, told, shown)
    BY FlushForm
<1> QED
    BY <1>1, <1>2 DEF ProcessEvent

\* Subscribers who are told that nothing is written see every outcome.
LEMMA ChangedTells ==
    ASSUME NEW x, Holds(x, 0), NEW ws, NEW busy,
           \A m \in DOMAIN ws : \/ m \in busy
                                \/ /\ m \in 1 .. Len(x.writes) /\ ws[m] = x.writes[m]
                                   /\ ws[m].phase # "sent"
    PROVE  \A f \in Filters : ~ ToldOf(x.cache, ws, busy)[f].busy => ToldOf(x.cache, ws, busy)[f].unseen = {}
<1> DEFINE s == Client(x.cache, << >>, ws, busy, << >>, << >>)
<1>1. s.cache = x.cache /\ s.calls = ws /\ s.tracker = busy
    BY DEF Client
<1>2. \A f \in Filters : /\ ToldOf(x.cache, ws, busy)[f].busy = Busy(s, f)
                         /\ ToldOf(x.cache, ws, busy)[f].unseen =
                               {m \in DOMAIN ws : (f = Whole \/ f \in Named(ws[m])) /\ Unseen(s, m)}
    BY DEF ToldOf, Changed, Client
<1>3. DoneIsShown(x, 0) /\ LocalIsSent(x, 0) /\ x \in Worlds
    BY DEF Holds
<1> HIDE DEF s
<1>4. ASSUME NEW m \in DOMAIN ws, m \notin busy PROVE ~ Unseen(s, m)
  <2>1. m \in 1 .. Len(x.writes) /\ ws[m] = x.writes[m] /\ ws[m].phase # "sent" /\ m # 0
      BY <1>3, <1>4, WorldTypes
  <2>2. \A id \in ws[m].ids : id \in Ids
    <3>1. x.writes[m] \in Write
        BY <1>3, <2>1, WorldTypes
    <3> QED
        BY <2>1, <3>1 DEF Write
  <2>3. ASSUME ws[m].phase = "done", ws[m].method # "call", NEW id \in ws[m].ids, x.cache[id] # Absent
        PROVE  x.cache[id] \in ws[m].rev + (IF ws[m].method = "remove" THEN 1 ELSE 0) .. Local - 1
    <3>1. ws[m].method # "remove" /\ x.cache[id] \in ws[m].rev .. Local - 1
        BY <1>3, <2>1, <2>3 DEF DoneIsShown, Gone
    <3>2. ws[m].rev \in Nat
      <4>1. x.writes[m] \in Write
          BY <1>3, <2>1, WorldTypes
      <4> QED
          BY <2>1, <4>1 DEF Write
    <3>3. ws[m].rev + 0 = ws[m].rev
        BY <3>2
    <3> QED
        BY <3>1, <3>3
  <2>4. \A id \in ws[m].ids : x.cache[id] # Local
      BY <1>3, <2>1, <2>2 DEF LocalIsSent
  <2> QED
      BY <1>1, <2>3, <2>4 DEF Unseen
<1> SUFFICES ASSUME NEW f \in Filters, ~ Busy(s, f), NEW m \in DOMAIN ws,
                    f = Whole \/ f \in Named(ws[m]), Unseen(s, m)
             PROVE  FALSE
    BY <1>2
<1>5. m \in busy
    BY <1>4
<1>6. Busy(s, f)
    BY <1>1, <1>5 DEF Busy
<1> QED
    BY <1>6

\* The components before and after a write.
ActorsBegan(shown, c, door) == [shown EXCEPT ![c] = ActorBegan(@, door)]

ActorsTold(shown, call, m, ok) ==
    [shown EXCEPT ![call.by] = ActorTold(@, call.door, Outcome(m, ok))]

\* A hook begins a call: only its own actor moves.
LEMMA BegunForm ==
    ASSUME NEW rows, NEW events, NEW ws, NEW busy, NEW told, NEW shown, NEW c, NEW door
    PROVE  Begun(Client(rows, events, ws, busy, told, shown), c, door) =
               Client(rows, events, ws, busy, told, ActorsBegan(shown, c, door))
<1> DEFINE s == Client(rows, events, ws, busy, told, shown)
           a == ActorBegan(shown[c], door)
<1>1. s.actors = shown
    BY ClientFields
<1>2. Begun(s, c, door) = [s EXCEPT !.actors = [shown EXCEPT ![c] = a]]
    BY <1>1 DEF Begun
<1> DEFINE v == [shown EXCEPT ![c] = a]
<1> HIDE DEF v
<1>3. [s EXCEPT !.actors = v] = Client(rows, events, ws, busy, told, v)
    BY DEF Client
<1> QED
    BY <1>2, <1>3 DEF v, ActorsBegan

\* A hook is told an outcome: only the actor that made the call moves.
LEMMA ToldForm ==
    ASSUME NEW rows, NEW events, NEW ws, NEW busy, NEW told, NEW shown, NEW m, NEW ok
    PROVE  Told(Client(rows, events, ws, busy, told, shown), m, ok) =
               Client(rows, events, ws, busy, told, ActorsTold(shown, ws[m], m, ok))
<1> DEFINE s == Client(rows, events, ws, busy, told, shown)
           c == ws[m].by
           a == ActorTold(shown[c], ws[m].door, Outcome(m, ok))
<1>1. s.actors = shown /\ s.calls = ws
    BY ClientFields
<1>2. Told(s, m, ok) = [s EXCEPT !.actors = [shown EXCEPT ![c] = a]]
    BY <1>1 DEF Told
<1> DEFINE v == [shown EXCEPT ![c] = a]
<1> HIDE DEF v
<1>3. [s EXCEPT !.actors = v] = Client(rows, events, ws, busy, told, v)
    BY DEF Client
<1> QED
    BY <1>2, <1>3 DEF v, ActorsTold

\* Whether a settled write is shown at once, and the events that show it.
IsShown(call, ok) ==
    \/ ok /\ call.method # "call"
    \/ ~ ok /\ IsOptimistic(call.door, call.method) /\ call.method = "createMany"

ShownBy(call, msg) ==
    IF msg.ok THEN EventsOf(EventType(call.method), msg.ids, msg.rev)
              ELSE EventsOf("removed", call.ids, Absent)

SettledRows(rows, events, call, msg) ==
    IF IsShown(call, msg.ok) THEN AllApplied(rows, events \o ShownBy(call, msg)) ELSE rows

SettledQueue(events, call, msg) == IF IsShown(call, msg.ok) THEN << >> ELSE events

\* A write settles.
Ends(ws, msg, next) == next = [ws EXCEPT ![msg.call] = Answered(@, msg)]

\* What that does to the client.
BecomesSettled(rows, events, ws, busy, told, shown, msg, next) ==
    Settled(Client(rows, events, ws, busy, told, shown), msg.call, msg.ok, msg.ids, msg.rev) =
        Client(SettledRows(rows, events, ws[msg.call], msg), SettledQueue(events, ws[msg.call], msg),
               next, busy \ {msg.call},
               ToldOf(SettledRows(rows, events, ws[msg.call], msg), next, busy \ {msg.call}),
               ActorsTold(shown, ws[msg.call], msg.call, msg.ok))

\* An answer handled in full, as one client made of its parts: the rows, the queue, the tracker,
\* the last notification and the actors.
LEMMA SettledForm ==
    ASSUME NEW rows, NEW events, NEW ws \in Seq(Write), NEW busy, NEW told, NEW shown,
           NEW msg \in Answer, msg.call \in 1 .. Len(ws), NEW next,
           Ends(ws, msg, next)
    PROVE  BecomesSettled(rows, events, ws, busy, told, shown, msg, next)
<1> DEFINE s == Client(rows, events, ws, busy, told, shown)
           m == msg.call
           call == ws[m]
           ended == [s EXCEPT !.calls[m] = Ended(@, msg.ok, msg.ids, msg.rev)]
           shows == IsShown(call, msg.ok)
           rows1 == SettledRows(rows, events, call, msg)
           queue1 == SettledQueue(events, call, msg)
<1>1. /\ m \in 1 .. Len(ws) /\ DOMAIN ws = 1 .. Len(ws) /\ call \in Write
      /\ ws \in [1 .. Len(ws) -> Write]
    BY LenProperties, ElementOfSeq
<1>2. ended = Client(rows, events, next, busy, told, shown)
  <2>1. s.calls = ws
      BY ClientFields
  <2>2. ended = [s EXCEPT !.calls = next]
      BY <2>1 DEF Answered, Ends
  <2>3. [s EXCEPT !.calls = next] = Client(rows, events, next, busy, told, shown)
      BY ONLY TRUE DEF Client
  <2> HIDE DEF s, ended
  <2> QED
      BY <2>2, <2>3
<1>3. /\ next[m].method = call.method /\ next[m].door = call.door /\ next[m].by = call.by
      /\ ~ msg.ok => next[m].ids = call.ids
  <2>1. next[m] = Answered(call, msg)
      BY <1>1 DEF Ends
  <2> HIDE DEF call
  <2> QED
      BY <1>1, <2>1 DEF Answered, Ended, Write
<1>4. OnSettled(ended, m, msg.ok, msg.ids, msg.rev) =
          Client(rows1, queue1, next, busy, told, shown)
  <2> DEFINE list == ShownBy(call, msg)
             r == Client(rows, events, next, busy, told, shown)
  <2>1. r.calls = next
      BY ClientFields
  <2>2. OnSettled(r, m, msg.ok, msg.ids, msg.rev) = IF shows THEN ProcessEvent(r, list) ELSE r
    <3> HIDE DEF r
    <3> QED
        BY <1>3, <2>1 DEF OnSettled, IsShown, ShownBy
  <2>3. ProcessEvent(r, list) = Client(AllApplied(rows, events \o list), << >>, next, busy, told, shown)
      BY ProcessEventForm
  <2> HIDE DEF r
  <2>4. OnSettled(r, m, msg.ok, msg.ids, msg.rev) = Client(rows1, queue1, next, busy, told, shown)
      BY <2>2, <2>3 DEF SettledRows, SettledQueue, r
  <2> QED
      BY <1>2, <2>4 DEF r
<1> HIDE DEF s, ended, rows1, queue1, shows
<1>5. End(Client(rows1, queue1, next, busy, told, shown), m) =
          Client(rows1, queue1, next, busy \ {m}, ToldOf(rows1, next, busy \ {m}), shown)
    BY EndForm
<1>6. Told(Client(rows1, queue1, next, busy \ {m}, ToldOf(rows1, next, busy \ {m}), shown), m, msg.ok) =
          Client(rows1, queue1, next, busy \ {m}, ToldOf(rows1, next, busy \ {m}),
                 ActorsTold(shown, next[m], m, msg.ok))
  <2> DEFINE told1 == ToldOf(rows1, next, busy \ {m})
             busy1 == busy \ {m}
             ok == msg.ok
  <2> HIDE DEF told1, busy1, m, ok
  <2>1. Told(Client(rows1, queue1, next, busy1, told1, shown), m, ok) =
            Client(rows1, queue1, next, busy1, told1, ActorsTold(shown, next[m], m, ok))
      BY ONLY ToldForm
  <2> QED
      BY ONLY <2>1 DEF told1, busy1, m, ok
<1>7. Settled(s, m, msg.ok, msg.ids, msg.rev) =
          Told(End(OnSettled(ended, m, msg.ok, msg.ids, msg.rev), m), m, msg.ok)
    BY DEF Settled, ended
<1> QED
    BY <1>3, <1>4, <1>5, <1>6, <1>7 DEF s, rows1, queue1, ActorsTold, BecomesSettled

\* A batch create with its rows is shown at once.
IsShownFirst(call) == IsOptimistic(call.door, call.method) /\ call.method = "createMany"

CalledRows(rows, events, call) ==
    IF IsShownFirst(call) THEN AllApplied(rows, events \o EventsOf("created", call.ids, Local)) ELSE rows

CalledQueue(events, call) == IF IsShownFirst(call) THEN << >> ELSE events

\* A write is called.
LEMMA RegisteredForm ==
    ASSUME NEW rows, NEW events, NEW ws, NEW busy, NEW told, NEW shown, NEW c, NEW door, NEW call,
           NEW m, m = Len(ws) + 1
    PROVE  Registered(Begun(Client(rows, events, ws, busy, told, shown), c, door), call) =
               Client(CalledRows(rows, events, call), CalledQueue(events, call), Append(ws, call),
                      busy \cup {m}, ToldOf(rows, Append(ws, call), busy \cup {m}),
                      ActorsBegan(shown, c, door))
<1> DEFINE actors1 == ActorsBegan(shown, c, door)
           begun == Client(rows, events, ws, busy, told, actors1)
           next == Append(ws, call)
           started == Client(rows, events, next, busy \cup {m}, ToldOf(rows, next, busy \cup {m}), actors1)
           list == EventsOf("created", call.ids, Local)
<1>1. Begun(Client(rows, events, ws, busy, told, shown), c, door) = begun
    BY BegunForm
<1> HIDE DEF actors1
<1>2. begun.calls = ws
    BY ClientFields
<1>3. [begun EXCEPT !.calls = next] = Client(rows, events, next, busy, told, actors1)
  <2> HIDE DEF next
  <2> QED
      BY DEF Client
<1>4. Start(Client(rows, events, next, busy, told, actors1), m) = started
    BY StartForm
<1>5. ProcessEvent(started, list) =
          Client(AllApplied(rows, events \o list), << >>, next, busy \cup {m},
                 ToldOf(rows, next, busy \cup {m}), actors1)
    BY ProcessEventForm
<1> HIDE DEF started, begun
<1>6. Registered(begun, call) = IF IsShownFirst(call) THEN ProcessEvent(started, list) ELSE started
    BY <1>2, <1>3, <1>4 DEF Registered, IsShownFirst
<1> QED
    BY <1>1, <1>5, <1>6 DEF CalledRows, CalledQueue, started, actors1

-----------------------------------------------------------------------------
(* What components tell of their own writes.                               *)

Actor ==
    [phase : {"mounted", "hidden"}, hid : BOOLEAN,
     action : [pending : Int, slot : [kind : {"none", "data", "error"}, call : Nat]],
     mutation : [status : {"idle", "loading", "success", "error"}, data : Nat, error : Nat]]

FlightOf(ws, c, doors) ==
    {m \in 1 .. Len(ws) : ws[m].by = c /\ ws[m].phase = "sent" /\ ws[m].door \in doors}

IsRight(a, c, ws) ==
    /\ a.phase = "mounted"
    /\ a.action.pending = Cardinality(FlightOf(ws, c, {"handle"}))
    /\ a.action.slot # NoOutcome =>
          /\ a.action.slot.call \in 1 .. Len(ws)
          /\ ws[a.action.slot.call].phase = IF a.action.slot.kind = "data" THEN "done" ELSE "failed"
    /\ FlightOf(ws, c, {"direct"}) = {} => a.mutation.status # "loading"
    /\ a.mutation.status = "success" =>
          a.mutation.data \in 1 .. Len(ws) /\ ws[a.mutation.data].phase = "done"
    /\ a.mutation.status = "error" =>
          a.mutation.error \in 1 .. Len(ws) /\ ws[a.mutation.error].phase = "failed"

AreRight(shown, ws) ==
    /\ shown \in [Actors -> Actor]
    /\ \A c \in Actors : ~ shown[c].hid => IsRight(shown[c], c, ws)

\* The writes in flight are finitely many.
LEMMA FlightFinite ==
    ASSUME NEW ws \in Seq(Write), NEW c, NEW doors
    PROVE  IsFiniteSet(FlightOf(ws, c, doors)) /\ Cardinality(FlightOf(ws, c, doors)) \in Nat
<1>1. Len(ws) \in Int /\ 1 \in Int
    BY LenProperties
<1>2. IsFiniteSet(1 .. Len(ws))
    BY <1>1, FS_Interval
<1>3. FlightOf(ws, c, doors) \subseteq 1 .. Len(ws)
    BY DEF FlightOf
<1>4. IsFiniteSet(FlightOf(ws, c, doors))
    BY <1>2, <1>3, FS_Subset
<1> QED
    BY <1>4, FS_CardinalityType

\* A component that is right stays so while its own writes do not change.
LEMMA OthersStayRight ==
    ASSUME NEW ws, NEW next, NEW c, NEW a, IsRight(a, c, ws), Len(ws) \in Nat, Len(next) \in Nat,
           Len(next) >= Len(ws),
           \A m \in 1 .. Len(ws) : ws[m].phase # "sent" => next[m].phase = ws[m].phase,
           \A doors : FlightOf(next, c, doors) = FlightOf(ws, c, doors)
    PROVE  IsRight(a, c, next)
<1>1. 1 .. Len(ws) \subseteq 1 .. Len(next)
    OBVIOUS
<1>2. \A m \in 1 .. Len(ws), p \in {"done", "failed"} : ws[m].phase = p => next[m].phase = p
    OBVIOUS
<1> QED
    BY <1>1, <1>2 DEF IsRight

\* A write is called.
LEMMA CallIsRight ==
    ASSUME NEW ws \in Seq(Write), NEW call \in Write, call.phase = "sent", NEW shown,
           AreRight(shown, ws), shown[call.by].phase = "mounted"
    PROVE  AreRight(ActorsBegan(shown, call.by, call.door), Append(ws, call))
<1> DEFINE N == Len(ws)
           next == Append(ws, call)
           b == call.by
           new == ActorsBegan(shown, b, call.door)
<1>1. /\ N \in Nat /\ Len(next) = N + 1 /\ next[N + 1] = call
      /\ \A m \in 1 .. N : next[m] = ws[m]
    BY LenProperties, AppendProperties
<1>2. b \in Actors /\ call.door \in Doors /\ shown \in [Actors -> Actor]
    BY DEF Write, AreRight
<1> HIDE DEF N, next, b
<1>3. /\ \A m \in 1 .. N : m \in 1 .. N + 1 /\ m # N + 1
      /\ \A m \in 1 .. N + 1 : m \in 1 .. N \/ m = N + 1
      /\ N + 1 \in 1 .. N + 1
    BY <1>1
<1>4. ASSUME NEW c, NEW doors
      PROVE  /\ c = b /\ call.door \in doors =>
                    FlightOf(next, c, doors) = FlightOf(ws, c, doors) \cup {N + 1}
             /\ ~ (c = b /\ call.door \in doors) => FlightOf(next, c, doors) = FlightOf(ws, c, doors)
    BY <1>1, <1>3 DEF FlightOf, N, b
<1>5. ActorBegan(shown[b], call.door) \in Actor
  <2>1. shown[b] \in Actor
      BY <1>2
  <2>2. CASE call.door = "direct"
      BY <2>1, <2>2 DEF ActorBegan, MutationStarted, Actor
  <2>3. CASE call.door # "direct"
      BY <2>1, <2>3 DEF ActorBegan, ActionStarted, NoOutcome, Actor
  <2> QED
      BY <2>2, <2>3
<1>6. /\ new \in [Actors -> Actor]
      /\ \A c \in Actors : new[c] = IF c = b THEN ActorBegan(shown[b], call.door) ELSE shown[c]
    BY <1>2, <1>5 DEF ActorsBegan
<1> HIDE DEF new
<1>7. ASSUME NEW c \in Actors, c # b, ~ new[c].hid PROVE IsRight(new[c], c, next)
  <2>1. IsRight(shown[c], c, ws) /\ new[c] = shown[c]
      BY <1>6, <1>7 DEF AreRight
  <2>2. \A doors : FlightOf(next, c, doors) = FlightOf(ws, c, doors)
      BY <1>4, <1>7
  <2>3. Len(ws) \in Nat /\ Len(next) \in Nat /\ Len(next) >= Len(ws)
      BY <1>1 DEF N
  <2>4. \A m \in 1 .. Len(ws) : ws[m].phase # "sent" => next[m].phase = ws[m].phase
      BY <1>1 DEF N
  <2>5. IsRight(shown[c], c, next)
      BY <2>1, <2>2, <2>3, <2>4, OthersStayRight
  <2> QED
      BY <2>1, <2>5
<1>8. ASSUME ~ new[b].hid PROVE IsRight(new[b], b, next)
  <2> DEFINE a == shown[b]
             H == FlightOf(ws, b, {"handle"})
             D == FlightOf(ws, b, {"direct"})
  <2>1. new[b] = ActorBegan(a, call.door) /\ a \in Actor
      BY <1>2, <1>6
  <2>2. ~ a.hid
    <3>1. ActorBegan(a, call.door).hid = a.hid
        BY <2>1 DEF ActorBegan, Actor
    <3> QED
        BY <1>8, <2>1, <3>1
  <2>3. IsRight(a, b, ws)
      BY <1>2, <2>2 DEF AreRight
  <2>4. IsFiniteSet(H) /\ Cardinality(H) \in Nat /\ N + 1 \notin H
    <3>1. IsFiniteSet(H) /\ Cardinality(H) \in Nat
        BY FlightFinite
    <3>2. N + 1 \notin H
        BY <1>3 DEF FlightOf, N
    <3> QED
        BY <3>1, <3>2
  <2>5. \A m \in 1 .. N : m \in 1 .. Len(next) /\ next[m] = ws[m]
      BY <1>1, <1>3
  <2>6. CASE call.door = "direct"
    <3>1. new[b] = [a EXCEPT !.mutation = MutationStarted(a.mutation)]
        BY <2>1, <2>6 DEF ActorBegan
    <3>2. new[b].phase = a.phase /\ new[b].action = a.action /\ new[b].mutation.status = "loading"
        BY <2>1, <3>1 DEF Actor, MutationStarted
    <3>3. FlightOf(next, b, {"handle"}) = H /\ FlightOf(next, b, {"direct"}) # {}
      <4>1. "direct" \in {"direct"} /\ "direct" \notin {"handle"} /\ b = b
          OBVIOUS
      <4>2. FlightOf(next, b, {"handle"}) = FlightOf(ws, b, {"handle"})
          BY <1>4, <2>6, <4>1
      <4>3. FlightOf(next, b, {"direct"}) = FlightOf(ws, b, {"direct"}) \cup {N + 1}
          BY <1>4, <2>6, <4>1
      <4> QED
          BY <4>2, <4>3
    <3> QED
        BY <2>3, <2>5, <3>2, <3>3 DEF IsRight, N
  <2>7. CASE call.door = "handle"
    <3>1. new[b] = [a EXCEPT !.action = ActionStarted(a.action)]
        BY <2>1, <2>7 DEF ActorBegan
    <3>2. /\ new[b].phase = a.phase /\ new[b].mutation = a.mutation
          /\ new[b].action.pending = a.action.pending + 1 /\ new[b].action.slot = NoOutcome
        BY <2>1, <3>1 DEF Actor, ActionStarted, NoOutcome
    <3>3. FlightOf(next, b, {"handle"}) = H \cup {N + 1} /\ FlightOf(next, b, {"direct"}) = D
      <4>1. "handle" \in {"handle"} /\ "handle" \notin {"direct"} /\ b = b
          OBVIOUS
      <4>2. FlightOf(next, b, {"direct"}) = FlightOf(ws, b, {"direct"})
          BY <1>4, <2>7, <4>1
      <4>3. FlightOf(next, b, {"handle"}) = FlightOf(ws, b, {"handle"}) \cup {N + 1}
          BY <1>4, <2>7, <4>1
      <4> QED
          BY <4>2, <4>3
    <3>4. Cardinality(H \cup {N + 1}) = Cardinality(H) + 1
        BY <2>4, FS_AddElement
    <3> QED
        BY <2>3, <2>5, <3>2, <3>3, <3>4 DEF IsRight, N
  <2> QED
      BY <1>2, <2>6, <2>7 DEF Doors
<1> QED
    BY <1>6, <1>7, <1>8 DEF AreRight, new, next, b

\* A write settles.
LEMMA SettleIsRight ==
    ASSUME NEW ws \in Seq(Write), NEW m \in 1 .. Len(ws), ws[m].phase = "sent", NEW ok \in BOOLEAN,
           NEW next \in Seq(Write), Len(next) = Len(ws),
           \A k \in 1 .. Len(ws) : k # m => next[k] = ws[k],
           next[m].phase = IF ok THEN "done" ELSE "failed",
           NEW shown, AreRight(shown, ws)
    PROVE  AreRight(ActorsTold(shown, ws[m], m, ok), next)
<1> DEFINE call == ws[m]
           b == call.by
           door == call.door
           out == Outcome(m, ok)
           new == ActorsTold(shown, call, m, ok)
<1>1. Len(ws) \in Nat /\ call \in Write /\ m \in Nat /\ next[m].phase # "sent"
    BY LenProperties, ElementOfSeq
<1>2. b \in Actors /\ door \in Doors /\ shown \in [Actors -> Actor]
    BY <1>1 DEF Write, AreRight
<1>3. ASSUME NEW c, NEW doors
      PROVE  FlightOf(next, c, doors) =
                 FlightOf(ws, c, doors) \ IF c = b /\ door \in doors THEN {m} ELSE {}
    BY <1>1 DEF FlightOf
<1>4. out.call = m /\ out.kind = (IF ok THEN "data" ELSE "error")
      /\ out \in [kind : {"none", "data", "error"}, call : Nat]
    BY <1>1 DEF Outcome
<1> HIDE DEF out, b, door, call
<1>5. ActorTold(shown[b], door, out) \in Actor
  <2>1. shown[b] \in Actor
      BY <1>2
  <2> DEFINE a == shown[b]
  <2>2. CASE a.phase # "mounted"
      BY <2>1, <2>2 DEF ActorTold
  <2>3. CASE a.phase = "mounted" /\ door = "direct"
    <3>1. ActorTold(a, door, out) = [a EXCEPT !.mutation = MutationSettled(a.mutation, out)]
        BY <2>3 DEF ActorTold
    <3>2. MutationSettled(a.mutation, out) \in
              [status : {"idle", "loading", "success", "error"}, data : Nat, error : Nat]
        BY <1>1, <1>4, <2>1 DEF MutationSettled, Actor
    <3> QED
        BY <2>1, <3>1, <3>2 DEF Actor
  <2>4. CASE a.phase = "mounted" /\ door # "direct"
    <3>1. ActorTold(a, door, out) = [a EXCEPT !.action = ActionSettled(a.action, out)]
        BY <2>4 DEF ActorTold
    <3>2. ActionSettled(a.action, out) \in
              [pending : Int, slot : [kind : {"none", "data", "error"}, call : Nat]]
        BY <1>4, <2>1 DEF ActionSettled, Actor
    <3> QED
        BY <2>1, <3>1, <3>2 DEF Actor
  <2> QED
      BY <2>2, <2>3, <2>4
<1>6. /\ new \in [Actors -> Actor]
      /\ \A c \in Actors : new[c] = IF c = b THEN ActorTold(shown[b], door, out) ELSE shown[c]
    BY <1>2, <1>5 DEF ActorsTold, b, door, out
<1> HIDE DEF new
<1>7. ASSUME NEW c \in Actors, c # b, ~ new[c].hid PROVE IsRight(new[c], c, next)
  <2>1. IsRight(shown[c], c, ws) /\ new[c] = shown[c]
      BY <1>6, <1>7 DEF AreRight
  <2>2. \A doors : FlightOf(next, c, doors) = FlightOf(ws, c, doors)
      BY <1>3, <1>7
  <2>3. \A k \in 1 .. Len(ws) : ws[k].phase # "sent" => next[k].phase = ws[k].phase
      OBVIOUS
  <2>4. IsRight(shown[c], c, next)
      BY <1>1, <2>1, <2>2, <2>3, OthersStayRight
  <2> QED
      BY <2>1, <2>4
<1>8. ASSUME ~ new[b].hid PROVE IsRight(new[b], b, next)
  <2> DEFINE a == shown[b]
             H == FlightOf(ws, b, {"handle"})
             D == FlightOf(ws, b, {"direct"})
  <2>1. new[b] = ActorTold(a, door, out) /\ a \in Actor
      BY <1>2, <1>6
  <2>2. ~ a.hid
    <3>1. ActorTold(a, door, out).hid = a.hid
        BY <2>1 DEF ActorTold, Actor
    <3> QED
        BY <1>8, <2>1, <3>1
  <2>3. IsRight(a, b, ws) /\ a.phase = "mounted"
      BY <1>2, <2>2 DEF AreRight, IsRight
  <2>4. \A k \in 1 .. Len(ws), p \in {"done", "failed"} : ws[k].phase = p => next[k].phase = p
      OBVIOUS
  <2>5. CASE door = "direct"
    <3>1. new[b] = [a EXCEPT !.mutation = MutationSettled(a.mutation, out)]
        BY <2>1, <2>3, <2>5 DEF ActorTold
    <3>2. new[b].phase = a.phase /\ new[b].action = a.action
          /\ new[b].mutation = MutationSettled(a.mutation, out)
        BY <2>1, <3>1 DEF Actor
    <3>3. \/ ok /\ new[b].mutation.status = "success" /\ new[b].mutation.data = m
          \/ ~ ok /\ new[b].mutation.status = "error" /\ new[b].mutation.error = m
        BY <1>4, <2>1, <3>2 DEF Actor, MutationSettled
    <3>4. FlightOf(next, b, {"handle"}) = H
        BY <1>3, <2>5
    <3> QED
        BY <2>3, <2>4, <3>2, <3>3, <3>4 DEF IsRight
  <2>6. CASE door = "handle"
    <3>1. new[b] = [a EXCEPT !.action = ActionSettled(a.action, out)]
        BY <2>1, <2>3, <2>6 DEF ActorTold
    <3>2. /\ new[b].phase = a.phase /\ new[b].mutation = a.mutation
          /\ new[b].action.pending = a.action.pending - 1 /\ new[b].action.slot = out
        BY <2>1, <3>1 DEF Actor, ActionSettled
    <3>3. FlightOf(next, b, {"handle"}) = H \ {m} /\ FlightOf(next, b, {"direct"}) = D
        BY <1>3, <2>6
    <3>4. Cardinality(H \ {m}) = Cardinality(H) - 1
      <4>1. IsFiniteSet(H) /\ Cardinality(H) \in Nat
          BY FlightFinite
      <4>2. m \in H
          BY <2>6 DEF FlightOf, b, door, call
      <4> QED
          BY <4>1, <4>2, FS_RemoveElement
    <3>5. /\ new[b].phase = "mounted"
          /\ new[b].action.pending = Cardinality(FlightOf(next, b, {"handle"}))
        BY <2>3, <3>2, <3>3, <3>4 DEF IsRight
    <3>6. /\ new[b].action.slot.call \in 1 .. Len(next)
          /\ next[new[b].action.slot.call].phase =
                 IF new[b].action.slot.kind = "data" THEN "done" ELSE "failed"
        BY <1>4, <3>2
    <3>7. /\ FlightOf(next, b, {"direct"}) = {} => new[b].mutation.status # "loading"
          /\ new[b].mutation.status = "success" =>
                 /\ new[b].mutation.data \in 1 .. Len(next)
                 /\ next[new[b].mutation.data].phase = "done"
          /\ new[b].mutation.status = "error" =>
                 /\ new[b].mutation.error \in 1 .. Len(next)
                 /\ next[new[b].mutation.error].phase = "failed"
        BY <2>3, <2>4, <3>2, <3>3 DEF IsRight
    <3> QED
        BY <3>5, <3>6, <3>7 DEF IsRight
  <2> QED
      BY <1>2, <2>5, <2>6 DEF Doors
<1> QED
    BY <1>6, <1>7, <1>8 DEF AreRight, new, call

-----------------------------------------------------------------------------
(* The invariant.                                                          *)

ClockIsAhead == clock \in 1 .. MaxRevs /\ \A id \in Ids : server[id] <= clock

SentAreTracked(ws, busy) == busy = {m \in 1 .. Len(ws) : ws[m].phase = "sent"}

IInv ==
    /\ Holds(World, 0) /\ ClockIsAhead
    /\ SentAreTracked(calls, tracker) /\ NotBusyMeansShown /\ AreRight(actors, calls)

\* The fields of the world.
LEMMA WorldFields ==
    /\ World.cache = cache /\ World.queue = queue /\ World.applied = 0 /\ World.writes = calls
    /\ World.wire = wire /\ World.stored = server /\ World.asked = requests
BY DEF World

\* The client's state, before and after.
LEMMA StateForm == State = Client(cache, queue, calls, tracker, heard, actors)
BY DEF State, Client

\* A world by its parts.
WorldOf(rows, events, ws, msgs, stored, asked) ==
    [cache |-> rows, queue |-> events, applied |-> 0, writes |-> ws, wire |-> msgs,
     stored |-> stored, asked |-> asked]

\* Its fields.
LEMMA WorldOfFields ==
    ASSUME NEW rows, NEW events, NEW ws, NEW msgs, NEW stored, NEW asked, NEW x,
           x = WorldOf(rows, events, ws, msgs, stored, asked)
    PROVE  /\ x.cache = rows /\ x.queue = events /\ x.applied = 0 /\ x.writes = ws
           /\ x.wire = msgs /\ x.stored = stored /\ x.asked = asked
BY DEF WorldOf

\* The queue is applied.
LEMMA FlushedForm ==
    ASSUME NEW rows, NEW events, NEW ws, NEW msgs, NEW stored, NEW asked, NEW x,
           x = WorldOf(rows, events, ws, msgs, stored, asked),
           NEW z, z = WorldOf(AllApplied(rows, events), << >>, ws, msgs, stored, asked)
    PROVE  Flushes(x, z)
<1> DEFINE new == AllApplied(x.cache, x.queue)
           y == [x EXCEPT !.cache = new, !.queue = << >>]
<1>1. x.cache = rows /\ x.queue = events /\ x.writes = ws /\ x.wire = msgs
      /\ x.stored = stored /\ x.asked = asked
    BY DEF WorldOf
<1>2. new = AllApplied(rows, events)
    BY <1>1
<1>3. y = [x EXCEPT !.cache = new, !.queue = << >>]
    OBVIOUS
<1> HIDE DEF new, y
<1>4. y = WorldOf(new, << >>, ws, msgs, stored, asked)
    BY <1>3 DEF WorldOf
<1> QED
    BY <1>2, <1>4 DEF new, y, Flushes

\* A write is called.
LEMMA CalledForm ==
    ASSUME NEW rows, NEW events, NEW ws, NEW msgs, NEW stored, NEW asked, NEW x,
           x = WorldOf(rows, events, ws, msgs, stored, asked), NEW after, NEW call,
           NEW z, z = WorldOf(after, events, Append(ws, call), msgs, stored, asked \cup {Len(ws) + 1})
    PROVE  Sends(x, z, after, call)
<1> DEFINE next == Append(x.writes, call)
           more == x.asked \cup {Len(x.writes) + 1}
           y == [x EXCEPT !.cache = after, !.writes = next, !.asked = more]
<1>1. x.cache = rows /\ x.queue = events /\ x.writes = ws /\ x.wire = msgs
      /\ x.stored = stored /\ x.asked = asked
    BY DEF WorldOf
<1>2. next = Append(ws, call) /\ more = asked \cup {Len(ws) + 1}
    BY <1>1
<1>3. y = [x EXCEPT !.cache = after, !.writes = next, !.asked = more]
    OBVIOUS
<1> HIDE DEF next, more, y
<1>4. y = WorldOf(after, events, next, msgs, stored, more)
    BY <1>3 DEF WorldOf
<1> QED
    BY <1>2, <1>4 DEF next, more, y, Sends

\* A request is handled.
LEMMA ServedForm ==
    ASSUME NEW rows, NEW events, NEW ws, NEW msgs, NEW stored, NEW asked, NEW x,
           x = WorldOf(rows, events, ws, msgs, stored, asked),
           NEW type, NEW ids, NEW rev, NEW more, NEW m,
           NEW z, z = WorldOf(rows, events, ws, msgs \o more, Saved(stored, type, ids, rev), asked \ {m})
    PROVE  Handles(x, z, m, type, ids, rev, more)
<1> DEFINE saved == Saved(x.stored, type, ids, rev)
           all == x.wire \o more
           left == x.asked \ {m}
           y == [x EXCEPT !.stored = saved, !.wire = all, !.asked = left]
<1>1. x.cache = rows /\ x.queue = events /\ x.writes = ws /\ x.wire = msgs
      /\ x.stored = stored /\ x.asked = asked
    BY DEF WorldOf
<1>2. saved = Saved(stored, type, ids, rev) /\ all = msgs \o more /\ left = asked \ {m}
    BY <1>1
<1>3. y = [x EXCEPT !.stored = saved, !.wire = all, !.asked = left]
    OBVIOUS
<1> HIDE DEF saved, all, left, y
<1>4. y = WorldOf(rows, events, ws, all, saved, left)
    BY <1>3 DEF WorldOf
<1> QED
    BY <1>2, <1>4 DEF saved, all, left, y, Handles

\* A message is taken.
LEMMA TakenForm ==
    ASSUME NEW rows, NEW events, NEW ws, NEW msgs, NEW stored, NEW asked, NEW x,
           x = WorldOf(rows, events, ws, msgs, stored, asked), NEW list, NEW i, NEW next,
           NEW z, z = WorldOf(rows, events \o list, next, RemoveAt(msgs, i), stored, asked)
    PROVE  Takes(x, z, i, list, next)
<1> DEFINE all == x.queue \o list
           left == RemoveAt(x.wire, i)
           y == [x EXCEPT !.queue = all, !.wire = left, !.writes = next]
<1>1. x.cache = rows /\ x.queue = events /\ x.writes = ws /\ x.wire = msgs
      /\ x.stored = stored /\ x.asked = asked
    BY DEF WorldOf
<1>2. all = events \o list /\ left = RemoveAt(msgs, i)
    BY <1>1
<1>3. y = [x EXCEPT !.queue = all, !.wire = left, !.writes = next]
    OBVIOUS
<1> HIDE DEF all, left, y
<1>4. y = WorldOf(rows, all, next, left, stored, asked)
    BY <1>3 DEF WorldOf
<1> QED
    BY <1>2, <1>4 DEF all, left, y, Takes

\* The queue is applied: what it does not name stays.
LEMMA FlushWorld ==
    ASSUME NEW rows, NEW events, NEW ws, NEW msgs, NEW stored, NEW asked, NEW t, NEW x,
           x = WorldOf(rows, events, ws, msgs, stored, asked), Holds(x, t)
    PROVE  /\ Holds(WorldOf(AllApplied(rows, events), << >>, ws, msgs, stored, asked), 0)
           /\ \A id \in Ids : (\A i \in 1 .. Len(events) : events[i].id # id) =>
                 AllApplied(rows, events)[id] = rows[id]
<1> DEFINE y == WorldOf(AllApplied(rows, events), << >>, ws, msgs, stored, asked)
<1>1. Flushes(x, y)
    BY FlushedForm
<1>2. x.applied = 0 /\ x.queue = events /\ x.cache = rows
    BY WorldOfFields
<1>3. y.cache = AllApplied(rows, events)
    BY WorldOfFields
<1> HIDE DEF y
<1>4. /\ Holds(y, 0)
      /\ \A id \in Ids : (\A i \in 1 .. Len(x.queue) : x.queue[i].id # id) => y.cache[id] = x.cache[id]
    BY ONLY <1>1, <1>2, Holds(x, t), FlushHolds
<1> QED
    BY <1>2, <1>3, <1>4 DEF y

\* The world is one.
LEMMA WorldForm == World = WorldOf(cache, queue, calls, wire, server, requests)
BY DEF World, WorldOf

\* What a step of the client leaves.
LEMMA BecomeForm ==
    ASSUME NEW rows, NEW events, NEW ws, NEW busy, NEW told, NEW shown,
           Become(Client(rows, events, ws, busy, told, shown))
    PROVE  /\ cache' = rows /\ queue' = events /\ calls' = ws
           /\ tracker' = busy /\ heard' = told /\ actors' = shown
BY ClientFields DEF Become

\* What the invariant implies about what hooks tell.
LEMMA InvTells == IInv => HooksTellTheTruth
<1> SUFFICES ASSUME IInv PROVE HooksTellTheTruth
    OBVIOUS
<1>1. DOMAIN calls = 1 .. Len(calls) /\ calls \in Seq(Write)
    BY WorldTypes, WorldFields DEF IInv, Holds
<1>2. ASSUME NEW c, NEW doors PROVE InFlight(c, doors) = FlightOf(calls, c, doors)
    BY <1>1 DEF InFlight, FlightOf
<1>3. ASSUME NEW c \in Actors, actors[c].phase = "mounted", ~ actors[c].hid
      PROVE  /\ actors[c].action.pending = Cardinality(InFlight(c, {"handle"}))
             /\ actors[c].action.slot # NoOutcome =>
                    calls[actors[c].action.slot.call].phase =
                        IF actors[c].action.slot.kind = "data" THEN "done" ELSE "failed"
             /\ InFlight(c, {"direct"}) = {} => actors[c].mutation.status # "loading"
             /\ actors[c].mutation.status = "success" => calls[actors[c].mutation.data].phase = "done"
             /\ actors[c].mutation.status = "error" => calls[actors[c].mutation.error].phase = "failed"
  <2>1. IsRight(actors[c], c, calls)
      BY <1>3 DEF IInv, AreRight
  <2>2. InFlight(c, {"handle"}) = FlightOf(calls, c, {"handle"})
        /\ InFlight(c, {"direct"}) = FlightOf(calls, c, {"direct"})
      BY <1>2
  <2> QED
      BY <2>1, <2>2 DEF IsRight
<1>4. OwnStateIsTrue
    BY <1>3 DEF OwnStateIsTrue
<1> QED
    BY <1>4 DEF IInv, HooksTellTheTruth

\* At the start nothing is under way.
LEMMA InitHolds == Init => IInv
<1> SUFFICES ASSUME Init PROVE IInv
    OBVIOUS
<1>1. PICK held \in Stored : server = [id \in Ids |-> IF id \in held THEN 1 ELSE 0]
    BY DEF Init
<1>2. /\ cache = server /\ queue = << >> /\ calls = << >> /\ wire = << >> /\ requests = {}
      /\ clock = 1 /\ tracker = {}
    BY DEF Init
<1>3. \A id \in Ids : server[id] \in {0, 1}
    BY <1>1
<1>4. server \in [Ids -> 0 .. MaxRevs] /\ cache \in Rows
    BY <1>1, <1>2, RevsBelowLocal DEF Rows
<1>5. World \in Worlds
  <2>1. /\ queue \in Seq(Event) /\ calls \in Seq(Write) /\ wire \in Seq(Answer \cup News)
        /\ requests \in SUBSET Nat
      BY <1>2
  <2> QED
      BY <1>4, <2>1 DEF World, Worlds
<1>6. Len(queue) = 0 /\ Len(calls) = 0 /\ Len(wire) = 0 /\ 1 .. 0 = {}
    BY <1>2
<1>7. 1 .. Len(World.writes) = {} /\ 1 .. Len(World.wire) = {} /\ Waiting(World) = {}
      /\ World.asked = {}
    BY <1>2, <1>6, WorldFields DEF Waiting
<1>8. \A e : ~ UnderWay(World, e)
    BY <1>7 DEF UnderWay
<1>9. World.cache = World.stored /\ \A id \in Ids : World.cache[id] # Local
    BY <1>2, <1>3, WorldFields DEF Local
<1>10. Ordered(World) /\ Single(World) /\ AnswersFit(World) /\ WritesFit(World)
    BY <1>7 DEF Ordered, Single, AnswersFit, WritesFit, AnswerOf
<1>11. Stamped(World) /\ CreatedFirst(World)
    BY <1>8 DEF Stamped, CreatedFirst
<1>12. StoredArrives(World)
  <2>1. \A id \in Ids : World.cache[id] = World.stored[id] /\ World.cache[id] <= World.stored[id]
    <3>1. World.cache = server /\ World.stored = server
        BY <1>2, WorldFields
    <3> QED
        BY <1>3, <3>1
  <2> QED
      BY <1>8, <2>1 DEF StoredArrives
<1>13. RemovedArrives(World) /\ StrangersRest(World)
    BY <1>8, <1>9 DEF RemovedArrives, StrangersRest, Absent
<1>14. DoneIsShown(World, 0) /\ LocalIsSent(World, 0) /\ UnbornAreNew(World)
    BY <1>7, <1>9 DEF DoneIsShown, LocalIsSent, UnbornAreNew
<1>15. Holds(World, 0)
    BY <1>5, <1>10, <1>11, <1>12, <1>13, <1>14 DEF Holds
<1>16. ClockIsAhead
    BY <1>2, <1>3, RevsBelowLocal DEF ClockIsAhead
<1>17. SentAreTracked(calls, tracker)
    BY <1>2, <1>6 DEF SentAreTracked
<1>18. NotBusyMeansShown
    BY DEF Init, NotBusyMeansShown
<1>19. AreRight(actors, calls)
  <2>1. actors = [c \in Actors |-> NewActor]
      BY DEF Init
  <2>2. NewActor \in Actor
      BY DEF NewActor, Actor, NoOutcome
  <2>3. ASSUME NEW c PROVE IsRight(NewActor, c, calls)
    <3>1. FlightOf(calls, c, {"handle"}) = {}
        BY <1>6 DEF FlightOf
    <3>2. Cardinality(FlightOf(calls, c, {"handle"})) = 0
        BY <3>1, FS_EmptySet
    <3> QED
        BY <3>2 DEF IsRight, NewActor
  <2> QED
      BY <2>1, <2>2, <2>3 DEF AreRight
<1> QED
    BY <1>15, <1>16, <1>17, <1>18, <1>19 DEF IInv

-----------------------------------------------------------------------------
(* The steps of the client.                                                *)

\* Every write in flight has its entry in the tracker: one begins.
LEMMA TrackedCall ==
    ASSUME NEW ws \in Seq(Write), NEW busy, SentAreTracked(ws, busy), NEW call \in Write,
           call.phase = "sent"
    PROVE  SentAreTracked(Append(ws, call), busy \cup {Len(ws) + 1})
<1> DEFINE N == Len(ws)
           next == Append(ws, call)
<1>1. /\ N \in Nat /\ Len(next) = N + 1 /\ next[N + 1] = call
      /\ \A m \in 1 .. N : next[m] = ws[m]
    BY LenProperties, AppendProperties
<1>2. busy = {m \in 1 .. N : ws[m].phase = "sent"}
    BY DEF SentAreTracked
<1> HIDE DEF N, next
<1>3. \A m : m \in 1 .. N + 1 <=> m \in 1 .. N \/ m = N + 1
    BY <1>1
<1>4. busy \cup {N + 1} = {m \in 1 .. N + 1 : next[m].phase = "sent"}
    BY <1>1, <1>2, <1>3
<1> QED
    BY <1>1, <1>4 DEF SentAreTracked, N, next

\* And one ends.
LEMMA TrackedEnd ==
    ASSUME NEW ws \in Seq(Write), NEW busy, SentAreTracked(ws, busy), NEW m \in 1 .. Len(ws),
           NEW next, Len(next) = Len(ws), \A k \in 1 .. Len(ws) : k # m => next[k] = ws[k],
           next[m].phase # "sent"
    PROVE  SentAreTracked(next, busy \ {m})
BY DEF SentAreTracked

\* A component calls a write that takes no lane.
LEMMA CallIsSensible ==
    ASSUME World \in Worlds, NEW c \in Actors, NEW door \in Doors, NEW method \in Methods,
           NEW ids \in SUBSET Ids, Call(c, door, method, ids), NEW call,
           call = [by |-> c, door |-> door, method |-> method, ids |-> ids, rev |-> 0, phase |-> "sent"]
    PROVE  /\ call \in Write /\ call.phase = "sent" /\ call.by = c /\ call.door = door
           /\ call.ids = ids /\ call.method = method
           /\ door = "handle" <=> method \in Unnamed
           /\ method \in {"patchAll", "call"} => ids = {}
           /\ method \in {"create", "createMany"} =>
                 \A id \in ids : server[id] = 0 /\ cache[id] = Absent /\ ~ Known(World, id)
           /\ method \in {"patch", "remove"} => \A id \in ids : cache[id] \notin {Absent, Local}
<1>1. call \in Write
    BY DEF Write
<1>2. door = "handle" <=> method \in Unnamed
    BY DEF Call, TakesLane, Doors
<1>3. Sensible(method, ids)
    BY DEF Call
<1>4. DOMAIN calls = 1 .. Len(calls)
    BY WorldTypes, WorldFields
<1>5. ASSUME NEW id, Fresh(id) PROVE server[id] = 0 /\ cache[id] = Absent /\ ~ Known(World, id)
    BY <1>4, <1>5, WorldFields DEF Fresh, Known
<1>6. method \in {"create", "createMany"} => \A id \in ids : Fresh(id)
    BY <1>3 DEF Sensible
<1>7. method \in {"patch", "remove"} => \A id \in ids : cache[id] \notin {Absent, Local}
    BY <1>3 DEF Sensible
<1>8. method \in {"patchAll", "call"} => ids = {}
    BY <1>3 DEF Sensible
<1> QED
    BY <1>1, <1>2, <1>5, <1>6, <1>7, <1>8

\* What a call does to the client.
LEMMA CallForm ==
    ASSUME NEW c, NEW door, NEW method, NEW ids, Call(c, door, method, ids), NEW call,
           call = [by |-> c, door |-> door, method |-> method, ids |-> ids, rev |-> 0, phase |-> "sent"]
    PROVE  /\ cache' = CalledRows(cache, queue, call) /\ queue' = CalledQueue(queue, call)
           /\ calls' = Append(calls, call) /\ tracker' = tracker \cup {Len(calls) + 1}
           /\ heard' = ToldOf(cache, Append(calls, call), tracker \cup {Len(calls) + 1})
           /\ actors' = ActorsBegan(actors, c, door)
           /\ requests' = requests \cup {Len(calls) + 1}
           /\ server' = server /\ clock' = clock /\ wire' = wire
<1> DEFINE m == Len(calls) + 1
           rows == CalledRows(cache, queue, call)
           events == CalledQueue(queue, call)
           ws == Append(calls, call)
           busy == tracker \cup {m}
           told == ToldOf(cache, ws, busy)
           shown == ActorsBegan(actors, c, door)
<1>1. Become(Registered(Begun(State, c, door), call))
    BY DEF Call
<1>2. Registered(Begun(Client(cache, queue, calls, tracker, heard, actors), c, door), call) =
          Client(rows, events, ws, busy, told, shown)
    BY RegisteredForm
<1>3. Registered(Begun(State, c, door), call) = Client(rows, events, ws, busy, told, shown)
    BY <1>2, StateForm
<1> HIDE DEF rows, events, ws, busy, told, shown
<1>4. Become(Client(rows, events, ws, busy, told, shown))
    BY <1>1, <1>3
<1>5. /\ cache' = rows /\ queue' = events /\ calls' = ws
      /\ tracker' = busy /\ heard' = told /\ actors' = shown
    BY ONLY <1>4, BecomeForm
<1>6. requests' = requests \cup {m} /\ server' = server /\ clock' = clock /\ wire' = wire
    BY DEF Call
<1> QED
    BY <1>5, <1>6 DEF rows, events, ws, busy, told, shown

\* The queue has nothing of a record that could be created.
LEMMA QueueLacks ==
    ASSUME Holds(World, 0), NEW id \in Ids, cache[id] = Absent, ~ Known(World, id)
    PROVE  \A i \in 1 .. Len(World.queue) : World.queue[i].id # id
<1> SUFFICES ASSUME NEW i \in 1 .. Len(World.queue), World.queue[i].id = id PROVE FALSE
    OBVIOUS
<1>1. \A e \in Event : UnderWay(World, e) => e.id # id
    BY WorldFields DEF Holds, StrangersRest
<1>2. World.queue[i] \in Event /\ Len(World.queue) \in Nat
    BY WorldTypes DEF Holds
<1>3. i \in Waiting(World)
    BY <1>2, WorldFields DEF Waiting
<1>4. UnderWay(World, World.queue[i])
    BY <1>3 DEF UnderWay
<1> QED
    BY <1>1, <1>2, <1>4

\* The world after a call.
LEMMA CallStepHolds ==
    ASSUME IInv, NEW c \in Actors, NEW door \in Doors, NEW method \in Methods,
           NEW ids \in SUBSET Ids, Call(c, door, method, ids)
    PROVE  Holds(World, 0)'
<1> DEFINE call == [by |-> c, door |-> door, method |-> method, ids |-> ids, rev |-> 0,
                    phase |-> "sent"]
<1>1. Holds(World, 0) /\ World \in Worlds
    BY DEF IInv, Holds
<1>2. /\ call \in Write /\ call.phase = "sent" /\ call.by = c /\ call.door = door
      /\ call.ids = ids /\ call.method = method
      /\ door = "handle" <=> method \in Unnamed
      /\ method \in {"patchAll", "call"} => ids = {}
      /\ method \in {"create", "createMany"} =>
            \A id \in ids : server[id] = 0 /\ cache[id] = Absent /\ ~ Known(World, id)
      /\ method \in {"patch", "remove"} => \A id \in ids : cache[id] \notin {Absent, Local}
    BY <1>1, CallIsSensible
<1>3. /\ cache' = CalledRows(cache, queue, call) /\ queue' = CalledQueue(queue, call)
      /\ calls' = Append(calls, call)
      /\ requests' = requests \cup {Len(calls) + 1}
      /\ server' = server /\ wire' = wire
    BY CallForm
<1> HIDE DEF call
<1>4. cache \in Rows /\ queue \in Seq(Event)
    BY <1>1, WorldTypes, WorldFields DEF Rows
<1>5. CASE method # "createMany"
  <2>1. ~ IsShownFirst(call)
      BY <1>2, <1>5 DEF IsShownFirst
  <2>2. cache' = cache /\ queue' = queue
      BY <1>3, <2>1 DEF CalledRows, CalledQueue
  <2>3. World' = WorldOf(cache, queue, Append(calls, call), wire, server,
                         requests \cup {Len(calls) + 1})
      BY <1>3, <2>2 DEF World, WorldOf
  <2>4. Sends(World, World', cache, call)
      BY <2>3, WorldForm, CalledForm
  <2>5. \A id \in Ids : cache[id] = IF call.method = "createMany" /\ id \in call.ids THEN Local
                                   ELSE World.cache[id]
      BY <1>2, <1>5, WorldFields
  <2>6. Calls(World, World', call)
      BY <1>2, <1>4, <2>4, <2>5, WorldFields DEF Calls
  <2> QED
      BY <1>1, <2>6, CallHolds, WorldFields
<1>6. CASE method = "createMany"
  <2>1. door = "handle"
      BY <1>2, <1>6 DEF Unnamed
  <2>2. IsShownFirst(call)
      BY <1>2, <1>6, <2>1 DEF IsShownFirst, IsOptimistic
  <2> DEFINE first == AllApplied(cache, queue)
             x == WorldOf(first, << >>, calls, wire, server, requests)
             list == EventsOf("created", ids, Local)
             rows == AllApplied(cache, queue \o list)
  <2>3. /\ list \in Seq(Showing)
        /\ \A k \in 1 .. Len(list) :
              list[k].type = "created" /\ list[k].rev = Local /\ list[k].id \in ids
        /\ \A id \in ids : \E k \in 1 .. Len(list) : list[k].id = id
    <3>1. "created" \in EventTypes /\ Local \in (0 .. MaxRevs) \cup {Local}
        BY DEF EventTypes
    <3> HIDE DEF list
    <3>2. /\ list \in Seq(Showing)
          /\ \A k \in 1 .. Len(list) :
                list[k].type = "created" /\ list[k].id \in ids /\ list[k].rev = Local
          /\ \A id \in ids : \E k \in 1 .. Len(list) :
                list[k] = [type |-> "created", id |-> id, rev |-> Local]
      <4>1. Lists(list, "created", ids, Local)
          BY ONLY <3>1, ids \in SUBSET Ids, EventsOfDoes DEF list
      <4> QED
          BY <4>1 DEF Lists
    <3>3. \A id \in ids : \E k \in 1 .. Len(list) : list[k].id = id
      <4> SUFFICES ASSUME NEW id \in ids PROVE \E k \in 1 .. Len(list) : list[k].id = id
          OBVIOUS
      <4>1. PICK k \in 1 .. Len(list) : list[k] = [type |-> "created", id |-> id, rev |-> Local]
          BY <3>2
      <4> QED
          BY <4>1
    <3> QED
        BY <3>2, <3>3
  <2>4. first \in Rows /\ rows = AllApplied(first, list)
      BY <1>4, <2>3, EventsShow, AllAppliedJoins
  <2>5. /\ Holds(x, 0)
        /\ \A id \in Ids : (\A i \in 1 .. Len(queue) : queue[i].id # id) => first[id] = cache[id]
      BY <1>1, WorldForm, FlushWorld
  <2> HIDE DEF list, rows, first
  <2>6. /\ rows \in Rows
        /\ \A id \in Ids : rows[id] = IF \E k \in 1 .. Len(list) : list[k].id = id
                                      THEN Local ELSE first[id]
    <3>1. \A k \in 1 .. Len(list) : list[k].type = "created" /\ list[k].rev = Local
        BY <2>3
    <3> QED
        BY ONLY <2>3, <2>4, <3>1, AllShown
  <2>7. cache' = rows /\ queue' = << >>
      BY <1>2, <1>3, <2>2 DEF CalledRows, CalledQueue, list, rows
  <2>8. World' = WorldOf(rows, << >>, Append(calls, call), wire, server, requests \cup {Len(calls) + 1})
      BY <1>3, <2>7 DEF World, WorldOf
  <2>9. /\ x.cache = first /\ x.applied = 0 /\ x.writes = calls /\ x.stored = server
      BY WorldOfFields
  <2>10. Sends(x, World', rows, call)
      BY <2>8, CalledForm
  <2> HIDE DEF x
  <2>11. \A id \in ids : x.stored[id] = 0 /\ x.cache[id] = Absent /\ ~ Known(x, id)
    <3> SUFFICES ASSUME NEW id \in ids
                 PROVE  x.stored[id] = 0 /\ x.cache[id] = Absent /\ ~ Known(x, id)
        OBVIOUS
    <3>1. id \in Ids /\ server[id] = 0 /\ cache[id] = Absent /\ ~ Known(World, id)
        BY <1>2, <1>6
    <3>2. first[id] = cache[id]
        BY <1>1, <2>5, <3>1, QueueLacks, WorldFields
    <3> QED
        BY <2>9, <3>1, <3>2, WorldFields DEF Known
  <2>12. Calls(x, World', call)
    <3>1. \A id \in Ids : rows[id] = IF call.method = "createMany" /\ id \in call.ids THEN Local
                                     ELSE x.cache[id]
        BY <1>2, <1>6, <2>3, <2>6, <2>9
    <3>2. call.method = "createMany" /\ call.door = "handle" /\ "createMany" \in Unnamed
        BY <1>2, <1>6, <2>1 DEF Unnamed
    <3>3. \A id \in call.ids : x.stored[id] = 0 /\ x.cache[id] = Absent /\ ~ Known(x, id)
        BY <1>2, <2>11
    <3> QED
        BY <1>2, <2>6, <2>10, <3>1, <3>2, <3>3 DEF Calls
  <2> QED
      BY <2>5, <2>9, <2>12, CallHolds
<1> QED
    BY <1>5, <1>6

\* A call keeps the invariant.
LEMMA CallStep ==
    ASSUME IInv, NEW c \in Actors, NEW door \in Doors, NEW method \in Methods,
           NEW ids \in SUBSET Ids, Call(c, door, method, ids)
    PROVE  IInv'
<1> DEFINE call == [by |-> c, door |-> door, method |-> method, ids |-> ids, rev |-> 0,
                    phase |-> "sent"]
           m == Len(calls) + 1
           ws == Append(calls, call)
           busy == tracker \cup {m}
<1>1. Holds(World, 0)'
    BY CallStepHolds
<1>2. /\ Holds(World, 0) /\ World \in Worlds /\ ClockIsAhead /\ SentAreTracked(calls, tracker)
      /\ AreRight(actors, calls)
    BY DEF IInv, Holds
<1>3. call \in Write /\ call.phase = "sent" /\ call.by = c /\ call.door = door
    BY <1>2, CallIsSensible
<1>4. /\ calls' = ws /\ tracker' = busy /\ heard' = ToldOf(cache, ws, busy)
      /\ actors' = ActorsBegan(actors, c, door) /\ server' = server /\ clock' = clock
    BY CallForm
<1> HIDE DEF call
<1>5. calls \in Seq(Write)
    BY <1>2, WorldTypes, WorldFields
<1>6. ClockIsAhead'
    BY <1>2, <1>4 DEF ClockIsAhead
<1>7. SentAreTracked(ws, busy)
    BY <1>2, <1>3, <1>5, TrackedCall
<1>8. NotBusyMeansShown'
  <2>1. ASSUME NEW k \in DOMAIN ws
        PROVE  \/ k \in busy
               \/ k \in 1 .. Len(World.writes) /\ ws[k] = World.writes[k] /\ ws[k].phase # "sent"
    <3>1. /\ Len(calls) \in Nat /\ Len(ws) = m /\ DOMAIN ws = 1 .. m
          /\ \A n \in 1 .. Len(calls) : ws[n] = calls[n]
        BY <1>3, <1>5, LenProperties, AppendProperties
    <3>2. k \in 1 .. Len(calls) \/ k = m
        BY <3>1
    <3>3. ws[k].phase = "sent" => k \in busy
        BY <1>7, <3>1 DEF SentAreTracked
    <3> QED
        BY <3>1, <3>2, <3>3, WorldFields
  <2> HIDE DEF ws, busy
  <2>2. \A f \in Filters : ~ ToldOf(World.cache, ws, busy)[f].busy =>
            ToldOf(World.cache, ws, busy)[f].unseen = {}
      BY ONLY <1>2, <2>1, ChangedTells
  <2> QED
      BY <1>4, <2>2, WorldFields DEF NotBusyMeansShown
<1>9. AreRight(actors, calls)'
  <2>1. actors[call.by].phase = "mounted"
      BY <1>3 DEF Call
  <2> QED
      BY <1>2, <1>3, <1>4, <1>5, <2>1, CallIsRight
<1> QED
    BY <1>1, <1>4, <1>6, <1>7, <1>8, <1>9 DEF IInv

\* What does not concern the writes does not concern what is told of them.
LEMMA ToldStays ==
    ASSUME IInv, Holds(World, 0)', ClockIsAhead',
           UNCHANGED <<calls, tracker, heard, actors>>
    PROVE  IInv'
<1>1. SentAreTracked(calls, tracker)'
    BY DEF IInv, SentAreTracked
<1>2. NotBusyMeansShown'
    BY DEF IInv, NotBusyMeansShown
<1>3. AreRight(actors, calls)'
    BY DEF IInv
<1> QED
    BY <1>1, <1>2, <1>3 DEF IInv

\* What concerns a component and none of the writes.
LEMMA ActorStep ==
    ASSUME IInv, UNCHANGED <<cache, queue, calls, tracker, heard, server, clock, requests, wire>>,
           actors' \in [Actors -> Actor],
           \A c \in Actors : ~ actors'[c].hid => IsRight(actors'[c], c, calls)
    PROVE  IInv'
<1>1. World' = World
    BY DEF World
<1>2. Holds(World, 0)' /\ ClockIsAhead' /\ SentAreTracked(calls, tracker)' /\ NotBusyMeansShown'
    BY <1>1 DEF IInv, ClockIsAhead, SentAreTracked, NotBusyMeansShown
<1>3. AreRight(actors, calls)'
    BY DEF AreRight
<1> QED
    BY <1>2, <1>3 DEF IInv

\* An outcome is forgotten.
LEMMA ResetStep == ASSUME IInv, NEW c \in Actors, Reset(c) PROVE IInv'
<1>1. actors \in [Actors -> Actor] /\ \A b \in Actors : ~ actors[b].hid => IsRight(actors[b], b, calls)
    BY DEF IInv, AreRight
<1> DEFINE a == actors[c]
           new == [a EXCEPT !.action.slot = NoOutcome]
<1>2. actors' = [actors EXCEPT ![c] = new]
    BY <1>1 DEF Reset
<1>3. a \in Actor
    BY <1>1
<1> HIDE DEF a
<1>4. /\ new.phase = a.phase /\ new.hid = a.hid /\ new.mutation = a.mutation
      /\ new.action.pending = a.action.pending /\ new.action.slot = NoOutcome
    BY <1>3 DEF Actor
<1>5. new \in Actor
    BY <1>3 DEF Actor, NoOutcome
<1> HIDE DEF new
<1>6. actors' \in [Actors -> Actor] /\ \A b \in Actors : actors'[b] = IF b = c THEN new ELSE actors[b]
    BY <1>1, <1>2, <1>5
<1>7. ~ new.hid => IsRight(new, c, calls)
  <2> SUFFICES ASSUME ~ new.hid PROVE IsRight(new, c, calls)
      OBVIOUS
  <2>1. IsRight(a, c, calls)
      BY <1>1, <1>4 DEF a
  <2> QED
      BY <1>4, <2>1 DEF IsRight
<1>8. UNCHANGED <<cache, queue, calls, tracker, heard, server, clock, requests, wire>>
    BY DEF Reset
<1> QED
    BY <1>1, <1>6, <1>7, <1>8, ActorStep

\* A component is hidden.
LEMMA HideStep == ASSUME IInv, NEW c \in Actors, Hide(c) PROVE IInv'
<1>1. actors \in [Actors -> Actor] /\ \A b \in Actors : ~ actors[b].hid => IsRight(actors[b], b, calls)
    BY DEF IInv, AreRight
<1> DEFINE a == actors[c]
           new == [a EXCEPT !.phase = "hidden", !.hid = TRUE]
<1>2. actors' = [actors EXCEPT ![c] = new]
    BY <1>1 DEF Hide
<1>3. a \in Actor
    BY <1>1
<1> HIDE DEF a
<1>4. new \in Actor /\ new.hid
    BY <1>3 DEF Actor
<1> HIDE DEF new
<1>5. actors' \in [Actors -> Actor] /\ \A b \in Actors : actors'[b] = IF b = c THEN new ELSE actors[b]
    BY <1>1, <1>2, <1>4
<1>6. UNCHANGED <<cache, queue, calls, tracker, heard, server, clock, requests, wire>>
    BY DEF Hide
<1> QED
    BY <1>1, <1>4, <1>5, <1>6, ActorStep

\* It is shown again.
LEMMA ShowStep == ASSUME IInv, NEW c \in Actors, Show(c) PROVE IInv'
<1>1. actors \in [Actors -> Actor] /\ \A b \in Actors : ~ actors[b].hid => IsRight(actors[b], b, calls)
    BY DEF IInv, AreRight
<1> DEFINE a == actors[c]
           new == [a EXCEPT !.phase = "mounted"]
<1>2. actors' = [actors EXCEPT ![c] = new]
    BY <1>1 DEF Show
<1>3. a \in Actor /\ a.phase # "mounted"
    BY <1>1 DEF Show
<1>4. a.hid
  <2> SUFFICES ASSUME ~ a.hid PROVE FALSE
      BY <1>3 DEF Actor
  <2>1. IsRight(a, c, calls)
      BY <1>1
  <2> QED
      BY <1>3, <2>1 DEF IsRight
<1> HIDE DEF a
<1>5. new \in Actor /\ new.hid
    BY <1>3, <1>4 DEF Actor
<1> HIDE DEF new
<1>6. actors' \in [Actors -> Actor] /\ \A b \in Actors : actors'[b] = IF b = c THEN new ELSE actors[b]
    BY <1>1, <1>2, <1>5
<1>7. UNCHANGED <<cache, queue, calls, tracker, heard, server, clock, requests, wire>>
    BY DEF Show
<1> QED
    BY <1>1, <1>5, <1>6, <1>7, ActorStep

\* The batch timer fires.
LEMMA TimerStep == ASSUME IInv, BatchTimer PROVE IInv'
<1> DEFINE rows == AllApplied(cache, queue)
<1>1. Flush(Client(cache, queue, calls, tracker, heard, actors)) =
          Client(rows, << >>, calls, tracker, heard, actors)
    BY FlushForm
<1>2. Become(Client(rows, << >>, calls, tracker, heard, actors))
    BY <1>1, StateForm DEF BatchTimer
<1> HIDE DEF rows
<1>3. /\ cache' = rows /\ queue' = << >> /\ calls' = calls
      /\ tracker' = tracker /\ heard' = heard /\ actors' = actors
    BY ONLY <1>2, BecomeForm
<1>4. server' = server /\ clock' = clock /\ wire' = wire /\ requests' = requests
    BY DEF BatchTimer
<1>5. World' = WorldOf(rows, << >>, calls, wire, server, requests)
    BY <1>3, <1>4 DEF World, WorldOf
<1>6. Holds(World, 0)
    BY DEF IInv
<1>7. Holds(WorldOf(rows, << >>, calls, wire, server, requests), 0)
    BY <1>6, WorldForm, FlushWorld DEF rows
<1>8. Holds(World, 0)'
    BY <1>5, <1>7
<1>9. ClockIsAhead'
    BY <1>4 DEF IInv, ClockIsAhead
<1> QED
    BY <1>3, <1>8, <1>9, ToldStays

-----------------------------------------------------------------------------
(* The steps of the server.                                                *)

\* What is told of a write: an answer,
LEMMA ReportsAnswer ==
    ASSUME NEW x, NEW m, NEW type, NEW rev, NEW a \in Answer, m # 0, Tells(x, m, type, {}, rev, a)
    PROVE  Reports(x, m, type, {}, rev, << a >>)
<1> DEFINE msgs == << a >>
<1>1. msgs \in Seq(Answer \cup News) /\ Len(msgs) = 1 /\ msgs[1] = a /\ 1 \in 1 .. 1
    OBVIOUS
<1>2. a.kind = "answer"
    BY DEF Answer
<1> HIDE DEF msgs
<1>3. \A k \in 1 .. Len(msgs) : k = 1
    BY <1>1
<1>4. Reports(x, m, type, {}, rev, msgs)
    BY <1>1, <1>2, <1>3 DEF Reports
<1> QED
    BY <1>4 DEF msgs

\* or events,
LEMMA ReportsNews ==
    ASSUME NEW x, NEW type, NEW ids, NEW rev, NEW e \in News, Tells(x, 0, type, ids, rev, e)
    PROVE  Reports(x, 0, type, ids, rev, << e >>)
<1> DEFINE msgs == << e >>
<1>1. msgs \in Seq(Answer \cup News) /\ Len(msgs) = 1 /\ msgs[1] = e /\ 1 \in 1 .. 1
    OBVIOUS
<1>2. e.kind = "events"
    BY DEF News
<1> HIDE DEF msgs
<1>3. \A k \in 1 .. Len(msgs) : k = 1
    BY <1>1
<1>4. Reports(x, 0, type, ids, rev, msgs)
    BY <1>1, <1>2, <1>3 DEF Reports
<1> QED
    BY <1>4 DEF msgs

\* Two messages, one after the other.
LEMMA Joined ==
    ASSUME NEW p, NEW q
    PROVE  << p >> \o << q >> = << p, q >>
<1> DEFINE S == {p, q}
           s == << p >> \o << q >>
           t == << p, q >>
<1>1. /\ << p >> \in Seq(S) /\ << q >> \in Seq(S) /\ Len(<< p >>) = 1 /\ Len(<< q >>) = 1
      /\ << p >>[1] = p /\ << q >>[1] = q
    OBVIOUS
<1>2. s \in Seq(S) /\ Len(s) = 2 /\ s[1] = p /\ s[2] = q
  <2>1. /\ s \in Seq(S) /\ Len(s) = Len(<< p >>) + Len(<< q >>)
        /\ \A i \in 1 .. Len(<< p >>) + Len(<< q >>) :
              s[i] = IF i <= Len(<< p >>) THEN << p >>[i] ELSE << q >>[i - Len(<< p >>)]
      BY ONLY <1>1, ConcatProperties
  <2>2. \A i \in 1 .. 2 : s[i] = IF i <= 1 THEN << p >>[i] ELSE << q >>[i - 1]
      BY <1>1, <2>1
  <2> QED
      BY <1>1, <2>1, <2>2
<1>3. t \in Seq(S) /\ Len(t) = 2 /\ t[1] = p /\ t[2] = q
    OBVIOUS
<1> HIDE DEF s, t
<1>4. \A i \in 1 .. Len(s) : s[i] = t[i]
    BY <1>2, <1>3
<1> QED
    BY <1>2, <1>3, <1>4, SeqEqual DEF s, t

\* or both, in any order.
LEMMA ReportsBoth ==
    ASSUME NEW x, NEW m, NEW type, NEW ids, NEW rev, NEW a \in Answer, NEW e \in News, m # 0,
           Tells(x, m, type, ids, rev, a), Tells(x, m, type, ids, rev, e),
           NEW msgs, msgs = << a, e >> \/ msgs = << e, a >>
    PROVE  Reports(x, m, type, ids, rev, msgs)
<1>1. msgs \in Seq(Answer \cup News) /\ Len(msgs) = 2
  <2>1. a \in Answer \cup News /\ e \in Answer \cup News
      OBVIOUS
  <2>2. CASE msgs = << a, e >>
      BY ONLY <2>1, <2>2
  <2>3. CASE msgs = << e, a >>
      BY ONLY <2>1, <2>3
  <2> QED
      BY <2>2, <2>3
<1>2. (msgs[1] = a /\ msgs[2] = e) \/ (msgs[1] = e /\ msgs[2] = a)
    OBVIOUS
<1>3. a.kind = "answer" /\ e.kind = "events"
    BY DEF Answer, News
<1>4. 1 .. Len(msgs) = {1, 2} /\ 1 # 2
    BY <1>1
<1>5. \A k \in 1 .. Len(msgs) : Tells(x, m, type, ids, rev, msgs[k])
    BY <1>2, <1>4
<1>6. \E k \in {1, 2} : msgs[k].kind = "answer" /\ \A l \in {1, 2} : l # k => msgs[l].kind # "answer"
  <2>1. CASE msgs[1] = a /\ msgs[2] = e
    <3>1. msgs[1].kind = "answer" /\ \A l \in {1, 2} : l # 1 => msgs[l].kind # "answer"
        BY <1>3, <2>1
    <3> QED
        BY <3>1
  <2>2. CASE msgs[1] = e /\ msgs[2] = a
    <3>1. msgs[2].kind = "answer" /\ \A l \in {1, 2} : l # 2 => msgs[l].kind # "answer"
        BY <1>3, <2>2
    <3> QED
        BY <3>1
  <2> QED
      BY <1>2, <2>1, <2>2
<1>7. \E k \in {1, 2} : msgs[k].kind = "events"
    BY <1>2, <1>3
<1>8. Len(msgs) \in 1 .. 2
    BY <1>1
<1> QED
    BY <1>1, <1>4, <1>5, <1>6, <1>7, <1>8 DEF Reports

\* The events of a write tell of it.
LEMMA NewsTells ==
    ASSUME NEW x, NEW m, NEW type \in EventTypes, NEW ids \in SUBSET Ids, NEW rev \in 1 .. MaxRevs,
           NEW e, e = [kind |-> "events", list |-> EventsOf(type, ids, rev)]
    PROVE  e \in News /\ Tells(x, m, type, ids, rev, e)
<1> DEFINE list == EventsOf(type, ids, rev)
<1>1. rev \in (0 .. MaxRevs) \cup {Local} /\ rev # Local
    BY RevsBelowLocal
<1>2. Lists(list, type, ids, rev)
    BY ONLY <1>1, type \in EventTypes, ids \in SUBSET Ids, EventsOfDoes
<1> HIDE DEF list
<1>3. e.list = list /\ e \in News
    BY <1>1, <1>2 DEF Lists, News, list
<1> QED
    BY <1>2, <1>3 DEF Lists, Tells

\* The types of events.
LEMMA TypesOfEvents ==
    ASSUME NEW method \in Methods
    PROVE  /\ EventType(method) \in EventTypes
           /\ EventType(method) = "created" <=> method \in {"create", "createMany"}
           /\ EventType(method) = "removed" <=> method = "remove"
BY DEF Methods, EventType, EventTypes

\* What the server does to itself.
LEMMA WrittenForm ==
    ASSUME NEW method \in Methods, NEW ids, NEW rev
    PROVE  Written(method, ids, rev) = Saved(server, EventType(method), ids, rev)
<1>1. EventType(method) = "removed" <=> method = "remove"
    BY TypesOfEvents
<1> QED
    BY <1>1 DEF Written, Saved

\* Without a record nothing is written.
LEMMA NothingSaved ==
    ASSUME server \in [Ids -> 0 .. MaxRevs], NEW type, NEW rev
    PROVE  Saved(server, type, {}, rev) = server
BY DEF Saved

\* Another client writes.
LEMMA OtherWriteStep ==
    ASSUME IInv, NEW id \in Ids, NEW method \in {"patch", "remove"}, OtherWrite(id, method)
    PROVE  IInv'
<1> DEFINE rev == clock + 1
           type == EventType(method)
           e == [kind |-> "events", list |-> EventsOf(type, {id}, rev)]
           stored == Saved(server, type, {id}, rev)
<1>1. /\ Holds(World, 0) /\ World \in Worlds /\ ClockIsAhead /\ AnswersFit(World)
    BY DEF IInv, Holds
<1>2. server[id] # 0 /\ clock < MaxRevs
    BY DEF OtherWrite
<1>3. method \in Methods /\ type \in EventTypes /\ type # "created"
    BY TypesOfEvents DEF Methods
<1>4. /\ rev \in 1 .. MaxRevs /\ \A b \in Ids : server[b] < rev
  <2>1. server \in [Ids -> 0 .. MaxRevs] /\ clock \in 1 .. MaxRevs /\ \A b \in Ids : server[b] <= clock
      BY <1>1, WorldTypes, WorldFields DEF ClockIsAhead
  <2> QED
      BY <1>2, <2>1, RevsBelowLocal
<1>5. e \in News /\ Tells(World, 0, type, {id}, rev, e)
    BY <1>3, <1>4, NewsTells
<1>6. /\ server' = stored /\ wire' = Append(wire, e) /\ clock' = rev
      /\ UNCHANGED <<cache, queue, calls, tracker, heard, actors, requests>>
  <2>1. Written(method, {id}, rev) = stored
      BY <1>3, WrittenForm
  <2> QED
      BY <2>1 DEF OtherWrite, Events
<1> HIDE DEF e, type, stored
<1>7. Append(wire, e) = wire \o << e >>
    BY <1>1, <1>5, WorldTypes, WorldFields
<1>8. requests = requests \ {0}
    BY <1>1, WorldFields DEF AnswersFit
<1>9. World' = WorldOf(cache, queue, calls, wire \o << e >>, stored, requests \ {0})
    BY <1>6, <1>7, <1>8 DEF World, WorldOf
<1>10. Handles(World, World', 0, type, {id}, rev, << e >>)
    BY <1>9, WorldForm, ServedForm DEF stored
<1>11. Serviceable(World, 0, type, {id}, rev)
    BY <1>2, <1>3, <1>4, WorldFields DEF Serviceable
<1>12. Reports(World, 0, type, {id}, rev, << e >>)
    BY <1>5, ReportsNews
<1>13. Holds(World, 0)'
    BY <1>1, <1>10, <1>11, <1>12, ServeHolds, WorldFields DEF Serves
<1>14. ClockIsAhead'
  <2>1. \A b \in Ids : server'[b] <= rev
    <3>1. \A b \in Ids : server'[b] \in {server[b], 0, rev}
        BY <1>6 DEF stored, Saved
    <3>2. \A b \in Ids : server[b] <= rev
      <4>1. server \in [Ids -> 0 .. MaxRevs] /\ rev \in Nat
          BY <1>1, <1>4, WorldTypes, WorldFields
      <4> QED
          BY <1>4, <4>1
    <3> QED
        BY <1>4, <3>1, <3>2
  <2> QED
      BY <1>4, <1>6, <2>1 DEF ClockIsAhead
<1> QED
    BY <1>6, <1>13, <1>14, ToldStays

\* What the server finds when it handles a request.
Finds(m, done, type, ids, rev) ==
    /\ m \in 1 .. Len(calls) /\ m # 0 /\ calls[m] \in Write /\ type \in EventTypes
    /\ calls[m].method # "patchAll" => ids = calls[m].ids
    /\ ids \in SUBSET Ids
    /\ done => Serviceable(World, m, type, ids, rev)
    /\ Serviceable(World, m, type, {}, rev)
    /\ rev \in Nat /\ clock < rev

\* The service handles a request: the answer and the events it emits are the ones Finds asks for.
LEMMA HandleFinds ==
    ASSUME IInv, NEW m \in requests, NEW done \in BOOLEAN, NEW ok \in BOOLEAN,
           NEW eventsFirst \in BOOLEAN, Handle(m, done, ok, eventsFirst), NEW ids,
           ids = IF calls[m].method = "call" THEN {} ELSE Targets(calls[m])
    PROVE  Finds(m, done, EventType(calls[m].method), ids, clock + 1)
<1> DEFINE call == calls[m]
           method == call.method
           type == EventType(method)
           rev == clock + 1
<1>1. /\ World \in Worlds /\ AnswersFit(World) /\ WritesFit(World) /\ ClockIsAhead
    BY DEF IInv, Holds
<1>2. m \in 1 .. Len(calls) /\ call \in Write /\ call.phase = "sent" /\ m # 0 /\ m \in World.asked
  <2>1. m \in World.asked /\ m \in 1 .. Len(World.writes) /\ World.writes[m].phase = "sent"
      BY <1>1, WorldFields DEF AnswersFit
  <2>2. Len(calls) \in Nat /\ calls[m] \in Write
      BY <1>1, <2>1, WorldTypes, WorldFields
  <2> QED
      BY <2>1, <2>2, WorldFields
<1>3. method \in Methods /\ call.ids \subseteq Ids /\ (method = "call" => call.ids = {})
    BY <1>1, <1>2, WorldFields DEF Write, WritesFit
<1>4. /\ type \in EventTypes /\ (type = "created" <=> method \in {"create", "createMany"})
      /\ (type = "removed" <=> method = "remove")
    BY <1>3, TypesOfEvents
<1> HIDE DEF type, method, call
<1>5. ids \subseteq Ids /\ (method # "patchAll" => ids = call.ids)
    BY <1>3 DEF Targets, method, call
<1>6. /\ server \in [Ids -> 0 .. MaxRevs] /\ clock \in 1 .. MaxRevs
      /\ \A b \in Ids : server[b] <= clock
    BY <1>1, WorldTypes, WorldFields DEF ClockIsAhead
<1>7. rev \in Nat /\ clock < rev /\ \A b \in Ids : server[b] < rev
    BY <1>6, RevsBelowLocal
<1>8. Serviceable(World, m, type, {}, rev)
  <2>1. type = "created" => World.writes[m].method \in {"create", "createMany"}
      BY <1>4, WorldFields DEF method, call
  <2> QED
      BY <1>2, <1>4, <2>1 DEF Serviceable
<1>9. ASSUME done PROVE Serviceable(World, m, type, ids, rev)
  <2>1. Executable(call) /\ clock < MaxRevs
      BY <1>9 DEF Handle, call
  <2>2. rev \in 1 .. MaxRevs
      BY <1>6, <2>1, RevsBelowLocal
  <2>3. /\ type = "created" => \A id \in ids : server[id] = 0
        /\ type # "created" => \A id \in ids : server[id] # 0
    <3>1. method \in {"create", "createMany"} => \A id \in call.ids : server[id] = 0
        BY <2>1 DEF Executable, method
    <3>2. method \notin {"create", "createMany"} => \A id \in Targets(call) : server[id] # 0
        BY <2>1 DEF Executable, method
    <3>3. ids \subseteq Targets(call)
        BY DEF call
    <3> QED
        BY <1>4, <1>5, <3>1, <3>2, <3>3
  <2>4. /\ type = "created" => World.writes[m].method \in {"create", "createMany"} /\ ids \subseteq call.ids
        /\ type = "removed" => ids \subseteq call.ids
      BY <1>4, <1>5, WorldFields DEF method, call
  <2>5. World.writes[m] = call /\ World.stored = server
      BY WorldFields DEF call
  <2> QED
      BY <1>2, <1>4, <1>5, <1>7, <2>2, <2>3, <2>4, <2>5 DEF Serviceable
<1> QED
    BY <1>2, <1>4, <1>5, <1>7, <1>8, <1>9 DEF Finds, type, method, call

\* The server handles a request.
LEMMA HandleStep ==
    ASSUME IInv, NEW m \in requests, NEW done \in BOOLEAN, NEW ok \in BOOLEAN,
           NEW eventsFirst \in BOOLEAN, Handle(m, done, ok, eventsFirst)
    PROVE  IInv'
<1> DEFINE method == calls[m].method
           type == EventType(method)
           rev == clock + 1
           ids == IF calls[m].method = "call" THEN {} ELSE Targets(calls[m])
           changed == IF done THEN ids ELSE {}
           a == [kind |-> "answer", call |-> m, ok |-> ok, ids |-> ids, rev |-> rev]
           e == [kind |-> "events", list |-> EventsOf(type, ids, rev)]
           events == IF done THEN << e >> ELSE << >>
           msgs == IF eventsFirst THEN events \o << a >> ELSE << a >> \o events
           stored == Saved(server, type, changed, rev)
<1>1. /\ Holds(World, 0) /\ World \in Worlds /\ ClockIsAhead
    BY DEF IInv, Holds
<1>2. Finds(m, done, type, ids, rev)
    BY HandleFinds
<1>3. /\ ok => done
      /\ done => clock < MaxRevs
      /\ done /\ ~ ok => method # "createMany"
      /\ ~ done => ~ eventsFirst
      /\ requests' = requests \ {m}
      /\ server' = IF done THEN Written(method, ids, rev) ELSE server
      /\ clock' = IF done THEN rev ELSE clock
      /\ wire' = wire \o msgs
      /\ UNCHANGED <<cache, queue, calls, tracker, heard, actors>>
    BY DEF Handle, Events
<1>4. method \in Methods
    BY <1>2 DEF Finds, Write
<1> HIDE DEF ids, rev, type, method, a, e
<1>5. rev \in Nat /\ clock < rev /\ (done => rev \in 1 .. MaxRevs) /\ clock \in 1 .. MaxRevs
      /\ server \in [Ids -> 0 .. MaxRevs]
  <2>1. rev \in Nat /\ clock < rev
      BY <1>2 DEF Finds
  <2>2. clock \in 1 .. MaxRevs /\ server \in [Ids -> 0 .. MaxRevs] /\ rev = clock + 1
      BY <1>1, WorldTypes, WorldFields DEF ClockIsAhead, rev
  <2> QED
      BY <1>3, <2>1, <2>2, RevsBelowLocal
<1>6. server' = stored
  <2>1. CASE done
      BY <1>3, <1>4, <2>1, WrittenForm DEF type
  <2>2. CASE ~ done
      BY <1>3, <1>5, <2>2, NothingSaved
  <2> QED
      BY <2>1, <2>2
<1>7. Serviceable(World, m, type, changed, rev)
    BY <1>2 DEF Finds
<1>8. a \in Answer /\ Tells(World, m, type, changed, rev, a)
  <2>1. /\ a.kind = "answer" /\ a.call = m /\ a.ok = ok /\ a.ids = ids /\ a.rev = rev
      BY DEF a
  <2>2. a \in Answer
      BY <1>2 DEF Finds, Answer, a
  <2>3. World.writes[m] = calls[m] /\ World.writes[m].method = method /\ type = EventType(method) /\ m # 0
      BY <1>2, WorldFields DEF Finds, method, type
  <2>4. method # "patchAll" => ids = calls[m].ids
      BY <1>2 DEF Finds, method
  <2>5. ok => done /\ changed = ids /\ rev \in 1 .. MaxRevs
      BY <1>3, <1>5
  <2>6. ~ ok /\ method = "createMany" => changed = {}
      BY <1>3
  <2> HIDE DEF changed
  <2> QED
      BY <2>1, <2>2, <2>3, <2>4, <2>5, <2>6 DEF Tells
<1>9. Reports(World, m, type, changed, rev, msgs)
  <2>1. CASE ~ done
    <3>1. msgs = << a >> /\ changed = {}
      <4>1. msgs = << a >> \o << >>
          BY <1>3, <2>1
      <4>2. << a >> \o << >> = << a >>
          OBVIOUS
      <4> QED
          BY <2>1, <4>1, <4>2
    <3> QED
        BY <1>2, <1>8, <3>1, ReportsAnswer DEF Finds
  <2>2. CASE done
    <3>1. changed = ids
        BY <2>2
    <3>2. e \in News /\ Tells(World, m, type, ids, rev, e)
        BY <1>2, <1>5, <2>2, NewsTells DEF Finds, e
    <3>3. msgs = << a, e >> \/ msgs = << e, a >>
      <4>1. << a >> \o << e >> = << a, e >> /\ << e >> \o << a >> = << e, a >>
          BY Joined
      <4> QED
          BY <2>2, <4>1
    <3> HIDE DEF msgs
    <3> QED
        BY <1>2, <1>8, <3>1, <3>2, <3>3, ReportsBoth DEF Finds
  <2> QED
      BY <2>1, <2>2
<1> HIDE DEF msgs, stored
<1>10. World' = WorldOf(cache, queue, calls, wire \o msgs, stored, requests \ {m})
    BY <1>3, <1>6 DEF World, WorldOf
<1> HIDE DEF changed
<1>11. Handles(World, World', m, type, changed, rev, msgs)
    BY <1>10, WorldForm, ServedForm DEF stored
<1>12. Holds(World, 0)'
    BY <1>1, <1>7, <1>9, <1>11, ServeHolds, WorldFields DEF Serves
<1>13. ClockIsAhead'
  <2>1. CASE done
    <3>1. clock' = rev /\ rev \in 1 .. MaxRevs
        BY <1>3, <1>5, <2>1
    <3>2. \A b \in Ids : server'[b] \in {server[b], 0, rev}
        BY <1>6 DEF stored, Saved
    <3>3. \A b \in Ids : server[b] <= rev
        BY <1>1, <1>5 DEF ClockIsAhead
    <3> QED
        BY <1>5, <3>1, <3>2, <3>3 DEF ClockIsAhead
  <2>2. CASE ~ done
      BY <1>1, <1>3, <2>2 DEF ClockIsAhead
  <2> QED
      BY <2>1, <2>2
<1> QED
    BY <1>3, <1>12, <1>13, ToldStays

-----------------------------------------------------------------------------
(* A message arrives.                                                      *)

\* The message may be taken.
LEMMA DeliverTakes ==
    ASSUME IInv, NEW i \in DOMAIN wire, Deliver(i)
    PROVE  /\ i \in 1 .. Len(wire) /\ wire[i] \in Answer \cup News /\ Passes(World, i)
           /\ wire' = RemoveAt(wire, i) /\ server' = server /\ clock' = clock /\ requests' = requests
<1>1. World \in Worlds
    BY DEF IInv, Holds
<1>2. DOMAIN wire = 1 .. Len(wire) /\ \A j \in 1 .. Len(wire) : wire[j] \in Answer \cup News
    BY <1>1, WorldTypes, WorldFields
<1>3. i \in 1 .. Len(wire) /\ \A j \in 1 .. i - 1 : MayPass(wire[i], wire[j])
    BY <1>2 DEF Deliver
<1>4. Passes(World, i)
    BY <1>1, <1>3, Passable
<1> QED
    BY <1>2, <1>3, <1>4 DEF Deliver

\* Events arrive.
LEMMA NewsStep ==
    ASSUME IInv, NEW i \in DOMAIN wire, Deliver(i), wire[i].kind # "answer"
    PROVE  IInv'
<1> DEFINE msg == wire[i]
           list == msg.list
           z == WorldOf(cache, queue \o list, calls, RemoveAt(wire, i), server, requests)
<1>1. /\ i \in 1 .. Len(wire) /\ msg \in Answer \cup News /\ Passes(World, i)
      /\ wire' = RemoveAt(wire, i) /\ server' = server /\ clock' = clock /\ requests' = requests
    BY DeliverTakes
<1>2. msg.kind = "events" /\ list \in Seq(Event)
    BY <1>1 DEF Answer, News
<1>3. Holds(World, 0) /\ World \in Worlds /\ Single(World) /\ ClockIsAhead
    BY DEF IInv, Holds
<1>4. Queued(Client(cache, queue, calls, tracker, heard, actors), list) =
          Client(cache, queue \o list, calls, tracker, heard, actors)
    BY QueuedForm
<1>5. Become(Queued(State, list))
    BY DEF Deliver
<1>6. Become(Client(cache, queue \o list, calls, tracker, heard, actors))
    BY <1>4, <1>5, StateForm
<1>7. /\ cache' = cache /\ queue' = queue \o list /\ calls' = calls
      /\ tracker' = tracker /\ heard' = heard /\ actors' = actors
  <2> DEFINE all == queue \o list
  <2> HIDE DEF all
  <2>1. Become(Client(cache, all, calls, tracker, heard, actors))
      BY <1>6 DEF all
  <2>2. /\ cache' = cache /\ queue' = all /\ calls' = calls
        /\ tracker' = tracker /\ heard' = heard /\ actors' = actors
      BY ONLY <2>1, BecomeForm
  <2> QED
      BY <2>2 DEF all
<1>8. World' = z
    BY <1>1, <1>7 DEF World, WorldOf
<1>9. Takes(World, z, i, list, calls)
    BY WorldForm, TakenForm
<1>10. World.wire[i] = msg /\ World.writes = calls /\ i \in 1 .. Len(World.wire) /\ World.applied = 0
    BY <1>1, WorldFields
<1>11. Brings(World, i, list)
  <2>1. \A k, l \in 1 .. Len(list) : k < l => list[k].id # list[l].id
      BY <1>2, <1>3, <1>10 DEF Single
  <2>2. Coming(World, i) = {list[k] : k \in 1 .. Len(list)}
      BY <1>2, <1>10 DEF Coming, Carried
  <2>3. Carries(World, i, list)
      BY <1>2, <1>10, <2>2 DEF Carries
  <2> QED
      BY <1>2, <2>1, <2>3 DEF Brings
<1>12. Settles(World, i, calls) /\ Subject(World, i) = 0
    BY <1>2, <1>10 DEF Settles, Subject
<1> HIDE DEF z, list
<1>13. Holds(z, 0)
    BY <1>1, <1>3, <1>9, <1>10, <1>11, <1>12, TakeHolds
<1>14. Holds(World, 0)'
    BY <1>8, <1>13
<1>15. ClockIsAhead'
    BY <1>1, <1>3 DEF ClockIsAhead
<1> QED
    BY <1>7, <1>14, <1>15, ToldStays

\* An answer that shows nothing leaves a world in which everything is shown.
LEMMA NothingToShow ==
    ASSUME NEW x, Holds(x, 0), NEW y, NEW m, Holds(y, m), y.cache = x.cache,
           m \in 1 .. Len(x.writes), Len(y.writes) = Len(x.writes),
           y.writes[m].method = x.writes[m].method, y.writes[m].phase # "sent",
           y.writes[m].phase = "done" => x.writes[m].method = "call",
           y.writes[m].phase # "done" =>
               y.writes[m].ids = x.writes[m].ids /\ x.writes[m].method # "createMany"
    PROVE  Holds(y, 0)
<1>1. DoneIsShown(y, m) /\ LocalIsSent(y, m) /\ LocalIsSent(x, 0) /\ WritesFit(y) /\ 0 \notin 1 .. Len(y.writes)
    BY DEF Holds
<1>2. DoneIsShown(y, 0)
  <2> SUFFICES ASSUME NEW n \in 1 .. Len(y.writes), y.writes[n].phase = "done",
                      y.writes[n].method # "call", NEW id \in y.writes[n].ids
               PROVE  \/ Gone(y, id)
                      \/ y.writes[n].method # "remove" /\ y.cache[id] \in y.writes[n].rev .. Local - 1
      BY DEF DoneIsShown
  <2>1. n # m
      OBVIOUS
  <2> QED
      BY <1>1, <2>1 DEF DoneIsShown
<1>3. LocalIsSent(y, 0)
  <2> SUFFICES ASSUME NEW id \in Ids, y.cache[id] = Local
               PROVE  /\ Known(y, id)
                      /\ \A n \in 1 .. Len(y.writes) : id \in y.writes[n].ids =>
                            y.writes[n].phase = "sent" /\ y.writes[n].method = "createMany"
      BY DEF LocalIsSent
  <2>1. Known(y, id)
      BY <1>1 DEF LocalIsSent
  <2>2. ASSUME NEW n \in 1 .. Len(y.writes), id \in y.writes[n].ids
        PROVE  y.writes[n].phase = "sent" /\ y.writes[n].method = "createMany"
    <3>1. CASE n = m
      <4>1. y.writes[m].phase = "done" => y.writes[m].ids = {}
          BY <1>1 DEF WritesFit
      <4>2. id \in x.writes[m].ids /\ x.writes[m].method # "createMany"
          BY <2>2, <3>1, <4>1
      <4>3. x.cache[id] = Local
          OBVIOUS
      <4> QED
          BY <1>1, <4>2, <4>3 DEF LocalIsSent
    <3>2. CASE n # m
        BY <1>1, <2>2, <3>2 DEF LocalIsSent
    <3> QED
        BY <3>1, <3>2
  <2> QED
      BY <2>1, <2>2
<1> QED
    BY <1>2, <1>3 DEF Holds

\* What an answer shows.
ListOf(call, msg) == IF IsShown(call, msg.ok) THEN ShownBy(call, msg) ELSE << >>

\* It is what the answer brings.
LEMMA AnswerBrings ==
    ASSUME NEW x, Holds(x, 0), NEW i \in 1 .. Len(x.wire), NEW msg, msg = x.wire[i],
           msg.kind = "answer", NEW call, call = x.writes[msg.call]
    PROVE  /\ Brings(x, i, ListOf(call, msg))
           /\ msg \in Answer /\ msg.call \in 1 .. Len(x.writes) /\ call.phase = "sent" /\ call \in Write
           /\ ~ IsShown(call, msg.ok) => \/ msg.ok /\ call.method = "call"
                                         \/ ~ msg.ok /\ call.method # "createMany"
<1> DEFINE ws == [x.writes EXCEPT ![msg.call] = Answered(@, msg)]
           type == EventType(call.method)
           list == ListOf(call, msg)
<1>1. x \in Worlds /\ AnswersFit(x) /\ WritesFit(x)
    BY DEF Holds
<1>2. Settles(x, i, ws)
    BY DEF Settles
<1> HIDE DEF ws
<1>3. /\ msg \in Answer /\ msg.call \in 1 .. Len(x.writes) /\ call.phase = "sent"
      /\ call.method # "patchAll" => msg.ids = call.ids
      /\ msg.ok => msg.rev \in 1 .. MaxRevs
  <2>1. After(x, i, ws)
      BY <1>1, <1>2, SettlesDoes
  <2> QED
      BY <2>1 DEF After, Subject
<1>4. call \in Write
    BY <1>1, <1>3, WorldTypes
<1>5. /\ call.method \in Methods /\ call.ids \in SUBSET Ids /\ msg.ids \in SUBSET Ids /\ msg.ok \in BOOLEAN
      /\ (call.door = "handle" <=> call.method \in Unnamed) /\ (call.method = "call" => call.ids = {})
    BY <1>1, <1>3, <1>4 DEF Write, Answer, WritesFit
<1>6. IsShown(call, msg.ok) <=> \/ msg.ok /\ call.method # "call"
                                \/ ~ msg.ok /\ call.method = "createMany"
    BY <1>5 DEF IsShown, IsOptimistic, Unnamed
<1>7. type \in EventTypes
    BY <1>5, TypesOfEvents
<1>8. Coming(x, i) = IF msg.ok THEN {[type |-> type, id |-> id, rev |-> msg.rev] : id \in msg.ids} ELSE {}
    BY DEF Coming, Carried
<1>9. CASE msg.ok /\ call.method # "call"
  <2> DEFINE all == EventsOf(type, msg.ids, msg.rev)
  <2>1. list = all
      BY <1>6, <1>9 DEF ListOf, ShownBy
  <2>2. msg.rev \in (0 .. MaxRevs) \cup {Local} /\ msg.rev # Local
      BY <1>3, <1>9, RevsBelowLocal
  <2>3. Lists(all, type, msg.ids, msg.rev)
      BY ONLY <1>5, <1>7, <2>2, EventsOfDoes
  <2> HIDE DEF all
  <2>4. /\ all \in Seq(Event) /\ \A k, l \in 1 .. Len(all) : k < l => all[k].id # all[l].id
        /\ \A k \in 1 .. Len(all) : all[k].type = type /\ all[k].id \in msg.ids /\ all[k].rev = msg.rev
        /\ \A id \in msg.ids : \E k \in 1 .. Len(all) : all[k] = [type |-> type, id |-> id, rev |-> msg.rev]
      BY <2>2, <2>3 DEF Lists
  <2>5. \A k \in 1 .. Len(all) : all[k] = [type |-> type, id |-> all[k].id, rev |-> msg.rev]
    <3>1. \A k \in 1 .. Len(all) : all[k] \in Event
        BY <2>4, ElementOfSeq
    <3> QED
        BY <2>4, <3>1 DEF Event
  <2>6. ASSUME NEW e PROVE (\E k \in 1 .. Len(all) : e = all[k]) <=> e \in Coming(x, i)
    <3>1. ASSUME NEW k \in 1 .. Len(all), e = all[k] PROVE e \in Coming(x, i)
        BY <1>8, <1>9, <2>4, <2>5, <3>1
    <3>2. ASSUME e \in Coming(x, i) PROVE \E k \in 1 .. Len(all) : e = all[k]
      <4>1. PICK id \in msg.ids : e = [type |-> type, id |-> id, rev |-> msg.rev]
          BY <1>8, <1>9, <3>2
      <4> QED
          BY <2>4, <4>1
    <3> QED
        BY <3>1, <3>2
  <2>7. Carries(x, i, all)
      BY <1>9, <2>6 DEF Carries
  <2>8. Brings(x, i, all)
      BY ONLY <2>4, <2>7 DEF Brings
  <2> QED
      BY <1>3, <1>4, <1>6, <1>9, <2>1, <2>8
<1>10. CASE ~ msg.ok /\ call.method = "createMany"
  <2> DEFINE all == EventsOf("removed", call.ids, Absent)
  <2>1. list = all
      BY <1>6, <1>10 DEF ListOf, ShownBy
  <2>2. Absent \in (0 .. MaxRevs) \cup {Local} /\ Absent # Local /\ "removed" \in EventTypes
      BY RevsBelowLocal DEF Absent, EventTypes
  <2>3. Lists(all, "removed", call.ids, Absent)
      BY ONLY <1>5, <2>2, EventsOfDoes
  <2> HIDE DEF all
  <2>4. /\ all \in Seq(Event) /\ \A k, l \in 1 .. Len(all) : k < l => all[k].id # all[l].id
        /\ \A k \in 1 .. Len(all) : all[k].type = "removed" /\ all[k].id \in call.ids
        /\ \A id \in call.ids : \E k \in 1 .. Len(all) :
              all[k] = [type |-> "removed", id |-> id, rev |-> Absent]
      BY <2>2, <2>3 DEF Lists
  <2>5. \A id \in call.ids : \E k \in 1 .. Len(all) : all[k].id = id
    <3> SUFFICES ASSUME NEW id \in call.ids PROVE \E k \in 1 .. Len(all) : all[k].id = id
        OBVIOUS
    <3>1. PICK k \in 1 .. Len(all) : all[k] = [type |-> "removed", id |-> id, rev |-> Absent]
        BY <2>4
    <3> QED
        BY <3>1
  <2>6. Undoes(x, i, all)
      BY <1>10, <2>4, <2>5 DEF Undoes
  <2> QED
      BY <1>3, <1>4, <1>6, <1>10, <2>1, <2>4, <2>6 DEF Brings
<1>11. CASE ~ IsShown(call, msg.ok)
  <2>1. list = << >> /\ Len(list) = 0 /\ list \in Seq(Event)
      BY <1>11 DEF ListOf
  <2>2. (msg.ok /\ call.method = "call") \/ (~ msg.ok /\ call.method # "createMany")
      BY <1>5, <1>6, <1>11
  <2>3. Coming(x, i) = {}
    <3>1. msg.ok => msg.ids = {}
        BY <1>3, <1>5, <2>2
    <3> QED
        BY <1>8, <3>1
  <2> HIDE DEF list
  <2>4. 1 .. Len(list) = {}
      BY <2>1
  <2>5. Carries(x, i, list)
      BY <2>2, <2>3, <2>4 DEF Carries
  <2>6. Brings(x, i, list)
      BY <2>1, <2>4, <2>5 DEF Brings
  <2> QED
      BY <1>3, <1>4, <2>2, <2>6 DEF list
<1> QED
    BY <1>6, <1>9, <1>10, <1>11

\* What an answer does to the client.
LEMMA AnswerForm ==
    ASSUME IInv, NEW i \in DOMAIN wire, Deliver(i), NEW msg, msg = wire[i], msg.kind = "answer",
           msg \in Answer, msg.call \in 1 .. Len(calls), NEW call, call = calls[msg.call], NEW next,
           Ends(calls, msg, next)
    PROVE  /\ cache' = SettledRows(cache, queue, call, msg) /\ queue' = SettledQueue(queue, call, msg)
           /\ calls' = next /\ tracker' = tracker \ {msg.call}
           /\ heard' = ToldOf(cache', next, tracker \ {msg.call})
           /\ actors' = ActorsTold(actors, call, msg.call, msg.ok)
<1> DEFINE rows == SettledRows(cache, queue, call, msg)
           events == SettledQueue(queue, call, msg)
           busy == tracker \ {msg.call}
           told == ToldOf(rows, next, busy)
           shown == ActorsTold(actors, call, msg.call, msg.ok)
           settled == Settled(State, msg.call, msg.ok, msg.ids, msg.rev)
<1>1. Become(settled)
    BY DEF Deliver
<1>2. calls \in Seq(Write)
    BY WorldTypes, WorldFields DEF IInv, Holds
<1>3. Settled(Client(cache, queue, calls, tracker, heard, actors), msg.call, msg.ok, msg.ids, msg.rev) =
          Client(rows, events, next, busy, told, shown)
  <2>1. BecomesSettled(cache, queue, calls, tracker, heard, actors, msg, next)
      BY ONLY <1>2, msg \in Answer, msg.call \in 1 .. Len(calls), Ends(calls, msg, next), SettledForm
  <2> QED
      BY <2>1 DEF BecomesSettled
<1>4. settled = Client(rows, events, next, busy, told, shown)
    BY <1>3, StateForm
<1> HIDE DEF rows, events, busy, told, shown, settled
<1>5. Become(Client(rows, events, next, busy, told, shown))
    BY <1>1, <1>4
<1>6. /\ cache' = rows /\ queue' = events /\ calls' = next
      /\ tracker' = busy /\ heard' = told /\ actors' = shown
    BY ONLY <1>5, BecomeForm
<1> QED
    BY <1>6 DEF rows, events, busy, told, shown

\* The world after it.
LEMMA AnswerStepHolds ==
    ASSUME IInv, NEW i \in DOMAIN wire, Deliver(i), wire[i].kind = "answer"
    PROVE  Holds(World, 0)'
<1> DEFINE msg == wire[i]
           m == msg.call
           call == calls[m]
           list == ListOf(call, msg)
           next == [calls EXCEPT ![m] = Answered(@, msg)]
           left == RemoveAt(wire, i)
           z == WorldOf(cache, queue \o list, next, left, server, requests)
<1>1. /\ i \in 1 .. Len(wire) /\ msg \in Answer \cup News /\ Passes(World, i)
      /\ wire' = left /\ server' = server /\ clock' = clock /\ requests' = requests
    BY DeliverTakes
<1>2. Holds(World, 0) /\ World \in Worlds /\ AnswersFit(World) /\ WritesFit(World)
    BY DEF IInv, Holds
<1>3. World.wire[i] = msg /\ World.writes = calls /\ i \in 1 .. Len(World.wire) /\ World.applied = 0
      /\ World.cache = cache
    BY <1>1, WorldFields
<1>4. /\ Brings(World, i, list)
      /\ msg \in Answer /\ m \in 1 .. Len(calls) /\ call.phase = "sent" /\ call \in Write
      /\ ~ IsShown(call, msg.ok) => \/ msg.ok /\ call.method = "call"
                                    \/ ~ msg.ok /\ call.method # "createMany"
  <2>1. msg = World.wire[i] /\ msg.kind = "answer" /\ call = World.writes[msg.call]
      BY <1>3
  <2> HIDE DEF msg, call, list
  <2>2. /\ Brings(World, i, ListOf(call, msg))
        /\ msg \in Answer /\ msg.call \in 1 .. Len(World.writes) /\ call.phase = "sent" /\ call \in Write
        /\ ~ IsShown(call, msg.ok) => \/ msg.ok /\ call.method = "call"
                                      \/ ~ msg.ok /\ call.method # "createMany"
      BY ONLY <1>2, <1>3, <2>1, AnswerBrings
  <2> QED
      BY <1>3, <2>2 DEF list
<1>5. /\ cache' = SettledRows(cache, queue, call, msg) /\ queue' = SettledQueue(queue, call, msg)
      /\ calls' = next
  <2> HIDE DEF call, next
  <2>1. call = calls[msg.call] /\ Ends(calls, msg, next)
      BY DEF call, next, Ends
  <2> QED
      BY <1>4, <2>1, AnswerForm
<1>6. Takes(World, z, i, list, next)
    BY WorldForm, TakenForm
<1>7. Settles(World, i, next) /\ Subject(World, i) = m
    BY <1>3 DEF Settles, Subject
<1> HIDE DEF z, list, next
<1>8. Holds(z, m)
    BY <1>1, <1>2, <1>3, <1>4, <1>6, <1>7, TakeHolds
<1>9. CASE IsShown(call, msg.ok)
  <2>1. cache' = AllApplied(cache, queue \o list) /\ queue' = << >>
      BY <1>5, <1>9 DEF SettledRows, SettledQueue, ListOf, list
  <2>2. World' = WorldOf(AllApplied(cache, queue \o list), << >>, next, left, server, requests)
      BY <1>1, <1>5, <2>1 DEF World, WorldOf
  <2> QED
      BY <1>8, <2>2, FlushWorld DEF z
<1>10. CASE ~ IsShown(call, msg.ok)
  <2>1. cache' = cache /\ queue' = queue
      BY <1>5, <1>10 DEF SettledRows, SettledQueue
  <2>2. queue \o list = queue
    <3>1. list = << >> /\ queue \in Seq(Event)
        BY <1>2, <1>10, WorldTypes, WorldFields DEF ListOf, list
    <3> QED
        BY <3>1, ConcatEmptySeq
  <2>3. World' = z
      BY <1>1, <1>5, <2>1, <2>2 DEF World, WorldOf, z
  <2>4. z.cache = World.cache /\ z.writes = next
      BY <1>3, WorldOfFields DEF z
  <2>5. After(World, i, next)
      BY <1>2, <1>3, <1>7, SettlesDoes
  <2>6. /\ Len(next) = Len(calls) /\ next[m].method = call.method
        /\ next[m].phase = (IF msg.ok THEN "done" ELSE "failed")
        /\ ~ msg.ok => next[m].ids = call.ids
      BY <1>3, <1>7, <2>5 DEF After, SameWrites
  <2>7. Holds(z, 0)
    <3>1. /\ m \in 1 .. Len(World.writes) /\ Len(z.writes) = Len(World.writes)
          /\ z.writes[m].method = World.writes[m].method /\ z.writes[m].phase # "sent"
          /\ z.writes[m].phase = "done" => World.writes[m].method = "call"
          /\ z.writes[m].phase # "done" =>
                z.writes[m].ids = World.writes[m].ids /\ World.writes[m].method # "createMany"
        BY <1>3, <1>4, <1>10, <2>4, <2>6
    <3> QED
        BY ONLY <1>2, <1>8, <2>4, <3>1, NothingToShow
  <2> QED
      BY <2>3, <2>7
<1> QED
    BY <1>9, <1>10

\* An answer arrives.
LEMMA AnswerStep ==
    ASSUME IInv, NEW i \in DOMAIN wire, Deliver(i), wire[i].kind = "answer"
    PROVE  IInv'
<1> DEFINE msg == wire[i]
           m == msg.call
           call == calls[m]
           next == [calls EXCEPT ![m] = Answered(@, msg)]
           busy == tracker \ {m}
<1>1. Holds(World, 0)'
    BY AnswerStepHolds
<1>2. i \in 1 .. Len(wire) /\ server' = server /\ clock' = clock
    BY DeliverTakes
<1>3. /\ Holds(World, 0) /\ World \in Worlds /\ AnswersFit(World) /\ WritesFit(World)
      /\ ClockIsAhead /\ SentAreTracked(calls, tracker) /\ AreRight(actors, calls)
    BY DEF IInv, Holds
<1>4. World.wire[i] = msg /\ World.writes = calls /\ i \in 1 .. Len(World.wire)
    BY <1>2, WorldFields
<1>5. Settles(World, i, next) /\ Subject(World, i) = m
    BY <1>4 DEF Settles, Subject
<1> HIDE DEF next
<1>6. After(World, i, next)
    BY <1>3, <1>4, <1>5, SettlesDoes
<1>7. /\ msg \in Answer /\ m \in 1 .. Len(calls) /\ call.phase = "sent" /\ next \in Seq(Write)
      /\ Len(next) = Len(calls) /\ next[m].phase = (IF msg.ok THEN "done" ELSE "failed")
      /\ \A k \in 1 .. Len(calls) : k # m => next[k] = calls[k]
    BY <1>4, <1>5, <1>6 DEF After, SameWrites
<1>8. msg.ok \in BOOLEAN /\ next[m].phase # "sent" /\ calls \in Seq(Write)
    BY <1>3, <1>7, WorldTypes, WorldFields DEF Answer
<1>9. /\ calls' = next /\ tracker' = busy /\ heard' = ToldOf(cache', next, busy)
      /\ actors' = ActorsTold(actors, call, m, msg.ok)
  <2>1. Ends(calls, msg, next)
      BY DEF Ends, next
  <2> QED
      BY <1>7, <2>1, AnswerForm
<1>10. SentAreTracked(next, busy)
    BY <1>3, <1>7, <1>8, TrackedEnd
<1>11. NotBusyMeansShown'
  <2> DEFINE y == World'
  <2>1. y.cache = cache' /\ y.writes = next
      BY <1>9 DEF World
  <2> HIDE DEF y, busy
  <2>2. Holds(y, 0)
      BY <1>1 DEF y
  <2>3. ASSUME NEW k \in DOMAIN next
        PROVE  k \in busy \/ (k \in 1 .. Len(y.writes) /\ next[k] = y.writes[k] /\ next[k].phase # "sent")
    <3>1. k \in 1 .. Len(next)
        BY <1>7, LenProperties
    <3> QED
        BY <1>10, <2>1, <3>1 DEF SentAreTracked
  <2>4. \A f \in Filters : ~ ToldOf(y.cache, next, busy)[f].busy =>
            ToldOf(y.cache, next, busy)[f].unseen = {}
      BY ONLY <2>2, <2>3, ChangedTells
  <2> QED
      BY <1>9, <2>1, <2>4 DEF NotBusyMeansShown, busy
<1>12. AreRight(actors, calls)'
    BY <1>3, <1>7, <1>8, <1>9, SettleIsRight
<1>13. ClockIsAhead'
    BY <1>2, <1>3 DEF ClockIsAhead
<1> QED
    BY <1>1, <1>9, <1>10, <1>11, <1>12, <1>13 DEF IInv

-----------------------------------------------------------------------------
(* The theorems.                                                           *)

\* Nothing changes when no step is taken.
LEMMA StutterStep == ASSUME IInv, UNCHANGED vars PROVE IInv'
<1>1. /\ UNCHANGED <<cache, queue, calls, tracker, heard, actors>>
      /\ UNCHANGED <<server, clock, requests, wire>>
    BY DEF vars
<1>2. World' = World
    BY <1>1 DEF World
<1>3. Holds(World, 0)' /\ ClockIsAhead'
    BY <1>1, <1>2 DEF IInv, ClockIsAhead
<1> QED
    BY <1>1, <1>3, ToldStays

\* Every step keeps the invariant.
LEMMA StepHolds == IInv /\ [Next]_vars => IInv'
<1> SUFFICES ASSUME IInv, [Next]_vars PROVE IInv'
    OBVIOUS
<1>1. ASSUME NEW c \in Actors, NEW door \in Doors, NEW method \in Methods, NEW ids \in SUBSET Ids,
             Call(c, door, method, ids)
      PROVE  IInv'
    BY <1>1, CallStep
<1>2. ASSUME NEW c \in Actors, Reset(c) \/ Hide(c) \/ Show(c) PROVE IInv'
    BY <1>2, ResetStep, HideStep, ShowStep
<1>3. ASSUME NEW m \in requests, NEW done \in BOOLEAN, NEW ok \in BOOLEAN, NEW eventsFirst \in BOOLEAN,
             Handle(m, done, ok, eventsFirst)
      PROVE  IInv'
    BY <1>3, HandleStep
<1>4. ASSUME NEW id \in Ids, NEW method \in {"patch", "remove"}, OtherWrite(id, method) PROVE IInv'
    BY <1>4, OtherWriteStep
<1>5. ASSUME NEW i \in DOMAIN wire, Deliver(i) PROVE IInv'
    BY <1>5, NewsStep, AnswerStep
<1>6. ASSUME BatchTimer PROVE IInv'
    BY <1>6, TimerStep
<1>7. ASSUME UNCHANGED vars PROVE IInv'
    BY <1>7, StutterStep
<1> QED
    BY <1>1, <1>2, <1>3, <1>4, <1>5, <1>6, <1>7 DEF Next

\* When nothing is under way every record is in the cache as the server has it.
LEMMA InvConverges == IInv => CacheConverges
<1> SUFFICES ASSUME IInv, requests = {}, wire = << >>, queue = << >> PROVE cache = server
    BY DEF CacheConverges
<1>1. /\ World \in Worlds /\ StoredArrives(World) /\ RemovedArrives(World) /\ LocalIsSent(World, 0)
      /\ AnswersFit(World)
    BY DEF IInv, Holds
<1>2. /\ World.cache = cache /\ World.stored = server /\ World.writes = calls
      /\ cache \in [Ids -> (0 .. MaxRevs) \cup {Local}] /\ server \in [Ids -> 0 .. MaxRevs]
    BY <1>1, WorldTypes, WorldFields
<1>3. Waiting(World) = {} /\ 1 .. Len(World.wire) = {} /\ World.asked = {}
  <2>1. Len(queue) = 0 /\ Len(wire) = 0 /\ 1 .. 0 = {} /\ 0 + 1 .. 0 = {}
      OBVIOUS
  <2> QED
      BY <2>1, WorldFields DEF Waiting
<1>4. \A e : ~ UnderWay(World, e)
    BY <1>3 DEF UnderWay
<1>5. \A m \in 1 .. Len(calls) : calls[m].phase # "sent"
    BY <1>1, <1>2, <1>3 DEF AnswersFit
<1>6. ASSUME NEW id \in Ids PROVE cache[id] = server[id]
  <2>1. cache[id] # Local
    <3> SUFFICES ASSUME cache[id] = Local PROVE FALSE
        OBVIOUS
    <3>1. PICK m \in 1 .. Len(calls) : id \in calls[m].ids
        BY <1>1, <1>2 DEF LocalIsSent, Known
    <3>2. m # 0
        OBVIOUS
    <3>3. calls[m].phase = "sent"
        BY <1>1, <1>2, <3>1, <3>2 DEF LocalIsSent
    <3> QED
        BY <1>5, <3>3
  <2>2. CASE server[id] # 0
      BY <1>1, <1>2, <1>4, <2>2 DEF StoredArrives
  <2>3. CASE server[id] = 0
      BY <1>1, <1>2, <1>4, <2>1, <2>3 DEF RemovedArrives, Absent
  <2> QED
      BY <2>2, <2>3
<1> QED
    BY <1>2, <1>6

\* The invariant holds of every reachable state.
THEOREM Invariance == Spec => []IInv
BY InitHolds, StepHolds, PTL DEF Spec

\* What hooks tell of writes is true: a subscriber of useMutating who is told that
\* nothing is being written reads a cache that shows every outcome (the entry ends
\* after the events were applied, #trackMutation), and a component that was never
\* hidden is told of its own writes (mountedRef, useAction.ts:190).
THEOREM OutcomesAreTold == Spec => []HooksTellTheTruth
BY Invariance, InvTells, PTL

\* When everything has arrived the cache has what the server has, whatever the order
\* in which requests were executed and answers and events came, and whether events
\* were applied at once or in batches (queryStore.ts:1944, 1989).
THEOREM CacheCatchesUp == Spec => []CacheConverges
BY Invariance, InvConverges, PTL
=============================================================================
