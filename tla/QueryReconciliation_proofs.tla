---------------------- MODULE QueryReconciliation_proofs ----------------------
(***************************************************************************)
(* Proofs about the fetch lifecycle and the reconciliation gate, for any   *)
(* policies, reasons and bounds: a query that says it is fetching is, a    *)
(* vacuumed one leaves nothing behind, and no reconciliation is dropped.   *)
(***************************************************************************)
EXTENDS QueryReconciliation, SequenceTheorems, TLAPS

-----------------------------------------------------------------------------
(* The inductive invariant, over a state of the store.                     *)

Job == [generation : Nat, phase : {"asked", "answered", "waiting"}, attempt : Nat,
        ok : BOOLEAN, seen : Nat, journal : Nat]

Query == [status : {"none", "loading", "success", "error"}, fetching : BOOLEAN,
          pending : BOOLEAN, dirty : BOOLEAN, shown : Nat, generation : Nat]

StoreState ==
    [query : Query, jobs : Seq(Job),
     window : [hot : BOOLEAN, trailing : {"none", "armed", "due"}], deferred : BOOLEAN]

HasCurrent(s) == \E i \in DOMAIN s.jobs : IsCurrent(s, s.jobs[i])

\* What a query that is not in the cache has left.
Gone(s) == ~Exists(s) => s.query = NoQuery /\ s.window = NoWindow /\ ~s.deferred

Loading(s) == s.query.fetching => HasCurrent(s)

\* g is the generation of the query there is, and no fetch is of a later one.
Generations(s, g) ==
    /\ Exists(s) => s.query.generation = g
    /\ \A i \in DOMAIN s.jobs : s.jobs[i].generation <= g

Basics(s, g) == s \in StoreState /\ Gone(s) /\ Loading(s) /\ Generations(s, g)

\* The answer of a job contains the version r, or the events that say so will be
\* replayed over it.
Covers(job, r) ==
    job.phase = "answered" /\ job.ok => job.seen >= r \/ job.journal >= r

AllCover(s, r) == \A i \in DOMAIN s.jobs : Covers(s.jobs[i], r)

\* A reconciliation waits for its time.
Owed(s) == s.deferred \/ s.window.trailing # "none"

Flagged(s) == s.query.pending \/ s.query.dirty \/ Owed(s)

CurrentCover(s, r) ==
    \A i \in DOMAIN s.jobs : IsCurrent(s, s.jobs[i]) => Covers(s.jobs[i], r) \/ Flagged(s)

\* With n subscribers, the reconciliation requested for r was made or will be.
Kept(s, r, n) ==
    s.query.status = "success" =>
        \/ s.query.shown >= r
        \/ Owed(s) \/ HasCurrent(s)
        \/ n = 0 /\ (s.query.pending \/ policy = "swr")

\* It was made, or has left its mark.
Remembered(s, r, n) ==
    s.query.status = "success" =>
        \/ s.query.shown >= r
        \/ Flagged(s) \/ HasCurrent(s)
        \/ n = 0 /\ policy = "swr"

Own == reasons \subseteq Journalling

Recalls(s, r, n) == Kept(s, r, n) /\ AllCover(s, r)

Marks(s, r, n) == Remembered(s, r, n) /\ CurrentCover(s, r)

IInv ==
    /\ version \in Nat /\ requested \in Nat /\ requested <= version
    /\ listeners \in Nat /\ generation \in Nat
    /\ hidden \in BOOLEAN /\ overlapped \in BOOLEAN
    /\ Basics(State, generation)
    /\ Own => Recalls(State, requested, listeners)
    /\ ~overlapped => Marks(State, requested, listeners)

-----------------------------------------------------------------------------
(* Sequences of fetches.                                                   *)

\* Adding a fetch.
LEMMA AppendJob ==
  ASSUME NEW jobSeq \in Seq(Job), NEW job \in Job
  PROVE  /\ Append(jobSeq, job) \in Seq(Job)
         /\ Len(Append(jobSeq, job)) = Len(jobSeq) + 1
         /\ DOMAIN Append(jobSeq, job) = 1 .. Len(jobSeq) + 1
         /\ DOMAIN jobSeq = 1 .. Len(jobSeq) /\ Len(jobSeq) \in Nat
         /\ \A i \in DOMAIN jobSeq : Append(jobSeq, job)[i] = jobSeq[i]
         /\ Append(jobSeq, job)[Len(jobSeq) + 1] = job
<1> QED
  BY AppendProperties, LenProperties

\* Taking one away: the others stay.
LEMMA RemoveJob ==
  ASSUME NEW jobSeq \in Seq(Job), NEW i \in DOMAIN jobSeq
  PROVE  /\ RemoveAt(jobSeq, i) \in Seq(Job)
         /\ \A k \in DOMAIN RemoveAt(jobSeq, i) :
               \E m \in DOMAIN jobSeq \ {i} : RemoveAt(jobSeq, i)[k] = jobSeq[m]
         /\ \A m \in DOMAIN jobSeq \ {i} :
               \E k \in DOMAIN RemoveAt(jobSeq, i) : RemoveAt(jobSeq, i)[k] = jobSeq[m]
<1> DEFINE n == Len(jobSeq)
           Before == SubSeq(jobSeq, 1, i - 1)
           After == SubSeq(jobSeq, i + 1, n)
<1>1. n \in Nat /\ DOMAIN jobSeq = 1 .. n /\ i \in 1 .. n
  BY LenProperties
<1>2. \A k \in 1 .. n : jobSeq[k] \in Job
  BY <1>1, ElementOfSeq
<1>3. /\ Before \in Seq(Job) /\ Len(Before) = i - 1
      /\ \A k \in 1 .. i - 1 : Before[k] = jobSeq[k]
  <2>1. \A k \in 1 .. i - 1 : jobSeq[k] \in Job
    BY <1>1, <1>2
  <2>2. 1 \in Int /\ i - 1 \in Int
    BY <1>1
  <2> QED
    BY <2>1, <2>2, <1>1, SubSeqProperties
<1>4. /\ After \in Seq(Job) /\ Len(After) = n - i
      /\ \A k \in 1 .. n - i : After[k] = jobSeq[i + k]
  <2>1. \A k \in i + 1 .. n : jobSeq[k] \in Job
    BY <1>1, <1>2
  <2>2. i + 1 \in Int /\ n \in Int
    BY <1>1
  <2> QED
    BY <2>1, <2>2, <1>1, SubSeqProperties
<1> HIDE DEF Before, After
<1>5. RemoveAt(jobSeq, i) = Before \o After
  BY DEF RemoveAt, Before, After
<1>6. /\ Before \o After \in Seq(Job)
      /\ Len(Before \o After) = n - 1
      /\ \A k \in 1 .. n - 1 : (Before \o After)[k] = IF k < i THEN jobSeq[k] ELSE jobSeq[k + 1]
  <2>1. /\ Before \o After \in Seq(Job)
        /\ Len(Before \o After) = Len(Before) + Len(After)
        /\ \A k \in 1 .. Len(Before) + Len(After) :
              (Before \o After)[k] = IF k <= Len(Before) THEN Before[k]
                                     ELSE After[k - Len(Before)]
    BY <1>3, <1>4, ConcatProperties
  <2>2. Len(Before) + Len(After) = n - 1 /\ Len(Before) = i - 1
    BY <1>1, <1>3, <1>4
  <2>3. ASSUME NEW k \in 1 .. n - 1
        PROVE  (Before \o After)[k] = IF k < i THEN jobSeq[k] ELSE jobSeq[k + 1]
    <3>1. CASE k < i
      BY <3>1, <2>1, <2>2, <1>1, <1>3
    <3>2. CASE ~ (k < i)
      <4>1. k - (i - 1) \in 1 .. n - i /\ i + (k - (i - 1)) = k + 1 /\ ~ (k <= i - 1)
        BY <3>2, <1>1
      <4> QED
        BY <4>1, <3>2, <2>1, <2>2, <1>4
    <3> QED
      BY <3>1, <3>2
  <2> QED
    BY <2>1, <2>2, <2>3
<1>7. DOMAIN (Before \o After) = 1 .. n - 1
  BY <1>6, LenProperties
<1>8. ASSUME NEW k \in 1 .. n - 1
      PROVE  \E m \in DOMAIN jobSeq \ {i} : (Before \o After)[k] = jobSeq[m]
  <2>1. CASE k < i
    <3>1. k \in DOMAIN jobSeq \ {i} /\ (Before \o After)[k] = jobSeq[k]
      BY <2>1, <1>1, <1>6
    <3> QED
      BY <3>1
  <2>2. CASE ~ (k < i)
    <3>1. k + 1 \in DOMAIN jobSeq \ {i} /\ (Before \o After)[k] = jobSeq[k + 1]
      BY <2>2, <1>1, <1>6
    <3> QED
      BY <3>1
  <2> QED
    BY <2>1, <2>2
<1>9. ASSUME NEW m \in DOMAIN jobSeq \ {i}
      PROVE  \E k \in 1 .. n - 1 : (Before \o After)[k] = jobSeq[m]
  <2>1. CASE m < i
    <3>1. m \in 1 .. n - 1
      BY <2>1, <1>1
    <3>2. (Before \o After)[m] = jobSeq[m]
      BY <3>1, <2>1, <1>6
    <3> QED
      BY <3>1, <3>2
  <2>2. CASE ~ (m < i)
    <3>1. m - 1 \in 1 .. n - 1 /\ ~ (m - 1 < i) /\ (m - 1) + 1 = m
      BY <2>2, <1>1
    <3>2. (Before \o After)[m - 1] = jobSeq[m]
      BY <3>1, <1>6
    <3> QED
      BY <3>1, <3>2
  <2> QED
    BY <2>1, <2>2
<1> QED
  BY <1>5, <1>6, <1>7, <1>8, <1>9

-----------------------------------------------------------------------------
(* What the operations of the store do to its state.                       *)

\* A fetch is begun: it is current, and will read a version that contains what
\* was requested before; another that is under way overlaps it.
LEMMA QueueFetches ==
  ASSUME NEW s \in StoreState, NEW g \in Nat, Exists(s), Generations(s, g)
  PROVE  /\ Basics(Queue(s), g) /\ Exists(Queue(s))
         /\ HasCurrent(Queue(s))
         /\ \A r \in Nat : AllCover(s, r) => AllCover(Queue(s), r)
         /\ ~Overlapping(Queue(s)) => \A r \in Nat : CurrentCover(Queue(s), r)
<1> DEFINE job == [generation |-> s.query.generation, phase |-> "asked",
                   attempt |-> 0, ok |-> TRUE, seen |-> 0, journal |-> 0]
           q == [s.query EXCEPT !.pending = FALSE, !.dirty = FALSE, !.fetching = TRUE,
                                !.status = IF @ = "success" THEN "success" ELSE "loading"]
           t == Queue(s)
           n == Len(s.jobs)
<1>1. s.query \in Query /\ s.jobs \in Seq(Job)
  BY DEF StoreState
<1>2. job \in Job /\ q \in Query
  BY <1>1 DEF Job, Query
<1>3. /\ t.query = q /\ t.jobs = Append(s.jobs, job)
      /\ t.window = s.window /\ t.deferred = s.deferred
      /\ t \in StoreState
  <2>1. t = [s EXCEPT !.query = q, !.jobs = Append(s.jobs, job)]
    BY <1>1 DEF Queue, StoreState, Query
  <2>2. Append(s.jobs, job) \in Seq(Job)
    BY <1>1, <1>2, AppendJob
  <2> HIDE DEF t, q, job
  <2> QED
    BY <2>1, <2>2, <1>2 DEF StoreState
<1> HIDE DEF t
<1>4. /\ q.generation = s.query.generation /\ q.status # "none" /\ q.fetching
      /\ q.pending = FALSE /\ q.dirty = FALSE
  BY <1>1 DEF Query
<1> HIDE DEF q
<1>5. /\ n \in Nat /\ DOMAIN s.jobs = 1 .. n /\ DOMAIN t.jobs = 1 .. n + 1
      /\ \A i \in DOMAIN s.jobs : t.jobs[i] = s.jobs[i]
      /\ t.jobs[n + 1] = job
  BY <1>1, <1>2, <1>3, AppendJob
<1>6. Exists(t) /\ n + 1 \in DOMAIN t.jobs /\ IsCurrent(t, t.jobs[n + 1])
  BY <1>3, <1>4, <1>5 DEF Exists, IsCurrent
<1>7. HasCurrent(t)
  BY <1>6 DEF HasCurrent
<1>8. Generations(t, g)
  <2>1. t.query.generation = g
    BY <1>3, <1>4 DEF Generations
  <2>2. ASSUME NEW i \in DOMAIN t.jobs PROVE t.jobs[i].generation <= g
    <3>1. CASE i \in DOMAIN s.jobs
      BY <3>1, <1>5 DEF Generations
    <3>2. CASE i = n + 1
      BY <3>2, <1>5 DEF Generations
    <3> QED
      BY <3>1, <3>2, <1>5
  <2> QED
    BY <2>1, <2>2 DEF Generations
<1>9. \A r \in Nat : Covers(job, r)
  BY DEF Covers
<1>10. ASSUME NEW r \in Nat, AllCover(s, r) PROVE AllCover(t, r)
  <2>1. ASSUME NEW i \in DOMAIN t.jobs PROVE Covers(t.jobs[i], r)
    BY <1>5, <1>9, <1>10 DEF AllCover, Covers
  <2> QED
    BY <2>1 DEF AllCover
<1>11. ASSUME NEW r \in Nat, ~Overlapping(t), NEW i \in DOMAIN t.jobs, IsCurrent(t, t.jobs[i])
       PROVE  Covers(t.jobs[i], r)
  <2>1. i = n + 1
    BY <1>6, <1>11 DEF Overlapping
  <2> QED
    BY <2>1, <1>5 DEF Covers
<1> QED
  BY <1>3, <1>6, <1>7, <1>8, <1>10, <1>11 DEF t, Basics, Gone, Loading, CurrentCover
\* The query is fetched now, or its fetch is marked to be repeated.
LEMMA RefetchFetches ==
  ASSUME NEW s \in StoreState, NEW g \in Nat, Exists(s), Basics(s, g)
  PROVE  /\ Basics(Refetch(s), g) /\ Exists(Refetch(s))
         /\ HasCurrent(Refetch(s))
         /\ \A r \in Nat : AllCover(s, r) => AllCover(Refetch(s), r)
         /\ ~Overlapping(Refetch(s)) => \A r \in Nat : CurrentCover(Refetch(s), r)
<1>1. CASE ~ s.query.fetching
  <2>1. Refetch(s) = Queue(s)
    BY <1>1 DEF Refetch
  <2> QED
    BY <2>1, QueueFetches DEF Basics
<1>2. CASE s.query.fetching
  <2> DEFINE t == [s EXCEPT !.query.dirty = TRUE]
  <2>1. Refetch(s) = t
    BY <1>2 DEF Refetch
  <2>2. s.query \in Query
    BY DEF StoreState
  <2>3. /\ t \in StoreState /\ t.jobs = s.jobs /\ t.window = s.window
        /\ t.deferred = s.deferred /\ t.query.dirty
        /\ t.query.status = s.query.status /\ t.query.generation = s.query.generation
        /\ t.query.fetching = s.query.fetching
    BY <2>2 DEF StoreState, Query
  <2> HIDE DEF t
  <2>4. Exists(t) /\ Flagged(t)
    BY <2>3 DEF Exists, Flagged
  <2>5. HasCurrent(t)
    BY <1>2, <2>3 DEF Basics, Loading, HasCurrent, IsCurrent, Exists
  <2>6. Basics(t, g)
    BY <2>3, <2>4, <2>5 DEF Basics, Gone, Loading, Generations
  <2> QED
    BY <2>1, <2>3, <2>4, <2>5, <2>6 DEF AllCover, CurrentCover
<1> QED
  BY <1>1, <1>2

\* A reconciliation asked for is made or will be.
Asked(s, n) == Owed(s) \/ HasCurrent(s) \/ (n = 0 /\ s.query.pending)

\* The gate drops nothing: it fetches, waits, or notes the request on a query
\* nobody watches.
LEMMA GateKeeps ==
  ASSUME NEW s \in StoreState, NEW g \in Nat, NEW isHidden \in BOOLEAN, Basics(s, g)
  PROVE  /\ Basics(RequestReconcile(s, isHidden), g)
         /\ Exists(RequestReconcile(s, isHidden)) <=> Exists(s)
         /\ Exists(s) => Asked(RequestReconcile(s, isHidden), listeners)
         /\ \A r \in Nat : AllCover(s, r) => AllCover(RequestReconcile(s, isHidden), r)
         /\ ~Overlapping(RequestReconcile(s, isHidden)) =>
               \A r \in Nat : CurrentCover(RequestReconcile(s, isHidden), r)
<1> DEFINE t == RequestReconcile(s, isHidden)
<1>0. s.query \in Query /\ s.window \in [hot : BOOLEAN, trailing : {"none", "armed", "due"}]
  BY DEF StoreState
<1>1. CASE ~ Exists(s)
  <2>1. t = s
    BY <1>1 DEF RequestReconcile
  <2> QED
    BY <1>1, <2>1 DEF CurrentCover, IsCurrent
<1>2. ASSUME Exists(s), NEW u \in StoreState,
             u.jobs = s.jobs, u.query.status = s.query.status,
             u.query.generation = s.query.generation, u.query.fetching = s.query.fetching,
             Flagged(u), Asked(u, listeners), t = u
      PROVE  /\ Basics(t, g) /\ Exists(t) /\ Asked(t, listeners)
             /\ \A r \in Nat : AllCover(s, r) => AllCover(t, r)
             /\ \A r \in Nat : CurrentCover(t, r)
  <2>1. Exists(u)
    BY <1>2 DEF Exists
  <2>2. Basics(u, g)
    BY <1>2, <2>1 DEF Basics, Gone, Loading, Generations, HasCurrent, IsCurrent
  <2> QED
    BY <1>2, <2>1, <2>2 DEF AllCover, CurrentCover
<1>3. ASSUME Exists(s), NEW u \in StoreState,
             u.jobs = s.jobs, u.query = s.query, t = Refetch(u)
      PROVE  /\ Basics(t, g) /\ Exists(t) /\ Asked(t, listeners)
             /\ \A r \in Nat : AllCover(s, r) => AllCover(t, r)
             /\ ~Overlapping(t) => \A r \in Nat : CurrentCover(t, r)
  <2>1. Exists(u)
    BY <1>3 DEF Exists
  <2>2. Basics(u, g)
    BY <1>3, <2>1 DEF Basics, Gone, Loading, Generations, HasCurrent, IsCurrent, Exists
  <2>3. \A r \in Nat : AllCover(s, r) => AllCover(u, r)
    BY <1>3 DEF AllCover
  <2> QED
    BY <1>3, <2>1, <2>2, <2>3, RefetchFetches DEF Asked
<1>4. CASE Exists(s) /\ listeners = 0
  <2> DEFINE u == [s EXCEPT !.query.pending = TRUE]
  <2>1. t = u
    BY <1>4 DEF RequestReconcile, MarkPending
  <2>2. /\ u \in StoreState /\ u.jobs = s.jobs /\ u.query.status = s.query.status
        /\ u.query.generation = s.query.generation /\ u.query.fetching = s.query.fetching
        /\ u.query.pending
    BY <1>0 DEF StoreState, Query
  <2>3. Flagged(u) /\ Asked(u, listeners)
    BY <1>4, <2>2 DEF Flagged, Asked
  <2> HIDE DEF u
  <2> QED
    BY <1>4, <2>1, <2>2, <2>3, <1>2
<1>5. CASE Exists(s) /\ listeners # 0 /\ isHidden
  <2> DEFINE u == [s EXCEPT !.deferred = TRUE, !.query.pending = TRUE]
  <2>1. t = u
    <3>1. t = MarkPending([s EXCEPT !.deferred = TRUE])
      BY <1>5 DEF RequestReconcile
    <3> QED
      BY <3>1, <1>0 DEF MarkPending, StoreState, Query
  <2>2. /\ u \in StoreState /\ u.jobs = s.jobs /\ u.query.status = s.query.status
        /\ u.query.generation = s.query.generation /\ u.query.fetching = s.query.fetching
        /\ u.query.pending /\ u.deferred
    BY <1>0 DEF StoreState, Query
  <2>3. Flagged(u) /\ Asked(u, listeners)
    BY <2>2 DEF Flagged, Asked, Owed
  <2> HIDE DEF u
  <2> QED
    BY <1>5, <2>1, <2>2, <2>3, <1>2
<1>6. CASE Exists(s) /\ listeners # 0 /\ ~isHidden /\ ~Cooldown
  <2>1. t = Refetch(s)
    BY <1>6 DEF RequestReconcile
  <2> QED
    BY <1>6, <2>1, <1>3
<1>7. CASE Exists(s) /\ listeners # 0 /\ ~isHidden /\ Cooldown /\ ~s.window.hot
  <2> DEFINE u == [s EXCEPT !.window.hot = TRUE]
  <2>1. t = Refetch(u)
    BY <1>7 DEF RequestReconcile
  <2>2. u \in StoreState /\ u.jobs = s.jobs /\ u.query = s.query
    BY <1>0 DEF StoreState
  <2> HIDE DEF u
  <2> QED
    BY <1>7, <2>1, <2>2, <1>3
<1>8. CASE Exists(s) /\ listeners # 0 /\ ~isHidden /\ Cooldown /\ s.window.hot
  <2> DEFINE u == [s EXCEPT !.window.trailing = IF @ = "none" THEN "armed" ELSE @]
  <2>1. t = u
    BY <1>8 DEF RequestReconcile
  <2>2. /\ u \in StoreState /\ u.jobs = s.jobs /\ u.query = s.query
        /\ u.window.trailing # "none"
    BY <1>0 DEF StoreState
  <2>3. Flagged(u) /\ Asked(u, listeners)
    BY <2>2 DEF Flagged, Asked, Owed
  <2> HIDE DEF u
  <2> QED
    BY <1>8, <2>1, <2>2, <2>3, <1>2
<1> HIDE DEF t
<1> QED
  BY <1>1, <1>2, <1>4, <1>5, <1>6, <1>7, <1>8 DEF t
\* A fetch that is over is forgotten; what the others cover stays covered.
LEMMA ForgetJob ==
  ASSUME NEW s \in StoreState, NEW g \in Nat, NEW i \in DOMAIN s.jobs, Generations(s, g)
  PROVE  LET d == [s EXCEPT !.jobs = RemoveAt(@, i)]
         IN  /\ d \in StoreState /\ d.query = s.query /\ d.window = s.window
             /\ d.deferred = s.deferred
             /\ Generations(d, g)
             /\ \A r \in Nat : AllCover(s, r) => AllCover(d, r)
             /\ \A r \in Nat : CurrentCover(s, r) => CurrentCover(d, r)
             /\ HasCurrent(s) /\ ~IsCurrent(s, s.jobs[i]) => HasCurrent(d)
<1> DEFINE d == [s EXCEPT !.jobs = RemoveAt(@, i)]
<1>0. s.jobs \in Seq(Job)
  BY DEF StoreState
<1>1. RemoveAt(s.jobs, i) \in Seq(Job)
  BY <1>0, RemoveJob
<1>2. /\ d \in StoreState /\ d.query = s.query /\ d.window = s.window
      /\ d.deferred = s.deferred /\ d.jobs = RemoveAt(s.jobs, i)
  BY <1>1 DEF StoreState
<1> HIDE DEF d
<1>3. \A k \in DOMAIN d.jobs : \E m \in DOMAIN s.jobs : d.jobs[k] = s.jobs[m]
  BY <1>0, <1>2, RemoveJob
<1>4. \A m \in DOMAIN s.jobs \ {i} : \E k \in DOMAIN d.jobs : d.jobs[k] = s.jobs[m]
  BY <1>0, <1>2, RemoveJob
<1>5. \A job : IsCurrent(d, job) <=> IsCurrent(s, job)
  BY <1>2 DEF IsCurrent, Exists
<1>6. Generations(d, g)
  BY <1>2, <1>3 DEF Generations, Exists
<1>7. \A r \in Nat : AllCover(s, r) => AllCover(d, r)
  BY <1>3 DEF AllCover
<1>8. \A r \in Nat : CurrentCover(s, r) => CurrentCover(d, r)
  <2>1. Flagged(d) <=> Flagged(s)
    BY <1>2 DEF Flagged, Owed
  <2> QED
    BY <1>3, <1>5, <2>1 DEF CurrentCover
<1>9. HasCurrent(s) /\ ~IsCurrent(s, s.jobs[i]) => HasCurrent(d)
  BY <1>4, <1>5 DEF HasCurrent
<1> QED
  BY <1>2, <1>6, <1>7, <1>8, <1>9 DEF d

\* After the gate was asked nothing is forgotten, whatever version was requested.
LEMMA GateRecalls ==
  ASSUME NEW s \in StoreState, NEW g \in Nat, NEW isHidden \in BOOLEAN, NEW r \in Nat,
         Basics(s, g)
  PROVE  LET t == RequestReconcile(s, isHidden)
         IN  /\ Basics(t, g)
             /\ AllCover(s, r) => Recalls(t, r, listeners)
             /\ ~Overlapping(t) => Marks(t, r, listeners)
<1> DEFINE t == RequestReconcile(s, isHidden)
<1>1. /\ Basics(t, g)
      /\ Exists(t) => Asked(t, listeners)
      /\ AllCover(s, r) => AllCover(t, r)
      /\ ~Overlapping(t) => CurrentCover(t, r)
  BY GateKeeps
<1> HIDE DEF t
<1>2. Kept(t, r, listeners) /\ Remembered(t, r, listeners)
  BY <1>1 DEF Asked, Kept, Remembered, Flagged, Exists
<1> QED
  BY <1>1, <1>2 DEF t, Recalls, Marks

\* The answer that arrives contains the version requested, or the events that say
\* so make the store ask once more.
LEMMA FetchedRecalls ==
  ASSUME NEW s \in StoreState, NEW g \in Nat, NEW i \in DOMAIN s.jobs,
         NEW r \in Nat, NEW replayed \in BOOLEAN, hidden \in BOOLEAN,
         Gone(s), Generations(s, g), IsCurrent(s, s.jobs[i]),
         s.jobs[i].phase = "answered", s.jobs[i].ok,
         replayed \/ s.jobs[i].journal = 0 \/ s.jobs[i].seen >= s.jobs[i].journal
  PROVE  LET t == Fetched([s EXCEPT !.jobs = RemoveAt(@, i)], s.jobs[i].seen, replayed)
         IN  /\ Basics(t, g)
             /\ AllCover(s, r) => Recalls(t, r, listeners)
             /\ ~Overlapping(t) /\ CurrentCover(s, r) => Marks(t, r, listeners)
<1> DEFINE d == [s EXCEPT !.jobs = RemoveAt(@, i)]
           job == s.jobs[i]
           u == [d EXCEPT !.query.status = "success", !.query.fetching = FALSE,
                          !.query.shown = job.seen]
           t == Fetched(d, job.seen, replayed)
<1>1. /\ d \in StoreState /\ d.query = s.query /\ d.window = s.window
      /\ d.deferred = s.deferred
      /\ Generations(d, g)
      /\ AllCover(s, r) => AllCover(d, r)
      /\ CurrentCover(s, r) => CurrentCover(d, r)
  BY ForgetJob
<1>2. job \in Job
  BY ElementOfSeq, LenProperties DEF StoreState
<1>3. Exists(s)
  BY DEF IsCurrent
<1> HIDE DEF d
<1>4. d.query \in Query
  BY <1>1 DEF StoreState
<1>5. /\ u \in StoreState /\ u.jobs = d.jobs /\ u.window = d.window
      /\ u.deferred = d.deferred
      /\ u.query.status = "success" /\ u.query.fetching = FALSE
      /\ u.query.shown = job.seen /\ u.query.pending = d.query.pending
      /\ u.query.dirty = d.query.dirty /\ u.query.generation = d.query.generation
  BY <1>1, <1>2, <1>4 DEF StoreState, Query, Job
<1>6. t = IF u.query.dirty /\ listeners > 0 THEN Queue(u)
          ELSE IF replayed THEN RequestReconcile(u, hidden) ELSE u
  BY DEF Fetched
<1> HIDE DEF u, t
<1>7. Exists(u) /\ (Exists(d) <=> Exists(u)) /\ Basics(u, g)
  BY <1>1, <1>3, <1>5 DEF Exists, Basics, Gone, Loading, Generations
<1>8. AllCover(s, r) => AllCover(u, r)
  BY <1>1, <1>5 DEF AllCover
<1>9. CurrentCover(s, r) => CurrentCover(u, r)
  <2>1. Flagged(u) <=> Flagged(d)
    BY <1>5 DEF Flagged, Owed
  <2> QED
    BY <2>1, <1>1, <1>5, <1>7 DEF CurrentCover, IsCurrent
<1>10. CASE u.query.dirty /\ listeners > 0
  <2>1. /\ Basics(t, g) /\ HasCurrent(t)
        /\ AllCover(u, r) => AllCover(t, r)
        /\ ~Overlapping(t) => CurrentCover(t, r)
    BY <1>5, <1>6, <1>7, <1>10, QueueFetches DEF Basics
  <2> QED
    BY <2>1, <1>8 DEF t, d, Recalls, Marks, Kept, Remembered
<1>11. CASE ~ (u.query.dirty /\ listeners > 0) /\ replayed
  <2>1. t = RequestReconcile(u, hidden)
    BY <1>6, <1>11
  <2> QED
    BY <2>1, <1>5, <1>7, <1>8, GateRecalls DEF t, d
<1>12. CASE ~ (u.query.dirty /\ listeners > 0) /\ ~replayed
  <2>1. t = u
    BY <1>6, <1>12
  <2>2. job.journal \in Nat /\ job.seen \in Nat
    BY <1>2 DEF Job
  <2>3. Covers(job, r) => job.seen >= r
    BY <2>2, <1>12 DEF Covers
  <2>4. AllCover(s, r) => Recalls(u, r, listeners)
    BY <1>5, <1>8, <2>3 DEF AllCover, Recalls, Kept
  <2>5. CurrentCover(s, r) => Covers(job, r) \/ Flagged(u)
    BY <1>1, <1>5 DEF CurrentCover, Flagged, Owed
  <2>6. CurrentCover(s, r) => Marks(u, r, listeners)
    BY <1>5, <1>9, <2>3, <2>5 DEF Marks, Remembered
  <2> QED
    BY <2>1, <2>4, <2>6, <1>7 DEF t, d
<1> QED
  BY <1>10, <1>11, <1>12
\* A response that is discarded is asked for again.
LEMMA DiscardedRecalls ==
  ASSUME NEW s \in StoreState, NEW g \in Nat, NEW i \in DOMAIN s.jobs, NEW r \in Nat,
         hidden \in BOOLEAN, Gone(s), Generations(s, g), Exists(s)
  PROVE  LET t == Discarded([s EXCEPT !.jobs = RemoveAt(@, i)])
         IN  /\ Basics(t, g)
             /\ AllCover(s, r) => Recalls(t, r, listeners)
             /\ ~Overlapping(t) => Marks(t, r, listeners)
<1> DEFINE d == [s EXCEPT !.jobs = RemoveAt(@, i)]
           u == [d EXCEPT !.query.fetching = FALSE]
<1>1. /\ d \in StoreState /\ d.query = s.query /\ d.window = s.window
      /\ d.deferred = s.deferred
      /\ Generations(d, g)
      /\ AllCover(s, r) => AllCover(d, r)
  BY ForgetJob
<1> HIDE DEF d
<1>2. d.query \in Query
  BY <1>1 DEF StoreState
<1>3. /\ u \in StoreState /\ u.jobs = d.jobs /\ u.query.status = d.query.status
      /\ u.query.fetching = FALSE /\ u.query.generation = d.query.generation
  BY <1>1, <1>2 DEF StoreState, Query
<1>4. Discarded(d) = RequestReconcile(u, hidden)
  BY DEF Discarded
<1> HIDE DEF u
<1>5. Exists(u) /\ Basics(u, g)
  BY <1>1, <1>3 DEF Exists, Basics, Gone, Loading, Generations
<1>6. AllCover(s, r) => AllCover(u, r)
  BY <1>1, <1>3 DEF AllCover
<1> QED
  BY <1>3, <1>4, <1>5, <1>6, GateRecalls DEF d

\* A fetch that failed shows its error, or is repeated.
LEMMA FailedRecalls ==
  ASSUME NEW s \in StoreState, NEW g \in Nat, NEW i \in DOMAIN s.jobs, NEW r \in Nat,
         Gone(s), Generations(s, g), Exists(s)
  PROVE  LET t == Failed([s EXCEPT !.jobs = RemoveAt(@, i)])
         IN  /\ Basics(t, g)
             /\ AllCover(s, r) => Recalls(t, r, listeners)
             /\ ~Overlapping(t) /\ CurrentCover(s, r) => Marks(t, r, listeners)
<1> DEFINE d == [s EXCEPT !.jobs = RemoveAt(@, i)]
           u == [d EXCEPT !.query.status = "error", !.query.fetching = FALSE]
           t == Failed(d)
<1>1. /\ d \in StoreState /\ d.query = s.query /\ d.window = s.window
      /\ d.deferred = s.deferred
      /\ Generations(d, g)
      /\ AllCover(s, r) => AllCover(d, r)
      /\ CurrentCover(s, r) => CurrentCover(d, r)
  BY ForgetJob
<1> HIDE DEF d
<1>2. d.query \in Query
  BY <1>1 DEF StoreState
<1>3. /\ u \in StoreState /\ u.jobs = d.jobs /\ u.window = d.window
      /\ u.deferred = d.deferred /\ u.query.status = "error"
      /\ u.query.fetching = FALSE /\ u.query.generation = d.query.generation
      /\ u.query.pending = d.query.pending /\ u.query.dirty = d.query.dirty
  BY <1>1, <1>2 DEF StoreState, Query
<1>4. t = IF u.query.dirty /\ listeners > 0 THEN Queue(u) ELSE u
  BY DEF Failed
<1> HIDE DEF u, t
<1>5. Exists(u) /\ (Exists(d) <=> Exists(u)) /\ Basics(u, g)
  BY <1>1, <1>3 DEF Exists, Basics, Gone, Loading, Generations
<1>6. AllCover(s, r) => AllCover(u, r)
  BY <1>1, <1>3 DEF AllCover
<1>7. CurrentCover(s, r) => CurrentCover(u, r)
  <2>1. Flagged(u) <=> Flagged(d)
    BY <1>3 DEF Flagged, Owed
  <2> QED
    BY <2>1, <1>1, <1>3, <1>5 DEF CurrentCover, IsCurrent
<1>8. CASE u.query.dirty /\ listeners > 0
  <2>1. /\ Basics(t, g) /\ HasCurrent(t)
        /\ AllCover(u, r) => AllCover(t, r)
        /\ ~Overlapping(t) => CurrentCover(t, r)
    BY <1>3, <1>4, <1>5, <1>8, QueueFetches DEF Basics
  <2> QED
    BY <2>1, <1>6 DEF t, d, Recalls, Marks, Kept, Remembered
<1>9. CASE ~ (u.query.dirty /\ listeners > 0)
  BY <1>3, <1>4, <1>5, <1>6, <1>7, <1>9 DEF t, d, Recalls, Marks, Kept, Remembered
<1> QED
  BY <1>8, <1>9

\* What a new subscriber finds is what the cache had, or is being fetched.
LEMMA SubscribedRecalls ==
  ASSUME NEW s \in StoreState, NEW r \in Nat, NEW n \in Nat,
         generation \in Nat, Basics(s, generation)
  PROVE  LET t == EnsureFresh(Materialize(s))
         IN  /\ Basics(t, t.query.generation) /\ t.query.generation \in Nat
             /\ Recalls(s, r, n) => Recalls(t, r, n + 1)
             /\ ~Overlapping(t) /\ Marks(s, r, n) => Marks(t, r, n + 1)
<1> DEFINE m == Materialize(s)
           t == EnsureFresh(m)
<1>0. s.query \in Query
  BY DEF StoreState
<1>1. ASSUME NEW g \in Nat, NEW u \in StoreState, t = Queue(u), Exists(u), Generations(u, g),
             u.jobs = s.jobs
      PROVE  /\ Basics(t, t.query.generation) /\ t.query.generation \in Nat
             /\ AllCover(s, r) => Recalls(t, r, n + 1)
             /\ ~Overlapping(t) => Marks(t, r, n + 1)
  <2>1. /\ Basics(t, g) /\ HasCurrent(t) /\ Exists(t)
        /\ AllCover(u, r) => AllCover(t, r)
        /\ ~Overlapping(t) => CurrentCover(t, r)
    BY <1>1, QueueFetches
  <2>2. t.query.generation = g
    BY <2>1 DEF Basics, Generations
  <2>3. AllCover(s, r) => AllCover(u, r)
    BY <1>1 DEF AllCover
  <2> QED
    BY <2>1, <2>2, <2>3 DEF Recalls, Marks, Kept, Remembered
<1>2. CASE ~ Exists(s)
  <2> DEFINE q == [NoQuery EXCEPT !.status = "loading", !.fetching = TRUE,
                                  !.pending = TRUE, !.generation = generation + 1]
  <2>1. m = [s EXCEPT !.query = q]
    BY <1>2 DEF Materialize
  <2>2. /\ q \in Query /\ q.status = "loading" /\ q.pending /\ q.generation = generation + 1
    <3>1. NoQuery \in Query
      BY DEF NoQuery, Query
    <3>2. generation + 1 \in Nat
      OBVIOUS
    <3> QED
      BY <3>1, <3>2 DEF Query
  <2> HIDE DEF q
  <2>3. m \in StoreState /\ m.query = q /\ m.jobs = s.jobs
    BY <2>1, <2>2 DEF StoreState
  <2>4. \A i \in DOMAIN s.jobs : s.jobs[i].generation \in Nat
    <3>1. s.jobs \in Seq(Job)
      BY DEF StoreState
    <3>2. \A i \in DOMAIN s.jobs : s.jobs[i] \in Job
      BY <3>1, LenProperties, ElementOfSeq
    <3> QED
      BY <3>2 DEF Job
  <2>5. Exists(m) /\ Generations(m, generation + 1)
    BY <2>2, <2>3, <2>4 DEF Exists, Generations, Basics
  <2>6. t = Queue(m)
    BY <2>2, <2>3 DEF EnsureFresh
  <2> HIDE DEF m, t
  <2>7. generation + 1 \in Nat
    OBVIOUS
  <2>8. /\ Basics(t, t.query.generation) /\ t.query.generation \in Nat
        /\ AllCover(s, r) => Recalls(t, r, n + 1)
        /\ ~Overlapping(t) => Marks(t, r, n + 1)
    BY <2>3, <2>5, <2>6, <2>7, <1>1
  <2> QED
    BY <2>8 DEF t, m, Recalls
<1>3. CASE Exists(s)
  <2>1. m = s
    BY <1>3 DEF Materialize
  <2>2. CASE t = Queue(s)
    <3> HIDE DEF t
    <3>1. /\ Basics(t, t.query.generation) /\ t.query.generation \in Nat
          /\ AllCover(s, r) => Recalls(t, r, n + 1)
          /\ ~Overlapping(t) => Marks(t, r, n + 1)
      BY <2>2, <1>1, <1>3 DEF Basics
    <3> QED
      BY <3>1 DEF t, m, Recalls
  <2>3. CASE t # Queue(s)
    <3>1. /\ t = s /\ ~s.query.pending
          /\ s.query.status = "success" /\ policy = "swr" => s.query.fetching
      BY <2>1, <2>3, <1>0 DEF EnsureFresh, Query
    <3> HIDE DEF t
    <3>2. s.query.status = "success" /\ policy = "swr" => HasCurrent(s)
      BY <3>1 DEF Basics, Loading
    <3>3. Kept(s, r, n) => Kept(s, r, n + 1)
      BY <3>1, <3>2 DEF Kept
    <3>4. Remembered(s, r, n) => Remembered(s, r, n + 1)
      BY <3>2 DEF Remembered
    <3>5. s.query.generation = generation
      BY <1>3 DEF Basics, Generations
    <3> QED
      BY <3>1, <3>3, <3>4, <3>5 DEF t, m, Recalls, Marks
  <2> QED
    BY <2>2, <2>3
<1> QED
  BY <1>2, <1>3
-----------------------------------------------------------------------------
(* The invariant.                                                          *)

\* Nothing is cached at first.
LEMMA InitEstablishes == Init => IInv
<1> SUFFICES ASSUME Init PROVE IInv
  OBVIOUS
<1>1. State = [query |-> NoQuery, jobs |-> << >>, window |-> NoWindow, deferred |-> FALSE]
  BY DEF Init, State
<1>2. State \in StoreState /\ State.query = NoQuery /\ State.window = NoWindow
      /\ State.deferred = FALSE /\ DOMAIN State.jobs = {}
  BY <1>1, EmptySeq, IsASeq DEF StoreState, Query, NoQuery, NoWindow
<1>3. State.query.status = "none" /\ State.query.fetching = FALSE
  BY <1>2 DEF NoQuery
<1>4. ~Exists(State)
  BY <1>3 DEF Exists
<1>5. Basics(State, generation)
  BY <1>2, <1>3, <1>4 DEF Basics, Gone, Loading, Generations
<1>6. /\ Recalls(State, requested, listeners)
      /\ Marks(State, requested, listeners)
  BY <1>2, <1>3 DEF Recalls, Marks, Kept, Remembered, AllCover, CurrentCover
<1>7. /\ version \in Nat /\ requested \in Nat /\ requested <= version
      /\ listeners \in Nat /\ generation \in Nat
  BY DEF Init
<1>8. hidden \in BOOLEAN /\ overlapped \in BOOLEAN
  BY DEF Init
<1> QED
  BY <1>5, <1>6, <1>7, <1>8 DEF IInv

\* A step of the store that leaves listeners, requested and generation alone or
\* whose new values are those given.
LEMMA BecomeEstablishes ==
  ASSUME NEW s \in StoreState, Become(s), UNCHANGED <<policy, reasons>>,
         version' \in Nat, requested' \in Nat, requested' <= version',
         listeners' \in Nat, generation' \in Nat, hidden' \in BOOLEAN, overlapped \in BOOLEAN,
         Basics(s, generation'),
         Own => Recalls(s, requested', listeners'),
         ~overlapped /\ ~Overlapping(s) => Marks(s, requested', listeners')
  PROVE  IInv'
<1>1. State' = s
  BY DEF Become, State, StoreState
<1>2. overlapped' = (overlapped \/ Overlapping(s))
  BY DEF Become
<1>3. overlapped' \in BOOLEAN
  BY <1>2 DEF Overlapping
<1>4. Basics(State', generation')
  BY <1>1
<1>5. Own' => Recalls(State, requested, listeners)'
  BY <1>1 DEF Own, Recalls, Kept
<1>6. ~overlapped' => Marks(State, requested, listeners)'
  BY <1>1, <1>2 DEF Marks, Remembered
<1> QED
  BY <1>3, <1>4, <1>5, <1>6 DEF IInv
\* A subscriber starts the query, or joins it.
LEMMA SubscribePreserves == IInv /\ Subscribe => IInv'
<1> SUFFICES ASSUME IInv, Subscribe PROVE IInv'
  OBVIOUS
<1> DEFINE s == EnsureFresh(Materialize(State))
<1>1. State \in StoreState /\ Basics(State, generation)
  BY DEF IInv, Basics
<1>2. /\ Basics(s, s.query.generation) /\ s.query.generation \in Nat
      /\ Recalls(State, requested, listeners) => Recalls(s, requested, listeners + 1)
      /\ ~Overlapping(s) /\ Marks(State, requested, listeners) => Marks(s, requested, listeners + 1)
  BY <1>1, SubscribedRecalls DEF IInv
<1>3. Become(s) /\ generation' = query'.generation /\ listeners' = listeners + 1
      /\ UNCHANGED <<policy, reasons, hidden, version, requested>>
  BY DEF Subscribe
<1> HIDE DEF s
<1>4. generation' = s.query.generation
  BY <1>3 DEF Become
<1>5. s \in StoreState
  BY <1>2 DEF Basics
<1> QED
  BY <1>2, <1>3, <1>4, <1>5, BecomeEstablishes DEF IInv

\* The last subscriber of a network-only query takes it along.
LEMMA UnsubscribePreserves == IInv /\ Unsubscribe => IInv'
<1> SUFFICES ASSUME IInv, Unsubscribe PROVE IInv'
  OBVIOUS
<1>1. State \in StoreState /\ Basics(State, generation)
  BY DEF IInv, Basics
<1>2. /\ listeners > 0 /\ listeners' = listeners - 1
      /\ UNCHANGED <<policy, reasons, generation, hidden, version, requested>>
  BY DEF Unsubscribe
<1>3. listeners' \in Nat
  BY <1>2 DEF IInv
<1>4. CASE Become(State)
  <2>1. Own => Recalls(State, requested', listeners')
    BY <1>2 DEF IInv, Recalls, Kept
  <2>2. ~overlapped => Marks(State, requested', listeners')
    BY <1>2 DEF IInv, Marks, Remembered
  <2> QED
    BY <1>1, <1>2, <1>3, <1>4, <2>1, <2>2, BecomeEstablishes DEF IInv
<1>5. CASE Become(Vacuum(State))
  <2> DEFINE s == Vacuum(State)
  <2>1. s = [State EXCEPT !.query = NoQuery, !.window = NoWindow, !.deferred = FALSE]
    BY DEF Vacuum
  <2>2. NoQuery \in Query /\ NoWindow \in [hot : BOOLEAN, trailing : {"none", "armed", "due"}]
    BY DEF NoQuery, NoWindow, Query
  <2>3. /\ s \in StoreState /\ s.query = NoQuery /\ s.window = NoWindow
        /\ s.deferred = FALSE /\ s.jobs = State.jobs
    BY <1>1, <2>1, <2>2 DEF StoreState
  <2> HIDE DEF s
  <2>4. NoQuery.status = "none" /\ NoQuery.fetching = FALSE
    BY DEF NoQuery
  <2>5. Basics(s, generation')
    BY <1>1, <1>2, <2>3, <2>4 DEF Basics, Gone, Loading, Generations, Exists
  <2>6. Own => Recalls(s, requested', listeners')
    BY <1>2, <2>3, <2>4 DEF IInv, Recalls, Kept, AllCover
  <2>7. Marks(s, requested', listeners')
    BY <2>3, <2>4 DEF Marks, Remembered, CurrentCover, IsCurrent, Exists
  <2> QED
    BY <1>2, <1>3, <1>5, <2>3, <2>5, <2>6, <2>7, BecomeEstablishes DEF IInv, s
<1> QED
  BY <1>4, <1>5 DEF Unsubscribe

\* The gate is asked in a state that differs from the store's in what may wait.
LEMMA AskingPreserves ==
  ASSUME IInv, NEW s \in StoreState, NEW isHidden \in BOOLEAN,
         Basics(s, generation),
         Own => AllCover(s, requested'),
         Become(RequestReconcile(s, isHidden)),
         UNCHANGED <<policy, reasons, listeners, generation>>,
         version' \in Nat, requested' \in Nat, requested' <= version', hidden' \in BOOLEAN
  PROVE  IInv'
<1> DEFINE t == RequestReconcile(s, isHidden)
<1>1. /\ Basics(t, generation)
      /\ AllCover(s, requested') => Recalls(t, requested', listeners)
      /\ ~Overlapping(t) => Marks(t, requested', listeners)
  BY GateRecalls DEF IInv
<1>2. Become(t)
  OBVIOUS
<1> HIDE DEF t
<1>3. t \in StoreState
  BY <1>1 DEF Basics
<1> QED
  BY <1>1, <1>2, <1>3, BecomeEstablishes DEF IInv
\* A state that has the same query and fetches.
LEMMA SameFetches ==
  ASSUME NEW s \in StoreState, NEW t \in StoreState, NEW g \in Nat,
         t.query = s.query, t.jobs = s.jobs, Basics(s, g), Exists(s)
  PROVE  Basics(t, g) /\ \A r \in Nat : AllCover(s, r) => AllCover(t, r)
<1> QED
  BY DEF Basics, Gone, Loading, Generations, HasCurrent, IsCurrent, Exists, AllCover

\* The tab is shown: what was deferred is asked for.
LEMMA ShowPreserves == IInv /\ Show => IInv'
<1> SUFFICES ASSUME IInv, Show PROVE IInv'
  OBVIOUS
<1> DEFINE s == [State EXCEPT !.deferred = FALSE]
<1>1. State \in StoreState /\ Basics(State, generation)
  BY DEF IInv, Basics
<1>2. /\ s \in StoreState /\ s.query = State.query /\ s.jobs = State.jobs
      /\ s.window = State.window /\ s.deferred = FALSE /\ State.deferred = deferred
  BY <1>1 DEF StoreState, State
<1>3. /\ Become(IF deferred THEN RequestReconcile(s, FALSE) ELSE s)
      /\ hidden' = FALSE
      /\ UNCHANGED <<policy, reasons, generation, listeners, version, requested>>
  BY DEF Show
<1> HIDE DEF s
<1>4. Basics(s, generation)
  <2>1. CASE Exists(State)
    BY <1>1, <1>2, <2>1, SameFetches DEF IInv
  <2>2. CASE ~Exists(State)
    BY <1>1, <1>2, <2>2 DEF Basics, Gone, Loading, Generations, HasCurrent, IsCurrent, Exists
  <2> QED
    BY <2>1, <2>2
<1>5. \A r \in Nat : AllCover(State, r) => AllCover(s, r)
  BY <1>2 DEF AllCover
<1>6. CASE deferred
  <2>1. Own => AllCover(s, requested')
    BY <1>3, <1>5 DEF IInv, Recalls
  <2>2. Become(RequestReconcile(s, FALSE))
    BY <1>3, <1>6
  <2> QED
    BY <1>2, <1>3, <1>4, <2>1, <2>2, AskingPreserves DEF IInv
<1>7. CASE ~deferred
  <2>1. s = State
    BY <1>1, <1>2, <1>7 DEF StoreState
  <2>2. Become(State)
    BY <1>3, <1>7, <2>1
  <2>3. Own => Recalls(State, requested', listeners')
    BY <1>3 DEF IInv
  <2>4. ~overlapped => Marks(State, requested', listeners')
    BY <1>3 DEF IInv
  <2> QED
    BY <1>1, <1>3, <2>2, <2>3, <2>4, BecomeEstablishes DEF IInv
<1> QED
  BY <1>6, <1>7

\* The trailing timer asks the gate again.
LEMMA TrailingPreserves == IInv /\ Trailing => IInv'
<1> SUFFICES ASSUME IInv, Trailing PROVE IInv'
  OBVIOUS
<1> DEFINE s == [State EXCEPT !.window.trailing = "none"]
<1>1. State \in StoreState /\ Basics(State, generation)
  BY DEF IInv, Basics
<1>2. State.window \in [hot : BOOLEAN, trailing : {"none", "armed", "due"}]
  BY <1>1 DEF StoreState
<1>3. s \in StoreState /\ s.query = State.query /\ s.jobs = State.jobs
  BY <1>1, <1>2 DEF StoreState
<1>4. /\ Become(RequestReconcile(s, hidden))
      /\ UNCHANGED <<policy, reasons, generation, listeners, hidden, version, requested>>
      /\ State.window.trailing = "due"
  BY DEF Trailing, State
<1> HIDE DEF s
<1>5. Exists(State)
  BY <1>1, <1>4 DEF Basics, Gone, NoWindow
<1>6. Basics(s, generation) /\ (Own => AllCover(s, requested'))
  BY <1>1, <1>3, <1>4, <1>5, SameFetches DEF IInv, Recalls
<1> QED
  BY <1>3, <1>4, <1>6, AskingPreserves DEF IInv

\* Every fetch under way has the event of the query's own service in its journal, so
\* that only a request of another kind depends on the gate alone.
LEMMA ToldPreserves ==
  ASSUME IInv, NEW cause \in {"event", "refetch", "related", "sweep"}, Told(cause)
  PROVE  IInv'
<1>1. State \in StoreState /\ Basics(State, generation)
  BY DEF IInv, Basics
<1>2. /\ cause \in reasons
      /\ UNCHANGED <<policy, reasons, generation, listeners, hidden, version>>
  BY DEF Told
<1> DEFINE s == [State EXCEPT !.jobs = Journalled]
<1>3. CASE cause \in {"event", "refetch"}
  <2>1. jobs \in Seq(Job) /\ State.jobs = jobs
    BY <1>1 DEF StoreState, State
  <2>2. /\ Journalled \in Seq(Job) /\ DOMAIN Journalled = DOMAIN jobs
        /\ \A i \in DOMAIN jobs :
              /\ Journalled[i].generation = jobs[i].generation
              /\ Journalled[i].phase = jobs[i].phase
              /\ Journalled[i].phase # "waiting" => Journalled[i].journal = version
    <3>1. Len(jobs) \in Nat /\ DOMAIN jobs = 1 .. Len(jobs) /\ \A i \in DOMAIN jobs : jobs[i] \in Job
      BY <2>1, LenProperties, ElementOfSeq
    <3>2. \A i \in DOMAIN jobs :
             /\ [jobs[i] EXCEPT !.journal = version] \in Job
             /\ [jobs[i] EXCEPT !.journal = version].generation = jobs[i].generation
             /\ [jobs[i] EXCEPT !.journal = version].phase = jobs[i].phase
             /\ [jobs[i] EXCEPT !.journal = version].journal = version
      BY <3>1 DEF Job, IInv
    <3>3. Journalled \in [1 .. Len(jobs) -> Job]
      BY <3>1, <3>2 DEF Journalled
    <3>4. Journalled \in Seq(Job)
      BY <3>1, <3>3, IsASeq
    <3> QED
      BY <3>1, <3>2, <3>4 DEF Journalled
  <2>3. /\ s \in StoreState /\ s.query = State.query /\ s.jobs = Journalled
        /\ s.window = State.window /\ s.deferred = State.deferred
    BY <1>1, <2>2 DEF StoreState
  <2>4. /\ cause = "refetch" /\ listeners = 0 => Become(s) /\ UNCHANGED requested
        /\ ~(cause = "refetch" /\ listeners = 0) =>
              Become(RequestReconcile(s, hidden)) /\ requested' = version
    BY <1>3 DEF Told
  <2> HIDE DEF s
  <2>5. Basics(s, generation)
    BY <1>1, <2>1, <2>2, <2>3 DEF Basics, Gone, Loading, Generations, HasCurrent, IsCurrent, Exists
  <2>6. \A r \in Nat : r <= version => AllCover(s, r)
    BY <2>2, <2>3 DEF AllCover, Covers, IInv
  <2>7. CASE cause = "refetch" /\ listeners = 0
    <3>1. Own => Recalls(s, requested', listeners')
      <4>1. Kept(State, requested, listeners) => Kept(s, requested, listeners)
        BY <2>1, <2>2, <2>3 DEF Kept, Owed, HasCurrent, IsCurrent, Exists
      <4> QED
        BY <4>1, <2>4, <2>6, <2>7, <1>2 DEF IInv, Recalls
    <3>2. ~overlapped => Marks(s, requested', listeners')
      <4>1. Remembered(State, requested, listeners) => Remembered(s, requested, listeners)
        BY <2>1, <2>2, <2>3 DEF Remembered, Flagged, Owed, HasCurrent, IsCurrent, Exists
      <4>2. CurrentCover(s, requested)
        BY <2>6 DEF IInv, AllCover, CurrentCover
      <4> QED
        BY <4>1, <4>2, <2>4, <2>7, <1>2 DEF IInv, Marks
    <3> QED
      BY <2>3, <2>4, <2>5, <2>7, <3>1, <3>2, <1>2, BecomeEstablishes DEF IInv
  <2>8. CASE ~(cause = "refetch" /\ listeners = 0)
    BY <2>3, <2>4, <2>5, <2>6, <2>8, <1>2, AskingPreserves DEF IInv
  <2> QED
    BY <2>7, <2>8
<1>4. CASE cause \in {"related", "sweep"}
  <2>1. ~Own
    BY <1>2, <1>4 DEF Own, Journalling
  <2>2. /\ cause = "sweep" /\ listeners = 0 => Become(State) /\ UNCHANGED requested
        /\ ~(cause = "sweep" /\ listeners = 0) =>
              Become(RequestReconcile(State, hidden)) /\ requested' = version
    BY <1>4 DEF Told
  <2>3. CASE cause = "sweep" /\ listeners = 0
    <3>1. ~overlapped => Marks(State, requested', listeners')
      BY <2>2, <2>3, <1>2 DEF IInv
    <3> QED
      BY <1>1, <1>2, <2>1, <2>2, <2>3, <3>1, BecomeEstablishes DEF IInv
  <2>4. CASE ~(cause = "sweep" /\ listeners = 0)
    BY <1>1, <1>2, <2>1, <2>2, <2>4, AskingPreserves DEF IInv
  <2> QED
    BY <2>3, <2>4
<1> QED
  BY <1>3, <1>4
\* A manual refetch passes no gate.
LEMMA ManualPreserves ==
  ASSUME IInv, NEW everyQuery \in BOOLEAN, Manual(everyQuery)
  PROVE  IInv'
<1>1. State \in StoreState /\ Basics(State, generation)
  BY DEF IInv, Basics
<1>2. /\ Exists(State) /\ requested' = version /\ "manual" \in reasons
      /\ Become(IF everyQuery /\ listeners = 0 THEN MarkPending(State) ELSE Refetch(State))
      /\ UNCHANGED <<policy, reasons, generation, listeners, hidden, version>>
  BY DEF Manual
<1>3. ~Own
  BY <1>2 DEF Own, Journalling
<1>4. CASE everyQuery /\ listeners = 0
  <2> DEFINE s == [State EXCEPT !.query.pending = TRUE]
  <2>1. Become(s)
    BY <1>2, <1>4 DEF MarkPending
  <2>2. State.query \in Query
    BY <1>1 DEF StoreState
  <2>3. /\ s \in StoreState /\ s.jobs = State.jobs /\ s.query.status = State.query.status
        /\ s.query.generation = State.query.generation
        /\ s.query.fetching = State.query.fetching /\ s.query.pending
    BY <1>1, <2>2 DEF StoreState, Query
  <2> HIDE DEF s
  <2>4. Basics(s, generation)
    BY <1>1, <1>2, <2>3 DEF Basics, Gone, Loading, Generations, HasCurrent, IsCurrent, Exists
  <2>5. Marks(s, requested', listeners')
    BY <2>3 DEF Marks, Remembered, CurrentCover, Flagged
  <2> QED
    BY <1>2, <1>3, <2>1, <2>3, <2>4, <2>5, BecomeEstablishes DEF IInv
<1>5. CASE ~(everyQuery /\ listeners = 0)
  <2> DEFINE s == Refetch(State)
  <2>1. Become(s)
    BY <1>2, <1>5
  <2>2. /\ Basics(s, generation) /\ HasCurrent(s)
        /\ ~Overlapping(s) => CurrentCover(s, version)
    BY <1>1, <1>2, RefetchFetches DEF IInv
  <2> HIDE DEF s
  <2>3. s \in StoreState
    BY <2>2 DEF Basics
  <2>4. ~Overlapping(s) => Marks(s, requested', listeners')
    BY <1>2, <2>2 DEF Marks, Remembered
  <2> QED
    BY <1>2, <1>3, <2>1, <2>2, <2>3, <2>4, BecomeEstablishes DEF IInv
<1> QED
  BY <1>4, <1>5

\* Hiding the tab, a change at the server.
LEMMA EnvironmentPreserves == IInv /\ (Hide \/ Change) => IInv'
<1> SUFFICES ASSUME IInv, Hide \/ Change PROVE IInv'
  OBVIOUS
<1>1. /\ State' = State /\ version' \in Nat /\ version <= version' /\ hidden' \in BOOLEAN
      /\ UNCHANGED <<policy, reasons, generation, listeners, requested, overlapped>>
  <2>1. UNCHANGED <<policy, reasons, query, generation, jobs, window, deferred, listeners,
                    requested, overlapped>>
    BY DEF Hide, Change
  <2>2. State' = State
    BY <2>1 DEF State
  <2>3. version' \in Nat /\ version <= version'
    BY DEF Hide, Change, IInv
  <2>4. hidden' \in BOOLEAN
    BY DEF Hide, Change, IInv
  <2> QED
    BY <2>1, <2>2, <2>3, <2>4
<1>2. requested' <= version'
  BY <1>1 DEF IInv
<1>3. Basics(State', generation')
  BY <1>1 DEF IInv
<1>4. Own' => Recalls(State, requested, listeners)'
  BY <1>1 DEF IInv, Own, Recalls, Kept
<1>5. ~overlapped' => Marks(State, requested, listeners)'
  BY <1>1 DEF IInv, Marks, Remembered
<1> QED
  BY <1>1, <1>2, <1>3, <1>4, <1>5 DEF IInv

\* The cooldown ends: the timer armed in it is due.
LEMMA CoolDownPreserves == IInv /\ CoolDown => IInv'
<1> SUFFICES ASSUME IInv, CoolDown PROVE IInv'
  OBVIOUS
<1> DEFINE w == [hot |-> FALSE, trailing |-> IF window.trailing = "none" THEN "none" ELSE "due"]
           s == [State EXCEPT !.window = w]
<1>1. State \in StoreState /\ Basics(State, generation) /\ State.window = window
  BY DEF IInv, Basics, State
<1>2. window.hot /\ window' = w
      /\ UNCHANGED <<policy, reasons, query, jobs, deferred, generation, listeners, hidden,
                     version, requested, overlapped>>
  BY DEF CoolDown
<1>3. State' = s
  <2> HIDE DEF w
  <2>1. State' = [query |-> query, jobs |-> jobs, window |-> w, deferred |-> deferred]
    BY <1>2 DEF State
  <2>2. s = [query |-> query, jobs |-> jobs, window |-> w, deferred |-> deferred]
    BY DEF State
  <2> QED
    BY <2>1, <2>2
<1>4. /\ s \in StoreState /\ s.query = State.query /\ s.jobs = State.jobs
      /\ s.deferred = State.deferred
      /\ s.window.trailing # "none" <=> State.window.trailing # "none"
  BY <1>1 DEF StoreState
<1> HIDE DEF s
<1>5. Exists(State)
  BY <1>1, <1>2 DEF Basics, Gone, NoWindow
<1>6. Basics(s, generation) /\ \A r \in Nat : AllCover(State, r) => AllCover(s, r)
  BY <1>1, <1>4, <1>5, SameFetches DEF IInv
<1>7. (HasCurrent(s) <=> HasCurrent(State)) /\ (Owed(s) <=> Owed(State))
      /\ (Flagged(s) <=> Flagged(State))
  BY <1>4 DEF HasCurrent, IsCurrent, Exists, Owed, Flagged
<1>8. Kept(State, requested, listeners) => Kept(s, requested, listeners)
  BY <1>4, <1>7 DEF Kept
<1>9. Marks(State, requested, listeners) => Marks(s, requested, listeners)
  BY <1>4, <1>7 DEF Marks, Remembered, CurrentCover, IsCurrent, Exists
<1>10. Own' => Recalls(State, requested, listeners)'
  BY <1>2, <1>3, <1>6, <1>8 DEF IInv, Own, Recalls, Kept
<1>11. ~overlapped' => Marks(State, requested, listeners)'
  BY <1>2, <1>3, <1>9 DEF IInv, Marks, Remembered
<1> QED
  BY <1>2, <1>3, <1>6, <1>10, <1>11 DEF IInv

\* A fetch that goes on, whatever it is now, with what it may have learnt.
LEMMA ReplaceJob ==
  ASSUME NEW s \in StoreState, NEW g \in Nat, NEW i \in DOMAIN s.jobs, NEW job \in Job,
         Basics(s, g), job.generation = s.jobs[i].generation
  PROVE  LET t == [s EXCEPT !.jobs = [s.jobs EXCEPT ![i] = job]]
         IN  /\ Basics(t, g) /\ t.query = s.query /\ t.window = s.window
             /\ t.deferred = s.deferred
             /\ HasCurrent(s) => HasCurrent(t)
             /\ \A r \in Nat : Covers(job, r) /\ AllCover(s, r) => AllCover(t, r)
             /\ \A r \in Nat : Covers(job, r) /\ CurrentCover(s, r) => CurrentCover(t, r)
<1> DEFINE t == [s EXCEPT !.jobs = [s.jobs EXCEPT ![i] = job]]
<1>1. s.jobs \in Seq(Job)
  BY DEF StoreState
<1>2. /\ [s.jobs EXCEPT ![i] = job] \in Seq(Job)
      /\ DOMAIN [s.jobs EXCEPT ![i] = job] = DOMAIN s.jobs
      /\ [s.jobs EXCEPT ![i] = job][i] = job
      /\ \A k \in DOMAIN s.jobs \ {i} : [s.jobs EXCEPT ![i] = job][k] = s.jobs[k]
  BY <1>1, ExceptSeq, LenProperties
<1>3. /\ t \in StoreState /\ t.query = s.query /\ t.window = s.window
      /\ t.deferred = s.deferred /\ t.jobs = [s.jobs EXCEPT ![i] = job]
  BY <1>2 DEF StoreState
<1> HIDE DEF t
<1>4. /\ DOMAIN t.jobs = DOMAIN s.jobs
      /\ \A k \in DOMAIN s.jobs : /\ t.jobs[k].generation = s.jobs[k].generation
                                  /\ t.jobs[k] = job \/ t.jobs[k] = s.jobs[k]
  BY <1>2, <1>3
<1>5. \A k \in DOMAIN s.jobs : IsCurrent(t, t.jobs[k]) <=> IsCurrent(s, s.jobs[k])
  BY <1>3, <1>4 DEF IsCurrent, Exists
<1>6. HasCurrent(s) => HasCurrent(t)
  BY <1>4, <1>5 DEF HasCurrent
<1>7. Basics(t, g)
  BY <1>3, <1>4, <1>6 DEF Basics, Gone, Loading, Generations, Exists
<1>8. \A r \in Nat : Covers(job, r) /\ AllCover(s, r) => AllCover(t, r)
  BY <1>4 DEF AllCover
<1>9. \A r \in Nat : Covers(job, r) /\ CurrentCover(s, r) => CurrentCover(t, r)
  <2>1. Flagged(t) <=> Flagged(s)
    BY <1>3 DEF Flagged, Owed
  <2> QED
    BY <2>1, <1>4, <1>5 DEF CurrentCover
<1> QED
  BY <1>3, <1>6, <1>7, <1>8, <1>9 DEF t
\* The invariant survives a fetch that goes on and covers what is requested.
LEMMA ReplaceRecalls ==
  ASSUME IInv, NEW i \in DOMAIN jobs, NEW job \in Job,
         job.generation = jobs[i].generation, Covers(job, requested)
  PROVE  LET t == [State EXCEPT !.jobs = [jobs EXCEPT ![i] = job]]
         IN  /\ Basics(t, generation)
             /\ Own => Recalls(t, requested, listeners)
             /\ ~overlapped => Marks(t, requested, listeners)
<1> DEFINE t == [State EXCEPT !.jobs = [State.jobs EXCEPT ![i] = job]]
<1>1. State \in StoreState /\ Basics(State, generation) /\ State.jobs = jobs
  BY DEF IInv, Basics, State
<1>2. /\ Basics(t, generation) /\ t.query = State.query /\ t.window = State.window
      /\ t.deferred = State.deferred
      /\ HasCurrent(State) => HasCurrent(t)
      /\ AllCover(State, requested) => AllCover(t, requested)
      /\ CurrentCover(State, requested) => CurrentCover(t, requested)
  BY <1>1, ReplaceJob DEF IInv
<1> HIDE DEF t
<1>3. Kept(State, requested, listeners) => Kept(t, requested, listeners)
  BY <1>2 DEF Kept, Owed
<1>4. Remembered(State, requested, listeners) => Remembered(t, requested, listeners)
  BY <1>2 DEF Remembered, Flagged, Owed
<1> QED
  BY <1>1, <1>2, <1>3, <1>4 DEF t, IInv, Recalls, Marks

\* The server answers with its version, which no request is ahead of.
LEMMA AnswerPreserves ==
  ASSUME IInv, NEW i \in DOMAIN jobs, Answer(i)
  PROVE  IInv'
<1>1. PICK ok \in BOOLEAN :
         /\ jobs' = [jobs EXCEPT ![i] = [@ EXCEPT !.phase = "answered", !.ok = ok,
                                                  !.seen = IF ok THEN version ELSE 0]]
         /\ UNCHANGED <<policy, reasons, query, generation, window, deferred, listeners,
                        hidden, version, requested, overlapped>>
  BY DEF Answer
<1> DEFINE job == [jobs[i] EXCEPT !.phase = "answered", !.ok = ok,
                                  !.seen = IF ok THEN version ELSE 0]
           t == [State EXCEPT !.jobs = [jobs EXCEPT ![i] = job]]
<1>2. jobs[i] \in Job
  BY LenProperties, ElementOfSeq DEF IInv, Basics, State, StoreState
<1>3. /\ job \in Job /\ job.generation = jobs[i].generation /\ job.ok = ok
      /\ job.seen = IF ok THEN version ELSE 0
  BY <1>2 DEF Job, IInv
<1>4. jobs' = [jobs EXCEPT ![i] = job]
  BY <1>1
<1> HIDE DEF job
<1>5. Covers(job, requested)
  BY <1>3 DEF Covers, IInv
<1>6. /\ Basics(t, generation)
      /\ Own => Recalls(t, requested, listeners)
      /\ ~overlapped => Marks(t, requested, listeners)
  BY <1>3, <1>5, ReplaceRecalls
<1>7. State' = t
  <2>1. State' = [query |-> query, jobs |-> [jobs EXCEPT ![i] = job],
                  window |-> window, deferred |-> deferred]
    BY <1>1, <1>4 DEF State
  <2> QED
    BY <2>1 DEF State
<1> HIDE DEF t
<1>8. Own' => Recalls(State, requested, listeners)'
  BY <1>1, <1>6, <1>7 DEF Own, Recalls, Kept
<1>9. ~overlapped' => Marks(State, requested, listeners)'
  BY <1>1, <1>6, <1>7 DEF Marks, Remembered
<1> QED
  BY <1>1, <1>6, <1>7, <1>8, <1>9 DEF IInv

\* A fetch goes on within a step of the store.
LEMMA GoingOnPreserves ==
  ASSUME IInv, NEW i \in DOMAIN jobs, NEW job \in Job,
         job.generation = jobs[i].generation, job.phase # "answered",
         Become([State EXCEPT !.jobs[i] = job]),
         UNCHANGED <<policy, reasons, generation, listeners, hidden, version, requested>>
  PROVE  IInv'
<1> DEFINE t == [State EXCEPT !.jobs = [jobs EXCEPT ![i] = job]]
<1>1. Covers(job, requested)
  BY DEF Covers
<1>2. /\ Basics(t, generation)
      /\ Own => Recalls(t, requested, listeners)
      /\ ~overlapped => Marks(t, requested, listeners)
  BY <1>1, ReplaceRecalls
<1>3. [State EXCEPT !.jobs[i] = job] = t
  BY DEF State
<1> HIDE DEF t
<1>4. Become(t)
  BY <1>3
<1>5. t \in StoreState
  BY <1>2 DEF Basics
<1> QED
  BY <1>2, <1>4, <1>5, BecomeEstablishes DEF IInv

\* A fetch ends.
LEMMA EndPreserves ==
  ASSUME IInv, NEW s \in StoreState, Become(s), Basics(s, generation),
         AllCover(State, requested) => Recalls(s, requested, listeners),
         ~Overlapping(s) /\ CurrentCover(State, requested) => Marks(s, requested, listeners),
         UNCHANGED <<policy, reasons, generation, listeners, hidden, version, requested>>
  PROVE  IInv'
<1> QED
  BY BecomeEstablishes DEF IInv, Recalls, Marks

\* So does one of an earlier generation.
LEMMA StalePreserves ==
  ASSUME IInv, NEW i \in DOMAIN jobs, ~Current(jobs[i]),
         Become([State EXCEPT !.jobs = RemoveAt(@, i)]),
         UNCHANGED <<policy, reasons, generation, listeners, hidden, version, requested>>
  PROVE  IInv'
<1> DEFINE d == [State EXCEPT !.jobs = RemoveAt(@, i)]
<1>1. State \in StoreState /\ Basics(State, generation) /\ State.jobs = jobs
  BY DEF IInv, Basics, State
<1>2. /\ d \in StoreState /\ d.query = State.query /\ d.window = State.window
      /\ d.deferred = State.deferred
      /\ Generations(d, generation)
      /\ AllCover(State, requested) => AllCover(d, requested)
      /\ CurrentCover(State, requested) => CurrentCover(d, requested)
      /\ HasCurrent(State) => HasCurrent(d)
  BY <1>1, ForgetJob DEF IInv, Basics, Current
<1>3. Become(d)
  OBVIOUS
<1> HIDE DEF d
<1>4. Basics(d, generation)
  BY <1>1, <1>2 DEF Basics, Gone, Loading, Exists
<1>5. Own => Recalls(d, requested, listeners)
  BY <1>2 DEF IInv, Recalls, Kept, Owed
<1>6. ~overlapped => Marks(d, requested, listeners)
  BY <1>2 DEF IInv, Marks, Remembered, Flagged, Owed
<1> QED
  BY <1>2, <1>3, <1>4, <1>5, <1>6, BecomeEstablishes DEF IInv

\* An answer arrives: whatever becomes of it, what was requested is not forgotten.
LEMMA ArrivePreserves ==
  ASSUME IInv, NEW i \in DOMAIN jobs, Arrive(i)
  PROVE  IInv'
<1> DEFINE done == [State EXCEPT !.jobs = RemoveAt(@, i)]
<1>1. State \in StoreState /\ Basics(State, generation) /\ State.jobs = jobs
  BY DEF IInv, Basics, State
<1>2. jobs[i] \in Job /\ jobs[i].phase = "answered"
  BY <1>1, LenProperties, ElementOfSeq DEF StoreState, Arrive
<1>3. UNCHANGED <<policy, reasons, generation, listeners, hidden, version, requested>>
  BY DEF Arrive
<1>4. CASE ~Current(jobs[i]) /\ Become(done)
  BY <1>3, <1>4, StalePreserves
<1>5. ASSUME Current(jobs[i]), jobs[i].ok, NEW replayed \in BOOLEAN,
             replayed \/ jobs[i].journal = 0 \/ jobs[i].seen >= jobs[i].journal,
             Become(Fetched(done, jobs[i].seen, replayed))
      PROVE  IInv'
  <2> DEFINE t == Fetched(done, jobs[i].seen, replayed)
  <2>1. /\ Basics(t, generation)
        /\ AllCover(State, requested) => Recalls(t, requested, listeners)
        /\ ~Overlapping(t) /\ CurrentCover(State, requested) => Marks(t, requested, listeners)
    BY <1>1, <1>2, <1>5, FetchedRecalls DEF IInv, Basics, Current
  <2>2. Become(t)
    BY <1>5
  <2> HIDE DEF t
  <2>3. t \in StoreState
    BY <2>1 DEF Basics
  <2> QED
    BY <2>1, <2>2, <2>3, <1>3, EndPreserves
<1>6. CASE Current(jobs[i]) /\ Become(Discarded(done))
  <2> DEFINE t == Discarded(done)
  <2>1. /\ Basics(t, generation)
        /\ AllCover(State, requested) => Recalls(t, requested, listeners)
        /\ ~Overlapping(t) => Marks(t, requested, listeners)
    BY <1>1, <1>6, DiscardedRecalls DEF IInv, Basics, Current, IsCurrent
  <2>2. Become(t)
    BY <1>6
  <2> HIDE DEF t
  <2>3. t \in StoreState
    BY <2>1 DEF Basics
  <2> QED
    BY <2>1, <2>2, <2>3, <1>3, EndPreserves
<1>7. CASE Become([State EXCEPT !.jobs[i] = [jobs[i] EXCEPT !.phase = "waiting",
                                                            !.attempt = jobs[i].attempt + 1]])
  <2> DEFINE job == [jobs[i] EXCEPT !.phase = "waiting", !.attempt = jobs[i].attempt + 1]
  <2>1. job \in Job /\ job.generation = jobs[i].generation /\ job.phase = "waiting"
    <3>1. jobs[i].attempt + 1 \in Nat
      BY <1>2 DEF Job
    <3> QED
      BY <3>1, <1>2 DEF Job
  <2>2. Become([State EXCEPT !.jobs[i] = job])
    BY <1>7
  <2> HIDE DEF job
  <2> QED
    BY <2>1, <2>2, <1>3, GoingOnPreserves
<1>8. CASE Current(jobs[i]) /\ Become(Failed(done))
  <2> DEFINE t == Failed(done)
  <2>1. /\ Basics(t, generation)
        /\ AllCover(State, requested) => Recalls(t, requested, listeners)
        /\ ~Overlapping(t) /\ CurrentCover(State, requested) => Marks(t, requested, listeners)
    BY <1>1, <1>8, FailedRecalls DEF IInv, Basics, Current, IsCurrent
  <2>2. Become(t)
    BY <1>8
  <2> HIDE DEF t
  <2>3. t \in StoreState
    BY <2>1 DEF Basics
  <2> QED
    BY <2>1, <2>2, <2>3, <1>3, EndPreserves
<1>9. CASE /\ Current(jobs[i]) /\ jobs[i].ok
           /\ \E replayed \in IF jobs[i].journal = 0 THEN {FALSE}
                              ELSE IF jobs[i].seen < jobs[i].journal THEN {TRUE} ELSE BOOLEAN :
                 Become(Fetched(done, jobs[i].seen, replayed))
  <2>1. PICK replayed \in IF jobs[i].journal = 0 THEN {FALSE}
                          ELSE IF jobs[i].seen < jobs[i].journal THEN {TRUE} ELSE BOOLEAN :
           Become(Fetched(done, jobs[i].seen, replayed))
    BY <1>9
  <2>2. jobs[i].seen \in Nat /\ jobs[i].journal \in Nat
    BY <1>2 DEF Job
  <2>3. /\ replayed \in BOOLEAN
        /\ replayed \/ jobs[i].journal = 0 \/ jobs[i].seen >= jobs[i].journal
    <3>1. CASE jobs[i].journal = 0
      BY <3>1
    <3>2. CASE jobs[i].journal # 0 /\ jobs[i].seen < jobs[i].journal
      BY <3>2
    <3>3. CASE jobs[i].journal # 0 /\ ~(jobs[i].seen < jobs[i].journal)
      BY <2>2, <3>3
    <3> QED
      BY <3>1, <3>2, <3>3
  <2> QED
    BY <2>1, <2>3, <1>5, <1>9
<1> HIDE DEF done
<1> QED
  BY <1>4, <1>6, <1>7, <1>8, <1>9 DEF Arrive, done

\* The delay of a retry is over.
LEMMA RetryTimerPreserves ==
  ASSUME IInv, NEW i \in DOMAIN jobs, RetryTimer(i)
  PROVE  IInv'
<1> DEFINE done == [State EXCEPT !.jobs = RemoveAt(@, i)]
<1>1. State \in StoreState /\ Basics(State, generation) /\ State.jobs = jobs
  BY DEF IInv, Basics, State
<1>2. jobs[i] \in Job
  BY <1>1, LenProperties, ElementOfSeq DEF StoreState
<1>3. UNCHANGED <<policy, reasons, generation, listeners, hidden, version, requested>>
  BY DEF RetryTimer
<1>4. CASE ~Current(jobs[i])
  BY <1>3, <1>4, StalePreserves DEF RetryTimer
<1>5. CASE Current(jobs[i]) /\ listeners = 0
  <2> DEFINE t == Failed(done)
  <2>1. /\ Basics(t, generation)
        /\ AllCover(State, requested) => Recalls(t, requested, listeners)
        /\ ~Overlapping(t) /\ CurrentCover(State, requested) => Marks(t, requested, listeners)
    BY <1>1, <1>5, FailedRecalls DEF IInv, Basics, Current, IsCurrent
  <2>2. Become(t)
    BY <1>5 DEF RetryTimer
  <2> HIDE DEF t
  <2>3. t \in StoreState
    BY <2>1 DEF Basics
  <2> QED
    BY <2>1, <2>2, <2>3, <1>3, EndPreserves
<1>6. CASE Current(jobs[i]) /\ listeners # 0
  <2> DEFINE job == [jobs[i] EXCEPT !.phase = "asked", !.journal = 0]
  <2>1. job \in Job /\ job.generation = jobs[i].generation /\ job.phase = "asked"
    BY <1>2 DEF Job
  <2>2. Become([State EXCEPT !.jobs[i] = job])
    BY <1>6 DEF RetryTimer
  <2> HIDE DEF job
  <2> QED
    BY <2>1, <2>2, <1>3, GoingOnPreserves
<1> QED
  BY <1>4, <1>5, <1>6

-----------------------------------------------------------------------------
(* Theorems.                                                               *)

\* The invariant holds in every behaviour.
THEOREM ReconciliationInvariant == Spec => []IInv
<1>1. Init => IInv
  BY InitEstablishes
<1>2. IInv /\ [Next]_vars => IInv'
  <2> SUFFICES ASSUME IInv, [Next]_vars PROVE IInv'
    OBVIOUS
  <2>1. CASE Subscribe
    BY <2>1, SubscribePreserves
  <2>2. CASE Unsubscribe
    BY <2>2, UnsubscribePreserves
  <2>3. CASE Hide \/ Change
    BY <2>3, EnvironmentPreserves
  <2>4. CASE Show
    BY <2>4, ShowPreserves
  <2>5. CASE \E cause \in {"event", "refetch", "related", "sweep"} : Told(cause)
    BY <2>5, ToldPreserves
  <2>6. CASE \E everyQuery \in BOOLEAN : Manual(everyQuery)
    BY <2>6, ManualPreserves
  <2>7. CASE CoolDown
    BY <2>7, CoolDownPreserves
  <2>8. CASE Trailing
    BY <2>8, TrailingPreserves
  <2>9. CASE \E i \in DOMAIN jobs : Answer(i)
    BY <2>9, AnswerPreserves
  <2>10. CASE \E i \in DOMAIN jobs : Arrive(i)
    BY <2>10, ArrivePreserves
  <2>11. CASE \E i \in DOMAIN jobs : RetryTimer(i)
    BY <2>11, RetryTimerPreserves
  <2>12. CASE UNCHANGED vars
    <3>1. /\ State' = State
          /\ UNCHANGED <<policy, reasons, generation, listeners, hidden, version, requested,
                         overlapped>>
      BY <2>12 DEF vars, State
    <3>2. Own' => Recalls(State, requested, listeners)'
      BY <3>1 DEF IInv, Own, Recalls, Kept
    <3>3. ~overlapped' => Marks(State, requested, listeners)'
      BY <3>1 DEF IInv, Marks, Remembered
    <3> QED
      BY <3>1, <3>2, <3>3 DEF IInv
  <2> QED
    BY <2>1, <2>2, <2>3, <2>4, <2>5, <2>6, <2>7, <2>8, <2>9, <2>10, <2>11, <2>12 DEF Next
<1> QED
  BY <1>1, <1>2, PTL DEF Spec

\* A query that says it is fetching has a fetch of its own under way, and a query
\* that was vacuumed leaves no timer and no deferred request behind
\* (queryStore.ts:1210, queryStore.ts:2733).
THEOREM QueryStateStaysTrue == Spec => []QueryStateIsTrue
<1>1. IInv => QueryStateIsTrue
  <2> SUFFICES ASSUME IInv PROVE QueryStateIsTrue
    OBVIOUS
  <2>1. /\ State.query = query /\ State.jobs = jobs /\ State.window = window
        /\ State.deferred = deferred
    BY DEF State
  <2>2. FetchingIsTrue
    BY <2>1 DEF FetchingIsTrue, IInv, Basics, Loading, HasCurrent, Current
  <2>3. VacuumLeavesNothing
    BY <2>1 DEF VacuumLeavesNothing, IInv, Basics, Gone, Exists
  <2> QED
    BY <2>2, <2>3 DEF QueryStateIsTrue
<1> QED
  BY <1>1, ReconciliationInvariant, PTL

\* "A reconciliation may be delayed and coalesced, never dropped"
\* (queryStore.ts:2342): at rest a query shows an answer as new as the latest
\* request for an event of its own service, or says it must be fetched when somebody
\* subscribes; other requests are remembered unless two fetches overlapped.
THEOREM ReconciliationsAreNeverDropped == Spec => []EventsAreNeverDropped
<1>1. IInv => EventsAreNeverDropped
  <2> SUFFICES ASSUME IInv PROVE EventsAreNeverDropped
    OBVIOUS
  <2>1. /\ State.query = query /\ State.jobs = jobs /\ State.window = window
        /\ State.deferred = deferred
    BY DEF State
  <2>2. Idle => ~Owed(State) /\ ~HasCurrent(State)
    BY <2>1 DEF Idle, Owed, HasCurrent, Current
  <2>3. Own => NeverDropped
    BY <2>1, <2>2 DEF IInv, Recalls, Kept, NeverDropped
  <2>4. RequestIsRemembered
    BY <2>1, <2>2 DEF IInv, Marks, Remembered, Flagged, RequestIsRemembered
  <2> QED
    BY <2>3, <2>4 DEF EventsAreNeverDropped, Own
<1> QED
  BY <1>1, ReconciliationInvariant, PTL
=============================================================================
