------------------------- MODULE MutationLanes_proofs -------------------------
(***************************************************************************)
(* Lemmas about the lane of an entity: what its projection folds to, what  *)
(* a settlement cancels and what it leaves.                                *)
(***************************************************************************)
EXTENDS MutationLanes, SequenceTheorems, FiniteSetTheorems, WellFoundedInduction, TLAPS

-----------------------------------------------------------------------------
(* Induction and recursion over the natural numbers, stated of sets.       *)

\* A nonempty set of natural numbers has a least element.
LEMMA LeastNumber ==
    ASSUME NEW S, S \subseteq Nat, S # {}
    PROVE  \E n \in S : \A m \in S : n <= m
<1>1. IsWellFoundedOn({p \in Nat \X Nat : p[1] < p[2]}, Nat)
    BY NatLessThanWellFounded DEF OpToRel
<1> DEFINE R == {p \in Nat \X Nat : p[1] < p[2]}
<1>2. \A i, j \in Nat : <<i, j>> \in R <=> i < j
    OBVIOUS
<1>3. IsWellFoundedOn(R, Nat)
    BY <1>1
<1> HIDE DEF R
<1>4. PICK n \in S : \A m \in S : <<m, n>> \notin R
    BY ONLY <1>3, S \subseteq Nat, S # {}, WFMin
<1>5. ASSUME NEW m \in S PROVE n <= m
  <2>1. m \in Nat /\ n \in Nat
      BY <1>5, S \subseteq Nat
  <2>2. ~ (m < n)
      BY <1>2, <1>4, <2>1
  <2> QED
      BY <2>1, <2>2
<1> QED
    BY <1>5

\* Induction: a set with zero and every successor has every natural number.
LEMMA Induction ==
    ASSUME NEW S, 0 \in S, \A n \in Nat : n \in S => n + 1 \in S
    PROVE  \A n \in Nat : n \in S
<1> SUFFICES ASSUME NEW n \in Nat, n \notin S PROVE FALSE
    OBVIOUS
<1> DEFINE T == { k \in Nat : k \notin S }
<1>1. T \subseteq Nat /\ n \in T
    OBVIOUS
<1>2. PICK least \in T : \A k \in T : least <= k
    BY ONLY <1>1, LeastNumber
<1>3. least \in Nat /\ least \notin S /\ least # 0
    BY <1>2
<1>4. least - 1 \in Nat /\ least = (least - 1) + 1 /\ least - 1 \notin S
    BY <1>3
<1>5. least <= least - 1
    BY <1>2, <1>4
<1> QED
    BY <1>3, <1>5

\* Induction up to a bound.
LEMMA BoundedInduction ==
    ASSUME NEW n \in Nat, NEW S, 0 \in S, \A i \in 1 .. n : i - 1 \in S => i \in S
    PROVE  \A i \in 0 .. n : i \in S
<1> DEFINE T == { i \in Nat : i <= n => i \in S }
<1>1. 0 \in T
    OBVIOUS
<1>2. ASSUME NEW i \in Nat, i \in T PROVE i + 1 \in T
  <2> SUFFICES ASSUME i + 1 <= n PROVE i + 1 \in S
      OBVIOUS
  <2>1. i + 1 \in 1 .. n /\ (i + 1) - 1 = i /\ i \in S
      BY <1>2
  <2> QED
      BY <2>1
<1> HIDE DEF T
<1>3. \A i \in Nat : i \in T
    BY ONLY <1>1, <1>2, Induction
<1> QED
    BY <1>3 DEF T

\* A function that begins with c and makes n steps in X.
HasSolution(X, c, n, step) ==
    \E g \in [0 .. n -> X] : g[0] = c /\ \A i \in 1 .. n : g[i] = step[<< g[i - 1], i >>]

\* A recursive definition over an interval has a solution.
LEMMA Recursion ==
    ASSUME NEW X, NEW c, NEW n, NEW step,
           c \in X, n \in Nat, step \in [X \X (1 .. n) -> X]
    PROVE  HasSolution(X, c, n, step)
<1> DEFINE Solves(g, k) == g[0] = c /\ \A i \in 1 .. k : g[i] = step[<< g[i - 1], i >>]
           T == { k \in 0 .. n : \E g \in [0 .. k -> X] : Solves(g, k) }
<1>1. 0 \in T
  <2> DEFINE h == [i \in 0 .. 0 |-> c]
  <2>1. h \in [0 .. 0 -> X] /\ h[0] = c /\ 1 .. 0 = {} /\ 0 \in 0 .. n
      OBVIOUS
  <2> HIDE DEF h
  <2>2. Solves(h, 0)
      BY <2>1
  <2> HIDE DEF Solves
  <2>3. \E g \in [0 .. 0 -> X] : Solves(g, 0)
      BY <2>1, <2>2
  <2> QED
      BY <2>1, <2>3
<1>2. ASSUME NEW k \in 1 .. n, k - 1 \in T PROVE k \in T
  <2>1. PICK g \in [0 .. k - 1 -> X] : Solves(g, k - 1)
      BY <1>2
  <2> DEFINE h == [i \in 0 .. k |-> IF i = k THEN step[<< g[k - 1], k >>] ELSE g[i]]
  <2>2. h \in [0 .. k -> X]
    <3> SUFFICES ASSUME NEW i \in 0 .. k PROVE h[i] \in X
        OBVIOUS
    <3>1. g[k - 1] \in X
        OBVIOUS
    <3>2. step[<< g[k - 1], k >>] \in X
        BY <3>1
    <3>3. i # k => i \in 0 .. k - 1
        OBVIOUS
    <3> QED
        BY <3>2, <3>3
  <2>3. ASSUME NEW i \in 1 .. k PROVE h[i] = step[<< h[i - 1], i >>]
    <3>1. CASE i = k
      <4>1. h[i] = step[<< g[k - 1], k >>] /\ k - 1 \in 0 .. k /\ k - 1 # k
          BY <3>1
      <4>2. h[i - 1] = g[k - 1]
          BY <3>1, <4>1
      <4> QED
          BY <3>1, <4>1, <4>2
    <3>2. CASE i # k
      <4>1. i \in 1 .. k - 1 /\ i - 1 \in 0 .. k - 1
          BY <3>2
      <4> QED
          BY <2>1, <3>2, <4>1
    <3> QED
        BY <3>1, <3>2
  <2>4. h[0] = c
      BY <2>1
  <2>5. Solves(h, k)
      BY <2>3, <2>4
  <2>6. k \in 0 .. n
      OBVIOUS
  <2> HIDE DEF h
  <2> QED
      BY <2>2, <2>5, <2>6
<1> HIDE DEF T
<1>3. \A k \in 0 .. n : k \in T
    BY ONLY <1>1, <1>2, n \in Nat, BoundedInduction
<1>4. n \in T
    BY <1>3
<1> QED
    BY <1>4 DEF T, HasSolution

\* A finite nonempty set of natural numbers has a maximum.
LEMMA MaxIsMaximum ==
    ASSUME NEW S, S \subseteq Nat, IsFiniteSet(S), S # {}
    PROVE  Max(S) \in S /\ \A x \in S : x <= Max(S)
<1>1. PICK n \in Nat : ExistsSurjection(1 .. n, S)
    BY FS_NatSurjection
<1>2. PICK f \in [1 .. n -> S] : \A x \in S : \E i \in 1 .. n : f[i] = x
    BY <1>1 DEF ExistsSurjection, Surjection
<1> DEFINE Bounds(k) == { b \in Nat : \A i \in 1 .. k : f[i] <= b }
           T == { k \in 0 .. n : Bounds(k) # {} }
<1>3. 0 \in T
  <2>1. 0 \in Bounds(0)
      OBVIOUS
  <2> QED
      BY <2>1
<1>4. ASSUME NEW k \in 1 .. n, k - 1 \in T PROVE k \in T
  <2>1. PICK b \in Nat : \A i \in 1 .. k - 1 : f[i] <= b
      BY <1>4
  <2>2. \A i \in 1 .. n : f[i] \in Nat
      OBVIOUS
  <2>3. b + f[k] \in Nat /\ f[k] \in Nat
      BY <2>2
  <2>4. ASSUME NEW i \in 1 .. k PROVE f[i] <= b + f[k]
    <3>1. CASE i = k
        BY <2>3, <3>1
    <3>2. CASE i # k
      <4>1. i \in 1 .. k - 1 /\ f[i] <= b /\ f[i] \in Nat
          BY <2>1, <2>2, <3>2
      <4> QED
          BY <2>3, <4>1
    <3> QED
        BY <3>1, <3>2
  <2>5. b + f[k] \in Bounds(k)
      BY <2>3, <2>4
  <2> QED
      BY <2>5
<1>5. n \in T
  <2> HIDE DEF T
  <2>1. \A k \in 0 .. n : k \in T
      BY ONLY <1>3, <1>4, n \in Nat, BoundedInduction
  <2> QED
      BY <2>1
<1> DEFINE U == { b \in Nat : \A x \in S : x <= b }
<1>6. U # {} /\ U \subseteq Nat
  <2>1. PICK b \in Nat : \A i \in 1 .. n : f[i] <= b
      BY <1>5
  <2>2. \A x \in S : x <= b
      BY <1>2, <2>1
  <2> QED
      BY <2>2
<1>7. PICK m \in U : \A b \in U : m <= b
  <2> HIDE DEF U
  <2> QED
      BY ONLY <1>6, LeastNumber
<1>8. m \in S
  <2> SUFFICES ASSUME m \notin S PROVE FALSE
      OBVIOUS
  <2>1. \A x \in S : x \in Nat /\ x <= m /\ x # m
      BY <1>7
  <2>2. m # 0 /\ m \in Nat
    <3>1. PICK x \in S : TRUE
        BY S # {}
    <3> QED
        BY <1>7, <2>1, <3>1
  <2>3. m - 1 \in U
      BY <2>1, <2>2
  <2> QED
      BY <1>7, <2>2, <2>3
<1>9. m \in S /\ \A y \in S : m >= y
    BY <1>7, <1>8
<1>10. Max(S) \in S /\ \A y \in S : Max(S) >= y
    BY <1>9 DEF Max
<1> QED
    BY <1>10

\* The least of a nonempty set of positions.
LEMMA MinIsMinimum ==
    ASSUME NEW S, S \subseteq Nat, S # {}
    PROVE  Min(S) \in S /\ \A x \in S : Min(S) <= x
<1>1. \E x \in S : \A y \in S : x =< y
    BY LeastNumber
<1> QED
    BY <1>1 DEF Min

-----------------------------------------------------------------------------
(* The projection.                                                         *)

Items(R, M) == [rev : R, intents : Seq(M)]

\* An entry whose intent, if it shows any, is one of M.
IsEntry(e, M) ==
    /\ e.method \in {"create", "patch", "remove"}
    /\ e.optimistic \in BOOLEAN
    /\ e.optimistic => e.mutation \in M

\* One step of the fold.
Shown(item, entry) == IF entry.optimistic THEN ApplyIntent(item, entry) ELSE item

\* f is the fold of entries over base, entry by entry.
Folds(f, base, entries) ==
    /\ f[0] = base
    /\ \A n \in 1 .. Len(entries) : f[n] = Shown(f[n - 1], entries[n])

\* An intent applied to an item makes an item.
LEMMA IntentTyped ==
    ASSUME NEW R, 0 \in R, NEW M, NEW item \in Items(R, M), NEW e, IsEntry(e, M)
    PROVE  Shown(item, e) \in Items(R, M)
<1>1. CASE ~ e.optimistic
    BY <1>1 DEF Shown
<1>2. CASE e.optimistic
  <2>1. e.mutation \in M
      BY <1>2 DEF IsEntry
  <2>2. << >> \in Seq(M) /\ << e.mutation >> \in Seq(M)
        /\ Append(item.intents, e.mutation) \in Seq(M)
      BY <2>1 DEF Items
  <2>3. Absent \in Items(R, M) /\ [rev |-> 0, intents |-> << e.mutation >>] \in Items(R, M)
      BY <2>2 DEF Absent, Items
  <2>4. [item EXCEPT !.intents = Append(@, e.mutation)] \in Items(R, M)
      BY <2>2 DEF Items
  <2>5. Shown(item, e) = ApplyIntent(item, e)
      BY <1>2 DEF Shown
  <2>6. e.method \in {"create", "patch", "remove"}
      BY DEF IsEntry
  <2> QED
      BY <2>3, <2>4, <2>5, <2>6 DEF ApplyIntent
<1> QED
    BY <1>1, <1>2 DEF IsEntry

\* The projection is the last value of the fold, and an item.
LEMMA ProjectFolds ==
    ASSUME NEW R, 0 \in R, NEW M, NEW base \in Items(R, M),
           NEW E, NEW entries \in Seq(E), \A e \in E : IsEntry(e, M)
    PROVE  \E f \in [0 .. Len(entries) -> Items(R, M)] :
              Folds(f, base, entries) /\ Project(base, entries) = f[Len(entries)]
<1> DEFINE N == Len(entries)
           X == Items(R, M)
           step == [p \in X \X (1 .. N) |-> Shown(p[1], entries[p[2]])]
           IsFold(g) == g = [n \in 0 .. N |->
                               IF n = 0 THEN base
                               ELSE IF entries[n].optimistic THEN ApplyIntent(g[n - 1], entries[n])
                               ELSE g[n - 1]]
<1>1. N \in Nat /\ \A n \in 1 .. N : IsEntry(entries[n], M)
    BY ElementOfSeq, LenProperties
<1>2. step \in [X \X (1 .. N) -> X]
    BY <1>1, IntentTyped
<1>3. \A x \in X, n \in 1 .. N : step[<< x, n >>] = Shown(x, entries[n])
    OBVIOUS
<1>0. base \in X
    OBVIOUS
<1> HIDE DEF step, X
<1>4. PICK h \in [0 .. N -> X] : h[0] = base /\ \A n \in 1 .. N : h[n] = step[<< h[n - 1], n >>]
  <2>1. N \in Nat
      BY <1>1
  <2>2. HasSolution(X, base, N, step)
      BY ONLY <1>0, <1>2, <2>1, Recursion
  <2> QED
      BY ONLY <2>2 DEF HasSolution
<1>5. IsFold(h)
  <2>1. ASSUME NEW n \in 0 .. N
        PROVE  h[n] = IF n = 0 THEN base
                      ELSE IF entries[n].optimistic THEN ApplyIntent(h[n - 1], entries[n])
                      ELSE h[n - 1]
    <3>1. CASE n = 0
        BY <1>4, <3>1
    <3>2. CASE n # 0
      <4>1. n \in 1 .. N /\ n - 1 \in 0 .. N
          BY <1>1, <3>2
      <4>2. h[n] = Shown(h[n - 1], entries[n])
          BY <1>3, <1>4, <4>1
      <4> QED
          BY <3>2, <4>2 DEF Shown
    <3> QED
        BY <3>1, <3>2
  <2> QED
      BY <2>1
<1> DEFINE f == CHOOSE g : IsFold(g)
<1>6. IsFold(f)
    BY <1>5
<1>7. Project(base, entries) = f[N]
    BY DEF Project
<1> HIDE DEF f
<1>8. Folds(f, base, entries)
  <2>1. f[0] = base
      BY <1>1, <1>6
  <2>2. ASSUME NEW n \in 1 .. N PROVE f[n] = Shown(f[n - 1], entries[n])
    <3>1. n \in 0 .. N /\ n # 0
        BY <1>1
    <3>2. f[n] = IF n = 0 THEN base
                 ELSE IF entries[n].optimistic THEN ApplyIntent(f[n - 1], entries[n])
                 ELSE f[n - 1]
        BY <1>6, <3>1
    <3> QED
        BY <3>1, <3>2 DEF Shown
  <2> QED
      BY <2>1, <2>2 DEF Folds
<1>9. \A n \in 0 .. N : f[n] \in X
  <2> USE DEF X
  <2> DEFINE S == { n \in 0 .. N : f[n] \in X }
  <2>1. 0 \in S
      BY <1>1, <1>8 DEF Folds
  <2>2. ASSUME NEW n \in 1 .. N, n - 1 \in S PROVE n \in S
      BY <1>1, <1>8, <2>2, IntentTyped DEF Folds
  <2> HIDE DEF S
  <2>3. \A n \in 0 .. N : n \in S
      BY ONLY <1>1, <2>1, <2>2, BoundedInduction
  <2> QED
      BY <2>3 DEF S
<1>10. f = [n \in 0 .. N |-> f[n]]
    BY <1>6
<1>11. f \in [0 .. N -> X]
    BY <1>9, <1>10
<1> QED
    BY <1>7, <1>8, <1>11 DEF X

\* The projection of items is an item.
LEMMA ProjectTyped ==
    ASSUME NEW R, 0 \in R, NEW M, NEW base \in Items(R, M),
           NEW E, NEW entries \in Seq(E), \A e \in E : IsEntry(e, M)
    PROVE  Project(base, entries) \in Items(R, M)
<1>1. PICK f \in [0 .. Len(entries) -> Items(R, M)] :
            Folds(f, base, entries) /\ Project(base, entries) = f[Len(entries)]
    BY ProjectFolds
<1>2. Len(entries) \in 0 .. Len(entries)
    BY LenProperties
<1> QED
    BY <1>1, <1>2

\* A lane without optimistic entries shows its base.
LEMMA ProjectPlain ==
    ASSUME NEW R, 0 \in R, NEW M, NEW base \in Items(R, M),
           NEW E, NEW entries \in Seq(E), \A e \in E : IsEntry(e, M),
           \A i \in DOMAIN entries : ~ entries[i].optimistic
    PROVE  Project(base, entries) = base
<1> DEFINE N == Len(entries)
<1>1. PICK f \in [0 .. N -> Items(R, M)] :
            Folds(f, base, entries) /\ Project(base, entries) = f[N]
    BY ProjectFolds
<1>2. N \in Nat /\ N \in 0 .. N /\ DOMAIN entries = 1 .. N
    BY LenProperties
<1> DEFINE S == { n \in 0 .. N : f[n] = base }
<1>3. 0 \in S
    BY <1>1, <1>2 DEF Folds
<1>4. ASSUME NEW n \in 1 .. N, n - 1 \in S PROVE n \in S
    BY <1>1, <1>2, <1>4 DEF Folds, Shown
<1>5. \A n \in 0 .. N : n \in S
  <2> HIDE DEF S
  <2> QED
      BY ONLY <1>2, <1>3, <1>4, BoundedInduction
<1> QED
    BY <1>1, <1>2, <1>5

\* One more entry is one more step.
LEMMA ProjectAppend ==
    ASSUME NEW R, 0 \in R, NEW M, NEW base \in Items(R, M),
           NEW E, NEW entries \in Seq(E), NEW e \in E, \A x \in E : IsEntry(x, M)
    PROVE  Project(base, Append(entries, e)) = Shown(Project(base, entries), e)
<1> DEFINE N == Len(entries)
           more == Append(entries, e)
<1>1. /\ N \in Nat /\ more \in Seq(E) /\ Len(more) = N + 1 /\ more[N + 1] = e
      /\ \A i \in 1 .. N : more[i] = entries[i]
    BY AppendProperties, LenProperties
<1> HIDE DEF more
<1>2. PICK f \in [0 .. N -> Items(R, M)] :
            Folds(f, base, entries) /\ Project(base, entries) = f[N]
    BY ProjectFolds
<1>3. PICK g \in [0 .. Len(more) -> Items(R, M)] :
            Folds(g, base, more) /\ Project(base, more) = g[Len(more)]
    BY <1>1, ProjectFolds
<1> DEFINE S == { n \in 0 .. N : f[n] = g[n] }
<1>4. 0 \in S
    BY <1>1, <1>2, <1>3 DEF Folds
<1>5. ASSUME NEW n \in 1 .. N, n - 1 \in S PROVE n \in S
  <2>1. f[n] = Shown(f[n - 1], entries[n]) /\ f[n - 1] = g[n - 1] /\ n \in 1 .. N + 1
      BY <1>1, <1>2, <1>5 DEF Folds
  <2>2. g[n] = Shown(g[n - 1], more[n]) /\ more[n] = entries[n]
      BY <1>1, <1>3, <2>1 DEF Folds
  <2> QED
      BY <2>1, <2>2
<1>6. \A n \in 0 .. N : n \in S
  <2>1. N \in Nat
      BY <1>1
  <2> HIDE DEF S, N
  <2> QED
      BY ONLY <1>4, <1>5, <2>1, BoundedInduction
<1>7. f[N] = g[N]
    BY <1>1, <1>6
<1>8. g[N + 1] = Shown(g[N], e)
  <2>1. N + 1 \in 1 .. Len(more) /\ (N + 1) - 1 = N
      BY <1>1
  <2> QED
      BY <1>1, <1>3, <2>1 DEF Folds
<1> QED
    BY <1>1, <1>2, <1>3, <1>7, <1>8 DEF more

-----------------------------------------------------------------------------
(* Settlements.                                                            *)

\* The first create, or one past the end.
LEMMA FirstCreateIsFirst ==
    ASSUME NEW E, NEW entries \in Seq(E)
    PROVE  /\ FirstCreate(entries) \in 1 .. Len(entries) + 1
           /\ \A i \in 1 .. Len(entries) :
                 i < FirstCreate(entries) => entries[i].method # "create"
           /\ FirstCreate(entries) <= Len(entries) =>
                 entries[FirstCreate(entries)].method = "create"
<1> DEFINE creates == { i \in DOMAIN entries : entries[i].method = "create" }
           First(i) == i \in creates /\ \A j \in creates : i <= j
<1>1. Len(entries) \in Nat /\ DOMAIN entries = 1 .. Len(entries)
    BY LenProperties
<1>2. CASE creates = {}
  <2>1. FirstCreate(entries) = Len(entries) + 1
      BY <1>2 DEF FirstCreate
  <2> QED
      BY <1>1, <1>2, <2>1
<1>3. CASE creates # {}
  <2>1. \E i : First(i)
    <3>1. creates \subseteq Nat
        BY <1>1
    <3> HIDE DEF creates
    <3>2. \E i \in creates : \A j \in creates : i <= j
        BY <1>3, <3>1, LeastNumber
    <3> QED
        BY <3>2
  <2>2. FirstCreate(entries) = CHOOSE i \in creates : \A j \in creates : i <= j
      BY <1>3 DEF FirstCreate
  <2>3. First(FirstCreate(entries))
      BY <2>1, <2>2
  <2>4. \A i \in creates : FirstCreate(entries) <= i
      BY <2>3
  <2>5. FirstCreate(entries) \in 1 .. Len(entries)
        /\ entries[FirstCreate(entries)].method = "create"
      BY <1>1, <2>3
  <2>6. ASSUME NEW i \in 1 .. Len(entries), i < FirstCreate(entries),
               entries[i].method = "create"
        PROVE  FALSE
    <3>1. i \in creates
        BY <1>1, <2>6
    <3>2. FirstCreate(entries) <= i
        BY <2>4, <3>1
    <3> QED
        BY <1>1, <2>5, <2>6, <3>2
  <2> QED
      BY <1>1, <2>5, <2>6
<1> QED
    BY <1>2, <1>3

\* What a settlement spares is the stretch of the rest between positions a and b:
\* what it cancels lies before or behind.
Stretch(t, rest, a, b) ==
    /\ a \in 1 .. Len(rest) + 1 /\ b \in 0 .. Len(rest) /\ a <= b + 1
    /\ Len(t) = b - a + 1
    /\ \A i \in 1 .. Len(t) : t[i] = rest[a + i - 1]

LEMMA SparedIsStretch ==
    ASSUME NEW E, NEW rest \in Seq(E), NEW entry, NEW ok \in BOOLEAN
    PROVE  /\ Spared(entry, ok, rest) \in Seq(E)
           /\ \E a, b \in Nat :
                 /\ Stretch(Spared(entry, ok, rest), rest, a, b)
                 /\ \A i \in 1 .. Len(rest) :
                       (a <= i /\ i <= b) <=> ~ (Doomed(entry, ok, rest).from <= i
                                                 /\ i <= Doomed(entry, ok, rest).to)
<1> DEFINE n == Len(rest)
           doomed == Doomed(entry, ok, rest)
           front == SubSeq(rest, 1, doomed.from - 1)
           back == SubSeq(rest, doomed.to + 1, n)
<1>1. n \in Nat /\ \A i \in 1 .. n : rest[i] \in E
    BY LenProperties, ElementOfSeq
<1>2. \/ doomed.from = 1 /\ doomed.to \in 0 .. n
      \/ doomed.from \in 1 .. n + 1 /\ doomed.to = n
  <2>1. FirstCreate(rest) \in 1 .. n + 1
      BY FirstCreateIsFirst
  <2> QED
      BY <1>1, <2>1 DEF Doomed
<1>3. Spared(entry, ok, rest) = front \o back
    BY DEF Spared
<1> HIDE DEF doomed
<1>4. CASE doomed.from = 1 /\ doomed.to \in 0 .. n
  <2>1. front = << >>
      BY <1>4, SubSeqEmpty
  <2>2. doomed.to + 1 \in Int /\ n \in Int /\ \A i \in doomed.to + 1 .. n : rest[i] \in E
      BY <1>1, <1>4
  <2>3. /\ back \in Seq(E)
        /\ Len(back) = IF doomed.to + 1 <= n THEN n - (doomed.to + 1) + 1 ELSE 0
        /\ \A i \in 1 .. n - (doomed.to + 1) + 1 : back[i] = rest[doomed.to + 1 + i - 1]
      BY <2>2, SubSeqProperties
  <2>4. Spared(entry, ok, rest) = back
      BY <1>3, <2>1, <2>3, ConcatEmptySeq
  <2> HIDE DEF back
  <2>5. Stretch(back, rest, doomed.to + 1, n)
      BY <1>1, <1>4, <2>3 DEF Stretch
  <2>6. \A i \in 1 .. n : (doomed.to + 1 <= i /\ i <= n) <=> ~ (doomed.from <= i /\ i <= doomed.to)
      BY <1>1, <1>4
  <2>7. doomed.to + 1 \in Nat /\ n \in Nat
      BY <1>1, <1>4
  <2> QED
      BY <2>3, <2>4, <2>5, <2>6, <2>7 DEF doomed
<1>5. CASE doomed.from \in 1 .. n + 1 /\ doomed.to = n
  <2>1. back = << >>
      BY <1>1, <1>5, SubSeqEmpty
  <2>2. 1 \in Int /\ doomed.from - 1 \in Int /\ \A i \in 1 .. doomed.from - 1 : rest[i] \in E
      BY <1>1, <1>5
  <2>3. /\ front \in Seq(E)
        /\ Len(front) = IF 1 <= doomed.from - 1 THEN doomed.from - 1 - 1 + 1 ELSE 0
        /\ \A i \in 1 .. doomed.from - 1 - 1 + 1 : front[i] = rest[1 + i - 1]
      BY <2>2, SubSeqProperties
  <2>4. Spared(entry, ok, rest) = front
      BY <1>3, <2>1, <2>3, ConcatEmptySeq
  <2> HIDE DEF front
  <2>5. Stretch(front, rest, 1, doomed.from - 1)
      BY <1>1, <1>5, <2>3 DEF Stretch
  <2>6. \A i \in 1 .. n : (1 <= i /\ i <= doomed.from - 1) <=> ~ (doomed.from <= i /\ i <= doomed.to)
      BY <1>1, <1>5
  <2>7. doomed.from - 1 \in Nat /\ 1 \in Nat
      BY <1>1, <1>5
  <2> QED
      BY <2>3, <2>4, <2>5, <2>6, <2>7 DEF doomed
<1> QED
    BY <1>2, <1>4, <1>5

-----------------------------------------------------------------------------
(* The transitions of a lane.                                              *)

EntriesOf(M) ==
    [mutation : M, method : {"create", "patch", "remove"}, optimistic : BOOLEAN]

Lane(R, M) ==
    [open : BOOLEAN, base : Items(R, M), visible : Items(R, M), seen : BOOLEAN,
     entries : Seq(EntriesOf(M)), running : BOOLEAN, owed : BOOLEAN]

LEMMA EntriesAreEntries ==
    ASSUME NEW M
    PROVE  \A e \in EntriesOf(M) : IsEntry(e, M)
BY DEF EntriesOf, IsEntry

LEMMA AbsentTyped ==
    ASSUME NEW R, 0 \in R, NEW M
    PROVE  Absent \in Items(R, M) /\ NoLane \in Lane(R, M)
<1>1. << >> \in Seq(M) /\ << >> \in Seq(EntriesOf(M))
    OBVIOUS
<1>2. Absent \in Items(R, M)
    BY <1>1 DEF Absent, Items
<1> QED
    BY <1>1, <1>2 DEF NoLane, Lane

LEMMA ReprojectDoes ==
    ASSUME NEW R, 0 \in R, NEW M, NEW lane \in Lane(R, M)
    PROVE  LET t == Reproject(lane)
           IN  /\ t \in Lane(R, M)
               /\ t.open = lane.open /\ t.base = lane.base /\ t.entries = lane.entries
               /\ t.running = lane.running /\ t.owed = lane.owed
               /\ t.visible = Project(lane.base, lane.entries)
               /\ t.seen <=> (lane.seen \/ Present(t.visible))
<1> DEFINE next == Project(lane.base, lane.entries)
<1>1. lane.base \in Items(R, M) /\ lane.entries \in Seq(EntriesOf(M))
    BY DEF Lane
<1>2. next \in Items(R, M)
    BY <1>1, ProjectTyped, EntriesAreEntries
<1>3. Reproject(lane) = [lane EXCEPT !.visible = next, !.seen = @ \/ Present(next)]
    BY DEF Reproject
<1> HIDE DEF next
<1>4. (lane.seen \/ Present(next)) \in BOOLEAN
    OBVIOUS
<1> QED
    BY <1>2, <1>3, <1>4 DEF Lane, next

LEMMA EnsureDoes ==
    ASSUME NEW R, 0 \in R, NEW M, NEW lane \in Lane(R, M), NEW cached \in Items(R, M)
    PROVE  LET t == Ensure(lane, cached)
           IN  /\ t \in Lane(R, M) /\ t.open
               /\ lane.open => t = lane
               /\ ~ lane.open => /\ t.base = cached /\ t.visible = cached
                                 /\ (t.seen <=> Present(cached)) /\ t.entries = << >>
                                 /\ ~ t.running /\ ~ t.owed
<1>1. CASE lane.open
    BY <1>1 DEF Ensure
<1>2. CASE ~ lane.open
  <2>1. Ensure(lane, cached) =
           [open |-> TRUE, base |-> cached, visible |-> cached, seen |-> Present(cached),
            entries |-> << >>, running |-> FALSE, owed |-> FALSE]
      BY <1>2 DEF Ensure, NoLane
  <2>2. Present(cached) \in BOOLEAN /\ << >> \in Seq(EntriesOf(M))
      BY DEF Present
  <2> QED
      BY <1>2, <2>1, <2>2 DEF Lane
<1> QED
    BY <1>1, <1>2

LEMMA EnqueueDoes ==
    ASSUME NEW R, 0 \in R, NEW M, NEW lane \in Lane(R, M), NEW e \in EntriesOf(M),
           lane.visible = Project(lane.base, lane.entries)
    PROVE  LET t == Enqueue(lane, e)
           IN  /\ t \in Lane(R, M)
               /\ t.open = lane.open /\ t.base = lane.base
               /\ t.entries = Append(lane.entries, e)
               /\ t.running = lane.running /\ t.owed = lane.owed
               /\ t.visible = Project(t.base, t.entries)
               /\ t.visible = Shown(lane.visible, e)
               /\ t.seen <=> (lane.seen \/ Present(t.visible))
<1> DEFINE more == [lane EXCEPT !.entries = Append(@, e)]
<1>1. /\ more \in Lane(R, M) /\ more.entries = Append(lane.entries, e)
      /\ more.open = lane.open /\ more.base = lane.base /\ (more.seen <=> lane.seen)
      /\ more.running = lane.running /\ more.owed = lane.owed
    BY DEF Lane
<1>2. Enqueue(lane, e) = Reproject(more)
    BY DEF Enqueue
<1> HIDE DEF more
<1>3. lane.base \in Items(R, M) /\ lane.entries \in Seq(EntriesOf(M))
    BY DEF Lane
<1>4. Project(lane.base, Append(lane.entries, e)) = Shown(lane.visible, e)
    BY <1>3, ProjectAppend, EntriesAreEntries
<1> DEFINE t == Reproject(more)
<1>5. /\ t \in Lane(R, M)
      /\ t.open = more.open /\ t.base = more.base /\ t.entries = more.entries
      /\ t.running = more.running /\ t.owed = more.owed
      /\ t.visible = Project(more.base, more.entries)
      /\ t.seen <=> (more.seen \/ Present(t.visible))
    BY <1>1, ReprojectDoes
<1> HIDE DEF t
<1>6. t = Enqueue(lane, e)
    BY <1>2 DEF t
<1> QED
    BY <1>1, <1>4, <1>5, <1>6

LEMMA SetBaseDoes ==
    ASSUME NEW R, 0 \in R, NEW M, NEW lane \in Lane(R, M), NEW type, NEW item \in Items(R, M)
    PROVE  LET t == SetBase(lane, type, item)
           IN  /\ t \in Lane(R, M)
               /\ t.open = lane.open /\ t.entries = lane.entries /\ t.visible = lane.visible
               /\ t.running = lane.running /\ t.owed = lane.owed
               /\ t.base = IF type = "removed" THEN Absent ELSE item
               /\ t.seen <=> (lane.seen \/ type # "removed")
<1>1. (IF type = "removed" THEN Absent ELSE item) \in Items(R, M)
    BY AbsentTyped
<1>2. (lane.seen \/ type # "removed") \in BOOLEAN
    OBVIOUS
<1> QED
    BY <1>1, <1>2 DEF SetBase, Lane

LEMMA AcceptDoes ==
    ASSUME NEW R, 0 \in R, NEW M, NEW lane \in Lane(R, M), NEW type, NEW item \in Items(R, M)
    PROVE  LET t == AcceptAuthoritative(lane, type, item)
           IN  /\ t \in Lane(R, M)
               /\ t.open = lane.open /\ t.entries = lane.entries
               /\ t.running = lane.running /\ t.owed = lane.owed
               /\ t.base = IF type = "removed" THEN Absent ELSE item
               /\ t.visible = Project(t.base, t.entries)
               /\ t.seen <=> (lane.seen \/ type # "removed" \/ Present(t.visible))
<1> DEFINE s == SetBase(lane, type, item)
<1>1. /\ s \in Lane(R, M)
      /\ s.open = lane.open /\ s.entries = lane.entries
      /\ s.running = lane.running /\ s.owed = lane.owed
      /\ s.base = IF type = "removed" THEN Absent ELSE item
      /\ s.seen <=> (lane.seen \/ type # "removed")
    BY SetBaseDoes
<1>2. AcceptAuthoritative(lane, type, item) = Reproject(s)
    BY DEF AcceptAuthoritative
<1> HIDE DEF s
<1> QED
    BY <1>1, <1>2, ReprojectDoes

\* Entries that lose those of a mutation: at most one, and the others stay in order.
Loses(E, F, m) ==
    \/ F = E /\ \A i \in 1 .. Len(E) : E[i].mutation # m
    \/ \E k \in 1 .. Len(E) :
          /\ E[k].mutation = m
          /\ Len(F) = Len(E) - 1
          /\ \A i \in 1 .. Len(E) - 1 : F[i] = E[IF i < k THEN i ELSE i + 1]

\* What an entry that is cancelled leaves of the others.
LEMMA CancelDoes ==
    ASSUME NEW R, 0 \in R, NEW M, NEW lane \in Lane(R, M), NEW m
    PROVE  LET t == Cancel(lane, m)
           IN  /\ t \in Lane(R, M)
               /\ t.open = lane.open /\ t.base = lane.base
               /\ t.running = lane.running /\ t.owed = lane.owed
               /\ Loses(lane.entries, t.entries, m)
<1> DEFINE E == lane.entries
           n == Len(E)
           I == { i \in 1 .. n : E[i].mutation = m }
           k == SelectInSeq(E, LAMBDA e : e.mutation = m)
           left == RemoveAt(E, k)
           less == [lane EXCEPT !.entries = RemoveAt(@, k)]
<1>1. E \in Seq(EntriesOf(M)) /\ n \in Nat
    BY LenProperties DEF Lane
<1>2. k = IF I # {} THEN Min(I) ELSE 0
    BY DEF SelectInSeq
<1>3. Cancel(lane, m) = IF k = 0 THEN lane ELSE Reproject(less)
    BY DEF Cancel
<1>4. CASE I = {}
    BY <1>2, <1>3, <1>4 DEF Loses
<1>5. CASE I # {}
  <2>1. k \in 1 .. n /\ E[k].mutation = m
    <3>1. I \subseteq Nat
        BY <1>1
    <3> HIDE DEF I, k
    <3>2. k \in I
        BY <1>2, <1>5, <3>1, MinIsMinimum
    <3> QED
        BY <3>2 DEF I
  <2> HIDE DEF k, I, n, E
  <2> DEFINE front == SubSeq(E, 1, k - 1)
             back == SubSeq(E, k + 1, n)
  <2>2. /\ front \in Seq(EntriesOf(M)) /\ Len(front) = k - 1
        /\ \A i \in 1 .. k - 1 : front[i] = E[i]
    <3>1. 1 \in Int /\ k - 1 \in Int /\ \A i \in 1 .. k - 1 : E[i] \in EntriesOf(M)
        BY <1>1, <2>1, ElementOfSeq DEF n
    <3>2. /\ front \in Seq(EntriesOf(M))
          /\ Len(front) = IF 1 <= k - 1 THEN k - 1 - 1 + 1 ELSE 0
          /\ \A i \in 1 .. k - 1 - 1 + 1 : front[i] = E[1 + i - 1]
        BY <3>1, SubSeqProperties
    <3> HIDE DEF front
    <3> QED
        BY <1>1, <2>1, <3>2
  <2>3. /\ back \in Seq(EntriesOf(M)) /\ Len(back) = n - k
        /\ \A i \in 1 .. n - k : back[i] = E[k + i]
    <3>1. k + 1 \in Int /\ n \in Int /\ \A i \in k + 1 .. n : E[i] \in EntriesOf(M)
        BY <1>1, <2>1, ElementOfSeq DEF n
    <3>2. /\ back \in Seq(EntriesOf(M))
          /\ Len(back) = IF k + 1 <= n THEN n - (k + 1) + 1 ELSE 0
          /\ \A i \in 1 .. n - (k + 1) + 1 : back[i] = E[k + 1 + i - 1]
        BY <3>1, SubSeqProperties
    <3> HIDE DEF back
    <3> QED
        BY <1>1, <2>1, <3>2
  <2>4. left = front \o back
      BY DEF RemoveAt, n
  <2> HIDE DEF front, back, left
  <2>5. /\ left \in Seq(EntriesOf(M)) /\ Len(left) = n - 1
        /\ \A i \in 1 .. n - 1 : left[i] = IF i <= k - 1 THEN front[i] ELSE back[i - (k - 1)]
      BY <1>1, <2>1, <2>2, <2>3, <2>4, ConcatProperties
  <2>6. \A i \in 1 .. n - 1 : left[i] = E[IF i < k THEN i ELSE i + 1]
    <3> SUFFICES ASSUME NEW i \in 1 .. n - 1 PROVE left[i] = E[IF i < k THEN i ELSE i + 1]
        OBVIOUS
    <3>1. CASE i < k
        BY <1>1, <2>1, <2>2, <2>5, <3>1
    <3>2. CASE ~ (i < k)
      <4>1. i - (k - 1) \in 1 .. n - k /\ k + (i - (k - 1)) = i + 1 /\ ~ (i <= k - 1)
          BY <1>1, <2>1, <3>2
      <4> QED
          BY <2>3, <2>5, <3>2, <4>1
    <3> QED
        BY <3>1, <3>2
  <2>7. /\ less \in Lane(R, M) /\ less.entries = left /\ less.open = lane.open
        /\ less.base = lane.base /\ less.running = lane.running /\ less.owed = lane.owed
    <3>1. less = [lane EXCEPT !.entries = left]
        BY DEF left, E, Lane
    <3> HIDE DEF less
    <3> QED
        BY <2>5, <3>1 DEF Lane
  <2> HIDE DEF less
  <2>8. Cancel(lane, m) = Reproject(less)
      BY <1>3, <2>1
  <2>9. /\ Reproject(less) \in Lane(R, M) /\ Reproject(less).entries = left
        /\ Reproject(less).open = lane.open /\ Reproject(less).base = lane.base
        /\ Reproject(less).running = lane.running /\ Reproject(less).owed = lane.owed
      BY <2>7, ReprojectDoes
  <2>10. Loses(E, left, m)
      BY <2>1, <2>5, <2>6 DEF n, Loses
  <2> QED
      BY <2>8, <2>9, <2>10 DEF E
<1> QED
    BY <1>4, <1>5

\* The event type of the methods of entries.
LEMMA RemovedIsRemove ==
    ASSUME NEW method \in {"create", "patch", "remove"}
    PROVE  /\ EventType(method) \in {"created", "patched", "removed"}
           /\ EventType(method) = "removed" <=> method = "remove"
BY DEF EventType

LEMMA SettleDoes ==
    ASSUME NEW R, 0 \in R, NEW M, NEW lane \in Lane(R, M), lane.entries # << >>,
           NEW ok \in BOOLEAN, NEW item \in Items(R, M)
    PROVE  LET t == Settle(lane, ok, item)
               entry == Head(lane.entries)
           IN  /\ t \in Lane(R, M)
               /\ t.open = lane.open /\ t.owed = lane.owed /\ ~ t.running
               /\ t.entries = Spared(entry, ok, Tail(lane.entries))
               /\ t.base = IF ~ ok THEN lane.base
                           ELSE IF entry.method = "remove" THEN Absent ELSE item
               /\ t.visible = Project(t.base, t.entries)
               /\ lane.seen => t.seen
               /\ Present(t.base) => t.seen \/ t.base = lane.base
<1> DEFINE entry == Head(lane.entries)
           rest == Spared(entry, ok, Tail(lane.entries))
           type == EventType(entry.method)
           settled == [lane EXCEPT !.entries = Spared(entry, ok, Tail(@)), !.running = FALSE]
           based == IF ok THEN SetBase(settled, type, item) ELSE settled
<1>1. entry \in EntriesOf(M) /\ Tail(lane.entries) \in Seq(EntriesOf(M))
    BY HeadTailProperties DEF Lane
<1>2. rest \in Seq(EntriesOf(M))
    BY <1>1, SparedIsStretch
<1>3. type = "removed" <=> entry.method = "remove"
    BY <1>1, RemovedIsRemove DEF EntriesOf
<1>4. Settle(lane, ok, item) = Reproject(based)
    BY DEF Settle
<1>5. /\ settled \in Lane(R, M) /\ settled.entries = rest /\ ~ settled.running
      /\ settled.open = lane.open /\ settled.owed = lane.owed
      /\ settled.base = lane.base /\ (settled.seen <=> lane.seen)
  <2> HIDE DEF entry
  <2>1. settled = [lane EXCEPT !.entries = rest, !.running = FALSE]
      BY DEF Lane
  <2> HIDE DEF rest, settled
  <2> QED
      BY <1>2, <2>1 DEF Lane
<1> HIDE DEF settled, type, entry, rest
<1>6. /\ based \in Lane(R, M) /\ based.entries = rest /\ ~ based.running
      /\ based.open = lane.open /\ based.owed = lane.owed
      /\ based.base = IF ~ ok THEN lane.base ELSE IF type = "removed" THEN Absent ELSE item
      /\ based.seen <=> (lane.seen \/ (ok /\ type # "removed"))
  <2>1. CASE ok
      BY <1>5, <2>1, SetBaseDoes
  <2>2. CASE ~ ok
      BY <1>5, <2>2
  <2> QED
      BY <2>1, <2>2
<1> HIDE DEF based
<1>7. /\ Reproject(based) \in Lane(R, M)
      /\ Reproject(based).open = lane.open /\ Reproject(based).owed = lane.owed
      /\ ~ Reproject(based).running /\ Reproject(based).entries = rest
      /\ Reproject(based).base = based.base
      /\ Reproject(based).visible = Project(Reproject(based).base, Reproject(based).entries)
      /\ based.seen => Reproject(based).seen
    BY <1>6, ReprojectDoes
<1>8. Present(based.base) => based.seen \/ based.base = lane.base
    BY <1>6 DEF Present
<1> QED
    BY <1>3, <1>4, <1>6, <1>7, <1>8 DEF entry, rest

=============================================================================
