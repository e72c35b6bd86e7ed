-------------------- MODULE EntityStoreConvergence_proofs --------------------
(***************************************************************************)
(* Convergence of the entity cache, for any setup in which events are      *)
(* applied as they come and answers do not overtake them: when nothing is  *)
(* under way, every cached row is the server's.                            *)
(*                                                                         *)
(* What an entity's row is known to be in the client (the base of its      *)
(* lane, or the cached row without one) differs from the server's only     *)
(* while there is news of the entity on the wire; the last of the news     *)
(* brings the server's row.  A response that was computed before some of   *)
(* that news arrived is contradicted by the journal of its fetch.          *)
(***************************************************************************)
EXTENDS EntityStore_proofs

-----------------------------------------------------------------------------
(* What is known of one entity, in revisions: now is the server's row, clk *)
(* the last revision given out, k the row the client knows.  The news of   *)
(* it stands on the wire at the positions C; R is the revision a message   *)
(* carries and V the row it leaves, 0 for a removal.                       *)

Newest(i, C) == \A j \in C : j <= i

\* The news comes in the order of the writes, and the last is the server's row.
News(C, R, V, now, clk) ==
    /\ \A i \in C : /\ R[i] \in 1 .. clk /\ V[i] \in {0, R[i]}
                    /\ now # 0 => R[i] <= now
    /\ \A i, j \in C : i < j => R[i] <= R[j]
    /\ C # {} => \E i \in C : Newest(i, C) /\ V[i] = now

\* Without news, what is known is so.
Knows(C, now, clk, k) ==
    /\ k <= clk /\ (now # 0 => k <= now)
    /\ C = {} => k = now

\* The journal says that the response, which has the row x, may be behind.
Against(x, log) == \E r \in log : x = 0 \/ r = 0 \/ r >= x

\* A response that the journal does not contradict is not behind what is known,
\* and what comes after it is on the wire.
Asks(C, R, V, now, clk, k, x, log) ==
    /\ x <= clk /\ (now # 0 => x <= now)
    /\ \A i \in C : Newest(i, C) => x <= R[i]
    /\ \A r \in {k} \union { R[i] : i \in C } : r # 0 /\ r < x => \E i \in C : V[i] = x
    /\ C = {} => x = now \/ Against(x, log)
    /\ x # 0 /\ x < k => Against(x, log) /\ \A i \in C : x < R[i]

\* An operation without news of the entity: it may forget the row while there is
\* news on the wire, and journal the row it knows, or none.
LEMMA SteadyKeeps ==
    ASSUME NEW C, C \subseteq Nat, NEW R, NEW V, NEW now \in Nat, NEW clk \in Nat,
           NEW k \in Nat, NEW k2 \in Nat, NEW x \in Nat, NEW log, NEW log2,
           log \subseteq Nat,
           News(C, R, V, now, clk), Knows(C, now, clk, k),
           k2 = k \/ (k2 = 0 /\ C # {}),
           log2 = log \/ \E r \in {0, k} : log2 = {r}
    PROVE  /\ Knows(C, now, clk, k2)
           /\ Asks(C, R, V, now, clk, k, x, log) => Asks(C, R, V, now, clk, k2, x, log2)
<1>1. Knows(C, now, clk, k2)
  <2>1. k2 <= clk /\ (now # 0 => k2 <= now)
      BY DEF Knows
  <2>2. C = {} => k2 = now
      BY DEF Knows
  <2> QED
      BY <2>1, <2>2 DEF Knows
<1>2. ASSUME Asks(C, R, V, now, clk, k, x, log)
      PROVE  Asks(C, R, V, now, clk, k2, x, log2)
  <2>1. \A r \in {k2} \union { R[i] : i \in C } : r # 0 /\ r < x => \E i \in C : V[i] = x
      BY <1>2 DEF Asks
  <2>2. Against(x, log) => Against(x, log2) \/ (k # 0 /\ k < x)
      BY DEF Against
  <2>3. k # 0 /\ k < x => C # {}
      BY <1>2 DEF Asks
  <2>4. C = {} => x = now \/ Against(x, log2)
      BY <1>2, <2>2, <2>3 DEF Asks
  <2>5. x # 0 /\ x < k2 => Against(x, log2) /\ \A i \in C : x < R[i]
    <3>1. SUFFICES ASSUME x # 0, x < k2 PROVE Against(x, log2) /\ \A i \in C : x < R[i]
        OBVIOUS
    <3>2. k2 = k
        BY <3>1
    <3> QED
        BY <1>2, <2>2, <3>1, <3>2 DEF Asks
  <2> QED
      BY <1>2, <2>1, <2>4, <2>5 DEF Asks
<1> QED
    BY <1>1, <1>2

\* The first of the news is delivered, and becomes what is known, unless it is older
\* than that; a fetch in flight journals it, or what it replaces.
LEMMA NewsKeeps ==
    ASSUME NEW C, C \subseteq Nat, NEW R, NEW V, NEW now \in Nat, NEW clk \in Nat,
           NEW k \in Nat, NEW k2 \in Nat, NEW x \in Nat, NEW log, NEW log2,
           News(C, R, V, now, clk), Knows(C, now, clk, k),
           NEW h \in C, \A i \in C : h <= i,
           \/ k2 = V[h] /\ \E r \in {0, k, R[h]} : log2 = {r}
           \/ k2 = k /\ log2 = log /\ V[h] = R[h] /\ R[h] < k
    PROVE  /\ News(C \ {h}, R, V, now, clk)
           /\ Knows(C \ {h}, now, clk, k2)
           /\ Asks(C, R, V, now, clk, k, x, log) => Asks(C \ {h}, R, V, now, clk, k2, x, log2)
<1> DEFINE D == C \ {h}
<1>1. /\ D \subseteq C /\ D \subseteq Nat /\ h \in Nat
      /\ \A i \in D : h < i
    OBVIOUS
<1>2. \A i \in C : R[i] \in Nat /\ R[i] # 0 /\ R[i] <= clk /\ V[i] \in {0, R[i]} /\ R[h] <= R[i]
    BY <1>1 DEF News
<1>3. PICK l \in C : Newest(l, C) /\ V[l] = now
    BY DEF News
<1>4. D = {} => l = h
    OBVIOUS
<1>5. D # {} => l \in D /\ Newest(l, D)
  <2>1. ASSUME NEW d \in D PROVE h # l
      BY <1>1, <1>3 DEF Newest
  <2>2. h # l => l \in D
      OBVIOUS
  <2>3. \A j \in D : j <= l
      BY <1>1, <1>3 DEF Newest
  <2> QED
      BY <2>1, <2>2, <2>3 DEF Newest
<1> HIDE DEF D
<1>6. News(D, R, V, now, clk)
    BY <1>1, <1>3, <1>5 DEF News
<1>7. Knows(D, now, clk, k2)
  <2>1. D = {} => k2 = now
      BY <1>2, <1>3, <1>4 DEF Knows
  <2>2. k2 <= clk /\ (now # 0 => k2 <= now)
      BY <1>2 DEF Knows, News
  <2> QED
      BY <2>1, <2>2 DEF Knows
<1>8. ASSUME Asks(C, R, V, now, clk, k, x, log)
      PROVE  Asks(D, R, V, now, clk, k2, x, log2)
  <2>1. \A i \in D : Newest(i, D) => x <= R[i]
    <3>1. \A i \in D : Newest(i, D) => Newest(i, C)
      <4>1. SUFFICES ASSUME NEW i \in D, Newest(i, D), NEW j \in C PROVE j <= i
          BY DEF Newest
      <4>2. j \in D \/ j = h
          BY DEF D
      <4> QED
          BY <1>1, <4>1, <4>2 DEF Newest
    <3> QED
        BY <1>1, <1>8, <3>1 DEF Asks
  <2>2. x <= R[l]
      BY <1>3, <1>8 DEF Asks
  <2>3. ASSUME NEW r \in {k2} \union { R[i] : i \in D }, r # 0, r < x
        PROVE  \E i \in D : V[i] = x
    <3>1. (R[h] <= r \/ (r = k /\ R[h] < k)) /\ r \in Nat
      <4>1. CASE r = k2
          BY <1>2, <2>3, <4>1
      <4>2. CASE \E i \in D : r = R[i]
          BY <1>1, <1>2, <4>2
      <4> QED
          BY <2>3, <4>1, <4>2
    <3>4. R[h] \in Nat /\ R[h] < x
      <4>1. R[h] \in Nat
          BY <1>2
      <4> QED
          BY <2>3, <3>1, <4>1
    <3>5. PICK i \in C : V[i] = x
      <4>1. R[h] \in {k} \union { R[i] : i \in C } /\ R[h] # 0
          BY <1>2
      <4> QED
          BY <1>8, <3>4, <4>1 DEF Asks
    <3>6. i # h
        BY <1>2, <3>4, <3>5
    <3> QED
        BY <3>5, <3>6 DEF D
  <2>4. D = {} => x = now \/ Against(x, log2)
    <3> SUFFICES ASSUME D = {} PROVE x = now \/ Against(x, log2)
        OBVIOUS
    <3>1. l = h /\ V[h] = now /\ R[h] \in Nat /\ R[h] # 0 /\ x <= R[h]
        BY <1>2, <1>3, <1>4, <2>2
    <3>2. k2 = V[h]
        BY <3>1 DEF Knows
    <3>3. PICK r \in {0, k, R[h]} : log2 = {r}
        BY <3>1 DEF Knows
    <3>4. r = k => r = 0 \/ r >= x \/ x = now
      <4>1. SUFFICES ASSUME r = k, r # 0, r < x PROVE x = now
          BY <3>1
      <4>2. PICK i \in C : V[i] = x
          BY <1>8, <4>1 DEF Asks
      <4> QED
          BY <3>1, <4>2 DEF D
    <3> QED
        BY <3>1, <3>3, <3>4 DEF Against
  <2>5. x # 0 /\ x < k2 => Against(x, log2) /\ \A i \in D : x < R[i]
    <3> SUFFICES ASSUME x # 0, x < k2 PROVE Against(x, log2) /\ \A i \in D : x < R[i]
        OBVIOUS
    <3>1. CASE k2 = k /\ log2 = log
        BY <1>1, <1>8, <3>1 DEF Asks
    <3>2. CASE k2 = V[h] /\ \E r \in {0, k, R[h]} : log2 = {r}
      <4>1. R[h] \in Nat /\ k2 = R[h] /\ x < R[h]
          BY <1>2, <3>2
      <4>2. \A i \in D : x < R[i]
          BY <1>1, <1>2, <4>1
      <4>3. PICK r \in {0, k, R[h]} : log2 = {r}
          BY <3>2
      <4>4. r = k => r = 0 \/ r >= x
        <5>1. SUFFICES ASSUME r = k, r # 0, r < x PROVE FALSE
            BY <4>1
        <5>2. PICK i \in C : V[i] = x
            BY <1>8, <5>1 DEF Asks
        <5>3. i # h /\ i \in D
            BY <1>2, <4>1, <5>2 DEF D
        <5> QED
            BY <1>2, <4>2, <5>2, <5>3
      <4> QED
          BY <4>1, <4>2, <4>3, <4>4 DEF Against
    <3> QED
        BY <3>1, <3>2
  <2> QED
      BY <1>8, <2>1, <2>3, <2>4, <2>5 DEF Asks
<1> QED
    BY <1>6, <1>7, <1>8 DEF D

\* The server writes: what it broadcasts comes after everything on the wire.
LEMMA WriteKeeps ==
    ASSUME NEW C, C \subseteq Nat, NEW N, N \subseteq Nat, NEW R, NEW V,
           NEW now \in Nat, NEW clk \in Nat, NEW now2, NEW k \in Nat, NEW x \in Nat, NEW log,
           News(C, R, V, now, clk), Knows(C, now, clk, k), now <= clk,
           \A i \in C : \A n \in N : i < n,
           NEW l \in N, Newest(l, N),
           \/ now # 0 /\ now2 = 0 /\ \A n \in N : R[n] = now /\ V[n] = 0
           \/ now2 = clk + 1 /\ \A n \in N : R[n] = clk + 1 /\ V[n] = clk + 1
    PROVE  /\ News(C \union N, R, V, now2, clk + 1)
           /\ Knows(C \union N, now2, clk + 1, k)
           /\ Asks(C, R, V, now, clk, k, x, log)
              => Asks(C \union N, R, V, now2, clk + 1, k, x, log)
<1> DEFINE D == C \union N
<1>1. D # {} /\ D \subseteq Nat /\ l \in Nat /\ \A i \in D : i \in C \/ i \in N
    OBVIOUS
<1>2. Newest(l, D) /\ \A i \in D : Newest(i, D) => i \in N
  <2>1. \A i \in C : i < l /\ ~ (l <= i)
      OBVIOUS
  <2> QED
      BY <1>1, <2>1 DEF Newest
<1>3. \A i \in C : /\ R[i] \in Nat /\ R[i] # 0 /\ R[i] <= clk /\ V[i] \in {0, R[i]}
                   /\ now # 0 => R[i] <= now
    BY DEF News
<1>4. \A n \in N : /\ R[n] \in Nat /\ R[n] # 0 /\ R[n] <= clk + 1 /\ V[n] \in {0, R[n]}
                   /\ V[n] = now2 /\ \A i \in C : R[i] <= R[n]
                   /\ now2 # 0 => R[n] = now2
                   /\ \A m \in N : R[m] = R[n]
    BY <1>3
<1>5. now2 # 0 => now2 = clk + 1
    OBVIOUS
<1> HIDE DEF D
<1>6. News(D, R, V, now2, clk + 1)
  <2>1. \A i \in D : R[i] \in 1 .. clk + 1 /\ V[i] \in {0, R[i]} /\ (now2 # 0 => R[i] <= now2)
    <3> SUFFICES ASSUME NEW i \in D
                 PROVE  R[i] \in 1 .. clk + 1 /\ V[i] \in {0, R[i]} /\ (now2 # 0 => R[i] <= now2)
        OBVIOUS
    <3>1. CASE i \in C
        BY <1>3, <1>5, <3>1
    <3>2. CASE i \in N
        BY <1>4, <1>5, <3>2
    <3> QED
        BY <1>1, <3>1, <3>2
  <2>2. \A i, j \in D : i < j => R[i] <= R[j]
    <3> SUFFICES ASSUME NEW i \in D, NEW j \in D, i < j PROVE R[i] <= R[j]
        OBVIOUS
    <3>1. CASE i \in C /\ j \in C
        BY <3>1 DEF News
    <3>2. CASE j \in N
        BY <1>1, <1>4, <3>2
    <3>3. CASE i \in N /\ j \in C
      <4>1. j < i /\ i \in Nat /\ j \in Nat
          BY <3>3
      <4> QED
          BY <4>1
    <3> QED
        BY <1>1, <3>1, <3>2, <3>3
  <2>3. l \in D /\ V[l] = now2
      BY <1>4 DEF D
  <2> QED
      BY <1>2, <2>1, <2>2, <2>3 DEF News
<1>7. Knows(D, now2, clk + 1, k)
  <2>1. k <= clk
      BY DEF Knows
  <2>2. k <= clk + 1 /\ (now2 # 0 => k <= now2)
      BY <1>5, <2>1
  <2> QED
      BY <1>1, <2>2 DEF Knows
<1>8. ASSUME Asks(C, R, V, now, clk, k, x, log)
      PROVE  Asks(D, R, V, now2, clk + 1, k, x, log)
  <2>1. /\ x <= clk /\ (now # 0 => x <= now)
        /\ \A r \in {k} \union { R[i] : i \in C } : r # 0 /\ r < x => \E i \in C : V[i] = x
        /\ x # 0 /\ x < k => Against(x, log) /\ \A i \in C : x < R[i]
      BY <1>8 DEF Asks
  <2>2. x <= clk + 1 /\ (now2 # 0 => x <= now2)
      BY <1>5, <2>1
  <2>3. \A n \in N : x <= R[n]
      BY <2>1
  <2>4. \A i \in D : Newest(i, D) => x <= R[i]
      BY <1>2, <2>3
  <2>5. ASSUME NEW r \in {k} \union { R[i] : i \in D }, r # 0, r < x
        PROVE  \E i \in D : V[i] = x
    <3>1. r \in {k} \union { R[i] : i \in C } \/ \E n \in N : r = R[n]
        BY <1>1
    <3>2. \A n \in N : r # R[n]
        BY <1>4, <2>3, <2>5
    <3>3. \E i \in C : V[i] = x
        BY <2>1, <2>5, <3>1, <3>2
    <3> QED
        BY <3>3 DEF D
  <2>6. x # 0 /\ x < k => Against(x, log) /\ \A i \in D : x < R[i]
    <3> SUFFICES ASSUME x # 0, x < k PROVE Against(x, log) /\ \A i \in D : x < R[i]
        OBVIOUS
    <3>1. k <= clk /\ (now # 0 => k <= now)
        BY DEF Knows
    <3>2. \A n \in N : x < R[n]
        BY <3>1
    <3> QED
        BY <1>1, <2>1, <3>2
  <2> QED
      BY <1>1, <2>2, <2>4, <2>5, <2>6 DEF Asks
<1> QED
    BY <1>6, <1>7, <1>8 DEF D

\* A write of something else.
LEMMA OtherWriteKeeps ==
    ASSUME NEW C, NEW R, NEW V, NEW now \in Nat, NEW clk \in Nat,
           NEW k \in Nat, NEW x \in Nat, NEW log,
           News(C, R, V, now, clk), Knows(C, now, clk, k)
    PROVE  /\ News(C, R, V, now, clk + 1)
           /\ Knows(C, now, clk + 1, k)
           /\ Asks(C, R, V, now, clk, k, x, log) => Asks(C, R, V, now, clk + 1, k, x, log)
<1>1. News(C, R, V, now, clk + 1)
  <2>1. \A i \in C : R[i] \in 1 .. clk + 1
      BY DEF News
  <2> QED
      BY <2>1 DEF News
<1>2. k <= clk + 1
    BY DEF Knows
<1>3. Asks(C, R, V, now, clk, k, x, log) => x <= clk + 1
    BY DEF Asks
<1> QED
    BY <1>1, <1>2, <1>3 DEF Knows, Asks

\* The response is computed.
LEMMA AnswerIsAsked ==
    ASSUME NEW C, C \subseteq Nat, NEW R, NEW V, NEW now \in Nat, NEW clk \in Nat,
           NEW k \in Nat, NEW log, now <= clk,
           News(C, R, V, now, clk), Knows(C, now, clk, k)
    PROVE  Asks(C, R, V, now, clk, k, now, log)
<1>1. C # {} => \E i \in C : Newest(i, C) /\ V[i] = now
    BY DEF News
<1>2. \A i \in C : V[i] \in {0, R[i]} /\ R[i] \in Nat /\ (now # 0 => R[i] <= now)
    BY DEF News
<1>3. ASSUME NEW i \in C, Newest(i, C) PROVE now <= R[i]
  <2>1. PICK l \in C : Newest(l, C) /\ V[l] = now
      BY <1>1
  <2>2. l <= i /\ i <= l
      BY <1>3, <2>1 DEF Newest
  <2>3. l = i
      BY <2>2
  <2> QED
      BY <1>2, <2>1, <2>3
<1>4. ASSUME NEW r \in {k} \union { R[i] : i \in C }, r # 0, r < now
      PROVE  \E i \in C : V[i] = now
  <2>1. C = {} => k = now /\ r = k
      BY DEF Knows
  <2> QED
      BY <1>1, <1>4, <2>1
<1>5. now # 0 => ~ (now < k)
    BY DEF Knows
<1> QED
    BY <1>3, <1>4, <1>5 DEF Asks

\* The response becomes what is known, where the journal does not contradict it.
LEMMA AskedIsKnown ==
    ASSUME NEW C, NEW R, NEW V, NEW now \in Nat, NEW clk \in Nat,
           NEW k \in Nat, NEW x \in Nat, NEW log,
           Asks(C, R, V, now, clk, k, x, log), ~ Against(x, log)
    PROVE  /\ Knows(C, now, clk, x)
           /\ x # 0 => k <= x
    BY DEF Asks, Knows

\* What is on the wire moves up.
LEMMA MovedKeeps ==
    ASSUME NEW C, C \subseteq Nat, NEW R, NEW V, NEW D, D \subseteq Nat, NEW R2, NEW V2,
           NEW d \in Nat,
           \A i \in C : i - d \in D,
           \A i \in D : i + d \in C /\ R2[i] = R[i + d] /\ V2[i] = V[i + d],
           NEW now, NEW clk, NEW k, NEW x, NEW log
    PROVE  /\ News(C, R, V, now, clk) => News(D, R2, V2, now, clk)
           /\ Knows(C, now, clk, k) => Knows(D, now, clk, k)
           /\ Asks(C, R, V, now, clk, k, x, log) => Asks(D, R2, V2, now, clk, k, x, log)
<1>1. \A i \in C : i \in Nat /\ (i - d) + d = i /\ R2[i - d] = R[i] /\ V2[i - d] = V[i]
  <2> SUFFICES ASSUME NEW i \in C
               PROVE  i \in Nat /\ (i - d) + d = i /\ R2[i - d] = R[i] /\ V2[i - d] = V[i]
      OBVIOUS
  <2>0. i \in Nat /\ i - d \in D
      OBVIOUS
  <2>1. (i - d) + d = i
      BY <2>0
  <2>2. R2[i - d] = R[(i - d) + d] /\ V2[i - d] = V[(i - d) + d]
      BY <2>0
  <2> QED
      BY <2>0, <2>1, <2>2
<1>2. C = {} <=> D = {}
    OBVIOUS
<1>3. \A i \in C : Newest(i, C) => Newest(i - d, D)
  <2> SUFFICES ASSUME NEW i \in C, Newest(i, C), NEW j \in D PROVE j <= i - d
      BY DEF Newest
  <2>1. j + d <= i
      BY DEF Newest
  <2> QED
      BY <1>1, <2>1
<1>4. \A i \in D : Newest(i, D) => Newest(i + d, C)
  <2> SUFFICES ASSUME NEW i \in D, Newest(i, D), NEW j \in C PROVE j <= i + d
      BY DEF Newest
  <2>1. j - d <= i
      BY DEF Newest
  <2> QED
      BY <1>1, <2>1
<1>5. ASSUME News(C, R, V, now, clk) PROVE News(D, R2, V2, now, clk)
  <2>1. \A i \in D : R2[i] \in 1 .. clk /\ V2[i] \in {0, R2[i]} /\ (now # 0 => R2[i] <= now)
      BY <1>5 DEF News
  <2>2. ASSUME NEW i \in D, NEW j \in D, i < j PROVE R2[i] <= R2[j]
    <3>1. i + d < j + d /\ i + d \in C /\ j + d \in C
        BY <2>2
    <3> QED
        BY <1>5, <3>1 DEF News
  <2>3. ASSUME D # {} PROVE \E i \in D : Newest(i, D) /\ V2[i] = now
    <3>1. PICK i \in C : Newest(i, C) /\ V[i] = now
        BY <1>2, <1>5, <2>3 DEF News
    <3> QED
        BY <1>1, <1>3, <3>1
  <2> QED
      BY <2>1, <2>2, <2>3 DEF News
<1>6. Knows(C, now, clk, k) => Knows(D, now, clk, k)
    BY <1>2 DEF Knows
<1>7. ASSUME Asks(C, R, V, now, clk, k, x, log) PROVE Asks(D, R2, V2, now, clk, k, x, log)
  <2>1. \A i \in D : Newest(i, D) => x <= R2[i]
      BY <1>4, <1>7 DEF Asks
  <2>2. ASSUME NEW r \in {k} \union { R2[i] : i \in D }, r # 0, r < x
        PROVE  \E i \in D : V2[i] = x
    <3>1. r \in {k} \union { R[i] : i \in C }
        OBVIOUS
    <3>2. PICK i \in C : V[i] = x
        BY <1>7, <2>2, <3>1 DEF Asks
    <3> QED
        BY <1>1, <3>2
  <2>3. x # 0 /\ x < k => Against(x, log) /\ \A i \in D : x < R2[i]
      BY <1>7 DEF Asks
  <2>4. D = {} => x = now \/ Against(x, log)
      BY <1>2, <1>7 DEF Asks
  <2> QED
      BY <1>7, <2>1, <2>2, <2>3, <2>4 DEF Asks
<1> QED
    BY <1>5, <1>6, <1>7

-----------------------------------------------------------------------------
(* Revisions.                                                              *)

\* A row of the server's is its revision.
LEMMA PlainRowIs ==
    ASSUME NEW row, row \in Rows, Plain(row)
    PROVE  row = Row(row.rev) /\ row.rev \in Revs
    BY DEF Rows, Items, Plain, Row

\* A projection carries the revision of its base, or none.
LEMMA ProjectedRevision ==
    ASSUME Bounded, NEW lane, lane \in Lanes, Projects(lane)
    PROVE  lane.visible.rev \in {0, lane.base.rev}
<1> DEFINE N == Len(lane.entries)
           base == lane.base
           entries == lane.entries
<1>1. base \in Items(Revs, Mutations) /\ entries \in Seq(Entries) /\ 0 \in Revs
      /\ \A e \in Entries : IsEntry(e, Mutations)
    BY EntriesAreEntries DEF Lanes, Lane, Entries, Bounded
<1>2. lane.visible = Project(base, entries)
    BY DEF Projects
<1> HIDE DEF base, entries
<1>3. PICK f \in [0 .. Len(entries) -> Items(Revs, Mutations)] :
            Folds(f, base, entries) /\ Project(base, entries) = f[Len(entries)]
    BY <1>1, ProjectFolds
<1>4. N \in Nat /\ N \in 0 .. N /\ N = Len(entries) /\ \A i \in 1 .. N : entries[i] \in Entries
    BY <1>1, LenProperties, ElementOfSeq DEF entries
<1> HIDE DEF N
<1> DEFINE S == { n \in 0 .. N : f[n].rev \in {0, base.rev} }
<1>5. 0 \in S
    BY <1>3, <1>4 DEF Folds
<1>6. ASSUME NEW n \in 1 .. N, n - 1 \in S PROVE n \in S
  <2>1. f[n] = Shown(f[n - 1], entries[n]) /\ f[n - 1].rev \in {0, base.rev}
        /\ n - 1 \in 0 .. N /\ entries[n] \in Entries
      BY <1>3, <1>4, <1>6 DEF Folds
  <2>2. f[n - 1] \in Items(Revs, Mutations)
      BY <1>3, <1>4, <2>1
  <2>3. \A item \in Items(Revs, Mutations), e \in Entries :
           Shown(item, e).rev \in {0, item.rev}
      BY DEF Shown, ApplyIntent, Absent, Entries, EntriesOf, Items
  <2> QED
      BY <1>4, <2>1, <2>2, <2>3
<1>7. \A n \in 0 .. N : n \in S
  <2> HIDE DEF S
  <2> QED
      BY ONLY <1>4, <1>5, <1>6, BoundedInduction
<1> QED
    BY <1>2, <1>3, <1>4, <1>7 DEF base

\* A fetch is as it was, but for what is journalled about one entity, one of S.
Logs(f, g, id, S) ==
    /\ g.inFlight = f.inFlight /\ g.answered = f.answered /\ g.rows = f.rows
    /\ \A i \in Id \ {id} : g.log[i] = f.log[i]
    /\ g.log[id] = f.log[id] \/ \E r \in S : g.log[id] = {r}

\* Something has been, if the fetch is in flight.
Logged(f, g, id, S) ==
    /\ Logs(f, g, id, S)
    /\ f.inFlight => \E r \in S : g.log[id] = {r}

LEMMA LogsThrough ==
    ASSUME NEW f, NEW g, NEW h, NEW id \in Id, NEW S, NEW T, Logs(g, h, id, T)
    PROVE  /\ Logs(f, g, id, S) => Logs(f, h, id, S \union T)
           /\ Logged(f, g, id, S) => Logged(f, h, id, S \union T)
    BY DEF Logs, Logged

LEMMA JournalNone ==
    ASSUME NEW f \in Fetches, NEW id \in Id, NEW S
    PROVE  Logs(f, Journal(f, << >>), id, S)
<1>1. DOMAIN << >> = {}
    OBVIOUS
<1>2. Journal(f, << >>) = IF f.inFlight THEN [f EXCEPT !.log = [i \in Id |-> f.log[i]]] ELSE f
    BY <1>1 DEF Journal, Fetches
<1> QED
    BY <1>2 DEF Logs, Fetches

LEMMA JournalOne ==
    ASSUME NEW f \in Fetches, NEW e \in Events
    PROVE  Logged(f, Journal(f, << e >>), e.id, {e.item.rev})
<1> DEFINE about(id) == { i \in DOMAIN << e >> : << e >>[i].id = id }
           revs(id) == IF about(id) = {} THEN f.log[id]
                       ELSE { << e >>[Max(about(id))].item.rev }
<1>1. DOMAIN << e >> = {1} /\ << e >>[1] = e
    OBVIOUS
<1>2. Journal(f, << e >>) = IF f.inFlight THEN [f EXCEPT !.log = [id \in Id |-> revs(id)]] ELSE f
    BY DEF Journal, Fetches
<1>3. \A id \in Id \ {e.id} : revs(id) = f.log[id]
    BY <1>1
<1>4. e.id \in Id /\ revs(e.id) = {e.item.rev}
  <2>1. about(e.id) = {1}
      BY <1>1
  <2>2. Max({1}) = 1
    <3>0. IsFiniteSet({1})
        BY FS_Singleton
    <3>1. IsFiniteSet({1}) /\ {1} \subseteq Nat /\ {1} # {}
        BY <3>0
    <3>2. Max({1}) \in {1}
        BY ONLY <3>1, MaxIsMaximum
    <3> QED
        BY <3>2
  <2> HIDE DEF about
  <2> QED
      BY <1>1, <2>1, <2>2 DEF Events
<1> HIDE DEF revs
<1> QED
    BY <1>2, <1>3, <1>4 DEF Logs, Logged, Fetches

-----------------------------------------------------------------------------
(* What an operation makes of the entity it is about.                      *)

\* A lane, and the row cached with it, stand on the revision b; the row may be
\* missing for now if far.
Stands(lane, row, b, far) ==
    IF lane.open
    THEN /\ lane.base = Row(b)
         /\ row = lane.visible \/ (far /\ row = Absent)
    ELSE row = Row(b) \/ (far /\ row = Absent)

LEMMA SameLaneStands ==
    ASSUME NEW lane \in Lanes, NEW next, SameLane(lane, next), NEW row, NEW b, NEW far,
           Stands(lane, row, b, far)
    PROVE  Stands(next, row, b, far)
    BY SameLaneKeeps DEF Stands

\* A batch of one event.
LEMMA FlushOne ==
    ASSUME Bounded, NEW s \in Client, NEW e \in Events, s.queue = << e >>
    PROVE  LET t == Flush(s)
           IN  IF Applies(s.cache, e)
               THEN /\ t.cache = ApplyEvent(s.cache, e)
                    /\ Logged(s.fetch, t.fetch, e.id, {e.item.rev})
               ELSE /\ t.cache = s.cache
                    /\ Logs(s.fetch, t.fetch, e.id, {})
<1> DEFINE t == Flush(s)
           batch == ApplyBatch(s.cache, s.queue)
           ls == PublishTo(s.lanes, batch.effects)
           asks == s.reconcile \/ AsksAtOnce(s.lanes, batch.effects)
           tells == s.published \/ batch.effects # << >>
           journal == Journal(s.fetch, batch.effects)
<1>1. << e >> \in Seq(Events) /\ Len(<< e >>) = 1 /\ << e >>[1] = e
      /\ s.cache \in [Id -> Rows] /\ s.fetch \in Fetches /\ e.id \in Id
    BY DEF Client, Events
<1>2. PICK f \in [0 .. 1 -> Batches] :
            Batch(f, s.cache, << e >>) /\ ApplyBatch(s.cache, << e >>) = f[1]
    BY <1>1, ApplyBatchDoes
<1>3. f[0] = [entities |-> s.cache, effects |-> << >>] /\ f[1] = Step(f[0], e)
    BY <1>1, <1>2 DEF Batch
<1>4. batch = f[1]
    BY <1>2
<1>5. t = [s EXCEPT !.cache = batch.entities, !.queue = << >>, !.fetch = journal,
                    !.lanes = ls, !.reconcile = asks, !.published = tells]
    BY DEF Flush, Client
<1> HIDE DEF batch, ls, asks, tells
<1>6. t.cache = batch.entities /\ t.fetch = Journal(s.fetch, batch.effects)
  <2> HIDE DEF t, journal
  <2>1. t.cache = batch.entities /\ t.fetch = journal
      BY <1>5 DEF Client
  <2> QED
      BY <2>1 DEF journal
<1> HIDE DEF t, journal
<1>7. CASE Applies(s.cache, e)
  <2>1. batch.entities = ApplyEvent(s.cache, e) /\ batch.effects = << e >>
      BY <1>3, <1>4, <1>7 DEF Step
  <2> QED
      BY <1>1, <1>6, <1>7, <2>1, JournalOne DEF t
<1>8. CASE ~ Applies(s.cache, e)
  <2>1. batch.entities = s.cache /\ batch.effects = << >>
      BY <1>3, <1>4, <1>8 DEF Step
  <2> QED
      BY <1>1, <1>6, <1>8, <2>1, JournalNone DEF t
<1> QED
    BY <1>7, <1>8

\* applyProjection journals the row it shows or the one it removes.
LEMMA ShowNotes ==
    ASSUME Bounded, NEW s, s \in Client, NEW id, id \in Id, NEW previous, previous \in Rows,
           NEW newBase, newBase \in BOOLEAN, s.queue = << >>
    PROVE  Logs(s.fetch, ShowProjection(s, id, previous, newBase).fetch, id,
                {previous.rev, s.lanes[id].visible.rev})
<1> DEFINE next == s.lanes[id].visible
           events == ProjectionEvents(id, previous, next, newBase)
           more == [s EXCEPT !.queue = @ \o events]
           t == ShowProjection(s, id, previous, newBase)
<1>1. next \in Rows
    BY DEF Client, Lanes, Lane, Rows
<1>2. CASE events = << >>
  <2>1. t = s
      BY <1>2 DEF ShowProjection
  <2> QED
      BY <2>1 DEF Logs
<1>3. CASE events # << >>
  <2>1. PICK e \in Events : events = << e >> /\ e.id = id /\ e.item \in {previous, next}
    <3>1. PICK type \in {"created", "patched", "removed"}, item \in {previous, next} :
             events = << [mode |-> "optimistic", id |-> id, type |-> type, item |-> item] >>
        BY <1>3 DEF ProjectionEvents
    <3>2. [mode |-> "optimistic", id |-> id, type |-> type, item |-> item] \in Events
        BY <1>1 DEF Events
    <3> HIDE DEF events
    <3> QED
        BY <3>1, <3>2
  <2>2. t = Flush(more)
      BY <1>3 DEF ShowProjection
  <2>3. << >> \o << e >> = << e >> /\ << e >> \in Seq(Events)
      BY ConcatEmptySeq
  <2>4. more = [s EXCEPT !.queue = << e >>]
      BY <2>1, <2>3 DEF Client
  <2> HIDE DEF events, more, next, t
  <2>5. more \in Client /\ more.queue = << e >> /\ more.fetch = s.fetch
      BY <2>3, <2>4 DEF Client
  <2>6. \/ Logged(s.fetch, t.fetch, id, {e.item.rev})
        \/ Logs(s.fetch, t.fetch, id, {})
      BY <2>1, <2>2, <2>5, FlushOne
  <2>7. e.item.rev \in {previous.rev, next.rev}
      BY <2>1
  <2>8. Logs(s.fetch, t.fetch, id, {previous.rev, next.rev})
      BY <2>6, <2>7 DEF Logs, Logged
  <2> QED
      BY <2>8 DEF next, t
<1> QED
    BY <1>2, <1>3

\* What it leaves of the entity and of the others.
LEMMA ShowStands ==
    ASSUME Bounded, NEW s, s \in Client, NEW id, id \in Id, NEW previous, previous \in Rows,
           NEW newBase, newBase \in BOOLEAN, s.queue = << >>,
           NEW b, NEW far, far \in BOOLEAN, s.lanes[id].open, s.lanes[id].base = Row(b),
           \/ s.cache[id] = previous
           \/ /\ s.cache[id] = Absent
              /\ \/ far
                 \/ ProjectionEvents(id, previous, s.lanes[id].visible, newBase) # << >>
    PROVE  LET t == ShowProjection(s, id, previous, newBase)
           IN  /\ t \in Client /\ t.queue = << >>
               /\ t.lanes[id].open /\ SameLane(s.lanes[id], t.lanes[id])
               /\ Stands(t.lanes[id], t.cache[id], b, far)
               /\ \A i \in Id \ {id} : /\ SameLane(s.lanes[i], t.lanes[i])
                                       /\ t.cache[i] = s.cache[i]
<1> DEFINE t == ShowProjection(s, id, previous, newBase)
           next == s.lanes[id].visible
           events == ProjectionEvents(id, previous, next, newBase)
<1>1. /\ t \in Client /\ Shows(s, t) /\ t.queue = << >>
      /\ \A i \in Id \ {id} : t.cache[i] = s.cache[i]
      /\ IF events = << >> THEN t.cache[id] = s.cache[id] ELSE t.cache[id] = next
    BY ShowProjectionDoes
<1>2. events = << >> => previous = next
  <2>1. next \in Rows
      BY DEF Client, Lanes, Lane, Rows
  <2>2. \A e : << e >> # << >>
      OBVIOUS
  <2> HIDE DEF next
  <2>3. \/ events = << >> /\ previous = next
        \/ \E e \in Events : events = << e >>
      BY <2>1, ProjectionEventsAre
  <2> QED
      BY <2>2, <2>3
<1> HIDE DEF t, events
<1>3. s.lanes[id] \in Lanes /\ \A i \in Id : SameLane(s.lanes[i], t.lanes[i])
    BY <1>1 DEF Client, Shows
<1>4. /\ t.lanes[id].open /\ t.lanes[id].base = Row(b)
      /\ t.lanes[id].visible = next
    BY <1>3, SameLaneKeeps
<1>5. t.cache[id] = next \/ (far /\ t.cache[id] = Absent)
    BY <1>1, <1>2 DEF events
<1>6. Stands(t.lanes[id], t.cache[id], b, far)
    BY <1>4, <1>5 DEF Stands
<1> QED
    BY <1>1, <1>3, <1>4, <1>6 DEF t

\* drainMutationLane leaves rows and fetch alone; a lane without entries shows its
\* base when it is released.
LEMMA DrainStands ==
    ASSUME Bounded, NEW s, s \in Client, NEW id, id \in Id, s.lanes[id].open,
           Projects(s.lanes[id]), NEW b, NEW far, Stands(s.lanes[id], s.cache[id], b, far)
    PROVE  LET t == Drain(s, id)
           IN  /\ t.fetch = s.fetch
               /\ Stands(t.lanes[id], t.cache[id], b, far)
               /\ \A i \in Id \ {id} : t.lanes[i] = s.lanes[i] /\ t.cache[i] = s.cache[i]
<1> DEFINE t == Drain(s, id)
           lane == s.lanes[id]
           h == Head(lane.entries).mutation
<1>1. lane \in Lanes /\ s.lanes \in [Id -> Lanes]
    BY DEF Client
<1>2. CASE CanTake(lane)
  <2>1. t = [s EXCEPT !.lanes[id] = TakeNext(lane), !.status[h] = "sent",
                      !.started = Append(@, h)]
      BY <1>2 DEF Drain
  <2>2. /\ TakeNext(lane).open = lane.open /\ TakeNext(lane).base = lane.base
        /\ TakeNext(lane).visible = lane.visible
      BY <1>1 DEF TakeNext, Lanes, Lane
  <2> HIDE DEF t, h
  <2>3. /\ t.fetch = s.fetch /\ t.cache = s.cache /\ t.lanes[id] = TakeNext(lane)
        /\ \A i \in Id \ {id} : t.lanes[i] = s.lanes[i]
      BY <1>1, <2>1 DEF Client
  <2>4. Stands(t.lanes[id], t.cache[id], b, far)
      BY <2>2, <2>3 DEF Stands
  <2> QED
      BY <2>3, <2>4 DEF t
<1>3. CASE ~ CanTake(lane) /\ lane.entries = << >>
  <2>1. t = [s EXCEPT !.lanes[id] = NoLane, !.reconcile = @ \/ lane.owed]
      BY <1>3 DEF Drain
  <2> HIDE DEF t
  <2>2. /\ t.fetch = s.fetch /\ t.cache = s.cache /\ t.lanes[id] = NoLane
        /\ \A i \in Id \ {id} : t.lanes[i] = s.lanes[i]
      BY <1>1, <2>1 DEF Client
  <2>3. lane.visible = lane.base
    <3>1. << >> \in Seq(Entries) /\ \A i \in DOMAIN << >> : ~ << >>[i].optimistic
        OBVIOUS
    <3>2. \A e \in Entries : IsEntry(e, Mutations)
        BY EntriesAreEntries DEF Entries
    <3>3. lane.base \in Items(Revs, Mutations) /\ 0 \in Revs
        BY <1>1 DEF Lanes, Lane, Bounded
    <3>4. Project(lane.base, << >>) = lane.base
        BY ONLY <3>1, <3>2, <3>3, ProjectPlain
    <3> QED
        BY <1>3, <3>4 DEF Projects
  <2>4. Stands(t.lanes[id], t.cache[id], b, far)
      BY <2>2, <2>3 DEF Stands, NoLane
  <2> QED
      BY <2>2, <2>4 DEF t
<1>4. CASE ~ CanTake(lane) /\ lane.entries # << >>
  <2>1. t = s
      BY <1>4 DEF Drain
  <2> QED
      BY <2>1
<1> QED
    BY <1>2, <1>3, <1>4

\* What an operation does to its entity, by what it makes of it: the revision it
\* stands on and what is journalled; the other entities are as they were.
Tells(s, id, b, far) ==
    /\ Stands(s.lanes[id], s.cache[id], b, far)
    /\ \A i \in Id \ {id} : SameLane(lanes[i], s.lanes[i]) /\ s.cache[i] = cache[i]

LEMMA DrainTells ==
    ASSUME Bounded, NEW s, s \in Client, NEW id, id \in Id, NEW b, NEW far,
           s.lanes[id].open, Projects(s.lanes[id]), Tells(s, id, b, far)
    PROVE  Tells(Drain(s, id), id, b, far) /\ Drain(s, id).fetch = s.fetch
<1> DEFINE t == Drain(s, id)
<1>1. Stands(s.lanes[id], s.cache[id], b, far)
    BY DEF Tells
<1>2. t.fetch = s.fetch
    BY <1>1, DrainStands
<1>3. /\ Stands(t.lanes[id], t.cache[id], b, far)
      /\ \A i \in Id \ {id} : t.lanes[i] = s.lanes[i] /\ t.cache[i] = s.cache[i]
    BY <1>1, DrainStands
<1> HIDE DEF t
<1>4. Tells(t, id, b, far)
    BY <1>3 DEF Tells
<1> QED
    BY <1>2, <1>4 DEF t

\* An operation on a lane that is open changes it and shows what has changed.
LEMMA LaneTells ==
    ASSUME Bounded, NEW s, s \in Client, NEW id, id \in Id, NEW previous, previous \in Rows,
           NEW newBase, newBase \in BOOLEAN, s.queue = << >>,
           NEW b, NEW far, far \in BOOLEAN, s.lanes[id].open, s.lanes[id].base = Row(b),
           Projects(s.lanes[id]),
           \/ s.cache[id] = previous
           \/ /\ s.cache[id] = Absent
              /\ \/ far
                 \/ ProjectionEvents(id, previous, s.lanes[id].visible, newBase) # << >>,
           s.cache = cache, \A i \in Id \ {id} : s.lanes[i] = lanes[i]
    PROVE  LET t == ShowProjection(s, id, previous, newBase)
           IN  /\ t \in Client /\ t.lanes[id].open /\ Projects(t.lanes[id])
               /\ Tells(t, id, b, far)
               /\ Logs(s.fetch, t.fetch, id, {previous.rev, 0, b})
<1> DEFINE t == ShowProjection(s, id, previous, newBase)
<1>1. /\ t \in Client /\ t.queue = << >>
      /\ t.lanes[id].open /\ SameLane(s.lanes[id], t.lanes[id])
      /\ Stands(t.lanes[id], t.cache[id], b, far)
      /\ \A i \in Id \ {id} : /\ SameLane(s.lanes[i], t.lanes[i])
                              /\ t.cache[i] = s.cache[i]
    BY ShowStands
<1>2. Logs(s.fetch, t.fetch, id, {previous.rev, s.lanes[id].visible.rev})
    BY ShowNotes
<1> HIDE DEF t
<1>3. s.lanes[id] \in Lanes
    BY DEF Client
<1>4. s.lanes[id].visible.rev \in {0, b}
    BY <1>3, ProjectedRevision DEF Row
<1>5. Tells(t, id, b, far)
    BY <1>1 DEF Tells
<1>6. Projects(t.lanes[id])
    BY <1>1, <1>3, SameLaneKeeps
<1>7. Logs(s.fetch, t.fetch, id, {previous.rev, 0, b})
    BY <1>2, <1>4 DEF Logs
<1> QED
    BY <1>1, <1>5, <1>6, <1>7 DEF t

\* A row that is missing for now is shown again when the lane has a new base.
LEMMA NewBaseShows ==
    ASSUME Bounded, NEW id, id \in Id, NEW lane, lane \in Lanes, lane.open, Projects(lane),
           NEW after, after \in Lanes, Projects(after), Plain(after.base),
           NEW row, RowShown(lane, row), NEW b, NEW far, Stands(lane, row, b, far),
           (\A i \in 1 .. Len(lane.entries) : ~ lane.entries[i].optimistic)
           => (\A i \in 1 .. Len(after.entries) : ~ after.entries[i].optimistic),
           NEW newBase, newBase \in BOOLEAN, newBase \/ after.base = Absent
    PROVE  \/ row = lane.visible
           \/ /\ row = Absent
              /\ ProjectionEvents(id, lane.visible, after.visible, newBase) # << >>
<1> SUFFICES ASSUME row # lane.visible
             PROVE  /\ row = Absent
                    /\ ProjectionEvents(id, lane.visible, after.visible, newBase) # << >>
    OBVIOUS
<1>1. /\ row = Absent /\ Present(lane.visible)
      /\ \A i \in 1 .. Len(after.entries) : ~ after.entries[i].optimistic
    BY DEF RowShown, Stands
<1>2. after.visible = after.base
  <2>1. /\ after.entries \in Seq(Entries) /\ DOMAIN after.entries = 1 .. Len(after.entries)
        /\ after.base \in Items(Revs, Mutations) /\ 0 \in Revs
      BY LenProperties DEF Lanes, Lane, Entries, Bounded
  <2>2. \A e \in Entries : IsEntry(e, Mutations)
      BY EntriesAreEntries DEF Entries
  <2>3. Project(after.base, after.entries) = after.base
      BY ONLY <1>1, <2>1, <2>2, ProjectPlain
  <2> QED
      BY <2>3 DEF Projects
<1>3. lane.visible \in Rows /\ after.visible \in Rows
    BY DEF Lanes, Lane, Rows
<1>4. \A e : << e >> # << >>
    OBVIOUS
<1>5. ASSUME ProjectionEvents(id, lane.visible, after.visible, newBase) = << >> PROVE FALSE
  <2>1. /\ lane.visible = after.visible
        /\ Present(after.visible) => ~ (newBase /\ after.visible.intents = << >>)
      BY <1>3, <1>4, <1>5, ProjectionEventsAre
  <2> QED
      BY <1>1, <1>2, <2>1 DEF Plain, Present
<1> QED
    BY <1>1, <1>5

-----------------------------------------------------------------------------
(* The operations.                                                         *)

\* The revision the client knows of an entity.
KnownOf(lane, row) == IF lane.open THEN lane.base.rev ELSE row.rev

Known(id) == KnownOf(lanes[id], cache[id])

\* Where events are applied as they come, a row shows its lane, but that it may be
\* missing.
ShowsLane(lane, row, far) ==
    lane.open => row = lane.visible \/ (far /\ row = Absent)

LEMMA KnownStands ==
    ASSUME Typed, RowsShown(State), ~ setup.batching, NEW id, id \in Id, NEW far, ShowsLane(lanes[id], cache[id], far)
    PROVE  /\ Stands(lanes[id], cache[id], Known(id), far)
           /\ RowShown(lanes[id], cache[id]) /\ queue = << >>
           /\ Known(id) \in Revs
           /\ lanes[id].open => Plain(lanes[id].base)
           /\ ~ lanes[id].open => cache[id] = Row(Known(id))
<1>1. lanes[id] \in Lanes /\ cache[id] \in Rows /\ State.lanes = lanes /\ State.cache = cache
      /\ State.queue = queue
    BY TypedIs
<1>2. RowShown(lanes[id], cache[id]) /\ queue = << >>
    BY <1>1 DEF RowsShown
<1>3. lanes[id].base \in Rows
    BY <1>1 DEF Lanes, Lane, Rows
<1>4. CASE lanes[id].open
  <2>1. lanes[id].base = Row(lanes[id].base.rev) /\ lanes[id].base.rev \in Revs
        /\ Plain(lanes[id].base)
      BY <1>2, <1>3, <1>4, PlainRowIs DEF RowShown
  <2> QED
      BY <1>2, <1>4, <2>1 DEF Stands, Known, KnownOf, ShowsLane
<1>5. CASE ~ lanes[id].open
  <2>1. cache[id] = Row(cache[id].rev) /\ cache[id].rev \in Revs
      BY <1>1, <1>2, <1>5, PlainRowIs DEF RowShown
  <2> QED
      BY <1>2, <1>5, <2>1 DEF Stands, Known, KnownOf
<1> QED
    BY <1>4, <1>5

\* A call on an entity.
LEMMA CallTells ==
    ASSUME Typed, LanesRest, RowsShown(State), ~ setup.batching, NEW id, id \in Id,
           NEW far, far \in BOOLEAN, ShowsLane(lanes[id], cache[id], far),
           NEW method, method \in {"create", "patch", "remove"},
           NEW optimistic, optimistic \in BOOLEAN, Len(calls) + 1 <= MaxCalls
    PROVE  LET m     == Len(calls) + 1
               entry == [mutation |-> m, method |-> method, optimistic |-> optimistic]
               lane  == Ensure(lanes[id], cache[id])
               s     == [State EXCEPT !.lanes[id] = Enqueue(lane, entry),
                                      !.status[m] = "queued"]
               t     == Drain(ShowProjection(s, id, lane.visible, FALSE), id)
           IN  /\ Tells(t, id, Known(id), far)
               /\ Logs(fetch, t.fetch, id, {0, Known(id)})
<1> DEFINE m     == Len(calls) + 1
           entry == [mutation |-> m, method |-> method, optimistic |-> optimistic]
           lane  == Ensure(lanes[id], cache[id])
           after == Enqueue(lane, entry)
           st    == [status EXCEPT ![m] = "queued"]
           s     == [State EXCEPT !.lanes[id] = after, !.status[m] = "queued"]
           t     == ShowProjection(s, id, lane.visible, FALSE)
<1>1. /\ Bounded /\ State \in Client /\ lanes \in [Id -> Lanes] /\ cache \in [Id -> Rows]
      /\ status \in [Mutations -> Statuses] /\ Len(calls) \in Nat
  <2>1. calls \in Seq(Calls) /\ State \in Client
      BY DEF Typed
  <2>2. Len(calls) \in Nat
      BY <2>1, LenProperties
  <2> QED
      BY <2>1, <2>2, TypedIs
<1>2. /\ State.lanes = lanes /\ State.cache = cache /\ State.queue = queue
      /\ State.fetch = fetch /\ State.status = status
    BY DEF State
<1>3. /\ Stands(lanes[id], cache[id], Known(id), far) /\ queue = << >> /\ Known(id) \in Revs
      /\ ~ lanes[id].open => cache[id] = Row(Known(id))
    BY KnownStands
<1>4. m \in Mutations
    BY <1>1 DEF Mutations, Bounded
<1>5. entry \in Entries
    BY <1>4 DEF Entries, EntriesOf
<1>6. lanes[id] \in Lanes /\ Projects(lanes[id])
    BY <1>1, <1>2 DEF LanesRest, Rests
<1>7. /\ lane \in Lanes /\ lane.open /\ Projects(lane)
      /\ lanes[id].open => lane = lanes[id]
      /\ ~ lanes[id].open => lane.base = cache[id] /\ lane.visible = cache[id]
                             /\ lane.entries = << >>
  <2>1. /\ lane \in Lanes /\ lane.open
        /\ lanes[id].open => lane = lanes[id]
        /\ ~ lanes[id].open => /\ lane.base = cache[id] /\ lane.visible = cache[id]
                               /\ (lane.seen <=> Present(cache[id])) /\ lane.entries = << >>
                               /\ ~ lane.running /\ ~ lane.owed
      BY <1>1, <1>6, EnsureDoes DEF Lanes, Bounded, Rows
  <2> HIDE DEF lane
  <2>2. CASE ~ lanes[id].open
    <3>1. Project(cache[id], << >>) = cache[id]
      <4>1. << >> \in Seq(Entries) /\ \A i \in DOMAIN << >> : ~ << >>[i].optimistic
          OBVIOUS
      <4>2. \A e \in Entries : IsEntry(e, Mutations)
          BY EntriesAreEntries DEF Entries
      <4>3. cache[id] \in Items(Revs, Mutations) /\ 0 \in Revs
          BY <1>1 DEF Rows, Bounded
      <4> QED
          BY ONLY <4>1, <4>2, <4>3, ProjectPlain
    <3> QED
        BY <2>1, <2>2, <3>1 DEF Projects
  <2> QED
      BY <1>6, <2>1, <2>2
<1> HIDE DEF lane, entry
<1>8. after \in Lanes /\ after.open /\ after.base = lane.base /\ Projects(after)
  <2>1. lane.visible = Project(lane.base, lane.entries) /\ (Present(lane.base) => lane.seen)
      BY <1>7 DEF Projects
  <2>2. lane \in Lane(Revs, Mutations) /\ entry \in EntriesOf(Mutations) /\ 0 \in Revs
      BY <1>1, <1>5, <1>7 DEF Lanes, Entries, Bounded
  <2>3. /\ after \in Lane(Revs, Mutations)
        /\ after.open = lane.open /\ after.base = lane.base
        /\ after.visible = Project(after.base, after.entries)
        /\ after.seen <=> (lane.seen \/ Present(after.visible))
      BY <2>1, <2>2, EnqueueDoes
  <2> HIDE DEF after
  <2> QED
      BY <1>7, <2>1, <2>3 DEF Projects, Lanes
<1> HIDE DEF after
<1>9. st \in [Mutations -> Statuses]
    BY <1>1, <1>4 DEF Statuses
<1> HIDE DEF st
<1>10. /\ s \in Client /\ s.lanes[id] = after
       /\ \A i \in Id \ {id} : s.lanes[i] = lanes[i]
       /\ s.cache = cache /\ s.queue = << >> /\ s.fetch = fetch
  <2>1. s = [State EXCEPT !.lanes = [lanes EXCEPT ![id] = after], !.status = st]
      BY <1>2 DEF State, st
  <2> HIDE DEF s, m
  <2> QED
      BY <1>1, <1>2, <1>3, <1>8, <1>9, <2>1 DEF Client
<1> HIDE DEF s, m
<1>11. /\ lane.base = Row(Known(id)) /\ lane.visible \in Rows
       /\ cache[id] = lane.visible \/ (far /\ cache[id] = Absent)
  <2>1. lane.visible \in Rows
      BY <1>7 DEF Lanes, Lane, Rows
  <2> QED
      BY <1>3, <1>7, <2>1 DEF Stands
<1>12. /\ Tells(Drain(t, id), id, Known(id), far) /\ Drain(t, id).fetch = t.fetch
       /\ Logs(s.fetch, t.fetch, id, {lane.visible.rev, 0, Known(id)})
  <2>1. s.cache[id] = lane.visible \/ (s.cache[id] = Absent /\ far)
      BY <1>10, <1>11
  <2>2. s.lanes[id].open /\ s.lanes[id].base = Row(Known(id)) /\ Projects(s.lanes[id])
      BY <1>8, <1>10, <1>11
  <2>3. Logs(s.fetch, t.fetch, id, {lane.visible.rev, 0, Known(id)})
      BY <1>1, <1>10, <1>11, <2>1, <2>2, LaneTells
  <2>4. t \in Client
      BY <1>1, <1>10, <1>11, <2>1, <2>2, LaneTells
  <2>5. t.lanes[id].open /\ Projects(t.lanes[id]) /\ Tells(t, id, Known(id), far)
      BY <1>1, <1>10, <1>11, <2>1, <2>2, LaneTells
  <2> HIDE DEF t
  <2>6. Tells(Drain(t, id), id, Known(id), far) /\ Drain(t, id).fetch = t.fetch
      BY <1>1, <2>4, <2>5, DrainTells
  <2> QED
      BY <2>3, <2>6
<1> HIDE DEF t
<1>14. lane.visible.rev \in {0, Known(id)}
    BY <1>1, <1>7, <1>11, ProjectedRevision DEF Row
<1>15. Logs(fetch, Drain(t, id).fetch, id, {0, Known(id)})
    BY <1>10, <1>12, <1>14 DEF Logs
<1> QED
    BY <1>12, <1>15 DEF t, s, after, lane, entry, m

\* What an answer or an event leaves of a row.
Left(type, item) == IF type = "removed" THEN 0 ELSE item.rev

\* The settlement of a mutation: an acknowledged row is what is known, and is journalled.
LEMMA SettledTells ==
    ASSUME Typed, LanesRest, RowsShown(State), ~ setup.batching,
           NEW m, m \in 1 .. Len(calls), status[m] = "sent",
           NEW ok, ok \in BOOLEAN, NEW item, item \in PlainRows,
           NEW far, far \in BOOLEAN, ShowsLane(lanes[calls[m].id], cache[calls[m].id], far)
    PROVE  LET s  == Settled(m, ok, item)
               id == calls[m].id
           IN  IF ok
               THEN /\ Tells(s, id, Left(EventType(calls[m].method), item), FALSE)
                    /\ Logged(fetch, s.fetch, id, {0, Known(id), item.rev})
               ELSE /\ Tells(s, id, Known(id), far)
                    /\ Logs(fetch, s.fetch, id, {0, Known(id)})
<1> DEFINE id == calls[m].id
           lane == lanes[id]
           after == Settle(lane, ok, item)
           doomed == Cancelled(Head(lane.entries), ok, Tail(lane.entries))
           st == Verdict(status, m, ok, doomed)
           event == [mode |-> "server", id |-> id, type |-> EventType(calls[m].method),
                     item |-> item]
           journal == IF ok THEN Journal(fetch, << event >>) ELSE fetch
           changed == ProjectionEvents(id, lane.visible, after.visible, ok)
           s1 == [State EXCEPT !.lanes[id] = after, !.fetch = journal, !.status = st]
           s2 == ShowProjection(s1, id, lane.visible, ok)
           s3 == IF changed = << >> /\ ok /\ after.entries = << >>
                 THEN [s2 EXCEPT !.reconcile = TRUE, !.published = TRUE]
                 ELSE s2
           b == IF ok THEN Left(EventType(calls[m].method), item) ELSE Known(id)
           gap == ~ ok /\ far
<1>1. /\ Bounded /\ State \in Client /\ lanes \in [Id -> Lanes] /\ cache \in [Id -> Rows]
      /\ fetch \in Fetches /\ status \in [Mutations -> Statuses] /\ item \in Rows /\ Plain(item)
      /\ calls \in Seq(Calls) /\ calls[m] \in Calls
  <2>1. \A n \in 1 .. Len(calls) : calls[n] \in Calls
      BY TypedIs
  <2> QED
      BY <2>1, TypedIs DEF Typed, PlainRows
<1>2. /\ State.lanes = lanes /\ State.cache = cache /\ State.queue = queue
      /\ State.reconcile = reconcile /\ State.fetch = fetch /\ State.status = status
      /\ State.started = << >> /\ State.published = FALSE
    BY DEF State
<1>3. id \in Id /\ Awaits(lane, id, m, calls, status) /\ lane.open /\ lane \in Lanes
    BY <1>1, SentIsAwaited
<1>4. Projects(lane)
    BY <1>2, <1>3 DEF LanesRest, Rests
<1>5. Cancelled(Entry(m), ok, Tail(lane.entries)) = doomed
      /\ Head(lane.entries).method = calls[m].method
  <2>1. Head(lane.entries).method = calls[m].method
    <3>1. Behind(Tail(lane.entries), lane, id, m, calls, status)
        BY <1>1, <1>3, AwaitsDoes
    <3> QED
        BY <3>1 DEF Behind
  <2>2. Entry(m).method = calls[m].method
      BY DEF Entry
  <2> QED
      BY <2>1, <2>2 DEF Cancelled, Doomed
<1>6. Settled(m, ok, item) = Drain(s3, id)
  <2> DEFINE t1 == [State EXCEPT
                      !.lanes[id] = after,
                      !.fetch = IF ok THEN Journal(@, << event >>) ELSE @,
                      !.status = [n \in DOMAIN status |->
                                     IF n = m THEN IF ok THEN "done" ELSE "failed"
                                     ELSE IF n \in Cancelled(Entry(m), ok, Tail(lane.entries))
                                     THEN "cancelled"
                                     ELSE status[n]]]
             t2 == ShowProjection(t1, id, lane.visible, ok)
             t3 == IF changed = << >> /\ ok /\ after.entries = << >>
                   THEN [t2 EXCEPT !.reconcile = TRUE, !.published = TRUE]
                   ELSE t2
  <2>1. Settled(m, ok, item) = Drain(t3, id)
      BY DEF Settled
  <2>2. t1 = s1
    <3> HIDE DEF after, doomed, lane, id, event
    <3>1. st = [n \in DOMAIN status |-> IF n = m THEN IF ok THEN "done" ELSE "failed"
                                        ELSE IF n \in Cancelled(Entry(m), ok, Tail(lane.entries))
                                        THEN "cancelled"
                                        ELSE status[n]]
        BY <1>5 DEF Verdict
    <3> HIDE DEF st
    <3> QED
        BY <1>2, <3>1 DEF State
  <2> HIDE DEF t1, s1
  <2> QED
      BY <2>1, <2>2
<1>7. /\ \A i \in 1 .. Len(after.entries) :
            \E j \in 1 .. Len(lane.entries) : after.entries[i] = lane.entries[j]
      /\ \A n \in doomed : n \in 1 .. Len(calls)
  <2>1. Spares(after, doomed, lane, id, m, calls, status, ok)
    <3>1. Len(calls) <= MaxCalls
        BY DEF Typed
    <3> QED
        BY <1>1, <1>3, <3>1, SettledHolds
  <2> HIDE DEF after, doomed, lane, id
  <2> QED
      BY <2>1 DEF Spares
<1>8. /\ after \in Lanes /\ after.open /\ Projects(after)
      /\ after.base = IF ~ ok THEN lane.base
                      ELSE IF calls[m].method = "remove" THEN Absent ELSE item
  <2>1. lane.entries # << >>
      BY <1>3 DEF Awaits
  <2>2. Resettled(after, lane, ok, item)
      BY <1>1, <1>3, <2>1, LaneSettles
  <2>3. after.base = IF ~ ok THEN lane.base
                     ELSE IF Head(lane.entries).method = "remove" THEN Absent ELSE item
      BY <1>1, <1>3, <2>1, SettleDoes DEF Lanes, Bounded, Rows
  <2> HIDE DEF after, lane, id
  <2> QED
      BY <1>3, <1>4, <1>5, <2>2, <2>3 DEF Resettled
<1>9. event \in Events /\ (EventType(calls[m].method) = "removed" <=> calls[m].method = "remove")
  <2>1. /\ EventType(calls[m].method) \in {"created", "patched", "removed"}
        /\ EventType(calls[m].method) = "removed" <=> calls[m].method = "remove"
      BY <1>1, RemovedIsRemove DEF Calls
  <2> QED
      BY <1>1, <1>3, <2>1 DEF Events
<1>10. /\ Stands(lane, cache[id], Known(id), far) /\ RowShown(lane, cache[id]) /\ queue = << >>
       /\ Known(id) \in Revs /\ Plain(lane.base)
  <2>1. id \in Id /\ ShowsLane(lanes[id], cache[id], far) /\ lane.open
      BY <1>3
  <2> HIDE DEF id
  <2> QED
      BY <2>1, KnownStands
<1>11. journal \in Fetches /\ st \in [Mutations -> Statuses]
  <2>1. Journal(fetch, << event >>) \in Fetches
    <3>1. << event >> \in Seq(Events)
        BY <1>9
    <3> HIDE DEF event
    <3> QED
        BY <1>1, <3>1, JournalTyped
  <2>2. ASSUME NEW n \in Mutations
        PROVE  (IF n = m THEN IF ok THEN "done" ELSE "failed"
                ELSE IF n \in doomed THEN "cancelled" ELSE status[n]) \in Statuses
      BY <1>1 DEF Statuses
  <2>3. DOMAIN status = Mutations
      BY <1>1
  <2>4. st \in [Mutations -> Statuses]
      BY <2>2, <2>3 DEF Verdict
  <2> HIDE DEF event
  <2> QED
      BY <1>1, <2>1, <2>4
<1>12. ok => Logged(fetch, journal, id, {item.rev})
  <2>1. event.id = id /\ event.item = item
      OBVIOUS
  <2> HIDE DEF event
  <2> QED
      BY <1>1, <1>9, <2>1, JournalOne
<1>13. after.base = Row(b) /\ Plain(after.base) /\ Row(0) = Absent
  <2>1. item = Row(item.rev) /\ Plain(Absent) /\ Row(0) = Absent
      BY <1>1, PlainRowIs DEF Plain, Absent, Row
  <2>2. lane.base = Row(Known(id))
      BY <1>3, <1>10 DEF Stands
  <2> HIDE DEF after, lane, id
  <2> QED
      BY <1>1, <1>8, <1>9, <1>10, <2>1, <2>2 DEF Left
<1>14. \/ cache[id] = lane.visible
       \/ /\ cache[id] = Absent
          /\ gap \/ changed # << >>
  <2>1. CASE ok
    <3>1. (\A i \in 1 .. Len(lane.entries) : ~ lane.entries[i].optimistic)
          => (\A i \in 1 .. Len(after.entries) : ~ after.entries[i].optimistic)
        BY <1>7
    <3> HIDE DEF lane, after, id
    <3>0. /\ Bounded /\ id \in Id /\ lane \in Lanes /\ lane.open /\ Projects(lane)
          /\ after \in Lanes /\ Projects(after) /\ Plain(after.base)
          /\ RowShown(lane, cache[id]) /\ Stands(lane, cache[id], Known(id), far)
          /\ ok \in BOOLEAN /\ (ok \/ after.base = Absent)
        BY <1>1, <1>3, <1>4, <1>8, <1>10, <1>13, <2>1
    <3>2. \/ cache[id] = lane.visible
          \/ /\ cache[id] = Absent
             /\ ProjectionEvents(id, lane.visible, after.visible, ok) # << >>
        BY ONLY <3>0, <3>1, NewBaseShows
    <3> QED
        BY <3>2
  <2>2. CASE ~ ok
      BY <1>3, <1>10, <2>2 DEF Stands
  <2> QED
      BY <2>1, <2>2
<1> HIDE DEF after, doomed, st, event, journal, lane, id, b, gap
<1>15. /\ s1 \in Client /\ s1.lanes[id] = after
       /\ \A i \in Id \ {id} : s1.lanes[i] = lanes[i]
       /\ s1.cache = cache /\ s1.queue = << >> /\ s1.fetch = journal
  <2>1. s1 = [State EXCEPT !.lanes = [lanes EXCEPT ![id] = after], !.fetch = journal, !.status = st]
      BY <1>2 DEF State
  <2> QED
      BY <1>1, <1>2, <1>3, <1>8, <1>10, <1>11, <2>1 DEF Client
<1> HIDE DEF s1
<1>16. /\ s2 \in Client /\ s2.lanes[id].open /\ Projects(s2.lanes[id])
       /\ Tells(s2, id, b, gap)
       /\ Logs(journal, s2.fetch, id, {lane.visible.rev, 0, b})
  <2>1. \/ s1.cache[id] = lane.visible
        \/ /\ s1.cache[id] = Absent
           /\ \/ gap
              \/ ProjectionEvents(id, lane.visible, s1.lanes[id].visible, ok) # << >>
      BY <1>14, <1>15
  <2>2. /\ s1.lanes[id].open /\ s1.lanes[id].base = Row(b) /\ Projects(s1.lanes[id])
        /\ lane.visible \in Rows /\ gap \in BOOLEAN
      BY <1>3, <1>8, <1>13, <1>15 DEF Lanes, Lane, Rows, gap
  <2>3. s2 \in Client /\ Logs(s1.fetch, s2.fetch, id, {lane.visible.rev, 0, b})
      BY <1>1, <1>3, <1>15, <2>1, <2>2, LaneTells
  <2>4. s2.lanes[id].open /\ Projects(s2.lanes[id]) /\ Tells(s2, id, b, gap)
      BY <1>1, <1>3, <1>15, <2>1, <2>2, LaneTells
  <2> HIDE DEF s2
  <2> QED
      BY <1>15, <2>3, <2>4
<1> HIDE DEF s2
<1>17. /\ s3 \in Client /\ s3.lanes = s2.lanes /\ s3.cache = s2.cache /\ s3.fetch = s2.fetch
  <2>1. s3 = s2 \/ s3 = [s2 EXCEPT !.reconcile = TRUE, !.published = TRUE]
      OBVIOUS
  <2> HIDE DEF s3
  <2> QED
      BY <1>16, <2>1 DEF Client
<1> HIDE DEF s3
<1>18. Tells(Drain(s3, id), id, b, gap) /\ Drain(s3, id).fetch = s2.fetch
  <2>1. s3.lanes[id].open /\ Projects(s3.lanes[id]) /\ Tells(s3, id, b, gap)
      BY <1>16, <1>17 DEF Tells
  <2>2. Tells(Drain(s3, id), id, b, gap) /\ Drain(s3, id).fetch = s3.fetch
      BY <1>1, <1>3, <1>17, <2>1, DrainTells
  <2> QED
      BY <1>17, <2>2
<1>19. lane.visible.rev \in {0, Known(id)}
  <2>1. lane.base = Row(Known(id))
      BY <1>3, <1>10 DEF Stands
  <2> QED
      BY <1>1, <1>3, <1>4, <2>1, ProjectedRevision DEF Row
<1>20. IF ok
       THEN /\ Tells(Drain(s3, id), id, Left(EventType(calls[m].method), item), FALSE)
            /\ Logged(fetch, Drain(s3, id).fetch, id, {0, Known(id), item.rev})
       ELSE /\ Tells(Drain(s3, id), id, Known(id), far)
            /\ Logs(fetch, Drain(s3, id).fetch, id, {0, Known(id)})
  <2>1. CASE ok
    <3>1. b = Left(EventType(calls[m].method), item) /\ gap = FALSE /\ b \in {0, item.rev}
        BY <2>1 DEF b, gap, Left
    <3>2. Logs(journal, s2.fetch, id, {0, Known(id), item.rev})
        BY <1>16, <1>19, <3>1 DEF Logs
    <3>3. Logged(fetch, s2.fetch, id, {0, Known(id), item.rev})
        BY <1>12, <2>1, <3>2 DEF Logged, Logs
    <3> QED
        BY <1>18, <2>1, <3>1, <3>3
  <2>2. CASE ~ ok
    <3>1. b = Known(id) /\ gap = far /\ journal = fetch
        BY <2>2 DEF b, gap, journal
    <3>2. Logs(fetch, s2.fetch, id, {0, Known(id)})
        BY <1>16, <1>19, <3>1 DEF Logs
    <3> QED
        BY <1>18, <2>2, <3>1, <3>2
  <2> QED
      BY <2>1, <2>2
<1> QED
    BY <1>6, <1>20 DEF id, lane

\* An event of the server: it is what is known, and is journalled, unless it is a patch
\* older than that, which changes nothing.
LEMMA IngestedTells ==
    ASSUME Typed, LanesRest, RowsShown(State), ~ setup.batching,
           NEW event, event \in Events, event.mode = "server", Plain(event.item),
           NEW far, far \in BOOLEAN, ShowsLane(lanes[event.id], cache[event.id], far)
    PROVE  LET s  == Ingested(event)
               id == event.id
           IN  \/ /\ Tells(s, id, Left(event.type, event.item), FALSE)
                  /\ Logged(fetch, s.fetch, id, {0, Known(id), event.item.rev})
               \/ /\ event.type = "patched" /\ event.item.rev < Known(id)
                  /\ \A i \in Id : SameLane(lanes[i], s.lanes[i]) /\ s.cache[i] = cache[i]
                  /\ Logs(fetch, s.fetch, id, {})
<1> DEFINE id    == event.id
           lane  == lanes[id]
           after == AcceptAuthoritative(lane, event.type, event.item)
           newBase == event.type # "removed"
           shown == ProjectionEvents(id, lane.visible, after.visible, newBase)
           journal == Journal(fetch, << event >>)
           s0 == [State EXCEPT !.lanes[id] = after, !.fetch = Journal(@, << event >>)]
           s1 == [State EXCEPT !.lanes[id] = after, !.fetch = Journal(@, << event >>),
                               !.queue = @ \o shown]
           s2 == [State EXCEPT !.queue = Append(@, event)]
           Through(s) == IF s.queue # << >> /\ ~ setup.batching THEN Flush(s) ELSE s
           b == Left(event.type, event.item)
<1>1. /\ Bounded /\ State \in Client /\ lanes \in [Id -> Lanes] /\ cache \in [Id -> Rows]
      /\ queue \in Seq(Events) /\ fetch \in Fetches
    BY TypedIs DEF Typed
<1>2. /\ State.lanes = lanes /\ State.cache = cache /\ State.queue = queue
      /\ State.reconcile = reconcile /\ State.fetch = fetch /\ State.status = status
      /\ State.started = << >> /\ State.published = FALSE
    BY DEF State
<1>3. /\ id \in Id /\ event.item \in Rows /\ lane \in Lanes
      /\ event.type \in {"created", "patched", "removed"} /\ newBase \in BOOLEAN
    BY <1>1 DEF Events
<1>4. Projects(lane)
    BY <1>2, <1>3 DEF LanesRest, Rests
<1>5. journal \in Fetches /\ Logged(fetch, journal, id, {event.item.rev})
  <2>1. << event >> \in Seq(Events)
      OBVIOUS
  <2>2. journal \in Fetches
      BY <1>1, <2>1, JournalTyped
  <2> QED
      BY <1>1, <2>2, JournalOne
<1>6. Ingested(event) = IF ~ lane.open THEN Through(s2)
                        ELSE IF ~ Accepts(lane, event.type, event.item) THEN Through(State)
                        ELSE Through(s1)
  <2> DEFINE s == IF ~ lane.open THEN s2
                  ELSE IF ~ Accepts(lane, event.type, event.item) THEN State ELSE s1
  <2>1. Ingested(event) = Through(s)
      BY DEF Ingested
  <2> HIDE DEF s2, s1, Through
  <2> QED
      BY <2>1
<1>7. /\ Stands(lane, cache[id], Known(id), far) /\ RowShown(lane, cache[id]) /\ queue = << >>
      /\ Known(id) \in Revs /\ (lane.open => Plain(lane.base))
      /\ ~ lane.open => cache[id] = Row(Known(id))
  <2>1. id \in Id /\ ShowsLane(lanes[id], cache[id], far)
      BY <1>3
  <2> HIDE DEF id
  <2> QED
      BY <2>1, KnownStands
<1>8. /\ event.item = Row(event.item.rev) /\ event.item.rev \in Revs
      /\ Row(0) = Absent /\ Plain(Absent) /\ Plain(event.item)
    BY <1>3, PlainRowIs DEF Row, Absent, Plain
<1>9. \A i \in Id : SameLane(lanes[i], lanes[i])
    BY DEF SameLane
<1>10. CASE ~ lane.open
  <2> HIDE DEF s2
  <2>1. /\ s2 \in Client /\ s2.lanes = lanes /\ s2.cache = cache /\ s2.fetch = fetch
        /\ s2.queue = << event >>
    <3>1. Append(queue, event) \in Seq(Events) /\ Append(queue, event) = << event >>
        BY <1>1, <1>7, AppendProperties
    <3> QED
        BY <1>1, <1>2, <3>1 DEF Client, s2
  <2>2. Ingested(event) = Flush(s2)
      BY <1>6, <1>10, <2>1
  <2> DEFINE t == Flush(s2)
  <2>3. IF Applies(cache, event)
        THEN t.cache = ApplyEvent(cache, event) /\ Logged(fetch, t.fetch, id, {event.item.rev})
        ELSE t.cache = cache /\ Logs(fetch, t.fetch, id, {})
    <3>1. IF Applies(s2.cache, event)
          THEN /\ t.cache = ApplyEvent(s2.cache, event)
               /\ Logged(s2.fetch, t.fetch, event.id, {event.item.rev})
          ELSE t.cache = s2.cache /\ Logs(s2.fetch, t.fetch, event.id, {})
        BY <1>1, <2>1, FlushOne
    <3> HIDE DEF t
    <3> QED
        BY <2>1, <3>1
  <2>4. t \in Client /\ Shows(s2, t)
      BY <1>1, <2>1, FlushDoes
  <2> HIDE DEF t
  <2>5. /\ \A i \in Id : SameLane(lanes[i], t.lanes[i])
        /\ ~ t.lanes[id].open
    <3>1. \A i \in Id : SameLane(lanes[i], t.lanes[i])
        BY <2>1, <2>4 DEF Shows
    <3> QED
        BY <1>3, <1>10, <3>1 DEF SameLane
  <2>6. CASE Applies(cache, event)
    <3>1. /\ t.cache[id] = Row(b)
          /\ \A i \in Id \ {id} : t.cache[i] = cache[i]
        BY <1>1, <1>3, <1>8, <2>3, <2>6 DEF ApplyEvent, Left
    <3>2. Tells(t, id, b, FALSE)
        BY <2>5, <3>1 DEF Tells, Stands
    <3>3. Logged(fetch, t.fetch, id, {0, Known(id), event.item.rev})
        BY <2>3, <2>6 DEF Logged, Logs
    <3> QED
        BY <2>2, <3>2, <3>3 DEF t
  <2>7. CASE ~ Applies(cache, event)
    <3>1. event.type = "patched" /\ event.item.rev < Known(id)
        BY <1>7, <1>10, <2>7 DEF Applies, IsItemStale, Row
    <3>2. \A i \in Id : SameLane(lanes[i], t.lanes[i]) /\ t.cache[i] = cache[i]
        BY <2>3, <2>5, <2>7
    <3> QED
        BY <2>2, <2>3, <2>7, <3>1, <3>2 DEF t
  <2> QED
      BY <2>6, <2>7
<1>11. CASE lane.open /\ ~ Accepts(lane, event.type, event.item)
  <2>1. Ingested(event) = State
      BY <1>2, <1>6, <1>7, <1>11
  <2>2. event.type = "patched" /\ event.item.rev < Known(id)
      BY <1>11 DEF Accepts, IsItemStale, Known, KnownOf
  <2>3. /\ \A i \in Id : SameLane(lanes[i], State.lanes[i]) /\ State.cache[i] = cache[i]
        /\ Logs(fetch, State.fetch, id, {})
      BY <1>2, <1>9 DEF Logs
  <2> QED
      BY <2>1, <2>2, <2>3
<1>12. CASE lane.open /\ Accepts(lane, event.type, event.item)
  <2>1. /\ after \in Lanes /\ after.open /\ after.entries = lane.entries
        /\ after.base = IF event.type = "removed" THEN Absent ELSE event.item
        /\ Projects(after)
    <3>1. lane \in Lane(Revs, Mutations) /\ 0 \in Revs /\ event.item \in Items(Revs, Mutations)
        BY <1>1, <1>3 DEF Lanes, Bounded, Rows
    <3>2. /\ after \in Lane(Revs, Mutations)
          /\ after.open = lane.open /\ after.entries = lane.entries
          /\ after.base = IF event.type = "removed" THEN Absent ELSE event.item
          /\ after.visible = Project(after.base, after.entries)
          /\ after.seen <=> (lane.seen \/ event.type # "removed" \/ Present(after.visible))
        BY <3>1, AcceptDoes
    <3> HIDE DEF after
    <3>3. Projects(after)
        BY <1>12, <3>2 DEF Projects, Present
    <3> QED
        BY <1>12, <3>2, <3>3 DEF Lanes
  <2> HIDE DEF after
  <2>2. after.visible \in Rows /\ lane.visible \in Rows
      BY <1>3, <2>1 DEF Lanes, Lane, Rows
  <2>3. shown \in Seq(Events) /\ << >> \o shown = shown
    <3> HIDE DEF lane, id, newBase
    <3>1. shown \in Seq(Events)
        BY <1>1, <1>3, <2>2, ProjectionTyped
    <3> HIDE DEF shown
    <3> QED
        BY <3>1, ConcatEmptySeq
  <2>4. after.base = Row(b) /\ Plain(after.base) /\ (newBase \/ after.base = Absent)
      BY <1>8, <2>1 DEF Left
  <2>5. \/ cache[id] = lane.visible
        \/ cache[id] = Absent /\ shown # << >>
    <3>0. /\ Bounded /\ id \in Id /\ lane \in Lanes /\ lane.open /\ Projects(lane)
          /\ after \in Lanes /\ Projects(after) /\ Plain(after.base)
          /\ RowShown(lane, cache[id]) /\ Stands(lane, cache[id], Known(id), far)
          /\ newBase \in BOOLEAN /\ (newBase \/ after.base = Absent)
          /\ (\A i \in 1 .. Len(lane.entries) : ~ lane.entries[i].optimistic)
             => (\A i \in 1 .. Len(after.entries) : ~ after.entries[i].optimistic)
        BY <1>1, <1>3, <1>4, <1>7, <1>12, <2>1, <2>4
    <3> HIDE DEF lane, id, newBase
    <3>1. \/ cache[id] = lane.visible
          \/ /\ cache[id] = Absent
             /\ ProjectionEvents(id, lane.visible, after.visible, newBase) # << >>
        BY ONLY <3>0, NewBaseShows
    <3> QED
        BY <3>1
  <2> HIDE DEF shown, journal, lane, id, newBase, b
  <2>6. /\ s0 \in Client /\ s0.lanes[id] = after
        /\ \A i \in Id \ {id} : s0.lanes[i] = lanes[i]
        /\ s0.cache = cache /\ s0.queue = << >> /\ s0.fetch = journal
    <3>1. s0 = [State EXCEPT !.lanes = [lanes EXCEPT ![id] = after], !.fetch = journal]
        BY <1>2 DEF State, journal
    <3> QED
        BY <1>1, <1>2, <1>3, <1>5, <1>7, <2>1, <3>1 DEF Client
  <2>7. s1 = [s0 EXCEPT !.queue = @ \o shown] /\ s1.queue = shown
    <3>1. s1 = [s0 EXCEPT !.queue = @ \o shown]
        BY <1>2 DEF State
    <3> HIDE DEF s0, s1
    <3>2. s1.queue = s0.queue \o shown
        BY <2>6, <3>1 DEF Client
    <3> QED
        BY <2>3, <2>6, <3>1, <3>2
  <2> HIDE DEF s0, s1
  <2> DEFINE t == ShowProjection(s0, id, lane.visible, newBase)
  <2>8. Ingested(event) = t
    <3>1. t = IF shown = << >> THEN s0 ELSE Flush(s1)
        BY <2>6, <2>7 DEF ShowProjection, shown
    <3>2. CASE shown = << >>
      <4>1. s1 = s0
          BY <2>6, <2>7, <3>2 DEF Client
      <4> QED
          BY <1>6, <1>12, <2>7, <3>1, <3>2, <4>1
    <3>3. CASE shown # << >>
        BY <1>6, <1>12, <2>7, <3>1, <3>3
    <3> QED
        BY <3>2, <3>3
  <2>9. /\ \/ s0.cache[id] = lane.visible
           \/ /\ s0.cache[id] = Absent
              /\ \/ FALSE
                 \/ ProjectionEvents(id, lane.visible, s0.lanes[id].visible, newBase) # << >>
        /\ s0.lanes[id].open /\ s0.lanes[id].base = Row(b) /\ Projects(s0.lanes[id])
        /\ FALSE \in BOOLEAN
      BY <2>1, <2>4, <2>5, <2>6 DEF shown
  <2>10. Tells(t, id, b, FALSE)
      BY <1>1, <1>3, <2>2, <2>6, <2>9, LaneTells
  <2>11. Logs(s0.fetch, t.fetch, id, {lane.visible.rev, 0, b})
      BY <1>1, <1>3, <2>2, <2>6, <2>9, LaneTells
  <2> HIDE DEF t
  <2>12. lane.visible.rev \in {0, Known(id)} /\ b \in {0, event.item.rev}
    <3>1. lane.base = Row(Known(id))
        BY <1>7, <1>12 DEF Stands
    <3> QED
        BY <1>1, <1>3, <1>4, <3>1, ProjectedRevision DEF Row, b, Left
  <2>13. Logged(fetch, t.fetch, id, {0, Known(id), event.item.rev})
      BY <1>5, <2>6, <2>11, <2>12 DEF Logged, Logs
  <2> QED
      BY <2>8, <2>10, <2>13 DEF b, id
<1> QED
    BY <1>10, <1>11, <1>12

-----------------------------------------------------------------------------
(* The invariant.                                                          *)

\* The messages that are news of an entity: its events, and the acknowledgements of
\* its mutations.
About(msg, id, cs) ==
    IF msg.kind = "event" THEN msg.id = id ELSE msg.ok /\ cs[msg.mutation].id = id

Coming(w, id, cs) == { i \in 1 .. Len(w) : About(w[i], id, cs) }

TypeOf(msg, cs) == IF msg.kind = "event" THEN msg.type ELSE EventType(cs[msg.mutation].method)

Stamps(w) == [i \in 1 .. Len(w) |-> w[i].item.rev]

Values(w, cs) == [i \in 1 .. Len(w) |-> Left(TypeOf(w[i], cs), w[i].item)]

\* The client is in step with the server about an entity.
InStepWith(C, R, V, now, clk, lane, row, f, id) ==
    /\ News(C, R, V, now, clk)
    /\ Knows(C, now, clk, KnownOf(lane, row))
    /\ f.answered => Asks(C, R, V, now, clk, KnownOf(lane, row), f.rows[id], f.log[id])
    /\ ShowsLane(lane, row, C # {})

InStep(id) == InStepWith(Coming(wire, id, calls), Stamps(wire), Values(wire, calls),
                         server[id], clock, lanes[id], cache[id], fetch, id)

Convergent ==
    Direct => /\ fetch.answered => fetch.inFlight
              /\ \A id \in Id : InStep(id)

LEMMA StandsShows ==
    ASSUME NEW lane, NEW row, NEW b \in Nat, NEW far, far \in BOOLEAN, Stands(lane, row, b, far)
    PROVE  /\ KnownOf(lane, row) = b \/ (far /\ KnownOf(lane, row) = 0)
           /\ ShowsLane(lane, row, far)
    BY DEF Stands, KnownOf, ShowsLane, Row, Absent

\* An entity whose lane, row and news are as they were.
LEMMA SameLaneShows ==
    ASSUME NEW lane \in Lanes, NEW next, SameLane(lane, next), NEW row
    PROVE  /\ KnownOf(next, row) = KnownOf(lane, row)
           /\ \A far : ShowsLane(lane, row, far) => ShowsLane(next, row, far)
    BY SameLaneKeeps DEF KnownOf, ShowsLane

LEMMA StillInStep ==
    ASSUME NEW C, NEW R, NEW V, NEW now, NEW clk, NEW lane \in Lanes, NEW next,
           SameLane(lane, next), NEW row, NEW f, NEW g, NEW id, NEW other \in Id, NEW S,
           id \in Id \ {other}, Logs(f, g, other, S) \/ ~ g.answered,
           InStepWith(C, R, V, now, clk, lane, row, f, id)
    PROVE  InStepWith(C, R, V, now, clk, next, row, g, id)
<1>1. /\ KnownOf(next, row) = KnownOf(lane, row)
      /\ ShowsLane(next, row, C # {})
    BY SameLaneShows DEF InStepWith
<1>2. g.answered => f.answered /\ g.rows[id] = f.rows[id] /\ g.log[id] = f.log[id]
    BY DEF Logs
<1> QED
    BY <1>1, <1>2 DEF InStepWith

\* What is on the wire, and what the client has of an entity, is of its type.
LEMMA WireTyped ==
    ASSUME Typed, InFlight
    PROVE  /\ wire \in Seq(Messages) /\ Len(wire) \in Nat
           /\ \A i \in 1 .. Len(wire) :
                 wire[i].kind = "answer" => wire[i].mutation \in 1 .. Len(calls)
<1>1. wire \in Seq(Messages) /\ Len(wire) \in Nat /\ calls \in Seq(Calls) /\ Len(calls) \in Nat
    BY LenProperties DEF Typed
<1>2. ASSUME NEW i \in 1 .. Len(wire), wire[i].kind = "answer"
      PROVE  wire[i].mutation \in 1 .. Len(calls)
  <2>1. wire[i].mutation \in Mutations /\ status[wire[i].mutation] = "sent"
      BY <1>1, <1>2, MessagesAre DEF InFlight
  <2>2. wire[i].mutation <= Len(calls) /\ wire[i].mutation \in Nat /\ 1 <= wire[i].mutation
      BY <2>1 DEF Typed, Mutations
  <2> QED
      BY <1>1, <2>2
<1> QED
    BY <1>1, <1>2

LEMMA EntityTyped ==
    ASSUME Typed, RowsShown(State), ~ setup.batching, NEW id \in Id, InStep(id)
    PROVE  LET C == Coming(wire, id, calls)
           IN  /\ C \subseteq Nat /\ C \subseteq 1 .. Len(wire)
               /\ server[id] \in Nat /\ clock \in Nat /\ Known(id) \in Nat
               /\ lanes[id] \in Lanes /\ cache[id] \in Rows /\ fetch \in Fetches
               /\ fetch.rows[id] \in Nat /\ fetch.log[id] \subseteq Nat
               /\ News(C, Stamps(wire), Values(wire, calls), server[id], clock)
               /\ Knows(C, server[id], clock, Known(id))
               /\ server[id] <= clock
               /\ ShowsLane(lanes[id], cache[id], C # {})
<1> DEFINE C == Coming(wire, id, calls)
<1>1. C \subseteq 1 .. Len(wire) /\ C \subseteq Nat
    BY DEF Coming
<1>2. /\ server[id] \in Nat /\ clock \in Nat /\ lanes[id] \in Lanes /\ cache[id] \in Rows
      /\ fetch \in Fetches /\ fetch.rows[id] \in Nat /\ fetch.log[id] \subseteq Nat
  <2>1. /\ server \in [Id -> Revs] /\ clock \in 1 .. MaxRev /\ lanes \in [Id -> Lanes]
        /\ cache \in [Id -> Rows] /\ fetch \in Fetches
      BY TypedIs DEF Typed
  <2>0. Revs \subseteq Nat
      BY DEF Revs
  <2>2. clock \in Nat
      BY <2>1
  <2> QED
      BY <2>0, <2>1, <2>2 DEF Fetches
<1>3. ShowsLane(lanes[id], cache[id], C # {}) /\ (C # {}) \in BOOLEAN
    BY DEF InStep, InStepWith
<1> HIDE DEF C
<1>4. Known(id) \in Nat
  <2>1. Known(id) \in Revs
      BY <1>3, KnownStands
  <2> QED
      BY <2>1 DEF Revs
<1>5. /\ News(C, Stamps(wire), Values(wire, calls), server[id], clock)
      /\ Knows(C, server[id], clock, Known(id))
    BY DEF InStep, InStepWith, Known, C
<1>6. server[id] <= clock
  <2>1. CASE C = {}
      BY <1>5, <2>1 DEF Knows
  <2>2. CASE C # {}
    <3>1. PICK i \in C : Values(wire, calls)[i] = server[id]
        BY <1>5, <2>2 DEF News
    <3>2. /\ Stamps(wire)[i] \in 1 .. clock
          /\ Values(wire, calls)[i] \in {0, Stamps(wire)[i]}
        BY <1>5 DEF News
    <3> QED
        BY <1>2, <3>1, <3>2
  <2> QED
      BY <2>1, <2>2
<1> QED
    BY <1>1, <1>2, <1>3, <1>4, <1>5, <1>6 DEF C

\* An operation that brings no news of its entity leaves it in step.
LEMMA SteadyInStep ==
    ASSUME Typed, RowsShown(State), ~ setup.batching, NEW id \in Id, InStep(id),
           NEW lane, NEW row, NEW g,
           Stands(lane, row, Known(id), Coming(wire, id, calls) # {}),
           Logs(fetch, g, id, {0, Known(id)})
    PROVE  InStepWith(Coming(wire, id, calls), Stamps(wire), Values(wire, calls),
                      server[id], clock, lane, row, g, id)
<1> DEFINE C == Coming(wire, id, calls)
           R == Stamps(wire)
           V == Values(wire, calls)
           now == server[id]
           k == Known(id)
           k2 == KnownOf(lane, row)
           x == fetch.rows[id]
           log == fetch.log[id]
           log2 == g.log[id]
<1>1. /\ C \subseteq Nat /\ now \in Nat /\ clock \in Nat /\ k \in Nat /\ x \in Nat
      /\ log \subseteq Nat /\ News(C, R, V, now, clock) /\ Knows(C, now, clock, k)
  <2> HIDE DEF C, R, V, now, k, x, log
  <2> QED
      BY EntityTyped DEF C, R, V, now, k, x, log
<1>2. fetch.answered => Asks(C, R, V, now, clock, k, x, log)
    BY DEF InStep, InStepWith, Known
<1>3. g.answered = fetch.answered /\ g.rows = fetch.rows
      /\ (log2 = log \/ \E r \in {0, k} : log2 = {r})
    BY DEF Logs
<1> HIDE DEF R, V, now, x, log, log2
<1>4. /\ k2 = k \/ (k2 = 0 /\ C # {})
      /\ ShowsLane(lane, row, C # {})
  <2>1. Stands(lane, row, k, C # {}) /\ (C # {}) \in BOOLEAN
      OBVIOUS
  <2> HIDE DEF C, k
  <2> QED
      BY <1>1, <2>1, StandsShows
<1> HIDE DEF C, k, k2
<1>5. k2 \in Nat
    BY <1>1, <1>4
<1>6. Knows(C, now, clock, k2)
    BY ONLY <1>1, <1>3, <1>4, <1>5, SteadyKeeps
<1>7. Asks(C, R, V, now, clock, k, x, log) => Asks(C, R, V, now, clock, k2, x, log2)
    BY ONLY <1>1, <1>3, <1>4, <1>5, SteadyKeeps
<1>8. g.answered => Asks(C, R, V, now, clock, k2, g.rows[id], g.log[id])
    BY <1>2, <1>3, <1>7 DEF x, log2
<1>9. InStepWith(C, R, V, now, clock, lane, row, g, id)
    BY <1>1, <1>4, <1>6, <1>8 DEF InStepWith, k2
<1> QED
    BY <1>9 DEF C, R, V, now

LEMMA CallInStep ==
    ASSUME EntityStoreInvariant, Convergent, NEW id \in setup.ids, NEW method \in setup.methods,
           NEW optimistic \in BOOLEAN, Call(id, method, optimistic)
    PROVE  Convergent'
<1> DEFINE m     == Len(calls) + 1
           entry == [mutation |-> m, method |-> method, optimistic |-> optimistic]
           lane  == Ensure(lanes[id], cache[id])
           s     == [State EXCEPT !.lanes[id] = Enqueue(lane, entry), !.status[m] = "queued"]
           t     == Drain(ShowProjection(s, id, lane.visible, FALSE), id)
           cs    == Append(calls, [id |-> id, method |-> method, optimistic |-> optimistic])
           far   == Coming(wire, id, calls) # {}
<1>1. /\ id \in Id /\ method \in {"create", "patch", "remove"} /\ m <= MaxCalls
  <2>1. /\ setup.ids \subseteq Id /\ setup.methods \subseteq {"create", "patch", "remove"}
        /\ MaxCalls \in Nat /\ setup.calls \in 0 .. MaxCalls /\ Len(calls) \in Nat
      BY SetupsAreBounded, LenProperties DEF EntityStoreInvariant, Typed
  <2>2. m <= setup.calls
      BY DEF Call
  <2> QED
      BY <2>1, <2>2
<1>2. /\ lanes' = t.lanes /\ cache' = t.cache /\ fetch' = t.fetch /\ calls' = cs
      /\ UNCHANGED <<setup, server, clock, wire>>
    BY DEF Call, Become
<1> SUFFICES ASSUME Direct PROVE /\ fetch'.answered => fetch'.inFlight
                                 /\ \A i \in Id : InStep(i)'
    BY <1>2 DEF Convergent, Direct
<1>3. /\ Typed /\ LanesRest /\ RowsShown(State) /\ InFlight /\ ~ setup.batching
      /\ \A i \in Id : InStep(i) /\ lanes[i] \in Lanes
      /\ fetch.answered => fetch.inFlight
  <2>1. Typed => \A i \in Id : lanes[i] \in Lanes
      BY TypedIs
  <2> QED
      BY <2>1 DEF EntityStoreInvariant, Convergent, Direct
<1>4. Tells(t, id, Known(id), far) /\ Logs(fetch, t.fetch, id, {0, Known(id)})
  <2>1. ShowsLane(lanes[id], cache[id], far) /\ far \in BOOLEAN
      BY <1>1, <1>3, EntityTyped
  <2> HIDE DEF far
  <2>2. Tells(t, id, Known(id), far)
      BY <1>1, <1>3, <2>1, CallTells
  <2>3. Logs(fetch, t.fetch, id, {0, Known(id)})
      BY <1>1, <1>3, <2>1, CallTells
  <2> QED
      BY <2>2, <2>3
<1> HIDE DEF t
<1>5. Values(wire, cs) = Values(wire, calls) /\ \A i \in Id : Coming(wire, i, cs) = Coming(wire, i, calls)
  <2>1. ASSUME NEW j \in 1 .. Len(wire)
        PROVE  /\ TypeOf(wire[j], cs) = TypeOf(wire[j], calls)
               /\ \A i \in Id : About(wire[j], i, cs) <=> About(wire[j], i, calls)
    <3>1. CASE wire[j].kind = "event"
        BY <3>1 DEF TypeOf, About
    <3>2. CASE wire[j].kind = "answer"
      <4>1. wire[j].mutation \in 1 .. Len(calls)
          BY <1>3, <3>2, WireTyped
      <4>2. calls \in Seq(Calls)
          BY <1>3 DEF Typed
      <4>3. [id |-> id, method |-> method, optimistic |-> optimistic] \in Calls
          BY <1>1 DEF Calls
      <4>4. cs[wire[j].mutation] = calls[wire[j].mutation]
          BY <4>1, <4>2, <4>3, AppendProperties
      <4> QED
          BY <4>4 DEF TypeOf, About
    <3>3. wire[j].kind \in {"answer", "event"}
        BY <1>3, WireTyped, MessagesAre
    <3> QED
        BY <3>1, <3>2, <3>3
  <2> HIDE DEF cs
  <2>2. \A i \in Id : Coming(wire, i, cs) = Coming(wire, i, calls)
      BY <2>1 DEF Coming
  <2>3. Values(wire, cs) = Values(wire, calls)
      BY <2>1 DEF Values
  <2> QED
      BY <2>2, <2>3
<1> HIDE DEF cs
<1>6. ASSUME NEW i \in Id
      PROVE  InStepWith(Coming(wire, i, calls), Stamps(wire), Values(wire, calls),
                        server[i], clock, t.lanes[i], t.cache[i], t.fetch, i)
  <2>1. CASE i = id
    <3>1. Stands(t.lanes[id], t.cache[id], Known(id), Coming(wire, id, calls) # {})
        BY <1>4 DEF Tells
    <3> QED
        BY <1>3, <1>4, <2>1, <3>1, SteadyInStep
  <2>2. CASE i # id
    <3>1. SameLane(lanes[i], t.lanes[i]) /\ t.cache[i] = cache[i]
        BY <1>4, <2>2 DEF Tells
    <3>2. InStepWith(Coming(wire, i, calls), Stamps(wire), Values(wire, calls),
                     server[i], clock, lanes[i], cache[i], fetch, i)
        BY <1>3 DEF InStep
    <3> QED
        BY <1>1, <1>3, <1>4, <2>2, <3>1, <3>2, StillInStep
  <2> QED
      BY <2>1, <2>2
<1>7. t.fetch.answered => t.fetch.inFlight
    BY <1>3, <1>4 DEF Logs
<1>8. ASSUME NEW i \in Id PROVE InStep(i)'
  <2>1. InStepWith(Coming(wire', i, calls'), Stamps(wire'), Values(wire', calls'),
                   server'[i], clock', lanes'[i], cache'[i], fetch', i)
      BY <1>2, <1>5, <1>6
  <2> QED
      BY <2>1 DEF InStep
<1> QED
    BY <1>2, <1>7, <1>8

\* The news of an entity is delivered.
LEMMA NewsInStep ==
    ASSUME Typed, RowsShown(State), ~ setup.batching, NEW id \in Id, InStep(id),
           fetch.answered => fetch.inFlight,
           1 \in Coming(wire, id, calls), NEW lane, NEW row, NEW g,
           \/ /\ Stands(lane, row, Values(wire, calls)[1], FALSE)
              /\ Logged(fetch, g, id, {0, Known(id), Stamps(wire)[1]})
           \/ /\ Values(wire, calls)[1] = Stamps(wire)[1] /\ Stamps(wire)[1] < Known(id)
              /\ SameLane(lanes[id], lane) /\ row = cache[id]
              /\ Logs(fetch, g, id, {})
    PROVE  InStepWith(Coming(wire, id, calls) \ {1}, Stamps(wire), Values(wire, calls),
                      server[id], clock, lane, row, g, id)
<1> DEFINE C == Coming(wire, id, calls)
           R == Stamps(wire)
           V == Values(wire, calls)
           now == server[id]
           k == Known(id)
           k2 == KnownOf(lane, row)
           x == fetch.rows[id]
           log == fetch.log[id]
           D == C \ {1}
           new == Stands(lane, row, V[1], FALSE)
           log2 == IF g.answered \/ ~ new THEN g.log[id] ELSE {0}
<1>1. /\ C \subseteq Nat /\ now \in Nat /\ clock \in Nat /\ k \in Nat /\ x \in Nat
      /\ News(C, R, V, now, clock) /\ Knows(C, now, clock, k)
      /\ lanes[id] \in Lanes /\ ShowsLane(lanes[id], cache[id], C # {})
  <2> HIDE DEF C, R, V, now, k, x, log
  <2> QED
      BY EntityTyped DEF C, R, V, now, k, x, log
<1>2. fetch.answered => Asks(C, R, V, now, clock, k, x, log)
    BY DEF InStep, InStepWith, Known
<1>3. 1 \in C /\ \A i \in C : 1 <= i
    BY DEF Coming
<1>4. \/ new /\ Logged(fetch, g, id, {0, k, R[1]})
      \/ /\ V[1] = R[1] /\ R[1] < k
         /\ SameLane(lanes[id], lane) /\ row = cache[id] /\ Logs(fetch, g, id, {})
    OBVIOUS
<1>5. KnownOf(lanes[id], cache[id]) = k
    BY DEF Known
<1> HIDE DEF C, R, V, now, x, log, log2, k, new, k2
<1>6. R[1] \in Nat /\ V[1] \in Nat
    BY <1>1, <1>3 DEF News
<1>7. g.answered = fetch.answered /\ g.rows = fetch.rows
    BY <1>4 DEF Logged, Logs
<1>8. new => k2 = V[1] /\ ShowsLane(lane, row, FALSE)
    BY <1>6, StandsShows DEF new, k2
<1>9. ~ new => k2 = k /\ ShowsLane(lane, row, C # {})
    BY <1>1, <1>4, <1>5, SameLaneShows DEF k2
<1>10. k2 \in Nat
    BY <1>1, <1>6, <1>8, <1>9
<1>11. \/ k2 = V[1] /\ \E r \in {0, k, R[1]} : log2 = {r}
       \/ k2 = k /\ log2 = log /\ V[1] = R[1] /\ R[1] < k
  <2>1. CASE new
    <3>1. \E r \in {0, k, R[1]} : log2 = {r}
      <4>1. CASE ~ g.answered
          BY <2>1, <4>1 DEF log2
      <4>2. CASE g.answered /\ Logged(fetch, g, id, {0, k, R[1]})
        <5>1. fetch.inFlight
            BY <1>7, <4>2
        <5> QED
            BY <4>2, <5>1 DEF Logged, log2
      <4>3. CASE /\ g.answered /\ V[1] = R[1] /\ R[1] < k
                 /\ SameLane(lanes[id], lane) /\ row = cache[id]
        <5>1. k2 = k
            BY <1>1, <1>5, <4>3, SameLaneShows DEF k2
        <5> QED
            BY <1>1, <1>6, <1>8, <2>1, <4>3, <5>1
      <4> QED
          BY <1>4, <4>1, <4>2, <4>3
    <3> QED
        BY <1>8, <2>1, <3>1
  <2>2. CASE ~ new
    <3>1. log2 = log
        BY <1>4, <2>2 DEF Logs, log2, log
    <3> QED
        BY <1>4, <1>9, <2>2, <3>1
  <2> QED
      BY <2>1, <2>2
<1>12. 1 \in C /\ log2 = log2
    BY <1>3
<1>13. News(D, R, V, now, clock) /\ Knows(D, now, clock, k2)
    BY ONLY <1>1, <1>3, <1>10, <1>11, NewsKeeps
<1>14. Asks(C, R, V, now, clock, k, x, log) => Asks(D, R, V, now, clock, k2, x, log2)
    BY ONLY <1>1, <1>3, <1>10, <1>11, NewsKeeps
<1>15. k2 # V[1] => D # {}
  <2>1. PICK l \in C : V[l] = now
      BY <1>1, <1>3 DEF News
  <2>2. D = {} => l = 1
      OBVIOUS
  <2>3. k2 # V[1] => k2 = k /\ V[1] = R[1] /\ R[1] < k /\ R[1] # 0
      BY <1>1, <1>3, <1>11 DEF News
  <2>4. now # 0 => k <= now
      BY <1>1 DEF Knows
  <2> QED
      BY <1>1, <1>6, <2>1, <2>2, <2>3, <2>4
<1>16. ShowsLane(lane, row, D # {})
  <2>1. CASE new
      BY <1>8, <2>1 DEF ShowsLane
  <2>2. CASE ~ new
    <3>1. D # {}
        BY <1>1, <1>4, <1>6, <1>9, <1>15, <2>2
    <3> QED
        BY <1>9, <2>2, <3>1 DEF ShowsLane
  <2> QED
      BY <2>1, <2>2
<1>17. g.answered => Asks(D, R, V, now, clock, k2, g.rows[id], g.log[id])
    BY <1>2, <1>7, <1>14 DEF x, log2
<1>18. InStepWith(D, R, V, now, clock, lane, row, g, id)
    BY <1>13, <1>16, <1>17 DEF InStepWith, k2
<1> QED
    BY <1>18 DEF C, R, V, now

\* What is left on the wire moves up.
LEMMA MovedInStep ==
    ASSUME NEW w, w \in Seq(Messages), 1 \in 1 .. Len(w), NEW id, NEW cs,
           NEW now, NEW clk, NEW lane, NEW row, NEW f,
           InStepWith(Coming(w, id, cs) \ {1}, Stamps(w), Values(w, cs),
                      now, clk, lane, row, f, id)
    PROVE  InStepWith(Coming(RemoveAt(w, 1), id, cs), Stamps(RemoveAt(w, 1)),
                      Values(RemoveAt(w, 1), cs), now, clk, lane, row, f, id)
<1> DEFINE u == RemoveAt(w, 1)
           C == Coming(w, id, cs) \ {1}
           D == Coming(u, id, cs)
           R == Stamps(w)
           V == Values(w, cs)
           R2 == Stamps(u)
           V2 == Values(u, cs)
           k == KnownOf(lane, row)
           x == f.rows[id]
           log == f.log[id]
<1>1. Len(w) \in Nat /\ Len(u) = Len(w) - 1
      /\ \A i \in 1 .. Len(u) : i + 1 \in 1 .. Len(w) /\ u[i] = w[i + 1]
  <2>1. Len(w) \in Nat /\ 1 \in 1 .. Len(w)
      BY LenProperties
  <2>2. Len(u) = Len(w) - 1
        /\ \A i \in 1 .. Len(w) - 1 : u[i] = IF i < 1 THEN w[i] ELSE w[i + 1]
      BY <2>1, RemoveAtDoes
  <2> HIDE DEF u
  <2> QED
      BY <2>1, <2>2
<1> HIDE DEF u
<1>2. /\ C \subseteq Nat /\ D \subseteq Nat
      /\ \A i \in D : i + 1 \in C /\ R2[i] = R[i + 1] /\ V2[i] = V[i + 1]
  <2>1. ASSUME NEW i \in D PROVE i + 1 \in C /\ R2[i] = R[i + 1] /\ V2[i] = V[i + 1]
    <3>1. i \in 1 .. Len(u) /\ i + 1 \in 1 .. Len(w) /\ u[i] = w[i + 1] /\ About(u[i], id, cs)
        BY <1>1 DEF Coming
    <3>2. i + 1 \in C
        BY <3>1 DEF Coming
    <3>3. R2[i] = R[i + 1] /\ V2[i] = V[i + 1]
        BY <3>1 DEF Stamps, Values
    <3> QED
        BY <3>2, <3>3
  <2>2. C \subseteq Nat /\ D \subseteq Nat
      BY DEF Coming
  <2> QED
      BY <2>1, <2>2
<1>3. \A i \in C : i - 1 \in D
  <2> SUFFICES ASSUME NEW i \in C PROVE i - 1 \in D
      OBVIOUS
  <2>1. i \in 1 .. Len(w) /\ i # 1 /\ About(w[i], id, cs)
      BY DEF Coming
  <2>2. i - 1 \in 1 .. Len(u) /\ (i - 1) + 1 = i
      BY <1>1, <2>1
  <2>3. u[i - 1] = w[i]
      BY <1>1, <2>2
  <2> QED
      BY <2>1, <2>2, <2>3 DEF Coming
<1>4. /\ News(C, R, V, now, clk) /\ Knows(C, now, clk, k)
      /\ f.answered => Asks(C, R, V, now, clk, k, x, log)
      /\ ShowsLane(lane, row, C # {})
    BY DEF InStepWith
<1> HIDE DEF C, D, R, V, R2, V2, k, x, log
<1>5. 1 \in Nat
    OBVIOUS
<1>6. News(C, R, V, now, clk) => News(D, R2, V2, now, clk)
    BY ONLY <1>2, <1>3, <1>5, MovedKeeps
<1>7. Knows(C, now, clk, k) => Knows(D, now, clk, k)
    BY <1>2, <1>3 DEF Knows
<1>8. Asks(C, R, V, now, clk, k, x, log) => Asks(D, R2, V2, now, clk, k, x, log)
    BY ONLY <1>2, <1>3, <1>5, MovedKeeps
<1>9. ShowsLane(lane, row, D # {})
    BY <1>3, <1>4 DEF ShowsLane
<1>10. InStepWith(D, R2, V2, now, clk, lane, row, f, id)
    BY <1>4, <1>6, <1>7, <1>8, <1>9 DEF InStepWith, k, x, log
<1> QED
    BY <1>10 DEF D, R2, V2, u

LEMMA DeliverInStep ==
    ASSUME EntityStoreInvariant, Convergent, NEW i \in Deliverable, Deliver(i)
    PROVE  Convergent'
<1> DEFINE msg == wire[1]
           event == [mode |-> "server", id |-> msg.id, type |-> msg.type, item |-> msg.item]
           s == IF msg.kind = "answer" THEN Settled(msg.mutation, msg.ok, msg.item)
                ELSE Ingested(event)
           R == Stamps(wire)
           V == Values(wire, calls)
           C(id) == Coming(wire, id, calls)
           Follows(id) == InStepWith(C(id) \ {1}, R, V, server[id], clock,
                                     s.lanes[id], s.cache[id], s.fetch, id)
           Kept == /\ s.fetch.answered => s.fetch.inFlight
                   /\ \A id \in Id : Follows(id)
<1>1. UNCHANGED setup
    BY DEF Deliver, Become
<1> SUFFICES ASSUME Direct PROVE /\ fetch'.answered => fetch'.inFlight
                                 /\ \A id \in Id : InStep(id)'
    BY <1>1 DEF Convergent, Direct
<1>2. /\ Typed /\ LanesRest /\ RowsShown(State) /\ InFlight /\ ~ setup.batching
      /\ \A id \in Id : InStep(id) /\ lanes[id] \in Lanes
      /\ fetch.answered => fetch.inFlight
  <2>1. Typed => \A id \in Id : lanes[id] \in Lanes
      BY TypedIs
  <2> QED
      BY <2>1 DEF EntityStoreInvariant, Convergent, Direct
<1>3. wire \in Seq(Messages) /\ Len(wire) \in Nat /\ 1 \in 1 .. Len(wire) /\ i = 1
  <2>1. wire \in Seq(Messages) /\ Len(wire) \in Nat
      BY <1>2, WireTyped
  <2>2. i \in 1 .. Len(wire) /\ \A j \in 1 .. i - 1 : FALSE
      BY <2>1, LenProperties DEF Deliverable, Direct
  <2>3. i = 1
      BY <2>1, <2>2
  <2> QED
      BY <2>1, <2>2, <2>3
<1>4. /\ lanes' = s.lanes /\ cache' = s.cache /\ fetch' = s.fetch /\ wire' = RemoveAt(wire, 1)
      /\ UNCHANGED <<calls, server, clock>>
  <2>1. LET t == IF wire[i].kind = "answer"
                 THEN Settled(wire[i].mutation, wire[i].ok, wire[i].item)
                 ELSE Ingested([mode |-> "server", id |-> wire[i].id, type |-> wire[i].type,
                                item |-> wire[i].item])
        IN  Become(t) /\ wire' = RemoveAt(wire, i) /\ UNCHANGED <<calls, server, clock>>
      BY DEF Deliver
  <2>2. Become(s) /\ wire' = RemoveAt(wire, 1) /\ UNCHANGED <<calls, server, clock>>
      BY <1>3, <2>1
  <2> HIDE DEF s
  <2> QED
      BY <2>2 DEF Become
<1>5. /\ R[1] = msg.item.rev /\ V[1] = Left(TypeOf(msg, calls), msg.item)
      /\ \A id : 1 \in C(id) <=> About(msg, id, calls)
      /\ \A id : 1 \notin C(id) => C(id) \ {1} = C(id)
    BY <1>3 DEF Stamps, Values, Coming
<1>6. ASSUME NEW id \in Id, SameLane(lanes[id], s.lanes[id]), s.cache[id] = cache[id],
             NEW other \in Id, id # other, \E S : Logs(fetch, s.fetch, other, S),
             1 \notin C(id)
      PROVE  Follows(id)
  <2>1. C(id) \ {1} = C(id)
      BY <1>5, <1>6
  <2>2. InStepWith(C(id), R, V, server[id], clock, lanes[id], cache[id], fetch, id)
      BY <1>2 DEF InStep
  <2> HIDE DEF s, C, R, V
  <2>3. InStepWith(C(id), R, V, server[id], clock, s.lanes[id], s.cache[id], s.fetch, id)
      BY <1>2, <1>6, <2>2, StillInStep
  <2> QED
      BY <2>1, <2>3
<1>7. ASSUME msg.kind = "answer" PROVE Kept
  <2> DEFINE m == msg.mutation
             e == calls[m].id
             far == C(e) # {}
  <2>1. /\ m \in 1 .. Len(calls) /\ status[m] = "sent"
        /\ msg.ok \in BOOLEAN /\ msg.item \in PlainRows /\ e \in Id
    <3>1. m \in 1 .. Len(calls) /\ status[m] = "sent"
        BY <1>2, <1>3, <1>7, WireTyped DEF InFlight
    <3>2. msg.ok \in BOOLEAN /\ msg.item \in PlainRows
        BY <1>3, <1>7, MessagesAre
    <3> QED
        BY <1>2, <3>1, <3>2, TypedIs
  <2>2. ShowsLane(lanes[e], cache[e], far) /\ far \in BOOLEAN
      BY <1>2, <2>1, EntityTyped
  <2>3. s = Settled(m, msg.ok, msg.item) /\ TypeOf(msg, calls) = EventType(calls[m].method)
      BY <1>7 DEF TypeOf
  <2>4. \A id : About(msg, id, calls) <=> msg.ok /\ id = e
      BY <1>7 DEF About
  <2> HIDE DEF far
  <2>5. IF msg.ok
        THEN /\ Tells(s, e, V[1], FALSE)
             /\ Logged(fetch, s.fetch, e, {0, Known(e), R[1]})
        ELSE /\ Tells(s, e, Known(e), far)
             /\ Logs(fetch, s.fetch, e, {0, Known(e)})
    <3>1. LET t == Settled(m, msg.ok, msg.item)
          IN  IF msg.ok
              THEN /\ Tells(t, calls[m].id, Left(EventType(calls[m].method), msg.item), FALSE)
                   /\ Logged(fetch, t.fetch, calls[m].id, {0, Known(calls[m].id), msg.item.rev})
              ELSE /\ Tells(t, calls[m].id, Known(calls[m].id), far)
                   /\ Logs(fetch, t.fetch, calls[m].id, {0, Known(calls[m].id)})
        BY <1>2, <2>1, <2>2, SettledTells
    <3> HIDE DEF s, R, V, m
    <3> QED
        BY <1>5, <2>3, <3>1
  <2> HIDE DEF s, R, V, m
  <2>6. Follows(e)
    <3>1. CASE msg.ok
      <4>1. 1 \in C(e) /\ Stands(s.lanes[e], s.cache[e], V[1], FALSE)
          BY <1>5, <2>4, <2>5, <3>1 DEF Tells
      <4>2. Logged(fetch, s.fetch, e, {0, Known(e), R[1]})
          BY <2>5, <3>1
      <4> QED
          BY <1>2, <2>1, <4>1, <4>2, NewsInStep DEF R, V
    <3>2. CASE ~ msg.ok
      <4>1. C(e) \ {1} = C(e)
          BY <1>5, <2>4, <3>2
      <4>2. /\ Stands(s.lanes[e], s.cache[e], Known(e), C(e) # {})
            /\ Logs(fetch, s.fetch, e, {0, Known(e)})
          BY <2>5, <3>2 DEF Tells, far
      <4>3. InStepWith(C(e), R, V, server[e], clock, s.lanes[e], s.cache[e], s.fetch, e)
          BY <1>2, <2>1, <4>2, SteadyInStep DEF R, V
      <4> QED
          BY <4>1, <4>3
    <3> QED
        BY <3>1, <3>2
  <2>7. ASSUME NEW id \in Id, id # e PROVE Follows(id)
    <3>1. 1 \notin C(id)
        BY <1>5, <2>4, <2>7
    <3>2. SameLane(lanes[id], s.lanes[id]) /\ s.cache[id] = cache[id]
        BY <2>5, <2>7 DEF Tells
    <3>3. \E S : Logs(fetch, s.fetch, e, S)
        BY <2>5 DEF Logged
    <3> HIDE DEF C, e
    <3> QED
        BY <1>6, <2>1, <2>7, <3>1, <3>2, <3>3
  <2>8. s.fetch.answered => s.fetch.inFlight
      BY <1>2, <2>5 DEF Logged, Logs
  <2>9. \A id \in Id : Follows(id)
      BY <2>6, <2>7
  <2> QED
      BY <2>8, <2>9
<1>8. ASSUME msg.kind = "event" PROVE Kept
  <2> DEFINE e == msg.id
             far == C(e) # {}
  <2>1. /\ event \in Events /\ event.mode = "server" /\ Plain(event.item) /\ e \in Id
        /\ event.id = e /\ event.item = msg.item /\ event.type = msg.type
    <3>1. /\ msg.id \in Id /\ msg.type \in {"created", "patched", "removed"}
          /\ msg.item \in Rows /\ Plain(msg.item)
        BY <1>3, <1>8, MessagesAre DEF PlainRows
    <3> QED
        BY <3>1 DEF Events
  <2>2. ShowsLane(lanes[e], cache[e], far) /\ far \in BOOLEAN
      BY <1>2, <2>1, EntityTyped
  <2>3. s = Ingested(event) /\ TypeOf(msg, calls) = event.type
      BY <1>8 DEF TypeOf
  <2>4. \A id : 1 \in C(id) <=> id = e
      BY <1>5, <1>8 DEF About
  <2>5. V[1] = Left(event.type, event.item) /\ R[1] = event.item.rev
      BY <1>5, <2>1, <2>3
  <2> HIDE DEF far, event
  <2>6. \/ /\ Tells(s, e, V[1], FALSE)
           /\ Logged(fetch, s.fetch, e, {0, Known(e), R[1]})
        \/ /\ event.type = "patched" /\ R[1] < Known(e)
           /\ \A id \in Id : SameLane(lanes[id], s.lanes[id]) /\ s.cache[id] = cache[id]
           /\ Logs(fetch, s.fetch, e, {})
    <3>1. LET t == Ingested(event)
          IN  \/ /\ Tells(t, event.id, Left(event.type, event.item), FALSE)
                 /\ Logged(fetch, t.fetch, event.id, {0, Known(event.id), event.item.rev})
              \/ /\ event.type = "patched" /\ event.item.rev < Known(event.id)
                 /\ \A id \in Id : SameLane(lanes[id], t.lanes[id]) /\ t.cache[id] = cache[id]
                 /\ Logs(fetch, t.fetch, event.id, {})
        BY <1>2, <2>1, <2>2, IngestedTells
    <3> HIDE DEF s, R, V, e
    <3> QED
        BY <2>1, <2>3, <2>5, <3>1
  <2>7. event.type = "patched" => V[1] = R[1]
      BY <2>5 DEF Left
  <2> HIDE DEF s, R, V, e
  <2>8. Follows(e)
    <3>1. 1 \in C(e)
        BY <2>4
    <3>2. CASE /\ Tells(s, e, V[1], FALSE)
               /\ Logged(fetch, s.fetch, e, {0, Known(e), R[1]})
      <4>1. Stands(s.lanes[e], s.cache[e], V[1], FALSE)
          BY <3>2 DEF Tells
      <4> QED
          BY <1>2, <2>1, <3>1, <3>2, <4>1, NewsInStep DEF R, V
    <3>3. CASE /\ event.type = "patched" /\ R[1] < Known(e)
               /\ \A id \in Id : SameLane(lanes[id], s.lanes[id]) /\ s.cache[id] = cache[id]
               /\ Logs(fetch, s.fetch, e, {})
        BY <1>2, <2>1, <2>7, <3>1, <3>3, NewsInStep DEF R, V
    <3> QED
        BY <2>6, <3>2, <3>3
  <2>9. ASSUME NEW id \in Id, id # e PROVE Follows(id)
    <3>1. 1 \notin C(id)
        BY <2>4, <2>9
    <3>2. SameLane(lanes[id], s.lanes[id]) /\ s.cache[id] = cache[id]
        BY <2>6, <2>9 DEF Tells
    <3>3. \E S : Logs(fetch, s.fetch, e, S)
        BY <2>6 DEF Logged
    <3> HIDE DEF C
    <3> QED
        BY <1>6, <2>1, <2>9, <3>1, <3>2, <3>3
  <2>10. s.fetch.answered => s.fetch.inFlight
      BY <1>2, <2>6 DEF Logged, Logs
  <2>11. \A id \in Id : Follows(id)
      BY <2>8, <2>9
  <2> QED
      BY <2>10, <2>11
<1>9. Kept
  <2>1. msg.kind \in {"answer", "event"}
      BY <1>3, MessagesAre
  <2> HIDE DEF Kept
  <2> QED
      BY <1>7, <1>8, <2>1
<1> HIDE DEF s, R, V, C
<1>10. ASSUME NEW id \in Id PROVE InStep(id)'
  <2>1. InStepWith(Coming(wire, id, calls) \ {1}, Stamps(wire), Values(wire, calls),
                   server[id], clock, s.lanes[id], s.cache[id], s.fetch, id)
      BY <1>9 DEF C, R, V
  <2>2. InStepWith(Coming(RemoveAt(wire, 1), id, calls), Stamps(RemoveAt(wire, 1)),
                   Values(RemoveAt(wire, 1), calls), server[id], clock,
                   s.lanes[id], s.cache[id], s.fetch, id)
      BY <1>3, <2>1, MovedInStep
  <2>3. InStepWith(Coming(wire', id, calls'), Stamps(wire'), Values(wire', calls'),
                   server'[id], clock', lanes'[id], cache'[id], fetch', id)
      BY <1>4, <2>2
  <2> QED
      BY <2>3 DEF InStep
<1> QED
    BY <1>4, <1>9, <1>10

\* What the server sends is news of no entity but the one that has been written.
Reports(extra, w, method) ==
    \A k \in 1 .. Len(extra), id \in Id :
        About(extra[k], id, calls) =>
            /\ id = w
            /\ TypeOf(extra[k], calls) = EventType(method)
            /\ extra[k].item = Written(w, method)

LEMMA WireLonger ==
    ASSUME NEW w, w \in Seq(Messages), NEW extra, extra \in Seq(Messages), NEW id, NEW cs
    PROVE  LET u == w \o extra
               C == Coming(w, id, cs)
               N == { Len(w) + k : k \in Coming(extra, id, cs) }
           IN  /\ Coming(u, id, cs) = C \union N
               /\ C \subseteq Nat /\ N \subseteq Nat /\ \A i \in C, n \in N : i < n
               /\ \A i \in C : Stamps(u)[i] = Stamps(w)[i] /\ Values(u, cs)[i] = Values(w, cs)[i]
               /\ \A k \in Coming(extra, id, cs) :
                     /\ Stamps(u)[Len(w) + k] = extra[k].item.rev
                     /\ Values(u, cs)[Len(w) + k] = Left(TypeOf(extra[k], cs), extra[k].item)
<1> DEFINE u == w \o extra
           C == Coming(w, id, cs)
           M == Coming(extra, id, cs)
           N == { Len(w) + k : k \in M }
<1>1. /\ Len(w) \in Nat /\ Len(extra) \in Nat /\ Len(u) = Len(w) + Len(extra)
      /\ \A i \in 1 .. Len(u) : u[i] = IF i <= Len(w) THEN w[i] ELSE extra[i - Len(w)]
    BY LenProperties, ConcatProperties
<1> HIDE DEF u
<1>2. \A i \in 1 .. Len(w) : i \in 1 .. Len(u) /\ u[i] = w[i]
    BY <1>1
<1>3. ASSUME NEW k \in 1 .. Len(extra)
      PROVE  Len(w) + k \in 1 .. Len(u) /\ u[Len(w) + k] = extra[k]
  <2>1. Len(w) + k \in 1 .. Len(u) /\ ~ (Len(w) + k <= Len(w)) /\ (Len(w) + k) - Len(w) = k
      BY <1>1
  <2> QED
      BY <1>1, <2>1
<1>4. \A i \in 1 .. Len(u) : i \in 1 .. Len(w) \/ \E k \in 1 .. Len(extra) : i = Len(w) + k
  <2> SUFFICES ASSUME NEW i \in 1 .. Len(u), i \notin 1 .. Len(w)
               PROVE  \E k \in 1 .. Len(extra) : i = Len(w) + k
      OBVIOUS
  <2>1. i - Len(w) \in 1 .. Len(extra) /\ i = Len(w) + (i - Len(w))
      BY <1>1
  <2> QED
      BY <2>1
<1>5. Coming(u, id, cs) = C \union N
  <2>1. ASSUME NEW i \in Coming(u, id, cs) PROVE i \in C \union N
    <3>1. i \in 1 .. Len(u) /\ About(u[i], id, cs)
        BY DEF Coming
    <3>2. CASE i \in 1 .. Len(w)
        BY <1>2, <3>1, <3>2 DEF Coming
    <3>3. ASSUME NEW k \in 1 .. Len(extra), i = Len(w) + k PROVE i \in N
      <4>1. k \in M
          BY <1>3, <3>1, <3>3 DEF Coming
      <4> QED
          BY <3>3, <4>1
    <3> QED
        BY <1>4, <3>1, <3>2, <3>3
  <2>2. ASSUME NEW i \in C PROVE i \in Coming(u, id, cs)
      BY <1>2 DEF Coming
  <2>3. ASSUME NEW k \in M PROVE Len(w) + k \in Coming(u, id, cs)
    <3>1. k \in 1 .. Len(extra) /\ About(extra[k], id, cs)
        BY DEF Coming
    <3> QED
        BY <1>3, <3>1 DEF Coming
  <2> HIDE DEF C, M
  <2> QED
      BY <2>1, <2>2, <2>3
<1>6. C \subseteq 1 .. Len(w) /\ M \subseteq 1 .. Len(extra)
    BY DEF Coming
<1>7. C \subseteq Nat /\ N \subseteq Nat /\ \A i \in C, n \in N : i < n
    BY <1>1, <1>6
<1>8. \A i \in C : Stamps(u)[i] = Stamps(w)[i] /\ Values(u, cs)[i] = Values(w, cs)[i]
  <2> HIDE DEF C
  <2> QED
      BY <1>2, <1>6 DEF Stamps, Values
<1>9. \A k \in M : /\ Stamps(u)[Len(w) + k] = extra[k].item.rev
                   /\ Values(u, cs)[Len(w) + k] = Left(TypeOf(extra[k], cs), extra[k].item)
  <2> HIDE DEF M
  <2> QED
      BY <1>3, <1>6 DEF Stamps, Values
<1> QED
    BY <1>5, <1>7, <1>8, <1>9 DEF u

\* An entity nothing is reported of stays in step.
LEMMA UnreportedInStep ==
    ASSUME Typed, RowsShown(State), ~ setup.batching, NEW id \in Id, InStep(id),
           wire \in Seq(Messages), NEW extra, extra \in Seq(Messages),
           Coming(extra, id, calls) = {}, NEW clk, clk \in {clock, clock + 1}
    PROVE  LET u == wire \o extra
           IN  InStepWith(Coming(u, id, calls), Stamps(u), Values(u, calls),
                          server[id], clk, lanes[id], cache[id], fetch, id)
<1> DEFINE u == wire \o extra
           C == Coming(wire, id, calls)
           D == Coming(u, id, calls)
           R == Stamps(wire)
           V == Values(wire, calls)
           R2 == Stamps(u)
           V2 == Values(u, calls)
           now == server[id]
           k == Known(id)
           x == fetch.rows[id]
           log == fetch.log[id]
<1>1. /\ C \subseteq Nat /\ now \in Nat /\ clock \in Nat /\ k \in Nat /\ x \in Nat
      /\ News(C, R, V, now, clock) /\ Knows(C, now, clock, k)
      /\ ShowsLane(lanes[id], cache[id], C # {})
  <2> HIDE DEF C, R, V, now, k, x, log
  <2> QED
      BY EntityTyped DEF C, R, V, now, k, x, log
<1>2. fetch.answered => Asks(C, R, V, now, clock, k, x, log)
    BY DEF InStep, InStepWith, Known
<1>3. D = C /\ \A i \in C : R2[i] = R[i] /\ V2[i] = V[i]
  <2>1. /\ D = C \union { Len(wire) + j : j \in Coming(extra, id, calls) }
        /\ \A i \in C : R2[i] = R[i] /\ V2[i] = V[i]
      BY WireLonger
  <2> HIDE DEF C, D, R, V, R2, V2
  <2> QED
      BY <2>1
<1>4. k = KnownOf(lanes[id], cache[id])
    BY DEF Known
<1> HIDE DEF u, C, D, R, V, R2, V2, now, k, x, log
<1>5. /\ News(D, R2, V2, now, clock)
      /\ fetch.answered => Asks(D, R2, V2, now, clock, k, x, log)
  <2>1. /\ 0 \in Nat /\ D \subseteq Nat /\ \A i \in C : i - 0 \in D
        /\ \A i \in D : i + 0 \in C /\ R2[i] = R[i + 0] /\ V2[i] = V[i + 0]
    <3>1. \A i \in Nat : i - 0 = i /\ i + 0 = i
        OBVIOUS
    <3> QED
        BY <1>1, <1>3, <3>1
  <2>2. News(C, R, V, now, clock) => News(D, R2, V2, now, clock)
      BY ONLY <1>1, <2>1, MovedKeeps
  <2>3. Asks(C, R, V, now, clock, k, x, log) => Asks(D, R2, V2, now, clock, k, x, log)
      BY ONLY <1>1, <2>1, MovedKeeps
  <2> QED
      BY <1>1, <1>2, <2>2, <2>3
<1>6. Knows(D, now, clock, k) /\ ShowsLane(lanes[id], cache[id], D # {})
    BY <1>1, <1>3
<1>7. /\ News(D, R2, V2, now, clk) /\ Knows(D, now, clk, k)
      /\ fetch.answered => Asks(D, R2, V2, now, clk, k, x, log)
  <2>1. CASE clk = clock
      BY <1>5, <1>6, <2>1
  <2>2. CASE clk = clock + 1
    <3>1. News(D, R2, V2, now, clock + 1) /\ Knows(D, now, clock + 1, k)
        BY ONLY <1>1, <1>5, <1>6, OtherWriteKeeps
    <3>2. Asks(D, R2, V2, now, clock, k, x, log) => Asks(D, R2, V2, now, clock + 1, k, x, log)
        BY ONLY <1>1, <1>5, <1>6, OtherWriteKeeps
    <3> QED
        BY <1>5, <2>2, <3>1, <3>2
  <2> QED
      BY <2>1, <2>2
<1>8. InStepWith(D, R2, V2, now, clk, lanes[id], cache[id], fetch, id)
    BY <1>4, <1>6, <1>7 DEF InStepWith, x, log
<1> QED
    BY <1>8 DEF D, R2, V2, now, u

\* The entity that is written stays in step, as the write is reported.
LEMMA ReportedInStep ==
    ASSUME Typed, RowsShown(State), ~ setup.batching, NEW id \in Id, InStep(id),
           wire \in Seq(Messages), NEW extra, extra \in Seq(Messages),
           NEW method, method \in {"create", "patch", "remove"}, Write(id, method),
           Reports(extra, id, method), Coming(extra, id, calls) # {}
    PROVE  LET u == wire \o extra
           IN  InStepWith(Coming(u, id, calls), Stamps(u), Values(u, calls),
                          server'[id], clock + 1, lanes[id], cache[id], fetch, id)
<1> DEFINE u == wire \o extra
           C == Coming(wire, id, calls)
           D == Coming(u, id, calls)
           M == Coming(extra, id, calls)
           N == { Len(wire) + j : j \in M }
           R == Stamps(wire)
           V == Values(wire, calls)
           R2 == Stamps(u)
           V2 == Values(u, calls)
           now == server[id]
           now2 == server'[id]
           k == Known(id)
           x == fetch.rows[id]
           log == fetch.log[id]
<1>1. /\ C \subseteq Nat /\ now \in Nat /\ clock \in Nat /\ k \in Nat /\ x \in Nat
      /\ News(C, R, V, now, clock) /\ Knows(C, now, clock, k) /\ now <= clock
      /\ ShowsLane(lanes[id], cache[id], C # {})
  <2> HIDE DEF C, R, V, now, k, x, log
  <2> QED
      BY EntityTyped DEF C, R, V, now, k, x, log
<1>2. fetch.answered => Asks(C, R, V, now, clock, k, x, log)
    BY DEF InStep, InStepWith, Known
<1>3. /\ D = C \union N /\ N \subseteq Nat /\ \A i \in C : \A n \in N : i < n
      /\ \A i \in C : R2[i] = R[i] /\ V2[i] = V[i]
      /\ \A j \in M : /\ R2[Len(wire) + j] = extra[j].item.rev
                      /\ V2[Len(wire) + j] = Left(TypeOf(extra[j], calls), extra[j].item)
  <2>1. D = C \union N /\ N \subseteq Nat /\ \A i \in C, n \in N : i < n
      BY WireLonger
  <2>2. \A i \in C : R2[i] = R[i] /\ V2[i] = V[i]
      BY WireLonger
  <2>3. \A j \in M : /\ R2[Len(wire) + j] = extra[j].item.rev
                     /\ V2[Len(wire) + j] = Left(TypeOf(extra[j], calls), extra[j].item)
      BY WireLonger
  <2> QED
      BY <2>1, <2>2, <2>3
<1>4. k = KnownOf(lanes[id], cache[id])
    BY DEF Known
<1>5. M \subseteq 1 .. Len(extra) /\ M # {} /\ Len(extra) \in Nat /\ Len(wire) \in Nat
      /\ \A j \in M : /\ TypeOf(extra[j], calls) = EventType(method)
                      /\ extra[j].item = Written(id, method)
    BY LenProperties DEF Coming, Reports
<1>6. PICK l \in N : Newest(l, N)
  <2>0. IsFiniteSet(1 .. Len(extra))
      BY <1>5, FS_Interval
  <2>1. IsFiniteSet(M) /\ M \subseteq Nat
      BY <1>5, <2>0, FS_Subset
  <2>2. PICK top \in M : \A j \in M : j <= top
    <3>1. Max(M) \in M /\ \A j \in M : j <= Max(M)
        BY <1>5, <2>1, MaxIsMaximum
    <3> QED
        BY <3>1
  <2>3. Len(wire) + top \in N
      BY <2>2
  <2>4. ASSUME NEW j \in M PROVE Len(wire) + j <= Len(wire) + top
    <3>1. j \in Nat /\ top \in Nat /\ j <= top /\ Len(wire) \in Nat
        BY <1>5, <2>1, <2>2
    <3> QED
        BY ONLY <3>1
  <2>5. \A n \in N : n <= Len(wire) + top
      BY <2>4
  <2> HIDE DEF N
  <2> QED
      BY <2>3, <2>5 DEF Newest
<1>7. \/ now # 0 /\ now2 = 0 /\ \A n \in N : R2[n] = now /\ V2[n] = 0
      \/ now2 = clock + 1 /\ \A n \in N : R2[n] = clock + 1 /\ V2[n] = clock + 1
  <2>1. now2 = IF method = "remove" THEN 0 ELSE clock + 1
    <3>1. server \in [Id -> Revs]
        BY DEF Typed
    <3> QED
        BY <3>1 DEF Write
  <2>2. EventType(method) = "removed" <=> method = "remove"
      BY RemovedIsRemove
  <2>3. CASE method = "remove"
    <3>1. now # 0 /\ Written(id, method).rev = now
        BY <2>3 DEF Write, Writable, Written, Row
    <3> HIDE DEF M, R2, V2, now, now2
    <3>2. \A j \in M : R2[Len(wire) + j] = now /\ V2[Len(wire) + j] = 0
        BY <1>3, <1>5, <2>2, <2>3, <3>1 DEF Left
    <3> QED
        BY <2>1, <2>3, <3>1, <3>2
  <2>4. CASE method # "remove"
    <3>1. Written(id, method).rev = clock + 1
        BY <2>4 DEF Written, Row
    <3> HIDE DEF M, R2, V2, now, now2
    <3>2. \A j \in M : R2[Len(wire) + j] = clock + 1 /\ V2[Len(wire) + j] = clock + 1
        BY <1>3, <1>5, <2>2, <2>4, <3>1 DEF Left
    <3> QED
        BY <2>1, <2>4, <3>2
  <2> QED
      BY <2>3, <2>4
<1> HIDE DEF u, C, D, M, N, R, V, R2, V2, now, now2, k, x, log
<1>8. /\ News(C, R2, V2, now, clock)
      /\ fetch.answered => Asks(C, R2, V2, now, clock, k, x, log)
  <2>1. /\ 0 \in Nat /\ \A i \in C : i - 0 \in C
        /\ \A i \in C : i + 0 \in C /\ R2[i] = R[i + 0] /\ V2[i] = V[i + 0]
    <3>1. \A i \in Nat : i - 0 = i /\ i + 0 = i
        OBVIOUS
    <3> QED
        BY <1>1, <1>3, <3>1
  <2>2. News(C, R, V, now, clock) => News(C, R2, V2, now, clock)
      BY ONLY <1>1, <2>1, MovedKeeps
  <2>3. Asks(C, R, V, now, clock, k, x, log) => Asks(C, R2, V2, now, clock, k, x, log)
      BY ONLY <1>1, <2>1, MovedKeeps
  <2> QED
      BY <1>1, <1>2, <2>2, <2>3
<1>9. News(D, R2, V2, now2, clock + 1) /\ Knows(D, now2, clock + 1, k)
  <2>1. News(C \union N, R2, V2, now2, clock + 1)
      BY ONLY <1>1, <1>3, <1>6, <1>7, <1>8, WriteKeeps
  <2>2. Knows(D, now2, clock + 1, k)
    <3>1. D # {}
        BY <1>3, <1>6
    <3>2. k <= clock /\ (now2 # 0 => now2 = clock + 1)
        BY <1>1, <1>7 DEF Knows
    <3> QED
        BY <1>1, <3>1, <3>2 DEF Knows
  <2> QED
      BY <1>3, <2>1, <2>2
<1>10. fetch.answered => Asks(D, R2, V2, now2, clock + 1, k, x, log)
  <2>1. Asks(C, R2, V2, now, clock, k, x, log)
        => Asks(C \union N, R2, V2, now2, clock + 1, k, x, log)
      BY ONLY <1>1, <1>3, <1>6, <1>7, <1>8, WriteKeeps
  <2> QED
      BY <1>3, <1>8, <2>1
<1>11. ShowsLane(lanes[id], cache[id], D # {})
    BY <1>1, <1>3 DEF ShowsLane
<1>12. InStepWith(D, R2, V2, now2, clock + 1, lanes[id], cache[id], fetch, id)
    BY <1>4, <1>9, <1>10, <1>11 DEF InStepWith, x, log
<1> QED
    BY <1>12 DEF D, R2, V2, now2, u

\* A step of the server keeps every entity in step.
LEMMA ServerInStep ==
    ASSUME EntityStoreInvariant, Convergent, UNCHANGED <<setup, lanes, cache, fetch, calls>>,
           NEW extra, extra \in Seq(Messages), wire' = wire \o extra,
           \/ UNCHANGED <<server, clock>> /\ \A id \in Id : Coming(extra, id, calls) = {}
           \/ \E w \in Id, method \in {"create", "patch", "remove"} :
                 /\ Write(w, method)
                 /\ Reports(extra, w, method) /\ Coming(extra, w, calls) # {}
    PROVE  Convergent'
<1> SUFFICES ASSUME Direct PROVE /\ fetch'.answered => fetch'.inFlight
                                 /\ \A id \in Id : InStep(id)'
    BY DEF Convergent, Direct
<1>1. /\ Typed /\ RowsShown(State) /\ ~ setup.batching
      /\ wire \in Seq(Messages) /\ \A id \in Id : InStep(id)
      /\ fetch.answered => fetch.inFlight
    BY DEF EntityStoreInvariant, Convergent, Direct, Typed
<1> DEFINE u == wire \o extra
           Kept(id, now, clk) == InStepWith(Coming(u, id, calls), Stamps(u), Values(u, calls),
                                            now, clk, lanes[id], cache[id], fetch, id)
<1>2. ASSUME NEW id \in Id PROVE Kept(id, server'[id], clock')
  <2>1. ASSUME Coming(extra, id, calls) = {}, server'[id] = server[id],
               clock' = clock \/ clock' = clock + 1
        PROVE  Kept(id, server'[id], clock')
    <3>1. clock' \in {clock, clock + 1}
        BY <2>1
    <3>2. Kept(id, server[id], clock')
        BY <1>1, <2>1, <3>1, UnreportedInStep
    <3> QED
        BY <2>1, <3>2
  <2>2. CASE UNCHANGED <<server, clock>> /\ \A i \in Id : Coming(extra, i, calls) = {}
    <3> HIDE DEF Kept
    <3> QED
        BY <2>1, <2>2
  <2>3. ASSUME NEW w \in Id, NEW method \in {"create", "patch", "remove"}, Write(w, method),
               Reports(extra, w, method), Coming(extra, w, calls) # {}
        PROVE  Kept(id, server'[id], clock')
    <3>1. clock' = clock + 1 /\ (id # w => server'[id] = server[id])
      <4>1. server \in [Id -> Revs]
          BY <1>1 DEF Typed
      <4> QED
          BY <2>3, <4>1 DEF Write
    <3>2. CASE id = w
      <4>1. Kept(id, server'[id], clock + 1)
          BY <1>1, <2>3, <3>2, ReportedInStep
      <4> QED
          BY <3>1, <4>1
    <3>3. CASE id # w
      <4>1. Coming(extra, id, calls) = {}
          BY <2>3, <3>3 DEF Coming, Reports
      <4> HIDE DEF Kept
      <4> QED
          BY <2>1, <3>1, <3>3, <4>1
    <3> QED
        BY <3>2, <3>3
  <2> QED
      BY <2>2, <2>3
<1>3. ASSUME NEW id \in Id PROVE InStep(id)'
  <2>1. InStepWith(Coming(wire', id, calls'), Stamps(wire'), Values(wire', calls'),
                   server'[id], clock', lanes'[id], cache'[id], fetch', id)
      BY <1>2
  <2> QED
      BY <2>1 DEF InStep
<1> QED
    BY <1>1, <1>3

LEMMA HandleInStep ==
    ASSUME EntityStoreInvariant, Convergent, NEW m, m \in DOMAIN calls, Handle(m)
    PROVE  Convergent'
<1> DEFINE id     == calls[m].id
           method == calls[m].method
           event  == Broadcast(id, method, Written(id, method))
<1>1. /\ Typed /\ InFlight /\ Bounded /\ wire \in Seq(Messages)
      /\ UNCHANGED <<setup, lanes, cache, fetch, calls>>
    BY TypedIs DEF EntityStoreInvariant, Typed, Handle, client
<1>2. id \in Id /\ method \in {"create", "patch", "remove"} /\ m \in Mutations
  <2>1. m \in 1 .. Len(calls)
      BY LenProperties DEF EntityStoreInvariant, Typed
  <2> QED
      BY <1>1, <2>1, TypedIs DEF Calls
<1>3. Absent \in PlainRows
    BY <1>1, RowsTyped DEF PlainRows, Plain, Absent
<1>4. CASE wire' = Append(wire, Answer(m, FALSE, Absent)) /\ UNCHANGED <<server, clock>>
  <2> DEFINE a == Answer(m, FALSE, Absent)
             extra == << a >>
  <2>1. a \in Messages /\ \A i : ~ About(a, i, calls)
      BY <1>2, <1>3 DEF Answer, Messages, About
  <2> HIDE DEF a
  <2>2. wire' = wire \o extra /\ extra \in Seq(Messages) /\ Len(extra) = 1 /\ extra[1] = a
    <3>1. wire' = Append(wire, a)
        BY <1>4 DEF a
    <3> QED
        BY <1>1, <2>1, <3>1, SendsOne
  <2> HIDE DEF extra
  <2>3. \A i \in Id : Coming(extra, i, calls) = {}
      BY <2>1, <2>2 DEF Coming
  <2> QED
      BY <1>1, <1>4, <2>2, <2>3, ServerInStep
<1>5. ASSUME Write(id, method), NEW ok \in BOOLEAN,
             LET answer == Answer(m, ok, IF ok THEN Written(id, method) ELSE Absent)
             IN  wire' = wire \o << answer, event >> \/ wire' = wire \o << event, answer >>
      PROVE  Convergent'
  <2> DEFINE item == IF ok THEN Written(id, method) ELSE Absent
             a == Answer(m, ok, item)
  <2>1. Written(id, method) \in PlainRows /\ event \in Messages
      BY <1>1, <1>2, <1>5, WriteDoes
  <2>2. item \in PlainRows
      BY <1>3, <2>1
  <2>3. /\ a \in Messages
        /\ \A i : About(a, i, calls) => i = id /\ a.item = Written(id, method)
        /\ TypeOf(a, calls) = EventType(method)
    <3>1. a = [kind |-> "answer", mutation |-> m, ok |-> ok, item |-> item]
        BY DEF Answer
    <3>2. ok => item = Written(id, method)
        OBVIOUS
    <3> HIDE DEF a, item
    <3> QED
        BY <1>2, <2>2, <3>1, <3>2 DEF Messages, About, TypeOf
  <2>4. /\ event.item = Written(id, method) /\ TypeOf(event, calls) = EventType(method)
        /\ \A i : About(event, i, calls) <=> i = id
    <3>1. event = [kind |-> "event", id |-> id, type |-> EventType(method),
                   item |-> Written(id, method)]
        BY DEF Broadcast
    <3> HIDE DEF event, id, method
    <3> QED
        BY <3>1 DEF About, TypeOf
  <2>5. wire' = wire \o << a, event >> \/ wire' = wire \o << event, a >>
      BY <1>5 DEF item
  <2> HIDE DEF a, event, id, method
  <2>6. PICK extra : /\ extra = << a, event >> \/ extra = << event, a >>
                     /\ wire' = wire \o extra
      BY <2>5
  <2>7. /\ extra \in Seq(Messages) /\ Len(extra) = 2
        /\ \/ extra[1] = a /\ extra[2] = event
           \/ extra[1] = event /\ extra[2] = a
    <3>1. CASE extra = << a, event >>
        BY <2>1, <2>3, <3>1
    <3>2. CASE extra = << event, a >>
        BY <2>1, <2>3, <3>2
    <3> QED
        BY <2>6, <3>1, <3>2
  <2>8. Reports(extra, id, method)
    <3>1. \A k \in 1 .. Len(extra) : extra[k] = a \/ extra[k] = event
        BY <2>7
    <3> QED
        BY <2>3, <2>4, <3>1 DEF Reports
  <2>9. Coming(extra, id, calls) # {}
    <3>1. \E k \in 1 .. Len(extra) : extra[k] = event
        BY <2>7
    <3> QED
        BY <2>4, <3>1 DEF Coming
  <2> QED
      BY <1>1, <1>2, <1>5, <2>6, <2>7, <2>8, <2>9, ServerInStep
<1>6. \/ wire' = Append(wire, Answer(m, FALSE, Absent)) /\ UNCHANGED <<server, clock>>
      \/ /\ Write(id, method)
         /\ \E ok \in BOOLEAN :
               LET answer == Answer(m, ok, IF ok THEN Written(id, method) ELSE Absent)
               IN  wire' = wire \o << answer, event >> \/ wire' = wire \o << event, answer >>
    BY DEF Handle
<1> QED
    BY <1>4, <1>5, <1>6

LEMMA RemoteInStep ==
    ASSUME EntityStoreInvariant, Convergent, NEW id \in setup.ids, NEW method \in setup.methods,
           Remote(id, method)
    PROVE  Convergent'
<1> DEFINE event == Broadcast(id, method, Written(id, method))
           extra == << event >>
<1>1. Typed /\ wire \in Seq(Messages)
    BY DEF EntityStoreInvariant, Typed
<1>2. id \in Id /\ method \in {"create", "patch", "remove"}
    BY SetupsAreBounded DEF EntityStoreInvariant, Typed
<1>3. /\ Write(id, method) /\ wire' = Append(wire, event)
      /\ UNCHANGED <<setup, lanes, cache, fetch, calls>>
    BY DEF Remote, client
<1>4. event \in Messages
    BY <1>1, <1>2, <1>3, WriteDoes
<1>5. /\ event.item = Written(id, method) /\ TypeOf(event, calls) = EventType(method)
      /\ \A i : About(event, i, calls) <=> i = id
    BY DEF Broadcast, About, TypeOf
<1> HIDE DEF event
<1>6. wire' = wire \o extra /\ extra \in Seq(Messages) /\ Len(extra) = 1 /\ extra[1] = event
    BY <1>1, <1>3, <1>4, SendsOne
<1> HIDE DEF extra
<1>7. Reports(extra, id, method) /\ Coming(extra, id, calls) # {}
    BY <1>5, <1>6 DEF Reports, Coming
<1> QED
    BY <1>2, <1>3, <1>6, <1>7, ServerInStep

LEMMA BeginFetchInStep ==
    ASSUME EntityStoreInvariant, Convergent, BeginFetch
    PROVE  Convergent'
<1>1. /\ UNCHANGED <<setup, lanes, cache, calls, server, clock, wire>>
      /\ ~ fetch'.answered
    BY DEF BeginFetch, network, Idle
<1>2. ASSUME Direct, NEW id \in Id PROVE InStep(id)'
  <2>1. InStepWith(Coming(wire, id, calls), Stamps(wire), Values(wire, calls),
                   server[id], clock, lanes[id], cache[id], fetch, id)
      BY <1>2 DEF Convergent, InStep
  <2>2. InStepWith(Coming(wire', id, calls'), Stamps(wire'), Values(wire', calls'),
                   server'[id], clock', lanes'[id], cache'[id], fetch', id)
      BY <1>1, <2>1 DEF InStepWith
  <2> QED
      BY <2>2 DEF InStep
<1> QED
    BY <1>1, <1>2 DEF Convergent, Direct

LEMMA AnswerFetchInStep ==
    ASSUME EntityStoreInvariant, Convergent, AnswerFetch
    PROVE  Convergent'
<1>1. /\ UNCHANGED <<setup, lanes, cache, calls, server, clock, wire>>
      /\ fetch.inFlight /\ fetch' = [fetch EXCEPT !.answered = TRUE, !.rows = server]
    BY DEF AnswerFetch, network
<1>2. fetch'.inFlight = fetch.inFlight /\ fetch'.rows = server /\ fetch'.log = fetch.log
  <2>1. fetch \in Fetches
      BY TypedIs DEF EntityStoreInvariant
  <2> QED
      BY <1>1, <2>1 DEF Fetches
<1>3. ASSUME Direct, NEW id \in Id PROVE InStep(id)'
  <2> DEFINE C == Coming(wire, id, calls)
             R == Stamps(wire)
             V == Values(wire, calls)
             now == server[id]
             k == Known(id)
             log == fetch.log[id]
  <2>1. Typed /\ RowsShown(State) /\ ~ setup.batching /\ InStep(id)
      BY <1>3 DEF EntityStoreInvariant, Convergent, Direct
  <2>2. /\ C \subseteq Nat /\ now \in Nat /\ clock \in Nat /\ k \in Nat /\ now <= clock
        /\ News(C, R, V, now, clock) /\ Knows(C, now, clock, k)
        /\ ShowsLane(lanes[id], cache[id], C # {})
    <3> HIDE DEF C, R, V, now, k
    <3> QED
        BY <2>1, EntityTyped DEF C, R, V, now, k
  <2>3. k = KnownOf(lanes[id], cache[id])
      BY DEF Known
  <2> HIDE DEF C, R, V, now, k, log
  <2>4. Asks(C, R, V, now, clock, k, now, log)
      BY ONLY <2>2, AnswerIsAsked
  <2>5. InStepWith(C, R, V, now, clock, lanes[id], cache[id], fetch', id)
      BY <1>2, <2>2, <2>3, <2>4 DEF InStepWith, now, log
  <2>6. InStepWith(Coming(wire', id, calls'), Stamps(wire'), Values(wire', calls'),
                   server'[id], clock', lanes'[id], cache'[id], fetch', id)
      BY <1>1, <2>5 DEF C, R, V, now
  <2> QED
      BY <2>6 DEF InStep
<1> QED
    BY <1>1, <1>2, <1>3 DEF Convergent, Direct

\* A lane that shows nothing for the fetch to respect shows its base.
LEMMA NotOverlaid ==
    ASSUME Bounded, NEW lane \in Lanes, lane.open, Projects(lane), ~ HasOverlay(lane)
    PROVE  lane.visible = lane.base
<1>1. /\ lane.entries \in Seq(Entries) /\ DOMAIN lane.entries = 1 .. Len(lane.entries)
      /\ lane.base \in Items(Revs, Mutations) /\ 0 \in Revs
    BY LenProperties DEF Lanes, Lane, Entries, Bounded
<1>2. CASE \E i \in DOMAIN lane.entries : lane.entries[i].optimistic
  <2>1. ~ Present(lane.visible) /\ ~ lane.seen
      BY <1>2 DEF HasOverlay
  <2>2. ~ Present(lane.base)
      BY <2>1 DEF Projects
  <2> QED
      BY <2>1, <2>2 DEF Present
<1>3. CASE \A i \in DOMAIN lane.entries : ~ lane.entries[i].optimistic
  <2>1. \A e \in Entries : IsEntry(e, Mutations)
      BY EntriesAreEntries DEF Entries
  <2>2. Project(lane.base, lane.entries) = lane.base
      BY <1>1, <1>3, <2>1, ProjectPlain
  <2> QED
      BY <2>2 DEF Projects
<1> QED
    BY <1>2, <1>3

\* What a fetch makes of the lane and the row of an entity no event contradicts.
Believed(lane, x) == x # 0 /\ lane.open /\ Accepts(lane, "patched", Row(x))

Rebased(lane, x) ==
    IF Believed(lane, x) THEN AcceptAuthoritative(lane, "patched", Row(x)) ELSE lane

Reshown(id, lane, row, x) ==
    IF /\ Believed(lane, x)
       /\ ProjectionEvents(id, lane.visible, Rebased(lane, x).visible, TRUE) # << >>
    THEN Rebased(lane, x).visible ELSE row

Refetched(id, lane, row, x) ==
    IF HasOverlay(Rebased(lane, x)) \/ IsItemStale(Reshown(id, lane, row, x), Row(x))
    THEN Reshown(id, lane, row, x) ELSE Row(x)

\* What the fetch makes of an entity no event contradicts: the lane and the row then
\* stand on the fetched row, except that a lane keeps its base if there is none.
LEMMA FetchedStands ==
    ASSUME Bounded, NEW id, id \in Id, NEW lane, lane \in Lanes, Projects(lane),
           NEW k, k \in Revs, NEW x, x \in Revs, x # 0 => k <= x,
           NEW far, far \in BOOLEAN, far \/ x # 0 \/ k = 0,
           NEW row, RowShown(lane, row), Stands(lane, row, k, far)
    PROVE  /\ Rebased(lane, x) \in Lanes
           /\ Stands(Rebased(lane, x), Refetched(id, lane, row, x),
                     IF x = 0 /\ lane.open THEN k ELSE x, far)
<1> DEFINE taken == Believed(lane, x)
           after == AcceptAuthoritative(lane, "patched", Row(x))
           lane1 == Rebased(lane, x)
           row1 == Reshown(id, lane, row, x)
           row2 == Refetched(id, lane, row, x)
<1>0. /\ taken <=> x # 0 /\ lane.open /\ Accepts(lane, "patched", Row(x))
      /\ lane1 = IF taken THEN after ELSE lane
      /\ row1 = IF taken /\ ProjectionEvents(id, lane.visible, lane1.visible, TRUE) # << >>
                THEN lane1.visible ELSE row
      /\ row2 = IF HasOverlay(lane1) \/ IsItemStale(row1, Row(x)) THEN row1 ELSE Row(x)
    BY DEF Believed, Rebased, Reshown, Refetched
<1> HIDE DEF taken, after, lane1, row1, row2
<1>1. Row(0) = Absent /\ Row(x).rev = x /\ Row(k).rev = k /\ Revs \subseteq Nat
      /\ Row(x) \in PlainRows /\ (x # 0 => Row(x) # Absent)
  <2>1. Row(x) \in Rows
      BY RowsTyped
  <2> QED
      BY <2>1 DEF Row, Absent, Revs, PlainRows, Plain
<1>2. CASE ~ lane.open
  <2>1. lane1 = lane /\ row1 = row /\ ~ HasOverlay(lane1)
      BY <1>0, <1>2 DEF HasOverlay
  <2>2. row = Row(k) \/ row = Absent
      BY <1>2 DEF Stands
  <2>3. ~ IsItemStale(row1, Row(x))
    <3>1. CASE row = Row(k)
      <4>1. row1.rev = k /\ k \in Nat /\ x \in Nat /\ Row(x).rev = x
          BY <1>1, <2>1, <3>1
      <4> QED
          BY <4>1 DEF IsItemStale
    <3>2. CASE row = Absent
      <4>1. row1.rev = 0
          BY <2>1, <3>2 DEF Absent
      <4> QED
          BY <4>1 DEF IsItemStale
    <3> QED
        BY <2>2, <3>1, <3>2
  <2>4. row2 = Row(x)
      BY <1>0, <2>1, <2>3
  <2> QED
      BY <1>2, <2>1, <2>4 DEF Stands, lane1, row2
<1>3. CASE lane.open /\ x = 0
  <2>1. lane1 = lane /\ row1 = row
      BY <1>0, <1>3
  <2>2. lane.base = Row(k) /\ (row = lane.visible \/ (far /\ row = Absent))
      BY <1>3 DEF Stands
  <2>3. row2 = row \/ (row2 = Absent /\ ~ HasOverlay(lane))
      BY <1>0, <1>1, <1>3, <2>1 DEF IsItemStale
  <2>4. ~ HasOverlay(lane) => lane.visible = Row(k)
      BY <1>3, <2>2, NotOverlaid
  <2>5. row2 = lane.visible \/ (far /\ row2 = Absent)
      BY <1>1, <1>3, <2>2, <2>3, <2>4
  <2> QED
      BY <1>3, <2>1, <2>2, <2>5 DEF Stands, lane1, row2
<1>4. CASE lane.open /\ x # 0
  <2>1. lane.base = Row(k)
      BY <1>4 DEF Stands
  <2>2. taken
      BY <1>0, <1>1, <1>4, <2>1 DEF Accepts, IsItemStale
  <2>3. Takes(after, lane, Row(x), id)
      BY <1>1, <1>4, TakenRow DEF after
  <2>4. after \in Lanes /\ after.open /\ after.base = Row(x) /\ after.entries = lane.entries
        /\ Projects(after)
      BY <2>3 DEF Takes
  <2>5. /\ lane1 = after
        /\ row1 = IF ProjectionEvents(id, lane.visible, after.visible, TRUE) # << >>
                  THEN after.visible ELSE row
      BY <1>0, <2>2
  <2>6. \/ row = lane.visible
        \/ row = Absent /\ ProjectionEvents(id, lane.visible, after.visible, TRUE) # << >>
    <3>1. Plain(after.base) /\ TRUE \in BOOLEAN
        BY <1>1, <2>4 DEF PlainRows
    <3>2. (\A i \in 1 .. Len(lane.entries) : ~ lane.entries[i].optimistic)
          => (\A i \in 1 .. Len(after.entries) : ~ after.entries[i].optimistic)
        BY <2>4
    <3> QED
        BY <1>4, <2>4, <3>1, <3>2, NewBaseShows
  <2>7. ProjectionEvents(id, lane.visible, after.visible, TRUE) = << >>
        => lane.visible = after.visible
    <3> DEFINE newBase == TRUE
    <3>1. lane.visible \in Rows /\ after.visible \in Rows /\ newBase \in BOOLEAN
        BY <2>4 DEF Lanes, Lane, Rows
    <3> HIDE DEF newBase
    <3>2. \A e : << e >> # << >>
        OBVIOUS
    <3>3. \/ lane.visible = after.visible
          \/ \E e \in Events : ProjectionEvents(id, lane.visible, after.visible, newBase) = << e >>
        BY <3>1, ProjectionEventsAre
    <3> QED
        BY <3>2, <3>3 DEF newBase
  <2>8. row1 = after.visible
      BY <2>5, <2>6, <2>7
  <2>9. ~ HasOverlay(after) => after.visible = Row(x)
      BY <2>4, NotOverlaid
  <2>10. row2 = after.visible
      BY <1>0, <2>5, <2>8, <2>9
  <2> QED
      BY <1>4, <2>4, <2>5, <2>10 DEF Stands, lane1, row2
<1> QED
    BY <1>2, <1>3, <1>4

LEMMA EndFetchInStep ==
    ASSUME EntityStoreInvariant, Convergent, EndFetch
    PROVE  Convergent'
<1> DEFINE row(id)   == Row(fetch.rows[id])
           kept      == Journalled(fetch)
           taken     == { id \in Id \ kept : /\ fetch.rows[id] # 0
                                             /\ lanes[id].open
                                             /\ Accepts(lanes[id], "patched", row(id)) }
           lanes1    == [id \in Id |-> IF id \in taken
                                       THEN AcceptAuthoritative(lanes[id], "patched", row(id))
                                       ELSE lanes[id]]
           shown     == { id \in taken : ProjectionEvents(id, lanes[id].visible,
                                                          lanes1[id].visible, TRUE) # << >> }
           cache1    == [id \in Id |-> IF id \in shown THEN lanes1[id].visible ELSE cache[id]]
           overlaid  == { id \in Id : HasOverlay(lanes1[id]) }
           protected == kept \union overlaid
           next(id)  == IF id \in protected \/ IsItemStale(cache1[id], row(id))
                        THEN cache1[id] ELSE row(id)
           lanes2    == [id \in Id |-> IF id \in overlaid THEN Defer(lanes1[id]) ELSE lanes1[id]]
           cache2    == [id \in Id |-> next(id)]
<1>1. /\ lanes' = lanes2 /\ cache' = cache2 /\ ~ fetch'.answered /\ fetch.answered
      /\ UNCHANGED <<setup, calls, server, clock, wire>>
    BY DEF EndFetch, network, Idle
<1> SUFFICES ASSUME Direct, NEW id \in Id PROVE InStep(id)'
    BY <1>1 DEF Convergent, Direct
<1>2. /\ Typed /\ RowsShown(State) /\ ~ setup.batching /\ InStep(id) /\ Bounded
      /\ Projects(lanes[id])
  <2>1. Rests(State, id, calls) /\ State.lanes = lanes /\ Typed /\ Bounded
      BY TypedIs DEF EntityStoreInvariant, LanesRest
  <2> QED
      BY <2>1 DEF EntityStoreInvariant, Convergent, Direct, Rests
<1> DEFINE C == Coming(wire, id, calls)
           R == Stamps(wire)
           V == Values(wire, calls)
           now == server[id]
           k == Known(id)
           x == fetch.rows[id]
           log == fetch.log[id]
           far == C # {}
           lane == lanes[id]
           isTaken == id \in taken
           lane1 == lanes1[id]
           row1 == cache1[id]
<1>3. /\ C \subseteq Nat /\ now \in Nat /\ clock \in Nat /\ k \in Nat /\ x \in Nat
      /\ log \subseteq Nat /\ News(C, R, V, now, clock) /\ Knows(C, now, clock, k)
      /\ ShowsLane(lane, cache[id], far) /\ far \in BOOLEAN
      /\ lane \in Lanes
  <2> HIDE DEF C, R, V, now, k, x, log
  <2> QED
      BY <1>2, EntityTyped DEF C, R, V, now, k, x, log
<1>4. Asks(C, R, V, now, clock, k, x, log)
    BY <1>1, <1>2 DEF InStep, InStepWith, Known
<1>5. /\ Stands(lane, cache[id], k, far) /\ RowShown(lane, cache[id]) /\ k \in Revs /\ x \in Revs
  <2>1. x \in Revs
    <3>1. fetch \in Fetches
        BY <1>2, TypedIs
    <3> QED
        BY <3>1 DEF Fetches
  <2> HIDE DEF C, x
  <2> QED
      BY <1>2, <1>3, <2>1, KnownStands DEF lane, k
<1>6. id \in kept <=> Against(x, log)
  <2>1. \A r \in log : ~ IsItemStale(Row(x), Row(r)) <=> x = 0 \/ r = 0 \/ r >= x
    <3>1. \A r \in log : r \in Nat
        BY <1>3
    <3> HIDE DEF x, log
    <3> QED
        BY <1>3, <3>1 DEF IsItemStale, Row
  <2>2. id \in kept <=> \E r \in log : ~ IsItemStale(Row(x), Row(r))
      BY DEF Journalled
  <2> HIDE DEF kept, x, log
  <2> QED
      BY <2>1, <2>2 DEF Against
<1>7. k = KnownOf(lane, cache[id])
    BY DEF Known
<1>8. ASSUME Against(x, log) PROVE InStepWith(C, R, V, now, clock, lanes2[id], cache2[id], fetch', id)
  <2>1. lane1 = lane /\ row1 = cache[id] /\ cache2[id] = cache[id]
      BY <1>6, <1>8
  <2>2. SameLane(lane, lanes2[id])
      BY <2>1 DEF SameLane, HasOverlay
  <2> HIDE DEF lanes2, cache2, C, R, V, now, k
  <2>3. KnownOf(lanes2[id], cache2[id]) = k /\ ShowsLane(lanes2[id], cache2[id], far)
      BY <1>3, <1>7, <2>1, <2>2, SameLaneShows
  <2> QED
      BY <1>1, <1>3, <2>3 DEF InStepWith
<1>9. ASSUME ~ Against(x, log)
      PROVE  InStepWith(C, R, V, now, clock, lanes2[id], cache2[id], fetch', id)
  <2> DEFINE b == IF x = 0 /\ lane.open THEN k ELSE x
  <2>1. Knows(C, now, clock, x) /\ (x # 0 => k <= x)
    <3> HIDE DEF C, R, V, now, k, x, log
    <3> QED
        BY <1>3, <1>4, <1>9, AskedIsKnown
  <2>2. far \/ x # 0 \/ k = 0
    <3> HIDE DEF x, now, k, log, R, V
    <3> QED
        BY <1>3, <1>4, <1>9 DEF Asks, Knows
  <2>3. id \notin kept
      BY <1>6, <1>9
  <2> HIDE DEF kept
  <2>4. /\ isTaken <=> (x # 0 /\ lane.open /\ Accepts(lane, "patched", Row(x)))
        /\ lane1 = IF isTaken THEN AcceptAuthoritative(lane, "patched", Row(x)) ELSE lane
        /\ row1 = IF isTaken /\ ProjectionEvents(id, lane.visible, lane1.visible, TRUE) # << >>
                  THEN lane1.visible ELSE cache[id]
        /\ cache2[id] = IF HasOverlay(lane1) \/ IsItemStale(row1, Row(x)) THEN row1 ELSE Row(x)
        /\ lanes2[id] = IF HasOverlay(lane1) THEN Defer(lane1) ELSE lane1
    <3>1. isTaken <=> (x # 0 /\ lane.open /\ Accepts(lane, "patched", Row(x)))
        BY <2>3
    <3> HIDE DEF taken
    <3>2. lane1 = IF isTaken THEN AcceptAuthoritative(lane, "patched", Row(x)) ELSE lane
        OBVIOUS
    <3> HIDE DEF lanes1
    <3>3. row1 = IF isTaken /\ ProjectionEvents(id, lane.visible, lane1.visible, TRUE) # << >>
                 THEN lane1.visible ELSE cache[id]
        OBVIOUS
    <3> HIDE DEF cache1
    <3>4. /\ cache2[id] = IF HasOverlay(lane1) \/ IsItemStale(row1, Row(x)) THEN row1 ELSE Row(x)
          /\ lanes2[id] = IF HasOverlay(lane1) THEN Defer(lane1) ELSE lane1
        BY <2>3
    <3> QED
        BY <3>1, <3>2, <3>3, <3>4
  <2> HIDE DEF taken, lanes1, cache1, lanes2, cache2, C, R, V, now, k, x, log, lane, isTaken
  <2>5. lane1 \in Lanes /\ Stands(lane1, cache2[id], b, far)
    <3>0. /\ Bounded /\ id \in Id /\ lane \in Lanes /\ Projects(lane)
          /\ k \in Revs /\ x \in Revs /\ (x # 0 => k <= x)
          /\ far \in BOOLEAN /\ (far \/ x # 0 \/ k = 0)
          /\ RowShown(lane, cache[id]) /\ Stands(lane, cache[id], k, far)
        BY <1>2, <1>3, <1>5, <2>1, <2>2 DEF lane
    <3>1. lane1 = Rebased(lane, x) /\ cache2[id] = Refetched(id, lane, cache[id], x)
        BY <2>4 DEF Believed, Rebased, Reshown, Refetched
    <3> HIDE DEF far, lane1
    <3> QED
        BY <3>0, <3>1, FetchedStands
  <2> HIDE DEF lane1, row1
  <2>6. b \in Nat /\ Knows(C, now, clock, b)
      BY <1>3, <2>1
  <2> HIDE DEF b
  <2>7. /\ KnownOf(lane1, cache2[id]) = b \/ (far /\ KnownOf(lane1, cache2[id]) = 0)
        /\ ShowsLane(lane1, cache2[id], far)
      BY <1>3, <2>5, <2>6, StandsShows
  <2>8. Knows(C, now, clock, KnownOf(lane1, cache2[id]))
    <3>1. CASE KnownOf(lane1, cache2[id]) = b
        BY <2>6, <3>1
    <3>2. CASE far /\ KnownOf(lane1, cache2[id]) = 0
      <4>1. Knows(C, now, clock, 0)
        <5>1. now \in Nat /\ clock \in Nat /\ C # {}
            BY <1>3, <3>2
        <5> QED
            BY ONLY <5>1 DEF Knows
      <4> QED
          BY <3>2, <4>1
    <3> QED
        BY <2>7, <3>1, <3>2
  <2>9. SameLane(lane1, lanes2[id])
      BY <2>4 DEF SameLane, HasOverlay
  <2>10. /\ KnownOf(lanes2[id], cache2[id]) = KnownOf(lane1, cache2[id])
         /\ ShowsLane(lanes2[id], cache2[id], far)
      BY <2>5, <2>7, <2>9, SameLaneShows
  <2> QED
      BY <1>1, <1>3, <2>8, <2>10 DEF InStepWith
<1> HIDE DEF lanes2, cache2
<1>10. InStepWith(Coming(wire', id, calls'), Stamps(wire'), Values(wire', calls'),
                  server'[id], clock', lanes'[id], cache'[id], fetch', id)
    BY <1>1, <1>8, <1>9
<1> QED
    BY <1>10 DEF InStep

\* Where events are applied as they come, no timer has any to apply.
LEMMA BatchTimerInStep ==
    ASSUME EntityStoreInvariant, Convergent, BatchTimer
    PROVE  Convergent'
<1>1. queue # << >> /\ setup' = setup
    BY DEF BatchTimer, Become
<1>2. ~ setup.batching => queue = << >>
    BY TypedIs DEF EntityStoreInvariant, RowsShown
<1> QED
    BY <1>1, <1>2 DEF Convergent, Direct

LEMMA StutterInStep ==
    ASSUME Convergent, UNCHANGED vars
    PROVE  Convergent'
<1>1. UNCHANGED <<setup, lanes, cache, calls, server, clock, wire, fetch>>
    BY DEF vars, client, network
<1>2. ASSUME Direct, NEW id \in Id PROVE InStep(id)'
  <2>1. InStepWith(Coming(wire, id, calls), Stamps(wire), Values(wire, calls),
                   server[id], clock, lanes[id], cache[id], fetch, id)
      BY <1>2 DEF Convergent, InStep
  <2>2. InStepWith(Coming(wire', id, calls'), Stamps(wire'), Values(wire', calls'),
                   server'[id], clock', lanes'[id], cache'[id], fetch', id)
      BY <1>1, <2>1
  <2> QED
      BY <2>2 DEF InStep
<1> QED
    BY <1>1, <1>2 DEF Convergent, Direct

LEMMA InitInStep ==
    ASSUME Init
    PROVE  Convergent
<1>1. /\ server \in [Id -> {0, 1}] /\ clock = 1 /\ wire = << >> /\ fetch = Idle
      /\ cache = [id \in Id |-> Row(server[id])] /\ lanes = [id \in Id |-> NoLane]
    BY DEF Init
<1>2. ~ fetch.answered
    BY <1>1 DEF Idle
<1>3. ASSUME NEW id \in Id PROVE InStep(id)
  <2>1. Coming(wire, id, calls) = {}
    <3>1. Len(wire) = 0
        BY <1>1
    <3> QED
        BY <3>1 DEF Coming
  <2>2. KnownOf(lanes[id], cache[id]) = server[id] /\ ~ lanes[id].open
      BY <1>1 DEF KnownOf, NoLane, Row, Absent
  <2>3. server[id] \in {0, 1}
      BY <1>1
  <2>4. InStepWith({}, Stamps(wire), Values(wire, calls), server[id], clock,
                   lanes[id], cache[id], fetch, id)
      BY <1>1, <1>2, <2>2, <2>3 DEF InStepWith, News, Knows, ShowsLane
  <2> QED
      BY <2>1, <2>4 DEF InStep
<1> QED
    BY <1>2, <1>3 DEF Convergent

LEMMA NextInStep ==
    ASSUME EntityStoreInvariant, Convergent, [Next]_vars
    PROVE  Convergent'
<1>1. ASSUME NEW id \in setup.ids, NEW method \in setup.methods, NEW optimistic \in BOOLEAN,
             Call(id, method, optimistic)
      PROVE  Convergent'
    BY <1>1, CallInStep
<1>2. ASSUME NEW i \in Deliverable, Deliver(i) PROVE Convergent'
    BY <1>2, DeliverInStep
<1>3. CASE BatchTimer
    BY <1>3, BatchTimerInStep
<1>4. CASE BeginFetch
    BY <1>4, BeginFetchInStep
<1>5. CASE EndFetch
    BY <1>5, EndFetchInStep
<1>6. ASSUME NEW m \in DOMAIN calls, Handle(m) PROVE Convergent'
    BY <1>6, HandleInStep
<1>7. ASSUME NEW id \in setup.ids, NEW method \in setup.methods, Remote(id, method)
      PROVE  Convergent'
    BY <1>7, RemoteInStep
<1>8. CASE AnswerFetch
    BY <1>8, AnswerFetchInStep
<1>9. CASE UNCHANGED vars
    BY <1>9, StutterInStep
<1> QED
    BY <1>1, <1>2, <1>3, <1>4, <1>5, <1>6, <1>7, <1>8, <1>9 DEF Next

\* At rest nothing is on the wire, so what the client knows is what the server has;
\* no lane is open, so the row shows it.
LEMMA RestIsConverged ==
    ASSUME EntityStoreInvariant, Convergent
    PROVE  Converged
<1> SUFFICES ASSUME Direct, Quiescent, NEW id \in Id PROVE cache[id] = Row(server[id])
    BY DEF Converged
<1>1. Typed /\ RowsShown(State) /\ ~ setup.batching /\ ~ lanes[id].open /\ wire = << >>
    BY DEF EntityStoreInvariant, Direct, Quiescent
<1>2. Coming(wire, id, calls) = {}
  <2>1. Len(wire) = 0
      BY <1>1
  <2> QED
      BY <2>1 DEF Coming
<1>3. Knows({}, server[id], clock, Known(id)) /\ ShowsLane(lanes[id], cache[id], FALSE)
    BY <1>1, <1>2 DEF Convergent, InStep, InStepWith, Known, ShowsLane
<1>4. Known(id) = server[id]
    BY <1>3 DEF Knows
<1>5. cache[id] = Row(Known(id))
    BY <1>1, <1>3, KnownStands
<1> QED
    BY <1>4, <1>5

\* Where events are applied as they come and answers do not overtake them, whatever
\* the interleaving of calls, answers, broadcasts, other clients' writes and fetches,
\* what is left when everything has been delivered and settled is the server's state:
\* no stale answer, late event or rebased fetch leaves a row behind, although the
\* reconciliation that would repair it may still be owed.
THEOREM CacheConverges == Spec => []Converged
<1>1. Init => EntityStoreInvariant /\ Convergent
    BY InitInvariant, InitInStep
<1>2. EntityStoreInvariant /\ Convergent /\ [Next]_vars
      => (EntityStoreInvariant /\ Convergent)'
    BY NextInvariant, NextInStep
<1>3. EntityStoreInvariant /\ Convergent => Converged
    BY RestIsConverged
<1> QED
    BY <1>1, <1>2, <1>3, PTL DEF Spec
=============================================================================
