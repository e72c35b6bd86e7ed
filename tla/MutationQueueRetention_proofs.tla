-------------------- MODULE MutationQueueRetention_proofs --------------------
(***************************************************************************)
(* Proofs about the keyed mutation queues and the hooks that hold them,    *)
(* for any components, keys and bounds: owners can use their queue,        *)
(* failures stay within reach, and unfinished work keeps its place.        *)
(***************************************************************************)
EXTENDS MutationQueueRetention, SequenceTheorems, TLAPS

-----------------------------------------------------------------------------
(* The inductive invariant, over a state of the registry and the hooks.    *)

Hook == [phase : {"out", "rendered", "mounted", "hidden", "crashed"}, queue : Nat,
         hid : BOOLEAN]

RetentionState ==
    [queues : Seq(Queue), registered : Nat, hook : [Components -> Hook]]

Own(c) == c \in Components \ Keyed

\* The queue a component holds, and whether it is among that queue's owners.
Holds(s, c, q) == s.hook[c].queue = q

Owns(s, c) == c \in s.queues[s.hook[c].queue].owners

\* Components hold queues there are, owners hold what they own, and what a
\* component without the key holds is nobody else's.
Placed(s) ==
    /\ s.registered = None \/ s.registered \in DOMAIN s.queues
    /\ \A c \in Components :
          IF s.hook[c].phase = "out" THEN s.hook[c].queue = None
          ELSE s.hook[c].queue \in DOMAIN s.queues
    /\ \A q \in DOMAIN s.queues : \A c \in s.queues[q].owners :
          c \in Components /\ s.hook[c].queue = q
    /\ \A c \in Components : Own(c) /\ s.hook[c].phase # "out" =>
          /\ s.registered # s.hook[c].queue
          /\ \A d \in Components : d # c => s.hook[d].queue # s.hook[c].queue

\* The owners of a keyed queue own the registered one, which is not detached; no
\* detached queue is left with a failure.
Registered(s) ==
    /\ \A q \in DOMAIN s.queues : \A c \in s.queues[q].owners :
          c \in Keyed => s.registered = q
    /\ s.registered # None => ~s.queues[s.registered].detached
    /\ \A q \in DOMAIN s.queues : s.queues[q].status = "failed" => ~s.queues[q].detached

\* Mounted components own their queue, those in going and coming perhaps not yet
\* or not any more.
Mounted(s, going, coming) ==
    \A c \in Components :
       /\ c \notin going \cup coming /\ s.hook[c].phase # "out" =>
             (s.hook[c].phase = "mounted" <=> Owns(s, c))
       /\ s.hook[c].phase = "rendered" => ~s.hook[c].hid
       /\ s.hook[c].phase = "hidden" => s.hook[c].hid

\* The queue of a component without the key is detached when the component is
\* hidden for the first time, and unused before it is shown.
Private(s, going, coming) ==
    \A c \in Components : Own(c) =>
       /\ s.hook[c].phase # "crashed"
       /\ c \notin going /\ s.hook[c].phase # "out" /\ ~s.hook[c].hid =>
             ~s.queues[s.hook[c].queue].detached
       /\ c \notin going \cup coming /\ s.hook[c].phase = "hidden" =>
             s.queues[s.hook[c].queue].detached
       /\ c \notin going \cup coming /\ s.hook[c].phase = "rendered" =>
             /\ ~s.queues[s.hook[c].queue].given
             /\ s.queues[s.hook[c].queue].status = "idle"

\* Work that is not detached is registered, or of a component that is there.
Reachable(s, loose, going) ==
    \A q \in DOMAIN s.queues \ loose :
       s.queues[q].status # "idle" /\ ~s.queues[q].detached =>
          \/ s.registered = q
          \/ \E c \in Components : /\ Own(c) /\ s.hook[c].queue = q
                                   /\ s.hook[c].phase = "mounted" \/ c \in going

Sound(s, loose, going, coming) ==
    /\ s \in RetentionState
    /\ Placed(s) /\ Registered(s)
    /\ Mounted(s, going, coming) /\ Private(s, going, coming) /\ Reachable(s, loose, going)

IInv == Sound(State, stale, {}, {})

\* From s to t the registered queue, when it has unfinished work, keeps its place
\* and its status.
Keeps(s, t) ==
    s.registered # None /\ s.queues[s.registered].status # "idle" =>
       /\ t.registered = s.registered
       /\ t.queues[s.registered].status = s.queues[s.registered].status

-----------------------------------------------------------------------------
(* The steps of the registry and of the hook.                              *)

\* A queue in a state is a queue.
LEMMA QueueTyped ==
    ASSUME NEW s \in RetentionState, NEW q \in DOMAIN s.queues
    PROVE  s.queues[q] \in Queue /\ q \in Nat /\ q # None
BY ElementOfSeq, LenProperties DEF RetentionState, None

\* Replacing one queue leaves everything else alone.
LEMMA QueueReplaced ==
    ASSUME NEW s \in RetentionState, NEW q \in DOMAIN s.queues, NEW r \in Queue
    PROVE  LET t == [s EXCEPT !.queues[q] = r]
           IN  /\ t \in RetentionState
               /\ t.hook = s.hook /\ t.registered = s.registered
               /\ DOMAIN t.queues = DOMAIN s.queues
               /\ t.queues[q] = r
               /\ \A p \in DOMAIN s.queues : p # q => t.queues[p] = s.queues[p]
<1> DEFINE qs == [s.queues EXCEPT ![q] = r]
<1>1. s.queues \in Seq(Queue)
  BY DEF RetentionState
<1>2. qs \in Seq(Queue)
  BY <1>1, ExceptSeq
<1>3. DOMAIN qs = DOMAIN s.queues /\ qs[q] = r
  BY <1>1
<1>4. \A p \in DOMAIN s.queues : p # q => qs[p] = s.queues[p]
  BY <1>1
<1> HIDE DEF qs
<1> DEFINE t == [s EXCEPT !.queues = qs]
<1>5. t \in RetentionState /\ t.hook = s.hook /\ t.registered = s.registered /\ t.queues = qs
  BY <1>2 DEF RetentionState
<1>6. [s EXCEPT !.queues[q] = r] = t
  BY DEF qs
<1> HIDE DEF t
<1> QED
  BY <1>3, <1>4, <1>5, <1>6

\* A sound state stays sound when more components are said to be going or coming, or
\* more queues to be loose.
LEMMA SoundIsMonotone ==
    ASSUME NEW s, NEW loose, NEW more, NEW g, NEW k, NEW h, NEW l,
           Sound(s, loose, g, k), loose \subseteq more, g \subseteq h, k \subseteq l
    PROVE  Sound(s, more, h, l)
BY DEF Sound, Mounted, Private, Reachable

\* Queues of which only status, detachment or timer changed, in a state that is
\* otherwise the same.
SameHooks(s, t) ==
    /\ t \in RetentionState
    /\ t.hook = s.hook
    /\ DOMAIN t.queues = DOMAIN s.queues
    /\ \A p \in DOMAIN s.queues :
          t.queues[p].owners = s.queues[p].owners /\ t.queues[p].given = s.queues[p].given

\* The same queues, with no new owners but c.
OwnersAdd(s, t, c) ==
    /\ DOMAIN t.queues = DOMAIN s.queues
    /\ \A p \in DOMAIN s.queues : t.queues[p].owners \subseteq s.queues[p].owners \cup {c}

\* Every other queue is as it was.
Elsewhere(s, t, q) ==
    \A p \in DOMAIN s.queues : p # q => t.queues[p] = s.queues[p]

\* What detaching does.
LEMMA DetachDoes ==
    ASSUME NEW s \in RetentionState, NEW q \in DOMAIN s.queues
    PROVE  LET t == Detach(s, q)
           IN  /\ SameHooks(s, t) /\ Elsewhere(s, t, q)
               /\ t.registered = s.registered
               /\ t.queues[q].detached
               /\ t.queues[q].status # "failed"
               /\ s.queues[q].status = "idle" => t.queues[q].status = "idle"
<1> DEFINE r == [s.queues[q] EXCEPT
                   !.detached = TRUE,
                   !.status = IF s.queues[q].status = "failed" THEN "idle" ELSE s.queues[q].status]
<1>1. s.queues[q] \in Queue
  BY QueueTyped
<1>2. /\ r \in Queue /\ r.owners = s.queues[q].owners /\ r.given = s.queues[q].given
      /\ r.detached /\ r.status # "failed"
      /\ s.queues[q].status = "idle" => r.status = "idle"
  BY <1>1 DEF Queue
<1>3. Detach(s, q) = [s EXCEPT !.queues[q] = r]
  BY <1>1 DEF Detach, Queue, RetentionState
<1> HIDE DEF r
<1> QED
  BY <1>2, <1>3, QueueReplaced DEF SameHooks, Elsewhere

\* What eviction does to the registered queue when nobody owns it; it leaves every
\* other queue alone.
LEMMA EvictDoes ==
    ASSUME NEW s \in RetentionState, NEW q \in DOMAIN s.queues
    PROVE  LET t == Evict(s, q)
           IN  /\ SameHooks(s, t) /\ Elsewhere(s, t, q)
               /\ s.queues[q].owners # {} \/ s.registered # q => t = s
               /\ s.queues[q].owners = {} /\ s.registered = q =>
                     /\ t.registered = None
                     /\ t.queues[q].status # "failed"
                     /\ t.queues[q].status # "idle" => t.queues[q].detached
<1>1. CASE s.queues[q].owners # {} \/ s.registered # q
  BY <1>1 DEF Evict, SameHooks, Elsewhere
<1>2. CASE s.queues[q].owners = {} /\ s.registered = q
  <2> DEFINE r == [s.queues[q] EXCEPT !.timer = FALSE]
             u == [s EXCEPT !.registered = None]
             gone == [u EXCEPT !.queues[q] = r]
  <2>1. s.queues[q] \in Queue
    BY QueueTyped
  <2>2. /\ r \in Queue /\ r.owners = s.queues[q].owners /\ r.given = s.queues[q].given
        /\ r.status = s.queues[q].status
    BY <2>1 DEF Queue
  <2>3. u \in RetentionState /\ u.hook = s.hook /\ u.queues = s.queues /\ u.registered = None
    BY DEF RetentionState, None
  <2>4. gone = [s EXCEPT !.registered = None, !.queues[q].timer = FALSE]
    BY DEF RetentionState
  <2> HIDE DEF r, u
  <2>5. /\ gone \in RetentionState /\ gone.hook = s.hook /\ gone.registered = None
        /\ DOMAIN gone.queues = DOMAIN s.queues /\ gone.queues[q] = r
        /\ \A p \in DOMAIN s.queues : p # q => gone.queues[p] = s.queues[p]
    BY <2>2, <2>3, QueueReplaced
  <2> HIDE DEF gone
  <2>6. Evict(s, q) = IF s.queues[q].status = "idle" THEN gone ELSE Detach(gone, q)
    BY <1>2, <2>4 DEF Evict
  <2>7. CASE s.queues[q].status = "idle"
    BY <1>2, <2>2, <2>5, <2>6, <2>7 DEF SameHooks, Elsewhere
  <2>8. CASE s.queues[q].status # "idle"
    <3> DEFINE t == Detach(gone, q)
    <3>1. /\ SameHooks(gone, t) /\ Elsewhere(gone, t, q) /\ t.registered = gone.registered
          /\ t.queues[q].detached /\ t.queues[q].status # "failed"
      BY <2>5, DetachDoes
    <3> HIDE DEF t
    <3>2. SameHooks(s, t) /\ Elsewhere(s, t, q)
      BY <2>2, <2>5, <3>1 DEF SameHooks, Elsewhere
    <3>3. Evict(s, q) = t
      BY <2>6, <2>8 DEF t
    <3> QED
      BY <1>2, <2>5, <3>1, <3>2, <3>3
  <2> QED
    BY <2>7, <2>8
<1> QED
  BY <1>1, <1>2

\* Eviction keeps a sound state sound, and loses no unfinished work but that of the
\* queue it is asked to evict.
LEMMA EvictIsSound ==
    ASSUME NEW s, NEW loose, NEW going, NEW coming, Sound(s, loose, going, coming),
           NEW q \in DOMAIN s.queues
    PROVE  LET t == Evict(s, q)
           IN  /\ Sound(t, loose, going, coming) /\ SameHooks(s, t)
               /\ s.registered # q \/ s.queues[q].owners # {} \/ s.queues[q].status = "idle"
                     => Keeps(s, t)
<1> DEFINE t == Evict(s, q)
<1>1. s \in RetentionState
  BY DEF Sound
<1>2. /\ SameHooks(s, t) /\ Elsewhere(s, t, q)
      /\ s.queues[q].owners # {} \/ s.registered # q => t = s
      /\ s.queues[q].owners = {} /\ s.registered = q =>
            /\ t.registered = None
            /\ t.queues[q].status # "failed"
            /\ t.queues[q].status # "idle" => t.queues[q].detached
  BY <1>1, EvictDoes
<1> HIDE DEF t
<1>3. CASE s.queues[q].owners # {} \/ s.registered # q
  BY <1>2, <1>3 DEF Keeps, t
<1>4. CASE s.queues[q].owners = {} /\ s.registered = q
  <2>1. /\ t \in RetentionState /\ t.hook = s.hook /\ DOMAIN t.queues = DOMAIN s.queues
        /\ t.registered = None
        /\ \A p \in DOMAIN s.queues : t.queues[p].owners = s.queues[p].owners
        /\ \A p \in DOMAIN s.queues : p # q => t.queues[p] = s.queues[p]
        /\ t.queues[q].status # "failed"
        /\ t.queues[q].status # "idle" => t.queues[q].detached
    BY <1>2, <1>4 DEF SameHooks, Elsewhere
  <2>2. \A c \in Components : Own(c) /\ s.hook[c].phase # "out" => s.hook[c].queue # q
    BY <1>4 DEF Sound, Placed
  <2>3. \A c \in Components : s.hook[c].phase # "out" => s.hook[c].queue \in DOMAIN s.queues
    BY DEF Sound, Placed
  <2>4. Placed(t)
    <3>1. Placed(s)
      BY DEF Sound
    <3>2. \A c \in Components : IF t.hook[c].phase = "out" THEN t.hook[c].queue = None
                                ELSE t.hook[c].queue \in DOMAIN t.queues
      <4>1. t.hook = s.hook /\ DOMAIN t.queues = DOMAIN s.queues
        BY <2>1
      <4>2. \A c \in Components : IF s.hook[c].phase = "out" THEN s.hook[c].queue = None
                                  ELSE s.hook[c].queue \in DOMAIN s.queues
        BY ONLY <3>1 DEF Placed
      <4> QED
        BY ONLY <4>1, <4>2
    <3>3. \A p \in DOMAIN t.queues : \A c \in t.queues[p].owners :
             c \in Components /\ t.hook[c].queue = p
      <4> SUFFICES ASSUME NEW p \in DOMAIN t.queues, NEW c \in t.queues[p].owners
                   PROVE  c \in Components /\ t.hook[c].queue = p
        OBVIOUS
      <4>1. p \in DOMAIN s.queues /\ c \in s.queues[p].owners
        BY <2>1
      <4> QED
        BY <2>1, <3>1, <4>1 DEF Placed
    <3>4. \A c \in Components : Own(c) /\ t.hook[c].phase # "out" =>
             /\ t.registered # t.hook[c].queue
             /\ \A d \in Components : d # c => t.hook[d].queue # t.hook[c].queue
      BY <2>1, <2>3, <3>1, <1>1, QueueTyped DEF Placed
    <3> QED
      BY <2>1, <3>2, <3>3, <3>4 DEF Placed
  <2>5. Registered(t)
    BY <1>4, <2>1 DEF Sound, Registered, None
  <2>6. Mounted(t, going, coming)
    BY <2>1, <2>3 DEF Sound, Mounted, Owns
  <2>7. Private(t, going, coming)
    BY <2>1, <2>2, <2>3 DEF Sound, Private
  <2>8. Reachable(t, loose, going)
    BY <1>4, <2>1 DEF Sound, Reachable
  <2>9. s.queues[q].status = "idle" => Keeps(s, t)
    BY <1>4 DEF Keeps
  <2> QED
    BY <1>2, <1>4, <2>1, <2>4, <2>5, <2>6, <2>7, <2>8, <2>9 DEF Sound, t
<1> QED
  BY <1>3, <1>4 DEF t

\* Changing one component's hook leaves everything else alone.
LEMMA HookReplaced ==
    ASSUME NEW s \in RetentionState, NEW c \in Components, NEW h \in Hook
    PROVE  LET t == [s EXCEPT !.hook[c] = h]
           IN  /\ t \in RetentionState
               /\ t.queues = s.queues /\ t.registered = s.registered
               /\ t.hook[c] = h
               /\ \A d \in Components : d # c => t.hook[d] = s.hook[d]
BY DEF RetentionState

\* The owners of a queue are changed to those who hold it: that is sound when those
\* who are added or taken away are going or coming.
LEMMA OwnersChange ==
    ASSUME NEW s, NEW loose, NEW going, NEW coming, Sound(s, loose, going, coming),
           NEW c \in going \cup coming, c \in Components, s.hook[c].phase # "out",
           NEW r \in Queue,
           r.owners \subseteq s.queues[s.hook[c].queue].owners \cup {c},
           s.queues[s.hook[c].queue].owners \subseteq r.owners \cup {c},
           c \in r.owners /\ c \in Keyed => s.registered = s.hook[c].queue,
           r.status = s.queues[s.hook[c].queue].status,
           r.detached = s.queues[s.hook[c].queue].detached
    PROVE  LET t == [s EXCEPT !.queues[s.hook[c].queue] = r]
           IN  Sound(t, loose, going, coming) /\ Keeps(s, t)
<1> DEFINE q == s.hook[c].queue
           t == [s EXCEPT !.queues[q] = r]
<1>1. s \in RetentionState /\ q \in DOMAIN s.queues /\ Placed(s)
  BY DEF Sound, Placed
<1>2. /\ t \in RetentionState /\ t.hook = s.hook /\ t.registered = s.registered
      /\ DOMAIN t.queues = DOMAIN s.queues
      /\ t.queues[q] = r
      /\ \A p \in DOMAIN s.queues : p # q => t.queues[p] = s.queues[p]
  BY <1>1, QueueReplaced
<1> HIDE DEF t
<1>3. \A p \in DOMAIN s.queues : /\ t.queues[p].status = s.queues[p].status
                                 /\ t.queues[p].detached = s.queues[p].detached
  BY <1>2
<1>4. \A d \in Components : s.hook[d].phase # "out" => s.hook[d].queue \in DOMAIN s.queues
  BY <1>1 DEF Placed
<1>5. Placed(t)
  <2>1. \A p \in DOMAIN t.queues : \A d \in t.queues[p].owners :
           d \in Components /\ t.hook[d].queue = p
    <3> SUFFICES ASSUME NEW p \in DOMAIN t.queues, NEW d \in t.queues[p].owners
                 PROVE  d \in Components /\ t.hook[d].queue = p
      OBVIOUS
    <3>1. CASE p = q
      BY <1>1, <1>2, <3>1 DEF Placed
    <3>2. CASE p # q
      BY <1>1, <1>2, <3>2 DEF Placed
    <3> QED
      BY <3>1, <3>2
  <2>2. \A d \in Components : IF t.hook[d].phase = "out" THEN t.hook[d].queue = None
                              ELSE t.hook[d].queue \in DOMAIN t.queues
    BY <1>1, <1>2 DEF Placed
  <2>3. \A d \in Components : Own(d) /\ t.hook[d].phase # "out" =>
           /\ t.registered # t.hook[d].queue
           /\ \A e \in Components : e # d => t.hook[e].queue # t.hook[d].queue
    BY <1>1, <1>2 DEF Placed
  <2> QED
    BY <1>1, <1>2, <2>1, <2>2, <2>3 DEF Placed
<1>6. Registered(t)
  <2>1. \A p \in DOMAIN t.queues : \A d \in t.queues[p].owners : d \in Keyed => t.registered = p
    <3> SUFFICES ASSUME NEW p \in DOMAIN t.queues, NEW d \in t.queues[p].owners, d \in Keyed
                 PROVE  t.registered = p
      OBVIOUS
    <3>1. CASE p = q
      BY <1>2, <3>1 DEF Sound, Registered
    <3>2. CASE p # q
      BY <1>2, <3>2 DEF Sound, Registered
    <3> QED
      BY <3>1, <3>2
  <2>2. s.registered # None => ~t.queues[s.registered].detached
    BY <1>1, <1>3 DEF Sound, Registered, Placed
  <2>3. \A p \in DOMAIN s.queues : t.queues[p].status = "failed" => ~t.queues[p].detached
    BY <1>3 DEF Sound, Registered
  <2> QED
    BY <1>2, <2>1, <2>2, <2>3 DEF Registered
<1>7. Mounted(t, going, coming)
  <2> SUFFICES ASSUME NEW d \in Components
               PROVE  /\ d \notin going \cup coming /\ t.hook[d].phase # "out" =>
                            (t.hook[d].phase = "mounted" <=> Owns(t, d))
                      /\ t.hook[d].phase = "rendered" => ~t.hook[d].hid
                      /\ t.hook[d].phase = "hidden" => t.hook[d].hid
    BY DEF Mounted
  <2>1. d # c /\ s.hook[d].phase # "out" => (Owns(t, d) <=> Owns(s, d))
    BY <1>2, <1>4 DEF Owns
  <2> QED
    BY <1>2, <2>1 DEF Sound, Mounted
<1>8. Private(t, going, coming)
  <2>1. \A d \in Components : d # c /\ Own(d) /\ s.hook[d].phase # "out" =>
           t.queues[s.hook[d].queue] = s.queues[s.hook[d].queue]
    BY <1>1, <1>2, <1>4 DEF Placed
  <2> SUFFICES ASSUME NEW d \in Components, Own(d)
               PROVE  /\ t.hook[d].phase # "crashed"
                      /\ d \notin going /\ t.hook[d].phase # "out" /\ ~t.hook[d].hid =>
                            ~t.queues[t.hook[d].queue].detached
                      /\ d \notin going \cup coming /\ t.hook[d].phase = "hidden" =>
                            t.queues[t.hook[d].queue].detached
                      /\ d \notin going \cup coming /\ t.hook[d].phase = "rendered" =>
                            /\ ~t.queues[t.hook[d].queue].given
                            /\ t.queues[t.hook[d].queue].status = "idle"
    BY DEF Private
  <2>2. Private(s, going, coming)
    BY DEF Sound
  <2>3. CASE d = c
    BY <1>2, <1>3, <1>4, <2>2, <2>3 DEF Private
  <2>4. CASE d # c
    BY <1>2, <2>1, <2>2, <2>4 DEF Private
  <2> QED
    BY <2>3, <2>4
<1>9. Reachable(t, loose, going)
  BY <1>2, <1>3 DEF Sound, Reachable
<1>10. Keeps(s, t)
  BY <1>1, <1>2, <1>3 DEF Keeps, Placed
<1> QED
  BY <1>2, <1>5, <1>6, <1>7, <1>8, <1>9, <1>10 DEF Sound, t, q

\* A cleanup: the component is no longer an owner.
LEMMA CleanupIsSound ==
    ASSUME NEW s, NEW loose, NEW going, NEW coming, Sound(s, loose, going, coming),
           NEW c \in going \cup coming, c \in Components, s.hook[c].phase # "out"
    PROVE  LET t == RunCleanup(s, c)
           IN  /\ Sound(t, loose, going, coming) /\ Keeps(s, t)
               /\ t.hook = s.hook /\ t.registered = s.registered
               /\ ~Owns(t, c) /\ OwnersAdd(s, t, c)
<1> DEFINE q == s.hook[c].queue
           r == [s.queues[q] EXCEPT !.owners = s.queues[q].owners \ {c}]
           t == [s EXCEPT !.queues[q] = r]
<1>1. s \in RetentionState /\ q \in DOMAIN s.queues
  BY DEF Sound, Placed
<1>2. s.queues[q] \in Queue
  BY <1>1, QueueTyped
<1>3. /\ r \in Queue /\ r.owners = s.queues[q].owners \ {c} /\ r.given = s.queues[q].given
      /\ r.status = s.queues[q].status /\ r.detached = s.queues[q].detached
  BY <1>2 DEF Queue
<1>4. RunCleanup(s, c) = t
  BY DEF RunCleanup, Release
<1> HIDE DEF r
<1>5. Sound(t, loose, going, coming) /\ Keeps(s, t)
  BY <1>3, OwnersChange
<1>6. /\ t.hook = s.hook /\ t.registered = s.registered /\ t.queues[q] = r
      /\ DOMAIN t.queues = DOMAIN s.queues
      /\ \A p \in DOMAIN s.queues : p # q => t.queues[p] = s.queues[p]
  BY <1>1, <1>3, QueueReplaced
<1> HIDE DEF t
<1>7. OwnersAdd(s, t, c)
  BY <1>3, <1>6 DEF OwnersAdd
<1> QED
  BY <1>3, <1>4, <1>5, <1>6, <1>7 DEF Owns

\* An effect: the component owns its queue, or, when the registry has another queue
\* for its key, throws.
LEMMA EffectIsSound ==
    ASSUME NEW s, NEW loose, NEW going, NEW coming, Sound(s, loose, going, coming),
           NEW c \in coming, c \in Components, s.hook[c].phase \in {"rendered", "hidden"}
    PROVE  LET t == RunEffect(s, c)
           IN  /\ Sound(t, loose, going, coming) /\ Keeps(s, t)
               /\ t.registered = s.registered /\ OwnersAdd(s, t, c)
               /\ \A d \in Components : d # c => t.hook[d] = s.hook[d]
               /\ \/ t.hook = s.hook /\ Owns(t, c)
                  \/ /\ c \in Keyed /\ s.registered # s.hook[c].queue
                     /\ t.hook[c].phase = "crashed" /\ ~Owns(t, c)
<1> DEFINE q == s.hook[c].queue
<1>1. s \in RetentionState /\ q \in DOMAIN s.queues
  BY DEF Sound, Placed
<1>2. s.queues[q] \in Queue
  BY <1>1, QueueTyped
<1>3. CASE c \in Keyed /\ s.registered # q
  <2> DEFINE h == [s.hook[c] EXCEPT !.phase = "crashed"]
             t == [s EXCEPT !.hook[c] = h]
  <2>1. h \in Hook /\ h.phase = "crashed" /\ h.queue = q /\ h.hid = s.hook[c].hid
    BY <1>1 DEF RetentionState, Hook
  <2>2. RunEffect(s, c) = t
    BY <1>3 DEF RunEffect, Retain
  <2> HIDE DEF h
  <2>3. /\ t \in RetentionState /\ t.queues = s.queues /\ t.registered = s.registered
        /\ t.hook[c] = h /\ \A d \in Components : d # c => t.hook[d] = s.hook[d]
    BY <1>1, <2>1, HookReplaced
  <2> HIDE DEF t
  <2>4. c \notin s.queues[q].owners
    BY <1>1, <1>3 DEF Sound, Registered
  <2>5. \A d \in Components : t.hook[d].queue = s.hook[d].queue
    BY <2>1, <2>3
  <2>6. Placed(t)
    BY <2>1, <2>3, <2>5, <1>3 DEF Sound, Placed, Own
  <2>7. Registered(t)
    BY <2>3 DEF Sound, Registered
  <2>8. Mounted(t, going, coming)
    BY <2>1, <2>3 DEF Sound, Mounted, Owns
  <2>9. Private(t, going, coming)
    BY <1>3, <2>1, <2>3 DEF Sound, Private, Own
  <2>10. Reachable(t, loose, going)
    <3> SUFFICES ASSUME NEW p \in DOMAIN s.queues \ loose,
                        s.queues[p].status # "idle", ~s.queues[p].detached, s.registered # p
                 PROVE  \E d \in Components : /\ Own(d) /\ t.hook[d].queue = p
                                              /\ t.hook[d].phase = "mounted" \/ d \in going
      BY <2>3 DEF Reachable
    <3>1. PICK d \in Components : /\ Own(d) /\ s.hook[d].queue = p
                                  /\ s.hook[d].phase = "mounted" \/ d \in going
      BY DEF Sound, Reachable
    <3>2. d # c
      BY <1>3, <3>1 DEF Own
    <3> QED
      BY <2>3, <3>1, <3>2
  <2> QED
    BY <1>3, <2>1, <2>2, <2>3, <2>4, <2>5, <2>6, <2>7, <2>8, <2>9, <2>10
       DEF Sound, Keeps, Owns, OwnersAdd
<1>4. ASSUME NEW r \in Queue, c \in r.owners, r.owners \subseteq s.queues[q].owners \cup {c},
             s.queues[q].owners \subseteq r.owners \cup {c},
             c \in Keyed => s.registered = q,
             r.status = s.queues[q].status, r.detached = s.queues[q].detached,
             RunEffect(s, c) = [s EXCEPT !.queues[q] = r]
      PROVE  LET t == RunEffect(s, c)
             IN  /\ Sound(t, loose, going, coming) /\ Keeps(s, t)
                 /\ t.registered = s.registered /\ OwnersAdd(s, t, c)
                 /\ t.hook = s.hook /\ Owns(t, c)
  <2> DEFINE t == [s EXCEPT !.queues[q] = r]
  <2>1. Sound(t, loose, going, coming) /\ Keeps(s, t)
    BY <1>4, OwnersChange
  <2>2. /\ t.hook = s.hook /\ t.registered = s.registered /\ t.queues[q] = r
        /\ DOMAIN t.queues = DOMAIN s.queues
        /\ \A p \in DOMAIN s.queues : p # q => t.queues[p] = s.queues[p]
    BY <1>1, QueueReplaced
  <2> HIDE DEF t
  <2>3. OwnersAdd(s, t, c)
    BY <1>4, <2>2 DEF OwnersAdd
  <2> QED
    BY <1>4, <2>1, <2>2, <2>3 DEF Owns, t
<1>5. CASE c \in Keyed /\ s.registered = q
  <2> DEFINE r == [s.queues[q] EXCEPT !.owners = s.queues[q].owners \cup {c},
                                      !.timer = FALSE, !.given = TRUE]
  <2>1. /\ r \in Queue /\ r.owners = s.queues[q].owners \cup {c}
        /\ r.status = s.queues[q].status /\ r.detached = s.queues[q].detached
    BY <1>2 DEF Queue
  <2>2. RunEffect(s, c) = [s EXCEPT !.queues[q] = r]
    BY <1>1, <1>2, <1>5 DEF RunEffect, Retain, RetentionState, Queue
  <2> HIDE DEF r
  <2> QED
    BY <1>4, <1>5, <2>1, <2>2
<1>6. CASE c \notin Keyed
  <2> DEFINE r == [s.queues[q] EXCEPT !.owners = {c}, !.given = TRUE]
  <2>1. /\ r \in Queue /\ r.owners = {c}
        /\ r.status = s.queues[q].status /\ r.detached = s.queues[q].detached
    BY <1>2 DEF Queue
  <2>2. RunEffect(s, c) = [s EXCEPT !.queues[q] = r]
    BY <1>1, <1>2, <1>6 DEF RunEffect, RetentionState, Queue
  <2> HIDE DEF r
  <2>3. s.queues[q].owners \subseteq {c}
    <3> SUFFICES ASSUME NEW d \in s.queues[q].owners, d # c
                 PROVE  FALSE
      OBVIOUS
    <3>1. d \in Components /\ s.hook[d].queue = q
      BY <1>1 DEF Sound, Placed
    <3> QED
      BY <1>1, <1>6, <3>1 DEF Sound, Placed, Own
  <2> QED
    BY <1>4, <1>6, <2>1, <2>2, <2>3
<1> QED
  BY <1>3, <1>5, <1>6

\* The microtask of a cleanup does nothing when the component owns its queue again.
LEMMA AfterCleanupOfOwner ==
    ASSUME NEW s, NEW c, Owns(s, c)
    PROVE  AfterCleanup(s, c) = s
BY DEF AfterCleanup, AfterRelease, Owns

\* A queue's timer starts or stops.
LEMMA TimerIsSound ==
    ASSUME NEW s, NEW loose, NEW going, NEW coming, Sound(s, loose, going, coming),
           NEW q \in DOMAIN s.queues, NEW b \in BOOLEAN
    PROVE  LET t == [s EXCEPT !.queues[q].timer = b]
           IN  /\ Sound(t, loose, going, coming) /\ SameHooks(s, t) /\ Keeps(s, t)
               /\ t.registered = s.registered
               /\ \A p \in DOMAIN s.queues : t.queues[p].status = s.queues[p].status
<1> DEFINE r == [s.queues[q] EXCEPT !.timer = b]
           t == [s EXCEPT !.queues[q] = r]
<1>1. s \in RetentionState
  BY DEF Sound
<1>2. s.queues[q] \in Queue
  BY <1>1, QueueTyped
<1>3. /\ r \in Queue /\ r.owners = s.queues[q].owners /\ r.given = s.queues[q].given
      /\ r.status = s.queues[q].status /\ r.detached = s.queues[q].detached
  BY <1>2 DEF Queue
<1>4. [s EXCEPT !.queues[q].timer = b] = t
  OBVIOUS
<1> HIDE DEF r
<1>5. /\ t \in RetentionState /\ t.hook = s.hook /\ t.registered = s.registered
      /\ DOMAIN t.queues = DOMAIN s.queues
      /\ \A p \in DOMAIN s.queues :
            /\ t.queues[p].owners = s.queues[p].owners /\ t.queues[p].given = s.queues[p].given
            /\ t.queues[p].status = s.queues[p].status
            /\ t.queues[p].detached = s.queues[p].detached
  BY <1>1, <1>3, QueueReplaced
<1> HIDE DEF t
<1>6. \A d \in Components : s.hook[d].phase # "out" => s.hook[d].queue \in DOMAIN s.queues
  BY DEF Sound, Placed
<1>7. Placed(t)
  <2>1. \A p \in DOMAIN t.queues : \A d \in t.queues[p].owners :
           d \in Components /\ t.hook[d].queue = p
    BY <1>5 DEF Sound, Placed
  <2> QED
    BY <1>5, <2>1 DEF Sound, Placed
<1>8. Registered(t)
  <2>1. s.registered # None => ~t.queues[s.registered].detached
    BY <1>5 DEF Sound, Registered, Placed
  <2>2. \A p \in DOMAIN t.queues : \A d \in t.queues[p].owners : d \in Keyed => t.registered = p
    BY <1>5 DEF Sound, Registered
  <2> QED
    BY <1>5, <2>1, <2>2 DEF Sound, Registered
<1>9. Mounted(t, going, coming)
  <2>1. \A d \in Components : s.hook[d].phase # "out" => (Owns(t, d) <=> Owns(s, d))
    BY <1>5, <1>6 DEF Owns
  <2> QED
    BY <1>5, <2>1 DEF Sound, Mounted
<1>10. Private(t, going, coming)
  BY <1>5, <1>6 DEF Sound, Private
<1>11. Reachable(t, loose, going)
  BY <1>5 DEF Sound, Reachable
<1>12. Keeps(s, t)
  BY <1>5 DEF Sound, Placed, Keeps
<1> QED
  BY <1>4, <1>5, <1>7, <1>8, <1>9, <1>10, <1>11, <1>12 DEF Sound, SameHooks

\* The retention time of a queue starts.
LEMMA ScheduleIsSound ==
    ASSUME NEW s, NEW loose, NEW going, NEW coming, Sound(s, loose, going, coming),
           NEW q \in DOMAIN s.queues
    PROVE  LET t == ScheduleEviction(s, q)
           IN  /\ Sound(t, loose, going, coming) /\ SameHooks(s, t) /\ Keeps(s, t)
               /\ t.registered = s.registered
BY TimerIsSound DEF ScheduleEviction

\* The microtask of a cleanup that was not followed by an effect: a queue of one's own
\* is detached, a keyed one that nobody owns is evicted or waits for its timer.
LEMMA AfterCleanupIsSound ==
    ASSUME NEW s, NEW loose, NEW going, NEW coming, Sound(s, loose, going, coming),
           NEW c \in going, c \in Components, s.hook[c].phase # "out", ~Owns(s, c)
    PROVE  LET t == AfterCleanup(s, c)
           IN  /\ Sound(t, loose, going, coming) /\ SameHooks(s, t) /\ Keeps(s, t)
               /\ Own(c) => t.queues[s.hook[c].queue].detached
<1> DEFINE q == s.hook[c].queue
           t == AfterCleanup(s, c)
<1>1. s \in RetentionState /\ q \in DOMAIN s.queues
  BY DEF Sound, Placed
<1>2. Sound(s, loose, going, coming) /\ SameHooks(s, s) /\ Keeps(s, s)
  BY <1>1 DEF SameHooks, Keeps
<1>3. CASE c \in Keyed
  <2>1. CASE s.queues[q].owners # {} \/ s.registered # q
    <3>1. t = s
      BY <1>3, <2>1 DEF AfterCleanup, AfterRelease
    <3> QED
      BY <1>2, <1>3, <3>1 DEF Own
  <2>2. CASE ~(s.queues[q].owners # {} \/ s.registered # q) /\ s.queues[q].status = "idle"
    <3>1. t = Evict(s, q)
      BY <1>3, <2>2 DEF AfterCleanup, AfterRelease
    <3> HIDE DEF t
    <3>2. Sound(t, loose, going, coming) /\ SameHooks(s, t) /\ Keeps(s, t)
      BY <1>1, <2>2, <3>1, EvictIsSound
    <3> QED
      BY <1>3, <3>2 DEF Own, t
  <2>3. CASE ~(s.queues[q].owners # {} \/ s.registered # q) /\ s.queues[q].status # "idle"
    <3>1. t = ScheduleEviction(s, q)
      BY <1>3, <2>3 DEF AfterCleanup, AfterRelease
    <3> HIDE DEF t
    <3>2. Sound(t, loose, going, coming) /\ SameHooks(s, t) /\ Keeps(s, t)
      BY <1>1, <3>1, ScheduleIsSound
    <3> QED
      BY <1>3, <3>2 DEF Own, t
  <2> QED
    BY <2>1, <2>2, <2>3
<1>4. CASE c \notin Keyed
  <2>1. Own(c)
    BY <1>4 DEF Own
  <2>2. s.queues[q].owners = {}
    <3> SUFFICES ASSUME NEW d \in s.queues[q].owners
                 PROVE  FALSE
      OBVIOUS
    <3>1. d \in Components /\ s.hook[d].queue = q /\ d # c
      BY <1>1 DEF Sound, Placed, Owns
    <3> QED
      BY <1>1, <2>1, <3>1 DEF Sound, Placed
  <2>3. t = Detach(s, q)
    BY <1>4, <2>2 DEF AfterCleanup
  <2> HIDE DEF t
  <2>4. /\ SameHooks(s, t) /\ Elsewhere(s, t, q) /\ t.registered = s.registered
        /\ t.queues[q].detached /\ t.queues[q].status # "failed"
    BY <1>1, <2>3, DetachDoes
  <2>5. /\ t \in RetentionState /\ t.hook = s.hook /\ DOMAIN t.queues = DOMAIN s.queues
        /\ \A p \in DOMAIN s.queues : t.queues[p].owners = s.queues[p].owners
        /\ \A p \in DOMAIN s.queues : p # q => t.queues[p] = s.queues[p]
    BY <2>4 DEF SameHooks, Elsewhere
  <2>6. /\ s.registered # q
        /\ \A d \in Components : d # c => s.hook[d].queue # q
        /\ \A d \in Components : s.hook[d].phase # "out" => s.hook[d].queue \in DOMAIN s.queues
    BY <2>1 DEF Sound, Placed
  <2>7. Placed(t)
    <3>1. \A p \in DOMAIN t.queues : \A d \in t.queues[p].owners :
             d \in Components /\ t.hook[d].queue = p
      BY <2>5 DEF Sound, Placed
    <3> QED
      BY <2>4, <2>5, <3>1 DEF Sound, Placed
  <2>8. Registered(t)
    <3>1. s.registered # None => ~t.queues[s.registered].detached
      BY <2>5, <2>6 DEF Sound, Registered, Placed
    <3>2. \A p \in DOMAIN t.queues : \A d \in t.queues[p].owners :
             d \in Keyed => t.registered = p
      BY <2>4, <2>5 DEF Sound, Registered
    <3> QED
      BY <2>4, <2>5, <3>1, <3>2 DEF Sound, Registered
  <2>9. Mounted(t, going, coming)
    BY <2>5, <2>6 DEF Sound, Mounted, Owns
  <2>10. Private(t, going, coming)
    <3>1. \A d \in Components : d # c /\ Own(d) /\ s.hook[d].phase # "out" =>
             t.queues[s.hook[d].queue] = s.queues[s.hook[d].queue]
      BY <2>5, <2>6
    <3> QED
      BY <2>5, <3>1 DEF Sound, Private
  <2>11. Reachable(t, loose, going)
    BY <2>4, <2>5 DEF Sound, Reachable
  <2>12. Keeps(s, t)
    BY <2>4, <2>5, <2>6 DEF Sound, Placed, Keeps
  <2> QED
    BY <2>4, <2>5, <2>7, <2>8, <2>9, <2>10, <2>11, <2>12 DEF Sound, t
<1> QED
  BY <1>3, <1>4

\* The hook of a component is over with a commit: it is there and owns its queue, or it
\* is hidden or gone and does not, and then a queue of its own has been detached or
\* was never in use.
LEMMA HookSettles ==
    ASSUME NEW s, NEW loose, NEW going, NEW coming, Sound(s, loose, going, coming),
           NEW c \in Components, s.hook[c].phase # "out", NEW w \in Hook,
           \/ w.phase = "out" /\ w.queue = None
           \/ w.phase \in {"mounted", "hidden"} /\ w.queue = s.hook[c].queue,
           w.phase = "mounted" <=> Owns(s, c),
           w.phase = "hidden" => w.hid,
           Own(c) /\ w.phase = "hidden" => s.queues[s.hook[c].queue].detached,
           Own(c) /\ w.phase = "mounted" /\ ~w.hid => ~s.queues[s.hook[c].queue].detached,
           Own(c) /\ w.phase # "mounted" =>
              \/ s.queues[s.hook[c].queue].detached
              \/ s.hook[c].phase # "mounted" /\ c \notin going
    PROVE  LET t == [s EXCEPT !.hook[c] = w]
           IN  /\ Sound(t, loose, going \ {c}, coming \ {c}) /\ Keeps(s, t)
               /\ t.queues = s.queues /\ t.hook[c] = w
               /\ \A d \in Components : d # c => t.hook[d] = s.hook[d]
<1> DEFINE q == s.hook[c].queue
           t == [s EXCEPT !.hook[c] = w]
<1>1. s \in RetentionState /\ q \in DOMAIN s.queues /\ q # None
  BY QueueTyped DEF Sound, Placed
<1>2. /\ t \in RetentionState /\ t.queues = s.queues /\ t.registered = s.registered
      /\ t.hook[c] = w
      /\ \A d \in Components : d # c => t.hook[d] = s.hook[d]
  BY <1>1, HookReplaced
<1> HIDE DEF t
<1>3. Placed(t)
  <2>1. \A p \in DOMAIN t.queues : \A d \in t.queues[p].owners :
           d \in Components /\ t.hook[d].queue = p
    <3> SUFFICES ASSUME NEW p \in DOMAIN s.queues, NEW d \in s.queues[p].owners
                 PROVE  d \in Components /\ t.hook[d].queue = p
      BY <1>2
    <3>1. d \in Components /\ s.hook[d].queue = p
      BY DEF Sound, Placed
    <3>2. d = c => w.queue = s.hook[c].queue
      BY <3>1 DEF Owns
    <3> QED
      BY <1>2, <3>1, <3>2
  <2>2. \A d \in Components : IF t.hook[d].phase = "out" THEN t.hook[d].queue = None
                              ELSE t.hook[d].queue \in DOMAIN t.queues
    BY <1>1, <1>2 DEF Sound, Placed
  <2>3. \A d \in Components : t.hook[d].queue \in {s.hook[d].queue, None}
    BY <1>2
  <2>4. \A d \in Components : Own(d) /\ t.hook[d].phase # "out" =>
           /\ t.registered # t.hook[d].queue
           /\ \A e \in Components : e # d => t.hook[e].queue # t.hook[d].queue
    <3> SUFFICES ASSUME NEW d \in Components, Own(d), t.hook[d].phase # "out"
                 PROVE  /\ t.registered # t.hook[d].queue
                        /\ \A e \in Components : e # d => t.hook[e].queue # t.hook[d].queue
      OBVIOUS
    <3>1. s.hook[d].phase # "out" /\ t.hook[d].queue = s.hook[d].queue
      BY <1>2
    <3>2. s.hook[d].queue # None
      BY <1>1, <3>1, QueueTyped DEF Sound, Placed
    <3> QED
      BY <1>2, <2>3, <3>1, <3>2 DEF Sound, Placed
  <2> QED
    BY <1>2, <2>1, <2>2, <2>4 DEF Sound, Placed
<1>4. Registered(t)
  BY <1>2 DEF Sound, Registered
<1>5. Mounted(t, going \ {c}, coming \ {c})
  <2> SUFFICES ASSUME NEW d \in Components
               PROVE  /\ d \notin (going \ {c}) \cup (coming \ {c}) /\ t.hook[d].phase # "out" =>
                            (t.hook[d].phase = "mounted" <=> Owns(t, d))
                      /\ t.hook[d].phase = "rendered" => ~t.hook[d].hid
                      /\ t.hook[d].phase = "hidden" => t.hook[d].hid
    BY DEF Mounted
  <2>1. CASE d = c
    <3>1. t.hook[c].phase # "out" => (Owns(t, c) <=> Owns(s, c))
      BY <1>2 DEF Owns
    <3> QED
      BY <1>2, <2>1, <3>1
  <2>2. CASE d # c
    <3>1. Owns(t, d) <=> Owns(s, d)
      BY <1>2, <2>2 DEF Owns
    <3> QED
      BY <1>2, <2>2, <3>1 DEF Sound, Mounted
  <2> QED
    BY <2>1, <2>2
<1>6. Private(t, going \ {c}, coming \ {c})
  <2> SUFFICES ASSUME NEW d \in Components, Own(d)
               PROVE  /\ t.hook[d].phase # "crashed"
                      /\ d \notin going \ {c} /\ t.hook[d].phase # "out" /\ ~t.hook[d].hid =>
                            ~t.queues[t.hook[d].queue].detached
                      /\ d \notin (going \ {c}) \cup (coming \ {c}) /\ t.hook[d].phase = "hidden" =>
                            t.queues[t.hook[d].queue].detached
                      /\ d \notin (going \ {c}) \cup (coming \ {c}) /\ t.hook[d].phase = "rendered" =>
                            /\ ~t.queues[t.hook[d].queue].given
                            /\ t.queues[t.hook[d].queue].status = "idle"
    BY DEF Private
  <2>1. CASE d = c
    BY <1>2, <2>1
  <2>2. CASE d # c
    <3>1. Private(s, going, coming)
      BY DEF Sound
    <3> QED
      BY <1>2, <2>2, <3>1 DEF Private
  <2> QED
    BY <2>1, <2>2
<1>7. Reachable(t, loose, going \ {c})
  <2> SUFFICES ASSUME NEW p \in DOMAIN s.queues \ loose,
                      s.queues[p].status # "idle", ~s.queues[p].detached, s.registered # p
               PROVE  \E d \in Components : /\ Own(d) /\ t.hook[d].queue = p
                                            /\ t.hook[d].phase = "mounted" \/ d \in going \ {c}
    BY <1>2 DEF Reachable
  <2>1. PICK d \in Components : /\ Own(d) /\ s.hook[d].queue = p
                                /\ s.hook[d].phase = "mounted" \/ d \in going
    BY DEF Sound, Reachable
  <2>2. CASE d = c
    BY <1>2, <2>1, <2>2
  <2>3. CASE d # c
    BY <1>2, <2>1, <2>3
  <2> QED
    BY <2>2, <2>3
<1>8. Keeps(s, t)
  BY <1>2 DEF Keeps
<1> QED
  BY <1>2, <1>3, <1>4, <1>5, <1>6, <1>7, <1>8 DEF Sound, t

\* What the effects of a component that is shown leave: it owns its queue, or has
\* crashed and does not.
Shown(s, c) ==
    \/ s.hook[c].phase \in {"rendered", "hidden"} /\ Owns(s, c)
    \/ c \in Keyed /\ s.hook[c].phase = "crashed" /\ ~Owns(s, c)

\* The order in which unfinished work keeps its place is transitive.
LEMMA KeepsIsTransitive ==
    ASSUME NEW s, NEW t, NEW u, Keeps(s, t), Keeps(t, u)
    PROVE  Keeps(s, u)
BY DEF Keeps

\* The effects of a component that is shown, run once or as StrictMode runs them.
LEMMA EffectsAreSound ==
    ASSUME NEW s, NEW loose, NEW going, NEW coming, Sound(s, loose, going, coming),
           NEW c \in coming, c \in Components, s.hook[c].phase \in {"rendered", "hidden"},
           NEW strict \in BOOLEAN
    PROVE  LET t == Effects(s, c, strict)
           IN  /\ Sound(t, loose, going, coming) /\ Keeps(s, t)
               /\ t.registered = s.registered /\ OwnersAdd(s, t, c)
               /\ \A d \in Components : d # c => t.hook[d] = s.hook[d]
               /\ Shown(t, c)
<1> DEFINE u == RunEffect(s, c)
           v == RunCleanup(u, c)
           w == RunEffect(v, c)
<1>1. /\ Sound(u, loose, going, coming) /\ Keeps(s, u) /\ u.registered = s.registered
      /\ OwnersAdd(s, u, c)
      /\ \A d \in Components : d # c => u.hook[d] = s.hook[d]
      /\ \/ u.hook = s.hook /\ Owns(u, c)
         \/ /\ c \in Keyed /\ s.registered # s.hook[c].queue
            /\ u.hook[c].phase = "crashed" /\ ~Owns(u, c)
  BY EffectIsSound
<1>2. Effects(s, c, strict) = IF strict /\ u.hook[c].phase = "rendered" THEN w ELSE u
  BY DEF Effects
<1> HIDE DEF u
<1>3. CASE ~(strict /\ u.hook[c].phase = "rendered")
  BY <1>1, <1>2, <1>3 DEF Shown
<1>4. CASE strict /\ u.hook[c].phase = "rendered"
  <2>1. u.hook = s.hook /\ Owns(u, c)
    BY <1>1, <1>4
  <2>2. c \in Keyed => u.registered = u.hook[c].queue
    BY <1>1, <1>4, <2>1 DEF Sound, Registered, Placed, Owns
  <2>3. /\ Sound(v, loose, going, coming) /\ Keeps(u, v)
        /\ v.hook = u.hook /\ v.registered = u.registered /\ OwnersAdd(u, v, c)
    BY <1>1, <1>4, CleanupIsSound
  <2> HIDE DEF v
  <2>4. /\ Sound(w, loose, going, coming) /\ Keeps(v, w) /\ w.registered = v.registered
        /\ OwnersAdd(v, w, c)
        /\ \A d \in Components : d # c => w.hook[d] = v.hook[d]
        /\ \/ w.hook = v.hook /\ Owns(w, c)
           \/ /\ c \in Keyed /\ v.registered # v.hook[c].queue
              /\ w.hook[c].phase = "crashed" /\ ~Owns(w, c)
    BY <1>4, <2>3, EffectIsSound
  <2> HIDE DEF w
  <2>5. Keeps(s, w)
    BY <1>1, <2>3, <2>4, KeepsIsTransitive
  <2>6. Shown(w, c)
    BY <1>4, <2>2, <2>3, <2>4 DEF Shown
  <2>7. OwnersAdd(s, w, c)
    BY <1>1, <2>3, <2>4 DEF OwnersAdd
  <2> QED
    BY <1>1, <1>2, <1>4, <2>3, <2>4, <2>5, <2>6, <2>7
<1> QED
  BY <1>3, <1>4

\* The end of a commit for the component that is shown.
LEMMA ArrivedIsSound ==
    ASSUME NEW s, NEW loose, NEW coming, NEW c \in coming, c \in Components,
           Sound(s, loose, {}, coming), Shown(s, c), NEW strict \in BOOLEAN
    PROVE  LET t == Arrived(s, c, strict)
           IN  Sound(t, loose, {}, coming \ {c}) /\ Keeps(s, t) /\ t.queues = s.queues
<1> DEFINE drained == IF strict /\ s.hook[c].phase = "rendered" THEN AfterCleanup(s, c) ELSE s
<1>1. drained = s
  BY AfterCleanupOfOwner DEF Shown
<1>2. Arrived(s, c, strict) =
        IF drained.hook[c].phase = "crashed" THEN drained
        ELSE [drained EXCEPT !.hook[c].phase = "mounted"]
  BY DEF Arrived
<1> HIDE DEF drained
<1>3. CASE s.hook[c].phase = "crashed"
  <2>1. Arrived(s, c, strict) = s
    BY <1>1, <1>2, <1>3
  <2>2. ~Owns(s, c) /\ c \in Keyed
    BY <1>3 DEF Shown
  <2>3. Mounted(s, {}, coming \ {c})
    BY <1>3, <2>2 DEF Sound, Mounted
  <2>4. Private(s, {}, coming \ {c})
    BY <2>2 DEF Sound, Private, Own
  <2> QED
    BY <2>1, <2>3, <2>4 DEF Sound, Keeps
<1>4. CASE s.hook[c].phase # "crashed"
  <2> DEFINE w == [s.hook[c] EXCEPT !.phase = "mounted"]
             t == [s EXCEPT !.hook[c] = w]
  <2>1. s.hook[c] \in Hook
    BY DEF Sound, RetentionState
  <2>2. w \in Hook /\ w.phase = "mounted" /\ w.queue = s.hook[c].queue /\ w.hid = s.hook[c].hid
    BY <2>1 DEF Hook
  <2>3. Arrived(s, c, strict) = t
    BY <1>1, <1>2, <1>4
  <2> HIDE DEF w
  <2>4. s.hook[c].phase \in {"rendered", "hidden"} /\ Owns(s, c)
    BY <1>4 DEF Shown
  <2>5. Own(c) /\ ~w.hid => ~s.queues[s.hook[c].queue].detached
    BY <2>2, <2>4 DEF Sound, Private
  <2>6. Sound(t, loose, {} \ {c}, coming \ {c}) /\ Keeps(s, t) /\ t.queues = s.queues
    BY <2>2, <2>4, <2>5, HookSettles
  <2>7. {} \ {c} = {}
    OBVIOUS
  <2> QED
    BY <2>3, <2>6, <2>7
<1> QED
  BY <1>3, <1>4

\* The end of a commit for the component that leaves or is hidden.
LEMMA DepartedIsSound ==
    ASSUME NEW s, NEW loose, NEW going, NEW coming, NEW c \in going, c \in Components,
           Sound(s, loose, going, coming), s.hook[c].phase = "mounted", ~Owns(s, c),
           NEW hides \in BOOLEAN
    PROVE  LET t == Departed(s, c, hides)
           IN  /\ Sound(t, loose, going \ {c}, coming \ {c}) /\ Keeps(s, t)
               /\ \A d \in Components : d # c => t.hook[d] = s.hook[d]
               /\ \A q \in DOMAIN s.queues : t.queues[q].owners = s.queues[q].owners
<1> DEFINE u == AfterCleanup(s, c)
           q == s.hook[c].queue
<1>1. /\ Sound(u, loose, going, coming) /\ SameHooks(s, u) /\ Keeps(s, u)
      /\ Own(c) => u.queues[q].detached
  BY AfterCleanupIsSound
<1>2. Departed(s, c, hides) =
        IF hides THEN [u EXCEPT !.hook[c].phase = "hidden", !.hook[c].hid = TRUE]
        ELSE [u EXCEPT !.hook[c] = Unused]
  BY DEF Departed
<1> HIDE DEF u
<1>3. /\ u \in RetentionState /\ u.hook = s.hook /\ q \in DOMAIN s.queues
      /\ \A p \in DOMAIN s.queues : u.queues[p].owners = s.queues[p].owners
  BY <1>1 DEF SameHooks, Sound, Placed
<1>4. u.hook[c] \in Hook /\ ~Owns(u, c)
  BY <1>3 DEF RetentionState, Owns
<1>5. ASSUME NEW w \in Hook, Departed(s, c, hides) = [u EXCEPT !.hook[c] = w],
             \/ w.phase = "out" /\ w.queue = None
             \/ w.phase = "hidden" /\ w.queue = u.hook[c].queue /\ w.hid
      PROVE  LET t == Departed(s, c, hides)
             IN  /\ Sound(t, loose, going \ {c}, coming \ {c}) /\ Keeps(s, t)
                 /\ \A d \in Components : d # c => t.hook[d] = s.hook[d]
                 /\ \A p \in DOMAIN s.queues : t.queues[p].owners = s.queues[p].owners
  <2> DEFINE t == [u EXCEPT !.hook[c] = w]
  <2>1. /\ Sound(t, loose, going \ {c}, coming \ {c}) /\ Keeps(u, t)
        /\ t.queues = u.queues
        /\ \A d \in Components : d # c => t.hook[d] = u.hook[d]
    <3>1. Own(c) => u.queues[u.hook[c].queue].detached
      BY <1>1, <1>3
    <3>2. u.hook[c].phase # "out" /\ w.phase # "mounted" /\ ~Owns(u, c)
      BY <1>3, <1>4, <1>5
    <3>3. /\ \/ w.phase = "out" /\ w.queue = None
             \/ w.phase \in {"mounted", "hidden"} /\ w.queue = u.hook[c].queue
          /\ w.phase = "hidden" => w.hid
      BY <1>5
    <3> HIDE DEF q
    <3> QED
      BY ONLY <1>1, <3>1, <3>2, <3>3, HookSettles, c \in Components, w \in Hook
  <2> HIDE DEF t
  <2>2. Keeps(s, t)
    BY <1>1, <2>1, KeepsIsTransitive
  <2> QED
    BY <1>3, <1>5, <2>1, <2>2 DEF t
<1>6. CASE hides
  <2> DEFINE w == [u.hook[c] EXCEPT !.phase = "hidden", !.hid = TRUE]
  <2>1. w \in Hook /\ w.phase = "hidden" /\ w.queue = u.hook[c].queue /\ w.hid
    BY <1>4 DEF Hook
  <2>2. Departed(s, c, hides) = [u EXCEPT !.hook[c] = w]
    BY <1>2, <1>3, <1>6 DEF RetentionState
  <2> HIDE DEF w
  <2> QED
    BY <1>5, <2>1, <2>2
<1>7. CASE ~hides
  <2>1. Unused \in Hook /\ Unused.phase = "out" /\ Unused.queue = None
    BY DEF Unused, Hook, None
  <2>2. Departed(s, c, hides) = [u EXCEPT !.hook[c] = Unused]
    BY <1>2, <1>7
  <2> QED
    BY <1>5, <2>1, <2>2
<1> QED
  BY <1>6, <1>7

-----------------------------------------------------------------------------
(* A render takes a queue.                                                 *)

\* A new queue is nobody's, idle and attached.
LEMMA CreateIsSound ==
    ASSUME NEW s, NEW loose, Sound(s, loose, {}, {})
    PROVE  LET t == Create(s, NewQueue)
               n == Len(s.queues) + 1
           IN  /\ Sound(t, loose, {}, {}) /\ Keeps(s, t)
               /\ t.hook = s.hook /\ t.registered = s.registered
               /\ n \in DOMAIN t.queues /\ n \notin DOMAIN s.queues /\ n = Len(t.queues)
               /\ t.queues[n] = NewQueue
               /\ \A d \in Components : s.hook[d].queue # n
<1> DEFINE t == Create(s, NewQueue)
           n == Len(s.queues) + 1
           qs == Append(s.queues, NewQueue)
<1>1. s \in RetentionState /\ s.queues \in Seq(Queue)
  BY DEF Sound, RetentionState
<1>2. NewQueue \in Queue /\ NewQueue.owners = {} /\ NewQueue.status = "idle" /\ ~NewQueue.detached
  BY DEF NewQueue, Queue
<1>3. /\ qs \in Seq(Queue) /\ Len(qs) = n /\ qs[n] = NewQueue
      /\ \A i \in 1 .. Len(s.queues) : qs[i] = s.queues[i]
  BY <1>1, <1>2, AppendProperties
<1>4. DOMAIN s.queues = 1 .. Len(s.queues) /\ DOMAIN qs = 1 .. n /\ Len(s.queues) \in Nat
  BY <1>1, <1>3, LenProperties
<1>5. t \in RetentionState /\ t.hook = s.hook /\ t.registered = s.registered /\ t.queues = qs
  BY <1>1, <1>3 DEF Create, RetentionState
<1> HIDE DEF t, qs
<1>6. n \notin DOMAIN s.queues /\ n \in DOMAIN t.queues /\ DOMAIN s.queues \subseteq DOMAIN t.queues
  BY <1>4, <1>5
<1>7. \A p \in DOMAIN t.queues : p # n => p \in DOMAIN s.queues /\ t.queues[p] = s.queues[p]
  BY <1>3, <1>4, <1>5
<1>8. t.queues[n] = NewQueue /\ \A p \in DOMAIN s.queues : t.queues[p] = s.queues[p]
  BY <1>3, <1>4, <1>5
<1>9. \A d \in Components : s.hook[d].phase # "out" => s.hook[d].queue \in DOMAIN s.queues
  BY DEF Sound, Placed
<1>10. \A d \in Components : s.hook[d].queue # n
  <2>1. n # None
    BY <1>4 DEF None
  <2> QED
    BY <1>6, <1>9, <2>1 DEF Sound, Placed
<1>11. Placed(t)
  <2>1. \A p \in DOMAIN t.queues : \A d \in t.queues[p].owners :
           d \in Components /\ t.hook[d].queue = p
    <3> SUFFICES ASSUME NEW p \in DOMAIN t.queues, NEW d \in t.queues[p].owners
                 PROVE  d \in Components /\ t.hook[d].queue = p
      OBVIOUS
    <3>1. p # n
      BY <1>2, <1>8
    <3> QED
      BY <1>5, <1>7, <3>1 DEF Sound, Placed
  <2> QED
    BY <1>5, <1>6, <2>1 DEF Sound, Placed
<1>12. Registered(t)
  <2>1. \A p \in DOMAIN t.queues : \A d \in t.queues[p].owners : d \in Keyed => t.registered = p
    <3> SUFFICES ASSUME NEW p \in DOMAIN t.queues, NEW d \in t.queues[p].owners, d \in Keyed
                 PROVE  t.registered = p
      OBVIOUS
    <3>1. p # n
      BY <1>2, <1>8
    <3> QED
      BY <1>5, <1>7, <3>1 DEF Sound, Registered
  <2>2. s.registered # None => ~t.queues[s.registered].detached
    BY <1>8 DEF Sound, Registered, Placed
  <2>3. \A p \in DOMAIN t.queues : t.queues[p].status = "failed" => ~t.queues[p].detached
    BY <1>2, <1>7, <1>8 DEF Sound, Registered
  <2> QED
    BY <1>5, <2>1, <2>2, <2>3 DEF Registered
<1>13. Mounted(t, {}, {})
  <2>1. \A d \in Components : s.hook[d].phase # "out" => (Owns(t, d) <=> Owns(s, d))
    BY <1>5, <1>8, <1>9 DEF Owns
  <2> QED
    BY <1>5, <2>1 DEF Sound, Mounted
<1>14. Private(t, {}, {})
  <2>1. \A d \in Components : s.hook[d].phase # "out" =>
           t.queues[s.hook[d].queue] = s.queues[s.hook[d].queue]
    BY <1>8, <1>9
  <2>2. Private(s, {}, {})
    BY DEF Sound
  <2> QED
    BY <1>5, <2>1, <2>2 DEF Private
<1>15. Reachable(t, loose, {})
  <2> SUFFICES ASSUME NEW p \in DOMAIN t.queues \ loose, t.queues[p].status # "idle",
                      ~t.queues[p].detached
               PROVE  \/ t.registered = p
                      \/ \E d \in Components : /\ Own(d) /\ t.hook[d].queue = p
                                               /\ t.hook[d].phase = "mounted" \/ d \in {}
    BY DEF Reachable
  <2>1. p # n
    BY <1>2, <1>8
  <2> QED
    BY <1>5, <1>7, <2>1 DEF Sound, Reachable
<1>16. Keeps(s, t)
  BY <1>5, <1>8 DEF Sound, Placed, Keeps
<1> QED
  BY <1>3, <1>5, <1>6, <1>8, <1>10, <1>11, <1>12, <1>13, <1>14, <1>15, <1>16 DEF Sound, t

\* The registry has a queue for the key, the one it had or a new one.
LEMMA GetIsSound ==
    ASSUME NEW s, NEW loose, Sound(s, loose, {}, {})
    PROVE  LET t == GetMutationQueue(s)
           IN  /\ Sound(t, loose, {}, {}) /\ Keeps(s, t)
               /\ t.hook = s.hook /\ t.registered \in DOMAIN t.queues
<1>1. CASE s.registered # None
  BY <1>1 DEF GetMutationQueue, Keeps, Sound, Placed
<1>2. CASE s.registered = None
  <2> DEFINE n == Len(s.queues) + 1
             u == Create(s, NewQueue)
             v == [u EXCEPT !.registered = n]
             t == ScheduleEviction(v, n)
  <2>1. /\ Sound(u, loose, {}, {}) /\ u.hook = s.hook /\ u.registered = None
        /\ n \in DOMAIN u.queues /\ u.queues[n] = NewQueue
        /\ \A d \in Components : s.hook[d].queue # n
    BY <1>2, CreateIsSound
  <2>2. GetMutationQueue(s) = t
    BY <1>2 DEF GetMutationQueue
  <2> HIDE DEF u, n
  <2>3. u \in RetentionState /\ n \in Nat
    BY <2>1, QueueTyped DEF Sound
  <2>4. v \in RetentionState /\ v.hook = s.hook /\ v.queues = u.queues /\ v.registered = n
    BY <2>1, <2>3 DEF RetentionState
  <2> HIDE DEF v
  <2>5. \A p \in DOMAIN u.queues : \A d \in u.queues[p].owners : d \notin Keyed
    BY <2>1, QueueTyped DEF Sound, Registered
  <2>6. Sound(v, loose, {}, {})
    <3>1. Placed(v)
      BY <2>1, <2>4 DEF Sound, Placed
    <3>2. Registered(v)
      BY <2>1, <2>4, <2>5 DEF Sound, Registered, NewQueue
    <3>3. Mounted(v, {}, {})
      BY <2>1, <2>4 DEF Sound, Mounted, Owns
    <3>4. Private(v, {}, {})
      BY <2>1, <2>4 DEF Sound, Private
    <3>5. Reachable(v, loose, {})
      <4>1. \A p \in DOMAIN u.queues : u.registered # p
        BY <2>1, <2>3, QueueTyped
      <4> QED
        BY <2>1, <2>4, <4>1 DEF Sound, Reachable
    <3> QED
      BY <2>4, <3>1, <3>2, <3>3, <3>4, <3>5 DEF Sound
  <2>7. /\ Sound(t, loose, {}, {}) /\ SameHooks(v, t) /\ t.registered = n
    BY <2>1, <2>4, <2>6, ScheduleIsSound
  <2> HIDE DEF t
  <2> QED
    BY <1>2, <2>1, <2>2, <2>4, <2>7 DEF SameHooks, Keeps
<1> QED
  BY <1>1, <1>2

\* A component that renders for the first time holds the registered queue, or, without
\* the key, one that is only its own.
LEMMA TakeIsSound ==
    ASSUME NEW s, NEW loose, Sound(s, loose, {}, {}),
           NEW c \in Components, s.hook[c].phase = "out",
           NEW q \in DOMAIN s.queues,
           \/ c \in Keyed /\ s.registered = q
           \/ Own(c) /\ s.registered # q /\ s.queues[q] = NewQueue
                     /\ \A d \in Components : s.hook[d].queue # q
    PROVE  LET t == [s EXCEPT !.hook[c] = [Unused EXCEPT !.phase = "rendered", !.queue = q]]
           IN  Sound(t, loose, {}, {}) /\ Keeps(s, t)
<1> DEFINE w == [Unused EXCEPT !.phase = "rendered", !.queue = q]
           t == [s EXCEPT !.hook[c] = w]
<1>1. s \in RetentionState /\ q \in Nat /\ q # None
  BY QueueTyped DEF Sound
<1>2. w \in Hook /\ w.phase = "rendered" /\ w.queue = q /\ ~w.hid
  BY <1>1 DEF Unused, Hook
<1> HIDE DEF w
<1>3. /\ t \in RetentionState /\ t.queues = s.queues /\ t.registered = s.registered
      /\ t.hook[c] = w
      /\ \A d \in Components : d # c => t.hook[d] = s.hook[d]
  BY <1>1, <1>2, HookReplaced
<1> HIDE DEF t
<1>4. s.hook[c].queue = None
  BY DEF Sound, Placed
<1>5. \A p \in DOMAIN s.queues : c \notin s.queues[p].owners
  BY <1>1, <1>4, QueueTyped DEF Sound, Placed
<1>6. Placed(t)
  <2>1. \A p \in DOMAIN t.queues : \A d \in t.queues[p].owners :
           d \in Components /\ t.hook[d].queue = p
    <3> SUFFICES ASSUME NEW p \in DOMAIN s.queues, NEW d \in s.queues[p].owners
                 PROVE  d \in Components /\ t.hook[d].queue = p
      BY <1>3
    <3>1. d # c /\ d \in Components /\ s.hook[d].queue = p
      BY <1>5 DEF Sound, Placed
    <3> QED
      BY <1>3, <3>1
  <2>2. \A d \in Components : IF t.hook[d].phase = "out" THEN t.hook[d].queue = None
                              ELSE t.hook[d].queue \in DOMAIN t.queues
    BY <1>2, <1>3 DEF Sound, Placed
  <2>3. \A d \in Components : Own(d) /\ t.hook[d].phase # "out" =>
           /\ t.registered # t.hook[d].queue
           /\ \A e \in Components : e # d => t.hook[e].queue # t.hook[d].queue
    <3> SUFFICES ASSUME NEW d \in Components, Own(d), t.hook[d].phase # "out"
                 PROVE  /\ t.registered # t.hook[d].queue
                        /\ \A e \in Components : e # d => t.hook[e].queue # t.hook[d].queue
      OBVIOUS
    <3>1. CASE d = c
      BY <1>2, <1>3, <3>1 DEF Own
    <3>2. CASE d # c
      <4>1. s.hook[d].queue # q
        BY <1>3, <3>2 DEF Sound, Placed
      <4> QED
        BY <1>2, <1>3, <3>2, <4>1 DEF Sound, Placed
    <3> QED
      BY <3>1, <3>2
  <2> QED
    BY <1>3, <2>1, <2>2, <2>3 DEF Sound, Placed
<1>7. Registered(t)
  BY <1>3 DEF Sound, Registered
<1>8. Mounted(t, {}, {})
  <2> SUFFICES ASSUME NEW d \in Components
               PROVE  /\ t.hook[d].phase # "out" => (t.hook[d].phase = "mounted" <=> Owns(t, d))
                      /\ t.hook[d].phase = "rendered" => ~t.hook[d].hid
                      /\ t.hook[d].phase = "hidden" => t.hook[d].hid
    BY DEF Mounted
  <2>1. CASE d = c
    BY <1>2, <1>3, <1>5, <2>1 DEF Owns
  <2>2. CASE d # c
    <3>1. Owns(t, d) <=> Owns(s, d)
      BY <1>3, <2>2 DEF Owns
    <3> QED
      BY <1>3, <2>2, <3>1 DEF Sound, Mounted
  <2> QED
    BY <2>1, <2>2
<1>9. Private(t, {}, {})
  <2> SUFFICES ASSUME NEW d \in Components, Own(d)
               PROVE  /\ t.hook[d].phase # "crashed"
                      /\ t.hook[d].phase # "out" /\ ~t.hook[d].hid =>
                            ~t.queues[t.hook[d].queue].detached
                      /\ t.hook[d].phase = "hidden" => t.queues[t.hook[d].queue].detached
                      /\ t.hook[d].phase = "rendered" =>
                            /\ ~t.queues[t.hook[d].queue].given
                            /\ t.queues[t.hook[d].queue].status = "idle"
    BY DEF Private
  <2>1. CASE d = c
    BY <1>2, <1>3, <2>1 DEF Own, NewQueue
  <2>2. CASE d # c
    <3>1. Private(s, {}, {})
      BY DEF Sound
    <3> QED
      BY <1>3, <2>2, <3>1 DEF Private
  <2> QED
    BY <2>1, <2>2
<1>10. Reachable(t, loose, {})
  <2> SUFFICES ASSUME NEW p \in DOMAIN s.queues \ loose,
                      s.queues[p].status # "idle", ~s.queues[p].detached, s.registered # p
               PROVE  \E d \in Components : /\ Own(d) /\ t.hook[d].queue = p
                                            /\ t.hook[d].phase = "mounted" \/ d \in {}
    BY <1>3 DEF Reachable
  <2>1. PICK d \in Components : /\ Own(d) /\ s.hook[d].queue = p
                                /\ s.hook[d].phase = "mounted"
    BY DEF Sound, Reachable
  <2> QED
    BY <1>3, <2>1
<1>11. Keeps(s, t)
  BY <1>3 DEF Keeps
<1> QED
  BY <1>3, <1>6, <1>7, <1>8, <1>9, <1>10, <1>11 DEF Sound, t, w

-----------------------------------------------------------------------------
(* The work of a queue.                                                    *)

\* A component without the key that is there holds the queue.
Attended(s, q) ==
    \E c \in Components : Own(c) /\ s.hook[c].queue = q /\ s.hook[c].phase = "mounted"

WithStatus(s, q, x) == [s EXCEPT !.queues[q].status = x]

\* A queue that is in use changes its status: work that is not detached must be
\* registered, of a component that is there, or among the loose queues; a detached
\* queue keeps no failure.
LEMMA StatusIsSound ==
    ASSUME NEW s, NEW loose, Sound(s, loose, {}, {}),
           NEW q \in DOMAIN s.queues, NEW x \in {"idle", "working", "failed"},
           s.queues[q].given \/ s.queues[q].status # "idle",
           x = "failed" => ~s.queues[q].detached,
           x # "idle" /\ ~s.queues[q].detached =>
              s.registered = q \/ q \in loose \/ Attended(s, q)
    PROVE  LET t == WithStatus(s, q, x)
           IN  /\ Sound(t, loose, {}, {})
               /\ t.registered = s.registered /\ t.hook = s.hook
               /\ DOMAIN t.queues = DOMAIN s.queues
               /\ t.queues[q].status = x /\ t.queues[q].owners = s.queues[q].owners
               /\ \A p \in DOMAIN s.queues : p # q => t.queues[p] = s.queues[p]
<1> DEFINE r == [s.queues[q] EXCEPT !.status = x]
           t == [s EXCEPT !.queues[q] = r]
<1>1. s \in RetentionState
  BY DEF Sound
<1>2. s.queues[q] \in Queue
  BY <1>1, QueueTyped
<1>3. /\ r \in Queue /\ r.owners = s.queues[q].owners /\ r.given = s.queues[q].given
      /\ r.status = x /\ r.detached = s.queues[q].detached
  BY <1>2 DEF Queue
<1>4. WithStatus(s, q, x) = t
  BY DEF WithStatus
<1> HIDE DEF r
<1>5. /\ t \in RetentionState /\ t.hook = s.hook /\ t.registered = s.registered
      /\ DOMAIN t.queues = DOMAIN s.queues /\ t.queues[q] = r
      /\ \A p \in DOMAIN s.queues : p # q => t.queues[p] = s.queues[p]
  BY <1>1, <1>3, QueueReplaced
<1> HIDE DEF t
<1>6. \A p \in DOMAIN s.queues :
         /\ t.queues[p].owners = s.queues[p].owners /\ t.queues[p].given = s.queues[p].given
         /\ t.queues[p].detached = s.queues[p].detached
  BY <1>3, <1>5
<1>7. \A d \in Components : s.hook[d].phase # "out" => s.hook[d].queue \in DOMAIN s.queues
  BY DEF Sound, Placed
<1>8. Placed(t)
  <2>1. \A p \in DOMAIN t.queues : \A d \in t.queues[p].owners :
           d \in Components /\ t.hook[d].queue = p
    BY <1>5, <1>6 DEF Sound, Placed
  <2> QED
    BY <1>5, <2>1 DEF Sound, Placed
<1>9. Registered(t)
  <2>1. s.registered # None => ~t.queues[s.registered].detached
    BY <1>6 DEF Sound, Registered, Placed
  <2>2. \A p \in DOMAIN t.queues : \A d \in t.queues[p].owners : d \in Keyed => t.registered = p
    BY <1>5, <1>6 DEF Sound, Registered
  <2>3. \A p \in DOMAIN t.queues : t.queues[p].status = "failed" => ~t.queues[p].detached
    BY <1>3, <1>5, <1>6 DEF Sound, Registered
  <2> QED
    BY <1>5, <2>1, <2>2, <2>3 DEF Registered
<1>10. Mounted(t, {}, {})
  <2>1. \A d \in Components : s.hook[d].phase # "out" => (Owns(t, d) <=> Owns(s, d))
    BY <1>5, <1>6, <1>7 DEF Owns
  <2> QED
    BY <1>5, <2>1 DEF Sound, Mounted
<1>11. Private(t, {}, {})
  <2> SUFFICES ASSUME NEW d \in Components, Own(d)
               PROVE  /\ t.hook[d].phase # "crashed"
                      /\ t.hook[d].phase # "out" /\ ~t.hook[d].hid =>
                            ~t.queues[t.hook[d].queue].detached
                      /\ t.hook[d].phase = "hidden" => t.queues[t.hook[d].queue].detached
                      /\ t.hook[d].phase = "rendered" =>
                            /\ ~t.queues[t.hook[d].queue].given
                            /\ t.queues[t.hook[d].queue].status = "idle"
    BY DEF Private
  <2>1. Private(s, {}, {})
    BY DEF Sound
  <2>2. s.hook[d].phase = "rendered" => s.hook[d].queue # q
    BY <2>1 DEF Private
  <2> QED
    BY <1>5, <1>6, <1>7, <2>1, <2>2 DEF Private
<1>12. Reachable(t, loose, {})
  <2> SUFFICES ASSUME NEW p \in DOMAIN s.queues \ loose, t.queues[p].status # "idle",
                      ~t.queues[p].detached
               PROVE  \/ s.registered = p
                      \/ \E d \in Components : /\ Own(d) /\ s.hook[d].queue = p
                                               /\ s.hook[d].phase = "mounted" \/ d \in {}
    BY <1>5 DEF Reachable
  <2>1. CASE p = q
    BY <1>3, <1>5, <2>1 DEF Attended
  <2>2. CASE p # q
    BY <1>5, <2>2 DEF Sound, Reachable
  <2> QED
    BY <2>1, <2>2
<1> QED
  BY <1>3, <1>4, <1>5, <1>8, <1>9, <1>10, <1>11, <1>12 DEF Sound

-----------------------------------------------------------------------------
(* The actions.                                                            *)

\* What a step must not do to the unfinished work of the registered queue.
Unfinished ==
    \A q \in DOMAIN queues :
        registered = q /\ queues[q].status # "idle" /\ queues'[q].status # "idle"
            => \/ registered' = q
               \/ queues[q].timer /\ queues[q].owners = {}

\* A step that ends in a sound state keeps the invariant.
LEMMA BecomeSound ==
    ASSUME NEW t, Become(t), Sound(t, stale', {}, {}), IInv
    PROVE  IInv' /\ (Keeps(State, t) => Unfinished)
<1>1. State' = t
  BY DEF Become, State, Sound, RetentionState
<1>2. IInv'
  BY <1>1 DEF IInv
<1>3. queues = State.queues /\ registered = State.registered /\ State \in RetentionState
  BY DEF IInv, Sound, State
<1>4. queues' = t.queues /\ registered' = t.registered
  BY DEF Become
<1>5. Keeps(State, t) => Unfinished
  <2> SUFFICES ASSUME Keeps(State, t), NEW q \in DOMAIN queues, registered = q,
                      queues[q].status # "idle"
               PROVE  registered' = q
    BY DEF Unfinished
  <2>1. q # None
    BY <1>3, QueueTyped
  <2> QED
    BY <1>3, <1>4, <2>1 DEF Keeps
<1> QED
  BY <1>2, <1>5

\* A render, or one that is thrown away.
LEMMA RenderSound ==
    ASSUME IInv, NEW c \in Components, Render(c)
    PROVE  IInv' /\ Unfinished
<1>1. Sound(State, stale, {}, {}) /\ stale' = stale /\ State.hook = hook
  BY DEF IInv, Render, State
<1>2. CASE c \in Keyed
  <2> DEFINE s == GetMutationQueue(State)
             w == [Unused EXCEPT !.phase = "rendered", !.queue = s.registered]
             t == [s EXCEPT !.hook[c] = w]
  <2>1. Become(t)
    BY <1>2 DEF Render
  <2>2. /\ Sound(s, stale, {}, {}) /\ Keeps(State, s)
        /\ s.hook = hook /\ s.registered \in DOMAIN s.queues
    BY <1>1, GetIsSound
  <2> HIDE DEF s
  <2>3. s.hook[c].phase = "out"
    BY <2>2 DEF Render
  <2>4. Sound(t, stale, {}, {}) /\ Keeps(s, t)
    BY <1>2, <2>2, <2>3, TakeIsSound
  <2> HIDE DEF t
  <2>5. Keeps(State, t)
    BY <2>2, <2>4, KeepsIsTransitive
  <2> QED
    BY <1>1, <2>1, <2>4, <2>5, BecomeSound
<1>3. CASE c \notin Keyed
  <2> DEFINE s == Create(State, NewQueue)
             q == Len(s.queues)
             w == [Unused EXCEPT !.phase = "rendered", !.queue = q]
             t == [s EXCEPT !.hook[c] = w]
  <2>1. Become(t)
    BY <1>3 DEF Render
  <2>2. /\ Sound(s, stale, {}, {}) /\ Keeps(State, s)
        /\ s.hook = hook /\ s.registered = registered
        /\ q \in DOMAIN s.queues /\ q \notin DOMAIN queues /\ s.queues[q] = NewQueue
        /\ \A d \in Components : s.hook[d].queue # q
    BY <1>1, CreateIsSound DEF State
  <2>3. s.registered # q
    <3>1. registered = None \/ registered \in DOMAIN queues
      BY <1>1 DEF Sound, Placed, State
    <3> QED
      BY <2>2, <3>1, QueueTyped DEF Sound
  <2> HIDE DEF s
  <2>4. s.hook[c].phase = "out" /\ Own(c)
    BY <1>3, <2>2 DEF Render, Own
  <2> HIDE DEF q
  <2>5. Sound(t, stale, {}, {}) /\ Keeps(s, t)
    BY <2>2, <2>3, <2>4, TakeIsSound
  <2> HIDE DEF t
  <2>6. Keeps(State, t)
    BY <2>2, <2>5, KeepsIsTransitive
  <2> QED
    BY <1>1, <2>1, <2>5, <2>6, BecomeSound
<1> QED
  BY <1>2, <1>3

\* A component that was not shown, or has crashed, is gone.
LEMMA UnusedSound ==
    ASSUME IInv, NEW c \in Components, Discard(c) \/ Reset(c)
    PROVE  IInv' /\ Unfinished
<1> DEFINE t == [State EXCEPT !.hook[c] = Unused]
<1>1. Sound(State, stale, {}, {}) /\ stale' = stale
  BY DEF IInv, Discard, Reset
<1>2. State.hook[c].phase \in {"rendered", "crashed"}
  BY DEF Discard, Reset, State
<1>3. Become(t)
  BY DEF Become, Discard, Reset, State
<1>4. Unused \in Hook /\ Unused.phase = "out" /\ Unused.queue = None
  BY DEF Unused, Hook, None
<1>5. ~Owns(State, c)
  BY <1>1, <1>2 DEF Sound, Mounted
<1>6. Sound(t, stale, {} \ {c}, {} \ {c}) /\ Keeps(State, t)
  <2>1. State.hook[c].phase # "out" /\ State.hook[c].phase # "mounted" /\ c \notin {}
    BY <1>2
  <2>2. Unused.phase # "mounted" /\ Unused.phase # "hidden"
    BY <1>4
  <2>3. PICK e : e = {}
    OBVIOUS
  <2>4. Sound(State, stale, e, e) /\ c \notin e
    BY <1>1, <2>3
  <2>5. Sound(t, stale, e \ {c}, e \ {c}) /\ Keeps(State, t)
    BY ONLY <1>4, <1>5, <2>1, <2>2, <2>4, HookSettles, c \in Components
  <2> HIDE DEF t
  <2> QED
    BY <2>3, <2>5
<1>7. {} \ {c} = {}
  OBVIOUS
<1> HIDE DEF t
<1> QED
  BY <1>1, <1>3, <1>6, <1>7, BecomeSound

\* A commit in which a component leaves or is hidden.
LEMMA LeaveSound ==
    ASSUME IInv, NEW c \in Components, NEW hides \in BOOLEAN, Leave(c, hides)
    PROVE  IInv' /\ Unfinished
<1> DEFINE s == RunCleanup(State, c)
           t == Departed(s, c, hides)
<1>1. Sound(State, stale, {c}, {}) /\ stale' = stale
  BY SoundIsMonotone DEF IInv, Leave
<1>2. State.hook[c].phase = "mounted"
  BY DEF Leave, State
<1>3. Become(t)
  BY DEF Leave
<1>4. /\ Sound(s, stale, {c}, {}) /\ Keeps(State, s) /\ s.hook = State.hook /\ ~Owns(s, c)
  BY <1>1, <1>2, CleanupIsSound
<1> HIDE DEF s
<1>5. Sound(t, stale, {c} \ {c}, {} \ {c}) /\ Keeps(s, t)
  BY <1>2, <1>4, DepartedIsSound
<1> HIDE DEF t
<1>6. {c} \ {c} = {} /\ {} \ {c} = {}
  OBVIOUS
<1>7. Keeps(State, t)
  BY <1>4, <1>5, KeepsIsTransitive
<1> QED
  BY <1>1, <1>3, <1>5, <1>6, <1>7, BecomeSound

\* A commit in which a component is shown.
LEMMA ShowSound ==
    ASSUME IInv, NEW c \in Components, NEW strict \in BOOLEAN, Show(c, strict)
    PROVE  IInv' /\ Unfinished
<1> DEFINE s == Effects(State, c, strict)
           t == Arrived(s, c, strict)
<1>1. Sound(State, stale, {}, {c}) /\ stale' = stale
  BY SoundIsMonotone DEF IInv, Show
<1>2. State.hook[c].phase \in {"rendered", "hidden"}
  BY DEF Show, State
<1>3. Become(t)
  BY DEF Show
<1>4. Sound(s, stale, {}, {c}) /\ Keeps(State, s) /\ Shown(s, c)
  BY <1>1, <1>2, EffectsAreSound
<1> HIDE DEF s
<1>5. Sound(t, stale, {}, {c} \ {c}) /\ Keeps(s, t)
  BY <1>4, ArrivedIsSound
<1> HIDE DEF t
<1>6. {c} \ {c} = {}
  OBVIOUS
<1>7. Keeps(State, t)
  BY <1>4, <1>5, KeepsIsTransitive
<1> QED
  BY <1>1, <1>3, <1>5, <1>6, <1>7, BecomeSound

\* A commit in which a component takes the place of another: the cleanup of the one, the
\* effects of the other, then the microtasks of both.
LEMMA ReplaceSound ==
    ASSUME IInv, NEW c \in Components, NEW d \in Components,
           NEW hides \in BOOLEAN, NEW strict \in BOOLEAN, Replace(c, hides, d, strict)
    PROVE  IInv' /\ Unfinished
<1> DEFINE s == RunCleanup(State, c)
           u == Effects(s, d, strict)
           v == Departed(u, c, hides)
           t == Arrived(v, d, strict)
<1>1. Sound(State, stale, {c}, {d}) /\ stale' = stale
  BY SoundIsMonotone DEF IInv, Replace
<1>2. State.hook[c].phase = "mounted" /\ State.hook[d].phase \in {"rendered", "hidden"}
  BY DEF Replace, State
<1>3. Become(t)
  BY DEF Replace
<1>4. /\ Sound(s, stale, {c}, {d}) /\ Keeps(State, s) /\ s.hook = State.hook /\ ~Owns(s, c)
  BY <1>1, <1>2, CleanupIsSound
<1>5. c # d
  BY <1>2
<1> HIDE DEF s
<1>6. /\ Sound(u, stale, {c}, {d}) /\ Keeps(s, u) /\ Shown(u, d)
      /\ u.hook[c] = s.hook[c] /\ OwnersAdd(s, u, d)
  BY <1>2, <1>4, <1>5, EffectsAreSound
<1>7. ~Owns(u, c)
  \* The effects of d make nobody else an owner.
  <2>1. s.hook[c].queue \in DOMAIN s.queues
    BY <1>2, <1>4 DEF Sound, Placed
  <2>2. u.queues[s.hook[c].queue].owners \subseteq s.queues[s.hook[c].queue].owners \cup {d}
    BY <1>6, <2>1 DEF OwnersAdd
  <2>3. c \notin s.queues[s.hook[c].queue].owners
    BY <1>4 DEF Owns
  <2> HIDE DEF u
  <2> QED
    BY <1>5, <1>6, <2>2, <2>3 DEF Owns
<1> HIDE DEF u
<1>8. /\ Sound(v, stale, {c} \ {c}, {d} \ {c}) /\ Keeps(u, v)
      /\ v.hook[d] = u.hook[d]
      /\ \A q \in DOMAIN u.queues : v.queues[q].owners = u.queues[q].owners
  <2>1. c \in {c} /\ u.hook[c].phase = "mounted"
    BY <1>2, <1>4, <1>6
  <2> HIDE DEF v
  <2> QED
    BY ONLY <1>5, <1>6, <1>7, <2>1, DepartedIsSound, c \in Components, hides \in BOOLEAN DEF v
<1> HIDE DEF v
<1>9. {c} \ {c} = {} /\ {d} \ {c} = {d} /\ {d} \ {d} = {}
  BY <1>5
<1>10. Shown(v, d)
  <2>1. u.hook[d].queue \in DOMAIN u.queues
    BY <1>6 DEF Sound, Placed, Shown
  <2>2. Owns(v, d) <=> Owns(u, d)
    BY <1>8, <2>1 DEF Owns
  <2> QED
    BY <1>6, <1>8, <2>2 DEF Shown
<1>11. Sound(t, stale, {}, {}) /\ Keeps(v, t)
  <2>1. Sound(v, stale, {}, {d}) /\ d \in {d}
    BY <1>8, <1>9
  <2>2. Sound(t, stale, {}, {d} \ {d}) /\ Keeps(v, t)
    BY ONLY <1>10, <2>1, ArrivedIsSound, d \in Components, strict \in BOOLEAN
  <2> HIDE DEF t
  <2> QED
    BY <1>9, <2>2
<1> HIDE DEF t
<1>12. Keeps(State, t)
  BY <1>4, <1>6, <1>8, <1>11, KeepsIsTransitive
<1> QED
  BY <1>1, <1>3, <1>11, <1>12, BecomeSound

\* A queue of the present state changes its status.
LEMMA StatusChanges ==
    ASSUME IInv, NEW q \in DOMAIN queues, NEW x \in {"idle", "working", "failed"},
           NEW more, stale \subseteq more,
           queues[q].given \/ queues[q].status # "idle",
           x = "failed" => ~queues[q].detached,
           x # "idle" /\ ~queues[q].detached =>
              registered = q \/ q \in more \/ Attended(State, q)
    PROVE  LET t == [State EXCEPT !.queues[q].status = x]
           IN  /\ Sound(t, more, {}, {}) /\ t.registered = registered
               /\ DOMAIN t.queues = DOMAIN queues
               /\ t.queues[q].status = x
               /\ \A p \in DOMAIN queues : p # q => t.queues[p] = queues[p]
<1> DEFINE s == State
           t == [s EXCEPT !.queues[q].status = x]
<1>1. Sound(s, more, {}, {})
  <2>1. {} \subseteq {}
    OBVIOUS
  <2> QED
    BY <2>1, SoundIsMonotone DEF IInv
<1>2. s.queues = queues /\ s.registered = registered /\ s.hook = hook
  BY DEF State
<1> HIDE DEF s
<1>3. q \in DOMAIN s.queues /\ (s.queues[q].given \/ s.queues[q].status # "idle")
  BY <1>2
<1>4. /\ x = "failed" => ~s.queues[q].detached
      /\ x # "idle" /\ ~s.queues[q].detached =>
            s.registered = q \/ q \in more \/ Attended(s, q)
  BY <1>2 DEF s
<1>5. t = WithStatus(s, q, x)
  BY DEF WithStatus
<1> HIDE DEF t
<1>6. /\ Sound(t, more, {}, {}) /\ t.registered = s.registered
      /\ DOMAIN t.queues = DOMAIN s.queues
      /\ t.queues[q].status = x
      /\ \A p \in DOMAIN s.queues : p # q => t.queues[p] = s.queues[p]
  BY ONLY <1>1, <1>3, <1>4, <1>5, StatusIsSound, x \in {"idle", "working", "failed"}
<1> QED
  BY <1>2, <1>6 DEF t, s

\* A call: the queue was given to the application by a component that was shown, so
\* that it is not one that waits for its first effect.
LEMMA CallSound ==
    ASSUME IInv, NEW q \in DOMAIN queues, Call(q)
    PROVE  IInv' /\ Unfinished
<1> DEFINE t == [State EXCEPT !.queues[q].status = "working"]
<1>1. Sound(State, stale, {}, {}) /\ stale \subseteq stale'
  BY DEF IInv, Call
<1>2. State.queues = queues /\ State.registered = registered /\ State.hook = hook
  BY DEF State
<1>3. queues[q].given /\ queues[q].status = "idle" /\ ~queues[q].detached
  BY DEF Call
<1>4. Become(t)
  BY DEF Become, Call, State
<1>5. ASSUME registered # q, q \notin stale'
      PROVE  Attended(State, q)
  <2>1. PICK c \in Components \ Keyed : hook[c].queue = q
    BY <1>5 DEF Call
  <2>2. Own(c)
    BY <2>1 DEF Own
  <2>3. q # None
    BY <1>1, <1>2, QueueTyped DEF Sound
  <2>4. hook[c] \in Hook /\ hook[c].phase # "out"
    BY <1>1, <1>2, <2>1, <2>3 DEF Sound, RetentionState, Placed
  <2>5. hook[c].phase \notin {"rendered", "hidden", "crashed"}
    BY <1>1, <1>2, <1>3, <2>1, <2>2 DEF Sound, Private
  <2> QED
    BY <1>2, <2>1, <2>2, <2>4, <2>5 DEF Hook, Attended
<1>6. /\ Sound(t, stale', {}, {}) /\ t.registered = registered
      /\ \A p \in DOMAIN queues : p # q => t.queues[p] = queues[p]
  BY <1>1, <1>3, <1>5, StatusChanges
<1>7. Keeps(State, t)
  BY <1>1, <1>2, <1>3, <1>6 DEF Keeps, Sound, Placed
<1> HIDE DEF t
<1> QED
  BY <1>1, <1>4, <1>6, <1>7, BecomeSound DEF IInv

\* Work ends or is discarded, and the registry hears of it: the queue is idle, and if
\* nobody owns it, it is evicted.
LEMMA SettleSound ==
    ASSUME IInv, NEW q \in DOMAIN queues, queues[q].status # "idle", stale' = stale,
           Become(Notify([State EXCEPT !.queues[q].status = "idle"], q))
    PROVE  IInv' /\ Unfinished
<1> DEFINE s == [State EXCEPT !.queues[q].status = "idle"]
           t == Notify(s, q)
<1>1. Sound(State, stale, {}, {}) /\ Become(t)
  BY DEF IInv
<1>2. State.queues = queues /\ State.registered = registered /\ State.hook = hook
  BY DEF State
<1>3. /\ Sound(s, stale, {}, {}) /\ s.registered = registered
      /\ DOMAIN s.queues = DOMAIN queues
      /\ s.queues[q].status = "idle"
      /\ \A p \in DOMAIN queues : p # q => s.queues[p] = queues[p]
  BY StatusChanges
<1> HIDE DEF s
<1>4. /\ Sound(t, stale, {}, {}) /\ Keeps(s, t)
      /\ registered # q => t = s
      /\ registered = q => t.queues[q].status = "idle"
  <2>1. CASE s.registered = q /\ s.queues[q].owners = {} /\ s.queues[q].status = "idle"
    <3>1. t = Evict(s, q)
      BY <2>1 DEF Notify
    <3> HIDE DEF t
    <3>2. Sound(t, stale, {}, {}) /\ Keeps(s, t)
      BY <1>3, <2>1, <3>1, EvictIsSound
    <3>3. t.queues[q].status = "idle"
      <4> DEFINE gone == [s EXCEPT !.registered = None, !.queues[q].timer = FALSE]
      <4>1. t = gone
        BY <2>1, <3>1 DEF Evict
      <4>2. s \in RetentionState /\ s.queues[q] \in Queue /\ q \in DOMAIN s.queues
        BY <1>3, QueueTyped DEF Sound
      <4>3. gone.queues[q] = [s.queues[q] EXCEPT !.timer = FALSE]
        BY <4>2 DEF RetentionState
      <4> QED
        BY <2>1, <4>1, <4>2, <4>3 DEF Queue
    <3> QED
      BY <1>3, <2>1, <3>2, <3>3
  <2>2. CASE ~(s.registered = q /\ s.queues[q].owners = {} /\ s.queues[q].status = "idle")
    <3>1. t = s
      BY <2>2 DEF Notify
    <3> QED
      BY <1>3, <3>1 DEF Keeps
  <2> QED
    BY <2>1, <2>2
<1>5. queues' = t.queues /\ registered' = t.registered
  BY <1>1 DEF Become
<1> HIDE DEF t
<1>6. IInv'
  BY <1>1, <1>4, BecomeSound
<1>7. Unfinished
  <2> SUFFICES ASSUME NEW p \in DOMAIN queues, registered = p, queues'[p].status # "idle"
               PROVE  registered' = p
    BY DEF Unfinished
  <2>1. p # q
    BY <1>4, <1>5
  <2> QED
    BY <1>3, <1>4, <1>5, <2>1
<1> QED
  BY <1>6, <1>7

\* A write fails for good.
LEMMA FailSound ==
    ASSUME IInv, NEW q \in DOMAIN queues, Fail(q)
    PROVE  IInv' /\ Unfinished
<1>1. queues[q].status = "working" /\ stale' = stale
  BY DEF Fail
<1>2. CASE queues[q].detached
  BY <1>1, <1>2, SettleSound DEF Fail
<1>3. CASE ~queues[q].detached
  <2> DEFINE t == [State EXCEPT !.queues[q].status = "failed"]
  <2>1. Sound(State, stale, {}, {}) /\ Become(t)
    BY <1>3 DEF IInv, Fail
  <2>2. State.queues = queues /\ State.registered = registered /\ State.hook = hook
    BY DEF State
  <2>3. registered = q \/ q \in stale \/ Attended(State, q)
    BY <1>1, <1>3, <2>1, <2>2 DEF Sound, Reachable, Attended
  <2>4. /\ Sound(t, stale, {}, {}) /\ t.registered = registered
        /\ \A p \in DOMAIN queues : p # q => t.queues[p] = queues[p]
    BY <1>1, <1>3, <2>3, StatusChanges
  <2>5. queues' = t.queues /\ registered' = t.registered
    BY <2>1 DEF Become
  <2> HIDE DEF t
  <2> QED
    BY <1>1, <2>1, <2>4, <2>5, BecomeSound DEF Unfinished
<1> QED
  BY <1>2, <1>3

\* A failure is retried.
LEMMA RetrySound ==
    ASSUME IInv, NEW q \in DOMAIN queues, Retry(q)
    PROVE  IInv' /\ Unfinished
<1> DEFINE t == [State EXCEPT !.queues[q].status = "working"]
<1>1. Sound(State, stale, {}, {}) /\ stale' = stale /\ queues[q].status = "failed"
  BY DEF IInv, Retry
<1>2. State.queues = queues /\ State.registered = registered /\ State.hook = hook
  BY DEF State
<1>3. Become(t)
  BY DEF Become, Retry, State
<1>4. registered = q \/ q \in stale \/ Attended(State, q)
  BY <1>1, <1>2 DEF Sound, Reachable, Registered, Attended
<1>5. Sound(t, stale, {}, {}) /\ t.registered = registered
  BY <1>1, <1>4, StatusChanges
<1>6. registered' = registered
  BY DEF Retry
<1> HIDE DEF t
<1> QED
  BY <1>1, <1>3, <1>5, <1>6, BecomeSound DEF Unfinished

\* The retention time is over: only now may unfinished work lose its place.
LEMMA TimerFiresSound ==
    ASSUME IInv, NEW q \in DOMAIN queues, TimerFires(q)
    PROVE  IInv' /\ Unfinished
<1> DEFINE s == [State EXCEPT !.queues[q].timer = FALSE]
           t == Evict(s, q)
<1>1. Sound(State, stale, {}, {}) /\ stale' = stale /\ queues[q].timer /\ Become(t)
  BY DEF IInv, TimerFires
<1>2. State.queues = queues /\ State.registered = registered /\ State.hook = hook
  BY DEF State
<1>3. /\ Sound(s, stale, {}, {}) /\ SameHooks(State, s) /\ Keeps(State, s)
      /\ s.registered = registered
  BY <1>1, <1>2, TimerIsSound
<1> HIDE DEF s
<1>4. q \in DOMAIN s.queues /\ s.queues[q].owners = queues[q].owners
  BY <1>2, <1>3 DEF SameHooks
<1>5. /\ Sound(t, stale, {}, {})
      /\ registered # q \/ queues[q].owners # {} => Keeps(s, t)
  BY <1>3, <1>4, EvictIsSound
<1> HIDE DEF t
<1>6. IInv' /\ (Keeps(State, t) => Unfinished)
  BY <1>1, <1>5, BecomeSound
<1>7. CASE registered = q /\ queues[q].owners = {}
  BY <1>1, <1>6, <1>7 DEF Unfinished
<1>8. CASE ~(registered = q /\ queues[q].owners = {})
  BY <1>3, <1>5, <1>6, <1>8, KeepsIsTransitive
<1> QED
  BY <1>7, <1>8

-----------------------------------------------------------------------------
(* The theorems.                                                           *)

\* The invariant holds at first.
LEMMA InitSound == Init => IInv
<1> SUFFICES ASSUME Init
             PROVE  IInv
  OBVIOUS
<1>1. State.queues = << >> /\ State.registered = None /\ State.hook = hook
  BY DEF Init, State
<1>2. \A c \in Components : hook[c] = Unused
  BY DEF Init
<1>3. Unused \in Hook /\ Unused.phase = "out" /\ Unused.queue = None
  BY DEF Unused, Hook, None
<1>4. State \in RetentionState
  <2>1. << >> \in Seq(Queue) /\ None \in Nat /\ hook \in [Components -> Hook]
    BY <1>3 DEF Init, None
  <2> QED
    BY <2>1 DEF Init, State, RetentionState
<1>5. DOMAIN State.queues = {}
  BY <1>1
<1> QED
  BY <1>1, <1>2, <1>3, <1>4, <1>5
     DEF IInv, Sound, Placed, Registered, Mounted, Private, Reachable

\* Every step keeps the invariant, and the place of unfinished work.
LEMMA NextSound == IInv /\ [Next]_vars => IInv' /\ (Unfinished \/ UNCHANGED vars)
<1> SUFFICES ASSUME IInv, [Next]_vars
             PROVE  IInv' /\ (Unfinished \/ UNCHANGED vars)
  OBVIOUS
<1>1. ASSUME NEW c \in Components, Render(c) \/ Discard(c) \/ Reset(c)
      PROVE  IInv' /\ Unfinished
  BY <1>1, RenderSound, UnusedSound
<1>2. ASSUME NEW c \in Components, NEW hides \in BOOLEAN, Leave(c, hides)
      PROVE  IInv' /\ Unfinished
  BY <1>2, LeaveSound
<1>3. ASSUME NEW c \in Components, NEW strict \in BOOLEAN, Show(c, strict)
      PROVE  IInv' /\ Unfinished
  BY <1>3, ShowSound
<1>4. ASSUME NEW c \in Components, NEW d \in Components, NEW hides \in BOOLEAN,
             NEW strict \in BOOLEAN, Replace(c, hides, d, strict)
      PROVE  IInv' /\ Unfinished
  BY <1>4, ReplaceSound
<1>5. ASSUME NEW q \in DOMAIN queues,
             Call(q) \/ Finish(q) \/ Fail(q) \/ Retry(q) \/ DiscardFailure(q) \/ TimerFires(q)
      PROVE  IInv' /\ Unfinished
  <2>1. CASE Finish(q)
    BY <2>1, SettleSound DEF Finish
  <2>2. CASE DiscardFailure(q)
    BY <2>2, SettleSound DEF DiscardFailure
  <2> QED
    BY <1>5, <2>1, <2>2, CallSound, FailSound, RetrySound, TimerFiresSound
<1>6. CASE UNCHANGED vars
  <2>1. State' = State /\ stale' = stale
    BY <1>6 DEF vars, State
  <2> QED
    BY <1>6, <2>1 DEF IInv
<1> QED
  BY <1>1, <1>2, <1>3, <1>4, <1>5, <1>6 DEF Next

\* The registry and the hooks stay sound: who owns a queue holds it and is there, who
\* owns a keyed one owns the registered one, and what is not detached can be reached.
THEOREM RetentionInvariant == Spec => []IInv
<1>1. Init => IInv
  BY InitSound
<1>2. IInv /\ [Next]_vars => IInv'
  BY NextSound
<1> QED
  BY <1>1, <1>2, PTL DEF Spec

\* The invariant implies that a queue is there for its owner, and its failure for
\* whoever can decide about it.
LEMMA SoundIsReachable == IInv => QueuesAreReachable
<1> SUFFICES ASSUME IInv
             PROVE  QueuesAreReachable
  OBVIOUS
<1>1. Sound(State, stale, {}, {})
  BY DEF IInv
<1>2. State.queues = queues /\ State.registered = registered /\ State.hook = hook
  BY DEF State
<1>3. OwnersCanUseTheirQueue
  <2> SUFFICES ASSUME NEW c \in Components, hook[c].phase = "mounted", ~hook[c].hid
               PROVE  /\ ~queues[hook[c].queue].detached
                      /\ c \in Keyed => registered = hook[c].queue
    BY DEF OwnersCanUseTheirQueue
  <2>1. Owns(State, c) /\ hook[c].queue \in DOMAIN queues
    BY <1>1, <1>2 DEF Sound, Mounted, Placed
  <2>2. CASE c \in Keyed
    <3>1. registered = hook[c].queue
      BY <1>1, <1>2, <2>1, <2>2 DEF Sound, Registered, Owns
    <3>2. registered # None
      BY <1>1, <1>2, <2>1, <3>1, QueueTyped DEF Sound
    <3> QED
      BY <1>1, <1>2, <3>1, <3>2 DEF Sound, Registered
  <2>3. CASE c \notin Keyed
    BY <1>1, <1>2, <2>3 DEF Sound, Private, Own
  <2> QED
    BY <2>2, <2>3
<1>4. FailuresAreReachable
  <2> SUFFICES ASSUME NEW q \in DOMAIN queues \ stale, queues[q].status = "failed"
               PROVE  \/ registered = q
                      \/ \E c \in Components \ Keyed : hook[c].queue = q /\ hook[c].phase = "mounted"
    BY DEF FailuresAreReachable
  <2>1. ~queues[q].detached
    BY <1>1, <1>2 DEF Sound, Registered
  <2> QED
    BY <1>1, <1>2, <2>1 DEF Sound, Reachable, Own
<1> QED
  BY <1>3, <1>4 DEF QueuesAreReachable

\* A component that is shown and was never hidden can use its queue, those with the key
\* share the registered one, and a failure that waits for a decision is of a queue that
\* somebody can reach, whatever renders are thrown away, whatever is hidden or handed
\* over, and however timers and calls fall in between.
THEOREM QueuesStayReachable == Spec => []QueuesAreReachable
BY RetentionInvariant, SoundIsReachable, PTL

\* Unfinished work keeps its place in the registry until nobody has owned its queue for
\* the whole retention time.
THEOREM UnfinishedWorkIsKept == Spec => UnfinishedIsKept
<1>1. IInv /\ [Next]_vars => [Unfinished]_vars
  BY NextSound
<1>2. [Unfinished]_vars =>
         [\A q \in DOMAIN queues :
            registered = q /\ queues[q].status # "idle" /\ queues'[q].status # "idle"
                => \/ registered' = q
                   \/ queues[q].timer /\ queues[q].owners = {}]_vars
  BY DEF Unfinished
<1> QED
  BY <1>1, <1>2, RetentionInvariant, PTL DEF Spec, UnfinishedIsKept
=============================================================================
