---------------------- MODULE FetchEventJournal_proofs ----------------------
(***************************************************************************)
(* Proofs about the fetch journal, for any number of fetches and events    *)
(* and any limit: its invariants, and that it implements FetchLog.         *)
(***************************************************************************)
EXTENDS FetchEventJournal, SequenceTheorems, WellFoundedInduction, TLAPS

-----------------------------------------------------------------------------
(* Sequences and minima.                                                   *)

\* A non-empty set of naturals has a least element.
LEMMA LeastNatural ==
  ASSUME NEW S \in SUBSET Nat, S # {}
  PROVE  \E n \in S : \A m \in S : n <= m
<1> DEFINE R == { p \in Nat \X Nat : p[1] < p[2] }
<1>1. IsWellFoundedOn(R, Nat)
  BY NatLessThanWellFounded, Zenon DEF OpToRel
<1> HIDE DEF R
<1>2. \E n \in S : \A m \in S : ~ (<<m, n>> \in R)
  BY <1>1, WFMin
<1>3. \A n, m \in Nat : ~ (<<m, n>> \in R) => n <= m
  BY DEF R
<1> QED
  BY <1>2, <1>3

\* The first required index is the least one a safe fetch holds.
LEMMA FirstRequiredIndexIsLeast ==
  ASSUME NEW safe \in SUBSET Cursor, safe # {}, NEW index \in [Cursor -> Nat]
  PROVE  /\ FirstRequiredIndex(safe, index) \in Nat
         /\ \E c \in safe : FirstRequiredIndex(safe, index) = index[c]
         /\ \A c \in safe : FirstRequiredIndex(safe, index) <= index[c]
<1> DEFINE Indices == { index[c] : c \in safe }
<1>1. Indices \in SUBSET Nat /\ Indices # {}
  OBVIOUS
<1>2. \E n \in Indices : \A m \in Indices : n <= m
  BY <1>1, LeastNatural
<1>3. PICK n \in Indices : \A c \in safe : n <= index[c]
  BY <1>2
<1>4. /\ FirstRequiredIndex(safe, index) \in Indices
      /\ \A c \in safe : FirstRequiredIndex(safe, index) <= index[c]
  BY <1>3 DEF FirstRequiredIndex
<1> QED
  BY <1>1, <1>4

\* Length and elements of a suffix.
LEMMA SuffixProperties ==
  ASSUME NEW S, NEW s \in Seq(S), NEW n \in 0 .. Len(s)
  PROVE  /\ Suffix(s, n) \in Seq(S)
         /\ Len(Suffix(s, n)) = Len(s) - n
         /\ \A i \in 1 .. Len(s) - n : Suffix(s, n)[i] = s[n + i]
<1>1. Len(s) \in Nat /\ \A i \in 1 .. Len(s) : s[i] \in S
  BY ElementOfSeq, LenProperties
<1>2. \A i \in n + 1 .. Len(s) : s[i] \in S
  BY <1>1
<1>3. /\ Suffix(s, n) \in Seq(S)
      /\ Len(Suffix(s, n)) = IF n + 1 <= Len(s) THEN Len(s) - (n + 1) + 1 ELSE 0
      /\ \A i \in 1 .. Len(s) - (n + 1) + 1 : Suffix(s, n)[i] = s[n + 1 + i - 1]
  BY <1>1, <1>2, n + 1 \in Int, Len(s) \in Int, SubSeqProperties DEF Suffix
<1> QED
  BY <1>1, <1>3

\* A suffix of a suffix is a suffix.
LEMMA SuffixOfSuffix ==
  ASSUME NEW S, NEW s \in Seq(S), NEW n \in Nat, NEW m \in Nat, n <= m, m <= Len(s)
  PROVE  Suffix(Suffix(s, n), m - n) = Suffix(s, m)
<1>1. Len(s) \in Nat /\ n \in 0 .. Len(s) /\ m \in 0 .. Len(s)
  BY LenProperties
<1> DEFINE t == Suffix(s, n)
<1>2. /\ t \in Seq(S)
      /\ Len(t) = Len(s) - n
      /\ \A i \in 1 .. Len(s) - n : t[i] = s[n + i]
  BY <1>1, SuffixProperties
<1>3. /\ Suffix(s, m) \in Seq(S)
      /\ Len(Suffix(s, m)) = Len(s) - m
      /\ \A i \in 1 .. Len(s) - m : Suffix(s, m)[i] = s[m + i]
  BY <1>1, SuffixProperties
<1> HIDE DEF t
<1>4. m - n \in 0 .. Len(t)
  BY <1>1, <1>2
<1>5. /\ Suffix(t, m - n) \in Seq(S)
      /\ Len(Suffix(t, m - n)) = Len(t) - (m - n)
      /\ \A i \in 1 .. Len(t) - (m - n) : Suffix(t, m - n)[i] = t[(m - n) + i]
  BY <1>2, <1>4, SuffixProperties
<1>6. Len(Suffix(t, m - n)) = Len(Suffix(s, m))
  <2>1. \A l \in Nat : (l - n) - (m - n) = l - m
    OBVIOUS
  <2> QED
    BY <2>1, <1>1, <1>2, <1>3, <1>5
<1>7. ASSUME NEW i \in 1 .. Len(s) - m
      PROVE  Suffix(t, m - n)[i] = Suffix(s, m)[i]
  <2>1. i \in 1 .. Len(t) - (m - n) /\ (m - n) + i \in 1 .. Len(s) - n
    BY <1>1, <1>2
  <2>2. Suffix(t, m - n)[i] = s[n + ((m - n) + i)]
    BY <2>1, <1>2, <1>5
  <2>3. n + ((m - n) + i) = m + i
    BY <1>1
  <2> QED
    BY <2>2, <2>3, <1>3
<1>8. Suffix(t, m - n) = Suffix(s, m)
  BY <1>3, <1>5, <1>6, <1>7, SeqEqual
<1> QED
  BY <1>8 DEF t

\* Appending to a sequence appends to its suffixes.
LEMMA SuffixOfAppend ==
  ASSUME NEW S, NEW s \in Seq(S), NEW e \in S, NEW n \in 0 .. Len(s)
  PROVE  Suffix(Append(s, e), n) = Append(Suffix(s, n), e)
<1> DEFINE a == Append(s, e)
           t == Suffix(s, n)
<1>1. /\ Len(s) \in Nat
      /\ a \in Seq(S)
      /\ Len(a) = Len(s) + 1
      /\ \A i \in 1 .. Len(s) : a[i] = s[i]
      /\ a[Len(s) + 1] = e
  BY AppendProperties, LenProperties
<1>2. /\ t \in Seq(S)
      /\ Len(t) = Len(s) - n
      /\ \A i \in 1 .. Len(s) - n : t[i] = s[n + i]
  BY SuffixProperties
<1>3. /\ Append(t, e) \in Seq(S)
      /\ Len(Append(t, e)) = Len(t) + 1
      /\ \A i \in 1 .. Len(t) : Append(t, e)[i] = t[i]
      /\ Append(t, e)[Len(t) + 1] = e
  BY <1>2, AppendProperties
<1> HIDE DEF a, t
<1>4. n \in 0 .. Len(a)
  BY <1>1
<1>5. /\ Suffix(a, n) \in Seq(S)
      /\ Len(Suffix(a, n)) = Len(a) - n
      /\ \A i \in 1 .. Len(a) - n : Suffix(a, n)[i] = a[n + i]
  BY <1>1, <1>4, SuffixProperties
<1>6. ASSUME NEW i \in 1 .. Len(Suffix(a, n))
      PROVE  Suffix(a, n)[i] = Append(t, e)[i]
  <2>1. i \in 1 .. (Len(s) - n) + 1 /\ Suffix(a, n)[i] = a[n + i]
    BY <1>1, <1>5
  <2>2. CASE i = (Len(s) - n) + 1
    <3>1. n + i = Len(s) + 1 /\ i = Len(t) + 1
      BY <2>2, <1>1, <1>2
    <3> QED
      BY <3>1, <2>1, <1>1, <1>3
  <2>3. CASE i \in 1 .. Len(s) - n
    <3>1. n + i \in 1 .. Len(s) /\ i \in 1 .. Len(t)
      BY <2>3, <1>1, <1>2
    <3> QED
      BY <3>1, <2>1, <2>3, <1>1, <1>2, <1>3
  <2>4. Len(s) - n \in Nat
    BY <1>1
  <2>5. i = (Len(s) - n) + 1 \/ i \in 1 .. Len(s) - n
    BY <2>1, <2>4
  <2> QED
    BY <2>2, <2>3, <2>5, Zenon
<1>7. Len(Suffix(a, n)) = Len(Append(t, e))
  <2>1. \A l \in Nat : (l + 1) - n = (l - n) + 1
    OBVIOUS
  <2> QED
    BY <2>1, <1>1, <1>2, <1>3, <1>5
<1>8. Suffix(a, n) = Append(t, e)
  BY <1>3, <1>5, <1>6, <1>7, SeqEqual
<1> QED
  BY <1>8 DEF a, t

-----------------------------------------------------------------------------
(* What compaction does: it is invisible to the safe fetches, and what it  *)
(* leaves starts at one of them.                                           *)

\* #compact loses no event a safe fetch still needs and keeps none in vain.
LEMMA CompactedProperties ==
  ASSUME NEW journal \in Seq(Event), NEW safe \in SUBSET Cursor,
         NEW index \in [Cursor -> Nat],
         \A c \in safe : index[c] <= Len(journal)
  PROVE  LET kept == Compacted(journal, safe, index)
         IN  /\ kept.events \in Seq(Event)
             /\ kept.index \in [Cursor -> Nat]
             /\ kept.events # << >> => \E c \in safe : kept.index[c] = 0
             /\ \A c \in safe :
                   /\ kept.index[c] <= Len(kept.events)
                   /\ Len(kept.events) - kept.index[c] = Len(journal) - index[c]
                   /\ Suffix(kept.events, kept.index[c]) = Suffix(journal, index[c])
<1> DEFINE kept == Compacted(journal, safe, index)
<1>1. CASE safe = {}
  BY <1>1, EmptySeq DEF Compacted
<1>2. CASE safe # {}
  <2> DEFINE n == FirstRequiredIndex(safe, index)
  <2>1. /\ n \in Nat
        /\ \E c \in safe : n = index[c]
        /\ \A c \in safe : n <= index[c]
    BY <1>2, FirstRequiredIndexIsLeast
  <2>2. /\ kept.events = Suffix(journal, n)
        /\ kept.index = [c \in Cursor |-> IF c \in safe THEN index[c] - n ELSE index[c]]
    BY <1>2 DEF Compacted
  <2> HIDE DEF n, kept
  <2>3. Len(journal) \in Nat /\ n \in 0 .. Len(journal)
    BY <2>1, LenProperties
  <2>4. kept.events \in Seq(Event) /\ Len(kept.events) = Len(journal) - n
    BY <2>2, <2>3, SuffixProperties
  <2>5. \A c \in safe : kept.index[c] = index[c] - n
    BY <2>2
  <2>6. kept.index \in [Cursor -> Nat]
    BY <2>1, <2>2
  <2>7. \E c \in safe : kept.index[c] = 0
    BY <2>1, <2>5
  <2>8. ASSUME NEW c \in safe
        PROVE  /\ kept.index[c] <= Len(kept.events)
               /\ Len(kept.events) - kept.index[c] = Len(journal) - index[c]
               /\ Suffix(kept.events, kept.index[c]) = Suffix(journal, index[c])
    <3>1. /\ index[c] \in Nat
          /\ n <= index[c]
          /\ index[c] <= Len(journal)
          /\ kept.index[c] = index[c] - n
      BY <2>1, <2>5
    <3>2. /\ kept.index[c] <= Len(kept.events)
          /\ Len(kept.events) - kept.index[c] = Len(journal) - index[c]
      BY <3>1, <2>1, <2>3, <2>4
    <3>3. Suffix(Suffix(journal, n), index[c] - n) = Suffix(journal, index[c])
      BY <3>1, <2>1, SuffixOfSuffix
    <3> QED
      BY <3>1, <3>2, <3>3, <2>2
  <2> QED
    BY <2>4, <2>6, <2>7, <2>8 DEF kept
<1> QED
  BY <1>1, <1>2

-----------------------------------------------------------------------------
(* The inductive invariant.                                                *)

\* What one journal and the safe fetches it is kept for must satisfy; IInv is
\* TypeOK and this of the current state.
WellKept(journal, safe, index) ==
    /\ \A c \in safe : index[c] <= Len(journal) /\ Len(journal) - index[c] <= MaxEvents
    /\ journal # << >> => \E c \in safe : index[c] = 0

\* Compaction establishes it for fetches that are within the limit.
LEMMA CompactedIsWellKept ==
  ASSUME NEW journal \in Seq(Event), NEW safe \in SUBSET Cursor,
         NEW index \in [Cursor -> Nat],
         \A c \in safe : index[c] <= Len(journal) /\ Len(journal) - index[c] <= MaxEvents
  PROVE  LET kept == Compacted(journal, safe, index)
         IN  /\ kept.events \in Seq(Event)
             /\ kept.index \in [Cursor -> Nat]
             /\ WellKept(kept.events, safe, kept.index)
BY CompactedProperties DEF WellKept

\* The record action, with the journal and the late fetches it speaks of named.
LEMMA RecordKeeps ==
  ASSUME IInv, NEW e \in Event, Record(e)
  PROVE  LET journal == Append(events, e)
             late    == Late(Len(journal))
         IN  /\ journal \in Seq(Event)
             /\ Len(journal) = Len(events) + 1
             /\ Safe' = Safe \ late
             /\ \A c \in Safe : eventIndex[c] <= Len(events)
             /\ \A c \in Safe \ late : Len(journal) - eventIndex[c] <= MaxEvents
             /\ IF late = {} THEN events' = journal /\ eventIndex' = eventIndex
                ELSE /\ events' = Compacted(journal, Safe \ late, eventIndex).events
                     /\ eventIndex' = Compacted(journal, Safe \ late, eventIndex).index
<1> DEFINE journal == Append(events, e)
           late    == Late(Len(journal))
<1>1. events \in Seq(Event) /\ Len(events) \in Nat
  BY LenProperties DEF IInv, TypeOK
<1>2. journal \in Seq(Event) /\ Len(journal) = Len(events) + 1
  BY <1>1, AppendProperties
<1>3. Safe' = Safe \ late
  BY DEF Record, Safe, Late, IInv, TypeOK
<1>4. \A c \in Safe : eventIndex[c] \in Nat /\ eventIndex[c] <= Len(events)
  BY DEF IInv, TypeOK, Reach, Safe
<1>5. \A c \in Safe \ late : Len(journal) - eventIndex[c] <= MaxEvents
  <2>1. Len(journal) \in Nat
    BY <1>1, <1>2
  <2> QED
    BY <2>1, <1>4, MaxEventsAssumption DEF Late
<1>6. IF late = {} THEN events' = journal /\ eventIndex' = eventIndex
      ELSE /\ events' = Compacted(journal, Safe \ late, eventIndex).events
           /\ eventIndex' = Compacted(journal, Safe \ late, eventIndex).index
  BY DEF Record
<1> QED
  BY <1>2, <1>3, <1>4, <1>5, <1>6

\* The inductive invariant holds throughout.
THEOREM JournalInvariant == Spec => []IInv
<1> USE DEF IInv
<1>1. Init => IInv
  BY EmptySeq DEF Init, TypeOK, Reach, NothingRetainedInVain, Safe
<1>2. IInv /\ [Next]_vars => IInv'
  <2> SUFFICES ASSUME IInv, [Next]_vars PROVE IInv'
    OBVIOUS
  <2>0. /\ events \in Seq(Event)
        /\ Safe \in SUBSET Cursor
        /\ eventIndex \in [Cursor -> Nat]
        /\ \A c \in Safe : /\ eventIndex[c] <= Len(events)
                           /\ Len(events) - eventIndex[c] <= MaxEvents
    BY DEF TypeOK, Reach, Safe
  <2>1. ASSUME NEW c \in Cursor, Begin(c) PROVE IInv'
    <3> DEFINE kept == Compacted(events, Safe, eventIndex)
    <3>1. /\ kept.events \in Seq(Event)
          /\ kept.index \in [Cursor -> Nat]
          /\ WellKept(kept.events, Safe, kept.index)
      BY <2>0, CompactedIsWellKept
    <3>2. events' = kept.events /\ eventIndex' = [kept.index EXCEPT ![c] = Len(kept.events)]
      BY <2>1 DEF Begin
    <3> HIDE DEF kept
    <3>3. Len(kept.events) \in Nat
      BY <3>1, LenProperties
    <3>4. TypeOK'
      BY <2>1, <3>1, <3>2, <3>3 DEF Begin, TypeOK
    <3>5. Safe' = Safe \union {c} /\ c \notin Safe
      BY <2>1 DEF Begin, Safe, TypeOK
    <3>6. eventIndex'[c] = Len(events') /\ \A d \in Safe : eventIndex'[d] = kept.index[d]
      BY <3>1, <3>2, <3>5, <2>0
    <3>7. Reach'
      BY <3>1, <3>2, <3>3, <3>5, <3>6, MaxEventsAssumption DEF Reach, WellKept
    <3>8. NothingRetainedInVain'
      BY <3>1, <3>2, <3>5, <3>6 DEF NothingRetainedInVain, WellKept
    <3> QED
      BY <3>4, <3>7, <3>8
  <2>2. ASSUME NEW c \in Cursor, End(c) PROVE IInv'
    <3> DEFINE kept == Compacted(events, Safe \ {c}, eventIndex)
    <3>1. /\ kept.events \in Seq(Event)
          /\ kept.index \in [Cursor -> Nat]
          /\ WellKept(kept.events, Safe \ {c}, kept.index)
      BY <2>0, CompactedIsWellKept
    <3>2. events' = kept.events /\ eventIndex' = kept.index
      BY <2>2 DEF End
    <3> HIDE DEF kept
    <3>3. TypeOK'
      BY <2>2, <3>1, <3>2 DEF End, TypeOK
    <3>4. Safe' = Safe \ {c}
      BY <2>2 DEF End, Safe
    <3> QED
      BY <3>1, <3>2, <3>3, <3>4 DEF WellKept, Reach, NothingRetainedInVain
  <2>3. ASSUME NEW e \in Event, Record(e) PROVE IInv'
    <3> DEFINE journal == Append(events, e)
               late    == Late(Len(journal))
               kept    == Compacted(journal, Safe \ late, eventIndex)
    <3>1. /\ journal \in Seq(Event)
          /\ Len(journal) = Len(events) + 1
          /\ Safe' = Safe \ late
          /\ \A c \in Safe : eventIndex[c] <= Len(events)
          /\ \A c \in Safe \ late : Len(journal) - eventIndex[c] <= MaxEvents
          /\ IF late = {} THEN events' = journal /\ eventIndex' = eventIndex
             ELSE events' = kept.events /\ eventIndex' = kept.index
      BY <2>3, RecordKeeps
    <3>2. late \in SUBSET Safe /\ Len(events) \in Nat
      BY <2>0, LenProperties DEF Late
    <3>3. \A c \in Safe : eventIndex[c] \in Nat
      BY <2>0
    <3> HIDE DEF journal, late, kept
    <3>4. /\ events' \in Seq(Event)
          /\ eventIndex' \in [Cursor -> Nat]
          /\ WellKept(events', Safe', eventIndex')
      <4>1. \A c \in Safe \ late : eventIndex[c] <= Len(journal)
        BY <3>1, <3>2, <3>3
      <4>2. CASE late = {}
        <5>1. \E c \in Safe : eventIndex[c] = 0
          <6>1. CASE events # << >>
            BY <6>1 DEF NothingRetainedInVain
          <6>2. CASE events = << >>
            <7>1. PICK c \in Safe : TRUE
              BY <2>3 DEF Record
            <7> QED
              BY <7>1, <6>2, <2>0, EmptySeq, <3>3
          <6> QED
            BY <6>1, <6>2
        <5> QED
          BY <5>1, <4>1, <4>2, <3>1, <2>0 DEF WellKept
      <4>3. CASE late # {}
        <5>1. Safe \ late \in SUBSET Cursor
          BY <2>0
        <5>2. /\ kept.events \in Seq(Event)
              /\ kept.index \in [Cursor -> Nat]
              /\ WellKept(kept.events, Safe \ late, kept.index)
          BY <5>1, <4>1, <3>1, <2>0, CompactedIsWellKept DEF kept
        <5> QED
          BY <5>2, <4>3, <3>1
      <4> QED
        BY <4>2, <4>3
    <3>5. overflowed' \in [Cursor -> BOOLEAN]
      <4>1. \E S \in SUBSET Cursor :
               overflowed' = [c \in Cursor |-> overflowed[c] \/ c \in S]
        BY <2>0, <3>2, <2>3 DEF Record, late, journal
      <4> QED
        BY <4>1
    <3>6. TypeOK'
      BY <3>4, <3>5, <2>3 DEF Record, TypeOK
    <3> QED
      BY <3>4, <3>6 DEF WellKept, Reach, NothingRetainedInVain
  <2>4. CASE UNCHANGED vars
    BY <2>4 DEF vars, TypeOK, Reach, NothingRetainedInVain, Safe
  <2> QED
    BY <2>1, <2>2, <2>3, <2>4 DEF Next
<1> QED
  BY <1>1, <1>2, PTL DEF Spec

\* Every index into the journal is a number and every fetch in flight has been
\* handed out, however the operations interleave.
THEOREM JournalTypes == Spec => []TypeOK
<1>1. IInv => TypeOK
  BY DEF IInv
<1> QED
  BY <1>1, JournalInvariant, PTL

\* The journal never holds more events than the limit, however many fetches
\* overlap ("Bounded event history").
THEOREM JournalStaysBounded == Spec => []JournalIsBounded
<1>1. IInv => JournalIsBounded
  <2> SUFFICES ASSUME IInv PROVE Len(events) <= MaxEvents
    BY DEF JournalIsBounded
  <2>1. Len(events) \in Nat
    BY LenProperties DEF IInv, TypeOK
  <2>2. CASE events = << >>
    BY <2>2, EmptySeq, MaxEventsAssumption
  <2>3. CASE events # << >>
    BY <2>1, <2>3 DEF IInv, Reach, NothingRetainedInVain
  <2> QED
    BY <2>2, <2>3
<1> QED
  BY <1>1, JournalInvariant, PTL

\* A non-empty journal starts at the cursor of a fetch that can still use it.
THEOREM NothingIsRetainedInVain == Spec => []NothingRetainedInVain
<1>1. IInv => NothingRetainedInVain
  BY DEF IInv
<1> QED
  BY <1>1, JournalInvariant, PTL

-----------------------------------------------------------------------------
(* The shared journal implements a private log per fetch.                  *)

\* What every cursor reads, by the set of safe fetches.
ViewBySafety ==
    \A c \in Cursor :
        Read(c) = IF c \in Safe
                  THEN [events |-> Suffix(events, eventIndex[c]), overflowed |-> FALSE]
                  ELSE [events |-> << >>, overflowed |-> TRUE]

LEMMA ReadBySafety == TypeOK => ViewBySafety
<1> SUFFICES ASSUME TypeOK, NEW c \in Cursor
             PROVE  Read(c) = IF c \in Safe
                      THEN [events |-> Suffix(events, eventIndex[c]), overflowed |-> FALSE]
                      ELSE [events |-> << >>, overflowed |-> TRUE]
  BY DEF ViewBySafety
<1>1. overflowed[c] \in BOOLEAN
  BY DEF TypeOK
<1>2. CASE c \in Safe
  <2>1. c \in active /\ overflowed[c] = FALSE
    BY <1>1, <1>2 DEF Safe
  <2> QED
    BY <1>2, <2>1 DEF Read
<1>3. CASE c \notin Safe
  BY <1>1, <1>3 DEF Read, Safe
<1> QED
  BY <1>2, <1>3

LEMMA ReadBySafetyNext == TypeOK' => ViewBySafety'
BY ReadBySafety, PTL

\* Compaction does not change what the safe fetches read.
LEMMA CompactedIsInvisible ==
  ASSUME IInv, NEW safe \in SUBSET Safe
  PROVE  LET kept == Compacted(events, safe, eventIndex)
         IN  \A c \in safe : Suffix(kept.events, kept.index[c]) = Suffix(events, eventIndex[c])
<1>1. /\ events \in Seq(Event)
      /\ safe \in SUBSET Cursor
      /\ eventIndex \in [Cursor -> Nat]
      /\ \A c \in safe : eventIndex[c] <= Len(events)
  BY DEF IInv, TypeOK, Reach, Safe
<1> QED
  BY <1>1, CompactedProperties

\* begin() opens an empty log and leaves the others alone.
LEMMA BeginRefines ==
  ASSUME IInv, IInv', NEW c \in Cursor, Begin(c)
  PROVE  FetchLogSpec!Begin(c)
<1> DEFINE kept == Compacted(events, Safe, eventIndex)
<1>1. events' = kept.events /\ eventIndex' = [kept.index EXCEPT ![c] = Len(kept.events)]
  BY DEF Begin
<1>2. /\ Safe' = Safe \union {c}
      /\ c \notin Safe
      /\ c \notin active
      /\ active' = active \union {c}
      /\ Safe \in SUBSET Cursor
  BY DEF Begin, Safe, IInv, TypeOK
<1>3. kept.index \in [Cursor -> Nat]
  BY <1>2, CompactedProperties DEF IInv, TypeOK, Reach
<1>4. \A d \in Safe : Suffix(kept.events, kept.index[d]) = Suffix(events, eventIndex[d])
  BY CompactedIsInvisible
<1> HIDE DEF kept
<1>5. eventIndex'[c] = Len(events') /\ \A d \in Cursor \ {c} : eventIndex'[d] = kept.index[d]
  BY <1>1, <1>3
<1>6. ViewBySafety /\ ViewBySafety'
  BY ReadBySafety, ReadBySafetyNext DEF IInv
<1>7. Read(c)' = [events |-> << >>, overflowed |-> FALSE]
  <2>1. events' \in Seq(Event) /\ Len(events') \in Nat
    BY LenProperties DEF IInv, TypeOK
  <2>2. Suffix(events', eventIndex'[c]) = << >>
    BY <2>1, <1>5, SubSeqEmpty DEF Suffix
  <2> QED
    BY <2>2, <1>2, <1>6 DEF ViewBySafety
<1>8. ASSUME NEW d \in Cursor, d # c PROVE Read(d)' = Read(d)
  <2>1. CASE d \in Safe
    BY <2>1, <1>1, <1>2, <1>4, <1>5, <1>6, <1>8 DEF ViewBySafety
  <2>2. CASE d \notin Safe
    BY <2>2, <1>2, <1>6, <1>8 DEF ViewBySafety
  <2> QED
    BY <2>1, <2>2
<1>9. [d \in Cursor |-> Read(d)]' = [[d \in Cursor |-> Read(d)] EXCEPT ![c] = FetchLogSpec!Fresh]
  BY <1>7, <1>8 DEF FetchLogSpec!Fresh
<1> QED
  BY <1>2, <1>9 DEF FetchLogSpec!Begin

\* end() takes the log of its cursor away and leaves the others alone.
LEMMA EndRefines ==
  ASSUME IInv, IInv', NEW c \in Cursor, End(c)
  PROVE  FetchLogSpec!End(c)
<1> DEFINE kept == Compacted(events, Safe \ {c}, eventIndex)
<1>1. events' = kept.events /\ eventIndex' = kept.index
  BY DEF End
<1>2. Safe' = Safe \ {c} /\ c \in active /\ active' = active \ {c}
  BY DEF End, Safe
<1>3. \A d \in Safe \ {c} : Suffix(kept.events, kept.index[d]) = Suffix(events, eventIndex[d])
  BY CompactedIsInvisible
<1> HIDE DEF kept
<1>4. ViewBySafety /\ ViewBySafety'
  BY ReadBySafety, ReadBySafetyNext DEF IInv
<1>5. Read(c)' = [events |-> << >>, overflowed |-> TRUE]
  BY <1>2, <1>4 DEF ViewBySafety
<1>6. ASSUME NEW d \in Cursor, d # c PROVE Read(d)' = Read(d)
  <2>1. CASE d \in Safe
    BY <2>1, <1>1, <1>2, <1>3, <1>4, <1>6 DEF ViewBySafety
  <2>2. CASE d \notin Safe
    BY <2>2, <1>2, <1>4, <1>6 DEF ViewBySafety
  <2> QED
    BY <2>1, <2>2
<1>7. [d \in Cursor |-> Read(d)]' = [[d \in Cursor |-> Read(d)] EXCEPT ![c] = FetchLogSpec!Unsafe]
  BY <1>5, <1>6 DEF FetchLogSpec!Unsafe
<1> QED
  BY <1>2, <1>7 DEF FetchLogSpec!End

\* record() extends every log by the event, or declares it overflowed.
LEMMA RecordRefines ==
  ASSUME IInv, IInv', NEW e \in Event, Record(e)
  PROVE  FetchLogSpec!Record(e)
<1> DEFINE journal == Append(events, e)
           late    == Late(Len(journal))
           kept    == Compacted(journal, Safe \ late, eventIndex)
<1>1. /\ journal \in Seq(Event)
      /\ Len(journal) = Len(events) + 1
      /\ Safe' = Safe \ late
      /\ \A c \in Safe : eventIndex[c] <= Len(events)
      /\ IF late = {} THEN events' = journal /\ eventIndex' = eventIndex
         ELSE events' = kept.events /\ eventIndex' = kept.index
  BY RecordKeeps
<1>2. /\ events \in Seq(Event)
      /\ Len(events) \in Nat
      /\ Safe \in SUBSET Cursor
      /\ eventIndex \in [Cursor -> Nat]
      /\ \A c \in Safe : eventIndex[c] \in 0 .. Len(events)
      /\ \A c \in Safe : Len(events) - eventIndex[c] <= MaxEvents
  BY LenProperties DEF IInv, TypeOK, Reach, Safe
<1>3. /\ late \in SUBSET Safe
      /\ \A c \in Safe : c \in late <=> Len(events) - eventIndex[c] = MaxEvents
  BY <1>1, <1>2, MaxEventsAssumption DEF Late
<1>4. \A c \in Safe \ late : Suffix(events', eventIndex'[c]) = Suffix(journal, eventIndex[c])
  <2>1. CASE late = {}
    BY <2>1, <1>1
  <2>2. CASE late # {}
    <3> DEFINE rest == Safe \ late
    <3>1. /\ rest \in SUBSET Cursor
          /\ journal \in Seq(Event)
          /\ eventIndex \in [Cursor -> Nat]
      BY <1>1, <1>2
    <3>2. \A c \in rest : eventIndex[c] <= Len(journal)
      BY <1>1, <1>2
    <3>3. kept = Compacted(journal, rest, eventIndex)
      OBVIOUS
    <3>4. events' = kept.events /\ eventIndex' = kept.index
      BY <2>2, <1>1
    <3> HIDE DEF late, journal, rest, kept
    <3>5. \A c \in rest :
             Suffix(kept.events, kept.index[c]) = Suffix(journal, eventIndex[c])
      BY <3>1, <3>2, <3>3, CompactedProperties
    <3> QED
      BY <3>4, <3>5 DEF rest
  <2> QED
    BY <2>1, <2>2
<1> HIDE DEF kept, late
<1>5. \A c \in Safe : Suffix(journal, eventIndex[c]) = Append(Suffix(events, eventIndex[c]), e)
  BY <1>2, SuffixOfAppend
<1>6. ViewBySafety /\ ViewBySafety'
  BY ReadBySafety, ReadBySafetyNext DEF IInv
<1>7. ASSUME NEW c \in Cursor PROVE Read(c)' = FetchLogSpec!Extend(Read(c), e)
  <2>1. CASE c \notin Safe
    BY <2>1, <1>1, <1>6 DEF ViewBySafety, FetchLogSpec!Extend, FetchLogSpec!Unsafe
  <2>2. CASE c \in Safe
    <3>1. /\ Read(c).events = Suffix(events, eventIndex[c])
          /\ Read(c).overflowed = FALSE
      BY <2>2, <1>6 DEF ViewBySafety
    <3>2. Len(Read(c).events) = Len(events) - eventIndex[c]
      BY <2>2, <3>1, <1>2, SuffixProperties
    <3>3. CASE c \in late
      BY <2>2, <3>1, <3>2, <3>3, <1>1, <1>3, <1>6
         DEF ViewBySafety, FetchLogSpec!Extend, FetchLogSpec!Unsafe
    <3>4. CASE c \notin late
      <4>1. Read(c)' = [events |-> Append(Suffix(events, eventIndex[c]), e), overflowed |-> FALSE]
        BY <2>2, <3>4, <1>1, <1>4, <1>5, <1>6 DEF ViewBySafety
      <4> QED
        BY <2>2, <3>1, <3>2, <3>4, <4>1, <1>3 DEF FetchLogSpec!Extend
    <3> QED
      BY <3>3, <3>4
  <2> QED
    BY <2>1, <2>2
<1> QED
  BY <1>7 DEF FetchLogSpec!Record, Record

\* Each fetch reads what it would read from a log of its own: sharing one
\* sequence, compaction and other fetches' overflow are invisible to it.
THEOREM JournalImplementsFetchLog == Spec => ImplementsFetchLog
<1>1. Init => FetchLogSpec!Init
  BY DEF Init, Read, FetchLogSpec!Init, FetchLogSpec!Unsafe
<1>2. IInv /\ IInv' /\ [Next]_vars => [FetchLogSpec!Next]_(FetchLogSpec!vars)
  <2> SUFFICES ASSUME IInv, IInv', [Next]_vars
               PROVE  [FetchLogSpec!Next]_(FetchLogSpec!vars)
    OBVIOUS
  <2>1. CASE \E c \in Cursor : Begin(c)
    BY <2>1, BeginRefines DEF FetchLogSpec!Next
  <2>2. CASE \E c \in Cursor : End(c)
    BY <2>2, EndRefines DEF FetchLogSpec!Next
  <2>3. CASE \E e \in Event : Record(e)
    BY <2>3, RecordRefines DEF FetchLogSpec!Next
  <2>4. CASE UNCHANGED vars
    BY <2>4 DEF vars, FetchLogSpec!vars, Read
  <2> QED
    BY <2>1, <2>2, <2>3, <2>4 DEF Next
<1> QED
  BY <1>1, <1>2, JournalInvariant, PTL DEF Spec, ImplementsFetchLog, FetchLogSpec!Spec
=============================================================================
