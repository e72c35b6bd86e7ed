------------------------------ MODULE FetchLog ------------------------------
(***************************************************************************)
(* What the fetch journal promises to a fetch in flight: a private log of  *)
(* every cache event of its service since the fetch was dispatched, or the *)
(* verdict that the log overflowed.  No fetch is affected by another one.  *)
(*                                                                         *)
(* This is the abstract specification; FetchEventJournal, which shares one *)
(* bounded sequence between all fetches, implements it.                    *)
(***************************************************************************)
EXTENDS Naturals, Sequences

CONSTANTS
    Cursor,     \* identities of fetches; each is begun at most once
    Event,      \* cache events of the service
    MaxEvents   \* how many events a fetch may fall behind

VARIABLES
    active,     \* the fetches in flight
    view        \* what each cursor reads: [events, overflowed]

vars == <<active, view>>

\* The answer for a cursor that is not in flight, or that fell too far behind.
Unsafe == [events |-> << >>, overflowed |-> TRUE]
Fresh  == [events |-> << >>, overflowed |-> FALSE]

Init ==
    /\ active = {}
    /\ view = [c \in Cursor |-> Unsafe]

Begin(c) ==
    /\ c \notin active
    /\ active' = active \union {c}
    /\ view' = [view EXCEPT ![c] = Fresh]

\* The log of one cursor after one more event.
Extend(v, e) ==
    IF v.overflowed \/ Len(v.events) = MaxEvents
    THEN Unsafe
    ELSE [events |-> Append(v.events, e), overflowed |-> FALSE]

Record(e) ==
    /\ view' = [c \in Cursor |-> Extend(view[c], e)]
    /\ UNCHANGED active

End(c) ==
    /\ c \in active
    /\ active' = active \ {c}
    /\ view' = [view EXCEPT ![c] = Unsafe]

Next ==
    \/ \E c \in Cursor : Begin(c) \/ End(c)
    \/ \E e \in Event : Record(e)

Spec == Init /\ [][Next]_vars
=============================================================================
