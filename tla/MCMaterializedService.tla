------------------------ MODULE MCMaterializedService ------------------------
(* A small instance of MaterializedService for TLC. *)
EXTENDS MaterializedService

\* A list in the application's default order.
List == [skip |-> 0, limit |-> 0, ordered |-> TRUE, exact |-> TRUE, server |-> FALSE]

\* Two reconciliations forced on an unwatched root within a cooldown, the second after
\* an outage.
LostForceCases == { [asked |-> List, online |-> TRUE, left |-> 
        [cooldown |-> TRUE, writes |-> 2, turns |-> 1, outages |-> 1, failures |-> 0]] }

LostForceStarts == { << 1 >> }
=============================================================================
