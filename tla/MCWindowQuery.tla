---------------------------- MODULE MCWindowQuery ----------------------------
(* The queries the runs of WindowQuery subscribe to. *)
EXTENDS WindowQuery

Asked(skip, limit, ordered, exact) ==
    [skip |-> skip, limit |-> limit, ordered |-> ordered, exact |-> exact]

\* A first page with and without a known order, a complete list, a later page.
AllPages == { Asked(0, 2, TRUE, FALSE), Asked(0, 2, FALSE, FALSE),
              Asked(0, 0, FALSE, TRUE), Asked(1, 2, TRUE, FALSE) }
=============================================================================
