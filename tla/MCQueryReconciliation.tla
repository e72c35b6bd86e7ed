------------------------ MODULE MCQueryReconciliation ------------------------
(* The reasons for which the queries of the runs are fetched anew. *)
EXTENDS QueryReconciliation

\* A query only events of its own service concern, and one that is told in every
\* other way.
OwnOrOther == { {"event", "refetch"}, {"related", "sweep", "manual"} }
=============================================================================
