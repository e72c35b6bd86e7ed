--------------------------- MODULE MCRelationalQuery ---------------------------
(* Two rows, of which the root has one or none at first.                       *)
EXTENDS RelationalQuery

MCStarts == {{1}}
=============================================================================
