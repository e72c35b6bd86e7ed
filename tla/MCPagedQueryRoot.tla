--------------------------- MODULE MCPagedQueryRoot ---------------------------
(* Three rows in pages of one.  Offset pages are fetched independently of each other, *)
(* and so allow for less at a time.                                                   *)
EXTENDS PagedQueryRoot

MCStarts == {{1, 3}, {1, 2, 3}}

MCMaxTurns == [cursor |-> 3, offset |-> 1]
=============================================================================
