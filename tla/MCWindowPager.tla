---------------------------- MODULE MCWindowPager ----------------------------
(* Blocks of two rows, of which one is retained beyond what readers need: a    *)
(* service that counts its rows, by offset and by cursor, and one that does    *)
(* not.                                                                        *)
EXTENDS WindowPager

MCModes == {m \in [cursor : BOOLEAN, totals : BOOLEAN] : ~m.cursor => m.totals}

MCRanges == {[start |-> 0, end |-> 2], [start |-> 2, end |-> 3]}
MCStarts == {{1, 2, 4}}
=============================================================================
