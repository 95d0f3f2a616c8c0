---------------------------- MODULE MCPageTables ----------------------------
(* PageTables on a small instance: two entries per table, four virtual     *)
(* pages that share tables at different levels, two pages to map, and      *)
(* fewer free pages than the tables need, so that calls also fail half-way *)
(* down.                                                                   *)
EXTENDS PageTables, TLC

CONSTANTS t1, t2, t3, t4, t5, d1, d2

MCFrames == {Root, Page0, d1, d2, t1, t2, t3, t4, t5}
MCData == {d1, d2}
MCVirt == {0, 1, 2, 8}

\* Pages arrive full of words that look like present entries.
MCJunk == {[e \in 0 .. 1 |-> [frame |-> d1, flags |-> {"P", "W"}]]}

Symmetry == Permutations({t1, t2, t3, t4, t5})
=============================================================================
