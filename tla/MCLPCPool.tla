----------------------------- MODULE MCLPCPool -----------------------------
(* Three files for a quantum of 6 cells: one that fits at once, one whose   *)
(* hierarchy takes two quanta, one whose vectors and compression both push  *)
(* it over.                                                                 *)
EXTENDS LPCPool, TLC

CONSTANTS small, long, dense

Shapes ==
    small :> [build |-> 2, tags |-> 1, vecs |-> 1, excess |-> 0, comp |-> 2,
              slack |-> 0, interns |-> 1] @@
    long  :> [build |-> 7, tags |-> 2, vecs |-> 2, excess |-> 0, comp |-> 4,
              slack |-> 1, interns |-> 3] @@
    dense :> [build |-> 3, tags |-> 3, vecs |-> 2, excess |-> 6, comp |-> 8,
              slack |-> 2, interns |-> 0]
=============================================================================
