---------------------------- MODULE MCLPCCache ----------------------------
(* Which files are edited, and symmetry, for checking LPCCache on small     *)
(* instances.                                                               *)
EXTENDS LPCCache, TLC

IncludeEdits == [f \in Files |-> IF f = Main THEN 0 ELSE MaxVer]
AllEdits     == [f \in Files |-> MaxVer]

ProcSymmetry == Permutations(Procs)
=============================================================================
