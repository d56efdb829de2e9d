--------------------------- MODULE MCPHPHandles ---------------------------
(* Symmetry for checking PHPHandles on small instances.                     *)
EXTENDS PHPHandles, TLC

Symmetry == Permutations(Procs) \cup Permutations(Blocks)
=============================================================================
