----------------------------- MODULE MCCacheDB -----------------------------
(* Model values and symmetry for checking CacheDB on small instances.      *)
EXTENDS CacheDB, TLC

Symmetry == Permutations(Procs) \cup Permutations(Keys) \cup Permutations(Inodes)
=============================================================================
