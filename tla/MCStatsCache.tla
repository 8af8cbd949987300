---------------------------- MODULE MCStatsCache ----------------------------
(* StatsCache on small instances.                                           *)
EXTENDS StatsCache, TLC

Symmetric == Permutations(User) \cup Permutations(Reader) \cup Permutations(Writer)
=============================================================================
