--------------------------- MODULE MCBookLifecycle ---------------------------
(* BookLifecycle on small instances.                                        *)
EXTENDS BookLifecycle, TLC

Symmetric == Permutations(Req) \cup Permutations(Sweeper)
=============================================================================
