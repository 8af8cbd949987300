--------------------------- MODULE MCShelfCounter ---------------------------
(* ShelfCounter on a small instance.                                        *)
EXTENDS ShelfCounter, TLC

MCPagesTotal == [c \in Book |-> 1]

Symmetric == Permutations(Req) \cup Permutations(SessionId)
=============================================================================
