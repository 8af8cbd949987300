-------------------------- MODULE MCShelfRequests --------------------------
(* ShelfRequests on small instances.                                        *)
EXTENDS ShelfRequestsInv, TLC

MCPagesTotal == [c \in Book |-> 1]

Symmetric == Permutations(Req) \cup Permutations(User)
             \cup Permutations(UserBookId) \cup Permutations(SessionId)
=============================================================================
