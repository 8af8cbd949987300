---------------------------- MODULE MCAuthTokens ----------------------------
(* AuthTokens on small instances.                                           *)
EXTENDS AuthTokens, TLC

Symmetric == Permutations(Req) \cup Permutations(User)
             \cup Permutations(Email) \cup Permutations(Token)
=============================================================================
