--------------------------- MODULE MCRefreshTokens ---------------------------
(* Refresh tokens for TLC.  Tokens and connections are interchangeable.    *)
EXTENDS RefreshTokens, TLC

Symmetry == Permutations(Tokens) \cup Permutations(Connections)
=============================================================================
