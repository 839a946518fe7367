-------------------------- MODULE MCRefreshTokens --------------------------
(* TLC instance of RefreshTokens: identities are interchangeable.          *)
EXTENDS RefreshTokens, TLC

Symmetry ==
    Permutations(Token) \cup Permutations(Family)
        \cup Permutations(User) \cup Permutations(Caller)
=============================================================================
