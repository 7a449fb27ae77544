-------------------------- MODULE MCRefreshSession --------------------------
EXTENDS RefreshSession, TLC

\* Tokens, families and transactions are interchangeable.
Symmetry == Permutations(Token) \cup Permutations(Family) \cup Permutations(Txn)
=============================================================================
