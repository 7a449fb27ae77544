---------------------------- MODULE MCOfflineSync ----------------------------
EXTENDS OfflineSync, TLC

\* Passes are interchangeable, and so are documents.
Symmetry == Permutations(Pass) \cup Permutations(Doc)
=============================================================================
