-------------------------- MODULE MC_RefreshSessions --------------------------
EXTENDS RefreshSessions, TLC

Symmetry == Permutations(Calls) \cup Permutations(Tokens) \cup Permutations(Users)
=============================================================================
