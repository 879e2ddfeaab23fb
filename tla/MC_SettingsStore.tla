--------------------------- MODULE MC_SettingsStore ---------------------------
EXTENDS SettingsStore, TLC

Symmetry == Permutations(Calls)
=============================================================================
