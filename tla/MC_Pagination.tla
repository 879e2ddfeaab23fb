---------------------------- MODULE MC_Pagination ----------------------------
EXTENDS Pagination

\* None, a size of its own, and one above the maximum.
MCPageSizes == {0, 1, 4}
=============================================================================
