------------------------- MODULE MC_TrajectorySizing -------------------------
EXTENDS TrajectorySizing
=============================================================================
