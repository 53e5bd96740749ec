------------------------ MODULE MC_InterpolationFill ------------------------
EXTENDS InterpolationFill

\* Boundary values on both sides of zero, with equal, rising and falling pairs.
MCValues == {-2, 0, 1, 3}
=============================================================================
