---------------------------- MODULE MC_Resampler ----------------------------
EXTENDS Resampler
=============================================================================
