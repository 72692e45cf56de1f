------------------------------- MODULE MCCmap -------------------------------
EXTENDS Cmap
=============================================================================
