------------------------- MODULE MCIncrementalSync -------------------------
EXTENDS IncrementalSync, MCViewedChain
=============================================================================
