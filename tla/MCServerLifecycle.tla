------------------------- MODULE MCServerLifecycle -------------------------
EXTENDS ServerLifecycle, TLC
=============================================================================
