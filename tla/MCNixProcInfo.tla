--------------------------- MODULE MCNixProcInfo ---------------------------
EXTENDS NixProcInfo, TLC
=============================================================================
