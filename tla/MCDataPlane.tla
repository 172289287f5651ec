---------------------------- MODULE MCDataPlane -----------------------------
EXTENDS DataPlane
=============================================================================
