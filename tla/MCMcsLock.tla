----------------------------- MODULE MCMcsLock ------------------------------
EXTENDS McsLock
=============================================================================
