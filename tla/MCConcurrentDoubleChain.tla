---------------------- MODULE MCConcurrentDoubleChain -----------------------
EXTENDS ConcurrentDoubleChain
=============================================================================
