-------------------------- MODULE MCPktSetLastUse ---------------------------
EXTENDS PktSetLastUse

CONSTANTS k1, k2

Keys2 == {k1, k2}
Hash2 == [k \in Keys2 |-> 1]
Unrelated2 == [k \in Keys2 |-> NoKey]
=============================================================================
