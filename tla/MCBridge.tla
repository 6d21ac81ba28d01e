--------------------------- MODULE MCBridge ---------------------------
EXTENDS Bridge
MCPeriod == [id \in TxIds |-> 0]
================================================================================
