--------------------------- MODULE MCBridgeSequencer ---------------------------
EXTENDS BridgeSequencer
MCPeriod == [id \in TxIds |-> IF id = "59E" THEN 1 ELSE 0]
================================================================================
