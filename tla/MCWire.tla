-------------------------------- MODULE MCWire --------------------------------
\* A small instance of Wire for TLC.
EXTENDS Wire

\* The connection can hold every frame but a large one, whose pieces exceed it.
MCPieces == [t \in Type |-> IF t = "large" THEN 2 ELSE 1]

MCFirst  == [e \in End |-> {"sync", "large"}]
MCOwn    == [e \in End |-> IF e = "init" THEN {"large"} ELSE {"heartbeat", "huge"}]
MCMaxOwn == [e \in End |-> IF e = "init" THEN 2 ELSE 3]
===============================================================================
