----------------------------- MODULE MCPQueue ------------------------------
EXTENDS PQueue, TLC

CONSTANTS q1, q2, q3, q4, q5

MCBatches == {q1, q2, q3, q4, q5}
MCPrio == (q1 :> 1 @@ q2 :> 2 @@ q3 :> 2 @@ q4 :> 3 @@ q5 :> 4)
=============================================================================
