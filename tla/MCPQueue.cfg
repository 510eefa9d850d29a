CONSTANTS
  q1 = q1
  q2 = q2
  q3 = q3
  q4 = q4
  q5 = q5
  None = None
  Batches <- MCBatches
  Prio <- MCPrio
  MaxQueueSize = 4
  CrashMidOp = FALSE
SPECIFICATION Spec
INVARIANT TypeOK
PROPERTY PQueueRefinesMinQueue
