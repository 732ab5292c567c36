\* Two executions; more names than queues, one of them another's continuation after a NUL byte; as many
\* addresses as two full queues need but two, so that they are reused.
SPECIFICATION QueueSpec
CONSTANTS
  c1 = c1  c2 = c2  n1 = n1  n2 = n2  n3 = n3
  a1 = a1  a2 = a2  a3 = a3  a4 = a4
  Executions <- TwoExecutions
  Names <- ThreeNames
  CString <- OneContinued
  MaxCount = 2
  MaxDepth = 3
  Nodes <- FourNodes
  MaxSent = 5
SYMMETRY Symmetry
INVARIANTS NoMessageLeaked
PROPERTIES ImplementsFifo OneQueuePerName
CHECK_DEADLOCK FALSE
