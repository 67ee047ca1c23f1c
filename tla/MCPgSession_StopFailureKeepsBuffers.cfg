CONSTANTS
  T1 = T1
  T2 = T2
  r1 = r1

  NoOp = NoOp
  Tables <- MCTables
  TxnTables <- MCTxnTables
  Rows <- MCRows
  MaxOps = 3
  MaxRun = 2


SPECIFICATION Spec
PROPERTY StopFailureKeepsBuffers
