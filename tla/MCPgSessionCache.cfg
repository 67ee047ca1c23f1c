CONSTANTS
  ta = ta
  tb = tb
  r1 = r1
  d1 = d1
  NoDesc = NoDesc
  Unset = Unset
  Tables <- MCTables
  Rows <- MCRows
  Dbs <- MCDbs
  Timeouts <- MCTimeouts
  MaxSchemaVer = 2

SPECIFICATION Spec

PROPERTY
  StatementCompletes
