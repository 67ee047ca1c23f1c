CONSTANTS
  d1 = d1
  d2 = d2
  NoOid = NoOid
  Dbs <- MCDbs
  Oids <- MCOids
  MaxVersion = 4
  MaxOid = 3

SPECIFICATION Spec

INVARIANT
  TypeOK


  
