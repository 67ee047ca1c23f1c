---------------------------- MODULE MCPgSession ----------------------------
(* Small instance of the session engine: one transactional and one        *)
(* non-transactional table, so both buffers and both adapter flags occur; *)
(* enough operations for a buffered write, a conflicting second write and *)
(* an operation of the other mode to meet.                                *)
EXTENDS PgSession

CONSTANTS T1, T2, r1

MCTables    == {T1, T2}
MCTxnTables == {T1}
MCRows      == {r1}
=============================================================================
