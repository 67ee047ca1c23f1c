-------------------------- MODULE MCPgSessionCache --------------------------
(* Small instance of the session caches: two tables, so that one table's  *)
(* invalidation leaves the other's descriptor cached, and schema versions *)
(* up to 2, so that a cached descriptor can go stale.                     *)
EXTENDS PgSessionCache

CONSTANTS ta, tb, r1, d1

MCTables == {ta, tb}
MCRows   == {r1}
MCDbs    == {d1}
MCTimeouts == {10}
=============================================================================
