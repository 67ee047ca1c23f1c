--------------------------- MODULE PgSessionCache ---------------------------
(***************************************************************************)
(* The session-scoped caches of PgSession (pggate/pg_session.h): the table *)
(* descriptor cache table_cache_, the foreign-key reference cache          *)
(* fk_reference_cache_, and the connected database and timeout setters.    *)
(*                                                                         *)
(* InvalidateCache, InvalidateForeignKeyReferenceCache and the setters are *)
(* inline in the header.  LoadTable, InvalidateTableCache and the three    *)
(* foreign-key calls have their bodies in pg_session.cc, which is not in   *)
(* the repository: they follow spec section 4.4.                           *)
(*                                                                         *)
(* A statement of the single caller loads the descriptor of its table,     *)
(* sends an operation carrying the descriptor's schema version, and on     *)
(* SchemaVersionMismatch invalidates the descriptor (one entry or the      *)
(* whole cache, spec sections 4.4 and 8) and retries; another session may  *)
(* alter a table at any time, which bumps its schema version.              *)
(***************************************************************************)
EXTENDS Naturals

CONSTANTS
    Tables,        \* table ids
    Rows,          \* ybctids
    Dbs,           \* database names
    Timeouts,      \* timeout_ms values
    MaxSchemaVer,  \* bound on a table's schema version
    NoDesc,        \* no cached descriptor
    Unset          \* a default-constructed MonoDelta

ASSUME CacheAssumption ==
    /\ Tables # {} /\ MaxSchemaVer \in Nat \ {0} /\ NoDesc \notin Nat /\ Unset \notin Timeouts

VARIABLES
    connected,   \* connected_database_
    timeout,     \* timeout_
    tableCache,  \* table_cache_: the schema version of the cached descriptor, or NoDesc
    fkCache,     \* fk_reference_cache_
    schemaVer,   \* the catalog's schema version of each table (other sessions' DDL)
    stmt         \* the caller's statement: pc, table, version of its descriptor

vars == <<connected, timeout, tableCache, fkCache, schemaVer, stmt>>

\* PgForeignKeyReference (table_id, ybctid): the struct is declared in
\* pg_session.h; its equality and hash are in pg_session.cc, which is not
\* in the repository, and spec section 3 has them compare both members.
FkRef(t, r) == <<t, r>>

\* The members as the constructor leaves them: an empty database name, an
\* unset MonoDelta, empty caches.
Init ==
    /\ connected = "" /\ timeout = Unset
    /\ tableCache = [t \in Tables |-> NoDesc] /\ fkCache = {}
    /\ schemaVer = [t \in Tables |-> 1]
    /\ stmt = [pc |-> "idle", table |-> CHOOSE t \in Tables : TRUE, desc |-> NoDesc]

CacheVars == <<tableCache, fkCache>>

set_connected_database(d) ==
    /\ connected' = d
    /\ UNCHANGED <<timeout, schemaVer, stmt>> /\ UNCHANGED CacheVars

reset_connected_database ==
    /\ connected' = ""
    /\ UNCHANGED <<timeout, schemaVer, stmt>> /\ UNCHANGED CacheVars

SetTimeout(ms) ==
    /\ timeout' = ms
    /\ UNCHANGED <<connected, schemaVer, stmt>> /\ UNCHANGED CacheVars

\* The two ways the caller drops a descriptor: table_cache_.clear(), and
\* the erase of one entry.
\* Mutation variant: the clear() is missing.
InvalidateCacheOpMissing == UNCHANGED tableCache

InvalidateCacheOp == tableCache' = [t \in Tables |-> NoDesc]
InvalidateTableCacheOp(t) == tableCache' = [tableCache EXCEPT ![t] = NoDesc]

InvalidateCache ==
    /\ InvalidateCacheOp
    /\ UNCHANGED <<connected, timeout, schemaVer, stmt, fkCache>>

InvalidateTableCache(t) ==
    /\ InvalidateTableCacheOp(t)
    /\ UNCHANGED <<connected, timeout, schemaVer, stmt, fkCache>>

InvalidateForeignKeyReferenceCache ==
    /\ fkCache' = {}
    /\ UNCHANGED <<connected, timeout, tableCache, schemaVer, stmt>>

\* The answer FkRef(t, r) \in fkCache goes to the caller; no state changes.
ForeignKeyReferenceExists(t, r) == UNCHANGED vars

CacheForeignKeyReference(t, r) ==
    /\ fkCache' = fkCache \cup {FkRef(t, r)}
    /\ UNCHANGED <<connected, timeout, tableCache, schemaVer, stmt>>

DeleteForeignKeyReference(t, r) ==
    /\ fkCache' = fkCache \ {FkRef(t, r)}
    /\ UNCHANGED <<connected, timeout, tableCache, schemaVer, stmt>>

\* The caller starts a statement on table t.
StartStatement(t) ==
    /\ stmt.pc \in {"idle", "done"}
    /\ stmt' = [pc |-> "loading", table |-> t, desc |-> NoDesc]
    /\ UNCHANGED <<connected, timeout, schemaVer>> /\ UNCHANGED CacheVars

\* LoadTable: the cached descriptor, or a fresh one from the catalog,
\* which is inserted.
LoadTable ==
    LET t == stmt.table IN
    /\ stmt.pc = "loading"
    /\ IF tableCache[t] # NoDesc
       THEN /\ stmt' = [stmt EXCEPT !.pc = "loaded", !.desc = tableCache[t]]
            /\ UNCHANGED tableCache
       ELSE /\ stmt' = [stmt EXCEPT !.pc = "loaded", !.desc = schemaVer[t]]
            /\ tableCache' = [tableCache EXCEPT ![t] = schemaVer[t]]
    /\ UNCHANGED <<connected, timeout, schemaVer, fkCache>>

\* The storage layer runs the operation, or answers SchemaVersionMismatch
\* when its schema version is not the table's.
Execute ==
    /\ stmt.pc = "loaded"
    /\ stmt' = [stmt EXCEPT !.pc = IF stmt.desc = schemaVer[stmt.table]
                                   THEN "done" ELSE "mismatch"]
    /\ UNCHANGED <<connected, timeout, schemaVer>> /\ UNCHANGED CacheVars

\* On SchemaVersionMismatch the caller invalidates the table's descriptor
\* or the whole cache and re-issues the statement.
HandleMismatch ==
    /\ stmt.pc = "mismatch"
    /\ InvalidateCacheOp \/ InvalidateTableCacheOp(stmt.table)
    /\ stmt' = [stmt EXCEPT !.pc = "loading", !.desc = NoDesc]
    /\ UNCHANGED <<connected, timeout, schemaVer, fkCache>>

\* Another session alters table t.
AlterTable(t) ==
    /\ schemaVer[t] < MaxSchemaVer
    /\ schemaVer' = [schemaVer EXCEPT ![t] = @ + 1]
    /\ UNCHANGED <<connected, timeout, stmt>> /\ UNCHANGED CacheVars

Next ==
    \/ \E d \in Dbs : set_connected_database(d)
    \/ reset_connected_database
    \/ \E ms \in Timeouts : SetTimeout(ms)
    \/ InvalidateCache \/ InvalidateForeignKeyReferenceCache
    \/ \E t \in Tables : InvalidateTableCache(t) \/ StartStatement(t) \/ AlterTable(t)
    \/ \E t \in Tables, r \in Rows :
          \/ ForeignKeyReferenceExists(t, r) \/ CacheForeignKeyReference(t, r)
          \/ DeleteForeignKeyReference(t, r)
    \/ LoadTable \/ Execute \/ HandleMismatch

\* The storage layer answers every operation, and the caller goes on with
\* its statement; nothing else is assumed to happen.
Spec == Init /\ [][Next]_vars
        /\ WF_vars(LoadTable) /\ WF_vars(Execute) /\ WF_vars(HandleMismatch)

-----------------------------------------------------------------------------
\* A statement that meets SchemaVersionMismatch and retries after the
\* invalidation that spec section 4.4 prescribes eventually runs, once
\* other sessions stop altering its table: the retry loads a fresh
\* descriptor rather than the stale cached one.
StatementCompletes ==
    stmt.pc = "loading" ~> stmt.pc = "done"
=============================================================================
