---------------------------- MODULE CatalogClient ----------------------------
(***************************************************************************)
(* SqlCatalogClient of pggate/catalog/sql_catalog_client.cc and the       *)
(* catalog it calls.                                                       *)
(*                                                                         *)
(* Each wrapper builds a request, calls catalog_manager_, and either       *)
(* returns RuntimeError when the response status is not succeeded, or     *)
(* writes the response's payload into the caller's out-parameters and     *)
(* returns OK.  The catalog manager behind catalog_manager_ is not in the  *)
(* repository: its side (Catalog* below) follows spec section 6, "simple   *)
(* request/response pairs": a request succeeds only when the catalog      *)
(* allows it, may fail in any case, and a failed request changes nothing. *)
(* Every successful DDL request bumps the catalog version.                 *)
(***************************************************************************)
EXTENDS Naturals

CONSTANTS
    Dbs,         \* database oids
    Oids,        \* table oids, per database
    NoOid,       \* no oid
    MaxVersion,  \* bound on DDL requests
    MaxOid       \* bound on oids ReservePgOids hands out

ASSUME ClientAssumption ==
    /\ NoOid \notin Oids /\ MaxVersion \in Nat /\ MaxOid \in Nat \ {0}

VARIABLES
    initDbDone,  \* catalog: init_db has completed
    namespaces,  \* catalog: databases that exist
    catalog,     \* catalog: (db, oid) -> [kind, base] of each table or index
    version,     \* catalog: catalog version
    nextOid,     \* catalog: next free oid of each database
    isDone, baseTableOid, table, beginOid, endOid, pgCatalogVersion,
                 \* the caller's out-parameters
    lastCall,    \* the last wrapper call and what it returned (ghost)
    issued       \* <<db, oid>> pairs ReservePgOids has handed out (ghost)

catalogVars == <<initDbDone, namespaces, catalog, version, nextOid>>
outVars == <<isDone, baseTableOid, table, beginOid, endOid, pgCatalogVersion>>
vars == <<catalogVars, outVars, lastCall, issued>>

Keys == Dbs \X Oids
Absent == [kind |-> "none", base |-> NoOid]
OidRange == 0..MaxOid

Init ==
    /\ initDbDone \in BOOLEAN
    /\ namespaces = {}
    /\ catalog = [k \in Keys |-> Absent]
    /\ version = 0
    /\ nextOid = [d \in Dbs |-> 1]
    /\ isDone = FALSE /\ baseTableOid = NoOid /\ table = NoOid
    /\ beginOid = 0 /\ endOid = 0 /\ pgCatalogVersion = 0
    /\ lastCall = [op |-> "none", st |-> "OK"]
    /\ issued = {}

(***************************************************************************)
(* The catalog side of a successful DDL request.                           *)
(***************************************************************************)
CatalogDdl(ns, cat) ==
    /\ version < MaxVersion
    /\ namespaces' = ns /\ catalog' = cat /\ version' = version + 1
    /\ UNCHANGED <<initDbDone, nextOid>>

\* The wrapper: the catalog answers ok (with its own effect done) or fails
\* (nothing changes), then the client returns OK with its out-parameters
\* set, or RuntimeError with none set.
Wrap(op, key, ok, effect, outs) ==
    \/ /\ ok /\ effect /\ outs
       /\ lastCall' = [op |-> op, key |-> key, st |-> "OK"]
    \/ /\ UNCHANGED catalogVars /\ UNCHANGED <<outVars, issued>>
       /\ lastCall' = [op |-> op, key |-> key, st |-> "RuntimeError"]

NoOuts == UNCHANGED <<outVars, issued>>

IsInitDbDone ==
    Wrap("IsInitDbDone", NoOid, TRUE, UNCHANGED catalogVars,
         isDone' = initDbDone
           /\ UNCHANGED <<baseTableOid, table, beginOid, endOid, pgCatalogVersion, issued>>)

CreateNamespace(d) ==
    Wrap("CreateNamespace", d, d \notin namespaces,
         CatalogDdl(namespaces \cup {d}, catalog), NoOuts)

\* A database is deleted with its tables.
DeleteNamespace(d) ==
    Wrap("DeleteNamespace", d, d \in namespaces,
         CatalogDdl(namespaces \ {d},
                    [k \in Keys |-> IF k[1] = d THEN Absent ELSE catalog[k]]), NoOuts)

CreateTable(k) ==
    Wrap("CreateTable", k, k[1] \in namespaces /\ catalog[k] = Absent,
         CatalogDdl(namespaces, [catalog EXCEPT ![k] = [kind |-> "table", base |-> NoOid]]),
         NoOuts)

\* The request carries the index's database and the base table's oid only:
\* "index and the base table should be in the same namespace".
CreateIndexTable(k, baseOid) ==
    Wrap("CreateIndexTable", k,
         k[1] \in namespaces /\ catalog[k] = Absent
           /\ catalog[<<k[1], baseOid>>].kind = "table",
         CatalogDdl(namespaces, [catalog EXCEPT ![k] = [kind |-> "index", base |-> baseOid]]),
         NoOuts)

DeleteTable(k) ==
    Wrap("DeleteTable", k, catalog[k].kind = "table",
         CatalogDdl(namespaces, [catalog EXCEPT ![k] = Absent]), NoOuts)

\* *base_table_oid = response.baseIndexTableOid, the index's base table.
DeleteIndexTable(k) ==
    Wrap("DeleteIndexTable", k, catalog[k].kind = "index",
         CatalogDdl(namespaces, [catalog EXCEPT ![k] = Absent]),
         baseTableOid' = catalog[k].base
           /\ UNCHANGED <<isDone, table, beginOid, endOid, pgCatalogVersion, issued>>)

\* table->swap(response.tableInfo): the caller's handle now names k.
OpenTable(k) ==
    Wrap("OpenTable", k, catalog[k] # Absent, UNCHANGED catalogVars,
         table' = k
           /\ UNCHANGED <<isDone, baseTableOid, beginOid, endOid, pgCatalogVersion, issued>>)

\* The oids [*begin_oid, *end_oid) the caller now owns, recorded in issued.
Issue(d) == issued' = issued \cup ({d} \X (beginOid'..(endOid' - 1)))

\* Mutation variant: the out-parameters are copied from the request
\* (next_oid, next_oid + count) instead of from the response.
ReservePgOidsFromRequest(d, next, count) ==
    LET b == IF next > nextOid[d] THEN next ELSE nextOid[d] IN
    Wrap("ReservePgOids", d, d \in namespaces /\ b + count <= MaxOid,
         /\ nextOid' = [nextOid EXCEPT ![d] = b + count]
         /\ UNCHANGED <<initDbDone, namespaces, catalog, version>>,
         beginOid' = next /\ endOid' = next + count /\ Issue(d)
           /\ UNCHANGED <<isDone, baseTableOid, table, pgCatalogVersion>>)

\* Mutation variant: *end_oid is one past response.endOid, the last oid
\* taken as inclusive.
ReservePgOidsEndPastRange(d, next, count) ==
    LET b == IF next > nextOid[d] THEN next ELSE nextOid[d] IN
    Wrap("ReservePgOids", d, d \in namespaces /\ b + count <= MaxOid,
         /\ nextOid' = [nextOid EXCEPT ![d] = b + count]
         /\ UNCHANGED <<initDbDone, namespaces, catalog, version>>,
         beginOid' = b /\ endOid' = b + count + 1 /\ Issue(d)
           /\ UNCHANGED <<isDone, baseTableOid, table, pgCatalogVersion>>)

\* The catalog hands out [max(nextOid, next_oid), + count) of the database;
\* the client copies response.beginOid and response.endOid out.
ReservePgOids(d, next, count) ==
    LET b == IF next > nextOid[d] THEN next ELSE nextOid[d] IN
    Wrap("ReservePgOids", d, d \in namespaces /\ b + count <= MaxOid,
         /\ nextOid' = [nextOid EXCEPT ![d] = b + count]
         /\ UNCHANGED <<initDbDone, namespaces, catalog, version>>,
         beginOid' = b /\ endOid' = b + count /\ Issue(d)
           /\ UNCHANGED <<isDone, baseTableOid, table, pgCatalogVersion>>)

GetCatalogVersion ==
    Wrap("GetCatalogVersion", NoOid, TRUE, UNCHANGED catalogVars,
         pgCatalogVersion' = version
           /\ UNCHANGED <<isDone, baseTableOid, table, beginOid, endOid, issued>>)

Next ==
    \/ IsInitDbDone \/ GetCatalogVersion
    \/ \E d \in Dbs : CreateNamespace(d) \/ DeleteNamespace(d)
    \/ \E d \in Dbs, next \in OidRange, count \in {1, 2} : ReservePgOids(d, next, count)
    \/ \E k \in Keys :
          \/ CreateTable(k) \/ DeleteTable(k) \/ DeleteIndexTable(k) \/ OpenTable(k)
          \/ \E b \in Oids : CreateIndexTable(k, b)

Spec == Init /\ [][Next]_vars

-----------------------------------------------------------------------------
\* Every variable holds a value of its type.
TypeOK ==
    /\ initDbDone \in BOOLEAN /\ namespaces \subseteq Dbs
    /\ catalog \in [Keys -> [kind : {"none", "table", "index"}, base : Oids \cup {NoOid}]]
    /\ version \in 0..MaxVersion /\ nextOid \in [Dbs -> OidRange]
    /\ isDone \in BOOLEAN /\ baseTableOid \in Oids \cup {NoOid}
    /\ table \in Keys \cup {NoOid}
    /\ beginOid \in OidRange /\ endOid \in OidRange /\ pgCatalogVersion \in 0..MaxVersion
    /\ issued \subseteq Dbs \X OidRange

\* No oid is handed to two callers: every range a successful
\* ReservePgOids writes to *begin_oid and *end_oid lies wholly outside
\* every range earlier calls for the same database returned, whatever
\* next_oid the callers ask for and whatever databases are dropped and
\* created in between.
OidsNeverReissued ==
    [][lastCall'.op = "ReservePgOids" /\ lastCall'.st = "OK" =>
         \A o \in beginOid'..(endOid' - 1) : <<lastCall'.key, o>> \notin issued]_vars
=============================================================================
