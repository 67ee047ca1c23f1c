--------------------------- MODULE MCCatalogClient ---------------------------
(* Small instance of the catalog client: two databases and one table oid, *)
(* so that a database is created, holds a table and is deleted with it;   *)
(* two oids so that an index has a base table.                             *)
EXTENDS CatalogClient

CONSTANTS d1, d2

MCDbs  == {d1, d2}
MCOids == {1, 2}
=============================================================================
