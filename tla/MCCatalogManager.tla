-------------------------- MODULE MCCatalogManager --------------------------
(* Small instance of the catalog manager: two RPC threads, so that two     *)
(* SetCatalogVersion calls can reach the lock out of order; three versions; *)
(* core counts on both sides of the 64 and 512 clamps and one exactly on   *)
(* each (2, 16 cores); the flag left at -1 or set by the operator.         *)
EXTENDS CatalogManager

CONSTANTS t1, t2, u1

MCRpcThreads == {t1, t2}
MCUuids      == {u1}
MCCoreCounts == {1, 2, 3, 16, 17}
MCFlagValues == {-1, 8}
=============================================================================
