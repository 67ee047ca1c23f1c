------------------------- MODULE CatalogClient_proofs -------------------------
(***************************************************************************)
(* Proofs about SqlCatalogClient: no oid range ReservePgOids returns to a  *)
(* caller overlaps one an earlier call for the same database returned      *)
(* (OidsNeverReissued), for every set of databases and oids and every      *)
(* bound.                                                                  *)
(*                                                                         *)
(* The property relates a step to the whole history of reservations, so   *)
(* it rests on an invariant about that history: every oid handed out for a *)
(* database lies below the catalog's next free oid of that database        *)
(* (IssuedBelowNext).  A successful reservation starts at                  *)
(* max(nextOid, next_oid), hence above every oid already issued, and moves *)
(* nextOid past its own range; no other step touches issued or nextOid.   *)
(***************************************************************************)
EXTENDS CatalogClient, TLAPS

\* Every oid handed out for a database is below that database's next oid.
IssuedBelowNext == \A p \in issued : p[2] < nextOid[p[1]]

IInv == TypeOK /\ IssuedBelowNext

\* The conjuncts of TypeOK that are not Boolean-valued, for the SMT steps.
TypeData ==
    /\ namespaces \subseteq Dbs
    /\ catalog \in [Keys -> [kind : {"none", "table", "index"}, base : Oids \cup {NoOid}]]
    /\ version \in 0..MaxVersion /\ nextOid \in [Dbs -> OidRange]
    /\ baseTableOid \in Oids \cup {NoOid}
    /\ table \in Keys \cup {NoOid}
    /\ beginOid \in OidRange /\ endOid \in OidRange /\ pgCatalogVersion \in 0..MaxVersion
    /\ issued \subseteq Dbs \X OidRange

TypeBool == initDbDone \in BOOLEAN /\ isDone \in BOOLEAN

LEMMA IInvData == IInv => TypeData
  BY Zenon DEF IInv, TypeOK, TypeData

LEMMA TypeJoin ==
  ASSUME TypeData', TypeBool'
  PROVE  TypeOK'
  BY Zenon DEF TypeOK, TypeData, TypeBool

\* A step that leaves nextOid and issued alone keeps IssuedBelowNext.
LEMMA BelowFrame ==
  ASSUME IInv, UNCHANGED <<nextOid, issued>>
  PROVE  IssuedBelowNext'
  BY DEF IInv, IssuedBelowNext

LEMMA InitIInv == Init => IInv
  <1> SUFFICES ASSUME Init PROVE IInv
    OBVIOUS
  <1>1. TypeBool
    BY Zenon DEF Init, TypeBool
  <1>2. /\ namespaces = {} /\ catalog = [k \in Keys |-> Absent] /\ version = 0
        /\ nextOid = [d \in Dbs |-> 1] /\ baseTableOid = NoOid /\ table = NoOid
        /\ beginOid = 0 /\ endOid = 0 /\ pgCatalogVersion = 0 /\ issued = {}
    BY Zenon DEF Init
  <1>3. TypeData
    BY <1>2, ClientAssumption DEF TypeData, Absent, OidRange
  <1>4. IssuedBelowNext
    BY <1>2 DEF IssuedBelowNext
  <1>. QED
    BY <1>1, <1>3, <1>4, Zenon DEF IInv, TypeOK, TypeData, TypeBool

\* The failure branch of Wrap: nothing changes but lastCall.
LEMMA FailBranch ==
  ASSUME IInv, UNCHANGED catalogVars, UNCHANGED <<outVars, issued>>
  PROVE  IInv'
  <1>0. TypeData
    BY IInvData
  <1>1. TypeBool'
    BY Zenon DEF IInv, TypeOK, TypeBool, catalogVars, outVars
  <1>2. TypeData'
    BY <1>0 DEF TypeData, catalogVars, outVars
  <1>3. IssuedBelowNext'
    BY BelowFrame DEF catalogVars
  <1>. QED
    BY <1>1, <1>2, <1>3, TypeJoin DEF IInv

\* A DDL request that succeeded: the catalog changes, nextOid, issued and
\* the out-parameters do not.
LEMMA DdlOkBranch ==
  ASSUME IInv, NEW ns, NEW cat, ns \subseteq Dbs,
         cat \in [Keys -> [kind : {"none", "table", "index"}, base : Oids \cup {NoOid}]],
         CatalogDdl(ns, cat), UNCHANGED <<outVars, issued>>
  PROVE  IInv'
  <1>0. TypeData
    BY IInvData
  <1>1. TypeBool'
    BY Zenon DEF IInv, TypeOK, TypeBool, CatalogDdl, outVars
  <1>2. TypeData'
    BY <1>0, ClientAssumption DEF TypeData, CatalogDdl, outVars
  <1>3. IssuedBelowNext'
    BY BelowFrame DEF CatalogDdl
  <1>. QED
    BY <1>1, <1>2, <1>3, TypeJoin DEF IInv

\* A read-only wrapper that succeeded writes one typed out-parameter.
LEMMA ReadOkBranch ==
  ASSUME IInv, UNCHANGED catalogVars, UNCHANGED issued, TypeData', TypeBool'
  PROVE  IInv'
  <1>1. IssuedBelowNext'
    BY BelowFrame DEF catalogVars
  <1>. QED
    BY <1>1, TypeJoin DEF IInv

LEMMA ReserveOk ==
  ASSUME IInv, NEW d \in Dbs, NEW count \in {1, 2},
         NEW b \in OidRange, b >= nextOid[d], b + count <= MaxOid,
         nextOid' = [nextOid EXCEPT ![d] = b + count],
         UNCHANGED <<initDbDone, namespaces, catalog, version>>,
         beginOid' = b, endOid' = b + count,
         issued' = issued \cup ({d} \X (beginOid'..(endOid' - 1))),
         UNCHANGED <<isDone, baseTableOid, table, pgCatalogVersion>>
  PROVE  IInv'
  <1>0. TypeData /\ IssuedBelowNext
    BY IInvData DEF IInv
  <1>1. TypeBool'
    BY Zenon DEF IInv, TypeOK, TypeBool
  <1>2. TypeData'
    BY <1>0, ClientAssumption DEF TypeData, OidRange
  <1>3. IssuedBelowNext'
    <2> SUFFICES ASSUME NEW q \in issued' PROVE q[2] < nextOid'[q[1]]
      BY DEF IssuedBelowNext
    <2>1. CASE q \in issued
      BY <2>1, <1>0 DEF TypeData, IssuedBelowNext, OidRange
    <2>2. CASE q \in {d} \X (b..(b + count - 1))
      BY <2>2, <1>0 DEF TypeData, OidRange
    <2>3. endOid' - 1 = b + count - 1
      BY DEF OidRange
    <2>4. issued' = issued \cup ({d} \X (b..(b + count - 1)))
      BY <2>3
    <2>. QED
      BY <2>1, <2>2, <2>4
  <1>. QED
    BY <1>1, <1>2, <1>3, TypeJoin DEF IInv

\* A record that Wrap writes to lastCall carries the status it was built with.
LEMMA StatusFields ==
  ASSUME NEW o, NEW k
  PROVE  /\ [op |-> o, key |-> k, st |-> "RuntimeError"].st = "RuntimeError"
         /\ [op |-> o, key |-> k, st |-> "OK"].st # "RuntimeError"
  OBVIOUS

\* The two branches of Wrap, told apart by the status the wrapper returns.
LEMMA WrapFails ==
  ASSUME NEW op, NEW key, NEW ACTION ok, NEW ACTION effect, NEW ACTION outs,
         Wrap(op, key, ok, effect, outs), lastCall'.st = "RuntimeError"
  PROVE  UNCHANGED catalogVars /\ UNCHANGED <<outVars, issued>>
  <1>1. [op |-> op, key |-> key, st |-> "OK"].st # "RuntimeError"
    OBVIOUS
  <1>. QED  BY <1>1, Zenon DEF Wrap

LEMMA WrapOk ==
  ASSUME NEW op, NEW key, NEW ACTION ok, NEW ACTION effect, NEW ACTION outs,
         Wrap(op, key, ok, effect, outs), lastCall'.st # "RuntimeError"
  PROVE  ok /\ effect /\ outs /\ lastCall' = [op |-> op, key |-> key, st |-> "OK"]
  <1>1. [op |-> op, key |-> key, st |-> "RuntimeError"].st = "RuntimeError"
    OBVIOUS
  <1>. QED  BY <1>1, Zenon DEF Wrap

\* Whatever it returns, a wrapper records its own name and key in lastCall.
LEMMA WrapNames ==
  ASSUME NEW op, NEW key, NEW ACTION ok, NEW ACTION effect, NEW ACTION outs,
         Wrap(op, key, ok, effect, outs)
  PROVE  lastCall'.op = op /\ lastCall'.key = key
  <1>1. /\ [op |-> op, key |-> key, st |-> "OK"].op = op
        /\ [op |-> op, key |-> key, st |-> "OK"].key = key
        /\ [op |-> op, key |-> key, st |-> "RuntimeError"].op = op
        /\ [op |-> op, key |-> key, st |-> "RuntimeError"].key = key
    OBVIOUS
  <1>. QED  BY <1>1, Zenon DEF Wrap

\* Every wrapper that returns RuntimeError keeps the invariant.
LEMMA WrapFailStep ==
  ASSUME IInv, NEW op, NEW key, NEW ACTION ok, NEW ACTION effect, NEW ACTION outs,
         Wrap(op, key, ok, effect, outs), lastCall'.st = "RuntimeError"
  PROVE  IInv'
  BY WrapFails, FailBranch

\* Each wrapper: its failure branch, then its OK branch.
LEMMA IsInitDbDoneStep == IInv /\ IsInitDbDone => IInv'
  <1> SUFFICES ASSUME IInv, IsInitDbDone PROVE IInv'
    OBVIOUS
  <1>1. CASE lastCall'.st = "RuntimeError"
    BY <1>1, WrapFailStep, Zenon DEF IsInitDbDone
  <1>2. CASE lastCall'.st # "RuntimeError"
    <2>1. /\ UNCHANGED catalogVars
          /\ isDone' = initDbDone
          /\ UNCHANGED <<baseTableOid, table, beginOid, endOid, pgCatalogVersion, issued>>
      BY <1>2, WrapOk, Zenon DEF IsInitDbDone
    <2>2. TypeBool'
      BY <2>1, Zenon DEF IInv, TypeOK, TypeBool, catalogVars
    <2>3. TypeData'
      BY <2>1, IInvData DEF TypeData, catalogVars
    <2>. QED
      BY <2>1, <2>2, <2>3, ReadOkBranch
  <1>. QED
    BY <1>1, <1>2

LEMMA GetCatalogVersionStep == IInv /\ GetCatalogVersion => IInv'
  <1> SUFFICES ASSUME IInv, GetCatalogVersion PROVE IInv'
    OBVIOUS
  <1>1. CASE lastCall'.st = "RuntimeError"
    BY <1>1, WrapFailStep, Zenon DEF GetCatalogVersion
  <1>2. CASE lastCall'.st # "RuntimeError"
    <2>1. /\ UNCHANGED catalogVars
          /\ pgCatalogVersion' = version
          /\ UNCHANGED <<isDone, baseTableOid, table, beginOid, endOid, issued>>
      BY <1>2, WrapOk, Zenon DEF GetCatalogVersion
    <2>2. TypeBool'
      BY <2>1, Zenon DEF IInv, TypeOK, TypeBool, catalogVars
    <2>3. TypeData'
      BY <2>1, IInvData DEF TypeData, catalogVars
    <2>. QED
      BY <2>1, <2>2, <2>3, ReadOkBranch
  <1>. QED
    BY <1>1, <1>2

LEMMA OpenTableStep ==
  ASSUME NEW k \in Keys
  PROVE  IInv /\ OpenTable(k) => IInv'
  <1> SUFFICES ASSUME IInv, OpenTable(k) PROVE IInv'
    OBVIOUS
  <1>1. CASE lastCall'.st = "RuntimeError"
    BY <1>1, WrapFailStep, Zenon DEF OpenTable
  <1>2. CASE lastCall'.st # "RuntimeError"
    <2>1. /\ UNCHANGED catalogVars
          /\ table' = k
          /\ UNCHANGED <<isDone, baseTableOid, beginOid, endOid, pgCatalogVersion, issued>>
      BY <1>2, WrapOk, Zenon DEF OpenTable
    <2>2. TypeBool'
      BY <2>1, Zenon DEF IInv, TypeOK, TypeBool, catalogVars
    <2>3. TypeData'
      BY <2>1, IInvData DEF TypeData, catalogVars
    <2>. QED
      BY <2>1, <2>2, <2>3, ReadOkBranch
  <1>. QED
    BY <1>1, <1>2

\* The base of a catalog's entry is typed, so is the base table oid that
\* DeleteIndexTable copies out.
LEMMA DeleteIndexStep ==
  ASSUME NEW k \in Keys
  PROVE  IInv /\ DeleteIndexTable(k) => IInv'
  <1> SUFFICES ASSUME IInv, DeleteIndexTable(k) PROVE IInv'
    OBVIOUS
  <1>1. CASE lastCall'.st = "RuntimeError"
    BY <1>1, WrapFailStep, Zenon DEF DeleteIndexTable
  <1>2. CASE lastCall'.st # "RuntimeError"
    <2>1. /\ CatalogDdl(namespaces, [catalog EXCEPT ![k] = Absent])
          /\ baseTableOid' = catalog[k].base
          /\ UNCHANGED <<isDone, table, beginOid, endOid, pgCatalogVersion, issued>>
      BY <1>2, StatusFields, Zenon DEF DeleteIndexTable, Wrap
    <2>2. TypeBool'
      BY <2>1, Zenon DEF IInv, TypeOK, TypeBool, CatalogDdl
    <2>3. TypeData'
      BY <2>1, IInvData, ClientAssumption DEF TypeData, CatalogDdl, Absent
    <2>4. IssuedBelowNext'
      BY <2>1, BelowFrame DEF CatalogDdl
    <2>. QED
      BY <2>2, <2>3, <2>4, TypeJoin DEF IInv
  <1>. QED
    BY <1>1, <1>2

\* The range a successful ReservePgOids returns starts at the catalog's
\* choice b = max(next_oid, nextOid[d]).
LEMMA ReserveOkFacts ==
  ASSUME IInv, NEW d \in Dbs, NEW next \in OidRange, NEW count \in {1, 2},
         ReservePgOids(d, next, count), lastCall'.st # "RuntimeError"
  PROVE  LET b == IF next > nextOid[d] THEN next ELSE nextOid[d] IN
         /\ b \in OidRange /\ b >= nextOid[d] /\ b + count <= MaxOid
         /\ nextOid' = [nextOid EXCEPT ![d] = b + count]
         /\ UNCHANGED <<initDbDone, namespaces, catalog, version>>
         /\ beginOid' = b /\ endOid' = b + count
         /\ issued' = issued \cup ({d} \X (beginOid'..(endOid' - 1)))
         /\ UNCHANGED <<isDone, baseTableOid, table, pgCatalogVersion>>
  <1> DEFINE b == IF next > nextOid[d] THEN next ELSE nextOid[d]
  <1>1. b \in OidRange /\ b >= nextOid[d]
    BY IInvData DEF TypeData, OidRange
  <1>2. /\ b + count <= MaxOid
        /\ nextOid' = [nextOid EXCEPT ![d] = b + count]
        /\ UNCHANGED <<initDbDone, namespaces, catalog, version>>
        /\ beginOid' = b /\ endOid' = b + count
        /\ issued' = issued \cup ({d} \X (beginOid'..(endOid' - 1)))
        /\ UNCHANGED <<isDone, baseTableOid, table, pgCatalogVersion>>
    BY WrapOk, Zenon DEF ReservePgOids, Issue
  <1>. QED
    BY <1>1, <1>2

LEMMA ReserveStep ==
  ASSUME NEW d \in Dbs, NEW next \in OidRange, NEW count \in {1, 2}
  PROVE  IInv /\ ReservePgOids(d, next, count) => IInv'
  <1> SUFFICES ASSUME IInv, ReservePgOids(d, next, count) PROVE IInv'
    OBVIOUS
  <1>1. CASE lastCall'.st = "RuntimeError"
    BY <1>1, WrapFailStep, Zenon DEF ReservePgOids
  <1>2. CASE lastCall'.st # "RuntimeError"
    BY <1>2, ReserveOkFacts, ReserveOk
  <1>. QED
    BY <1>1, <1>2

\* The DDL wrappers without out-parameters keep the catalog typed.
LEMMA DdlStep ==
  ASSUME NEW d, NEW k, NEW bo, IInv,
         \/ d \in Dbs /\ (CreateNamespace(d) \/ DeleteNamespace(d))
         \/ k \in Keys /\ (CreateTable(k) \/ DeleteTable(k))
         \/ k \in Keys /\ bo \in Oids /\ CreateIndexTable(k, bo)
  PROVE  IInv'
  <1>0. TypeData
    BY IInvData
  <1> DEFINE CatT == [Keys -> [kind : {"none", "table", "index"}, base : Oids \cup {NoOid}]]
  <1>1. CASE lastCall'.st = "RuntimeError"
    BY <1>1, WrapFailStep, Zenon DEF CreateNamespace, DeleteNamespace, CreateTable,
       DeleteTable, CreateIndexTable
  <1>2. CASE lastCall'.st # "RuntimeError" /\ d \in Dbs /\ CreateNamespace(d)
    <2>1. CatalogDdl(namespaces \cup {d}, catalog) /\ UNCHANGED <<outVars, issued>>
      BY <1>2, StatusFields, Zenon DEF CreateNamespace, NoOuts, Wrap
    <2>2. namespaces \cup {d} \subseteq Dbs /\ catalog \in CatT
      BY <1>2, <1>0 DEF TypeData
    <2>. QED
      BY <2>1, <2>2, DdlOkBranch
  <1>3. CASE lastCall'.st # "RuntimeError" /\ d \in Dbs /\ DeleteNamespace(d)
    <2> DEFINE c == [j \in Keys |-> IF j[1] = d THEN Absent ELSE catalog[j]]
    <2>1. CatalogDdl(namespaces \ {d}, c) /\ UNCHANGED <<outVars, issued>>
      BY <1>3, StatusFields, Zenon DEF DeleteNamespace, NoOuts, Wrap
    <2>2. namespaces \ {d} \subseteq Dbs /\ c \in CatT
      BY <1>3, <1>0 DEF TypeData, Absent
    <2>. QED
      BY <2>1, <2>2, DdlOkBranch
  <1>4. CASE lastCall'.st # "RuntimeError" /\ k \in Keys /\ CreateTable(k)
    <2> DEFINE c == [catalog EXCEPT ![k] = [kind |-> "table", base |-> NoOid]]
    <2>1. CatalogDdl(namespaces, c) /\ UNCHANGED <<outVars, issued>>
      BY <1>4, StatusFields, Zenon DEF CreateTable, NoOuts, Wrap
    <2>2. namespaces \subseteq Dbs /\ c \in CatT
      BY <1>4, <1>0 DEF TypeData
    <2>. QED
      BY <2>1, <2>2, DdlOkBranch
  <1>5. CASE lastCall'.st # "RuntimeError" /\ k \in Keys /\ DeleteTable(k)
    <2> DEFINE c == [catalog EXCEPT ![k] = Absent]
    <2>1. CatalogDdl(namespaces, c) /\ UNCHANGED <<outVars, issued>>
      BY <1>5, StatusFields, Zenon DEF DeleteTable, NoOuts, Wrap
    <2>2. namespaces \subseteq Dbs /\ c \in CatT
      BY <1>5, <1>0 DEF TypeData, Absent
    <2>. QED
      BY <2>1, <2>2, DdlOkBranch
  <1>6. CASE lastCall'.st # "RuntimeError" /\ k \in Keys /\ bo \in Oids
             /\ CreateIndexTable(k, bo)
    <2> DEFINE c == [catalog EXCEPT ![k] = [kind |-> "index", base |-> bo]]
    <2>1. CatalogDdl(namespaces, c) /\ UNCHANGED <<outVars, issued>>
      BY <1>6, StatusFields, Zenon DEF CreateIndexTable, NoOuts, Wrap
    <2>2. namespaces \subseteq Dbs /\ c \in CatT
      BY <1>6, <1>0 DEF TypeData
    <2>. QED
      BY <2>1, <2>2, DdlOkBranch
  <1>. QED
    BY <1>1, <1>2, <1>3, <1>4, <1>5, <1>6, Zenon

LEMMA NextIInv == IInv /\ [Next]_vars => IInv'
  <1> SUFFICES ASSUME IInv, [Next]_vars PROVE IInv'
    OBVIOUS
  <1>1. CASE IsInitDbDone
    BY <1>1, IsInitDbDoneStep
  <1>2. CASE GetCatalogVersion
    BY <1>2, GetCatalogVersionStep
  <1>3. CASE \E d \in Dbs : CreateNamespace(d) \/ DeleteNamespace(d)
    BY <1>3, DdlStep
  <1>4. CASE \E d \in Dbs, next \in OidRange, count \in {1, 2} : ReservePgOids(d, next, count)
    BY <1>4, ReserveStep
  <1>5. CASE \E k \in Keys :
               \/ CreateTable(k) \/ DeleteTable(k) \/ DeleteIndexTable(k) \/ OpenTable(k)
               \/ \E b \in Oids : CreateIndexTable(k, b)
    <2> PICK k \in Keys :
               \/ CreateTable(k) \/ DeleteTable(k) \/ DeleteIndexTable(k) \/ OpenTable(k)
               \/ \E b \in Oids : CreateIndexTable(k, b)
      BY <1>5
    <2>. QED
      BY DdlStep, DeleteIndexStep, OpenTableStep
  <1>6. CASE UNCHANGED vars
    <2>1. TypeData
      BY IInvData
    <2>2. TypeBool'
      BY <1>6, Zenon DEF IInv, TypeOK, TypeBool, vars, catalogVars, outVars
    <2>3. TypeData' /\ IssuedBelowNext'
      BY <1>6, <2>1 DEF IInv, TypeData, IssuedBelowNext, vars, catalogVars, outVars
    <2>. QED
      BY <2>2, <2>3, TypeJoin DEF IInv
  <1>. QED
    BY <1>1, <1>2, <1>3, <1>4, <1>5, <1>6 DEF Next

\* Every variable of the catalog client and of the catalog behind it always
\* holds a value of its type, for every set of databases and oids.
THEOREM TypeCorrect == Spec => []TypeOK
  <1>1. IInv => TypeOK
    BY DEF IInv
  <1>. QED
    BY InitIInv, NextIInv, <1>1, PTL DEF Spec

\* The step predicate of OidsNeverReissued.
Fresh == lastCall'.op = "ReservePgOids" /\ lastCall'.st = "OK" =>
            \A o \in beginOid'..(endOid' - 1) : <<lastCall'.key, o>> \notin issued

\* A successful reservation returns oids at or above nextOid[d], which is
\* above every oid already issued for d.
LEMMA ReserveFresh ==
  ASSUME IInv, NEW d \in Dbs, NEW next \in OidRange, NEW count \in {1, 2},
         ReservePgOids(d, next, count)
  PROVE  Fresh
  <1>1. lastCall'.key = d
    BY WrapNames DEF ReservePgOids
  <1>2. CASE lastCall'.st # "RuntimeError"
    <2>1. beginOid' >= nextOid[d] /\ beginOid' \in Nat
      BY <1>2, ReserveOkFacts DEF OidRange
    <2>2. \A o \in beginOid'..(endOid' - 1) : <<d, o>> \notin issued
      BY <2>1, IInvData DEF IInv, IssuedBelowNext, TypeData, OidRange
    <2>. QED
      BY <1>1, <2>2 DEF Fresh
  <1>. QED
    BY <1>2 DEF Fresh

\* Every other wrapper records a name other than ReservePgOids.
LEMMA OtherNotReserve ==
  ASSUME NEW d, NEW k, NEW bo,
         \/ IsInitDbDone \/ GetCatalogVersion
         \/ CreateNamespace(d) \/ DeleteNamespace(d)
         \/ CreateTable(k) \/ DeleteTable(k) \/ DeleteIndexTable(k) \/ OpenTable(k)
         \/ CreateIndexTable(k, bo)
  PROVE  Fresh
  <1>1. lastCall'.op # "ReservePgOids"
    BY WrapNames, Zenon DEF IsInitDbDone, GetCatalogVersion, CreateNamespace,
       DeleteNamespace, CreateTable, DeleteTable, DeleteIndexTable, OpenTable,
       CreateIndexTable
  <1>. QED
    BY <1>1 DEF Fresh

LEMMA NextFresh == IInv /\ [Next]_vars => [Fresh]_vars
  <1> SUFFICES ASSUME IInv, Next PROVE Fresh
    OBVIOUS
  <1>1. CASE \E d \in Dbs, next \in OidRange, count \in {1, 2} : ReservePgOids(d, next, count)
    BY <1>1, ReserveFresh
  <1>2. CASE ~\E d \in Dbs, next \in OidRange, count \in {1, 2} : ReservePgOids(d, next, count)
    BY <1>2, OtherNotReserve DEF Next
  <1>. QED
    BY <1>1, <1>2

\* No oid is handed to two callers of ReservePgOids for the same database,
\* for every set of databases and oids and every bound: each successful
\* call's [*begin_oid, *end_oid) misses every earlier call's range.
THEOREM OidsNeverReissuedThm == Spec => OidsNeverReissued
  <1>1. Init => IInv
    BY InitIInv
  <1>2. IInv /\ [Next]_vars => IInv'
    BY NextIInv
  <1>3. IInv /\ [Next]_vars => [Fresh]_vars
    BY NextFresh
  <1>. QED
    BY <1>1, <1>2, <1>3, PTL DEF Spec, OidsNeverReissued, Fresh

=============================================================================
