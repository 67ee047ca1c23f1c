--------------------------- MODULE CatalogManager ---------------------------
(***************************************************************************)
(* SQLCatalogManager of server/sql_catalog_manager.cc.                     *)
(*                                                                         *)
(* One lifecycle thread runs the server's program: set_cluster_uuid, Init, *)
(* Start, optionally an explicit Shutdown, and the destructor, which calls *)
(* Shutdown again.  Concurrently, RPC handler threads (the service runs    *)
(* sql_executor_svc_num_threads of them) call SetCatalogVersion.  An RPC   *)
(* thread first learns a catalog version, then calls SetCatalogVersion     *)
(* with it: versions are learned in increasing order, but the calls reach  *)
(* lock_ in any order.  lock_ makes each SetCatalogVersion, and each       *)
(* cluster_uuid access, one atomic step.                                   *)
(*                                                                         *)
(* The header is not in the repository; initted_ is taken to start false  *)
(* and catalog_version_ to start 0.                                        *)
(***************************************************************************)
EXTENDS Integers

CONSTANTS
    RpcThreads,   \* RPC handler threads (model values)
    Uuids,        \* cluster uuids the lifecycle thread may set
    NoUuid,       \* the empty cluster_uuid_ string
    CoreCounts,   \* values base::NumCPUs() may return
    FlagValues,   \* values FLAGS_sql_executor_svc_num_threads may start with
    MaxVersion    \* versions learned are 1..MaxVersion

ASSUME ManagerAssumption ==
    /\ NoUuid \notin Uuids
    /\ CoreCounts \subseteq Nat \ {0} /\ CoreCounts # {}
    /\ FlagValues \subseteq Int /\ -1 \in FlagValues
    /\ MaxVersion \in Nat

VARIABLES
    initted,         \* initted_
    catalogVersion,  \* catalog_version_
    clusterUuid,     \* cluster_uuid_
    logPrefix,       \* log_prefix_
    svcThreads,      \* FLAGS_sql_executor_svc_num_threads
    cores,           \* base::NumCPUs() on this machine
    mainPc,          \* where the lifecycle thread is
    rpcPc,           \* where each RPC thread is
    rpcVer,          \* the version each RPC thread is about to set
    nextVer,         \* the next version an RPC thread learns
    proposed,        \* versions passed to completed SetCatalogVersion calls (ghost)
    shutdownRuns,    \* times the shutdown branch of Shutdown ran (ghost)
    dfatal           \* the LOG(DFATAL) branch was taken (ghost)

vars == <<initted, catalogVersion, clusterUuid, logPrefix, svcThreads, cores,
          mainPc, rpcPc, rpcVer, nextVer, proposed, shutdownRuns, dfatal>>

MainPcs == {"new", "initted", "started", "shut", "destroyed"}

Init ==
    /\ initted = FALSE
    /\ catalogVersion = 0
    /\ clusterUuid = NoUuid
    /\ logPrefix = NoUuid
    /\ svcThreads \in FlagValues
    /\ cores \in CoreCounts
    /\ mainPc = "new"
    /\ rpcPc = [t \in RpcThreads |-> "idle"]
    /\ rpcVer = [t \in RpcThreads |-> 0]
    /\ nextVer = 1
    /\ proposed = {}
    /\ shutdownRuns = 0
    /\ dfatal = FALSE

RpcVars == <<rpcPc, rpcVer, nextVer, proposed, dfatal>>

\* set_cluster_uuid: under lock_, before Init.
set_cluster_uuid(u) ==
    /\ mainPc = "new"
    /\ clusterUuid' = u
    /\ UNCHANGED <<initted, catalogVersion, logPrefix, svcThreads, cores, mainPc,
                   shutdownRuns>> /\ UNCHANGED RpcVars

\* Init: CHECK(!initted_); log_prefix_ from cluster_uuid(); initted_ = true.
Init_ ==
    /\ mainPc = "new"
    /\ ~initted
    /\ logPrefix' = clusterUuid
    /\ initted' = TRUE
    /\ mainPc' = "initted"
    /\ UNCHANGED <<catalogVersion, clusterUuid, svcThreads, cores, shutdownRuns>>
    /\ UNCHANGED RpcVars

\* Mutation variant: the max(64, ...) floor is dropped.
AutoThreadsNoFloor(flag, c) ==
    IF flag = -1 THEN (IF 512 < c * 32 THEN 512 ELSE c * 32) ELSE flag

\* AutoInitServiceFlags: with the flag at -1, max(64, min(512, cores * 32)).
AutoThreads(flag, c) ==
    IF flag = -1
    THEN LET n == IF 512 < c * 32 THEN 512 ELSE c * 32
         IN  IF 64 > n THEN 64 ELSE n
    ELSE flag

\* Start: CHECK(initted_); AutoInitServiceFlags(); RegisterServices() is OK.
Start ==
    /\ mainPc = "initted"
    /\ initted
    /\ svcThreads' = AutoThreads(svcThreads, cores)
    /\ mainPc' = "started"
    /\ UNCHANGED <<initted, catalogVersion, clusterUuid, logPrefix, cores,
                   shutdownRuns>> /\ UNCHANGED RpcVars

\* Mutation variant: the compare-exchange always succeeds.
ShutdownCasAlways(expected) == TRUE

\* initted_.compare_exchange_strong(expected = true, false) succeeds.
ShutdownCas(expected) == initted = expected

\* Shutdown's effect: the shutdown branch runs when the exchange succeeds.
ShutdownEffect ==
    IF ShutdownCas(TRUE)
    THEN initted' = FALSE /\ shutdownRuns' = shutdownRuns + 1
    ELSE UNCHANGED <<initted, shutdownRuns>>

\* An explicit Shutdown by the lifecycle thread after Init or Start.
Shutdown ==
    /\ mainPc \in {"initted", "started"}
    /\ ShutdownEffect
    /\ mainPc' = "shut"
    /\ UNCHANGED <<catalogVersion, clusterUuid, logPrefix, svcThreads, cores>>
    /\ UNCHANGED RpcVars

\* ~SQLCatalogManager calls Shutdown, whether or not it already ran, and
\* whether or not Init ran.
Destroy ==
    /\ mainPc # "destroyed"
    /\ ShutdownEffect
    /\ mainPc' = "destroyed"
    /\ UNCHANGED <<catalogVersion, clusterUuid, logPrefix, svcThreads, cores>>
    /\ UNCHANGED RpcVars

\* An RPC thread learns the next catalog version.
LearnVersion(t) ==
    /\ rpcPc[t] = "idle" /\ nextVer <= MaxVersion
    /\ rpcVer' = [rpcVer EXCEPT ![t] = nextVer]
    /\ nextVer' = nextVer + 1
    /\ rpcPc' = [rpcPc EXCEPT ![t] = "calling"]
    /\ UNCHANGED <<initted, catalogVersion, clusterUuid, logPrefix, svcThreads,
                   cores, mainPc, proposed, shutdownRuns, dfatal>>

\* Mutation variant: any different version replaces the stored one.
VersionNewerAny(v) == v # catalogVersion

\* new_version > ysql_catalog_version_
VersionNewer(v) == v > catalogVersion

\* SetCatalogVersion under lock_: store a newer version, ignore an equal
\* one, and take the LOG(DFATAL) branch on an older one.
SetCatalogVersion(t) ==
    /\ rpcPc[t] = "calling"
    /\ LET v == rpcVer[t] IN
       /\ catalogVersion' = IF VersionNewer(v) THEN v ELSE catalogVersion
       /\ dfatal' = (dfatal \/ (~VersionNewer(v) /\ v < catalogVersion))
       /\ proposed' = proposed \cup {v}
    /\ rpcPc' = [rpcPc EXCEPT ![t] = "idle"]
    /\ UNCHANGED <<initted, clusterUuid, logPrefix, svcThreads, cores, mainPc,
                   rpcVer, nextVer, shutdownRuns>>

Next ==
    \/ \E u \in Uuids : set_cluster_uuid(u)
    \/ Init_ \/ Start \/ Shutdown \/ Destroy
    \/ \E t \in RpcThreads : LearnVersion(t) \/ SetCatalogVersion(t)

Spec == Init /\ [][Next]_vars

-----------------------------------------------------------------------------
\* Every variable holds a value of its type.
TypeOK ==
    /\ initted \in BOOLEAN /\ catalogVersion \in 0..MaxVersion
    /\ clusterUuid \in Uuids \cup {NoUuid} /\ logPrefix \in Uuids \cup {NoUuid}
    /\ svcThreads \in Int /\ cores \in CoreCounts
    /\ mainPc \in MainPcs
    /\ rpcPc \in [RpcThreads -> {"idle", "calling"}]
    /\ rpcVer \in [RpcThreads -> 0..MaxVersion]
    /\ nextVer \in 1..MaxVersion + 1
    /\ proposed \subseteq 1..MaxVersion
    /\ shutdownRuns \in Nat /\ dfatal \in BOOLEAN

\* SetCatalogVersion from concurrent RPC threads: the stored version is the
\* largest one any completed call proposed, whatever order the calls took
\* the lock in; an older version arriving late never wins.
VersionIsMaxSeen ==
    /\ catalogVersion \in proposed \cup {0}
    /\ \A v \in proposed : v <= catalogVersion

\* The shutdown steps in Shutdown's compare-exchange branch run once per
\* Init, though the destructor calls Shutdown after an explicit Shutdown.
ShutdownStepsOnce ==
    shutdownRuns <= 1 /\ (mainPc \in {"shut", "destroyed"} => ~initted)

\* AutoInitServiceFlags: once started, the flag is no longer -1 (auto), and
\* is either the operator's value or between 64 and 512 for any core count.
ThreadsClamped ==
    /\ mainPc = "started" => svcThreads # -1
    /\ svcThreads \in FlagValues \cup 64..512

\* LOG(DFATAL) in SetCatalogVersion asserts that no caller passes a version
\* older than the stored one (a debug build aborts there).
NoStaleVersionUpdate == ~dfatal
=============================================================================
