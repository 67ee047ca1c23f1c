------------------------ MODULE CatalogManager_proofs ------------------------
(***************************************************************************)
(* Proofs about SQLCatalogManager (CatalogManager), for every set of RPC   *)
(* threads, core counts, flag values and version bound that satisfies     *)
(* ManagerAssumption.                                                      *)
(***************************************************************************)
EXTENDS CatalogManager, TLAPS

-----------------------------------------------------------------------------
(* The inductive invariant                                                 *)

\* An RPC thread about to call SetCatalogVersion holds a learned version.
CallingHasVersion ==
    \A t \in RpcThreads : rpcPc[t] = "calling" => rpcVer[t] \in 1..MaxVersion

\* What the lifecycle thread's position says about initted_ and about how
\* often the shutdown branch ran: before Init nothing ran; while initted_
\* is set the branch has not run; after an explicit Shutdown or the
\* destructor initted_ is clear.
Lifecycle ==
    /\ shutdownRuns \in 0..1
    /\ mainPc = "new" => ~initted /\ shutdownRuns = 0
    /\ initted => shutdownRuns = 0 /\ mainPc \in {"initted", "started"}
    /\ mainPc \in {"shut", "destroyed"} => ~initted

IInv == TypeOK /\ CallingHasVersion /\ VersionIsMaxSeen /\ Lifecycle /\ ThreadsClamped

-----------------------------------------------------------------------------
(* AutoInitServiceFlags                                                    *)

\* With the flag at -1, the thread count chosen for any positive number of
\* cores lies between 64 and 512; a flag the operator set is kept.
LEMMA AutoThreadsRange ==
  ASSUME NEW f \in Int, NEW c \in Nat \ {0}
  PROVE  /\ f = -1 => AutoThreads(f, c) \in 64..512
         /\ f # -1 => AutoThreads(f, c) = f
BY DEF AutoThreads

-----------------------------------------------------------------------------
(* Initiation                                                              *)

LEMMA InitIInv == Init => IInv
<1> SUFFICES ASSUME Init PROVE IInv
  OBVIOUS
<1>1. TypeOK
  <2>1. initted \in BOOLEAN /\ dfatal \in BOOLEAN
    BY Zenon DEF Init
  <2>2. catalogVersion \in 0..MaxVersion /\ nextVer \in 1..MaxVersion + 1
        /\ shutdownRuns \in Nat /\ proposed \subseteq 1..MaxVersion
    BY ManagerAssumption DEF Init
  <2>3. svcThreads \in Int /\ cores \in CoreCounts
    BY ManagerAssumption DEF Init
  <2>4. /\ clusterUuid \in Uuids \cup {NoUuid} /\ logPrefix \in Uuids \cup {NoUuid}
        /\ mainPc \in MainPcs
        /\ rpcPc \in [RpcThreads -> {"idle", "calling"}]
        /\ rpcVer \in [RpcThreads -> 0..MaxVersion]
    BY ManagerAssumption DEF Init, MainPcs
  <2>. QED  BY <2>1, <2>2, <2>3, <2>4 DEF TypeOK
<1>2. CallingHasVersion /\ VersionIsMaxSeen
  BY DEF Init, CallingHasVersion, VersionIsMaxSeen
<1>3. Lifecycle
  BY DEF Init, Lifecycle
<1>4. ThreadsClamped
  BY DEF Init, ThreadsClamped
<1>. QED  BY <1>1, <1>2, <1>3, <1>4 DEF IInv

-----------------------------------------------------------------------------
(* Consecution: one step per action                                        *)

\* The conjuncts of TypeOK about non-Boolean variables.
LEMMA TypeNumeric ==
  ASSUME IInv
  PROVE  /\ catalogVersion \in 0..MaxVersion
         /\ clusterUuid \in Uuids \cup {NoUuid} /\ logPrefix \in Uuids \cup {NoUuid}
         /\ svcThreads \in Int /\ cores \in CoreCounts /\ mainPc \in MainPcs
         /\ rpcPc \in [RpcThreads -> {"idle", "calling"}]
         /\ rpcVer \in [RpcThreads -> 0..MaxVersion]
         /\ nextVer \in 1..MaxVersion + 1
         /\ proposed \subseteq 1..MaxVersion /\ shutdownRuns \in Nat
BY Zenon DEF IInv, TypeOK

\* The steps of the lifecycle thread leave the RPC side as it is, so
\* CallingHasVersion and VersionIsMaxSeen carry over.
LEMMA RpcSideKept ==
  ASSUME IInv, UNCHANGED <<catalogVersion, rpcPc, rpcVer, nextVer, proposed, dfatal>>,
         UNCHANGED <<cores>>
  PROVE  CallingHasVersion' /\ VersionIsMaxSeen'
BY DEF IInv, CallingHasVersion, VersionIsMaxSeen

LEMMA SetUuidStep ==
  ASSUME IInv, NEW u \in Uuids, set_cluster_uuid(u)
  PROVE  IInv'
<1>1. UNCHANGED <<initted, catalogVersion, logPrefix, svcThreads, cores, mainPc,
                  shutdownRuns, rpcPc, rpcVer, nextVer, proposed, dfatal>>
      /\ clusterUuid' = u
  BY Zenon DEF set_cluster_uuid, RpcVars
<1>2. TypeOK'
  BY <1>1 DEF IInv, TypeOK
<1>3. CallingHasVersion' /\ VersionIsMaxSeen'
  BY <1>1, RpcSideKept
<1>4. Lifecycle' /\ ThreadsClamped'
  BY <1>1 DEF IInv, Lifecycle, ThreadsClamped
<1>. QED  BY <1>2, <1>3, <1>4 DEF IInv

LEMMA InitStep ==
  ASSUME IInv, Init_
  PROVE  IInv'
<1>1. UNCHANGED <<catalogVersion, clusterUuid, svcThreads, cores, shutdownRuns,
                  rpcPc, rpcVer, nextVer, proposed, dfatal>>
      /\ logPrefix' = clusterUuid /\ initted' = TRUE /\ mainPc' = "initted"
      /\ mainPc = "new"
  BY Zenon DEF Init_, RpcVars
<1>2. shutdownRuns = 0
  BY <1>1 DEF IInv, Lifecycle
<1>3. TypeOK'
  BY <1>1 DEF IInv, TypeOK, MainPcs
<1>4. CallingHasVersion' /\ VersionIsMaxSeen'
  BY <1>1, RpcSideKept
<1>5. Lifecycle'
  BY <1>1, <1>2 DEF Lifecycle
<1>6. ThreadsClamped'
  BY <1>1 DEF IInv, ThreadsClamped
<1>. QED  BY <1>3, <1>4, <1>5, <1>6 DEF IInv

LEMMA StartStep ==
  ASSUME IInv, Start
  PROVE  IInv'
<1>1. UNCHANGED <<initted, catalogVersion, clusterUuid, logPrefix, cores, shutdownRuns,
                  rpcPc, rpcVer, nextVer, proposed, dfatal>>
      /\ svcThreads' = AutoThreads(svcThreads, cores) /\ mainPc' = "started"
      /\ mainPc = "initted"
  BY Zenon DEF Start, RpcVars
<1>2. svcThreads \in FlagValues \cup 64..512 /\ cores \in Nat \ {0}
  BY ManagerAssumption DEF IInv, ThreadsClamped, TypeOK
<1>3. svcThreads \in Int
  BY <1>2, ManagerAssumption
<1>4. svcThreads' \in FlagValues \cup 64..512 /\ svcThreads' # -1
  <2>1. CASE svcThreads = -1
    <3>0. svcThreads \in Int /\ cores \in Nat \ {0} /\ svcThreads = -1
      BY <1>2, <1>3, <2>1
    <3>1. AutoThreads(svcThreads, cores) \in 64..512
      BY <3>0, AutoThreadsRange, Zenon
    <3>. QED  BY <1>1, <3>1
  <2>2. CASE svcThreads # -1
    <3>0. svcThreads \in Int /\ cores \in Nat \ {0} /\ svcThreads # -1
      BY <1>2, <1>3, <2>2
    <3>1. AutoThreads(svcThreads, cores) = svcThreads
      BY <3>0, AutoThreadsRange, Zenon
    <3>. QED  BY <1>1, <1>2, <2>2, <3>1
  <2>. QED  BY <2>1, <2>2
<1>5. TypeOK'
  BY <1>1, <1>4, ManagerAssumption DEF IInv, TypeOK, MainPcs
<1>6. CallingHasVersion' /\ VersionIsMaxSeen'
  BY <1>1, RpcSideKept
<1>7. Lifecycle'
  BY <1>1 DEF IInv, Lifecycle
<1>8. ThreadsClamped'
  BY <1>4 DEF ThreadsClamped
<1>. QED  BY <1>5, <1>6, <1>7, <1>8 DEF IInv

\* Shutdown and the destructor: the compare-exchange runs the shutdown
\* branch only while initted_ is set, and clears it.
LEMMA ShutdownEffectStep ==
  ASSUME IInv, ShutdownEffect, NEW pc \in {"shut", "destroyed"}, mainPc' = pc,
         mainPc # "destroyed",
         UNCHANGED <<catalogVersion, clusterUuid, logPrefix, svcThreads, cores>>,
         UNCHANGED RpcVars
  PROVE  IInv'
<1>1. UNCHANGED <<rpcPc, rpcVer, nextVer, proposed, dfatal>>
  BY DEF RpcVars
<1>2. CallingHasVersion' /\ VersionIsMaxSeen'
  BY <1>1, RpcSideKept
<1>3. initted' = FALSE /\ shutdownRuns' \in 0..1
  <2>1. CASE initted
    <3>1. initted' = FALSE /\ shutdownRuns' = shutdownRuns + 1
      BY <2>1, Zenon DEF ShutdownEffect, ShutdownCas
    <3>2. shutdownRuns = 0
      BY <2>1 DEF IInv, Lifecycle
    <3>. QED  BY <3>1, <3>2
  <2>2. CASE ~initted
    <3>1. initted' = initted /\ shutdownRuns' = shutdownRuns
      BY <2>2, Zenon DEF ShutdownEffect, ShutdownCas
    <3>2. initted = FALSE
      BY <2>2, Zenon DEF IInv, TypeOK
    <3>3. shutdownRuns \in 0..1
      BY DEF IInv, Lifecycle
    <3>. QED  BY <3>1, <3>2, <3>3
  <2>. QED  BY <2>1, <2>2
<1>4. TypeOK'
  <2>1. initted' \in BOOLEAN /\ dfatal' \in BOOLEAN
    BY <1>1, <1>3, Zenon DEF IInv, TypeOK
  <2>2. shutdownRuns' \in Nat /\ mainPc' \in MainPcs
    BY <1>3 DEF MainPcs
  <2>3. /\ catalogVersion' \in 0..MaxVersion
        /\ clusterUuid' \in Uuids \cup {NoUuid} /\ logPrefix' \in Uuids \cup {NoUuid}
        /\ svcThreads' \in Int /\ cores' \in CoreCounts
        /\ rpcPc' \in [RpcThreads -> {"idle", "calling"}]
        /\ rpcVer' \in [RpcThreads -> 0..MaxVersion]
        /\ nextVer' \in 1..MaxVersion + 1
        /\ proposed' \subseteq 1..MaxVersion
    BY <1>1 DEF IInv, TypeOK
  <2>. QED  BY <2>1, <2>2, <2>3 DEF TypeOK
<1>5. Lifecycle'
  BY <1>3, Zenon DEF Lifecycle
<1>6. ThreadsClamped'
  BY DEF IInv, ThreadsClamped
<1>. QED  BY <1>2, <1>4, <1>5, <1>6 DEF IInv

LEMMA LearnStep ==
  ASSUME IInv, NEW t \in RpcThreads, LearnVersion(t)
  PROVE  IInv'
<1>0. UNCHANGED <<initted, dfatal>>
  BY Zenon DEF LearnVersion
<1>1. /\ UNCHANGED <<catalogVersion, clusterUuid, logPrefix, svcThreads,
                     cores, mainPc, proposed, shutdownRuns>>
      /\ rpcPc[t] = "idle" /\ nextVer <= MaxVersion
      /\ rpcVer' = [rpcVer EXCEPT ![t] = nextVer]
      /\ nextVer' = nextVer + 1
      /\ rpcPc' = [rpcPc EXCEPT ![t] = "calling"]
  BY Zenon DEF LearnVersion
<1>2. TypeOK'
  <2>1. initted' \in BOOLEAN /\ dfatal' \in BOOLEAN
    BY <1>0, Zenon DEF IInv, TypeOK
  <2>2. /\ catalogVersion' \in 0..MaxVersion
        /\ clusterUuid' \in Uuids \cup {NoUuid} /\ logPrefix' \in Uuids \cup {NoUuid}
        /\ svcThreads' \in Int /\ cores' \in CoreCounts /\ mainPc' \in MainPcs
        /\ rpcPc' \in [RpcThreads -> {"idle", "calling"}]
        /\ rpcVer' \in [RpcThreads -> 0..MaxVersion]
        /\ nextVer' \in 1..MaxVersion + 1
        /\ proposed' \subseteq 1..MaxVersion /\ shutdownRuns' \in Nat
    <3>1. catalogVersion' \in 0..MaxVersion
      BY <1>1, TypeNumeric
    <3>2. clusterUuid' \in Uuids \cup {NoUuid} /\ logPrefix' \in Uuids \cup {NoUuid}
      BY <1>1, TypeNumeric
    <3>3. svcThreads' \in Int /\ cores' \in CoreCounts /\ mainPc' \in MainPcs
      BY <1>1, TypeNumeric
    <3>4. rpcPc' \in [RpcThreads -> {"idle", "calling"}]
      BY <1>1, TypeNumeric
    <3>5. rpcVer' \in [RpcThreads -> 0..MaxVersion]
      BY <1>1, TypeNumeric
    <3>6. nextVer' \in 1..MaxVersion + 1
      BY <1>1, TypeNumeric, ManagerAssumption
    <3>7. proposed' \subseteq 1..MaxVersion /\ shutdownRuns' \in Nat
      BY <1>1, TypeNumeric
    <3>. QED BY <3>1, <3>2, <3>3, <3>4, <3>5, <3>6, <3>7
  <2>. QED  BY <2>1, <2>2 DEF TypeOK
<1>3. CallingHasVersion'
  BY <1>1, TypeNumeric DEF IInv, CallingHasVersion
<1>4. VersionIsMaxSeen' /\ ThreadsClamped'
  BY <1>1 DEF IInv, VersionIsMaxSeen, ThreadsClamped
<1>5. Lifecycle'
  <2>1. shutdownRuns' = shutdownRuns /\ mainPc' = mainPc
    BY <1>1
  <2>. QED  BY <1>0, <2>1, Zenon DEF IInv, Lifecycle
<1>. QED  BY <1>2, <1>3, <1>4, <1>5 DEF IInv

\* SetCatalogVersion: the stored version becomes the larger of the stored
\* and the proposed one, which keeps it the maximum of all proposals.
LEMMA SetVersionStep ==
  ASSUME IInv, NEW t \in RpcThreads, SetCatalogVersion(t)
  PROVE  IInv'
<1> DEFINE v == rpcVer[t]
<1>1. /\ UNCHANGED <<clusterUuid, logPrefix, svcThreads, cores, mainPc,
                     rpcVer, nextVer, shutdownRuns>>
      /\ rpcPc[t] = "calling"
      /\ catalogVersion' = IF v > catalogVersion THEN v ELSE catalogVersion
      /\ proposed' = proposed \cup {v}
      /\ rpcPc' = [rpcPc EXCEPT ![t] = "idle"]
  BY Zenon DEF SetCatalogVersion, VersionNewer
<1>2. initted' = initted /\ dfatal' \in BOOLEAN
  <2>1. initted' = initted /\ dfatal' = (dfatal \/ (~VersionNewer(v) /\ v < catalogVersion))
    BY Zenon DEF SetCatalogVersion
  <2>. QED  BY <2>1, Zenon
<1>3. v \in 1..MaxVersion
  BY <1>1 DEF IInv, CallingHasVersion
<1>4. catalogVersion' \in 0..MaxVersion /\ catalogVersion' >= v
      /\ catalogVersion' >= catalogVersion
      /\ catalogVersion' \in {catalogVersion, v}
  <2>1. catalogVersion \in 0..MaxVersion
    BY DEF IInv, TypeOK
  <2>. QED  BY <1>1, <1>3, <2>1
<1>5. TypeOK'
  <2>1. initted' \in BOOLEAN /\ dfatal' \in BOOLEAN
    BY <1>2, Zenon DEF IInv, TypeOK
  <2>2. /\ catalogVersion' \in 0..MaxVersion
        /\ clusterUuid' \in Uuids \cup {NoUuid} /\ logPrefix' \in Uuids \cup {NoUuid}
        /\ svcThreads' \in Int /\ cores' \in CoreCounts /\ mainPc' \in MainPcs
        /\ rpcPc' \in [RpcThreads -> {"idle", "calling"}]
        /\ rpcVer' \in [RpcThreads -> 0..MaxVersion]
        /\ nextVer' \in 1..MaxVersion + 1
        /\ proposed' \subseteq 1..MaxVersion /\ shutdownRuns' \in Nat
    BY <1>1, <1>3, <1>4 DEF IInv, TypeOK
  <2>. QED  BY <2>1, <2>2 DEF TypeOK
<1>6. CallingHasVersion'
  BY <1>1 DEF IInv, TypeOK, CallingHasVersion
<1>7. VersionIsMaxSeen'
  BY <1>1, <1>4 DEF IInv, VersionIsMaxSeen
<1>8. Lifecycle' /\ ThreadsClamped'
  BY <1>1, <1>2, Zenon DEF IInv, Lifecycle, ThreadsClamped
<1>. QED  BY <1>5, <1>6, <1>7, <1>8 DEF IInv

LEMMA NextIInv == IInv /\ [Next]_vars => IInv'
<1> SUFFICES ASSUME IInv, [Next]_vars PROVE IInv'
  OBVIOUS
<1>1. CASE \E u \in Uuids : set_cluster_uuid(u)
  BY <1>1, SetUuidStep
<1>2. CASE Init_
  BY <1>2, InitStep
<1>3. CASE Start
  BY <1>3, StartStep
<1>4. CASE Shutdown
  <2>1. ShutdownEffect /\ mainPc' = "shut" /\ mainPc # "destroyed"
        /\ UNCHANGED <<catalogVersion, clusterUuid, logPrefix, svcThreads, cores>>
        /\ UNCHANGED RpcVars
    BY <1>4, Zenon DEF Shutdown
  <2>. QED  BY <2>1, ShutdownEffectStep
<1>5. CASE Destroy
  <2>1. ShutdownEffect /\ mainPc' = "destroyed" /\ mainPc # "destroyed"
        /\ UNCHANGED <<catalogVersion, clusterUuid, logPrefix, svcThreads, cores>>
        /\ UNCHANGED RpcVars
    BY <1>5, Zenon DEF Destroy
  <2>. QED  BY <2>1, ShutdownEffectStep
<1>6. CASE \E t \in RpcThreads : LearnVersion(t)
  BY <1>6, LearnStep
<1>7. CASE \E t \in RpcThreads : SetCatalogVersion(t)
  BY <1>7, SetVersionStep
<1>8. CASE UNCHANGED vars
  BY <1>8 DEF vars, IInv, TypeOK, CallingHasVersion, VersionIsMaxSeen, Lifecycle,
              ThreadsClamped
<1>. QED  BY <1>1, <1>2, <1>3, <1>4, <1>5, <1>6, <1>7, <1>8 DEF Next

LEMMA IInvInvariant == Spec => []IInv
BY InitIInv, NextIInv, PTL DEF Spec

-----------------------------------------------------------------------------
(* Theorems                                                                *)

\* Every reachable state of the catalog manager is well-typed.
THEOREM TypeCorrect == Spec => []TypeOK
BY IInvInvariant, PTL DEF IInv

\* SetCatalogVersion from any number of concurrent RPC threads keeps the
\* stored catalog version equal to the largest version any completed call
\* proposed, whatever order the calls take lock_ in.
THEOREM VersionIsMax == Spec => []VersionIsMaxSeen
BY IInvInvariant, PTL DEF IInv

\* Shutdown's compare-exchange runs the shutdown branch at most once, even
\* though the destructor calls Shutdown after an explicit Shutdown.
THEOREM ShutdownOnce == Spec => []ShutdownStepsOnce
<1>1. IInv => ShutdownStepsOnce
  BY DEF IInv, Lifecycle, ShutdownStepsOnce
<1>. QED  BY <1>1, IInvInvariant, PTL

\* After Start, AutoInitServiceFlags has replaced the auto value -1 by a
\* thread count between 64 and 512, for every number of cores.
THEOREM ThreadsClampedHolds == Spec => []ThreadsClamped
BY IInvInvariant, PTL DEF IInv
=============================================================================
