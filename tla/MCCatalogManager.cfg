CONSTANTS
  t1 = t1
  t2 = t2
  u1 = u1
  NoUuid = NoUuid
  RpcThreads <- MCRpcThreads
  Uuids <- MCUuids
  CoreCounts <- MCCoreCounts
  FlagValues <- MCFlagValues
  MaxVersion = 3

SPECIFICATION Spec

CHECK_DEADLOCK FALSE

INVARIANT
  VersionIsMaxSeen
  ShutdownStepsOnce
  ThreadsClamped
