# TLA+ verification of chogori-sql: the pggate session engine, request model and SQL catalog

This directory holds TLA+ models of the SQL-to-K2 execution bridge in
`src/src/k2/connector/yb/`, the TLC configurations that model-check them, and
TLAPS proofs about them.

## The system

The bridge turns the statements of a single-threaded PostgreSQL backend into
requests for the K2 storage adapter. It has these parts:

| Part | Source | What it does |
|---|---|---|
| Expression and request model | `pggate/pg_op_api.h`, `pggate/k2docapi.h` | `SqlOpExpr` tagged values; read and write requests; responses; paging state |
| Operation templates | `pggate/pg_op_api.h` | `PgOpTemplate` couples one request with its response and the target table; `IsTransactional` comes from the table |
| Session engine | `pggate/pg_session.h` | `PgSession`: buffering flag, `buffered_ops_`, `buffered_txn_ops_`, `buffered_keys_`; `Start/Stop/Reset/Flush/DropBufferedOperations`; `RunAsync` with its `RunHelper` |
| Async result handle | `pggate/pg_session.h` | `PgSessionAsyncRunResult`: a future plus the adapter client whose pending errors `GetStatus` drains |
| Caches | `pggate/pg_session.h` | table descriptor cache and foreign-key reference cache |
| Catalog manager and client | `server/sql_catalog_manager.cc`, `pggate/catalog/sql_catalog_client.cc` | catalog version, init-db flag, and RPC wrappers that turn a failed response into `RuntimeError` |
| Storage adapter | not in the repository | accepts a batch and a transactional flag, and returns a future |

This is how they interact. The statement layer builds operation templates and
calls `RunAsync`. `RunAsync` builds a `RunHelper` bound to the transactional
mode of the first operation. The helper then does two things:

- `Apply` either buffers each write in the session buffer of that mode, or
  adds it to the helper's own adapter session.
- `Flush` sends the helper's adapter session to the adapter and returns a
  `PgSessionAsyncRunResult`.

The session's buffers are flushed by `StopOperationsBuffering` or
`FlushBufferedOperations`. They are also flushed by `Apply` when a write hits a
row that is already buffered. A flush makes one adapter call per non-empty
buffer, each under its own flag.

`pg_session.cc` is not in the repository. So the bodies of the buffering
operations and of the RunHelper come from the declarations and comments in
`pg_session.h` and from `spec.md` section 4.3. `PROJECT.json` marks them
`spec_modelled` where no line of the source states them.

## Modules

### `PgSession.tla`: session engine, RunHelper, async result and adapter

**State.**

| Variable | Models |
|---|---|
| `buffering` | `buffering_enabled_` |
| `buf[TRUE]`, `buf[FALSE]` | `buffered_txn_ops_`, `buffered_ops_` |
| `keys` | `buffered_keys_` |
| `rh` | the RunHelper of the `RunAsync` call in progress: its mode, `force_non_bufferable`, the operations still to apply, and what it has applied to its own adapter session |
| `batches` | every adapter call in order, each with its operations, its flag, whether its future is done, and its status |
| `handles` | the async results the caller has not read yet |
| `pendingErrs` | errors of failed calls that wait in the adapter client |
| `dropped`, `last` | ghost variables used by the properties |

An operation is abstracted to its table, its row and whether it writes. A
buffer is a set of operation ids. The adapter does not keep the order within
a batch (spec section 6), so that order is not observable.

**Actions.** There is one action per caller operation:

- `StartOperationsBuffering`
- `StopOperationsBuffering`
- `ResetOperationsBuffering`
- `FlushBufferedOperations`
- `DropBufferedOperations`
- `RunAsync`
- `GetStatus`

The RunHelper has two steps:

- `RunHelperApply` handles one operation of the call. It may buffer the
  operation. On a key conflict it first flushes that mode's buffer, and if
  that flush fails `RETURN_NOT_OK` ends the call. Otherwise the operation is
  applied to the helper's session.
- `RunHelperFlush` makes the helper's single asynchronous adapter call.

The adapter has one action, `AdapterComplete`, which completes a call with
any status. A synchronous flush (`SyncFlush`) waits for its own calls, so it
appends them already done. Reading their status drains every error pending in
the client.

**Single caller.** `CallerIdle` guards every caller operation except the
RunHelper steps. This models the single-threaded backend (`pg_session.h:122`):
a call returns before the next one starts. Adapter completions interleave
freely with everything.

### `SqlOpExpr.tla`: expressions and conditions (`pg_op_api.h`, `k2docapi.h`)

**State.**

| Variable | Models |
|---|---|
| `type_`, `value_`, `values_`, `condition_`, `id_` | the five members of `SqlOpExpr` |
| `condOp`, `condOperands` | `op_` and `operands_` of each `SqlOpCondition` |
| `lastRead` | ghost: the getter last called, the tag at that moment, and what it returned |

A member that no constructor initialises is `Null` when it is a
`std::shared_ptr` and `Garbage` (indeterminate) when it is a raw pointer, an
`int32_t` or the enum. The constant `RawPointers` switches between
`SqlOpExpr` (FALSE) and its twin `DocExpr` (TRUE, which also lacks `setType`
and `isValueType`).

**Actions.**

- `Init` is one of the four constructors.
- There is one action per mutator. `setColumnId`, `setBindId` and
  `setAliasId` share `setIdOfType`.
- There is one action per getter, through `Read`.

### `OpTemplate.tla`: operation templates and responses (`pg_op_api.h`)

**State.**

- A template (`subclass`, `live`) and the slot for its `DeepCopy`.
- Their request objects (`reqOf`, `reqContent`, `retPaging`) and the
  request handles the caller holds (`held`).
- `response_` as `[status, skipped]`.
- `rows_data_` as the set of dispatches whose rows it holds.
- `is_active_` and `is_single_row_txn_`.

**Actions.**

- `request`, `MutateRequest`, `set_return_paging_state`, `set_active`,
  `set_is_single_row_txn`, `DeepCopy`.
- `Dispatch`: the adapter attaches a response and fills the rows through
  `mutable_rows_data()` (`FillRows`). The producer is not in the
  repository; spec section 4.2 has it replace the buffer, so `FillRows` is
  `spec_modelled`.
- The reads `succeeded`, `applied` and `rows_data`.

The adapter is not in the repository. `Dispatch` therefore leaves open
whether the producer assigns `skipped`, which has no initialiser.
`rows_data()` returns an rvalue reference, so each call chooses whether the
caller moves from it. `DeepCopy` follows its declaration comment: copy
everything except the response and the rows.

### `DocExpr.tla` and `DocCall.tla`: the DocApi twins (`k2docapi.h`)

`DocExpr`/`DocCondition` and `DocCall`/`DocReadCall`/`DocWriteCall` have
the same members and method bodies as `SqlOpExpr`/`SqlOpCondition` and
`PgOpTemplate` and its subclasses. Each module therefore instantiates the
model of its twin and names one wrapper per method of `k2docapi.h`, so the
map points at the DocApi lines and the bodies are written once:

- `DocExpr` is `SqlOpExpr` with `RawPointers <- TRUE` (raw `SqlValue*` and
  `DocCondition*` members are indeterminate where a constructor does not set
  them) and `HasSetType <- FALSE` (no `setType`, no `isValueType`).
- `DocCall` is `OpTemplate`, except that `MutateRequest` needs a read call:
  `DocWriteCall::request()` returns a const reference, and the caller
  writes the fields of a `DocReadRequest`. The adapter answers with a
  `DocResponse` (`DocResponses`: status defaults to OK, `skipped` has no
  initialiser) and fills `rows_data_` (`Dispatch`); there is no
  `mutable_rows_data()`.

### `PgSessionCache.tla`: the session caches (`pg_session.h`)

**State.** `connected` (`connected_database_`), `timeout` (`timeout_`),
`tableCache` (`table_cache_`, as the schema version of each cached
descriptor or `NoDesc`), `fkCache` (`fk_reference_cache_`). The
environment: `schemaVer`, each table's schema version in the catalog, bumped
by other sessions' DDL (`AlterTable`), and `stmt`, the statement of the
single caller.

**Actions.** One per `PgSession` cache method: the setters,
`InvalidateCache` (`table_cache_.clear()`), `InvalidateTableCache`,
`InvalidateForeignKeyReferenceCache`, and the three foreign-key calls over
`FkRef`, the pair (table id, ybctid). `PgForeignKeyReference` is declared
in the header, but its equality and hash are in `pg_session.cc`; that they
compare both members is taken from spec section 3, so `FkRef` is
`spec_modelled`. `ForeignKeyReferenceExists` only answers, and changes no
state.
A statement goes `StartStatement`, `LoadTable` (cache hit, or fetch and
insert), `Execute` (the storage layer answers `SchemaVersionMismatch` when
the descriptor's version is not the table's), and on a mismatch
`HandleMismatch`: the caller invalidates the entry or the whole cache
(spec sections 4.4 and 8) and loads again. The bodies of `LoadTable`,
`InvalidateTableCache` and the foreign-key calls are in the absent
`pg_session.cc`; they are `spec_modelled`.

**Fairness.** `WF` on `LoadTable`, `Execute` and `HandleMismatch`: the
adapter answers every operation it is sent, and the caller's retry on
`SchemaVersionMismatch` is the protocol of spec section 8, not a choice.
Nothing is assumed of the setters, of invalidation by other callers or of
`AlterTable`, which is bounded by `MaxSchemaVer`, so other sessions stop
altering a table eventually.

### `CatalogManager.tla`: `server/sql_catalog_manager.cc`

There is one lifecycle thread and one or more RPC threads.

- The lifecycle thread runs `set_cluster_uuid`, `Init_` (`Init` of the
  code), `Start` (with `AutoInitServiceFlags`), an optional `Shutdown`, and
  `Destroy`. `Destroy` is the destructor, which calls `Shutdown` again.
- Each RPC thread runs `LearnVersion` and then `SetCatalogVersion`.

`lock_` makes `SetCatalogVersion` and the uuid accessors single steps.
`Shutdown` is one step because it is one compare-exchange. `Init` is one
step because only the lifecycle thread touches `initted_`. The header is not
in the repository, so `initted_ = false` and `catalog_version_ = 0` are
assumed initial values.

### `CatalogClient.tla`: `pggate/catalog/sql_catalog_client.cc`

There is one action per wrapper, all built from `Wrap`:

- the catalog answers with success (after its own effect) or with failure
  (no change);
- the client then returns OK with its out-parameters set, or
  `RuntimeError` with none set.

The catalog behind `catalog_manager_` is not in the repository. Its state
(databases, tables and indexes per database, catalog version, next oid per
database) and its answers follow the collaborator contract of spec
section 6. `PROJECT.json` marks them `spec_modelled`. The ghost `issued`
records every `<<database, oid>>` pair a successful `ReservePgOids` wrote
to the caller's `[*begin_oid, *end_oid)`.

### `MCPgSession.tla` and its configurations

The instance has:

- two tables, one of them transactional;
- one row;
- at most 3 operations in a behaviour, at most 2 per `RunAsync` call.

One row is enough for every conflict. Two writes to it in one call, or in
two calls, give a conflict flush. A write and a read to it give the
read-your-writes case. Two tables give both modes. Three operations allow a
conflict, a flush and a third operation after it. With 4 operations the state
space is more than 36 million states.

### The other MC modules

- `MCSqlOpExpr` has two values, two ids, one condition and one operand
  expression. That is enough for a payload to outlive a tag change and for
  every constructor to leave something unset. `MaxList = 2` lets a list
  grow past one value.
- `MCOpTemplate` has one template of either subclass and a slot for its
  copy. It has two request contents and two dispatches, so a template is
  answered twice, or it and its copy once each. This is the least that
  shows a second page of rows and a copy made after a dispatch.
- `MCDocExpr` and `MCDocCall` take the bounds of `MCSqlOpExpr` and
  `MCOpTemplate`.
- `MCPgSessionCache` has two tables, one ybctid, one database and schema
  versions up to 2. Version 2 lets a cached descriptor go stale, and the
  second table makes `InvalidateTableCache` differ from `InvalidateCache`.
- `MCCatalogManager` has two RPC threads and three versions, so calls can
  reach the lock out of order. Its core counts are 1, 2, 3, 16 and 17:
  below, at and above each clamp of `max(64, min(512, cores * 32))`. The
  flag is either -1 or set by the operator.
- `MCCatalogClient` has two databases, two oids and four DDL requests:
  enough to create a database, a table and an index on it, and to delete
  them. Oids go up to 3 with counts 1 and 2, so a hint beyond the next
  free oid is taken, and a second reservation can ask for a `next_oid`
  inside the first range.

## Runs

| Run | Config | Expect | What it shows |
|---|---|---|---|
| `session_safety` | `MCPgSession.cfg` | pass | 344,394 distinct states; all properties listed below hold |
| `read_your_writes` | `MCPgSession_OrderOfRowPreserved.cfg` | violation | `RunAsync([W(r), R(r)])` with buffering on buffers `W` and sends `R` in its own call first |
| `stop_failure_keeps_buffers` | `MCPgSession_StopFailureKeepsBuffers.cfg` | violation | a failed `StopOperationsBuffering` has already drained its buffers |
| `expr_stale_payload` | `MCSqlOpExpr_StalePayloadUnreadable.cfg` | violation | `SqlOpExpr(LIST_VALUES, v)` then `getValue()` returns `v`; `setColumnId` after `setValue` leaves the value readable |
| `docexpr_pointer_reads` | `MCDocExpr_PointerReadsDefined.cfg` | violation | `DocExpr(type, value)` then `getCondition()` returns an uninitialised raw pointer |
| `template_safety` | `MCOpTemplate.cfg` | pass | `TypeOK`: every live template owns an allocated request through copies, setters and two dispatches |
| `rows_extracted_once` | `MCOpTemplate_RowsExtractedOnce.cfg` | violation | two `rows_data()` calls without a move return the same rows twice |
| `applied_skipped_defined` | `MCDocCall_AppliedReadsDefinedSkipped.cfg` | violation | `DocCall::applied()` on an OK `DocResponse` reads the uninitialised `skipped` |
| `catalog_manager` | `MCCatalogManager.cfg` | pass | `VersionIsMaxSeen`, `ShutdownStepsOnce`, `ThreadsClamped` |
| `stale_version_dfatal` | `MCCatalogManager_NoStaleVersionUpdate.cfg` | violation | versions learned as 1 then 2 reach `lock_` as 2 then 1, and the `LOG(DFATAL)` branch is taken |
| `catalog_client` | `MCCatalogClient.cfg` | pass | `TypeOK`; `OidsNeverReissued` (an action property): no oid range `ReservePgOids` returns overlaps an earlier one of the same database |
| `session_caches` | `MCPgSessionCache.cfg` | pass | `StatementCompletes` (liveness, under the fairness below) |

The properties checked by `session_safety`:

- `TypeOK`.
- `OpsAccountedOnce`: every operation is in exactly one place, so nothing is
  lost and nothing is sent twice.
- `NoRowBufferedTwice`.
- `KeysTrackBuffers`: `buffered_keys_` is exactly the rows buffered.
- `UnbufferedHoldsNothing`: with buffering off nothing is buffered.

Each property has a mutant in `PROJECT.json`: a plausible bug in one mapped
definition that TLC catches with that property.

`catalog_manager` sets `CHECK_DEADLOCK FALSE`. Its behaviours really end:
the manager is destroyed and every RPC thread has used up the versions.
Every other pass run checks deadlock. In the expression and template models
a getter is always enabled. In the client a request can always fail.

In the session model, deadlock is checked. The model stops only when all operation ids are used
and every call has completed and been read. That is a real end of a bounded
session, so a deadlock report would be a real stuck state. Every reachable
state with ids left can still do `RunAsync`. No liveness property is checked
yet, so no fairness is assumed.

The two violation runs record gaps between spec sections, listed as
findings in `PROJECT.json`:

- **Read-your-writes.** Section 1 promises read-your-own-writes across
  buffered writes. But the dispatch rule of section 4.3 sends reads and
  forced operations immediately, "not disturbing" the buffers.
- **Stop failure.** Section 8 says a failed Stop keeps its buffers. But
  section 4.3 says a flush clears them when it hands them to the adapter.

The other violation runs are findings about the code:

- **Stale payloads** (`pg_op_api.h:69`). Section 3 asks for a closed
  tagged union. The constructors accept any tag with any payload, the
  mutators overwrite only their own member, and the getters ignore the tag.
- **Raw pointers left unset** (`k2docapi.h:63`). `DocExpr`'s value and id
  constructors leave raw pointer members indeterminate. `SqlOpExpr`'s
  `shared_ptr` members are null in the same place: the same constructors
  in `SqlOpExpr` give null, testable pointers.
- **`rows_data()` does not empty the buffer** (`pg_op_api.h:313`). Only a
  caller that move-constructs from the returned `std::string&&` empties it,
  while section 4.2 promises that later reads see it empty.
- **`skipped` has no initialiser** (`k2docapi.h:282`, and identically
  `pg_op_api.h:272`). `applied()` is
  right for failed responses, because `&&` short-circuits. But for a
  successful response it depends on the producer assigning `skipped`.
- **`LOG(DFATAL)` on an older catalog version**
  (`sql_catalog_manager.cc:131`). Concurrent callers reach it by taking
  the lock out of order. The stored version stays right
  (`VersionIsMaxSeen`), but a debug build aborts.

## Proofs

`PgSession_proofs.tla` proves `THEOREM TypeCorrect == Spec => []TypeOK` for
every value of the constants that satisfies `SessionAssumption`:

- `TxnTables` is a subset of `Tables`;
- `MaxOps` and `MaxRun` are positive;
- `NoOp` is not an operation.

`TypeOK` is not inductive on its own. `RunHelperApply` reads `opInfo` of the
operation at the head of the helper, and `TypeOK` allows that id to still be
`NoOp`. The proof therefore uses `IInv == TypeOK /\ TodoAssigned`:
`TodoAssigned` says every operation the helper still has to apply was handed
out by `RunAsync`. TLC checked `TodoAssigned` on the full `session_safety`
state space before it was proved.

The proof has these parts:

- `TypeInit` and `TodoInit` show that `Init` implies `IInv`.
- `TypeNext` and `TodoNext` handle one case per action and show that every
  step keeps `IInv`.
- `IInvInvariant` combines them with PTL.
- The lemmas `FlushCallsType`, `SyncFlushType`, `CompleteBatchType`,
  `CompleteCallType` and `IdleHelperType` state what the flush helpers and
  the call log operations return.

`CatalogManager_proofs.tla` proves four theorems about the catalog
manager for every value of the constants allowed by `ManagerAssumption`:
any set of RPC threads and uuids, any non-empty set of positive core
counts, any set of integer flag values that contains `-1`, and any
version bound. The theorems are:

- `VersionIsMax`, which proves `VersionIsMaxSeen`;
- `ShutdownOnce`, which proves `ShutdownStepsOnce`;
- `ThreadsClampedHolds`, which proves `ThreadsClamped`;
- `TypeCorrect`.

TLC shows the three properties only for two threads and versions up to 3.

None of the three properties is inductive on its own:

- `VersionIsMaxSeen` needs `CallingHasVersion`: a thread about to call
  `SetCatalogVersion` holds a version in `1..MaxVersion`.
- `ShutdownStepsOnce` needs `Lifecycle`, which ties the lifecycle
  thread's position to `initted_` and to the number of shutdown runs.
  While `initted_` is set, the shutdown branch has not run yet, so the one
  successful compare-exchange raises the count from 0 to 1.

The inductive invariant is `IInv == TypeOK /\ CallingHasVersion /\
VersionIsMaxSeen /\ Lifecycle /\ ThreadsClamped`. TLC checked it on the
`catalog_manager` instance before it was proved.

The proof has these parts:

- `InitIInv` shows that `Init` implies `IInv`.
- One lemma per action shows that the action keeps `IInv`: `SetUuidStep`,
  `InitStep`, `StartStep`, `ShutdownEffectStep` (shared by `Shutdown` and
  the destructor), `LearnStep` and `SetVersionStep`.
- `NextIInv` splits `Next` into those cases.
- `AutoThreadsRange` states what `AutoInitServiceFlags` computes.

`CatalogClient_proofs.tla` proves two theorems for every value of the
constants allowed by `ClientAssumption`: `NoOid` is not an oid, the
version bound is a natural, and `MaxOid` is at least 1. The last is
needed because `Init` sets every database's next oid to 1. The theorems are:

- `OidsNeverReissuedThm`, which proves `OidsNeverReissued`;
- `TypeCorrect`, which proves `TypeOK`.

`OidsNeverReissued` relates a step to the whole history of reservations,
so it rests on the invariant `IssuedBelowNext`: every oid handed out for a
database lies below the catalog's next oid of that database. A successful
reservation starts at `max(next_oid, nextOid[d])`, hence above every oid
already issued (`ReserveFresh`), and moves `nextOid[d]` past its own range
(`ReserveOk`); no other step touches `issued` or `nextOid`. The inductive
invariant is `IInv == TypeOK /\ IssuedBelowNext`. There is one lemma per
wrapper. `WrapFails` and `WrapOk` tell the two branches of `Wrap` apart by
the returned status, and `WrapNames` says every wrapper records its own
name, so only `ReservePgOids` steps are constrained
(`OtherNotReserve`). The type invariant is split into its Boolean part,
for Zenon, and the rest, for SMT (`TypeData`, `TypeBool`, `TypeJoin`).

`PgSessionBuffers_proofs.tla` proves three of the session's buffer
invariants for every value of the constants allowed by
`SessionAssumption`:

- `KeysAlwaysTrackBuffers`, which proves `KeysTrackBuffers`;
- `RowsNeverBufferedTwice`, which proves `NoRowBufferedTwice`;
- `UnbufferedAlwaysEmpty`, which proves `UnbufferedHoldsNothing`.

None of these is inductive alone. The inductive invariant is
`BInv == IInv /\ BufInv`, and `BufInv` adds three conjuncts:

- `BufModes`: every buffered operation was issued and sits in the buffer
  of its own mode. A flush of one mode must leave the other mode's rows,
  and the two buffers never share an operation.
- `HelperModes`: every operation a RunHelper holds was issued and has the
  helper's mode. Apply puts its head into the buffer of `rh.txn`, and
  `RunHelperFlush` sends it under that flag.
- `BatchesGood`: every adapter call carries issued operations of its own
  mode. The `Issued` part keeps `opInfo` of those operations fixed as
  RunAsync adds new ones.

The conflict branch of `RunHelperApply` needs all of them. It flushes only
the buffer of `rh.txn`, and then buffers the write. The rows left in the
other buffer belong to operations of the other mode. A row determines its
table, and so its mode (`SameRowSameMode`). So none of those rows is the
new write's row. There is one lemma per action, and Apply has one per
branch (`ApplyBuffer`, `ApplyConflictOk`, `ApplyConflictFail`,
`ApplyDirect`). `FlushedRows` and `FlushKeeps` state what a flush of a set
of modes leaves in `buf` and `keys`. `NextBInv` combines the lemmas. Before the
proof, TLC checked `BInv` on the `MCPgSession` instance (344,394 distinct
states).

`OpTemplate_proofs.tla` proves `THEOREM TypeCorrect == Spec => []TypeOK`
for every value of the constants allowed by `TemplateAssumption`. `TypeOK`
is inductive as it stands: `DeepCopy` takes the request object `nextReq`
only while `nextReq <= MaxReqs`, and `Dispatch` numbers its rows only while
`nDispatch < MaxDispatch`. `InitType` covers `Init`; `SetterStep` covers
`request()`, the writes through a held request and the flag setters; each
other action has a lemma of its own (`DeepCopyStep`, `DispatchStep`,
`ReadStep`, `RowsDataStep`), and `NextType` combines them.

`PgSessionOps_proofs.tla` proves `OpsAlwaysAccountedOnce ==
Spec => []OpsAccountedOnce` under `SessionAssumption`. The invariant says
that every issued operation is in exactly one place: the helper's list, the
helper's session, either buffer, one adapter call, or the dropped set. It is
not inductive as it stands, for three reasons:

- `RunAsync` overwrites the RunHelper. So the proof needs `IdleEmpty`: an
  idle helper holds nothing that would be lost.
- `RunHelperApply` moves the head of the list. So it needs `TodoDistinct`:
  no operation appears twice in the list, and the tail no longer holds the
  head.
- `RunAsync` uses `nextId` as a fresh id. So it needs the set form of the
  accounting, `Accounted`, with `Issued` equal to what is held plus what is
  sent. Together with `PlacesDisjoint`, this says a fresh id is in no place.

`AInv == BInv /\ AccInv` is inductive (`AInvInvariant`). It rests on `BInv`
for the modes that a flush and a conflict take from the buffers (`ModeSwap`).
Lemmas about `OpsOf` over `\o` and `Append` (`ConcatOps`, `AppendOps`,
`FlushCallsOps`) describe what a flush sends. `AccountedOnce` derives the
indexed form that the run checks, and `FiveDisjoint` is the pairwise step.
Before the proof, TLC checked `AInv` on the `MCPgSession` instance
(344,394 distinct states).

With this, every property of a passing run has a TLAPS theorem except one:
the liveness property `StatementCompletes`, which needs fairness and stays
with TLC. The properties of the `violation` runs are false, so they are not
proved.
Liveness and `ENABLED` are beyond TLAPS. Nothing in these modules is
recursive.

## Not modelled (yet)

These parts are not modelled yet:

- `ConnectDatabase` and the catalog fetch behind `LoadTable`: their bodies
  are in `pg_session.cc`, which is absent;
- `HandleResponse`: also in `pg_session.cc`;
- the paging-state continuation loop: it lives in the DML bodies, which
  are absent;
- the request `clone()` bodies, which are absent.

See `PROJECT.json` components for the reasons and the plan. The K2 client
stubs (`k2client.cc`) return OK without state. The DDL and DML statement
classes (`k2ddl.h`, `pg_dml.h`) are declarations without bodies. These are
out of scope. `k2ddl.h` declares `table_id_` twice (lines 205 and 207),
so it would not compile as it stands.

`default_session_max_batch_size` (`pg_session.h:69`) is declared, but no
code under `src/` reads it. There is no batch limit to model.
