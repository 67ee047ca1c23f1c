------------------------------ MODULE PgSession ------------------------------
(***************************************************************************)
(* The session buffering-and-execution engine of pggate (class PgSession,  *)
(* its nested RunHelper, and PgSessionAsyncRunResult in pg_session.h),    *)
(* together with the K2 storage adapter it submits batches to.            *)
(*                                                                         *)
(* One single-threaded caller (the PostgreSQL backend) drives the session: *)
(* it toggles buffering, runs batches of operations through RunAsync and   *)
(* flushes or drops the buffers.  The adapter completes submitted batches  *)
(* asynchronously; the caller reads a completion through GetStatus.        *)
(*                                                                         *)
(* An operation is abstracted to the table it targets, the row (tuple id)  *)
(* it touches and whether it writes.  A buffer is kept as a set: the       *)
(* adapter does not preserve the order of the operations of one batch, so  *)
(* the order of PgsqlOpBuffer is not observable.  A batch is one call of   *)
(* the adapter; its outcome is the Status its future yields.               *)
(***************************************************************************)
EXTENDS Naturals, Sequences, FiniteSets

CONSTANTS
  Tables,     \* tables the statements target
  TxnTables,  \* the tables whose schema says is_transactional()
  Rows,       \* tuple ids
  MaxOps,     \* bound on the operations created in one behaviour
  MaxRun,     \* bound on the operations of one RunAsync call
  NoOp        \* marks an operation id not yet handed out

Op == [tbl : Tables, row : Rows, write : BOOLEAN]

ASSUME SessionAssumption ==
  /\ TxnTables \subseteq Tables
  /\ MaxOps \in Nat \ {0}
  /\ MaxRun \in Nat \ {0}
  /\ NoOp \notin Op

OpId  == 1..MaxOps
Modes == BOOLEAN   \* TRUE: buffered_txn_ops_, FALSE: buffered_ops_
Calls == {"None", "Start", "Stop", "Reset", "Flush", "Drop",
          "RunAsync", "GetStatus"}

\* One call of the storage adapter: the operations it carries, the
\* transactional flag it was submitted with, and the status of its future.
Batch == [ops : SUBSET OpId, txn : BOOLEAN,
          state : {"inflight", "done"}, ok : BOOLEAN]

\* The RunHelper of the RunAsync call in progress (busy = FALSE: none).
Helper == [busy : BOOLEAN, txn : BOOLEAN, force : BOOLEAN,
           todo : Seq(OpId), sent : SUBSET OpId]
IdleHelper == [busy |-> FALSE, txn |-> FALSE, force |-> FALSE,
               todo |-> << >>, sent |-> {}]

VARIABLES
  buffering,    \* buffering_enabled_
  buf,          \* buf[TRUE] = buffered_txn_ops_, buf[FALSE] = buffered_ops_
  keys,         \* buffered_keys_: RowIdentifiers of the buffered writes
  opInfo,       \* what each operation id handed out stands for
  nextId,       \* next operation id to hand out
  rh,           \* the RunHelper of the RunAsync call in progress
  batches,      \* every call made to the adapter, in order
  handles,      \* PgSessionAsyncRunResults the caller has not read yet
  pendingErrs,  \* batches whose errors wait in the K2Adapter client object
  dropped,      \* ghost: operations discarded without being sent
  last          \* ghost: the caller's last call and whether it returned OK

vars == <<buffering, buf, keys, opInfo, nextId, rh, batches, handles,
          pendingErrs, dropped, last>>

-----------------------------------------------------------------------------
(* Helpers                                                                 *)

\* PgOpTemplate::IsTransactional: a property of the target table.
IsTransactional(t) == t \in TxnTables

\* PgSession::ShouldHandleTransactionally: the mode a RunHelper is bound to.
\* Only its declaration is in the repository; the table's property decides
\* it (spec section 4.3, rule 2).
ShouldHandleTransactionally(t) == IsTransactional(t)

\* RowIdentifier(op): the (table id, tuple id) of a write.
RowOf(o) == <<opInfo[o].tbl, opInfo[o].row>>

Buffered == buf[TRUE] \cup buf[FALSE]

RowsIn(S) == {RowOf(o) : o \in S}

SeqElems(s) == {s[i] : i \in DOMAIN s}

\* The caller is not inside a RunAsync call.
CallerIdle == ~rh.busy

\* The buffers and key set after the buffers of the modes M are handed to
\* the adapter: each flushed buffer is cleared with the keys of its writes.
\* Mutation variant: the flushed buffers are not cleared.
FlushedBufKept(M) == buf

FlushedBuf(M) == [m \in Modes |-> IF m \in M THEN {} ELSE buf[m]]

\* Mutation variant: a flush clears the whole key set.
FlushedKeysAll(M) == {}

FlushedKeys(M) == keys \ RowsIn(UNION {buf[m] : m \in M})

\* Mutation variant: the key set is not consulted.
HasConflictNever(o) == FALSE

\* The write's RowIdentifier is already in buffered_keys_.
HasConflict(o) == RowOf(o) \in keys

\* Mutation variant: the handle names the previous adapter call.
NewHandleOff == Len(batches)

\* The PgSessionAsyncRunResult of the call RunHelper::Flush submits.
NewHandle == Len(batches) + 1

\* Mutation variant: reset does not look at the buffers.
ResetAllowedAlways == TRUE

\* ResetOperationsBuffering: pending buffered operations are not allowed.
ResetAllowed == Buffered = {}

\* The adapter calls of a flush of the modes M: one per non-empty buffer,
\* transactional and non-transactional never in one call.  A synchronous
\* flush waits for them, so they are submitted already done; ok[m] is the
\* status the future of mode m yields.
FlushCall(M, ok, m) ==
  IF m \in M /\ buf[m] # {}
    THEN << [ops |-> buf[m], txn |-> m, state |-> "done", ok |-> ok[m]] >>
    ELSE << >>

FlushCalls(M, ok) == FlushCall(M, ok, TRUE) \o FlushCall(M, ok, FALSE)

\* A synchronous flush of the modes M (FlushBufferedOperationsImpl and the
\* GetStatus it waits with): res is what it returns.  Reading the result
\* drains every error pending in the adapter client, its own or not.
SyncFlush(M, res) ==
  \E ok \in [Modes -> BOOLEAN] :
    /\ batches' = batches \o FlushCalls(M, ok)
    /\ res = (/\ \A m \in M : buf[m] # {} => ok[m]
              /\ pendingErrs = {})
    /\ pendingErrs' = {}

-----------------------------------------------------------------------------
(* Initial state: a fresh session, buffering off, nothing buffered.        *)

Init ==
  /\ buffering = FALSE
  /\ buf = [m \in Modes |-> {}]
  /\ keys = {}
  /\ opInfo = [i \in OpId |-> NoOp]
  /\ nextId = 1
  /\ rh = IdleHelper
  /\ batches = << >>
  /\ handles = {}
  /\ pendingErrs = {}
  /\ dropped = {}
  /\ last = [call |-> "None", ok |-> TRUE]

-----------------------------------------------------------------------------
(* Caller operations                                                       *)

\* StartOperationsBuffering: buffering must not be in progress.
StartOperationsBuffering ==
  /\ CallerIdle
  /\ ~buffering
  /\ buffering' = TRUE
  /\ last' = [call |-> "Start", ok |-> TRUE]
  /\ UNCHANGED <<buf, keys, opInfo, nextId, rh, batches, handles,
                 pendingErrs, dropped>>

\* StopOperationsBuffering: flush everything buffered, then stop buffering,
\* but only if the flush succeeded.  Only the declaration is in the
\* repository; the body follows spec section 4.3.
StopOperationsBuffering ==
  /\ CallerIdle
  /\ buffering
  /\ \E res \in BOOLEAN :
       /\ SyncFlush(Modes, res)
       /\ buffering' = ~res
       /\ last' = [call |-> "Stop", ok |-> res]
  /\ buf' = FlushedBuf(Modes)
  /\ keys' = FlushedKeys(Modes)
  /\ UNCHANGED <<opInfo, nextId, rh, handles, dropped>>

\* ResetOperationsBuffering: stop buffering without flushing; an error if
\* anything is buffered.
ResetOperationsBuffering ==
  /\ CallerIdle
  /\ IF ResetAllowed
       THEN /\ buffering' = FALSE
            /\ last' = [call |-> "Reset", ok |-> TRUE]
       ELSE /\ UNCHANGED buffering
            /\ last' = [call |-> "Reset", ok |-> FALSE]
  /\ UNCHANGED <<buf, keys, opInfo, nextId, rh, batches, handles,
                 pendingErrs, dropped>>

\* FlushBufferedOperations: flush both buffers; buffering mode unchanged.
FlushBufferedOperations ==
  /\ CallerIdle
  /\ \E res \in BOOLEAN :
       /\ SyncFlush(Modes, res)
       /\ last' = [call |-> "Flush", ok |-> res]
  /\ buf' = FlushedBuf(Modes)
  /\ keys' = FlushedKeys(Modes)
  /\ UNCHANGED <<buffering, opInfo, nextId, rh, handles, dropped>>

\* DropBufferedOperations: discard both buffers and the key set.
DropBufferedOperations ==
  /\ CallerIdle
  /\ buf' = [m \in Modes |-> {}]
  /\ keys' = {}
  /\ dropped' = dropped \cup Buffered
  /\ last' = [call |-> "Drop", ok |-> TRUE]
  /\ UNCHANGED <<buffering, opInfo, nextId, rh, batches, handles,
                 pendingErrs>>

\* RunAsync(op, ops_count, relation_id, read_time, force_non_bufferable):
\* the caller hands over ops_count > 0 operations on one relation; a
\* RunHelper is built whose mode is ShouldHandleTransactionally(**op), the
\* first operation.  The operations get fresh ids.
RunAsync ==
  /\ CallerIdle
  /\ \E t \in Tables, n \in 1..MaxRun, force \in BOOLEAN,
        spec \in [1..MaxRun -> Rows \X BOOLEAN] :
       /\ nextId + n - 1 <= MaxOps
       /\ opInfo' = [i \in OpId |->
                       IF i \in nextId..(nextId + n - 1)
                         THEN [tbl   |-> t,
                               row   |-> spec[i - nextId + 1][1],
                               write |-> spec[i - nextId + 1][2]]
                         ELSE opInfo[i]]
       /\ nextId' = nextId + n
       /\ rh' = [busy |-> TRUE, txn |-> ShouldHandleTransactionally(t),
                 force |-> force,
                 todo |-> [k \in 1..n |-> nextId + k - 1], sent |-> {}]
  /\ last' = [call |-> "RunAsync", ok |-> TRUE]
  /\ UNCHANGED <<buffering, buf, keys, batches, handles, pendingErrs,
                 dropped>>

\* RunHelper::Apply on the next operation of the call.  A write is buffered
\* when buffering is on and the call is not forced non-bufferable; it goes
\* to the buffer of the helper's mode (RunHelper::buffered_ops_).  If its
\* row is already buffered, that buffer is flushed first; if that flush
\* fails, RETURN_NOT_OK ends RunAsync with the error.  Any other operation
\* is applied to the helper's adapter session, to be sent by Flush.  Only
\* the declaration is in the repository; the body follows spec section 4.3.
RunHelperApply ==
  LET o == Head(rh.todo)
      m == rh.txn
  IN
  /\ rh.busy
  /\ rh.todo # << >>
  /\ IF buffering /\ ~rh.force /\ opInfo[o].write
       THEN IF ~HasConflict(o)
              THEN /\ buf' = [buf EXCEPT ![m] = @ \cup {o}]
                   /\ keys' = keys \cup {RowOf(o)}
                   /\ rh' = [rh EXCEPT !.todo = Tail(@)]
                   /\ UNCHANGED <<batches, pendingErrs, dropped, last>>
              ELSE \E res \in BOOLEAN :
                     /\ SyncFlush({m}, res)
                     /\ IF res
                          THEN /\ buf' = [FlushedBuf({m}) EXCEPT ![m] = {o}]
                               /\ keys' = FlushedKeys({m}) \cup {RowOf(o)}
                               /\ rh' = [rh EXCEPT !.todo = Tail(@)]
                               /\ UNCHANGED <<dropped, last>>
                          ELSE /\ buf' = FlushedBuf({m})
                               /\ keys' = FlushedKeys({m})
                               /\ rh' = IdleHelper
                               /\ dropped' = dropped \cup rh.sent
                                                     \cup SeqElems(rh.todo)
                               /\ last' = [call |-> "RunAsync", ok |-> FALSE]
       ELSE /\ rh' = [rh EXCEPT !.todo = Tail(@), !.sent = @ \cup {o}]
            /\ UNCHANGED <<buf, keys, batches, pendingErrs, dropped, last>>
  /\ UNCHANGED <<buffering, opInfo, nextId, handles>>

\* RunHelper::Flush: send what was applied to the adapter session in one
\* asynchronous call and return its PgSessionAsyncRunResult; with nothing
\* to send the result is empty.
RunHelperFlush ==
  /\ rh.busy
  /\ rh.todo = << >>
  /\ IF rh.sent # {}
       THEN /\ batches' = Append(batches, [ops |-> rh.sent, txn |-> rh.txn,
                                           state |-> "inflight", ok |-> TRUE])
            /\ handles' = handles \cup {NewHandle}
       ELSE UNCHANGED <<batches, handles>>
  /\ rh' = IdleHelper
  /\ last' = [call |-> "RunAsync", ok |-> TRUE]
  /\ UNCHANGED <<buffering, buf, keys, opInfo, nextId, pendingErrs, dropped>>

\* What GetStatus returns: the future's status, and an error if the
\* adapter client holds one.
GetStatusResult(h) == batches[h].ok /\ pendingErrs = {}

\* PgSessionAsyncRunResult::GetStatus: wait for the future, then combine
\* its status with the errors pending in the adapter client, which it
\* drains.
GetStatus ==
  /\ CallerIdle
  /\ \E h \in handles :
       /\ batches[h].state = "done"
       /\ handles' = handles \ {h}
       /\ last' = [call |-> "GetStatus", ok |-> GetStatusResult(h)]
  /\ pendingErrs' = {}
  /\ UNCHANGED <<buffering, buf, keys, opInfo, nextId, rh, batches, dropped>>

-----------------------------------------------------------------------------
(* Storage adapter                                                         *)

\* The adapter completes an asynchronous call; a failed call leaves its
\* error in the client object.
AdapterComplete ==
  \E i \in 1..Len(batches) :
    /\ batches[i].state = "inflight"
    /\ \E ok \in BOOLEAN :
         /\ batches' = [batches EXCEPT ![i].state = "done", ![i].ok = ok]
         /\ pendingErrs' = IF ok THEN pendingErrs ELSE pendingErrs \cup {i}
    /\ UNCHANGED <<buffering, buf, keys, opInfo, nextId, rh, handles,
                   dropped, last>>

-----------------------------------------------------------------------------

Next ==
  \/ StartOperationsBuffering
  \/ StopOperationsBuffering
  \/ ResetOperationsBuffering
  \/ FlushBufferedOperations
  \/ DropBufferedOperations
  \/ RunAsync
  \/ RunHelperApply
  \/ RunHelperFlush
  \/ GetStatus
  \/ AdapterComplete

Spec == Init /\ [][Next]_vars

-----------------------------------------------------------------------------
(* Properties                                                              *)

TypeOK ==
  /\ buffering \in BOOLEAN
  /\ buf \in [Modes -> SUBSET OpId]
  /\ keys \in SUBSET (Tables \X Rows)
  /\ opInfo \in [OpId -> Op \cup {NoOp}]
  /\ nextId \in 1..(MaxOps + 1)
  /\ rh \in Helper
  /\ batches \in Seq(Batch)
  /\ handles \in SUBSET (1..Len(batches))
  /\ pendingErrs \in SUBSET (1..Len(batches))
  /\ dropped \in SUBSET OpId
  /\ last \in [call : Calls, ok : BOOLEAN]

\* Buffered writes to one row never share the buffers: a second write to a
\* buffered row makes RunHelper::Apply flush first, so the two never travel
\* in one adapter call where the second would not see the first.
NoRowBufferedTwice ==
  \A o1, o2 \in Buffered : o1 # o2 => RowOf(o1) # RowOf(o2)

\* buffered_keys_ is exactly the set of rows of the buffered writes: a flush
\* of one mode removes that mode's keys and no others, and a drop clears it.
KeysTrackBuffers == keys = RowsIn(Buffered)

\* Every operation handed to RunAsync is in exactly one place: in the
\* RunHelper, in one buffer, in one adapter call, or dropped.  Nothing is
\* sent twice and nothing vanishes.
OpsAccountedOnce ==
  LET places == << SeqElems(rh.todo), rh.sent, buf[TRUE], buf[FALSE],
                   dropped >>
      sent(i) == batches[i].ops
  IN /\ \A o \in 1..(nextId - 1) :
          \/ \E p \in 1..5 : o \in places[p]
          \/ \E i \in 1..Len(batches) : o \in sent(i)
     /\ \A p, q \in 1..5 : p # q => places[p] \cap places[q] = {}
     /\ \A i \in 1..Len(batches) :
          /\ \A p \in 1..5 : places[p] \cap sent(i) = {}
          /\ \A j \in 1..Len(batches) : i # j => sent(i) \cap sent(j) = {}

\* With buffering off nothing is buffered: buffering only ends through a
\* successful flush or a reset of empty buffers, so no buffered write is
\* stranded where no statement expects it.
UnbufferedHoldsNothing == ~buffering => Buffered = {}

\* Read-your-writes across buffered writes (spec section 1): no operation
\* on a row is sent to the adapter while a write to that row issued before
\* it is still sitting in a session buffer.
OrderOfRowPreserved ==
  [][\A i \in (Len(batches) + 1)..Len(batches') :
       \A o \in batches'[i].ops, w \in buf'[TRUE] \cup buf'[FALSE] :
         ~(w < o /\ RowOf(w)' = RowOf(o)')]_vars

\* StopOperationsBuffering that fails leaves the buffers intact and the
\* session buffering (spec section 8).
StopFailureKeepsBuffers ==
  [][(last'.call = "Stop" /\ ~last'.ok) => (buf' = buf /\ buffering')]_vars

=============================================================================
