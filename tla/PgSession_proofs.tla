--------------------------- MODULE PgSession_proofs ---------------------------
(***************************************************************************)
(* Proofs about the session engine of PgSession, for every value of the    *)
(* constants that satisfies SessionAssumption.                             *)
(***************************************************************************)
EXTENDS PgSession, SequenceTheorems, TLAPS

-----------------------------------------------------------------------------
(* Lemmas on the adapter call log                                         *)

\* Completing an adapter call keeps it a well-formed batch.
LEMMA CompleteBatchType ==
  ASSUME NEW r \in Batch, NEW b \in BOOLEAN
  PROVE  [r EXCEPT !.state = "done", !.ok = b] \in Batch
BY DEF Batch

\* Completing the i-th adapter call keeps the call log a sequence of
\* well-formed batches of the same length.
LEMMA CompleteCallType ==
  ASSUME NEW s \in Seq(Batch), NEW i \in 1..Len(s), NEW b \in BOOLEAN
  PROVE  /\ [s EXCEPT ![i].state = "done", ![i].ok = b] \in Seq(Batch)
         /\ Len([s EXCEPT ![i].state = "done", ![i].ok = b]) = Len(s)
<1> DEFINE r == [s[i] EXCEPT !.state = "done", !.ok = b]
<1>1. [s EXCEPT ![i].state = "done", ![i].ok = b] = [s EXCEPT ![i] = r]
  OBVIOUS
<1>2. s[i] \in Batch
  OBVIOUS
<1>3. r \in Batch
  BY <1>2, CompleteBatchType
<1>4. [s EXCEPT ![i] = r] \in Seq(Batch) /\ Len([s EXCEPT ![i] = r]) = Len(s)
  BY <1>3, ExceptSeq
<1>. QED  BY <1>1, <1>4

-----------------------------------------------------------------------------
(* Lemmas on the flush helpers                                             *)

\* The adapter calls of a flush are well-formed batches.
LEMMA FlushCallsType ==
  ASSUME NEW M \in SUBSET Modes, NEW ok \in [Modes -> BOOLEAN],
         buf \in [Modes -> SUBSET OpId]
  PROVE  FlushCalls(M, ok) \in Seq(Batch)
<1>1. ASSUME NEW m \in Modes PROVE FlushCall(M, ok, m) \in Seq(Batch)
  <2>1. CASE m \in M /\ buf[m] # {}
    <3>1. [ops |-> buf[m], txn |-> m, state |-> "done", ok |-> ok[m]] \in Batch
      BY DEF Batch, Modes
    <3>. QED  BY <2>1, <3>1 DEF FlushCall
  <2>2. CASE ~(m \in M /\ buf[m] # {})
    BY <2>2, EmptySeq DEF FlushCall
  <2>. QED  BY <2>1, <2>2
<1>2. FlushCall(M, ok, TRUE) \in Seq(Batch) /\ FlushCall(M, ok, FALSE) \in Seq(Batch)
  BY <1>1 DEF Modes
<1>. QED  BY <1>2, ConcatProperties DEF FlushCalls

\* A synchronous flush only appends well-formed calls and empties the
\* errors pending in the adapter client.
LEMMA SyncFlushType ==
  ASSUME TypeOK, NEW M \in SUBSET Modes, NEW res, SyncFlush(M, res)
  PROVE  /\ batches' \in Seq(Batch)
         /\ Len(batches') >= Len(batches)
         /\ pendingErrs' = {}
         /\ res \in BOOLEAN
<1>1. PICK ok \in [Modes -> BOOLEAN] :
        /\ batches' = batches \o FlushCalls(M, ok)
        /\ res = (/\ \A m \in M : buf[m] # {} => ok[m]
                  /\ pendingErrs = {})
        /\ pendingErrs' = {}
  BY DEF SyncFlush
<1>2. FlushCalls(M, ok) \in Seq(Batch)
  BY FlushCallsType DEF TypeOK
<1>3. batches \in Seq(Batch)
  BY DEF TypeOK
<1>4. batches' \in Seq(Batch) /\ Len(batches') >= Len(batches)
  BY <1>1, <1>2, <1>3, ConcatProperties
<1>. QED  BY <1>1, <1>4

-----------------------------------------------------------------------------
(* Type correctness                                                        *)

\* The helper of no RunAsync call is a well-formed RunHelper.
LEMMA IdleHelperType == IdleHelper \in Helper
BY EmptySeq DEF IdleHelper, Helper

\* Every operation still to be applied by the RunHelper has been handed out
\* by RunAsync: RunHelper::Apply never reads an operation id that stands
\* for nothing.  With TypeOK it forms the inductive invariant IInv.
TodoAssigned == \A k \in DOMAIN rh.todo : opInfo[rh.todo[k]] \in Op

IInv == TypeOK /\ TodoAssigned

LEMMA TypeInit == Init => TypeOK
<1> SUFFICES ASSUME Init PROVE TypeOK
  OBVIOUS
<1>1. batches \in Seq(Batch) /\ Len(batches) = 0
  BY EmptySeq DEF Init
<1>2. rh \in Helper
  BY IdleHelperType DEF Init
<1>3. opInfo \in [OpId -> Op \cup {NoOp}] /\ buf \in [Modes -> SUBSET OpId]
  BY DEF Init
<1>4. nextId \in 1..(MaxOps + 1)
  BY SessionAssumption DEF Init
<1>5. last \in [call : Calls, ok : BOOLEAN]
  BY DEF Init, Calls
<1>6. handles \in SUBSET (1..Len(batches)) /\ pendingErrs \in SUBSET (1..Len(batches))
  BY DEF Init
<1>7. keys \in SUBSET (Tables \X Rows)
  BY Zenon DEF Init
<1>8. dropped \in SUBSET OpId /\ buffering \in BOOLEAN
  BY DEF Init
<1>. QED  BY <1>1, <1>2, <1>3, <1>4, <1>5, <1>6, <1>7, <1>8 DEF TypeOK

LEMMA TypeNext == IInv /\ [Next]_vars => TypeOK'
<1> SUFFICES ASSUME TypeOK, TodoAssigned, [Next]_vars PROVE TypeOK'
  BY DEF IInv
<1>1. CASE StartOperationsBuffering
  BY <1>1 DEF StartOperationsBuffering, TypeOK, Calls
<1>2. CASE StopOperationsBuffering
  <2>1. PICK res \in BOOLEAN :
          /\ SyncFlush(Modes, res)
          /\ buffering' = ~res
          /\ last' = [call |-> "Stop", ok |-> res]
    BY <1>2 DEF StopOperationsBuffering
  <2>2. /\ batches' \in Seq(Batch)
        /\ Len(batches') >= Len(batches)
        /\ pendingErrs' = {}
    BY <2>1, SyncFlushType
  <2>3. buf' \in [Modes -> SUBSET OpId] /\ keys' \in SUBSET (Tables \X Rows)
    BY <1>2 DEF StopOperationsBuffering, FlushedBuf, FlushedKeys, TypeOK
  <2>. QED  BY <1>2, <2>1, <2>2, <2>3 DEF StopOperationsBuffering, TypeOK, Calls
<1>3. CASE ResetOperationsBuffering
  <2>1. UNCHANGED <<buf, keys, opInfo, nextId, rh, batches, handles,
                    pendingErrs, dropped>>
    BY <1>3, Zenon DEF ResetOperationsBuffering
  <2>2. buffering' \in BOOLEAN
    BY <1>3, Zenon DEF ResetOperationsBuffering, TypeOK
  <2>3. last' \in [call : Calls, ok : BOOLEAN]
    <3>1. PICK b \in BOOLEAN : last' = [call |-> "Reset", ok |-> b]
      BY <1>3, Zenon DEF ResetOperationsBuffering
    <3>. QED  BY <3>1 DEF Calls
  <2>. QED  BY <2>1, <2>2, <2>3 DEF TypeOK
<1>4. CASE FlushBufferedOperations
  <2>1. PICK res \in BOOLEAN :
          /\ SyncFlush(Modes, res)
          /\ last' = [call |-> "Flush", ok |-> res]
    BY <1>4 DEF FlushBufferedOperations
  <2>2. /\ batches' \in Seq(Batch)
        /\ Len(batches') >= Len(batches)
        /\ pendingErrs' = {}
    BY <2>1, SyncFlushType
  <2>3. buf' \in [Modes -> SUBSET OpId] /\ keys' \in SUBSET (Tables \X Rows)
    BY <1>4 DEF FlushBufferedOperations, FlushedBuf, FlushedKeys, TypeOK
  <2>. QED  BY <1>4, <2>1, <2>2, <2>3 DEF FlushBufferedOperations, TypeOK, Calls
<1>5. CASE DropBufferedOperations
  BY <1>5 DEF DropBufferedOperations, TypeOK, Calls, Buffered, Modes
<1>6. CASE RunAsync
  <2>1. PICK t \in Tables, n \in 1..MaxRun, force \in BOOLEAN,
             spec \in [1..MaxRun -> Rows \X BOOLEAN] :
          /\ nextId + n - 1 <= MaxOps
          /\ opInfo' = [i \in OpId |->
                          IF i \in nextId..(nextId + n - 1)
                            THEN [tbl   |-> t,
                                  row   |-> spec[i - nextId + 1][1],
                                  write |-> spec[i - nextId + 1][2]]
                            ELSE opInfo[i]]
          /\ nextId' = nextId + n
          /\ rh' = [busy |-> TRUE, txn |-> ShouldHandleTransactionally(t),
                    force |-> force,
                    todo |-> [k \in 1..n |-> nextId + k - 1], sent |-> {}]
    BY <1>6 DEF RunAsync
  <2>2. opInfo' \in [OpId -> Op \cup {NoOp}]
    <3>1. ASSUME NEW i \in nextId..(nextId + n - 1)
          PROVE  i - nextId + 1 \in 1..MaxRun
      BY <2>1, <3>1, SessionAssumption DEF TypeOK
    <3>. QED  BY <2>1, <3>1 DEF TypeOK, Op
  <2>3. rh' \in Helper
    <3>1. [k \in 1..n |-> nextId + k - 1] \in Seq(OpId)
      BY <2>1, SessionAssumption DEF TypeOK, OpId
    <3>. QED  BY <2>1, <3>1 DEF Helper, ShouldHandleTransactionally,
                                IsTransactional
  <2>4. nextId' \in 1..(MaxOps + 1)
    BY <2>1, SessionAssumption DEF TypeOK
  <2>. QED  BY <1>6, <2>2, <2>3, <2>4 DEF RunAsync, TypeOK, Calls
<1>7. CASE RunHelperApply
  <2> DEFINE o == Head(rh.todo)
             m == rh.txn
             rhApplied == [rh EXCEPT !.todo = Tail(@)]
             rhSent == [rh EXCEPT !.todo = Tail(@), !.sent = @ \cup {o}]
  <2>1. /\ rh.todo \in Seq(OpId) /\ rh.todo # << >>
        /\ o \in OpId /\ m \in Modes
        /\ Tail(rh.todo) \in Seq(OpId)
    BY <1>7 DEF RunHelperApply, TypeOK, Helper, Modes
  <2>2. opInfo[o] \in Op
    BY <2>1 DEF TodoAssigned
  <2>3. RowOf(o) \in Tables \X Rows
    BY <2>2 DEF RowOf, Op
  <2>4. UNCHANGED <<buffering, opInfo, nextId, handles>>
    BY <1>7, Zenon DEF RunHelperApply
  <2>5. rhApplied \in Helper /\ rhSent \in Helper
    BY <2>1 DEF TypeOK, Helper
  <2>6. CASE buffering /\ ~rh.force /\ opInfo[o].write /\ ~HasConflict(o)
    <3>1. /\ buf' = [buf EXCEPT ![m] = @ \cup {o}]
          /\ keys' = keys \cup {RowOf(o)}
          /\ rh' = rhApplied
          /\ UNCHANGED <<batches, pendingErrs, dropped, last>>
      BY <1>7, <2>6, Zenon DEF RunHelperApply
    <3>2. buf' \in [Modes -> SUBSET OpId]
      BY <2>1, <3>1 DEF TypeOK
    <3>. QED  BY <2>3, <2>4, <2>5, <3>1, <3>2 DEF TypeOK
  <2>7. CASE buffering /\ ~rh.force /\ opInfo[o].write /\ HasConflict(o)
    <3>1. PICK res \in BOOLEAN :
            /\ SyncFlush({m}, res)
            /\ IF res
                 THEN /\ buf' = [FlushedBuf({m}) EXCEPT ![m] = {o}]
                      /\ keys' = FlushedKeys({m}) \cup {RowOf(o)}
                      /\ rh' = rhApplied
                      /\ UNCHANGED <<dropped, last>>
                 ELSE /\ buf' = FlushedBuf({m})
                      /\ keys' = FlushedKeys({m})
                      /\ rh' = IdleHelper
                      /\ dropped' = dropped \cup rh.sent
                                            \cup SeqElems(rh.todo)
                      /\ last' = [call |-> "RunAsync", ok |-> FALSE]
      BY <1>7, <2>7, Zenon DEF RunHelperApply
    <3>2. /\ batches' \in Seq(Batch)
          /\ Len(batches') >= Len(batches)
          /\ pendingErrs' = {}
      BY <2>1, <3>1, SyncFlushType DEF Modes
    <3>3. /\ FlushedBuf({m}) \in [Modes -> SUBSET OpId]
          /\ FlushedKeys({m}) \in SUBSET (Tables \X Rows)
      BY <2>1 DEF FlushedBuf, FlushedKeys, TypeOK
    <3>4. handles' \in SUBSET (1..Len(batches'))
      BY <2>4, <3>2 DEF TypeOK
    <3>5. CASE res
      <4>1. /\ buf' = [FlushedBuf({m}) EXCEPT ![m] = {o}]
            /\ keys' = FlushedKeys({m}) \cup {RowOf(o)}
            /\ rh' = rhApplied
            /\ UNCHANGED <<dropped, last>>
        BY <3>1, <3>5, Zenon
      <4>2. buf' \in [Modes -> SUBSET OpId]
        BY <2>1, <3>3, <4>1
      <4>. QED  BY <2>3, <2>4, <2>5, <3>2, <3>3, <3>4, <4>1, <4>2 DEF TypeOK
    <3>6. CASE ~res
      <4>1. /\ buf' = FlushedBuf({m})
            /\ keys' = FlushedKeys({m})
            /\ rh' = IdleHelper
            /\ dropped' = dropped \cup rh.sent \cup SeqElems(rh.todo)
            /\ last' = [call |-> "RunAsync", ok |-> FALSE]
        BY <3>1, <3>6, Zenon
      <4>2. SeqElems(rh.todo) \subseteq OpId /\ rh.sent \subseteq OpId
        BY <2>1 DEF SeqElems, TypeOK, Helper
      <4>3. last' \in [call : Calls, ok : BOOLEAN]
        BY <4>1 DEF Calls
      <4>. QED  BY <2>4, <3>2, <3>3, <3>4, <4>1, <4>2, <4>3, IdleHelperType
                DEF TypeOK
    <3>. QED  BY <3>5, <3>6
  <2>8. CASE ~(buffering /\ ~rh.force /\ opInfo[o].write)
    <3>1. /\ rh' = rhSent
          /\ UNCHANGED <<buf, keys, batches, pendingErrs, dropped, last>>
      BY <1>7, <2>8, Zenon DEF RunHelperApply
    <3>. QED  BY <2>4, <2>5, <3>1 DEF TypeOK
  <2>. QED  BY <2>6, <2>7, <2>8
<1>8. CASE RunHelperFlush
  <2>1. /\ rh' = IdleHelper
        /\ last' = [call |-> "RunAsync", ok |-> TRUE]
        /\ UNCHANGED <<buffering, buf, keys, opInfo, nextId, pendingErrs,
                       dropped>>
    BY <1>8, Zenon DEF RunHelperFlush
  <2>2. last' \in [call : Calls, ok : BOOLEAN]
    BY <2>1 DEF Calls
  <2>3. CASE rh.sent # {}
    <3>1. [ops |-> rh.sent, txn |-> rh.txn, state |-> "inflight", ok |-> TRUE]
            \in Batch
      BY DEF TypeOK, Helper, Batch
    <3>2. /\ batches' = Append(batches, [ops |-> rh.sent, txn |-> rh.txn,
                                         state |-> "inflight", ok |-> TRUE])
          /\ handles' = handles \cup {NewHandle}
      BY <1>8, <2>3, Zenon DEF RunHelperFlush
    <3>3. batches' \in Seq(Batch) /\ Len(batches') = Len(batches) + 1
      BY <3>1, <3>2, AppendProperties DEF TypeOK
    <3>4. handles' \in SUBSET (1..Len(batches'))
      <4>1. Len(batches) \in Nat
        BY LenProperties DEF TypeOK
      <4>2. handles' = handles \cup {Len(batches) + 1}
        BY <3>2 DEF NewHandle
      <4>3. handles \subseteq 1..(Len(batches) + 1)
        BY <4>1 DEF TypeOK
      <4>4. Len(batches) + 1 \in 1..(Len(batches) + 1)
        BY <4>1
      <4>. QED  BY <3>3, <4>2, <4>3, <4>4, Zenon
    <3>5. pendingErrs' \in SUBSET (1..Len(batches'))
      BY <2>1, <3>3 DEF TypeOK
    <3>. QED  BY <2>1, <2>2, <3>3, <3>4, <3>5, IdleHelperType DEF TypeOK
  <2>4. CASE rh.sent = {}
    <3>1. UNCHANGED <<batches, handles>>
      BY <1>8, <2>4, Zenon DEF RunHelperFlush
    <3>. QED  BY <2>1, <2>2, <3>1, IdleHelperType DEF TypeOK
  <2>. QED  BY <2>3, <2>4
<1>9. CASE GetStatus
  <2>1. PICK h \in handles :
          /\ batches[h].state = "done"
          /\ handles' = handles \ {h}
          /\ last' = [call |-> "GetStatus",
                      ok |-> batches[h].ok /\ pendingErrs = {}]
    BY <1>9, Zenon DEF GetStatus, GetStatusResult
  <2>2. /\ pendingErrs' = {}
        /\ UNCHANGED <<buffering, buf, keys, opInfo, nextId, rh, batches,
                       dropped>>
    BY <1>9, Zenon DEF GetStatus
  <2>3. PICK b \in BOOLEAN : last' = [call |-> "GetStatus", ok |-> b]
    BY <2>1, Zenon
  <2>4. last' \in [call : Calls, ok : BOOLEAN]
    BY <2>3 DEF Calls
  <2>. QED  BY <2>1, <2>2, <2>4 DEF TypeOK
<1>10. CASE AdapterComplete
  <2>1. PICK i \in 1..Len(batches), ok \in BOOLEAN :
          /\ batches' = [batches EXCEPT ![i].state = "done", ![i].ok = ok]
          /\ pendingErrs' = IF ok THEN pendingErrs ELSE pendingErrs \cup {i}
    BY <1>10, Zenon DEF AdapterComplete
  <2>2. UNCHANGED <<buffering, buf, keys, opInfo, nextId, rh, handles,
                    dropped, last>>
    BY <1>10, Zenon DEF AdapterComplete
  <2>3. batches' \in Seq(Batch) /\ Len(batches') = Len(batches)
    BY <2>1, CompleteCallType DEF TypeOK
  <2>6. pendingErrs' \in SUBSET (1..Len(batches))
    <3>1. CASE ok
      BY <2>1, <3>1, Zenon DEF TypeOK
    <3>2. CASE ~ok
      BY <2>1, <3>2, Zenon DEF TypeOK
    <3>. QED  BY <3>1, <3>2
  <2>. QED  BY <2>2, <2>3, <2>6 DEF TypeOK
<1>11. CASE UNCHANGED vars
  BY <1>11 DEF vars, TypeOK
<1>. QED
  BY <1>1, <1>2, <1>3, <1>4, <1>5, <1>6, <1>7, <1>8, <1>9, <1>10, <1>11
  DEF Next

\* TodoAssigned holds initially: the helper of a fresh session is idle.
LEMMA TodoInit == Init => TodoAssigned
BY EmptySeq DEF Init, TodoAssigned, IdleHelper

\* Every step keeps the operations still to be applied handed out.
LEMMA TodoNext == IInv /\ [Next]_vars => TodoAssigned'
<1> SUFFICES ASSUME TypeOK, TodoAssigned, [Next]_vars PROVE TodoAssigned'
  BY DEF IInv
<1>1. rh' = rh /\ opInfo' = opInfo => TodoAssigned'
  BY Zenon DEF TodoAssigned
<1>2. rh'.todo = << >> => TodoAssigned'
  <2>1. DOMAIN << >> = {}
    BY EmptySeq
  <2>. QED  BY <2>1, Zenon DEF TodoAssigned
<1>3. rh.todo # << >> /\ rh'.todo = Tail(rh.todo) /\ opInfo' = opInfo
        => TodoAssigned'
  <2> HAVE rh.todo # << >> /\ rh'.todo = Tail(rh.todo) /\ opInfo' = opInfo
  <2>1. rh.todo \in Seq(OpId)
    BY DEF TypeOK, Helper
  <2>2. /\ Tail(rh.todo) \in Seq(OpId)
        /\ \A i \in 1..Len(Tail(rh.todo)) : Tail(rh.todo)[i] = rh.todo[i + 1]
        /\ Len(Tail(rh.todo)) = Len(rh.todo) - 1
    BY <2>1, HeadTailProperties
  <2>. QED  BY <2>1, <2>2, LenProperties DEF TodoAssigned
<1>4. CASE RunAsync
  <2>1. PICK t \in Tables, n \in 1..MaxRun, force \in BOOLEAN,
             spec \in [1..MaxRun -> Rows \X BOOLEAN] :
          /\ nextId + n - 1 <= MaxOps
          /\ opInfo' = [i \in OpId |->
                          IF i \in nextId..(nextId + n - 1)
                            THEN [tbl   |-> t,
                                  row   |-> spec[i - nextId + 1][1],
                                  write |-> spec[i - nextId + 1][2]]
                            ELSE opInfo[i]]
          /\ rh' = [busy |-> TRUE, txn |-> ShouldHandleTransactionally(t),
                    force |-> force,
                    todo |-> [k \in 1..n |-> nextId + k - 1], sent |-> {}]
    BY <1>4, Zenon DEF RunAsync
  <2>2. ASSUME NEW k \in 1..n PROVE opInfo'[nextId + k - 1] \in Op
    <3>0. /\ nextId + k - 1 \in OpId
          /\ nextId + k - 1 \in nextId..(nextId + n - 1)
          /\ (nextId + k - 1) - nextId + 1 = k
      BY <2>1, SessionAssumption DEF TypeOK, OpId
    <3>1. opInfo'[nextId + k - 1]
            = [tbl |-> t, row |-> spec[k][1], write |-> spec[k][2]]
      BY <2>1, <3>0
    <3>2. spec[k] \in Rows \X BOOLEAN
      <4>1. k \in 1..MaxRun
        BY SessionAssumption
      <4>. QED  BY <4>1
    <3>. QED  BY <3>1, <3>2 DEF Op
  <2>3. rh'.todo = [k \in 1..n |-> nextId + k - 1]
    BY <2>1
  <2>. QED  BY <2>2, <2>3 DEF TodoAssigned
<1>5. CASE RunHelperApply
  <2>1. /\ rh.todo # << >> /\ opInfo' = opInfo
        /\ \/ rh' = [rh EXCEPT !.todo = Tail(@)]
           \/ rh' = [rh EXCEPT !.todo = Tail(@), !.sent = @ \cup {Head(rh.todo)}]
           \/ rh' = IdleHelper
    BY <1>5, Zenon DEF RunHelperApply
  <2>2. /\ IdleHelper.todo = << >>
        /\ [rh EXCEPT !.todo = Tail(@)].todo = Tail(rh.todo)
        /\ [rh EXCEPT !.todo = Tail(@),
                      !.sent = @ \cup {Head(rh.todo)}].todo = Tail(rh.todo)
    BY DEF IdleHelper, TypeOK, Helper
  <2>3. rh'.todo = Tail(rh.todo) \/ rh'.todo = << >>
    BY <2>1, <2>2, Zenon
  <2>. QED  BY <1>2, <1>3, <2>1, <2>3
<1>6. CASE RunHelperFlush
  <2>1. rh' = IdleHelper
    BY <1>6, Zenon DEF RunHelperFlush
  <2>. QED  BY <1>2, <2>1 DEF IdleHelper
<1>7. CASE \/ StartOperationsBuffering \/ StopOperationsBuffering
           \/ ResetOperationsBuffering \/ FlushBufferedOperations
           \/ DropBufferedOperations \/ GetStatus \/ AdapterComplete
           \/ UNCHANGED vars
  <2>1. rh' = rh /\ opInfo' = opInfo
    BY <1>7, Zenon DEF StartOperationsBuffering, StopOperationsBuffering,
                       ResetOperationsBuffering, FlushBufferedOperations,
                       DropBufferedOperations, GetStatus, AdapterComplete,
                       vars
  <2>. QED  BY <1>1, <2>1
<1>. QED  BY <1>4, <1>5, <1>6, <1>7 DEF Next

\* The strengthened invariant holds in every reachable state.
LEMMA IInvInvariant == Spec => []IInv
<1>1. Init => IInv
  BY TypeInit, TodoInit DEF IInv
<1>2. IInv /\ [Next]_vars => IInv'
  BY TypeNext, TodoNext DEF IInv
<1>. QED  BY <1>1, <1>2, PTL DEF Spec

\* Every reachable state of the session engine is well-typed.
THEOREM TypeCorrect == Spec => []TypeOK
<1>1. IInv => TypeOK
  BY DEF IInv
<1>. QED  BY IInvInvariant, <1>1, PTL


=============================================================================
