------------------------ MODULE PgSessionBuffers_proofs ------------------------
(***************************************************************************)
(* Proofs about the two session buffers of PgSession and buffered_keys_:   *)
(* KeysTrackBuffers, NoRowBufferedTwice and UnbufferedHoldsNothing, for   *)
(* every value of the constants satisfying SessionAssumption.              *)
(*                                                                         *)
(* None of them is inductive alone.  A flush of one mode removes the keys *)
(* of that buffer from buffered_keys_; the keys of the other buffer stay   *)
(* only if no row is buffered in both, which holds because a buffer holds *)
(* operations of its own mode only (BufModes) and two writes to one row    *)
(* target one table, hence one mode.  RunHelper::Apply puts an operation   *)
(* into the buffer of the helper's mode, so the helper's operations have   *)
(* that mode (HelperModes).  RunAsync rewrites opInfo only for ids not yet *)
(* issued, so the ids in the buffers, the helper and the adapter calls     *)
(* must all be issued already (Issued).                                    *)
(***************************************************************************)
EXTENDS PgSession_proofs

\* The operation ids RunAsync has handed out.
Issued == 1..(nextId - 1)

\* The transactional mode of an operation's table.
ModeOf(o) == IsTransactional(opInfo[o].tbl)

\* Each buffer holds issued operations of its own mode only.
BufModes == \A m \in Modes : \A o \in buf[m] : o \in Issued /\ ModeOf(o) = m

\* The RunHelper's operations, still to apply or applied to its session,
\* are issued and have the helper's mode.
HelperModes ==
  \A o \in SeqElems(rh.todo) \cup rh.sent : o \in Issued /\ ModeOf(o) = rh.txn

\* An adapter call whose operations are among the ids I and all have the
\* call's transactional flag, by the operation descriptions info.
GoodBatch(I, info) ==
  {r \in Batch : r.ops \subseteq I /\ \A o \in r.ops : IsTransactional(info[o].tbl) = r.txn}

\* Every adapter call made carries issued operations of its own mode.
BatchesGood == batches \in Seq(GoodBatch(Issued, opInfo))

\* The conjuncts each step re-establishes besides IInv.
BufInv ==
  /\ BufModes /\ HelperModes /\ BatchesGood
  /\ KeysTrackBuffers /\ NoRowBufferedTwice /\ UnbufferedHoldsNothing

BInv == IInv /\ BufInv

-----------------------------------------------------------------------------
(* Lemmas on the buffers                                                   *)

\* The row of an operation depends on opInfo only.
LEMMA RowOfFrame ==
  ASSUME opInfo' = opInfo, NEW o
  PROVE  RowOf(o)' = RowOf(o) /\ ModeOf(o)' = ModeOf(o)
  BY DEF RowOf, ModeOf

\* The two buffers share no operation: a buffer holds its own mode only.
LEMMA BuffersDisjoint ==
  ASSUME BufModes, NEW o \in buf[TRUE]
  PROVE  o \notin buf[FALSE]
  BY DEF BufModes, Modes

\* Handing the buffers of the modes M to the adapter, with their keys
\* removed from buffered_keys_, leaves the keys equal to the rows still
\* buffered: the rows of the other buffer are disjoint from the flushed
\* ones, since no row is buffered twice.
LEMMA FlushedRows ==
  ASSUME BufModes, KeysTrackBuffers, NoRowBufferedTwice, NEW M \in SUBSET Modes
  PROVE  /\ \A m \in Modes : FlushedBuf(M)[m] = IF m \in M THEN {} ELSE buf[m]
         /\ RowsIn(FlushedBuf(M)[TRUE] \cup FlushedBuf(M)[FALSE]) = FlushedKeys(M)
<1> DEFINE F == UNION {buf[m] : m \in M}
           B2 == FlushedBuf(M)[TRUE] \cup FlushedBuf(M)[FALSE]
<1>1. \A m \in Modes : FlushedBuf(M)[m] = IF m \in M THEN {} ELSE buf[m]
  BY DEF FlushedBuf
<1>2. B2 = Buffered \ F
  <2>1. ASSUME NEW o \in B2 PROVE o \in Buffered \ F
    <3>1. PICK m \in Modes : m \notin M /\ o \in buf[m]
      BY <1>1 DEF Modes
    <3>2. ASSUME NEW m2 \in M, o \in buf[m2] PROVE FALSE
      BY <3>1, <3>2 DEF BufModes, Modes
    <3>. QED  BY <3>1, <3>2 DEF Buffered, Modes
  <2>2. ASSUME NEW o \in Buffered \ F PROVE o \in B2
    BY <1>1 DEF Buffered, Modes
  <2>. QED  BY <2>1, <2>2
<1>3. ASSUME NEW o \in Buffered \ F, NEW o2 \in F PROVE RowOf(o) # RowOf(o2)
  <2>1. o2 \in Buffered /\ o # o2
    BY DEF Buffered, Modes
  <2>. QED  BY <2>1 DEF NoRowBufferedTwice
<1>4. RowsIn(B2) = RowsIn(Buffered) \ RowsIn(F)
  BY <1>2, <1>3 DEF RowsIn
<1>. QED  BY <1>1, <1>4 DEF KeysTrackBuffers, FlushedKeys

\* The state after such a flush satisfies the buffer invariants.
LEMMA FlushKeeps ==
  ASSUME BufModes, KeysTrackBuffers, NoRowBufferedTwice,
         NEW M \in SUBSET Modes,
         buf' = FlushedBuf(M), keys' = FlushedKeys(M),
         opInfo' = opInfo, nextId' = nextId
  PROVE  /\ BufModes' /\ KeysTrackBuffers' /\ NoRowBufferedTwice'
         /\ \A m \in Modes : m \in M => buf'[m] = {}
<1>0. \A o : RowOf(o)' = RowOf(o) /\ ModeOf(o)' = ModeOf(o)
  BY RowOfFrame
<1>1. /\ \A m \in Modes : buf'[m] = IF m \in M THEN {} ELSE buf[m]
      /\ RowsIn(Buffered') = keys'
  BY FlushedRows DEF Buffered
<1>2. BufModes'
  BY <1>0, <1>1 DEF BufModes, Issued
<1>3. Buffered' \subseteq Buffered
  BY <1>1 DEF Buffered, Modes
<1>4. KeysTrackBuffers'
  <2>1. RowsIn(Buffered)' = RowsIn(Buffered')
    BY <1>0 DEF RowsIn
  <2>. QED  BY <1>1, <2>1 DEF KeysTrackBuffers
<1>5. NoRowBufferedTwice'
  BY <1>0, <1>3 DEF NoRowBufferedTwice
<1>. QED  BY <1>1, <1>2, <1>4, <1>5

-----------------------------------------------------------------------------
(* Lemmas on the adapter calls                                             *)

\* The calls of a flush each carry one buffer under that buffer's mode.
LEMMA FlushCallsGood ==
  ASSUME TypeOK, BufModes, NEW M \in SUBSET Modes, NEW ok \in [Modes -> BOOLEAN]
  PROVE  FlushCalls(M, ok) \in Seq(GoodBatch(Issued, opInfo))
<1> DEFINE G == GoodBatch(Issued, opInfo)
<1>1. ASSUME NEW m \in Modes PROVE FlushCall(M, ok, m) \in Seq(G)
  <2>1. CASE m \in M /\ buf[m] # {}
    <3>1. [ops |-> buf[m], txn |-> m, state |-> "done", ok |-> ok[m]] \in Batch
      BY DEF Batch, Modes, TypeOK
    <3>2. [ops |-> buf[m], txn |-> m, state |-> "done", ok |-> ok[m]] \in G
      BY <3>1 DEF GoodBatch, BufModes, ModeOf
    <3>. QED  BY <2>1, <3>2 DEF FlushCall
  <2>2. CASE ~(m \in M /\ buf[m] # {})
    BY <2>2, EmptySeq DEF FlushCall
  <2>. QED  BY <2>1, <2>2
<1>2. FlushCall(M, ok, TRUE) \in Seq(G) /\ FlushCall(M, ok, FALSE) \in Seq(G)
  BY <1>1 DEF Modes
<1>. QED  BY <1>2, ConcatProperties DEF FlushCalls

\* A synchronous flush appends good calls only.
LEMMA SyncFlushGood ==
  ASSUME TypeOK, BufModes, BatchesGood, NEW M \in SUBSET Modes, NEW res,
         SyncFlush(M, res), opInfo' = opInfo, nextId' = nextId
  PROVE  BatchesGood'
<1> DEFINE G == GoodBatch(Issued, opInfo)
<1>1. PICK ok \in [Modes -> BOOLEAN] : batches' = batches \o FlushCalls(M, ok)
  BY DEF SyncFlush
<1>2. FlushCalls(M, ok) \in Seq(G)
  BY FlushCallsGood
<1>3. batches' \in Seq(G)
  BY <1>1, <1>2, ConcatProperties DEF BatchesGood
<1>4. GoodBatch(Issued, opInfo)' = G
  BY DEF Issued
<1>. QED  BY <1>3, <1>4 DEF BatchesGood

-----------------------------------------------------------------------------
(* Initiation and the steps that leave the buffers alone                   *)

LEMMA InitBInv == Init => BInv
<1> SUFFICES ASSUME Init PROVE BInv
  OBVIOUS
<1>1. IInv
  BY TypeInit, TodoInit DEF IInv
<1>2. SeqElems(rh.todo) \cup rh.sent = {}
  BY EmptySeq DEF Init, IdleHelper, SeqElems
<1>3. BatchesGood
  BY EmptySeq DEF Init, BatchesGood
<1>4. Buffered = {} /\ keys = {}
  BY DEF Init, Buffered, Modes
<1>. QED
  BY <1>1, <1>2, <1>3, <1>4
  DEF BInv, BufInv, BufModes, HelperModes, KeysTrackBuffers, NoRowBufferedTwice,
      UnbufferedHoldsNothing, RowsIn, Init, Modes

\* A step that changes neither the buffers, the keys, the operations nor
\* the helper keeps every conjunct that does not mention buffering or the
\* adapter calls.
LEMMA FrameStep ==
  ASSUME BufInv, UNCHANGED <<buf, keys, opInfo, nextId, rh>>,
         BatchesGood', ~buffering' => Buffered = {}
  PROVE  BufInv'
<1>1. \A o : RowOf(o)' = RowOf(o) /\ ModeOf(o)' = ModeOf(o)
  BY RowOfFrame
<1>2. BufModes' /\ HelperModes'
  BY <1>1 DEF BufInv, BufModes, HelperModes, Issued
<1>3. KeysTrackBuffers' /\ NoRowBufferedTwice'
  BY <1>1 DEF BufInv, KeysTrackBuffers, NoRowBufferedTwice, RowsIn, Buffered
<1>4. UnbufferedHoldsNothing'
  BY DEF UnbufferedHoldsNothing, Buffered
<1>. QED  BY <1>2, <1>3, <1>4 DEF BufInv

LEMMA StartStep ==
  ASSUME BufInv, StartOperationsBuffering
  PROVE  BufInv'
<1>1. UNCHANGED <<buf, keys, opInfo, nextId, rh, batches>> /\ buffering'
  BY Zenon DEF StartOperationsBuffering
<1>2. BatchesGood'
  BY <1>1 DEF BufInv, BatchesGood, Issued
<1>. QED  BY <1>1, <1>2, FrameStep

LEMMA ResetStep ==
  ASSUME BufInv, ResetOperationsBuffering
  PROVE  BufInv'
<1>1. UNCHANGED <<buf, keys, opInfo, nextId, rh, batches>>
  BY Zenon DEF ResetOperationsBuffering
<1>2. ~buffering' => Buffered = {} \/ ~buffering
  BY Zenon DEF ResetOperationsBuffering, ResetAllowed
<1>3. BatchesGood'
  BY <1>1 DEF BufInv, BatchesGood, Issued
<1>. QED  BY <1>1, <1>2, <1>3, FrameStep DEF BufInv, UnbufferedHoldsNothing

LEMMA GetStatusStep ==
  ASSUME BufInv, GetStatus
  PROVE  BufInv'
<1>1. UNCHANGED <<buf, keys, opInfo, nextId, rh, batches, buffering>>
  BY Zenon DEF GetStatus
<1>2. BatchesGood'
  BY <1>1 DEF BufInv, BatchesGood, Issued
<1>. QED  BY <1>1, <1>2, FrameStep DEF BufInv, UnbufferedHoldsNothing

\* Completing an adapter call changes only its state and status.
LEMMA CompleteStep ==
  ASSUME TypeOK, BufInv, AdapterComplete
  PROVE  BufInv'
<1> DEFINE G == GoodBatch(Issued, opInfo)
<1>1. PICK i \in 1..Len(batches), ok \in BOOLEAN :
        /\ batches' = [batches EXCEPT ![i].state = "done", ![i].ok = ok]
        /\ UNCHANGED <<buf, keys, opInfo, nextId, rh, buffering>>
  BY Zenon DEF AdapterComplete
<1> DEFINE r == [batches[i] EXCEPT !.state = "done", !.ok = ok]
<1>2. batches' = [batches EXCEPT ![i] = r]
  BY <1>1
<1>3. batches[i] \in G
  BY ElementOfSeq DEF BufInv, BatchesGood
<1>4. r \in G
  <2>1. batches[i] \in Batch
    BY <1>3 DEF GoodBatch
  <2>2. r \in Batch
    BY <1>1, <2>1, CompleteBatchType
  <2>3. r.ops = batches[i].ops /\ r.txn = batches[i].txn
    BY <2>1 DEF Batch
  <2>. QED  BY <1>3, <2>2, <2>3 DEF GoodBatch
<1>5. batches' \in Seq(G)
  BY <1>2, <1>4, ExceptSeq DEF BufInv, BatchesGood
<1>6. BatchesGood'
  BY <1>1, <1>5 DEF BatchesGood, Issued
<1>. QED  BY <1>1, <1>6, FrameStep DEF BufInv, UnbufferedHoldsNothing

-----------------------------------------------------------------------------
(* Synchronous flushes, the drop, and the two ends of a RunAsync call      *)

\* The helper's operations keep their ids and modes when opInfo does.
LEMMA HelperFrame ==
  ASSUME HelperModes, UNCHANGED <<rh, opInfo, nextId>>
  PROVE  HelperModes'
  BY RowOfFrame DEF HelperModes, Issued

\* A flush of both buffers leaves nothing buffered.
LEMMA FlushAllStep ==
  ASSUME TypeOK, BufInv, NEW res, SyncFlush(Modes, res),
         buf' = FlushedBuf(Modes), keys' = FlushedKeys(Modes),
         UNCHANGED <<opInfo, nextId, rh>>
  PROVE  BufInv'
<1>1. /\ BufModes' /\ KeysTrackBuffers' /\ NoRowBufferedTwice'
      /\ \A m \in Modes : buf'[m] = {}
  BY FlushKeeps DEF BufInv
<1>2. BatchesGood'
  BY SyncFlushGood DEF BufInv
<1>3. HelperModes'
  BY HelperFrame DEF BufInv
<1>4. UnbufferedHoldsNothing'
  BY <1>1 DEF UnbufferedHoldsNothing, Buffered, Modes
<1>. QED  BY <1>1, <1>2, <1>3, <1>4 DEF BufInv

LEMMA StopStep ==
  ASSUME TypeOK, BufInv, StopOperationsBuffering
  PROVE  BufInv'
<1>1. PICK res \in BOOLEAN : SyncFlush(Modes, res)
  BY Zenon DEF StopOperationsBuffering
<1>2. buf' = FlushedBuf(Modes) /\ keys' = FlushedKeys(Modes)
      /\ UNCHANGED <<opInfo, nextId, rh>>
  BY Zenon DEF StopOperationsBuffering
<1>. QED  BY <1>1, <1>2, FlushAllStep

LEMMA FlushStep ==
  ASSUME TypeOK, BufInv, FlushBufferedOperations
  PROVE  BufInv'
<1>1. PICK res \in BOOLEAN : SyncFlush(Modes, res)
  BY Zenon DEF FlushBufferedOperations
<1>2. buf' = FlushedBuf(Modes) /\ keys' = FlushedKeys(Modes)
      /\ UNCHANGED <<opInfo, nextId, rh>>
  BY Zenon DEF FlushBufferedOperations
<1>. QED  BY <1>1, <1>2, FlushAllStep

LEMMA DropStep ==
  ASSUME BufInv, DropBufferedOperations
  PROVE  BufInv'
<1>1. /\ buf' = [m \in Modes |-> {}] /\ keys' = {}
      /\ UNCHANGED <<opInfo, nextId, rh, batches>>
  BY Zenon DEF DropBufferedOperations
<1>2. Buffered' = {}
  BY <1>1 DEF Buffered, Modes
<1>3. BatchesGood' /\ HelperModes'
  BY <1>1, HelperFrame DEF BufInv, BatchesGood, Issued
<1>. QED
  BY <1>1, <1>2, <1>3
  DEF BufInv, BufModes, KeysTrackBuffers, NoRowBufferedTwice, UnbufferedHoldsNothing,
      RowsIn, Modes

\* RunHelper::Flush submits the helper's session as one call of its mode.
LEMMA HelperFlushStep ==
  ASSUME TypeOK, BufInv, RunHelperFlush
  PROVE  BufInv'
<1> DEFINE G == GoodBatch(Issued, opInfo)
           call == [ops |-> rh.sent, txn |-> rh.txn, state |-> "inflight", ok |-> TRUE]
<1>1. /\ rh' = IdleHelper
      /\ UNCHANGED <<buffering, buf, keys, opInfo, nextId>>
      /\ batches' = Append(batches, call) \/ batches' = batches
  BY Zenon DEF RunHelperFlush
<1>2. call \in G
  <2>1. call \in Batch
    BY DEF TypeOK, Helper, Batch
  <2>. QED  BY <2>1 DEF BufInv, HelperModes, GoodBatch, ModeOf
<1>3. batches' \in Seq(G)
  BY <1>1, <1>2, AppendProperties DEF BufInv, BatchesGood
<1>4. BatchesGood'
  BY <1>1, <1>3 DEF BatchesGood, Issued
<1>5. HelperModes'
  BY <1>1, EmptySeq DEF HelperModes, IdleHelper, SeqElems
<1>6. \A o : RowOf(o)' = RowOf(o) /\ ModeOf(o)' = ModeOf(o)
  BY <1>1, RowOfFrame
<1>7. BufModes' /\ KeysTrackBuffers' /\ NoRowBufferedTwice'
  BY <1>1, <1>6
  DEF BufInv, BufModes, KeysTrackBuffers, NoRowBufferedTwice, RowsIn, Buffered, Issued
<1>8. UnbufferedHoldsNothing'
  BY <1>1, Zenon DEF BufInv, UnbufferedHoldsNothing, Buffered
<1>. QED  BY <1>4, <1>5, <1>7, <1>8 DEF BufInv

\* RunAsync hands out fresh ids only: every operation already issued keeps
\* its description, and the new helper's operations all target its table.
LEMMA RunAsyncStep ==
  ASSUME TypeOK, BufInv, RunAsync
  PROVE  BufInv'
<1>1. PICK t \in Tables, n \in 1..MaxRun, force \in BOOLEAN,
           spec \in [1..MaxRun -> Rows \X BOOLEAN] :
        /\ nextId + n - 1 <= MaxOps
        /\ opInfo' = [i \in OpId |->
                        IF i \in nextId..(nextId + n - 1)
                          THEN [tbl   |-> t,
                                row   |-> spec[i - nextId + 1][1],
                                write |-> spec[i - nextId + 1][2]]
                          ELSE opInfo[i]]
        /\ nextId' = nextId + n
        /\ rh' = [busy |-> TRUE, txn |-> ShouldHandleTransactionally(t),
                  force |-> force,
                  todo |-> [k \in 1..n |-> nextId + k - 1], sent |-> {}]
  BY Zenon DEF RunAsync
<1>2. UNCHANGED <<buffering, buf, keys, batches>>
  BY Zenon DEF RunAsync
<1>3. Issued \subseteq Issued'
  BY <1>1, SessionAssumption DEF Issued, TypeOK
<1>4. ASSUME NEW o \in Issued
      PROVE  RowOf(o)' = RowOf(o) /\ ModeOf(o)' = ModeOf(o)
  <2>1. opInfo'[o] = opInfo[o]
    BY <1>1, SessionAssumption DEF Issued, TypeOK, OpId
  <2>. QED  BY <2>1 DEF RowOf, ModeOf
<1>5. BufModes'
  BY <1>2, <1>3, <1>4 DEF BufInv, BufModes
<1>6. Buffered \subseteq Issued
  BY DEF BufInv, BufModes, Buffered, Modes
<1>7. KeysTrackBuffers' /\ NoRowBufferedTwice'
  <2>1. RowsIn(Buffered)' = RowsIn(Buffered)
    BY <1>2, <1>4, <1>6 DEF RowsIn, Buffered
  <2>2. NoRowBufferedTwice'
    <3>1. Buffered' = Buffered
      BY <1>2 DEF Buffered
    <3>2. ASSUME NEW o1 \in Buffered, NEW o2 \in Buffered, o1 # o2
          PROVE  RowOf(o1)' # RowOf(o2)'
      <4>1. RowOf(o1) # RowOf(o2)
        BY <3>2 DEF BufInv, NoRowBufferedTwice
      <4>2. RowOf(o1)' = RowOf(o1) /\ RowOf(o2)' = RowOf(o2)
        BY <1>4, <1>6
      <4>. QED  BY <4>1, <4>2
    <3>. QED  BY <3>1, <3>2 DEF NoRowBufferedTwice
  <2>. QED  BY <1>2, <2>1, <2>2 DEF BufInv, KeysTrackBuffers
<1>8. UnbufferedHoldsNothing'
  BY <1>2, Zenon DEF BufInv, UnbufferedHoldsNothing, Buffered
<1>9. BatchesGood'
  <2> DEFINE G == GoodBatch(Issued, opInfo)
  <2>1. G \subseteq GoodBatch(Issued, opInfo)'
    BY <1>3, <1>4 DEF GoodBatch, ModeOf
  <2>2. batches \in Seq(GoodBatch(Issued, opInfo)')
    BY <2>1 DEF BufInv, BatchesGood
  <2>. QED  BY <1>2, <2>2 DEF BatchesGood
<1>10. HelperModes'
  <2>1. ASSUME NEW k \in 1..n
        PROVE  /\ nextId + k - 1 \in Issued'
               /\ opInfo'[nextId + k - 1].tbl = t
    <3>1. /\ nextId + k - 1 \in OpId
          /\ nextId + k - 1 \in nextId..(nextId + n - 1)
          /\ nextId + k - 1 \in 1..(nextId' - 1)
      BY <1>1, SessionAssumption DEF TypeOK, OpId
    <3>. QED  BY <1>1, <3>1 DEF Issued
  <2>2. SeqElems(rh'.todo) = {nextId + k - 1 : k \in 1..n} /\ rh'.sent = {}
    BY <1>1 DEF SeqElems
  <2>3. rh'.txn = IsTransactional(t)
    BY <1>1, Zenon DEF ShouldHandleTransactionally
  <2>4. ASSUME NEW o \in SeqElems(rh'.todo) \cup rh'.sent
        PROVE  o \in Issued' /\ ModeOf(o)' = rh'.txn
    <3>1. PICK k \in 1..n : o = nextId + k - 1
      BY <2>2
    <3>2. o \in Issued' /\ opInfo'[o].tbl = t
      BY <2>1, <3>1
    <3>3. ModeOf(o)' = IsTransactional(t)
      BY <3>2 DEF ModeOf
    <3>. QED  BY <3>2, <3>3, <2>3, Zenon
  <2>. QED  BY <2>4 DEF HelperModes
<1>. QED  BY <1>5, <1>7, <1>8, <1>9, <1>10 DEF BufInv

-----------------------------------------------------------------------------
(* RunHelper::Apply                                                        *)

\* Two operations on one row target one table, hence have one mode.
LEMMA SameRowSameMode ==
  ASSUME NEW a, NEW b, RowOf(a) = RowOf(b)
  PROVE  ModeOf(a) = ModeOf(b)
  BY DEF RowOf, ModeOf

\* The head of the helper's operations is one of them, and its tail holds
\* no others.
LEMMA TodoHeadTail ==
  ASSUME TypeOK, rh.todo # << >>
  PROVE  /\ Head(rh.todo) \in SeqElems(rh.todo)
         /\ SeqElems(Tail(rh.todo)) \subseteq SeqElems(rh.todo)
<1>1. rh.todo \in Seq(OpId)
  BY DEF TypeOK, Helper
<1>2. /\ Len(Tail(rh.todo)) = Len(rh.todo) - 1
      /\ \A i \in 1..Len(Tail(rh.todo)) : Tail(rh.todo)[i] = rh.todo[i + 1]
      /\ Tail(rh.todo) \in Seq(OpId)
  BY <1>1, HeadTailProperties
<1>3. Len(rh.todo) \in Nat \ {0}
  BY <1>1, EmptySeq
<1>. QED  BY <1>1, <1>2, <1>3 DEF SeqElems

\* An operation that is not buffered goes to the helper's session.
LEMMA ApplyDirect ==
  ASSUME TypeOK, BufInv, rh.todo # << >>,
         rh' = [rh EXCEPT !.todo = Tail(@), !.sent = @ \cup {Head(rh.todo)}],
         UNCHANGED <<buf, keys, batches, buffering, opInfo, nextId>>
  PROVE  BufInv'
<1>1. HelperModes'
  <2>1. SeqElems(rh'.todo) \cup rh'.sent
          \subseteq SeqElems(rh.todo) \cup rh.sent
    BY TodoHeadTail DEF TypeOK, Helper
  <2>2. rh'.txn = rh.txn
    BY DEF TypeOK, Helper
  <2>. QED  BY <2>1, <2>2, RowOfFrame DEF BufInv, HelperModes, Issued
<1>2. BatchesGood'
  BY DEF BufInv, BatchesGood, Issued
<1>3. \A o : RowOf(o)' = RowOf(o) /\ ModeOf(o)' = ModeOf(o)
  BY RowOfFrame
<1>4. BufModes' /\ KeysTrackBuffers' /\ NoRowBufferedTwice'
  BY <1>3 DEF BufInv, BufModes, KeysTrackBuffers, NoRowBufferedTwice, RowsIn,
             Buffered, Issued
<1>5. UnbufferedHoldsNothing'
  BY Zenon DEF BufInv, UnbufferedHoldsNothing, Buffered
<1>. QED  BY <1>1, <1>2, <1>4, <1>5 DEF BufInv

\* The helper's operations after Apply moved its head elsewhere.
LEMMA HelperTail ==
  ASSUME TypeOK, BufInv, rh.todo # << >>, rh' = [rh EXCEPT !.todo = Tail(@)],
         UNCHANGED <<opInfo, nextId>>
  PROVE  HelperModes'
<1>1. SeqElems(rh'.todo) \cup rh'.sent \subseteq SeqElems(rh.todo) \cup rh.sent
  BY TodoHeadTail DEF TypeOK, Helper
<1>2. rh'.txn = rh.txn
  BY DEF TypeOK, Helper
<1>. QED  BY <1>1, <1>2, RowOfFrame DEF BufInv, HelperModes, Issued

\* The head of the helper's operations is issued and has the helper's mode.
LEMMA HeadMode ==
  ASSUME TypeOK, BufInv, rh.todo # << >>
  PROVE  /\ rh.txn \in Modes
         /\ Head(rh.todo) \in Issued /\ ModeOf(Head(rh.todo)) = rh.txn
  BY TodoHeadTail DEF BufInv, HelperModes, TypeOK, Helper, Modes

\* A write whose row is not buffered yet joins the buffer of its mode.
LEMMA ApplyBuffer ==
  ASSUME TypeOK, BufInv, rh.todo # << >>, buffering,
         ~HasConflict(Head(rh.todo)),
         buf' = [buf EXCEPT ![rh.txn] = @ \cup {Head(rh.todo)}],
         keys' = keys \cup {RowOf(Head(rh.todo))},
         rh' = [rh EXCEPT !.todo = Tail(@)],
         UNCHANGED <<batches, buffering, opInfo, nextId>>
  PROVE  BufInv'
<1> DEFINE o == Head(rh.todo)
           m == rh.txn
<1>0. m \in Modes /\ o \in Issued /\ ModeOf(o) = m
  BY HeadMode
<1>1. \A m2 \in Modes : buf'[m2] = IF m2 = m THEN buf[m] \cup {o} ELSE buf[m2]
  BY <1>0 DEF TypeOK
<1>2. Buffered' = Buffered \cup {o}
  <2>1. CASE m = TRUE
    <3>1. buf'[TRUE] = buf[TRUE] \cup {o} /\ buf'[FALSE] = buf[FALSE]
      BY <1>1, <2>1 DEF Modes
    <3>. QED  BY <3>1, Zenon DEF Buffered
  <2>2. CASE m = FALSE
    <3>1. buf'[FALSE] = buf[FALSE] \cup {o} /\ buf'[TRUE] = buf[TRUE]
      BY <1>1, <2>2 DEF Modes
    <3>. QED  BY <3>1, Zenon DEF Buffered
  <2>. QED  BY <1>0, <2>1, <2>2 DEF Modes
<1>3. \A x : RowOf(x)' = RowOf(x) /\ ModeOf(x)' = ModeOf(x)
  BY RowOfFrame
<1>4. BufModes'
  BY <1>0, <1>1, <1>3 DEF BufInv, BufModes, Issued
<1>5. RowOf(o) \notin keys
  BY DEF HasConflict
<1>6. KeysTrackBuffers'
  <2>1. RowsIn(Buffered') = RowsIn(Buffered)' 
    BY <1>3 DEF RowsIn
  <2>2. RowsIn(Buffered') = RowsIn(Buffered) \cup {RowOf(o)}
    BY <1>2 DEF RowsIn
  <2>. QED  BY <2>1, <2>2 DEF BufInv, KeysTrackBuffers
<1>7. NoRowBufferedTwice'
  <2> SUFFICES ASSUME NEW o1 \in Buffered', NEW o2 \in Buffered', o1 # o2
               PROVE  RowOf(o1) # RowOf(o2)
    BY <1>3 DEF NoRowBufferedTwice
  <2>1. \A x \in Buffered : RowOf(x) # RowOf(o)
    BY <1>5 DEF BufInv, KeysTrackBuffers, RowsIn
  <2>. QED  BY <1>2, <2>1 DEF BufInv, NoRowBufferedTwice
<1>8. UnbufferedHoldsNothing'
  BY Zenon DEF UnbufferedHoldsNothing
<1>9. HelperModes'
  BY HelperTail
<1>10. BatchesGood'
  BY DEF BufInv, BatchesGood, Issued
<1>. QED  BY <1>4, <1>6, <1>7, <1>8, <1>9, <1>10 DEF BufInv

\* A conflicting write flushes its mode's buffer; when the flush succeeds
\* the write starts the buffer afresh.
LEMMA ApplyConflictOk ==
  ASSUME TypeOK, BufInv, rh.todo # << >>, buffering,
         NEW res, SyncFlush({rh.txn}, res),
         buf' = [FlushedBuf({rh.txn}) EXCEPT ![rh.txn] = {Head(rh.todo)}],
         keys' = FlushedKeys({rh.txn}) \cup {RowOf(Head(rh.todo))},
         rh' = [rh EXCEPT !.todo = Tail(@)],
         UNCHANGED <<buffering, opInfo, nextId>>
  PROVE  BufInv'
<1> DEFINE o == Head(rh.todo)
           m == rh.txn
           FB == FlushedBuf({m})
           B2 == FB[TRUE] \cup FB[FALSE]
<1>0. m \in Modes /\ o \in Issued /\ ModeOf(o) = m
  BY HeadMode
<1>1. /\ \A m2 \in Modes : FB[m2] = IF m2 \in {m} THEN {} ELSE buf[m2]
      /\ RowsIn(B2) = FlushedKeys({m})
  BY <1>0, FlushedRows DEF BufInv
<1>2. \A m2 \in Modes : buf'[m2] = IF m2 = m THEN {o} ELSE buf[m2]
  BY <1>0, <1>1 DEF FlushedBuf
<1>3. /\ Buffered' = B2 \cup {o}
      /\ B2 \subseteq Buffered
      /\ \A x \in B2 : ModeOf(x) # m
  <2>1. CASE m = TRUE
    <3>1. buf'[TRUE] = {o} /\ buf'[FALSE] = buf[FALSE]
      BY <1>2, <2>1 DEF Modes
    <3>2. FB[TRUE] = {} /\ FB[FALSE] = buf[FALSE]
      BY <1>1, <2>1 DEF Modes
    <3>3. \A x \in buf[FALSE] : ModeOf(x) = FALSE
      BY DEF BufInv, BufModes, Modes
    <3>. QED  BY <3>1, <3>2, <3>3, <2>1, Zenon DEF Buffered
  <2>2. CASE m = FALSE
    <3>1. buf'[FALSE] = {o} /\ buf'[TRUE] = buf[TRUE]
      BY <1>2, <2>2 DEF Modes
    <3>2. FB[FALSE] = {} /\ FB[TRUE] = buf[TRUE]
      BY <1>1, <2>2 DEF Modes
    <3>3. \A x \in buf[TRUE] : ModeOf(x) = TRUE
      BY DEF BufInv, BufModes, Modes
    <3>. QED  BY <3>1, <3>2, <3>3, <2>2, Zenon DEF Buffered
  <2>. QED  BY <1>0, <2>1, <2>2 DEF Modes
<1>4. \A x : RowOf(x)' = RowOf(x) /\ ModeOf(x)' = ModeOf(x)
  BY RowOfFrame
<1>5. BufModes'
  <2> SUFFICES ASSUME NEW m2 \in Modes, NEW x \in buf'[m2]
               PROVE  x \in Issued' /\ ModeOf(x)' = m2
    BY DEF BufModes
  <2>1. CASE m2 = m
    <3>0. buf'[m] = {o}
      BY <1>0, <1>2
    <3>1. x = o
      BY <3>0, <2>1, Zenon
    <3>. QED  BY <3>1, <1>0, <1>4, <2>1, Zenon DEF Issued
  <2>2. CASE m2 # m
    <3>1. x \in buf[m2]
      BY <1>2, <2>2, Zenon
    <3>2. x \in Issued /\ ModeOf(x) = m2
      BY <3>1 DEF BufInv, BufModes
    <3>. QED  BY <3>2, <1>4, Zenon DEF Issued
  <2>. QED  BY <2>1, <2>2
<1>6. KeysTrackBuffers'
  <2>1. RowsIn(Buffered') = RowsIn(Buffered)'
    BY <1>4 DEF RowsIn
  <2>2. RowsIn(Buffered') = RowsIn(B2) \cup {RowOf(o)}
    BY <1>3 DEF RowsIn
  <2>. QED  BY <1>1, <2>1, <2>2 DEF KeysTrackBuffers
<1>7. NoRowBufferedTwice'
  <2> SUFFICES ASSUME NEW o1 \in Buffered', NEW o2 \in Buffered', o1 # o2
               PROVE  RowOf(o1) # RowOf(o2)
    BY <1>4 DEF NoRowBufferedTwice
  <2>1. \A x \in B2 : RowOf(x) # RowOf(o)
    BY <1>0, <1>3, SameRowSameMode
  <2>. QED  BY <1>3, <2>1 DEF BufInv, NoRowBufferedTwice
<1>8. UnbufferedHoldsNothing'
  BY Zenon DEF UnbufferedHoldsNothing
<1>9. HelperModes'
  BY HelperTail
<1>10. BatchesGood'
  BY <1>0, SyncFlushGood DEF BufInv
<1>. QED  BY <1>5, <1>6, <1>7, <1>8, <1>9, <1>10 DEF BufInv

\* When the flush of a conflicting write fails, the mode's buffer is gone
\* and the helper is idle again.
LEMMA ApplyConflictFail ==
  ASSUME TypeOK, BufInv, rh.todo # << >>, buffering,
         NEW res, SyncFlush({rh.txn}, res),
         buf' = FlushedBuf({rh.txn}), keys' = FlushedKeys({rh.txn}),
         rh' = IdleHelper,
         UNCHANGED <<buffering, opInfo, nextId>>
  PROVE  BufInv'
<1>0. rh.txn \in Modes
  BY HeadMode
<1>1. BufModes' /\ KeysTrackBuffers' /\ NoRowBufferedTwice'
  BY <1>0, FlushKeeps DEF BufInv
<1>2. HelperModes'
  BY DEF HelperModes, IdleHelper, SeqElems
<1>3. UnbufferedHoldsNothing'
  BY Zenon DEF UnbufferedHoldsNothing
<1>4. BatchesGood'
  BY <1>0, SyncFlushGood DEF BufInv
<1>. QED  BY <1>1, <1>2, <1>3, <1>4 DEF BufInv

\* RunHelper::Apply, every branch of it, keeps the buffers consistent.
LEMMA ApplyStep ==
  ASSUME TypeOK, BufInv, RunHelperApply
  PROVE  BufInv'
<1> DEFINE o == Head(rh.todo)
           m == rh.txn
<1>1. /\ rh.todo # << >>
      /\ UNCHANGED <<buffering, opInfo, nextId>>
  BY DEF RunHelperApply
<1>2. CASE buffering /\ ~rh.force /\ opInfo[o].write
  <2>1. CASE ~HasConflict(o)
    <3>1. /\ buf' = [buf EXCEPT ![m] = @ \cup {o}]
          /\ keys' = keys \cup {RowOf(o)}
          /\ rh' = [rh EXCEPT !.todo = Tail(@)]
          /\ UNCHANGED batches
      BY <1>2, <2>1, Zenon DEF RunHelperApply
    <3>. QED  BY <1>1, <1>2, <2>1, <3>1, ApplyBuffer
  <2>2. CASE HasConflict(o)
    <3>1. PICK res \in BOOLEAN :
            /\ SyncFlush({m}, res)
            /\ IF res
                 THEN /\ buf' = [FlushedBuf({m}) EXCEPT ![m] = {o}]
                      /\ keys' = FlushedKeys({m}) \cup {RowOf(o)}
                      /\ rh' = [rh EXCEPT !.todo = Tail(@)]
                 ELSE /\ buf' = FlushedBuf({m})
                      /\ keys' = FlushedKeys({m})
                      /\ rh' = IdleHelper
      BY <1>2, <2>2, Zenon DEF RunHelperApply
    <3>2. CASE res
      <4>1. /\ buf' = [FlushedBuf({m}) EXCEPT ![m] = {o}]
            /\ keys' = FlushedKeys({m}) \cup {RowOf(o)}
            /\ rh' = [rh EXCEPT !.todo = Tail(@)]
        BY <3>1, <3>2, Zenon
      <4>. QED  BY <1>1, <1>2, <3>1, <4>1, ApplyConflictOk
    <3>3. CASE ~res
      <4>1. /\ buf' = FlushedBuf({m})
            /\ keys' = FlushedKeys({m})
            /\ rh' = IdleHelper
        BY <3>1, <3>3, Zenon
      <4>. QED  BY <1>1, <1>2, <3>1, <4>1, ApplyConflictFail
    <3>. QED  BY <3>2, <3>3
  <2>. QED  BY <2>1, <2>2
<1>3. CASE ~(buffering /\ ~rh.force /\ opInfo[o].write)
  <2>1. /\ rh' = [rh EXCEPT !.todo = Tail(@), !.sent = @ \cup {o}]
        /\ UNCHANGED <<buf, keys, batches>>
    BY <1>3, Zenon DEF RunHelperApply
  <2>. QED  BY <1>1, <2>1, ApplyDirect
<1>. QED  BY <1>2, <1>3

\* Every step of the session keeps BInv: the type and TodoAssigned by
\* IInvInvariant's lemmas, the buffer invariants one action at a time.
LEMMA NextBInv == BInv /\ [Next]_vars => BInv'
<1> SUFFICES ASSUME BInv, [Next]_vars PROVE BInv'
  OBVIOUS
<1>1. IInv'
  BY TypeNext, TodoNext DEF BInv, IInv
<1>2. TypeOK /\ BufInv
  BY DEF BInv, IInv
<1>3. BufInv'
  <2>1. CASE StartOperationsBuffering
    BY <1>2, <2>1, StartStep
  <2>2. CASE StopOperationsBuffering
    BY <1>2, <2>2, StopStep
  <2>3. CASE ResetOperationsBuffering
    BY <1>2, <2>3, ResetStep
  <2>4. CASE FlushBufferedOperations
    BY <1>2, <2>4, FlushStep
  <2>5. CASE DropBufferedOperations
    BY <1>2, <2>5, DropStep
  <2>6. CASE RunAsync
    BY <1>2, <2>6, RunAsyncStep
  <2>7. CASE RunHelperApply
    BY <1>2, <2>7, ApplyStep
  <2>8. CASE RunHelperFlush
    BY <1>2, <2>8, HelperFlushStep
  <2>9. CASE GetStatus
    BY <1>2, <2>9, GetStatusStep
  <2>10. CASE AdapterComplete
    BY <1>2, <2>10, CompleteStep
  <2>11. CASE UNCHANGED vars
    <3>1. UNCHANGED <<buf, keys, opInfo, nextId, rh, batches, buffering>>
      BY <2>11 DEF vars
    <3>2. BatchesGood'
      BY <1>2, <3>1 DEF BufInv, BatchesGood, Issued
    <3>3. ~buffering' => Buffered = {}
      BY <1>2, <3>1 DEF BufInv, UnbufferedHoldsNothing
    <3>. QED  BY <1>2, <3>1, <3>2, <3>3, FrameStep
  <2>. QED  BY <2>1, <2>2, <2>3, <2>4, <2>5, <2>6, <2>7, <2>8, <2>9,
               <2>10, <2>11 DEF Next
<1>. QED  BY <1>1, <1>3 DEF BInv

\* BInv holds in every reachable state of the session.
LEMMA BInvInvariant == Spec => []BInv
BY InitBInv, NextBInv, PTL DEF Spec

\* The set of buffered keys (buffered_keys_) is always exactly the rows of
\* the buffered writes, whatever RunHelper::Apply, Flush, Drop, Reset and
\* the adapter's completions interleave: a conflict check never misses a
\* buffered row and never sees one that is gone.
THEOREM KeysAlwaysTrackBuffers == Spec => []KeysTrackBuffers
<1>1. BInv => KeysTrackBuffers
  BY DEF BInv, BufInv
<1>. QED  BY BInvInvariant, <1>1, PTL

\* No two buffered writes ever touch the same row: RunHelper::Apply flushes
\* the buffer of its mode before it buffers a write to a buffered row, and
\* the two modes never share a row.
THEOREM RowsNeverBufferedTwice == Spec => []NoRowBufferedTwice
<1>1. BInv => NoRowBufferedTwice
  BY DEF BInv, BufInv
<1>. QED  BY BInvInvariant, <1>1, PTL

\* Whenever buffering is off the session buffers are empty: Stop and Reset
\* only end buffering after a flush or over empty buffers, and no RunHelper
\* buffers a write outside buffering.
THEOREM UnbufferedAlwaysEmpty == Spec => []UnbufferedHoldsNothing
<1>1. BInv => UnbufferedHoldsNothing
  BY DEF BInv, BufInv
<1>. QED  BY BInvInvariant, <1>1, PTL

=============================================================================
