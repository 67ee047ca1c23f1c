------------------------ MODULE PgSessionOps_proofs ------------------------
(***************************************************************************)
(* Proof that the session engine accounts for every operation handed to    *)
(* RunAsync exactly once (OpsAccountedOnce of PgSession.tla), for every    *)
(* value of the constants that SessionAssumption allows.                   *)
(*                                                                         *)
(* OpsAccountedOnce is not inductive.  RunAsync overwrites the RunHelper,  *)
(* so the helper must hold nothing when the caller is idle (IdleEmpty);    *)
(* Apply moves the head of the helper's list, so the list must repeat no   *)
(* operation (TodoDistinct); and RunAsync's new ids must be fresh, so     *)
(* every place and every adapter call may hold only issued operations.   *)
(* The invariant below states the accounting with sets rather than the    *)
(* indexed places of OpsAccountedOnce, and on top of BInv.               *)
(***************************************************************************)
EXTENDS PgSessionBuffers_proofs

\* The operations the session still holds: in the RunHelper, in a buffer,
\* or discarded.
Held == SeqElems(rh.todo) \cup rh.sent \cup Buffered \cup dropped

\* The operations of the adapter calls of a sequence of calls.
OpsOf(s) == UNION {s[i].ops : i \in 1..Len(s)}

\* No operation is in two calls of the sequence.
DisjointOps(s) == \A i, j \in 1..Len(s) : i # j => s[i].ops \cap s[j].ops = {}

\* The RunHelper's list of operations repeats none.
Distinct(s) == \A i, j \in 1..Len(s) : s[i] = s[j] => i = j

TodoDistinct == Distinct(rh.todo)

\* An idle RunHelper holds no operation.
IdleEmpty == ~rh.busy => rh.todo = << >> /\ rh.sent = {}

\* The places of the session share no operation.
PlacesDisjoint ==
  /\ SeqElems(rh.todo) \cap (rh.sent \cup Buffered \cup dropped) = {}
  /\ rh.sent \cap (Buffered \cup dropped) = {}
  /\ Buffered \cap dropped = {}
  /\ buf[TRUE] \cap buf[FALSE] = {}

\* The issued operations are exactly those held or sent, and none is both
\* held and sent or in two calls.
Accounted ==
  /\ Issued = Held \cup OpsOf(batches)
  /\ Held \cap OpsOf(batches) = {}
  /\ DisjointOps(batches)

AccInv == TodoDistinct /\ IdleEmpty /\ PlacesDisjoint /\ Accounted

AInv == BInv /\ AccInv

-----------------------------------------------------------------------------
(* Operations of a sequence of adapter calls.                               *)

\* Concatenating two sequences of calls unites their operations, and keeps
\* the calls disjoint when both are and they share no operation.
LEMMA ConcatOps ==
  ASSUME NEW s \in Seq(Batch), NEW t \in Seq(Batch)
  PROVE  /\ OpsOf(s \o t) = OpsOf(s) \cup OpsOf(t)
         /\ DisjointOps(s) /\ DisjointOps(t) /\ OpsOf(s) \cap OpsOf(t) = {}
              => DisjointOps(s \o t)
<1>1. /\ Len(s \o t) = Len(s) + Len(t)
      /\ \A i \in 1..Len(s) : (s \o t)[i] = s[i]
      /\ \A i \in (Len(s) + 1)..(Len(s) + Len(t)) : (s \o t)[i] = t[i - Len(s)]
  BY ConcatProperties
<1>2. OpsOf(s \o t) = OpsOf(s) \cup OpsOf(t)
  <2>1. OpsOf(s \o t) \subseteq OpsOf(s) \cup OpsOf(t)
    BY <1>1 DEF OpsOf
  <2>2. OpsOf(s) \subseteq OpsOf(s \o t)
    BY <1>1 DEF OpsOf
  <2>3. OpsOf(t) \subseteq OpsOf(s \o t)
    <3> SUFFICES ASSUME NEW x \in OpsOf(t) PROVE x \in OpsOf(s \o t)
      OBVIOUS
    <3>1. PICK j \in 1..Len(t) : x \in t[j].ops
      BY DEF OpsOf
    <3>2. (s \o t)[j + Len(s)] = t[j] /\ j + Len(s) \in 1..Len(s \o t)
      BY <1>1
    <3>. QED  BY <3>1, <3>2 DEF OpsOf
  <2>. QED  BY <2>1, <2>2, <2>3
<1>3. ASSUME DisjointOps(s), DisjointOps(t), OpsOf(s) \cap OpsOf(t) = {}
      PROVE  DisjointOps(s \o t)
  <2> SUFFICES ASSUME NEW i \in 1..Len(s \o t), NEW j \in 1..Len(s \o t), i # j
               PROVE  (s \o t)[i].ops \cap (s \o t)[j].ops = {}
    BY DEF DisjointOps
  <2>1. CASE i <= Len(s) /\ j <= Len(s)
    BY <1>1, <1>3, <2>1 DEF DisjointOps
  <2>2. CASE i > Len(s) /\ j > Len(s)
    BY <1>1, <1>3, <2>2 DEF DisjointOps
  <2>3. CASE i <= Len(s) /\ j > Len(s)
    <3>1. (s \o t)[i].ops \subseteq OpsOf(s)
      BY <1>1, <2>3 DEF OpsOf
    <3>2. j - Len(s) \in 1..Len(t) /\ (s \o t)[j] = t[j - Len(s)]
      BY <1>1, <2>3
    <3>3. (s \o t)[j].ops \subseteq OpsOf(t)
      BY <3>2 DEF OpsOf
    <3>. QED  BY <3>1, <3>3, <1>3
  <2>4. CASE i > Len(s) /\ j <= Len(s)
    <3>1. (s \o t)[j].ops \subseteq OpsOf(s)
      BY <1>1, <2>4 DEF OpsOf
    <3>2. i - Len(s) \in 1..Len(t) /\ (s \o t)[i] = t[i - Len(s)]
      BY <1>1, <2>4
    <3>3. (s \o t)[i].ops \subseteq OpsOf(t)
      BY <3>2 DEF OpsOf
    <3>. QED  BY <3>1, <3>3, <1>3
  <2>. QED  BY <2>1, <2>2, <2>3, <2>4
<1>. QED  BY <1>2, <1>3

\* A sequence of at most one call is disjoint, and its operations are those
\* of the call.
LEMMA SingleOps ==
  ASSUME NEW r \in Batch
  PROVE  /\ OpsOf(<< r >>) = r.ops /\ DisjointOps(<< r >>)
         /\ OpsOf(<< >>) = {} /\ DisjointOps(<< >>)
BY DEF OpsOf, DisjointOps

\* Appending a call.
LEMMA AppendOps ==
  ASSUME NEW s \in Seq(Batch), NEW r \in Batch
  PROVE  /\ OpsOf(Append(s, r)) = OpsOf(s) \cup r.ops
         /\ DisjointOps(s) /\ OpsOf(s) \cap r.ops = {}
              => DisjointOps(Append(s, r))
<1>1. Append(s, r) = s \o << r >> /\ << r >> \in Seq(Batch)
  BY AppendIsConcat
<1>. QED  BY <1>1, SingleOps, ConcatOps

\* The operations of the buffers of the modes M.
BufOps(M) == UNION {buf[m] : m \in M}

\* The call a flush makes for the mode m carries that mode's buffer, if the
\* mode is flushed, and nothing else.
LEMMA FlushCallOps ==
  ASSUME buf \in [Modes -> SUBSET OpId], NEW M \in SUBSET Modes,
         NEW ok \in [Modes -> BOOLEAN], NEW m \in Modes
  PROVE  /\ FlushCall(M, ok, m) \in Seq(Batch)
         /\ OpsOf(FlushCall(M, ok, m)) = IF m \in M THEN buf[m] ELSE {}
         /\ DisjointOps(FlushCall(M, ok, m))
<1>1. CASE m \in M /\ buf[m] # {}
  <2>1. [ops |-> buf[m], txn |-> m, state |-> "done", ok |-> ok[m]] \in Batch
    BY DEF Batch, Modes
  <2>. QED  BY <1>1, <2>1, SingleOps DEF FlushCall
<1>2. CASE ~(m \in M /\ buf[m] # {})
  <2>1. FlushCall(M, ok, m) = << >>
    BY <1>2 DEF FlushCall
  <2>2. (IF m \in M THEN buf[m] ELSE {}) = {}
    BY <1>2
  <2>3. OpsOf(<< >>) = {} /\ DisjointOps(<< >>)
    BY DEF OpsOf, DisjointOps
  <2>. QED  BY <2>1, <2>2, <2>3, EmptySeq
<1>. QED  BY <1>1, <1>2

\* The calls of a flush of the modes M carry exactly the buffers of M, in
\* disjoint calls when the two buffers are disjoint.
LEMMA FlushCallsOps ==
  ASSUME buf \in [Modes -> SUBSET OpId], NEW M \in SUBSET Modes,
         NEW ok \in [Modes -> BOOLEAN]
  PROVE  /\ FlushCalls(M, ok) \in Seq(Batch)
         /\ OpsOf(FlushCalls(M, ok)) = BufOps(M)
         /\ buf[TRUE] \cap buf[FALSE] = {} => DisjointOps(FlushCalls(M, ok))
<1> DEFINE T == FlushCall(M, ok, TRUE)
           F == FlushCall(M, ok, FALSE)
<1>1. /\ T \in Seq(Batch) /\ OpsOf(T) = IF TRUE \in M THEN buf[TRUE] ELSE {}
      /\ DisjointOps(T)
  BY FlushCallOps DEF Modes
<1>2. /\ F \in Seq(Batch) /\ OpsOf(F) = IF FALSE \in M THEN buf[FALSE] ELSE {}
      /\ DisjointOps(F)
  BY FlushCallOps DEF Modes
<1>3. /\ OpsOf(T \o F) = OpsOf(T) \cup OpsOf(F)
      /\ DisjointOps(T) /\ DisjointOps(F) /\ OpsOf(T) \cap OpsOf(F) = {}
           => DisjointOps(T \o F)
  BY <1>1, <1>2, ConcatOps
<1>4. OpsOf(T) \cup OpsOf(F) = BufOps(M)
  <2>1. \A m \in M : m = TRUE \/ m = FALSE
    BY DEF Modes
  <2>. QED  BY <1>1, <1>2, <2>1 DEF BufOps
<1>. QED  BY <1>1, <1>2, <1>3, <1>4, ConcatProperties DEF FlushCalls

\* A synchronous flush of the modes M sends exactly the buffers of M, each
\* in a call of its own.
LEMMA SyncFlushOps ==
  ASSUME TypeOK, NEW M \in SUBSET Modes, NEW res, SyncFlush(M, res)
  PROVE  /\ OpsOf(batches') = OpsOf(batches) \cup BufOps(M)
         /\ DisjointOps(batches) /\ buf[TRUE] \cap buf[FALSE] = {}
            /\ OpsOf(batches) \cap BufOps(M) = {}
              => DisjointOps(batches')
<1>1. PICK ok \in [Modes -> BOOLEAN] : batches' = batches \o FlushCalls(M, ok)
  BY DEF SyncFlush
<1>2. /\ FlushCalls(M, ok) \in Seq(Batch)
      /\ OpsOf(FlushCalls(M, ok)) = BufOps(M)
      /\ buf[TRUE] \cap buf[FALSE] = {} => DisjointOps(FlushCalls(M, ok))
  BY FlushCallsOps DEF TypeOK
<1>. QED  BY <1>1, <1>2, ConcatOps DEF TypeOK

\* The adapter's completion of a call changes its state and status only.
LEMMA CompleteOps ==
  ASSUME TypeOK, AdapterComplete
  PROVE  /\ OpsOf(batches') = OpsOf(batches)
         /\ DisjointOps(batches') = DisjointOps(batches)
         /\ UNCHANGED <<buf, dropped, nextId, rh>>
<1>1. PICK i \in 1..Len(batches), ok \in BOOLEAN :
        /\ batches' = [batches EXCEPT ![i].state = "done", ![i].ok = ok]
        /\ UNCHANGED <<buf, dropped, nextId, rh>>
  BY Zenon DEF AdapterComplete
<1>2. Len(batches') = Len(batches)
  BY <1>1, CompleteCallType DEF TypeOK
<1>3. \A k \in 1..Len(batches) : batches'[k].ops = batches[k].ops
  BY <1>1 DEF TypeOK
<1>. QED  BY <1>1, <1>2, <1>3 DEF OpsOf, DisjointOps

\* A step that moves no operation keeps the accounting.
LEMMA AccFrame ==
  ASSUME AccInv, UNCHANGED <<buf, dropped, nextId, rh>>,
         OpsOf(batches') = OpsOf(batches), DisjointOps(batches')
  PROVE  AccInv'
BY DEF AccInv, TodoDistinct, IdleEmpty, PlacesDisjoint, Accounted, Held,
       Buffered, Issued

\* The buffers of all modes, and of one mode.
LEMMA BufOpsModes ==
  ASSUME NEW m \in Modes
  PROVE  BufOps(Modes) = Buffered /\ BufOps({m}) = buf[m]
<1>1. \A x : x \in BufOps(Modes) <=> x \in buf[TRUE] \/ x \in buf[FALSE]
  BY DEF BufOps, Modes
<1>. QED  BY <1>1 DEF BufOps, Buffered

\* The tail of a list that repeats nothing repeats nothing and has all of
\* the list's elements but the head.
LEMMA TailDistinct ==
  ASSUME NEW S, NEW s \in Seq(S), s # << >>, Distinct(s)
  PROVE  /\ Distinct(Tail(s))
         /\ SeqElems(Tail(s)) = SeqElems(s) \ {Head(s)}
         /\ Head(s) \in SeqElems(s)
<1>1. /\ Len(Tail(s)) = Len(s) - 1 /\ Len(s) \in Nat \ {0}
      /\ \A i \in 1..Len(Tail(s)) : Tail(s)[i] = s[i + 1]
      /\ Tail(s) \in Seq(S)
  BY EmptySeq, HeadTailProperties
<1>2. Distinct(Tail(s))
  BY <1>1 DEF Distinct
<1>3. SeqElems(Tail(s)) = SeqElems(s) \ {Head(s)}
  <2>1. DOMAIN s = 1..Len(s) /\ DOMAIN Tail(s) = 1..Len(Tail(s))
    BY <1>1, LenProperties
  <2>2. Head(s) = s[1]
    OBVIOUS
  <2>3. SeqElems(Tail(s)) \subseteq SeqElems(s) \ {Head(s)}
    <3> SUFFICES ASSUME NEW i \in 1..Len(Tail(s))
                 PROVE  Tail(s)[i] \in SeqElems(s) \ {Head(s)}
      BY <2>1 DEF SeqElems
    <3>1. Tail(s)[i] = s[i + 1] /\ i + 1 \in 1..Len(s) /\ i + 1 # 1
      BY <1>1
    <3>2. s[i + 1] # s[1]
      BY <3>1, <1>1 DEF Distinct
    <3>. QED  BY <3>1, <3>2, <2>1, <2>2 DEF SeqElems
  <2>4. SeqElems(s) \ {Head(s)} \subseteq SeqElems(Tail(s))
    <3> SUFFICES ASSUME NEW k \in 1..Len(s), s[k] # Head(s)
                 PROVE  s[k] \in SeqElems(Tail(s))
      BY <2>1 DEF SeqElems
    <3>1. k - 1 \in 1..Len(Tail(s))
      BY <1>1, <2>2
    <3>2. Tail(s)[k - 1] = s[k]
      BY <1>1, <3>1
    <3>. QED  BY <2>1, <3>1, <3>2 DEF SeqElems
  <2>. QED  BY <2>3, <2>4
<1>4. Head(s) \in SeqElems(s)
  BY <1>1, LenProperties DEF SeqElems
<1>. QED  BY <1>2, <1>3, <1>4

-----------------------------------------------------------------------------
(* The caller's operations and the adapter                                 *)

\* Start, Reset and GetStatus move no operation.
LEMMA CallerFrameStep ==
  ASSUME AccInv,
         StartOperationsBuffering \/ ResetOperationsBuffering \/ GetStatus
  PROVE  AccInv'
<1>1. UNCHANGED <<buf, dropped, nextId, rh, batches>>
  BY Zenon DEF StartOperationsBuffering, ResetOperationsBuffering, GetStatus
<1>. QED  BY <1>1, AccFrame DEF AccInv, Accounted

\* The adapter's completion moves no operation.
LEMMA CompleteAcc ==
  ASSUME TypeOK, AccInv, AdapterComplete
  PROVE  AccInv'
BY CompleteOps, AccFrame DEF AccInv, Accounted

\* A flush of both buffers (Stop, Flush) moves every buffered operation
\* into the new adapter calls.
LEMMA FlushAllAcc ==
  ASSUME TypeOK, BufInv, AccInv, NEW res, SyncFlush(Modes, res),
         buf' = FlushedBuf(Modes), UNCHANGED <<nextId, rh, dropped>>
  PROVE  AccInv'
<1>1. OpsOf(batches') = OpsOf(batches) \cup Buffered
      /\ DisjointOps(batches')
  <2>1. BufOps(Modes) = Buffered
    BY BufOpsModes DEF Modes
  <2>2. OpsOf(batches) \cap Buffered = {}
    BY DEF AccInv, Accounted, Held
  <2>. QED  BY <2>1, <2>2, SyncFlushOps DEF AccInv, Accounted, PlacesDisjoint
<1>2. buf'[TRUE] = {} /\ buf'[FALSE] = {}
  BY FlushedRows DEF BufInv, Modes
<1>3. Buffered' = {}
  BY <1>2 DEF Buffered
<1>4. Held' = SeqElems(rh.todo) \cup rh.sent \cup dropped
  BY <1>3 DEF Held
<1>5. Accounted'
  BY <1>1, <1>4 DEF AccInv, Accounted, Held, Issued, PlacesDisjoint
<1>6. PlacesDisjoint'
  BY <1>2, <1>3 DEF AccInv, PlacesDisjoint
<1>. QED  BY <1>5, <1>6 DEF AccInv, TodoDistinct, IdleEmpty

LEMMA StopAcc ==
  ASSUME TypeOK, BufInv, AccInv, StopOperationsBuffering
  PROVE  AccInv'
<1>1. PICK res \in BOOLEAN : SyncFlush(Modes, res)
  BY Zenon DEF StopOperationsBuffering
<1>2. buf' = FlushedBuf(Modes) /\ UNCHANGED <<nextId, rh, dropped>>
  BY Zenon DEF StopOperationsBuffering
<1>. QED  BY <1>1, <1>2, FlushAllAcc

LEMMA FlushAcc ==
  ASSUME TypeOK, BufInv, AccInv, FlushBufferedOperations
  PROVE  AccInv'
<1>1. PICK res \in BOOLEAN : SyncFlush(Modes, res)
  BY Zenon DEF FlushBufferedOperations
<1>2. buf' = FlushedBuf(Modes) /\ UNCHANGED <<nextId, rh, dropped>>
  BY Zenon DEF FlushBufferedOperations
<1>. QED  BY <1>1, <1>2, FlushAllAcc

\* DropBufferedOperations moves every buffered operation to the discarded.
LEMMA DropAcc ==
  ASSUME TypeOK, AccInv, DropBufferedOperations
  PROVE  AccInv'
<1>1. /\ buf' = [m \in Modes |-> {}] /\ dropped' = dropped \cup Buffered
      /\ UNCHANGED <<nextId, rh, batches>>
  BY Zenon DEF DropBufferedOperations
<1>2. Buffered' = {} /\ buf'[TRUE] = {} /\ buf'[FALSE] = {}
  BY <1>1 DEF Buffered, Modes
<1>3. Held' = Held
  BY <1>1, <1>2 DEF Held
<1>4. Accounted'
  BY <1>1, <1>3 DEF AccInv, Accounted, Issued, OpsOf, DisjointOps
<1>5. PlacesDisjoint'
  BY <1>1, <1>2 DEF AccInv, PlacesDisjoint
<1>. QED  BY <1>1, <1>4, <1>5 DEF AccInv, TodoDistinct, IdleEmpty

-----------------------------------------------------------------------------
(* The two ends of a RunAsync call                                          *)

\* The list of n consecutive ids from a has those ids, each once.
LEMMA RangeSeq ==
  ASSUME NEW a \in Nat, NEW n \in Nat
  PROVE  /\ SeqElems([k \in 1..n |-> a + k - 1]) = a..(a + n - 1)
         /\ Distinct([k \in 1..n |-> a + k - 1])
<1> DEFINE f == [k \in 1..n |-> a + k - 1]
<1>1. f \in Seq(Nat) /\ Len(f) = n
  <2>1. f \in [1..n -> Nat]
    OBVIOUS
  <2>. QED  BY <2>1, LenProperties
<1>2. SeqElems(f) = a..(a + n - 1)
  <2>1. \A x \in a..(a + n - 1) : x - a + 1 \in 1..n /\ f[x - a + 1] = x
    OBVIOUS
  <2>2. DOMAIN f = 1..n
    OBVIOUS
  <2>3. \A k \in 1..n : f[k] \in a..(a + n - 1)
    OBVIOUS
  <2>. QED  BY <2>1, <2>2, <2>3 DEF SeqElems
<1>3. Distinct(f)
  BY <1>1 DEF Distinct
<1>. QED  BY <1>2, <1>3

\* RunAsync hands the new helper fresh ids only: an idle helper holds
\* nothing, and every held or sent operation was issued before.
LEMMA RunAsyncAcc ==
  ASSUME TypeOK, AccInv, RunAsync
  PROVE  AccInv'
<1>1. PICK t \in Tables, n \in 1..MaxRun, force \in BOOLEAN,
           spec \in [1..MaxRun -> Rows \X BOOLEAN] :
        /\ nextId + n - 1 <= MaxOps
        /\ nextId' = nextId + n
        /\ rh' = [busy |-> TRUE, txn |-> ShouldHandleTransactionally(t),
                  force |-> force,
                  todo |-> [k \in 1..n |-> nextId + k - 1], sent |-> {}]
  BY Zenon DEF RunAsync
<1> DEFINE New == nextId..(nextId + n - 1)
<1>2. UNCHANGED <<buf, batches, dropped>> /\ ~rh.busy
  BY Zenon DEF RunAsync, CallerIdle
<1>3. rh.todo = << >> /\ rh.sent = {}
  BY <1>2 DEF AccInv, IdleEmpty
<1>4. /\ rh'.todo = [k \in 1..n |-> nextId + k - 1]
      /\ rh'.sent = {} /\ rh'.busy
  BY <1>1, Zenon
<1>5. /\ SeqElems(rh'.todo) = New /\ Distinct(rh'.todo)
  <2>1. nextId \in Nat /\ n \in Nat
    BY DEF TypeOK
  <2>. QED  BY <1>4, <2>1, RangeSeq
<1>6. Held = Buffered \cup dropped /\ Held' = Held \cup New
  <2>1. SeqElems(<< >>) = {}
    BY DEF SeqElems
  <2>. QED  BY <1>2, <1>3, <1>4, <1>5, <2>1 DEF Held, Buffered
<1>7. Issued' = Issued \cup New /\ Issued \cap New = {}
  BY <1>1 DEF Issued, TypeOK
<1>8. Accounted'
  BY <1>2, <1>6, <1>7 DEF AccInv, Accounted
<1>9. PlacesDisjoint'
  <2>1. (Buffered \cup dropped) \cap New = {}
    BY <1>6, <1>7 DEF AccInv, Accounted
  <2>. QED  BY <1>2, <1>4, <1>5, <2>1 DEF AccInv, PlacesDisjoint, Buffered
<1>10. TodoDistinct' /\ IdleEmpty'
  BY <1>4, <1>5, Zenon DEF TodoDistinct, IdleEmpty
<1>. QED  BY <1>8, <1>9, <1>10 DEF AccInv

\* RunHelper::Flush sends everything the helper applied in one new call and
\* leaves the helper idle.
LEMMA HelperFlushAcc ==
  ASSUME TypeOK, AccInv, RunHelperFlush
  PROVE  AccInv'
<1>1. /\ rh.todo = << >> /\ rh' = IdleHelper
      /\ UNCHANGED <<buf, nextId, dropped>>
  BY Zenon DEF RunHelperFlush
<1>2. /\ OpsOf(batches') = OpsOf(batches) \cup rh.sent
      /\ DisjointOps(batches')
  <2>1. CASE rh.sent # {}
    <3>1. batches' = Append(batches, [ops |-> rh.sent, txn |-> rh.txn,
                                      state |-> "inflight", ok |-> TRUE])
      BY <2>1, Zenon DEF RunHelperFlush
    <3>2. [ops |-> rh.sent, txn |-> rh.txn, state |-> "inflight", ok |-> TRUE]
            \in Batch
      BY DEF TypeOK, Helper, Batch
    <3>3. OpsOf(batches) \cap rh.sent = {}
      BY DEF AccInv, Accounted, Held
    <3>. QED  BY <3>1, <3>2, <3>3, AppendOps DEF TypeOK, AccInv, Accounted
  <2>2. CASE rh.sent = {}
    <3>1. UNCHANGED batches
      BY <2>2, Zenon DEF RunHelperFlush
    <3>. QED  BY <2>2, <3>1 DEF AccInv, Accounted
  <2>. QED  BY <2>1, <2>2
<1>3. /\ SeqElems(rh'.todo) = {} /\ rh'.sent = {} /\ ~rh'.busy
      /\ SeqElems(rh.todo) = {}
  BY <1>1 DEF IdleHelper, SeqElems
<1>4. Held' = Buffered \cup dropped /\ Held = Held' \cup rh.sent
  BY <1>1, <1>3 DEF Held, Buffered
<1>5. Accounted'
  BY <1>1, <1>2, <1>4 DEF AccInv, Accounted, Issued, PlacesDisjoint
<1>6. PlacesDisjoint'
  BY <1>1, <1>3 DEF AccInv, PlacesDisjoint, Buffered
<1>7. TodoDistinct' /\ IdleEmpty'
  BY <1>1 DEF TodoDistinct, Distinct, IdleEmpty, IdleHelper
<1>. QED  BY <1>5, <1>6, <1>7 DEF AccInv

-----------------------------------------------------------------------------
(* RunHelper::Apply                                                         *)

\* A step that replaces the buffer of one mode only leaves the other: the
\* buffers after it are the new one and the operations of the other mode.
LEMMA ModeSwap ==
  ASSUME NEW m \in Modes,
         \A m2 \in Modes : m2 # m => buf'[m2] = buf[m2],
         buf[TRUE] \cap buf[FALSE] = {}
  PROVE  /\ buf'[TRUE] \cup buf'[FALSE] = buf'[m] \cup (Buffered \ buf[m])
         /\ buf'[TRUE] \cap buf'[FALSE] = buf'[m] \cap (Buffered \ buf[m])
<1>1. CASE m = TRUE
  <2>1. buf'[FALSE] = buf[FALSE]
    BY <1>1 DEF Modes
  <2>2. Buffered \ buf[m] = buf[FALSE]
    BY <1>1 DEF Buffered
  <2>. QED  BY <1>1, <2>1, <2>2, Zenon
<1>2. CASE m = FALSE
  <2>1. buf'[TRUE] = buf[TRUE]
    BY <1>2 DEF Modes
  <2>2. Buffered \ buf[m] = buf[TRUE]
    BY <1>2 DEF Buffered
  <2>. QED  BY <1>2, <2>1, <2>2, Zenon
<1>. QED  BY <1>1, <1>2 DEF Modes

\* What Apply knows of the head of the helper's list.
LEMMA HeadFacts ==
  ASSUME TypeOK, BufInv, AccInv, rh.todo # << >>
  PROVE  /\ rh.txn \in Modes
         /\ Head(rh.todo) \in SeqElems(rh.todo)
         /\ SeqElems(Tail(rh.todo)) = SeqElems(rh.todo) \ {Head(rh.todo)}
         /\ Distinct(Tail(rh.todo))
         /\ Head(rh.todo) \notin rh.sent \cup Buffered \cup dropped
<1>1. rh.todo \in Seq(OpId)
  BY DEF TypeOK, Helper
<1>2. rh.txn \in Modes
  BY HeadMode
<1>. QED  BY <1>1, <1>2, TailDistinct DEF AccInv, TodoDistinct, PlacesDisjoint

\* An operation that is not buffered moves from the list to the helper's
\* session.
LEMMA DirectAcc ==
  ASSUME TypeOK, BufInv, AccInv, rh.todo # << >>, rh.busy,
         rh' = [rh EXCEPT !.todo = Tail(@), !.sent = @ \cup {Head(rh.todo)}],
         UNCHANGED <<buf, batches, dropped, nextId>>
  PROVE  AccInv'
<1> DEFINE o == Head(rh.todo)
<1>1. /\ SeqElems(rh'.todo) = SeqElems(rh.todo) \ {o}
      /\ rh'.sent = rh.sent \cup {o} /\ rh'.busy
  BY HeadFacts DEF TypeOK, Helper
<1>2. Held' = Held
  BY <1>1, HeadFacts DEF Held, Buffered
<1>3. Accounted'
  BY <1>2 DEF AccInv, Accounted, Issued, OpsOf, DisjointOps
<1>0. /\ o \in SeqElems(rh.todo)
      /\ o \notin rh.sent \cup Buffered \cup dropped
      /\ Distinct(Tail(rh.todo))
  BY HeadFacts
<1>4. PlacesDisjoint'
  <2>1. Buffered' = Buffered /\ dropped' = dropped /\ buf' = buf
    BY DEF Buffered
  <2>2. PlacesDisjoint
    BY DEF AccInv
  <2>. QED  BY <1>0, <1>1, <2>1, <2>2 DEF PlacesDisjoint
<1>5. TodoDistinct'
  BY <1>0 DEF TypeOK, Helper, TodoDistinct
<1>6. IdleEmpty'
  BY <1>1, Zenon DEF IdleEmpty
<1>. QED  BY <1>3, <1>4, <1>5, <1>6 DEF AccInv

\* A write with no conflict moves from the list into its mode's buffer.
LEMMA BufferAcc ==
  ASSUME TypeOK, BufInv, AccInv, rh.todo # << >>, rh.busy,
         buf' = [buf EXCEPT ![rh.txn] = @ \cup {Head(rh.todo)}],
         rh' = [rh EXCEPT !.todo = Tail(@)],
         UNCHANGED <<batches, dropped, nextId>>
  PROVE  AccInv'
<1> DEFINE o == Head(rh.todo)
           m == rh.txn
<1>0. /\ m \in Modes /\ o \in SeqElems(rh.todo)
      /\ o \notin rh.sent \cup Buffered \cup dropped
      /\ SeqElems(Tail(rh.todo)) = SeqElems(rh.todo) \ {o}
      /\ Distinct(Tail(rh.todo))
  BY HeadFacts
<1>1. /\ SeqElems(rh'.todo) = SeqElems(rh.todo) \ {o}
      /\ rh'.sent = rh.sent /\ rh'.busy
  BY <1>0 DEF TypeOK, Helper
<1>2. buf'[m] = buf[m] \cup {o} /\ \A m2 \in Modes : m2 # m => buf'[m2] = buf[m2]
  BY <1>0 DEF TypeOK
<1>3. /\ Buffered' = buf[m] \cup {o} \cup (Buffered \ buf[m])
      /\ buf'[TRUE] \cap buf'[FALSE] = (buf[m] \cup {o}) \cap (Buffered \ buf[m])
  <2>1. m \in Modes /\ buf[TRUE] \cap buf[FALSE] = {}
    BY <1>0 DEF AccInv, PlacesDisjoint
  <2>2. /\ buf'[TRUE] \cup buf'[FALSE] = buf'[m] \cup (Buffered \ buf[m])
        /\ buf'[TRUE] \cap buf'[FALSE] = buf'[m] \cap (Buffered \ buf[m])
    BY <2>1, <1>2, ModeSwap
  <2>. QED  BY <1>2, <2>2 DEF Buffered
<1>4. buf[m] \subseteq Buffered
  BY <1>0 DEF Buffered, Modes
<1>5. Buffered' = Buffered \cup {o} /\ buf'[TRUE] \cap buf'[FALSE] = {}
  BY <1>0, <1>3, <1>4
<1>6. Held' = Held
  BY <1>0, <1>1, <1>5 DEF Held
<1>7. Accounted'
  BY <1>6 DEF AccInv, Accounted, Issued, OpsOf, DisjointOps
<1>8. PlacesDisjoint'
  <2>1. PlacesDisjoint
    BY DEF AccInv
  <2>. QED  BY <1>0, <1>1, <1>5, <2>1 DEF PlacesDisjoint
<1>9. TodoDistinct' /\ IdleEmpty'
  <2>1. rh'.todo = Tail(rh.todo)
    BY DEF TypeOK, Helper
  <2>2. TodoDistinct'
    BY <1>0, <2>1 DEF TodoDistinct
  <2>3. IdleEmpty'
    BY <1>1, Zenon DEF IdleEmpty
  <2>. QED  BY <2>2, <2>3
<1>. QED  BY <1>7, <1>8, <1>9 DEF AccInv

\* A conflicting write whose flush succeeds: the mode's buffer goes to the
\* adapter and the write starts the buffer afresh.
LEMMA ConflictOkAcc ==
  ASSUME TypeOK, BufInv, AccInv, rh.todo # << >>, rh.busy,
         NEW res, SyncFlush({rh.txn}, res),
         buf' = [FlushedBuf({rh.txn}) EXCEPT ![rh.txn] = {Head(rh.todo)}],
         rh' = [rh EXCEPT !.todo = Tail(@)],
         UNCHANGED <<dropped, nextId>>
  PROVE  AccInv'
<1> DEFINE o == Head(rh.todo)
           m == rh.txn
<1>0. /\ m \in Modes /\ o \in SeqElems(rh.todo)
      /\ o \notin rh.sent \cup Buffered \cup dropped
      /\ SeqElems(Tail(rh.todo)) = SeqElems(rh.todo) \ {o}
      /\ Distinct(Tail(rh.todo))
  BY HeadFacts
<1>1. /\ SeqElems(rh'.todo) = SeqElems(rh.todo) \ {o}
      /\ rh'.sent = rh.sent /\ rh'.busy
  BY <1>0 DEF TypeOK, Helper
<1>2. buf'[m] = {o} /\ \A m2 \in Modes : m2 # m => buf'[m2] = buf[m2]
  <2>0. {m} \in SUBSET Modes
    BY <1>0
  <2>1. \A m2 \in Modes : FlushedBuf({m})[m2] = IF m2 \in {m} THEN {} ELSE buf[m2]
    BY <2>0, FlushedRows DEF BufInv
  <2>. QED  BY <1>0, <2>1 DEF FlushedBuf
<1>3. /\ Buffered' = {o} \cup (Buffered \ buf[m])
      /\ buf'[TRUE] \cap buf'[FALSE] = {o} \cap (Buffered \ buf[m])
  <2>1. m \in Modes /\ buf[TRUE] \cap buf[FALSE] = {}
    BY <1>0 DEF AccInv, PlacesDisjoint
  <2>2. /\ buf'[TRUE] \cup buf'[FALSE] = buf'[m] \cup (Buffered \ buf[m])
        /\ buf'[TRUE] \cap buf'[FALSE] = buf'[m] \cap (Buffered \ buf[m])
    BY <2>1, <1>2, ModeSwap
  <2>. QED  BY <1>2, <2>2 DEF Buffered
<1>4. buf[m] \subseteq Buffered /\ buf'[TRUE] \cap buf'[FALSE] = {}
  BY <1>0, <1>3 DEF Buffered, Modes
<1>5. /\ OpsOf(batches') = OpsOf(batches) \cup buf[m]
      /\ DisjointOps(batches')
  <2>1. BufOps({m}) = buf[m]
    BY <1>0, BufOpsModes
  <2>2. OpsOf(batches) \cap buf[m] = {}
    BY <1>4 DEF AccInv, Accounted, Held
  <2>. QED  BY <1>0, <2>1, <2>2, SyncFlushOps DEF AccInv, Accounted, PlacesDisjoint
<1>6. Held' = Held \ buf[m] /\ buf[m] \subseteq Held
  <2>1. buf[m] \cap (SeqElems(rh.todo) \cup rh.sent \cup dropped) = {}
    BY <1>4 DEF AccInv, PlacesDisjoint
  <2>. QED  BY <1>0, <1>1, <1>3, <1>4, <2>1 DEF Held
<1>7. Accounted'
  BY <1>5, <1>6 DEF AccInv, Accounted, Issued
<1>8. PlacesDisjoint'
  <2>1. PlacesDisjoint
    BY DEF AccInv
  <2>2. /\ o \notin rh.sent \cup Buffered \cup dropped
        /\ dropped' = dropped
    BY <1>0
  <2>3. /\ SeqElems(rh'.todo) \cap (rh'.sent \cup Buffered' \cup dropped') = {}
        /\ rh'.sent \cap (Buffered' \cup dropped') = {}
        /\ Buffered' \cap dropped' = {}
    BY <1>1, <1>3, <2>1, <2>2 DEF PlacesDisjoint
  <2>. QED  BY <1>4, <2>3 DEF PlacesDisjoint
<1>9. TodoDistinct' /\ IdleEmpty'
  <2>1. rh'.todo = Tail(rh.todo)
    BY DEF TypeOK, Helper
  <2>2. TodoDistinct'
    BY <1>0, <2>1 DEF TodoDistinct
  <2>3. IdleEmpty'
    BY <1>1, Zenon DEF IdleEmpty
  <2>. QED  BY <2>2, <2>3
<1>. QED  BY <1>7, <1>8, <1>9 DEF AccInv

\* A conflicting write whose flush fails: the mode's buffer goes to the
\* adapter, and the helper's operations, the write among them, are
\* discarded with RunAsync's error.
LEMMA ConflictFailAcc ==
  ASSUME TypeOK, BufInv, AccInv, rh.todo # << >>,
         NEW res, SyncFlush({rh.txn}, res),
         buf' = FlushedBuf({rh.txn}), rh' = IdleHelper,
         dropped' = dropped \cup rh.sent \cup SeqElems(rh.todo),
         UNCHANGED nextId
  PROVE  AccInv'
<1> DEFINE m == rh.txn
<1>0. m \in Modes
  BY HeadFacts
<1>1. /\ SeqElems(rh'.todo) = {} /\ rh'.sent = {} /\ ~rh'.busy
  BY DEF IdleHelper, SeqElems
<1>2. buf'[m] = {} /\ \A m2 \in Modes : m2 # m => buf'[m2] = buf[m2]
  <2>0. {m} \in SUBSET Modes
    BY <1>0
  <2>1. \A m2 \in Modes : FlushedBuf({m})[m2] = IF m2 \in {m} THEN {} ELSE buf[m2]
    BY <2>0, FlushedRows DEF BufInv
  <2>. QED  BY <1>0, <2>1
<1>3. /\ Buffered' = {} \cup (Buffered \ buf[m])
      /\ buf'[TRUE] \cap buf'[FALSE] = {} \cap (Buffered \ buf[m])
  <2>1. m \in Modes /\ buf[TRUE] \cap buf[FALSE] = {}
    BY <1>0 DEF AccInv, PlacesDisjoint
  <2>2. /\ buf'[TRUE] \cup buf'[FALSE] = buf'[m] \cup (Buffered \ buf[m])
        /\ buf'[TRUE] \cap buf'[FALSE] = buf'[m] \cap (Buffered \ buf[m])
    BY <2>1, <1>2, ModeSwap
  <2>. QED  BY <1>2, <2>2 DEF Buffered
<1>4. buf[m] \subseteq Buffered
  BY <1>0 DEF Buffered, Modes
<1>5. /\ OpsOf(batches') = OpsOf(batches) \cup buf[m]
      /\ DisjointOps(batches')
  <2>1. BufOps({m}) = buf[m]
    BY <1>0, BufOpsModes
  <2>2. OpsOf(batches) \cap buf[m] = {}
    BY <1>4 DEF AccInv, Accounted, Held
  <2>. QED  BY <1>0, <2>1, <2>2, SyncFlushOps DEF AccInv, Accounted, PlacesDisjoint
<1>6. Held' = Held \ buf[m] /\ buf[m] \subseteq Held
  <2>1. buf[m] \cap (SeqElems(rh.todo) \cup rh.sent \cup dropped) = {}
    BY <1>4 DEF AccInv, PlacesDisjoint
  <2>. QED  BY <1>1, <1>3, <1>4, <2>1 DEF Held
<1>7. Accounted'
  BY <1>5, <1>6 DEF AccInv, Accounted, Issued
<1>8. PlacesDisjoint'
  <2>1. PlacesDisjoint
    BY DEF AccInv
  <2>. QED  BY <1>1, <1>3, <1>4, <2>1 DEF PlacesDisjoint
<1>9. TodoDistinct' /\ IdleEmpty'
  <2>1. TodoDistinct'
    BY DEF TodoDistinct, Distinct, IdleHelper
  <2>2. IdleEmpty'
    BY DEF IdleEmpty, IdleHelper
  <2>. QED  BY <2>1, <2>2
<1>. QED  BY <1>7, <1>8, <1>9 DEF AccInv

\* RunHelper::Apply, every branch of it, keeps the accounting.
LEMMA ApplyAcc ==
  ASSUME TypeOK, BufInv, AccInv, RunHelperApply
  PROVE  AccInv'
<1> DEFINE o == Head(rh.todo)
           m == rh.txn
<1>1. /\ rh.todo # << >> /\ rh.busy
      /\ UNCHANGED nextId
  BY DEF RunHelperApply
<1>2. CASE buffering /\ ~rh.force /\ opInfo[o].write
  <2>1. CASE ~HasConflict(o)
    <3>1. /\ buf' = [buf EXCEPT ![m] = @ \cup {o}]
          /\ rh' = [rh EXCEPT !.todo = Tail(@)]
          /\ UNCHANGED <<batches, dropped>>
      BY <1>2, <2>1, Zenon DEF RunHelperApply
    <3>. QED  BY <1>1, <3>1, BufferAcc
  <2>2. CASE HasConflict(o)
    <3>1. PICK res \in BOOLEAN :
            /\ SyncFlush({m}, res)
            /\ IF res
                 THEN /\ buf' = [FlushedBuf({m}) EXCEPT ![m] = {o}]
                      /\ rh' = [rh EXCEPT !.todo = Tail(@)]
                      /\ UNCHANGED dropped
                 ELSE /\ buf' = FlushedBuf({m})
                      /\ rh' = IdleHelper
                      /\ dropped' = dropped \cup rh.sent \cup SeqElems(rh.todo)
      BY <1>2, <2>2, Zenon DEF RunHelperApply
    <3>2. CASE res
      <4>1. /\ buf' = [FlushedBuf({m}) EXCEPT ![m] = {o}]
            /\ rh' = [rh EXCEPT !.todo = Tail(@)]
            /\ UNCHANGED dropped
        BY <3>1, <3>2, Zenon
      <4>. QED  BY <1>1, <3>1, <4>1, ConflictOkAcc
    <3>3. CASE ~res
      <4>1. /\ buf' = FlushedBuf({m})
            /\ rh' = IdleHelper
            /\ dropped' = dropped \cup rh.sent \cup SeqElems(rh.todo)
        BY <3>1, <3>3, Zenon
      <4>. QED  BY <1>1, <3>1, <4>1, ConflictFailAcc
    <3>. QED  BY <3>2, <3>3
  <2>. QED  BY <2>1, <2>2
<1>3. CASE ~(buffering /\ ~rh.force /\ opInfo[o].write)
  <2>1. /\ rh' = [rh EXCEPT !.todo = Tail(@), !.sent = @ \cup {o}]
        /\ UNCHANGED <<buf, batches, dropped>>
    BY <1>3, Zenon DEF RunHelperApply
  <2>. QED  BY <1>1, <2>1, DirectAcc
<1>. QED  BY <1>2, <1>3

-----------------------------------------------------------------------------
(* The invariant                                                            *)

LEMMA InitAcc == Init => AccInv
<1> SUFFICES ASSUME Init PROVE AccInv
  OBVIOUS
<1>1. /\ buf = [m \in Modes |-> {}] /\ dropped = {} /\ batches = << >>
      /\ nextId = 1 /\ rh = IdleHelper
  BY Zenon DEF Init
<1>2. Buffered = {} /\ buf[TRUE] = {} /\ buf[FALSE] = {}
  BY <1>1 DEF Buffered, Modes
<1>3. Held = {} /\ OpsOf(batches) = {} /\ DisjointOps(batches) /\ Issued = {}
  BY <1>1, <1>2 DEF Held, IdleHelper, SeqElems, OpsOf, DisjointOps, Issued
<1>4. rh.todo = << >> /\ rh.sent = {}
  BY <1>1 DEF IdleHelper
<1>5. TodoDistinct /\ IdleEmpty
  BY <1>4 DEF TodoDistinct, Distinct, IdleEmpty
<1>6. PlacesDisjoint /\ Accounted
  BY <1>2, <1>3, <1>4, <1>1 DEF PlacesDisjoint, Accounted, Held, SeqElems
<1>. QED  BY <1>5, <1>6 DEF AccInv

LEMMA InitAInv == Init => AInv
BY InitBInv, InitAcc DEF AInv

\* Every step keeps AInv: BInv by NextBInv, the accounting one action at a
\* time.
LEMMA NextAInv == AInv /\ [Next]_vars => AInv'
<1> SUFFICES ASSUME AInv, [Next]_vars PROVE AInv'
  OBVIOUS
<1>1. BInv'
  BY NextBInv DEF AInv
<1>2. TypeOK /\ BufInv /\ AccInv
  BY DEF AInv, BInv, IInv
<1>3. AccInv'
  <2>1. CASE StartOperationsBuffering \/ ResetOperationsBuffering \/ GetStatus
    BY <1>2, <2>1, CallerFrameStep
  <2>2. CASE StopOperationsBuffering
    BY <1>2, <2>2, StopAcc
  <2>3. CASE FlushBufferedOperations
    BY <1>2, <2>3, FlushAcc
  <2>4. CASE DropBufferedOperations
    BY <1>2, <2>4, DropAcc
  <2>5. CASE RunAsync
    BY <1>2, <2>5, RunAsyncAcc
  <2>6. CASE RunHelperApply
    BY <1>2, <2>6, ApplyAcc
  <2>7. CASE RunHelperFlush
    BY <1>2, <2>7, HelperFlushAcc
  <2>8. CASE AdapterComplete
    BY <1>2, <2>8, CompleteAcc
  <2>9. CASE UNCHANGED vars
    <3>1. UNCHANGED <<buf, dropped, nextId, rh, batches>>
      BY <2>9 DEF vars
    <3>. QED  BY <1>2, <3>1, AccFrame DEF AccInv, Accounted
  <2>. QED  BY <2>1, <2>2, <2>3, <2>4, <2>5, <2>6, <2>7, <2>8, <2>9 DEF Next
<1>. QED  BY <1>1, <1>3 DEF AInv

LEMMA AInvInvariant == Spec => []AInv
BY InitAInv, NextAInv, PTL DEF Spec

\* Five sets, each disjoint from those after it, are pairwise disjoint
\* when put in a tuple.
LEMMA FiveDisjoint ==
  ASSUME NEW A, NEW B, NEW C, NEW D, NEW E,
         A \cap (B \cup C \cup D \cup E) = {}, B \cap (C \cup D \cup E) = {},
         (C \cup D) \cap E = {}, C \cap D = {}
  PROVE  \A p, q \in 1..5 :
           p # q => << A, B, C, D, E >>[p] \cap << A, B, C, D, E >>[q] = {}
<1> SUFFICES ASSUME NEW p \in 1..5, NEW q \in 1..5, p # q
             PROVE << A, B, C, D, E >>[p] \cap << A, B, C, D, E >>[q] = {}
  OBVIOUS
<1>1. p \in {1, 2, 3, 4, 5} /\ q \in {1, 2, 3, 4, 5}
  OBVIOUS
<1>. QED  BY <1>1

\* The five places of OpsAccountedOnce, in its order.
Places == << SeqElems(rh.todo), rh.sent, buf[TRUE], buf[FALSE], dropped >>

\* The accounting, stated with sets, gives OpsAccountedOnce with its five
\* indexed places.
LEMMA AccountedOnce == AccInv => OpsAccountedOnce
<1> SUFFICES ASSUME AccInv PROVE OpsAccountedOnce
  OBVIOUS
<1>0. /\ Places[1] = SeqElems(rh.todo) /\ Places[2] = rh.sent
      /\ Places[3] = buf[TRUE] /\ Places[4] = buf[FALSE]
      /\ Places[5] = dropped
  BY DEF Places
<1>1. \A p \in 1..5 : Places[p] \subseteq Held
  <2> SUFFICES ASSUME NEW p \in 1..5 PROVE Places[p] \subseteq Held
    OBVIOUS
  <2>1. p = 1 \/ p = 2 \/ p = 3 \/ p = 4 \/ p = 5
    OBVIOUS
  <2>. QED  BY <1>0, <2>1 DEF Held, Buffered
<1>2. Held \subseteq UNION {Places[p] : p \in 1..5}
  <2>1. {1, 2, 3, 4, 5} \subseteq 1..5
    OBVIOUS
  <2>. QED  BY <1>0, <2>1 DEF Held, Buffered
<1>3. \A o \in 1..(nextId - 1) :
        \/ \E p \in 1..5 : o \in Places[p]
        \/ \E i \in 1..Len(batches) : o \in batches[i].ops
  BY <1>2 DEF AccInv, Accounted, Issued, OpsOf
<1>4. \A p, q \in 1..5 : p # q => Places[p] \cap Places[q] = {}
  <2>1. /\ SeqElems(rh.todo) \cap (rh.sent \cup buf[TRUE] \cup buf[FALSE] \cup dropped) = {}
        /\ rh.sent \cap (buf[TRUE] \cup buf[FALSE] \cup dropped) = {}
        /\ (buf[TRUE] \cup buf[FALSE]) \cap dropped = {}
        /\ buf[TRUE] \cap buf[FALSE] = {}
    BY DEF AccInv, PlacesDisjoint, Buffered
  <2>. QED  BY <2>1, FiveDisjoint DEF Places
<1>5. \A i \in 1..Len(batches) :
        /\ \A p \in 1..5 : Places[p] \cap batches[i].ops = {}
        /\ \A j \in 1..Len(batches) :
             i # j => batches[i].ops \cap batches[j].ops = {}
  <2>1. \A i \in 1..Len(batches) : batches[i].ops \subseteq OpsOf(batches)
    BY DEF OpsOf
  <2>. QED  BY <1>1, <2>1 DEF AccInv, Accounted, DisjointOps
<1>6. Places = << SeqElems(rh.todo), rh.sent, buf[TRUE], buf[FALSE], dropped >>
  BY DEF Places
<1>. QED  BY <1>3, <1>4, <1>5, <1>6 DEF OpsAccountedOnce

\* Every operation handed to RunAsync is, in every reachable state, in
\* exactly one place: in the RunHelper's list or session, in one of the two
\* buffers, in exactly one adapter call, or discarded by a drop or a failed
\* conflict flush.  Nothing is sent twice and nothing vanishes, whatever
\* Apply, the flushes, Drop and the adapter's completions interleave.
THEOREM OpsAlwaysAccountedOnce == Spec => []OpsAccountedOnce
<1>1. AInv => OpsAccountedOnce
  BY AccountedOnce DEF AInv
<1>. QED  BY AInvInvariant, <1>1, PTL
=============================================================================
