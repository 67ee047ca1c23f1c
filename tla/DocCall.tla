------------------------------ MODULE DocCall ------------------------------
(***************************************************************************)
(* DocCall, DocReadCall and DocWriteCall of pggate/k2docapi.h, with the    *)
(* DocResponse the adapter attaches.                                       *)
(*                                                                         *)
(* They have the members and inline methods of PgOpTemplate and its two    *)
(* subclasses, and each method is the OpTemplate operation of the same     *)
(* body.  Two differences remain:                                          *)
(*   - request() returns a reference into the call's unique_ptr, const for *)
(*     DocWriteCall: the caller can write a request only of a read call;   *)
(*   - there is no mutable_rows_data(): rows_data_ is filled by the        *)
(*     adapter (Dispatch), which is not in the repository.                 *)
(* DocResponse, like SqlOpResponse, defaults status to OK and leaves       *)
(* skipped without an initialiser.                                         *)
(***************************************************************************)
EXTENDS Naturals, FiniteSets

CONSTANTS Ops, FirstOp, Contents, MaxReqs, MaxDispatch, Null, Garbage

VARIABLES subclass, live, reqOf, reqContent, retPaging, held, nextReq, response, rows,
          active, singleRow, nDispatch, extracted, lastRead

vars == <<subclass, live, reqOf, reqContent, retPaging, held, nextReq, response, rows,
          active, singleRow, nDispatch, extracted, lastRead>>

T == INSTANCE OpTemplate

\* A DocReadCall or a DocWriteCall, active, with an empty response slot.
Init == T!Init

\* request(): a reference to the call's request.
request(o) == T!request(o)

\* A write through the DocReadRequest& of a read call; DocWriteCall hands
\* out a const DocWriteRequest&, through which no field can be written.
MutateRequest(r, x) == subclass = "READ" /\ T!MutateRequest(r, x)

set_return_paging_state(o, b) == T!set_return_paging_state(o, b)
set_active(o, b) == T!set_active(o, b)
set_is_single_row_txn(o, b) == T!set_is_single_row_txn(o, b)
DeepCopy(o, n) == T!DeepCopy(o, n)

\* DocResponse: status defaults to PGSQL_STATUS_OK (the five error codes
\* abstracted to one); skipped has no initialiser, so it is Garbage unless
\* the producer assigns it.  The other members are data no method reads.
DocResponses == [status : T!Statuses, skipped : BOOLEAN \cup {Garbage}]

\* The adapter answers a dispatch of o with a DocResponse and new rows.
Dispatch(o) == T!Dispatch(o) /\ response'[o] \in DocResponses
succeeded(o) == T!succeeded(o)
applied(o) == T!applied(o)
rows_data(o, moves) == T!rows_data(o, moves)

Next ==
    \/ \E o \in Ops :
          \/ request(o) \/ Dispatch(o) \/ succeeded(o) \/ applied(o)
          \/ \E b \in BOOLEAN : set_return_paging_state(o, b) \/ set_active(o, b)
                                \/ set_is_single_row_txn(o, b) \/ rows_data(o, b)
          \/ \E n \in Ops : DeepCopy(o, n)
    \/ \E r \in held, x \in Contents : MutateRequest(r, x)

Spec == Init /\ [][Next]_vars

-----------------------------------------------------------------------------
\* DocCall::applied() on a response with status OK is decided by a skipped
\* flag the producer of the DocResponse set.
AppliedReadsDefinedSkipped == T!AppliedReadsDefinedSkipped
=============================================================================
