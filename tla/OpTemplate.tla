---------------------------- MODULE OpTemplate ----------------------------
(***************************************************************************)
(* The operation template of pggate/pg_op_api.h (PgOpTemplate and its read *)
(* and write subclasses; DocCall in pggate/k2docapi.h is the same object). *)
(*                                                                         *)
(* A template holds a request, reached by the caller through the          *)
(* shared_ptr request() returns, a response_ the adapter attaches on each  *)
(* dispatch, the rows_data_ buffer the adapter fills through              *)
(* mutable_rows_data(), and the is_active_ / is_single_row_txn_ flags.     *)
(* DeepCopy builds a new template from an old one.                         *)
(*                                                                         *)
(* The adapter that fills response_ and rows_data_ is not in the           *)
(* repository; Dispatch follows spec section 4.2 and leaves open whether the *)
(* producer sets the response's skipped flag, which SqlOpResponse does not *)
(* initialise.  rows_data() returns an rvalue reference: the buffer is     *)
(* emptied only when the caller move-constructs from it, so each call     *)
(* chooses whether it moves.                                               *)
(***************************************************************************)
EXTENDS Naturals, FiniteSets

CONSTANTS
    Ops,          \* template objects (model values)
    FirstOp,      \* the template the statement layer built
    Contents,     \* abstract request contents
    MaxReqs,      \* bound on request objects allocated
    MaxDispatch,  \* bound on dispatches
    Null, Garbage

ASSUME TemplateAssumption ==
    /\ FirstOp \in Ops
    /\ Contents # {}
    /\ MaxReqs \in Nat \ {0} /\ MaxDispatch \in Nat
    /\ Null # Garbage

VARIABLES
    subclass,    \* PgReadOpTemplate or PgWriteOpTemplate: the first template's
                 \* subclass, which its DeepCopies share
    live,        \* templates that exist
    reqOf,       \* write_request_ / read_request_: the request object of a template
    reqContent,  \* the content of each request object
    retPaging,   \* return_paging_state of each request object
    held,        \* request objects the caller holds a shared_ptr to
    nextReq,     \* the next request object to allocate
    response,    \* response_: Null or [status, skipped]
    rows,        \* rows_data_: the set of dispatch numbers whose rows it holds
    active,      \* is_active_
    singleRow,   \* is_single_row_txn_
    nDispatch,   \* dispatches so far (ghost numbering)
    extracted,   \* rows_data() was called since the latest dispatch (ghost)
    lastRead     \* the result of the last accessor call (ghost)

vars == <<subclass, live, reqOf, reqContent, retPaging, held, nextReq, response, rows,
          active, singleRow, nDispatch, extracted, lastRead>>

ReqIds == 1..MaxReqs

\* SqlOpResponse::RequestStatus, abstracted to OK and one error code.
Statuses == {"OK", "RUNTIME_ERROR"}

\* A SqlOpResponse as its producer leaves it: status defaults to OK; skipped
\* has no initialiser, so it is Garbage unless the producer assigns it.
Responses == [status : Statuses, skipped : BOOLEAN \cup {Garbage}]

\* What the caller sees reading an indeterminate bool: either value.
BoolRead(b) == IF b = Garbage THEN BOOLEAN ELSE {b}

\* PgOpTemplate::Type: the two subclasses.
Subclasses == {"READ", "WRITE"}

\* SqlOpReadRequest() = default: return_paging_state = false.
DefaultReturnPagingState == FALSE

Init ==
    /\ subclass \in Subclasses
    /\ live = {FirstOp}
    /\ reqOf = [o \in Ops |-> IF o = FirstOp THEN 1 ELSE Null]
    /\ reqContent = [r \in ReqIds |-> CHOOSE x \in Contents : TRUE]
    /\ retPaging = [r \in ReqIds |-> DefaultReturnPagingState]
    /\ held = {}
    /\ nextReq = 2
    /\ response = [o \in Ops |-> Null]
    /\ rows = [o \in Ops |-> {}]
    /\ active = [o \in Ops |-> TRUE]
    /\ singleRow = [o \in Ops |-> FALSE]
    /\ nDispatch = 0
    /\ extracted = [o \in Ops |-> FALSE]
    /\ lastRead = [fn |-> "none"]

Frozen == UNCHANGED <<subclass, nDispatch, extracted, lastRead>>

\* request(): the caller receives a shared_ptr to the template's request.
request(o) ==
    /\ o \in live
    /\ held' = held \cup {reqOf[o]}
    /\ UNCHANGED <<live, reqOf, reqContent, retPaging, nextReq, response, rows,
                   active, singleRow>> /\ Frozen

\* The caller writes a field of a request through a shared_ptr it holds.
MutateRequest(r, x) ==
    /\ r \in held
    /\ reqContent' = [reqContent EXCEPT ![r] = x]
    /\ UNCHANGED <<live, reqOf, retPaging, held, nextReq, response, rows,
                   active, singleRow>> /\ Frozen

\* PgReadOpTemplate::set_return_paging_state writes into the request.
set_return_paging_state(o, b) ==
    /\ o \in live /\ subclass = "READ"
    /\ retPaging' = [retPaging EXCEPT ![reqOf[o]] = b]
    /\ UNCHANGED <<live, reqOf, reqContent, held, nextReq, response, rows,
                   active, singleRow>> /\ Frozen

set_active(o, b) ==
    /\ o \in live
    /\ active' = [active EXCEPT ![o] = b]
    /\ UNCHANGED <<live, reqOf, reqContent, retPaging, held, nextReq, response,
                   rows, singleRow>> /\ Frozen

set_is_single_row_txn(o, b) ==
    /\ o \in live /\ subclass = "WRITE"
    /\ singleRow' = [singleRow EXCEPT ![o] = b]
    /\ UNCHANGED <<live, reqOf, reqContent, retPaging, held, nextReq, response,
                   rows, active>> /\ Frozen

\* Mutation variant: the copy's request pointer is never allocated.
DeepCopyNoRequest(o, n) ==
    /\ o \in live /\ n \notin live
    /\ live' = live \cup {n}
    /\ active' = [active EXCEPT ![n] = active[o]]
    /\ singleRow' = [singleRow EXCEPT ![n] = singleRow[o]]
    /\ UNCHANGED <<reqOf, reqContent, retPaging, held, nextReq, response, rows>> /\ Frozen

\* DeepCopy (declared in PgWriteOpTemplate and PgReadOpTemplate; its comment
\* is the contract): a new template of the same subclass with a new request
\* holding the same content, the same flags, and no response or rows.
DeepCopy(o, n) ==
    /\ o \in live /\ n \notin live
    /\ nextReq <= MaxReqs
    /\ live' = live \cup {n}
    /\ reqOf' = [reqOf EXCEPT ![n] = nextReq]
    /\ reqContent' = [reqContent EXCEPT ![nextReq] = reqContent[reqOf[o]]]
    /\ retPaging' = [retPaging EXCEPT ![nextReq] = retPaging[reqOf[o]]]
    /\ nextReq' = nextReq + 1
    /\ active' = [active EXCEPT ![n] = active[o]]
    /\ singleRow' = [singleRow EXCEPT ![n] = singleRow[o]]
    /\ UNCHANGED <<held, response, rows>> /\ Frozen

\* The producer (the adapter, not in the repository) writes the rows of
\* dispatch d through the pointer mutable_rows_data() returns; spec section
\* 4.2 has it replace the buffer.
FillRows(o, d) == rows' = [rows EXCEPT ![o] = {d}]

\* The adapter answers a dispatch of o: a new response_ and new rows.
Dispatch(o) ==
    /\ o \in live /\ nDispatch < MaxDispatch
    /\ \E resp \in Responses : response' = [response EXCEPT ![o] = resp]
    /\ FillRows(o, nDispatch + 1)
    /\ nDispatch' = nDispatch + 1
    /\ extracted' = [extracted EXCEPT ![o] = FALSE]
    /\ UNCHANGED <<subclass, live, reqOf, reqContent, retPaging, held, nextReq,
                   active, singleRow, lastRead>>

Reads == UNCHANGED <<subclass, live, reqOf, reqContent, retPaging, held, nextReq, response,
                     active, singleRow, nDispatch>>

succeeded(o) ==
    /\ o \in live /\ response[o] # Null
    /\ lastRead' = [fn |-> "succeeded", val |-> response[o].status = "OK",
                    status |-> response[o].status, skipped |-> response[o].skipped]
    /\ UNCHANGED <<rows, extracted>> /\ Reads

\* applied(): succeeded() && !response_->skipped.  The && short-circuits, so
\* skipped is read only when the status is OK.
AppliedValue(resp) ==
    IF resp.status = "OK" THEN {~b : b \in BoolRead(resp.skipped)} ELSE {FALSE}

applied(o) ==
    /\ o \in live /\ response[o] # Null
    /\ \E v \in AppliedValue(response[o]) :
          lastRead' = [fn |-> "applied", val |-> v,
                       status |-> response[o].status, skipped |-> response[o].skipped]
    /\ UNCHANGED <<rows, extracted>> /\ Reads

\* rows_data(): std::move(rows_data_) as an rvalue reference; the buffer is
\* emptied only if the caller moves from it.
rows_data(o, moves) ==
    /\ o \in live
    /\ lastRead' = [fn |-> "rows_data", val |-> rows[o], again |-> extracted[o]]
    /\ rows' = [rows EXCEPT ![o] = IF moves THEN {} ELSE @]
    /\ extracted' = [extracted EXCEPT ![o] = TRUE]
    /\ Reads

Next ==
    \/ \E o \in Ops :
          \/ request(o) \/ Dispatch(o) \/ succeeded(o) \/ applied(o)
          \/ \E b \in BOOLEAN : set_return_paging_state(o, b) \/ set_active(o, b)
                                \/ set_is_single_row_txn(o, b) \/ rows_data(o, b)
          \/ \E n \in Ops : DeepCopy(o, n)
    \/ \E r \in held, x \in Contents : MutateRequest(r, x)

Spec == Init /\ [][Next]_vars

-----------------------------------------------------------------------------
\* Every field holds a value of its type.
TypeOK ==
    /\ subclass \in Subclasses
    /\ live \subseteq Ops /\ FirstOp \in live
    /\ reqOf \in [Ops -> ReqIds \cup {Null}]
    /\ \A o \in live : reqOf[o] \in ReqIds
    /\ reqContent \in [ReqIds -> Contents] /\ retPaging \in [ReqIds -> BOOLEAN]
    /\ held \subseteq ReqIds /\ nextReq \in 2..MaxReqs + 1
    /\ response \in [Ops -> Responses \cup {Null}]
    /\ rows \in [Ops -> SUBSET (1..MaxDispatch)]
    /\ active \in [Ops -> BOOLEAN] /\ singleRow \in [Ops -> BOOLEAN]
    /\ nDispatch \in 0..MaxDispatch
    /\ extracted \in [Ops -> BOOLEAN]

\* Spec section 4.2: once a response is attached the row payload is
\* extractable exactly once; a later rows_data() observes it empty.
RowsExtractedOnce ==
    lastRead.fn = "rows_data" /\ lastRead.again => lastRead.val = {}

\* Spec section 3 and the round trip of section 8: applied() on a response
\* with status OK is decided by a skipped flag its producer set.
AppliedReadsDefinedSkipped ==
    lastRead.fn = "applied" /\ lastRead.status = "OK" => lastRead.skipped \in BOOLEAN
=============================================================================
