------------------------- MODULE OpTemplate_proofs -------------------------
(***************************************************************************)
(* Proofs about the operation template of OpTemplate.tla, for every set of *)
(* templates and contents and every bound that TemplateAssumption allows.  *)
(*                                                                         *)
(* TypeOK is inductive as it stands: DeepCopy takes the request object     *)
(* nextReq only while nextReq <= MaxReqs, and Dispatch numbers its rows    *)
(* only while nDispatch < MaxDispatch.                                     *)
(***************************************************************************)
EXTENDS OpTemplate, TLAPS

-----------------------------------------------------------------------------
\* A fresh template: one live template with request 1, nothing dispatched.
LEMMA InitType == Init => TypeOK
<1> SUFFICES ASSUME Init PROVE TypeOK
  OBVIOUS
<1>1. (CHOOSE x \in Contents : TRUE) \in Contents
  BY TemplateAssumption
<1>. QED  BY <1>1, TemplateAssumption DEF Init, TypeOK, ReqIds, Subclasses,
                                           DefaultReturnPagingState

\* request(), a write through a held request, and the three flag setters
\* change one field of one template or request, within its type.
LEMMA SetterStep ==
  ASSUME TypeOK,
         \/ \E o \in Ops :
               \/ request(o)
               \/ \E b \in BOOLEAN : \/ set_return_paging_state(o, b)
                                    \/ set_active(o, b)
                                    \/ set_is_single_row_txn(o, b)
         \/ \E r \in held, x \in Contents : MutateRequest(r, x)
  PROVE  TypeOK'
BY DEF TypeOK, request, MutateRequest, set_return_paging_state, set_active,
       set_is_single_row_txn, Frozen

\* DeepCopy gives the copy the request object nextReq, which exists while
\* nextReq <= MaxReqs, and copies the original's request into it.
LEMMA DeepCopyStep ==
  ASSUME TypeOK, NEW o \in Ops, NEW n \in Ops, DeepCopy(o, n)
  PROVE  TypeOK'
<1>0. /\ live \subseteq Ops /\ FirstOp \in live
      /\ reqOf \in [Ops -> ReqIds \cup {Null}]
      /\ \A t \in live : reqOf[t] \in ReqIds
      /\ nextReq \in 2..MaxReqs + 1
  BY Zenon DEF TypeOK
<1>1. /\ o \in live /\ n \notin live /\ nextReq \in ReqIds
      /\ live' = live \cup {n}
      /\ reqOf' = [reqOf EXCEPT ![n] = nextReq]
      /\ nextReq' = nextReq + 1
  BY <1>0 DEF DeepCopy, ReqIds
<1>2. /\ live' \subseteq Ops /\ FirstOp \in live'
      /\ reqOf' \in [Ops -> ReqIds \cup {Null}]
      /\ \A t \in live' : reqOf'[t] \in ReqIds
  BY <1>0, <1>1
<1>3. nextReq' \in 2..MaxReqs + 1
  <2>1. nextReq <= MaxReqs
    BY DEF DeepCopy
  <2>. QED  BY <1>0, <1>1, <2>1, TemplateAssumption
<1>4. reqOf[o] \in ReqIds
  BY <1>0, <1>1
<1>5. reqContent' \in [ReqIds -> Contents]
  BY <1>1, <1>4 DEF TypeOK, DeepCopy
<1>6. retPaging' \in [ReqIds -> BOOLEAN]
  <2>1. retPaging[reqOf[o]] \in BOOLEAN
    BY <1>4 DEF TypeOK
  <2>2. retPaging' = [retPaging EXCEPT ![nextReq] = retPaging[reqOf[o]]]
    BY DEF DeepCopy
  <2>. QED  BY <1>1, <2>1, <2>2, Zenon DEF TypeOK
<1>7. active' \in [Ops -> BOOLEAN] /\ singleRow' \in [Ops -> BOOLEAN]
  BY <1>1 DEF TypeOK, DeepCopy
<1>8. UNCHANGED <<subclass, held, response, rows, nDispatch, extracted>>
  BY DEF DeepCopy, Frozen
<1>. QED  BY <1>2, <1>3, <1>5, <1>6, <1>7, <1>8 DEF TypeOK

\* A dispatch attaches a response and the rows of dispatch nDispatch + 1,
\* which is at most MaxDispatch.
LEMMA DispatchStep ==
  ASSUME TypeOK, NEW o \in Ops, Dispatch(o)
  PROVE  TypeOK'
<1>1. /\ rows' = [rows EXCEPT ![o] = {nDispatch + 1}]
      /\ nDispatch' = nDispatch + 1 /\ nDispatch < MaxDispatch
  BY DEF Dispatch, FillRows
<1>2. PICK resp \in Responses : response' = [response EXCEPT ![o] = resp]
  BY DEF Dispatch
<1>. QED  BY <1>1, <1>2, TemplateAssumption DEF TypeOK, Dispatch

\* succeeded() and applied() only record what they read.
LEMMA ReadStep ==
  ASSUME TypeOK, NEW o \in Ops, succeeded(o) \/ applied(o)
  PROVE  TypeOK'
BY DEF TypeOK, succeeded, applied, Reads

\* rows_data() either leaves rows_data_ as it is or empties it.
LEMMA RowsDataStep ==
  ASSUME TypeOK, NEW o \in Ops, NEW moves \in BOOLEAN, rows_data(o, moves)
  PROVE  TypeOK'
<1>1. rows' \in [Ops -> SUBSET (1..MaxDispatch)]
  BY Zenon DEF TypeOK, rows_data
<1>2. extracted' \in [Ops -> BOOLEAN]
  BY DEF TypeOK, rows_data
<1>. QED  BY <1>1, <1>2 DEF TypeOK, rows_data, Reads

\* Every step of the template keeps TypeOK.
LEMMA NextType == TypeOK /\ [Next]_vars => TypeOK'
<1> SUFFICES ASSUME TypeOK, [Next]_vars PROVE TypeOK'
  OBVIOUS
<1>1. CASE \E o \in Ops : Dispatch(o)
  BY <1>1, DispatchStep
<1>2. CASE \E o \in Ops : succeeded(o) \/ applied(o)
  BY <1>2, ReadStep
<1>3. CASE \E o \in Ops, b \in BOOLEAN : rows_data(o, b)
  BY <1>3, RowsDataStep
<1>4. CASE \E o, n \in Ops : DeepCopy(o, n)
  BY <1>4, DeepCopyStep
<1>5. CASE \/ \E o \in Ops :
              \/ request(o)
              \/ \E b \in BOOLEAN : \/ set_return_paging_state(o, b)
                                   \/ set_active(o, b)
                                   \/ set_is_single_row_txn(o, b)
           \/ \E r \in held, x \in Contents : MutateRequest(r, x)
  BY <1>5, SetterStep
<1>6. CASE UNCHANGED vars
  BY <1>6 DEF TypeOK, vars
<1>. QED  BY <1>1, <1>2, <1>3, <1>4, <1>5, <1>6, Zenon DEF Next

\* Every reachable template state is well-typed, for every value of the
\* constants TemplateAssumption allows: in particular every live template,
\* DeepCopies included, holds an allocated request object.
THEOREM TypeCorrect == Spec => []TypeOK
BY InitType, NextType, PTL DEF Spec
=============================================================================
