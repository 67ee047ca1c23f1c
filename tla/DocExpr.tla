------------------------------ MODULE DocExpr ------------------------------
(***************************************************************************)
(* DocExpr and DocCondition of pggate/k2docapi.h.                          *)
(*                                                                         *)
(* They have the members, constructors and methods of SqlOpExpr and        *)
(* SqlOpCondition, with raw pointers to SqlValue and DocCondition in place *)
(* of std::shared_ptr, and without setType and isValueType.  Each method   *)
(* is the SqlOpExpr operation of the same body, taken from an instance of  *)
(* SqlOpExpr with RawPointers and without setType: a pointer member that   *)
(* a constructor does not name is indeterminate, like type_ and id_.       *)
(***************************************************************************)
EXTENDS Naturals, Sequences

CONSTANTS Vals, Conds, Ids, Operands, MaxList, Null, Garbage

VARIABLES type_, value_, values_, condition_, id_, condOp, condOperands, lastRead

vars == <<type_, value_, values_, condition_, id_, condOp, condOperands, lastRead>>

E == INSTANCE SqlOpExpr WITH RawPointers <- TRUE, HasSetType <- FALSE

\* The four DocExpr constructors; DocCondition() = default leaves op_
\* indeterminate.
Init == E!Init

setValue(v) == E!setValue(v)
setColumnId(i) == E!setColumnId(i)
setBindId(i) == E!setBindId(i)
setAliasId(i) == E!setAliasId(i)
setCondition(c) == E!setCondition(c)
addListValue(v) == E!addListValue(v)
getType == E!getType
getValue == E!getValue
getId == E!getId
getCondition == E!getCondition
getListValues == E!getListValues
setOp(c, op) == E!setOp(c, op)
getOp(c) == E!getOp(c)
addOperand(c, e) == E!addOperand(c, e)
getOperands(c) == E!getOperands(c)

Next ==
    \/ \E v \in Vals : setValue(v) \/ addListValue(v)
    \/ \E i \in Ids : setColumnId(i) \/ setBindId(i) \/ setAliasId(i)
    \/ \E c \in Conds : setCondition(c)
    \/ \E c \in Conds, op \in E!Opcodes : setOp(c, op)
    \/ \E c \in Conds, e \in Operands : addOperand(c, e)
    \/ getType \/ getValue \/ getId \/ getCondition \/ getListValues
    \/ \E c \in Conds : getOp(c) \/ getOperands(c)

Spec == Init /\ [][Next]_vars

-----------------------------------------------------------------------------
\* A caller that asks a DocExpr for its value or its condition pointer gets
\* a pointer it may test against null, whichever constructor built it.
PointerReadsDefined == E!PointerReadsDefined
=============================================================================
