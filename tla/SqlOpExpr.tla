----------------------------- MODULE SqlOpExpr -----------------------------
(***************************************************************************)
(* The expression object of the request model: SqlOpExpr and SqlOpCondition*)
(* in pggate/pg_op_api.h, and their raw-pointer twins DocExpr and          *)
(* DocCondition in pggate/k2docapi.h.                                      *)
(*                                                                         *)
(* An expression is a tag (type_) and four payload fields (value_, values_,*)
(* condition_, id_).  Each mutator overwrites the tag and one payload and  *)
(* leaves the other payloads as they are; the getters return a field       *)
(* whatever the tag.  The two classes differ only in the pointer kind:     *)
(* a std::shared_ptr member a constructor does not initialise is null, a   *)
(* raw pointer member is indeterminate (Garbage), and so is an int32_t or  *)
(* enum member in both classes.  DocExpr has no setType and isValueType.   *)
(*                                                                         *)
(* The ghost variable lastRead records the result of the last getter call, *)
(* so that the properties can talk about what a caller can read.          *)
(***************************************************************************)
EXTENDS Naturals, Sequences

CONSTANTS
    Vals,        \* SqlValue objects a caller can pass (model values)
    Conds,       \* SqlOpCondition objects (model values)
    Ids,         \* int32_t column, bind and alias ids
    Operands,    \* SqlOpExpr objects a condition can take as operands
    MaxList,     \* bound on values_ and operands_ lengths
    RawPointers, \* TRUE: DocExpr/DocCondition; FALSE: SqlOpExpr/SqlOpCondition
    HasSetType,  \* TRUE when the class has setType and isValueType
    Null,        \* the null pointer
    Garbage      \* an indeterminate (uninitialised) value

\* The constants the model is meant for (what the MC modules supply).
ExprConstantsOK ==
    /\ MaxList \in Nat
    /\ RawPointers \in BOOLEAN /\ HasSetType \in BOOLEAN
    /\ Null \notin Vals \cup Conds /\ Garbage \notin Vals \cup Conds \cup Ids
    /\ Null # Garbage

VARIABLES type_, value_, values_, condition_, id_, condOp, condOperands, lastRead

vars == <<type_, value_, values_, condition_, id_, condOp, condOperands, lastRead>>

\* enum class ExprType
ExprType == {"VALUE", "LIST_VALUES", "COLUMN_ID", "BIND_ID", "ALIAS_ID", "CONDITION"}

\* PgExpr::Opcode, abstracted to two codes
Opcodes == {"EQ", "AND"}

\* The ExprType tags whose payload is id_.
IdTags == {"COLUMN_ID", "BIND_ID", "ALIAS_ID"}

\* A std::shared_ptr member no initialiser names is default-constructed: null.
SharedPtrDefault == Null

\* A raw pointer member no initialiser names is left indeterminate.
RawPtrDefault == Garbage

PtrDefault == IF RawPointers THEN RawPtrDefault ELSE SharedPtrDefault

(***************************************************************************)
(* Constructors.  Every initial state is an expression just built by one   *)
(* of the four constructors; the conditions are default-constructed, so    *)
(* their op_ is indeterminate and their operand list empty.                *)
(***************************************************************************)
CondInit ==
    /\ condOp = [c \in Conds |-> Garbage]
    /\ condOperands = [c \in Conds |-> << >>]

\* SqlOpExpr(ExprType type, std::shared_ptr<SqlValue> value)
CtorValue(t, v) ==
    /\ type_ = t /\ value_ = v /\ values_ = << >>
    /\ condition_ = PtrDefault /\ id_ = Garbage

\* SqlOpExpr(ExprType type, int32_t id)
CtorId(t, i) ==
    /\ type_ = t /\ id_ = i /\ values_ = << >>
    /\ value_ = PtrDefault /\ condition_ = PtrDefault

\* SqlOpExpr(std::shared_ptr<SqlOpCondition> condition)
CtorCondition(c) ==
    /\ type_ = "CONDITION" /\ condition_ = c /\ values_ = << >>
    /\ value_ = PtrDefault /\ id_ = Garbage

\* SqlOpExpr()
CtorDefault ==
    /\ type_ = Garbage /\ values_ = << >>
    /\ value_ = PtrDefault /\ condition_ = PtrDefault /\ id_ = Garbage

Init ==
    /\ \/ \E t \in ExprType, v \in Vals : CtorValue(t, v)
       \/ \E t \in ExprType, i \in Ids : CtorId(t, i)
       \/ \E c \in Conds : CtorCondition(c)
       \/ CtorDefault
    /\ CondInit
    /\ lastRead = [fn |-> "none"]

(***************************************************************************)
(* Mutators: each sets the tag and one payload.                            *)
(***************************************************************************)
CondUnchanged == UNCHANGED <<condOp, condOperands, lastRead>>

setValue(v) ==
    /\ type_' = "VALUE" /\ value_' = v
    /\ UNCHANGED <<values_, condition_, id_>> /\ CondUnchanged

\* setColumnId, setBindId and setAliasId: the tag is the only difference.
setIdOfType(t, i) ==
    /\ type_' = t /\ id_' = i
    /\ UNCHANGED <<value_, values_, condition_>> /\ CondUnchanged

setColumnId(i) == setIdOfType("COLUMN_ID", i)
setBindId(i) == setIdOfType("BIND_ID", i)
setAliasId(i) == setIdOfType("ALIAS_ID", i)

setCondition(c) ==
    /\ type_' = "CONDITION" /\ condition_' = c
    /\ UNCHANGED <<value_, values_, id_>> /\ CondUnchanged

addListValue(v) ==
    /\ Len(values_) < MaxList
    /\ type_' = "LIST_VALUES" /\ values_' = Append(values_, v)
    /\ UNCHANGED <<value_, condition_, id_>> /\ CondUnchanged

setType(t) ==
    /\ HasSetType
    /\ type_' = t
    /\ UNCHANGED <<value_, values_, condition_, id_>> /\ CondUnchanged

\* SqlOpCondition::setOp and addOperand on the condition object c.
setOp(c, op) ==
    /\ condOp' = [condOp EXCEPT ![c] = op]
    /\ UNCHANGED <<type_, value_, values_, condition_, id_, condOperands, lastRead>>

addOperand(c, e) ==
    /\ Len(condOperands[c]) < MaxList
    /\ condOperands' = [condOperands EXCEPT ![c] = Append(@, e)]
    /\ UNCHANGED <<type_, value_, values_, condition_, id_, condOp, lastRead>>

(***************************************************************************)
(* Getters: each returns its field as it is, whatever the tag.             *)
(***************************************************************************)
Read(fn, val) ==
    /\ lastRead' = [fn |-> fn, tag |-> type_, val |-> val]
    /\ UNCHANGED <<type_, value_, values_, condition_, id_, condOp, condOperands>>

getType == Read("getType", type_)
isValueType == HasSetType /\ Read("isValueType", type_ = "VALUE")
getValue == Read("getValue", value_)
getId == Read("getId", id_)
getCondition == Read("getCondition", condition_)
getListValues == Read("getListValues", values_)
getOp(c) == Read("getOp", condOp[c])
getOperands(c) == Read("getOperands", condOperands[c])

Next ==
    \/ \E v \in Vals : setValue(v) \/ addListValue(v)
    \/ \E i \in Ids : setColumnId(i) \/ setBindId(i) \/ setAliasId(i)
    \/ \E c \in Conds : setCondition(c)
    \/ \E t \in ExprType : setType(t)
    \/ \E c \in Conds, op \in Opcodes : setOp(c, op)
    \/ \E c \in Conds, e \in Operands : addOperand(c, e)
    \/ getType \/ isValueType \/ getValue \/ getId \/ getCondition \/ getListValues
    \/ \E c \in Conds : getOp(c) \/ getOperands(c)

Spec == Init /\ [][Next]_vars

-----------------------------------------------------------------------------
\* Every field holds a value of its C++ type, or Null or Garbage where the
\* code can leave it so.
TypeOK ==
    /\ type_ \in ExprType \cup {Garbage}
    /\ value_ \in Vals \cup {Null, Garbage}
    /\ values_ \in Seq(Vals) /\ Len(values_) <= MaxList
    /\ condition_ \in Conds \cup {Null, Garbage}
    /\ id_ \in Ids \cup {Garbage}
    /\ condOp \in [Conds -> Opcodes \cup {Garbage}]
    /\ condOperands \in [Conds -> Seq(Operands)]

\* A caller that asks an expression for its value or its condition pointer
\* gets a pointer it may test against null: never an indeterminate one,
\* whichever constructor built the expression and whichever mutators ran.
PointerReadsDefined ==
    lastRead.fn \in {"getValue", "getCondition"} => lastRead.val # Garbage

\* Spec section 3: an expression is a closed tagged union; stale payloads
\* from a previous tag must never be readable.  A getter of a payload that
\* does not belong to the tag at the time of the call returns nothing.
StalePayloadUnreadable ==
    /\ lastRead.fn = "getValue" /\ lastRead.tag # "VALUE" => lastRead.val \notin Vals
    /\ lastRead.fn = "getId" /\ lastRead.tag \notin IdTags => lastRead.val \notin Ids
    /\ lastRead.fn = "getCondition" /\ lastRead.tag # "CONDITION" => lastRead.val \notin Conds
    /\ lastRead.fn = "getListValues" /\ lastRead.tag # "LIST_VALUES" => lastRead.val = << >>
=============================================================================
