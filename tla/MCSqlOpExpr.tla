---------------------------- MODULE MCSqlOpExpr ----------------------------
(* Small instance of the expression model: two values so that a stale    *)
(* value differs from a fresh one, two ids, one condition object and one  *)
(* operand expression.                                                    *)
EXTENDS SqlOpExpr

CONSTANTS v1, v2, c1, e1

MCVals     == {v1, v2}
MCConds    == {c1}
MCIds      == {1, 2}
MCOperands == {e1}
=============================================================================
