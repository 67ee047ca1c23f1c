----------------------------- MODULE MCDocExpr -----------------------------
(* Small instance of DocExpr: the values, ids, condition and operand of  *)
(* MCSqlOpExpr.                                                           *)
EXTENDS DocExpr

CONSTANTS v1, v2, c1, e1

MCVals     == {v1, v2}
MCConds    == {c1}
MCIds      == {1, 2}
MCOperands == {e1}
=============================================================================
