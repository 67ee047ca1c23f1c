----------------------------- MODULE MCDocCall -----------------------------
(* Small instance of DocCall: the templates, contents and bounds of       *)
(* MCOpTemplate.                                                          *)
EXTENDS DocCall

CONSTANTS o1, o2, x1, x2

MCOps      == {o1, o2}
MCContents == {x1, x2}
=============================================================================
