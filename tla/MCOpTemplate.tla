---------------------------- MODULE MCOpTemplate ----------------------------
(* Small instance of the operation template: a read or a write template  *)
(* and a slot for its DeepCopy, two request contents so that a            *)
(* copy's mutation is distinguishable, and two dispatches so that a       *)
(* template is answered twice, or it and its copy once each.              *)
EXTENDS OpTemplate

CONSTANTS o1, o2, x1, x2

MCOps      == {o1, o2}
MCContents == {x1, x2}
=============================================================================
