----------------------------- MODULE MCSession -----------------------------
(* Finite instance of Session: two threads, the target and another one.     *)
EXTENDS Session

CONSTANTS target, other

MCOrder == <<other, target>>
=============================================================================
