----------------------------- MODULE MCSessions -----------------------------
(***************************************************************************)
(* A small instance of Sessions: fewer connections than tasks.             *)
(***************************************************************************)
EXTENDS Sessions

CONSTANTS r1, r2, loop
============================================================================
