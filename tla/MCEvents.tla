------------------------------ MODULE MCEvents ------------------------------
(***************************************************************************)
(* A small instance of Events: lea gives one webinar and offers one slot,  *)
(* ann takes part in both.                                                 *)
(***************************************************************************)
EXTENDS Events, TLC

CONSTANTS lea, ann, s1, w1, math, q1, q2, r1, r2

Enough == [u \in Users |-> 10]
============================================================================
