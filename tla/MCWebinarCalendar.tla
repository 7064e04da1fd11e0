------------------------- MODULE MCWebinarCalendar -------------------------
(***************************************************************************)
(* Small instances of WebinarCalendar, and with it of Webinars.  lea gives *)
(* webinars and is rated so that price * seats may be 20 at most; ann      *)
(* takes part; adm is an administrator, who may also take part.            *)
(***************************************************************************)
EXTENDS WebinarCalendar, TLC

CONSTANTS lea, ann, adm, w1, r1, r2

LimitOfLea == [u \in Users |-> IF u = lea THEN 20 ELSE 0]

\* Requests are made once each and differ in nothing but their name, nor do
\* webinars before they are created.
RequestSymmetry == Permutations(Requests)
============================================================================
