-------------------------- MODULE MCCoachingSlots --------------------------
(***************************************************************************)
(* Small instances of CoachingSlots.  lea offers slots, ann is a student,  *)
(* adm is an administrator, who may also book.                             *)
(***************************************************************************)
EXTENDS CoachingSlots, TLC

CONSTANTS lea, ann, adm, s1, math, r1, r2

\* Requests are made once each and differ in nothing but their name.
RequestSymmetry == Permutations(Requests)
============================================================================
