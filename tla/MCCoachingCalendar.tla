------------------------- MODULE MCCoachingCalendar -------------------------
(***************************************************************************)
(* Small instances of CoachingCalendar, and with it of CoachingSlots: lea  *)
(* offers slots and coachings, ann is a student, adm is an administrator,  *)
(* who may also offer and book.  Only adm's coachings are shown, since     *)
(* nobody has the level.                                                   *)
(***************************************************************************)
EXTENDS CoachingCalendar, CoachingLifecycle, TLC

CONSTANTS lea, ann, adm, s1, math, r1, r2, r3

\* Requests are made once each and differ in nothing but their name.
RequestSymmetry == Permutations(Requests)
============================================================================
