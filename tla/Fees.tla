------------------------------- MODULE Fees -------------------------------
(***************************************************************************)
(* The coin arithmetic of the events service: what an instructor gets of a *)
(* price, and what a cancelled booking gives back to the student and to    *)
(* the instructor.  settings.event_fee is a decimal fraction; it is a      *)
(* whole percentage here.  The code computes int(price * (1 - event_fee))  *)
(* in binary floating point, which for a few prices (90, 170, 180, ...) is *)
(* one coin below the exact floor that InstructorShare returns, and never  *)
(* further from it.                                                        *)
(***************************************************************************)
EXTENDS Integers

CONSTANT FeePercent     \* settings.event_fee, in percent

ASSUME FeeAssumption == FeePercent \in 0..100

(***************************************************************************)
(* The phases of an event, cut where the code's time comparisons change    *)
(* their answer: start at least 7 days away, at least 1 day, less than 1   *)
(* day, started, ended.                                                    *)
(***************************************************************************)
Unborn  == 0
Week    == 1
Days    == 2
Soon    == 3
Running == 4
Over    == 5
Phases  == Unborn..Over

\* int(price * (1 - settings.event_fee))
InstructorShare(price) == (price * (100 - FeePercent)) \div 100

\* A participant who cancels gets everything back a week before the start,
\* half of it a day before, and may not cancel later.
MayCancelAsStudent(phase) == phase \in {Week, Days}
StudentRefund(phase, paid) == IF phase = Week THEN paid ELSE paid \div 2

\* The instructor keeps half of the share when the student cancels late.
InstructorCompensation(phase, share) == IF phase = Week THEN 0 ELSE share \div 2
============================================================================
