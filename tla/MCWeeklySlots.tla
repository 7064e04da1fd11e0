--------------------------- MODULE MCWeeklySlots ---------------------------
(***************************************************************************)
(* Small instances of WeeklySlots: a horizon of 8 days, so that a rule has *)
(* one or two slots ahead.  The rule is one of Tuesday at time 1, ending   *)
(* at 2, and the model starts with a Monday at 0: a rule that is added at  *)
(* time 1 of it has a slot exactly at the horizon, and one that is added   *)
(* on Tuesday at 0 has its first slot on the same day.                     *)
(***************************************************************************)
EXTENDS WeeklySlots, TLC

CONSTANTS tue, r1, r2

WeekdayOf == [w \in Rules |-> 1]
StartOf   == [w \in Rules |-> 1]
EndOf     == [w \in Rules |-> 2]

\* Before a slot, during the same day, and after two weeks of downtime, at the end
\* of a slot.
ClockOf == {At(0, 1), At(1, 0), At(15, 2)}
============================================================================
