---------------------------- MODULE WeeklyRule ----------------------------
(***************************************************************************)
(* The calendar arithmetic of weekly slots.  An instant is a date and a    *)
(* time of day, as a datetime is: dates are days counted from a Monday,    *)
(* times of day are numbers that are only compared.  So a time with        *)
(* seconds, such as utcnow() has, is one that lies between two minutes.    *)
(***************************************************************************)
EXTENDS Integers

Instant == [day : Nat, time : Nat]
At(d, t) == [day |-> d, time |-> t]
weekday(i) == i.day % 7

Before(a, b) == a.day < b.day \/ (a.day = b.day /\ a.time < b.time)
UpTo(a, b) == Before(a, b) \/ a = b

\* datetime.replace(hour, minute, second=0, microsecond=0)
replace(i, t) == At(i.day, t)
\* datetime + timedelta(days=n)
plusDays(i, n) == At(i.day + n, i.time)

\* next_slot(start, weekday, t)
next_slot_never_today(start, wd, t) ==
  IF weekday(start) = wd
  THEN replace(plusDays(start, 7), t)
  ELSE replace(plusDays(start, (wd - weekday(start)) % 7), t)

next_slot(start, wd, t) ==
  IF t <= start.time /\ weekday(start) = wd
  THEN replace(plusDays(start, 7), t)
  ELSE replace(plusDays(start, (wd - weekday(start)) % 7), t)

\* The end of the slot that starts at i: the minutes from start to end, modulo
\* a day, later.  An end before the start is one of the next day, and an end
\* equal to the start makes a slot that ends when it starts.
slot_end(i, end) == IF end < i.time THEN At(i.day + 1, end) ELSE At(i.day, end)

\* What a rule asks for: the instants of its weekday and time.
Occurs(i, wd, t) == weekday(i) = wd /\ i.time = t
============================================================================
