-------------------------- MODULE CoachingCalendar --------------------------
(***************************************************************************)
(* What the calendar shows of coachings: the events that get_coachings     *)
(* makes of slots and offered coachings and get_events filters, for every  *)
(* user in every state of CoachingSlots.                                   *)
(*                                                                         *)
(* A view is taken at one moment.  The code reads the coachings, the slots *)
(* and the emergency cancellations one after the other; what it shows is   *)
(* as old as its first read then.  get_userinfo is taken to answer.        *)
(***************************************************************************)
EXTENDS CoachingSlots

ListedAhead(s) == slot[s] # NoRow /\ NotStarted(s)
\* Slot.end > utcnow()
Listed(s) == slot[s] # NoRow /\ phase[s] # Over

\* The coachings a user offers and is shown with: the level is looked up here
\* with the comparison the right way round.
Shown(u) == {k \in Skills : coaching[<<u, k>>] # None
                            /\ (<<u, k>> \in Qualified \/ u \in Admins)}

\* Every event of an instructor with an emergency_cancel row costs nothing.
Price(u, coins) == IF u \in emergency THEN 0 ELSE coins

BookedEvents(u) ==
  {[id |-> s, skill |-> slot[s].skill_id,
    price |-> Price(slot[s].owner, slot[s].student_coins),
    booked |-> TRUE, bookable |-> FALSE,
    student |-> IF u \in Admins \cup {slot[s].owner, slot[s].booked_by}
                THEN slot[s].booked_by ELSE None]
     : s \in {s \in Slots : Listed(s) /\ Booked(slot[s])}}

Unbooked(s) == Listed(s) /\ ~Booked(slot[s])

FreeEvents(u) ==
  UNION {{[id |-> s, skill |-> k,
           price |-> Price(slot[s].owner, coaching[<<slot[s].owner, k>>]),
           booked |-> FALSE, bookable |-> u # slot[s].owner, student |-> None]
            : k \in Shown(slot[s].owner)} : s \in {s \in Slots : Unbooked(s)}}

Calendar(u) == BookedEvents(u) \cup FreeEvents(u)

\* get_events(booked=True) and get_events(bookable=True)
BookedOnly(u) == {e \in Calendar(u) : e.booked}
BookableOnly(u) == {e \in Calendar(u) : e.bookable}

-----------------------------------------------------------------------------
\* As long as the owner's slots are worked on by one request at a time: a
\* booking that was made, not cancelled and is not over is in the calendars of
\* its student and its instructor as booked, with the student's name and, unless
\* an emergency cancellation makes all the instructor's events look free, at the
\* price that was agreed; nobody is offered it any more, and nobody else but an
\* administrator is told whose it is.
Parties(b) == {req[b].user, req[b].seen.owner}

BookingShown ==
  \A b \in Bookings :
    req[b].seen.owner \notin contended /\ Cancels(b) = {} /\ phase[req[b].slot] # Over =>
      /\ \A u \in Parties(b) : \E e \in BookedOnly(u) :
           /\ e.id = req[b].slot /\ e.skill = req[b].skill /\ e.student = req[b].user
           /\ req[b].seen.owner \notin emergency => e.price = req[b].price
      /\ \A u \in Users :
           /\ \A e \in BookableOnly(u) : e.id # req[b].slot
           /\ \A e \in Calendar(u) : e.id = req[b].slot /\ e.student # None
                => u \in Parties(b) \cup Admins
============================================================================
