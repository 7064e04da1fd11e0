-------------------------- MODULE WebinarCalendar --------------------------
(***************************************************************************)
(* What the calendar and get_webinar_by_id show of webinars, for every     *)
(* user in every state of Webinars.  A view is taken at one moment.        *)
(***************************************************************************)
EXTENDS Webinars

ListedAhead(w) == webinar[w] # NoRow /\ phase[w] \in {Week, Days, Soon}
\* Webinar.end > utcnow()
Listed(w) == webinar[w] # NoRow /\ phase[w] # Over

\* booked: the user takes part or gives the webinar.
BookedBy(u, w) == u = webinar[w].creator \/ u \in joined[w]

NotStarted(w) == phase[w] \in {Week, Days, Soon}

BookableFor(u, w) == ~BookedBy(u, w) /\ NotStarted(w) /\ HasRoom(w)

\* get_webinar_by_id and the calendar say the same of a webinar; names, links
\* and the price, which the calendar shows as 0 while the instructor has an
\* emergency_cancel row, are left out.
ById(u, w) == [id |-> w, booked |-> BookedBy(u, w), bookable |-> BookableFor(u, w)]

Calendar(u) == {ById(u, w) : w \in {w \in Webinars : Listed(w)}}

-----------------------------------------------------------------------------
\* Whoever has registered and has not left sees the webinar as booked until it
\* is over or cancelled, and is not offered it again.
RegistrationShown ==
  \A r \in Requests :
    LET u == req[r].user w == req[r].webinar IN
    (req[r].pc = "joined" /\ webinar[w] # NoRow /\ phase[w] # Over
     /\ ~ \E q \in Requests : req[q].pc = "left" /\ req[q].user = u /\ req[q].webinar = w)
      => \E e \in Calendar(u) : e.id = w /\ e.booked /\ ~e.bookable
============================================================================
