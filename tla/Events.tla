------------------------------- MODULE Events -------------------------------
(***************************************************************************)
(* Coachings and webinars together: CoachingSlots and Webinars over one    *)
(* table of emergency cancellations and one process.  An instructor who    *)
(* cancels a webinar gives the next coaching away for free, and one who    *)
(* cancels a coaching all registrations of a webinar; the settlement of a  *)
(* webinar ends either.                                                    *)
(*                                                                         *)
(* cleanup_loop runs clean_old_webinars and then clean_old_slots in one    *)
(* try: an exception of the first leaves the second out until the next     *)
(* round, five minutes later, which begins with the webinars again.        *)
(***************************************************************************)
EXTENDS Integers, FiniteSets

CONSTANTS
  Users, Admins, Lecturers, Slots, Webinars, Skills, Prices, Seats, Limit,
  SlotRequests, WebinarRequests, FeePercent, MaxFailures, None, NoRow,
  Qualified, Starts,
  MaxRequests          \* bound on the requests of both kinds together

\* A request is one handler's, of a coaching or of a webinar.
ASSUME EventsAssumption == SlotRequests \cap WebinarRequests = {}

VARIABLES
  emergency, failures,                             \* shared
  slot, coaching, slotPhase, slotReq, slotCleaner, slotPayouts, contended,
  webinar, joined, ratings, webinarPhase, webinarReq, webinarCleaner,
  webinarPayouts, balance, irregular,
  round                \* which call of its try block cleanup_loop is at

slotVars    == <<slot, coaching, slotPhase, slotReq, slotCleaner, slotPayouts, contended>>
webinarVars == <<webinar, joined, ratings, webinarPhase, webinarReq, webinarCleaner,
                 webinarPayouts, balance, irregular>>
vars == <<emergency, failures, slotVars, webinarVars, round>>

S == INSTANCE CoachingSlots WITH
  phase <- slotPhase, req <- slotReq, cleaner <- slotCleaner,
  payouts <- slotPayouts, Requests <- SlotRequests

W == INSTANCE Webinars WITH
  phase <- webinarPhase, req <- webinarReq, cleaner <- webinarCleaner,
  payouts <- webinarPayouts, Requests <- WebinarRequests

Init == S!Init /\ W!Init /\ round = "webinars"

(***************************************************************************)
(* Requests and time: a step of one side leaves the other alone.  Handlers *)
(* that touch nothing the sides share (deletions of slots and coachings,   *)
(* leaving a webinar and changing it) are left to the modules of a side.   *)
(***************************************************************************)
Made == Cardinality({r \in SlotRequests : slotReq[r].pc # "idle"})
        + Cardinality({r \in WebinarRequests : webinarReq[r].pc # "idle"})

\* Requests differ in nothing but their name: the next one is any unused one.
Unused(req) == LET idle == {r \in DOMAIN req : req[r].pc = "idle"}
               IN IF idle = {} THEN {} ELSE {CHOOSE r \in idle : TRUE}

SlotHandlers ==
  \/ \E u \in Lecturers, s \in Slots, ph \in Starts : S!AddSlot(u, s, ph)
  \/ \E u \in Lecturers, k \in Skills, p \in Prices : S!SetCoaching(u, k, p)
  \/ /\ Made < MaxRequests
     /\ \E r \in Unused(slotReq), u \in Users, s \in Slots :
          (\E k \in Skills : S!BookFindSlot(r, u, s, k)) \/ S!CancelFindSlot(r, u, s)

WebinarHandlers ==
  \/ W!Announce
  \/ /\ Made < MaxRequests
     /\ \E r \in Unused(webinarReq), u \in Users, w \in Webinars :
          W!Register(r, u, w) \/ W!CancelWebinar(r, u, w)

Handlers ==
  /\ \/ /\ SlotHandlers \/ \E s \in Slots : S!Tick(s)
        /\ UNCHANGED webinarVars
     \/ /\ WebinarHandlers \/ \E w \in Webinars : W!Tick(w)
        /\ UNCHANGED slotVars
  /\ UNCHANGED round

Continue ==
  /\ \/ (\E r \in SlotRequests : S!Continue(r)) /\ UNCHANGED webinarVars
     \/ (\E r \in WebinarRequests : W!Continue(r)) /\ UNCHANGED slotVars
  /\ UNCHANGED round

(***************************************************************************)
(* cleanup_loop                                                            *)
(***************************************************************************)
\* After clean_old_webinars: on to the slots, unless it raised, which shows in
\* its failure being counted.
AfterWebinars == IF failures' = failures THEN "slots" ELSE "webinars"

CleanWebinars ==
  /\ round = "webinars"
  /\ \/ W!Cleanup
     \/ /\ webinarCleaner.pc = "idle" /\ W!Ended = {}      \* no row found
        /\ UNCHANGED <<emergency, failures, webinarVars>>
  /\ round' = IF webinarCleaner'.pc = "idle" THEN AfterWebinars ELSE "webinars"
  /\ UNCHANGED slotVars

NoSlotOver == \A s \in Slots : slotPhase[s] = S!Over => slot[s] = NoRow

CleanSlots ==
  /\ round = "slots"
  /\ \/ S!Cleanup
     \/ /\ slotCleaner.pc = "idle" /\ NoSlotOver
        /\ UNCHANGED <<emergency, failures, slotVars>>
  /\ round' = IF slotCleaner'.pc = "idle" THEN "webinars" ELSE "slots"
  /\ UNCHANGED webinarVars

CleanupLoop == CleanWebinars \/ CleanSlots

Crash == S!Crash /\ W!Crash /\ round' = "webinars"

Next == Handlers \/ Continue \/ CleanupLoop \/ Crash

Spec == Init /\ [][Next]_vars

Fairness ==
  /\ \A r \in SlotRequests : WF_vars(S!Continue(r) /\ UNCHANGED <<webinarVars, round>>)
  /\ \A r \in WebinarRequests : WF_vars(W!Continue(r) /\ UNCHANGED <<slotVars, round>>)
  /\ \A s \in Slots : WF_vars(S!Tick(s) /\ UNCHANGED <<webinarVars, round>>)
  /\ \A w \in Webinars : WF_vars(W!Tick(w) /\ UNCHANGED <<slotVars, round>>)
  /\ WF_vars(CleanupLoop)

FairSpec == Spec /\ Fairness

-----------------------------------------------------------------------------
\* Cancellations by which u came to have an emergency_cancel row; a coaching
\* whose refund raised has stored the row all the same.
Grants(u) ==
  {r \in SlotRequests : slotReq[r].ec = "create" /\ slotReq[r].user = u
                        /\ slotReq[r].pc \in {"cancelled", "failed"}}
  \cup {r \in WebinarRequests : webinarReq[r].ec = "create"
                        /\ webinarReq[r].seen.creator = u
                        /\ webinarReq[r].pc = "cancelled"}

\* Whatever is free, a coaching or a webinar, is so because an event of the
\* same instructor, of either kind, was cancelled by the instructor or, if it
\* is a webinar, by an administrator.
FreeIsEarned ==
  /\ \A u \in emergency : Grants(u) # {}
  /\ \A r \in SlotRequests :
       slotReq[r].ec = "delete" => Grants(slotReq[r].seen.owner) # {}
  /\ \A r \in WebinarRequests :
       webinarReq[r].ec = "free" => Grants(webinarReq[r].seen.creator) # {}

\* While an instructor's slots are worked on by one request at a time, every
\* cancellation, of a slot or a webinar, makes at most one coaching free.
FreeCoachings(u) == {r \in SlotRequests : slotReq[r].pc = "booked"
                       /\ slotReq[r].ec = "delete" /\ slotReq[r].seen.owner = u}
OneFreeCoachingPerGrant ==
  \A u \in Users \ contended :
    Cardinality(FreeCoachings(u)) + Cardinality({u} \cap emergency)
      <= Cardinality(Grants(u))

\* Every slot and every webinar is removed in the end, the slots although each
\* exception in the settlement of a webinar puts them off.
EverythingEnds == S!EverySlotEnds /\ W!EveryWebinarEnds
============================================================================
