--------------------------- MODULE CoachingSlots ---------------------------
(***************************************************************************)
(* Coaching slots: an instructor offers slots and prices, students book    *)
(* them, students, instructors and administrators cancel, and a background *)
(* task pays the instructors and removes the slots that are over.          *)
(*                                                                         *)
(* Every HTTP request is a coroutine with a database session of its own.   *)
(* It reads rows, awaits the shop, and its writes reach the database when  *)
(* its session is committed after the handler has returned; between two    *)
(* awaits other requests and the cleanup task run.  So a handler is cut    *)
(* here at its database reads, its shop calls and its commit.  An early    *)
(* return that wrote nothing is the guard of an action, not a step.        *)
(*                                                                         *)
(* db_context() commits in a `finally`.  An HTTPException has rolled back  *)
(* before that, any other exception has not: a call to another service     *)
(* that raises leaves the writes made so far to be COMMITTED.              *)
(***************************************************************************)
EXTENDS Fees, FiniteSets

CONSTANTS
  Users, Admins,      \* accounts, and those with user.admin
  Lecturers,          \* the accounts that offer slots and coachings; the code
                      \* lets every account do so
  Slots,              \* events_slot.id (uuid4, never reused)
  Skills,
  Prices,             \* prices an instructor sets
  Qualified,          \* <<user, skill>> with level >= settings.coaching_level
  Requests,           \* HTTP requests, each made once
  MaxFailures,        \* bound on raising calls, refused commits and restarts
  None, NoRow

ASSUME CoachingAssumption ==
  /\ Admins \subseteq Users /\ Lecturers \subseteq Users
  /\ Prices \subseteq Nat
  /\ Qualified \subseteq Users \X Skills
  /\ MaxFailures \in Nat
  /\ None \notin Users \cup Slots \cup Skills \cup Requests \cup Nat

(***************************************************************************)
(* A row of events_slot.  booking is not a column: it is the request whose *)
(* commit wrote the booked_by now in the row.                              *)
(***************************************************************************)
Row == [owner : Users, booked_by : Users \cup {None},
        student_coins : Nat \cup {None}, instructor_coins : Nat \cup {None},
        skill_id : Skills \cup {None}, booking : Requests \cup {None}]

ASSUME NoRowAssumption == NoRow \notin Row

VARIABLES
  slot,        \* events_slot: Slots -> Row or NoRow
  coaching,    \* events_coachings: <<user, skill>> -> price or None
  emergency,   \* events_emergency_cancel: the users that have a row
  phase,       \* where "now" is relative to the slot's start and end
  req,         \* the coroutines of the requests
  cleaner,     \* the coroutine of clean_old_slots
  payouts,     \* booking -> add_coins(instructor_coins) calls the shop got
  contended,   \* owners whose slots two overlapping requests worked on
  failures

vars == <<slot, coaching, emergency, phase, req, cleaner, payouts, contended,
          failures>>

Final == {"booked", "cancelled", "deleted", "rejected", "failed"}
InFlightPcs == {"find_coaching", "find_emergency", "spend", "commit_booking",
                "find_emergency_grant", "refund_student", "refund_instructor",
                "commit_cancel", "commit_delete"}

Request == [pc : {"idle"} \cup InFlightPcs \cup Final,
            user : Users \cup {None}, slot : Slots \cup {None},
            skill : Skills \cup {None},
            seen : Row \cup {NoRow},     \* the slot as this request read it
            at : Phases,                 \* the phase in which it read it
            price : Nat,                 \* coaching.price as read
            to_student : Nat, to_instructor : Nat,
            ec : {"keep", "create", "delete"},  \* pending EmergencyCancel write
            charged : Nat,               \* coins the shop took from the user
            refunded : Nat]              \* coins it gave back to the student

Cleaner == [pc : {"idle", "next", "pay", "xp"},
            rows : [Slots -> Row \cup {NoRow}],  \* result set of the cursor
            cur : Slots \cup {None},
            dels : SUBSET Slots]                 \* pending DELETEs

Booked(row) == row # NoRow /\ row.booked_by # None

FreshRow(u) == [owner |-> u, booked_by |-> None, student_coins |-> None,
                instructor_coins |-> None, skill_id |-> None, booking |-> None]

IdleRequest == [pc |-> "idle", user |-> None, slot |-> None, skill |-> None,
                seen |-> NoRow, at |-> Unborn, price |-> 0, to_student |-> 0,
                to_instructor |-> 0, ec |-> "keep", charged |-> 0, refunded |-> 0]

IdleCleaner == [pc |-> "idle", rows |-> [s \in Slots |-> NoRow],
                cur |-> None, dels |-> {}]

Init == /\ slot = [s \in Slots |-> NoRow]
        /\ coaching = [c \in Users \X Skills |-> None]
        /\ emergency = {}
        /\ phase = [s \in Slots |-> Unborn]
        /\ req = [r \in Requests |-> IdleRequest]
        /\ cleaner = IdleCleaner
        /\ payouts = [b \in Requests |-> 0]
        /\ contended = {}
        /\ failures = 0

InFlight(r) == req[r].pc \in InFlightPcs

\* The request of user u that has just read slot s.
Reading(u, s, pc) ==
  [IdleRequest EXCEPT !.pc = pc, !.user = u, !.slot = s,
                      !.seen = slot[s], !.at = phase[s]]

\* Request r, idle so far, becomes new; contended remembers the owner when
\* another request works on one of the owner's slots.
Start(r, new) ==
  /\ req[r].pc = "idle"
  /\ req' = [req EXCEPT ![r] = new]
  /\ contended' =
       IF \E q \in Requests : InFlight(q) /\ req[q].seen.owner = new.seen.owner
       THEN contended \cup {new.seen.owner} ELSE contended

\* A call raised: the coroutine ends and its session is committed.
Fail == failures < MaxFailures /\ failures' = failures + 1

(***************************************************************************)
(* Configuration: add_slots, set_coaching and delete_coaching.  Each       *)
(* writes rows that no other handler writes, so their awaits are not told  *)
(* apart.                                                                  *)
(***************************************************************************)
\* add_slots keeps only slots that start in the future.
AddSlot(u, s, ph) ==
  /\ phase[s] = Unborn
  /\ ph \in {Week, Days, Soon}
  /\ slot' = [slot EXCEPT ![s] = FreshRow(u)]
  /\ phase' = [phase EXCEPT ![s] = ph]
  /\ UNCHANGED <<coaching, emergency, req, cleaner, payouts, contended, failures>>

\* coachings.py:124 raises unless the level is BELOW settings.coaching_level.
SetCoaching(u, k, price) ==
  /\ u \in Admins \/ <<u, k>> \notin Qualified
  /\ coaching' = [coaching EXCEPT ![<<u, k>>] = price]
  /\ UNCHANGED <<slot, emergency, phase, req, cleaner, payouts, contended, failures>>

DeleteCoaching(u, k) ==
  /\ coaching[<<u, k>>] # None
  /\ coaching' = [coaching EXCEPT ![<<u, k>>] = None]
  /\ UNCHANGED <<slot, emergency, phase, req, cleaner, payouts, contended, failures>>

(***************************************************************************)
(* book_coaching                                                           *)
(***************************************************************************)
BookableIgnoringBooked(s) == slot[s] # NoRow /\ phase[s] \in {Week, Days}
BookableIgnoringStart(s) == slot[s] # NoRow /\ ~Booked(slot[s])

\* The query asks for booked_by = None, and start - now must be >= 1 day.
Bookable(s) ==
  /\ slot[s] # NoRow
  /\ ~Booked(slot[s])
  /\ phase[s] \in {Week, Days}

BookFindSlot(r, u, s, k) ==
  /\ Bookable(s)
  /\ slot[s].owner # u
  /\ Start(r, [Reading(u, s, "find_coaching") EXCEPT !.skill = k])
  /\ UNCHANGED <<slot, coaching, emergency, phase, cleaner, payouts, failures>>

\* The lookup names only the instructor: it returns one of their coachings,
\* whatever its skill.
BookFindCoaching(r) ==
  /\ req[r].pc = "find_coaching"
  /\ \E k \in Skills :
       /\ coaching[<<req[r].seen.owner, k>>] # None
       /\ req' = [req EXCEPT ![r].pc = "find_emergency",
                             ![r].price = coaching[<<req[r].seen.owner, k>>]]
  /\ UNCHANGED <<slot, coaching, emergency, phase, cleaner, payouts, contended, failures>>

\* No coaching of this instructor, or the auth service does not know them or
\* raises: nothing has been written.
BookReject(r) ==
  /\ req[r].pc = "find_coaching"
  /\ req' = [req EXCEPT ![r].pc = "rejected"]
  /\ UNCHANGED <<slot, coaching, emergency, phase, cleaner, payouts, contended, failures>>

\* EmergencyCancel.delete(owner): the row found is deleted by the commit and
\* makes the booking free.
BookFindEmergency(r) ==
  /\ req[r].pc = "find_emergency"
  /\ req' = IF req[r].seen.owner \in emergency
            THEN [req EXCEPT ![r].pc = "commit_booking", ![r].ec = "delete"]
            ELSE [req EXCEPT ![r].pc = "spend"]
  /\ UNCHANGED <<slot, coaching, emergency, phase, cleaner, payouts, contended, failures>>

BookSpendIgnoringAnswer(r) ==
  /\ req[r].pc = "spend"
  /\ \E c \in {0, req[r].price} :
       req' = [req EXCEPT ![r].pc = "commit_booking", ![r].charged = c]
  /\ UNCHANGED <<slot, coaching, emergency, phase, cleaner, payouts, contended, failures>>

BookSpend(r) ==
  /\ req[r].pc = "spend"
  /\ \/ req' = [req EXCEPT ![r].pc = "commit_booking", ![r].charged = req[r].price]
     \/ req' = [req EXCEPT ![r].pc = "rejected"]
  /\ UNCHANGED <<slot, coaching, emergency, phase, cleaner, payouts, contended, failures>>

\* spend_coins raises, before or after the shop took the coins.
BookSpendFails(r) ==
  /\ req[r].pc = "spend"
  /\ \E c \in {0, req[r].price} :
       req' = [req EXCEPT ![r].pc = "failed", ![r].charged = c]
  /\ Fail
  /\ UNCHANGED <<slot, coaching, emergency, phase, cleaner, payouts, contended>>

BookingRow(r) ==
  [slot[req[r].slot] EXCEPT
     !.booked_by = req[r].user, !.student_coins = req[r].price,
     !.instructor_coins = InstructorShare(req[r].price),
     !.skill_id = req[r].skill, !.booking = r]

KeepingEmergency(r) == emergency
AfterBooking(r) == IF req[r].ec = "delete" THEN emergency \ {req[r].seen.owner}
                   ELSE emergency

\* The UPDATE names the primary key only; on a vanished row it is an error
\* and the whole transaction is lost.  An exception after slot.book() (cache,
\* e-mail, rating) does not prevent the commit.
BookCommit(r) ==
  /\ req[r].pc = "commit_booking"
  /\ IF slot[req[r].slot] = NoRow
     THEN /\ req' = [req EXCEPT ![r].pc = "failed"]
          /\ UNCHANGED <<slot, emergency>>
     ELSE /\ req' = [req EXCEPT ![r].pc = "booked"]
          /\ slot' = [slot EXCEPT ![req[r].slot] = BookingRow(r)]
          /\ emergency' = AfterBooking(r)
  /\ UNCHANGED <<coaching, phase, cleaner, payouts, contended, failures>>

(***************************************************************************)
(* cancel_event -> _try_cancel_coaching                                    *)
(***************************************************************************)
InstructorOrAdmin(u, row) == u # row.booked_by /\ u \in {row.owner} \cup Admins
AsInstructor(u, row) == u # row.booked_by /\ u = row.owner

AnyTime(s) == phase[s] # Unborn
NotStarted(s) == phase[s] \in {Week, Days, Soon}

CancelFindSlot(r, u, s) ==
  LET row == slot[s] IN
  /\ Booked(row)
  /\ NotStarted(s)
  /\ \/ /\ u = row.booked_by                  \* the student
        /\ MayCancelAsStudent(phase[s])
        /\ Start(r, [Reading(u, s, "refund_student") EXCEPT
             !.to_student = StudentRefund(phase[s], row.student_coins),
             !.to_instructor = InstructorCompensation(phase[s], row.instructor_coins)])
     \/ /\ AsInstructor(u, row)
        /\ Start(r, [Reading(u, s, "find_emergency_grant") EXCEPT
             !.to_student = row.student_coins])
     \/ /\ u \in Admins \ {row.booked_by, row.owner}
        /\ Start(r, Reading(u, s, "refund_student"))    \* nobody gets coins
  /\ UNCHANGED <<slot, coaching, emergency, phase, cleaner, payouts, failures>>

\* EmergencyCancel.create(owner): a row is added unless one is found.
CancelGrant(r) ==
  /\ req[r].pc = "find_emergency_grant"
  /\ req' = [req EXCEPT ![r].pc = "refund_student",
                        ![r].ec = IF req[r].seen.owner \in emergency
                                  THEN "keep" ELSE "create"]
  /\ UNCHANGED <<slot, coaching, emergency, phase, cleaner, payouts, contended, failures>>

\* The answers of the shop to both refunds are ignored.
CancelRefundStudent(r) ==
  /\ req[r].pc = "refund_student"
  /\ req' = [req EXCEPT ![r].pc = "refund_instructor",
                        ![r].refunded = req[r].to_student]
  /\ UNCHANGED <<slot, coaching, emergency, phase, cleaner, payouts, contended, failures>>

CancelRefundInstructor(r) ==
  /\ req[r].pc = "refund_instructor"
  /\ req' = [req EXCEPT ![r].pc = "commit_cancel"]
  /\ UNCHANGED <<slot, coaching, emergency, phase, cleaner, payouts, contended, failures>>

\* The INSERT of an EmergencyCancel row that another session has added since
\* violates the primary key: the whole transaction is lost.
GrantConflict(r) == req[r].ec = "create" /\ req[r].seen.owner \in emergency

GrantedToStudent(r) == IF req[r].ec = "create" THEN emergency \cup {req[r].seen.booked_by}
                       ELSE emergency
Granted(r) == IF req[r].ec = "create" THEN emergency \cup {req[r].seen.owner}
              ELSE emergency

\* A refund raises, before or after the shop booked it.  slot.cancel() has
\* not run, so the commit stores the EmergencyCancel row alone.
CancelRefundFails(r) ==
  /\ \/ /\ req[r].pc = "refund_student" /\ req[r].to_student > 0
        /\ \E c \in {0, req[r].to_student} :
             req' = [req EXCEPT ![r].pc = "failed", ![r].refunded = c]
     \/ /\ req[r].pc = "refund_instructor" /\ req[r].to_instructor > 0
        /\ req' = [req EXCEPT ![r].pc = "failed"]
  /\ Fail
  /\ emergency' = Granted(r)
  /\ UNCHANGED <<slot, coaching, phase, cleaner, payouts, contended>>

CancelledRowKeepingSkill(row) == [FreshRow(row.owner) EXCEPT !.skill_id = row.skill_id]
CancelledRow(row) == FreshRow(row.owner)

CancelCommit(r) ==
  /\ req[r].pc = "commit_cancel"
  /\ IF slot[req[r].slot] = NoRow \/ GrantConflict(r)
     THEN /\ req' = [req EXCEPT ![r].pc = "failed", ![r].ec = "keep"]
          /\ UNCHANGED <<slot, emergency>>
     ELSE /\ req' = [req EXCEPT ![r].pc = "cancelled"]
          /\ slot' = [slot EXCEPT ![req[r].slot] = CancelledRow(@)]
          /\ emergency' = Granted(r)
  /\ UNCHANGED <<coaching, phase, cleaner, payouts, contended, failures>>

(***************************************************************************)
(* delete_slot                                                             *)
(***************************************************************************)
DeleteFindSlot(r, u, s) ==
  /\ slot[s] # NoRow
  /\ slot[s].owner = u \/ u \in Admins
  /\ ~Booked(slot[s])
  /\ Start(r, Reading(u, s, "commit_delete"))
  /\ UNCHANGED <<slot, coaching, emergency, phase, cleaner, payouts, failures>>

\* The DELETE names the primary key only.  A row that has vanished is a
\* warning, and clear_cache, which awaits in between, cannot prevent it.
DeleteCommit(r) ==
  /\ req[r].pc = "commit_delete"
  /\ req' = [req EXCEPT ![r].pc = "deleted"]
  /\ slot' = [slot EXCEPT ![req[r].slot] = NoRow]
  /\ UNCHANGED <<coaching, emergency, phase, cleaner, payouts, contended, failures>>

(***************************************************************************)
(* Time.  A phase of a slot lasts longer than any request: a request that  *)
(* read a slot in one phase has ended before the phase after the next.     *)
(***************************************************************************)
Tick(s) ==
  /\ phase[s] \in Week..Running
  /\ \A r \in Requests : InFlight(r) /\ req[r].slot = s => req[r].at = phase[s]
  /\ phase' = [phase EXCEPT ![s] = @ + 1]
  /\ UNCHANGED <<slot, coaching, emergency, req, cleaner, payouts, contended, failures>>

(***************************************************************************)
(* clean_old_slots, one pass of it.  A pass that finds no row changes      *)
(* nothing and is left out.  The weekly rules it applies before its commit *)
(* are modelled elsewhere; here they are a reason why the commit may fail. *)
(***************************************************************************)
CleanupBegin ==
  /\ cleaner.pc = "idle"
  /\ \E s \in Slots : phase[s] = Over /\ slot[s] # NoRow
  /\ cleaner' = [IdleCleaner EXCEPT
       !.pc = "next",
       !.rows = [s \in Slots |-> IF phase[s] = Over THEN slot[s] ELSE NoRow]]
  /\ UNCHANGED <<slot, coaching, emergency, phase, req, payouts, contended, failures>>

Todo == {s \in Slots : cleaner.rows[s] # NoRow} \ cleaner.dels

CleanupTake(s) ==
  /\ cleaner.pc = "next"
  /\ s \in Todo
  /\ cleaner' =
       IF Booked(cleaner.rows[s])
       THEN [cleaner EXCEPT
              !.cur = s,
              !.pc = IF cleaner.rows[s].instructor_coins # 0 THEN "pay" ELSE "xp"]
       ELSE [cleaner EXCEPT !.dels = @ \cup {s}]
  /\ UNCHANGED <<slot, coaching, emergency, phase, req, payouts, contended, failures>>

CurrentBooking == cleaner.rows[cleaner.cur].booking

\* The answer of the shop is ignored.
CleanupPay ==
  /\ cleaner.pc = "pay"
  /\ payouts' = [payouts EXCEPT ![CurrentBooking] = @ + 1]
  /\ cleaner' = [cleaner EXCEPT !.pc = "xp"]
  /\ UNCHANGED <<slot, coaching, emergency, phase, req, contended, failures>>

\* The xp of the lecturer and of the participant, and db.delete(slot).
CleanupXp ==
  /\ cleaner.pc = "xp"
  /\ cleaner' = [cleaner EXCEPT !.pc = "next", !.cur = None, !.dels = @ \cup {cleaner.cur}]
  /\ UNCHANGED <<slot, coaching, emergency, phase, req, payouts, contended, failures>>

NothingDeleted == slot
WithoutDeleted == [s \in Slots |-> IF s \in cleaner.dels THEN NoRow ELSE slot[s]]

\* db.delete(slot) is the last thing done with a slot, so an exception leaves
\* the slot at hand out of the deletions that its commit makes.
DeletedWithCurrent == [s \in Slots |-> IF s \in cleaner.dels \cup {cleaner.cur}
                                      THEN NoRow ELSE slot[s]]
DeletedSoFar == WithoutDeleted

\* A loop without its try/except ends with the first exception.
LoopEnds == [IdleCleaner EXCEPT !.pc = "ended"]
LoopGoesOn == IdleCleaner

\* A call raises, before or after the shop booked the coins.
CleanupCallFails ==
  /\ \/ cleaner.pc \in {"pay", "xp"} /\ UNCHANGED payouts
     \/ cleaner.pc = "pay" /\ payouts' = [payouts EXCEPT ![CurrentBooking] = @ + 1]
  /\ Fail
  /\ slot' = DeletedSoFar
  /\ cleaner' = LoopGoesOn
  /\ UNCHANGED <<coaching, emergency, phase, req, contended>>

CleanupCommit ==
  /\ cleaner.pc = "next" /\ Todo = {}
  /\ slot' = WithoutDeleted
  /\ cleaner' = IdleCleaner
  /\ UNCHANGED <<coaching, emergency, phase, req, payouts, contended, failures>>

\* The commit is refused: nothing is deleted, what was paid stays paid.
CleanupCommitFails ==
  /\ cleaner.pc = "next" /\ Todo = {}
  /\ Fail
  /\ cleaner' = IdleCleaner
  /\ UNCHANGED <<slot, coaching, emergency, phase, req, payouts, contended>>

\* The process dies and is started again: every coroutine is gone, with it
\* the uncommitted writes; what the shop was asked for stays.
Crash ==
  /\ Fail
  /\ cleaner' = IdleCleaner
  /\ req' = [r \in Requests |->
               IF InFlight(r) THEN [req[r] EXCEPT !.pc = "failed", !.ec = "keep"]
               ELSE req[r]]
  /\ UNCHANGED <<slot, coaching, emergency, phase, payouts, contended>>

(***************************************************************************)
(* Specification                                                           *)
(***************************************************************************)
Configure ==
  \/ \E u \in Lecturers, s \in Slots, ph \in Phases : AddSlot(u, s, ph)
  \/ \E u \in Lecturers, k \in Skills, p \in Prices : SetCoaching(u, k, p)
  \/ \E u \in Lecturers, k \in Skills : DeleteCoaching(u, k)

Arrive(r) ==
  \E u \in Users, s \in Slots :
    \/ \E k \in Skills : BookFindSlot(r, u, s, k)
    \/ CancelFindSlot(r, u, s)
    \/ DeleteFindSlot(r, u, s)

Continue(r) ==
  \/ BookFindCoaching(r) \/ BookReject(r) \/ BookFindEmergency(r)
  \/ BookSpend(r) \/ BookSpendFails(r) \/ BookCommit(r)
  \/ CancelGrant(r) \/ CancelRefundStudent(r) \/ CancelRefundInstructor(r)
  \/ CancelRefundFails(r) \/ CancelCommit(r)
  \/ DeleteCommit(r)

Cleanup ==
  \/ CleanupBegin
  \/ \E s \in Slots : CleanupTake(s)
  \/ CleanupPay \/ CleanupXp \/ CleanupCallFails
  \/ CleanupCommit \/ CleanupCommitFails

Next == \/ Configure
        \/ \E r \in Requests : Arrive(r)
        \/ \E r \in Requests : Continue(r)
        \/ \E s \in Slots : Tick(s)
        \/ Cleanup
        \/ Crash

Spec == Init /\ [][Next]_vars

\* A request that has arrived is carried on (its calls answer, raise or time
\* out), time passes, and cleanup_loop never ends.
Fairness == /\ \A r \in Requests : WF_vars(Continue(r))
            /\ \A s \in Slots : WF_vars(Tick(s))
            /\ WF_vars(Cleanup)

FairSpec == Spec /\ Fairness

(***************************************************************************)
(* Properties                                                              *)
(***************************************************************************)
\* Every variable has its type, and the columns of a row are set together:
\* all of booked_by, student_coins, instructor_coins and skill_id, or none.
TypeOK ==
  /\ slot \in [Slots -> Row \cup {NoRow}]
  /\ \A s \in Slots : slot[s] # NoRow =>
       \/ slot[s] = FreshRow(slot[s].owner)
       \/ /\ slot[s].booked_by \in Users
          /\ slot[s].student_coins \in Nat /\ slot[s].instructor_coins \in Nat
          /\ slot[s].skill_id \in Skills /\ slot[s].booking \in Requests
  /\ coaching \in [Users \X Skills -> Nat \cup {None}]
  /\ emergency \in SUBSET Users
  /\ phase \in [Slots -> Phases]
  /\ req \in [Requests -> Request]
  /\ cleaner \in Cleaner
  /\ payouts \in [Requests -> Nat]
  /\ contended \in SUBSET Users
  /\ failures \in Nat

\* A booked slot shows a booking that was made and paid for: the request that
\* wrote it is that of its student, who is not its instructor; the coins in the
\* row are the price that request charged and the instructor's share of it,
\* unless an emergency cancellation of the instructor made it free.
BookingBacked ==
  \A s \in Slots : Booked(slot[s]) =>
    LET row == slot[s] b == row.booking IN
    /\ b \in Requests /\ req[b].pc = "booked" /\ req[b].slot = s
    /\ row.booked_by = req[b].user /\ row.booked_by # row.owner
    /\ row.student_coins = req[b].price
    /\ row.instructor_coins = InstructorShare(req[b].price)
    /\ req[b].charged = req[b].price \/ req[b].ec = "delete"

\* A user has an emergency_cancel row, and an instructor's coaching is booked
\* for free, only after that instructor cancelled a booking of their own.
EarnedBy(u) ==
  \E c \in Requests : req[c].ec = "create" /\ req[c].user = u
                      /\ req[c].pc \in {"cancelled", "failed"}
EmergencyEarned ==
  /\ \A u \in emergency : EarnedBy(u)
  /\ \A b \in Requests : req[b].ec = "delete" => EarnedBy(req[b].seen.owner)

Bookings == {b \in Requests : req[b].pc = "booked"}
Cancels(b) == {c \in Requests : req[c].pc = "cancelled"
                                /\ req[c].seen.booking = b}

\* The instructor is paid once for a booking, and once more at most for every
\* exception or restart.
PayoutsBounded == \A b \in Requests : payouts[b] <= 1 + failures

\* While the slots of an instructor are worked on by one request at a time, an
\* emergency cancellation pays for one booking.
FreeBookings(u) == {b \in Bookings : req[b].ec = "delete" /\ req[b].seen.owner = u}
Grants(u) == {c \in Requests : req[c].ec = "create" /\ req[c].user = u
                               /\ req[c].pc \in {"cancelled", "failed"}}
EmergencyOnce ==
  \A u \in Users \ contended :
    Cardinality(FreeBookings(u)) + (IF u \in emergency THEN 1 ELSE 0)
      = Cardinality(Grants(u))

\* Under the same condition the coins of a booking are given out once, as a
\* refund or as a payout, and once more at most for every failure; no refund is
\* more than the price, which the student of a free booking never paid.
Refunds(b) == {c \in Requests : req[c].refunded > 0 /\ req[c].seen.booking = b}
GivenOutOnce ==
  \A b \in Bookings : req[b].seen.owner \notin contended =>
    /\ Cardinality(Refunds(b)) + payouts[b] <= 1 + failures
    /\ \A c \in Refunds(b) : req[c].refunded <= req[b].price

\* While the slots of an instructor are worked on by one request at a time, a
\* student who was charged for one of them has the booking, whatever the start,
\* the end and the cleanup of the slot do meanwhile; a raising call or a restart
\* costs one student their coins at most.
LostPayments(u) == {b \in Requests : req[b].charged > 0 /\ req[b].seen.owner = u
                                     /\ ~InFlight(b) /\ req[b].pc # "booked"}
PaidInVain == \A u \in Users \ contended : Cardinality(LostPayments(u)) <= failures

\* Once a slot is over, nobody books, cancels or rebooks it: the only change
\* left is its removal.
OverIsFrozen ==
  [][\A s \in Slots : phase[s] = Over => slot'[s] \in {slot[s], NoRow}]_vars

\* The cleanup removes no booking whose instructor has a share and whose
\* payout the shop was never asked for.
PaidBeforeRemoved ==
  [][\A s \in Slots :
       (phase[s] = Over /\ Booked(slot[s]) /\ slot'[s] = NoRow)
         => slot[s].instructor_coins = 0 \/ payouts[slot[s].booking] > 0]_vars

\* schemas/calendar.py:27, "Whether the event is bookable", false for a booked
\* coaching: a booked slot is not given to another booking.
BookedSlotNotRebooked ==
  [][\A s \in Slots :
       Booked(slot[s]) /\ Booked(slot'[s])
         => slot'[s].booking = slot[s].booking]_vars

\* exceptions/skills.py:15, "The requested skill requirements are not met.":
\* whoever offers a coaching and is no administrator has the level for it.
CoachesAreQualified ==
  \A u \in Users, k \in Skills :
    coaching[<<u, k>>] # None => u \in Admins \/ <<u, k>> \in Qualified

\* Every slot is removed in the end, with as many exceptions and restarts on
\* the way as the bound allows.
EverySlotEnds == \A s \in Slots : slot[s] # NoRow ~> slot[s] = NoRow
============================================================================
