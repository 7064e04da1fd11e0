------------------------ MODULE CoachingSlotsProofs ------------------------
(***************************************************************************)
(* The coachings, for every set of users, slots, skills, prices and        *)
(* requests, every fee, any overlap and any number of failures: that       *)
(* bookings are backed and slots that are over frozen (part 1), and who    *)
(* gets the coins of a booking, what the calendar shows of it, and that    *)
(* CoachingSlots implements SlotLifecycle (part 2).                        *)
(***************************************************************************)
EXTENDS CoachingCalendar, CoachingLifecycle, FiniteSetTheorems, TLAPS

-----------------------------------------------------------------------------
(***************************************************************************)
(* Part 1.  BookingBacked is not inductive: the commit of a booking writes *)
(* what the request collected over several steps, so the invariant IInv    *)
(* must say what a request in flight knows (ReqOK), that the slot it read  *)
(* still has the same owner, and that time has moved by one phase at most. *)
(***************************************************************************)

(***************************************************************************)
(* The coin arithmetic, for every price and every fee.                     *)
(***************************************************************************)
\* The instructor's share of a price (models/slots.py, booked through
\* coachings.py:64) is a natural number of coins and never exceeds the price.
LEMMA ShareBounds ==
  ASSUME NEW p \in Nat
  PROVE  /\ InstructorShare(p) \in Nat
         /\ InstructorShare(p) <= p
<1> DEFINE q == 100 - FeePercent
<1>1. q \in 0..100
  BY FeeAssumption
<1>2. p * q \in Nat
  BY <1>1
<1>3. p * q <= p * 100
  BY <1>1
<1>4. (p * q) \div 100 \in Nat /\ (p * q) \div 100 <= p
  <2> DEFINE x == p * q
  <2>1. x \in Nat /\ x <= p * 100
    BY <1>2, <1>3
  <2> HIDE DEF x, q
  <2>2. x \div 100 \in Nat /\ x \div 100 <= p
    BY <2>1
  <2> QED
    BY <2>2 DEF x
<1> QED
  BY <1>4 DEF InstructorShare

\* Whatever the phase, a participant's own cancellation gives back at most
\* what the booking cost: refund and compensation together never exceed the
\* price (calendar.py:390-405 and 341-354).
THEOREM RefundWithinPrice ==
  ASSUME NEW p \in Nat, NEW ph \in {Week, Days}
  PROVE  /\ StudentRefund(ph, p) \in Nat
         /\ InstructorCompensation(ph, InstructorShare(p)) \in Nat
         /\ StudentRefund(ph, p)
              + InstructorCompensation(ph, InstructorShare(p)) <= p
<1>1. InstructorShare(p) \in Nat /\ InstructorShare(p) <= p
  BY ShareBounds
<1> DEFINE sh == InstructorShare(p)
<1> HIDE DEF sh
<1>2. /\ p \div 2 \in Nat
      /\ sh \div 2 \in Nat
      /\ (p \div 2) + (sh \div 2) <= p
  BY <1>1 DEF sh
<1>3. CASE ph = Week
  BY <1>1, <1>3 DEF StudentRefund, InstructorCompensation
<1>4. CASE ph = Days
  BY <1>2, <1>4 DEF StudentRefund, InstructorCompensation, Week, Days, sh
<1> QED
  BY <1>3, <1>4

(***************************************************************************)
(* The inductive invariant                                                 *)
(***************************************************************************)
BookPcs == {"find_coaching", "find_emergency", "spend", "commit_booking"}
CancelPcs == {"find_emergency_grant", "refund_student", "refund_instructor",
              "commit_cancel"}

\* What request r knows at its program counter.
ReqOK(r) ==
  LET q == req[r] IN
  /\ q.pc = "idle" => q = IdleRequest
  /\ q.pc # "idle" => /\ q.user \in Users /\ q.slot \in Slots /\ q.seen \in Row
                      /\ phase[q.slot] # Unborn
                      /\ slot[q.slot] # NoRow => slot[q.slot].owner = q.seen.owner
  /\ q.pc \in BookPcs => q.skill \in Skills /\ q.user # q.seen.owner
  /\ q.pc = "commit_booking" => q.charged = q.price \/ q.ec = "delete"
  /\ q.ec = "delete" => q.pc \in {"commit_booking", "booked", "failed"}
  /\ q.ec = "create" => /\ q.user = q.seen.owner
                        /\ q.pc \in CancelPcs \cup {"cancelled", "failed"}
  /\ q.pc = "find_emergency_grant" => q.user = q.seen.owner

\* An unborn slot has no row, and a request in flight started in this phase of
\* its slot or in the one before.
Timing ==
  /\ \A s \in Slots : phase[s] = Unborn => slot[s] = NoRow
  /\ \A r \in Requests : InFlight(r) =>
       /\ phase[req[r].slot] \in {req[r].at, req[r].at + 1}
       /\ req[r].pc \in BookPcs => req[r].at \in {Week, Days}
       /\ req[r].pc \in CancelPcs => req[r].at \in {Week, Days, Soon}

\* The cleanup works on a slot of its result set.
CleanerOK == cleaner.pc \in {"pay", "xp"} => cleaner.cur \in Slots

IInv == /\ TypeOK
        /\ \A r \in Requests : ReqOK(r)
        /\ Timing
        /\ CleanerOK
        /\ BookingBacked
        /\ EmergencyEarned

-----------------------------------------------------------------------------
(***************************************************************************)
(* Types                                                                   *)
(***************************************************************************)
\* What a request is after its first read.
LEMMA ReadingTyped ==
  ASSUME NEW u \in Users, NEW s \in Slots, NEW pc \in InFlightPcs,
         slot[s] \in Row, phase[s] \in Phases
  PROVE  Reading(u, s, pc) \in Request
BY DEF Reading, IdleRequest, Request

\* A request that is given refunds in coins stays a request.
LEMMA RefundsTyped ==
  ASSUME NEW x \in Request, NEW a \in Nat, NEW b \in Nat
  PROVE  /\ [x EXCEPT !.to_student = a] \in Request
         /\ [x EXCEPT !.to_student = a, !.to_instructor = b] \in Request
BY DEF Request

\* The type invariant over add_slots, set_coaching and delete_coaching.
LEMMA TypeConfigure == IInv /\ Configure => TypeOK'
<1> SUFFICES ASSUME IInv, Configure PROVE TypeOK'
  OBVIOUS
<1> USE CoachingAssumption, NoRowAssumption
<1>1. ASSUME NEW u \in Lecturers, NEW s \in Slots, NEW ph \in Phases, AddSlot(u, s, ph)
      PROVE  TypeOK'
  BY <1>1 DEF IInv, TypeOK, AddSlot, FreshRow, Row
<1>2. ASSUME NEW u \in Lecturers, NEW k \in Skills, NEW p \in Prices, SetCoaching(u, k, p)
      PROVE  TypeOK'
  BY <1>2 DEF IInv, TypeOK, SetCoaching
<1>3. ASSUME NEW u \in Lecturers, NEW k \in Skills, DeleteCoaching(u, k)
      PROVE  TypeOK'
  BY <1>3 DEF IInv, TypeOK, DeleteCoaching
<1> QED
  BY <1>1, <1>2, <1>3 DEF Configure

\* The type invariant over the first database read of a request.
LEMMA TypeArrive ==
  ASSUME IInv, NEW r \in Requests, Arrive(r)
  PROVE  TypeOK'
<1> USE CoachingAssumption, NoRowAssumption
<1>1. ASSUME NEW u \in Users, NEW s \in Slots, NEW k \in Skills, BookFindSlot(r, u, s, k)
      PROVE  TypeOK'
  BY <1>1 DEF IInv, TypeOK, BookFindSlot, Bookable, Start, Reading, IdleRequest, Request, InFlightPcs, Phases, Unborn, Over, Row
<1>2. ASSUME NEW u \in Users, NEW s \in Slots, CancelFindSlot(r, u, s)
      PROVE  TypeOK'
  <2>1. /\ slot[s] \in Row /\ phase[s] \in Phases
        /\ slot[s].student_coins \in Nat /\ slot[s].instructor_coins \in Nat
    BY <1>2 DEF IInv, TypeOK, CancelFindSlot, Booked, FreshRow
  <2>2. /\ StudentRefund(phase[s], slot[s].student_coins) \in Nat
        /\ InstructorCompensation(phase[s], slot[s].instructor_coins) \in Nat
    BY <2>1 DEF StudentRefund, InstructorCompensation
  <2>3. req' \in [Requests -> Request]
    <3> DEFINE back == StudentRefund(phase[s], slot[s].student_coins)
               comp == InstructorCompensation(phase[s], slot[s].instructor_coins)
    <3>1. back \in Nat /\ comp \in Nat
      BY <2>2
    <3>2. PICK new : Start(r, new)
                     /\ \/ new = [Reading(u, s, "refund_student") EXCEPT
                                    !.to_student = back, !.to_instructor = comp]
                        \/ new = [Reading(u, s, "find_emergency_grant") EXCEPT
                                    !.to_student = slot[s].student_coins]
                        \/ new = Reading(u, s, "refund_student")
      BY <1>2 DEF CancelFindSlot
    <3> HIDE DEF back, comp
    <3>3. new \in Request
      <4> DEFINE x == Reading(u, s, "refund_student")
                 y == Reading(u, s, "find_emergency_grant")
                 paid == slot[s].student_coins
      <4>1. x \in Request /\ y \in Request /\ paid \in Nat
        BY <2>1, ReadingTyped DEF InFlightPcs
      <4> HIDE DEF x, y, paid
      <4>2. /\ [x EXCEPT !.to_student = back, !.to_instructor = comp] \in Request
            /\ [y EXCEPT !.to_student = paid] \in Request
        BY <3>1, <4>1, RefundsTyped
      <4> QED
        BY <3>2, <4>1, <4>2 DEF x, y, paid
    <3> QED
      BY <3>2, <3>3 DEF IInv, TypeOK, Start
  <2>4. contended' \in SUBSET Users
    BY <1>2, <2>1 DEF IInv, TypeOK, CancelFindSlot, Start, Reading, IdleRequest, Row
  <2> QED
    BY <1>2, <2>3, <2>4 DEF IInv, TypeOK, CancelFindSlot
<1>3. ASSUME NEW u \in Users, NEW s \in Slots, DeleteFindSlot(r, u, s)
      PROVE  TypeOK'
  BY <1>3 DEF IInv, TypeOK, DeleteFindSlot, Start, Reading, IdleRequest, Request, InFlightPcs, Phases, Unborn, Over, Row
<1> QED
  BY <1>1, <1>2, <1>3 DEF Arrive

\* The type invariant over every later step of a request.
LEMMA TypeContinue ==
  ASSUME IInv, NEW r \in Requests, Continue(r)
  PROVE  TypeOK'
<1> USE CoachingAssumption, NoRowAssumption
<1> DEFINE Typed == req' \in [Requests -> Request]
           Same  == /\ UNCHANGED <<slot, coaching, phase, cleaner, payouts, contended>>
                    /\ emergency' \in SUBSET Users
                    /\ failures' \in Nat
<1>a. TypeOK /\ ReqOK(r) /\ req[r] \in Request
  BY DEF IInv, TypeOK
<1>b. Typed /\ Same => TypeOK'
  BY <1>a DEF TypeOK
<1>1. CASE BookFindCoaching(r)
  <2>1. Typed
    <3>1. PICK k \in Skills :
            /\ coaching[<<req[r].seen.owner, k>>] # None
            /\ req' = [req EXCEPT ![r].pc = "find_emergency",
                                  ![r].price = coaching[<<req[r].seen.owner, k>>]]
      BY <1>1 DEF BookFindCoaching
    <3> DEFINE price == coaching[<<req[r].seen.owner, k>>]
    <3>2. req[r].seen.owner \in Users
      BY <1>a, <1>1 DEF BookFindCoaching, ReqOK, Row
    <3>3. price \in Nat
      BY <1>a, <3>1, <3>2 DEF TypeOK
    <3> HIDE DEF price
    <3>4. req' = [req EXCEPT ![r].pc = "find_emergency", ![r].price = price]
      BY <3>1 DEF price
    <3> QED
      BY <1>a, <3>3, <3>4 DEF TypeOK, Request, InFlightPcs
  <2>2. Same
    BY <1>a, <1>1 DEF TypeOK, BookFindCoaching
  <2> QED
    BY <1>b, <2>1, <2>2
<1>2. CASE BookReject(r)
  <2>1. Typed
    BY <1>a, <1>2 DEF TypeOK, BookReject, Request, InFlightPcs, Final
  <2>2. Same
    BY <1>a, <1>2 DEF TypeOK, BookReject
  <2> QED
    BY <1>b, <2>1, <2>2
<1>3. CASE BookFindEmergency(r)
  <2>1. Typed
    BY <1>a, <1>3 DEF TypeOK, BookFindEmergency, Request, InFlightPcs, Final
  <2>2. Same
    BY <1>a, <1>3 DEF TypeOK, BookFindEmergency
  <2> QED
    BY <1>b, <2>1, <2>2
<1>4. CASE BookSpend(r)
  <2>1. Typed
    <3>1. req[r].price \in Nat
      BY <1>a DEF Request
    <3>2. CASE req' = [req EXCEPT ![r].pc = "rejected"]
      BY <1>a, <3>2 DEF TypeOK, Request, Final
    <3>3. CASE req' = [req EXCEPT ![r].pc = "commit_booking", ![r].charged = req[r].price]
      BY <1>a, <3>1, <3>3 DEF TypeOK, Request, InFlightPcs
    <3> QED
      BY <1>4, <3>2, <3>3 DEF BookSpend
  <2>2. Same
    BY <1>a, <1>4 DEF TypeOK, BookSpend
  <2> QED
    BY <1>b, <2>1, <2>2
<1>5. CASE BookSpendFails(r)
  <2>1. Typed
    <3>1. {0, req[r].price} \subseteq Nat
      BY <1>a DEF Request
    <3>2. PICK c \in {0, req[r].price} :
            req' = [req EXCEPT ![r].pc = "failed", ![r].charged = c]
      BY <1>5 DEF BookSpendFails
    <3> QED
      BY <1>a, <3>1, <3>2 DEF TypeOK, Request, Final
  <2>2. Same
    BY <1>a, <1>5 DEF TypeOK, BookSpendFails, Fail
  <2> QED
    BY <1>b, <2>1, <2>2
<1>6. CASE BookCommit(r)
  <2>1. Typed
    <3>1. CASE req' = [req EXCEPT ![r].pc = "failed"]
      BY <1>a, <3>1 DEF TypeOK, Request, Final
    <3>2. CASE req' = [req EXCEPT ![r].pc = "booked"]
      BY <1>a, <3>2 DEF TypeOK, Request, Final
    <3> QED
      BY <1>6, <3>1, <3>2 DEF BookCommit
  <2>2. /\ slot' \in [Slots -> Row \cup {NoRow}]
        /\ \A s \in Slots : slot'[s] # NoRow =>
             \/ slot'[s] = FreshRow(slot'[s].owner)
             \/ /\ slot'[s].booked_by \in Users
                /\ slot'[s].student_coins \in Nat /\ slot'[s].instructor_coins \in Nat
                /\ slot'[s].skill_id \in Skills /\ slot'[s].booking \in Requests
    <3> DEFINE new == BookingRow(r)
    <3>1. CASE UNCHANGED slot
      BY <1>a, <3>1 DEF TypeOK, FreshRow
    <3>2. CASE slot[req[r].slot] # NoRow /\ slot' = [slot EXCEPT ![req[r].slot] = new]
      <4>1. /\ req[r].price \in Nat /\ req[r].slot \in Slots
            /\ req[r].user \in Users /\ req[r].skill \in Skills
            /\ slot[req[r].slot] \in Row
        BY <1>a, <1>6, <3>2 DEF TypeOK, ReqOK, BookCommit, BookPcs, Request
      <4>2. InstructorShare(req[r].price) \in Nat
        BY <4>1, ShareBounds
      <4>3. /\ new \in Row /\ new.booked_by \in Users /\ new.student_coins \in Nat
            /\ new.instructor_coins \in Nat /\ new.skill_id \in Skills
            /\ new.booking \in Requests
        BY <4>1, <4>2 DEF BookingRow, Row
      <4> HIDE DEF new
      <4> QED
        BY <1>a, <3>2, <4>1, <4>3 DEF TypeOK, FreshRow
    <3> QED
      BY <1>6, <3>1, <3>2 DEF BookCommit
  <2>3. /\ UNCHANGED <<coaching, phase, cleaner, payouts, contended, failures>>
        /\ emergency' \in SUBSET Users
    BY <1>a, <1>6 DEF TypeOK, ReqOK, BookCommit, AfterBooking, Granted, Row
  <2> QED
    BY <1>a, <2>1, <2>2, <2>3 DEF TypeOK
<1>7. CASE CancelGrant(r)
  <2>1. Typed
    BY <1>a, <1>7 DEF TypeOK, CancelGrant, Request, InFlightPcs, Final
  <2>2. Same
    BY <1>a, <1>7 DEF TypeOK, CancelGrant
  <2> QED
    BY <1>b, <2>1, <2>2
<1>8. CASE CancelRefundStudent(r)
  <2>1. Typed
    BY <1>a, <1>8 DEF TypeOK, CancelRefundStudent, Request, InFlightPcs, Final
  <2>2. Same
    BY <1>a, <1>8 DEF TypeOK, CancelRefundStudent
  <2> QED
    BY <1>b, <2>1, <2>2
<1>9. CASE CancelRefundInstructor(r)
  <2>1. Typed
    BY <1>a, <1>9 DEF TypeOK, CancelRefundInstructor, Request, InFlightPcs, Final
  <2>2. Same
    BY <1>a, <1>9 DEF TypeOK, CancelRefundInstructor
  <2> QED
    BY <1>b, <2>1, <2>2
<1>10. CASE CancelRefundFails(r)
  <2>1. Typed
    BY <1>a, <1>10 DEF TypeOK, CancelRefundFails, Request, InFlightPcs, Final
  <2>2. Same
    BY <1>a, <1>10 DEF TypeOK, CancelRefundFails, Fail, Granted, ReqOK, Row
  <2> QED
    BY <1>b, <2>1, <2>2
<1>11. CASE CancelCommit(r)
  <2>1. Typed
    BY <1>a, <1>11 DEF TypeOK, CancelCommit, Request, InFlightPcs, Final
  <2>2. /\ slot' \in [Slots -> Row \cup {NoRow}]
        /\ \A s \in Slots : slot'[s] # NoRow =>
             \/ slot'[s] = FreshRow(slot'[s].owner)
             \/ /\ slot'[s].booked_by \in Users
                /\ slot'[s].student_coins \in Nat /\ slot'[s].instructor_coins \in Nat
                /\ slot'[s].skill_id \in Skills /\ slot'[s].booking \in Requests
    <3> DEFINE new == CancelledRow(slot[req[r].slot])
    <3>1. CASE UNCHANGED slot
      BY <1>a, <3>1 DEF TypeOK, FreshRow
    <3>2. CASE slot[req[r].slot] # NoRow /\ slot' = [slot EXCEPT ![req[r].slot] = new]
      <4>1. req[r].slot \in Slots /\ slot[req[r].slot] \in Row
        BY <1>a, <1>11, <3>2 DEF TypeOK, ReqOK, CancelCommit
      <4>2. new \in Row /\ new = FreshRow(new.owner)
        BY <4>1, CoachingAssumption DEF CancelledRow, FreshRow, Row
      <4> HIDE DEF new
      <4> QED
        BY <1>a, <3>2, <4>1, <4>2 DEF TypeOK, FreshRow
    <3> QED
      BY <1>11, <3>1, <3>2 DEF CancelCommit
  <2>3. /\ UNCHANGED <<coaching, phase, cleaner, payouts, contended, failures>>
        /\ emergency' \in SUBSET Users
    BY <1>a, <1>11 DEF TypeOK, ReqOK, CancelCommit, AfterBooking, Granted, Row
  <2> QED
    BY <1>a, <2>1, <2>2, <2>3 DEF TypeOK
<1>12. CASE DeleteCommit(r)
  <2>1. Typed
    BY <1>a, <1>12 DEF TypeOK, DeleteCommit, Request, InFlightPcs, Final
  <2>2. /\ slot' \in [Slots -> Row \cup {NoRow}]
        /\ \A s \in Slots : slot'[s] # NoRow =>
             \/ slot'[s] = FreshRow(slot'[s].owner)
             \/ /\ slot'[s].booked_by \in Users
                /\ slot'[s].student_coins \in Nat /\ slot'[s].instructor_coins \in Nat
                /\ slot'[s].skill_id \in Skills /\ slot'[s].booking \in Requests
    BY <1>a, <1>12 DEF TypeOK, ReqOK, DeleteCommit, Row, Request
  <2>3. /\ UNCHANGED <<coaching, phase, cleaner, payouts, contended, failures>>
        /\ emergency' \in SUBSET Users
    BY <1>a, <1>12 DEF TypeOK, ReqOK, DeleteCommit, AfterBooking, Granted, Row
  <2> QED
    BY <1>a, <2>1, <2>2, <2>3 DEF TypeOK
<1> QED
  BY <1>1, <1>2, <1>3, <1>4, <1>5, <1>6, <1>7, <1>8, <1>9, <1>10, <1>11, <1>12 DEF Continue

\* The type invariant over a step of clean_old_slots.
LEMMA TypeCleanup == IInv /\ Cleanup => TypeOK'
<1> SUFFICES ASSUME IInv, Cleanup PROVE TypeOK'
  OBVIOUS
<1> USE CoachingAssumption, NoRowAssumption
<1>1. CASE CleanupBegin
  BY <1>1 DEF IInv, TypeOK, CleanupBegin, IdleCleaner, Cleaner
<1>2. ASSUME NEW s \in Slots, CleanupTake(s) PROVE TypeOK'
  BY <1>2 DEF IInv, TypeOK, CleanupTake, Todo, Cleaner
<1>3. CASE CleanupPay
  <2>1. payouts' \in [Requests -> Nat]
    <3> DEFINE b == CurrentBooking
    <3>1. payouts \in [Requests -> Nat] /\ payouts' = [payouts EXCEPT ![b] = @ + 1]
      BY <1>3 DEF IInv, TypeOK, CleanupPay
    <3> HIDE DEF b
    <3>2. CASE b \in Requests
      BY <3>1, <3>2
    <3>3. CASE b \notin Requests
      <4>1. payouts' = payouts
        BY <3>1, <3>3
      <4> QED
        BY <3>1, <4>1
    <3> QED
      BY <3>2, <3>3
  <2>2. cleaner' \in Cleaner
    BY <1>3 DEF IInv, TypeOK, CleanupPay, Cleaner
  <2> QED
    BY <1>3, <2>1, <2>2 DEF IInv, TypeOK, CleanupPay
<1>4. CASE CleanupXp
  BY <1>4 DEF IInv, TypeOK, CleanerOK, CleanupXp, Cleaner
<1>5. CASE CleanupCallFails
  BY <1>5 DEF IInv, TypeOK, CleanupCallFails, Fail, DeletedSoFar, WithoutDeleted, LoopGoesOn, IdleCleaner, Cleaner
<1>6. CASE CleanupCommit
  BY <1>6 DEF IInv, TypeOK, CleanupCommit, WithoutDeleted, IdleCleaner, Cleaner
<1>7. CASE CleanupCommitFails
  BY <1>7 DEF IInv, TypeOK, CleanupCommitFails, Fail, IdleCleaner, Cleaner
<1> QED
  BY <1>1, <1>2, <1>3, <1>4, <1>5, <1>6, <1>7 DEF Cleanup

\* Every step keeps the type invariant.
LEMMA TypeStep == IInv /\ [Next]_vars => TypeOK'
<1> SUFFICES ASSUME IInv, [Next]_vars PROVE TypeOK'
  OBVIOUS
<1>1. CASE Configure
  BY <1>1, TypeConfigure
<1>2. ASSUME NEW r \in Requests, Arrive(r) PROVE TypeOK'
  BY <1>2, TypeArrive
<1>3. ASSUME NEW r \in Requests, Continue(r) PROVE TypeOK'
  BY <1>3, TypeContinue
<1>4. ASSUME NEW s \in Slots, Tick(s) PROVE TypeOK'
  <2>1. phase' \in [Slots -> Phases]
    BY <1>4 DEF IInv, TypeOK, Tick, Phases, Unborn, Week, Running, Over
  <2> QED
    BY <1>4, <2>1 DEF IInv, TypeOK, Tick, FreshRow
<1>5. CASE Cleanup
  BY <1>5, TypeCleanup
<1>6. CASE Crash
  <2>1. req' \in [Requests -> Request]
    <3>1. ASSUME NEW r \in Requests
          PROVE  [req[r] EXCEPT !.pc = "failed", !.ec = "keep"] \in Request
      <4>1. req[r] \in Request
        BY DEF IInv, TypeOK
      <4> QED
        BY <4>1 DEF Request, Final
    <3> QED
      BY <1>6, <3>1 DEF IInv, TypeOK, Crash
  <2>2. cleaner' \in Cleaner
    BY <1>6 DEF Crash, IdleCleaner, Cleaner
  <2> QED
    <3>1. UNCHANGED <<slot, coaching, emergency, phase, payouts, contended>>
          /\ failures' = failures + 1
      BY <1>6 DEF Crash, Fail
    <3> QED
      BY <2>1, <2>2, <3>1 DEF IInv, TypeOK, FreshRow
<1>7. CASE UNCHANGED vars
  BY <1>7 DEF IInv, TypeOK, vars
<1> QED
  BY <1>1, <1>2, <1>3, <1>4, <1>5, <1>6, <1>7 DEF Next

-----------------------------------------------------------------------------
(***************************************************************************)
(* What a step leaves alone                                                *)
(***************************************************************************)
\* A request that goes on keeps what it read and is never idle again; the
\* other requests, time and the cleanup do not move.
Frame(r) ==
  /\ InFlight(r)
  /\ \A p \in Requests \ {r} : req'[p] = req[p]
  /\ req'[r].pc \notin {"idle", "commit_delete"}
  /\ req'[r].user = req[r].user /\ req'[r].slot = req[r].slot
  /\ req'[r].seen = req[r].seen /\ req'[r].at = req[r].at
  /\ req'[r].skill = req[r].skill
  /\ req'[r].pc \in BookPcs => req[r].pc \in BookPcs
  /\ req'[r].pc \in CancelPcs => req[r].pc \in CancelPcs
  /\ UNCHANGED <<phase, cleaner>>

\* What a step of request r leaves alone, and where it may lead r.
LEMMA ContinueFrame ==
  ASSUME TypeOK, NEW r \in Requests, Continue(r)
  PROVE  Frame(r)
<1>a. req \in [Requests -> Request] /\ req[r] \in Request
  BY DEF TypeOK
<1>1. CASE BookFindCoaching(r)
  BY <1>a, <1>1 DEF BookFindCoaching, Frame, InFlight, InFlightPcs, BookPcs, CancelPcs, Request
<1>2. CASE BookReject(r)
  BY <1>a, <1>2 DEF BookReject, Frame, InFlight, InFlightPcs, BookPcs, CancelPcs, Request
<1>3. CASE BookFindEmergency(r)
  BY <1>a, <1>3 DEF BookFindEmergency, Frame, InFlight, InFlightPcs, BookPcs, CancelPcs, Request
<1>4. CASE BookSpend(r)
  BY <1>a, <1>4 DEF BookSpend, Frame, InFlight, InFlightPcs, BookPcs, CancelPcs, Request
<1>5. CASE BookSpendFails(r)
  BY <1>a, <1>5 DEF BookSpendFails, Frame, InFlight, InFlightPcs, BookPcs, CancelPcs, Request
<1>6. CASE BookCommit(r)
  BY <1>a, <1>6 DEF BookCommit, Frame, InFlight, InFlightPcs, BookPcs, CancelPcs, Request
<1>7. CASE CancelGrant(r)
  BY <1>a, <1>7 DEF CancelGrant, Frame, InFlight, InFlightPcs, BookPcs, CancelPcs, Request
<1>8. CASE CancelRefundStudent(r)
  BY <1>a, <1>8 DEF CancelRefundStudent, Frame, InFlight, InFlightPcs, BookPcs, CancelPcs, Request
<1>9. CASE CancelRefundInstructor(r)
  BY <1>a, <1>9 DEF CancelRefundInstructor, Frame, InFlight, InFlightPcs, BookPcs, CancelPcs, Request
<1>10. CASE CancelRefundFails(r)
  BY <1>a, <1>10 DEF CancelRefundFails, Frame, InFlight, InFlightPcs, BookPcs, CancelPcs, Request
<1>11. CASE CancelCommit(r)
  BY <1>a, <1>11 DEF CancelCommit, Frame, InFlight, InFlightPcs, BookPcs, CancelPcs, Request
<1>12. CASE DeleteCommit(r)
  BY <1>a, <1>12 DEF DeleteCommit, Frame, InFlight, InFlightPcs, BookPcs, CancelPcs, Request
<1> QED
  BY <1>1, <1>2, <1>3, <1>4, <1>5, <1>6, <1>7, <1>8, <1>9, <1>10, <1>11, <1>12 DEF Continue

\* A row that is there after a step was there before it with the same owner,
\* unless its slot was unborn.
LEMMA OwnersKept ==
  ASSUME IInv, [Next]_vars, NEW s \in Slots, slot'[s] # NoRow
  PROVE  \/ phase[s] = Unborn /\ phase'[s] # Unborn
         \/ slot[s] # NoRow /\ slot'[s].owner = slot[s].owner
<1> USE DEF IInv
<1>1. CASE Configure
  <2>1. ASSUME NEW u \in Lecturers, NEW t \in Slots, NEW ph \in Phases, AddSlot(u, t, ph)
        PROVE  IF s = t THEN phase[s] = Unborn /\ phase'[s] # Unborn
               ELSE slot'[s] = slot[s]
    BY <2>1 DEF AddSlot, TypeOK, Unborn, Week, Days, Soon
  <2> QED
    BY <1>1, <2>1 DEF Configure, SetCoaching, DeleteCoaching
<1>2. ASSUME NEW r \in Requests, Arrive(r) PROVE slot' = slot
  BY <1>2 DEF Arrive, BookFindSlot, CancelFindSlot, DeleteFindSlot
<1>3. ASSUME NEW r \in Requests, Continue(r)
      PROVE  slot[s] # NoRow /\ slot'[s].owner = slot[s].owner
  <2>1. CASE UNCHANGED slot
    BY <2>1
  <2>2. CASE BookCommit(r)
    <3> DEFINE k == req[r].slot
    <3>1. CASE slot[k] # NoRow /\ slot' = [slot EXCEPT ![k] = BookingRow(r)]
      <4>1. k \in Slots /\ slot[k] \in Row
        BY <2>2, <3>1 DEF TypeOK, ReqOK, BookCommit
      <4>2. BookingRow(r).owner = slot[k].owner
        BY <4>1 DEF BookingRow, Row
      <4> HIDE DEF k
      <4> QED
        BY <3>1, <4>1, <4>2 DEF TypeOK
    <3> QED
      BY <2>1, <2>2, <3>1 DEF BookCommit
  <2>3. CASE CancelCommit(r)
    BY <2>3 DEF CancelCommit, CancelledRow, FreshRow, TypeOK, Row
  <2>4. CASE DeleteCommit(r)
    BY <2>4 DEF DeleteCommit, TypeOK
  <2> QED
    BY <1>3, <2>1, <2>2, <2>3, <2>4
    DEF Continue, BookFindCoaching, BookReject, BookFindEmergency, BookSpend,
        BookSpendFails, CancelGrant, CancelRefundStudent, CancelRefundInstructor,
        CancelRefundFails
<1>4. ASSUME NEW t \in Slots, Tick(t) PROVE slot' = slot
  BY <1>4 DEF Tick
<1>5. CASE Cleanup
  BY <1>5 DEF Cleanup, CleanupBegin, CleanupTake, CleanupPay, CleanupXp, CleanupCallFails,
              CleanupCommit, CleanupCommitFails, DeletedSoFar, WithoutDeleted
<1>6. CASE Crash
  BY <1>6 DEF Crash
<1>7. CASE UNCHANGED vars
  BY <1>7 DEF vars
<1> QED
  BY <1>1, <1>2, <1>3, <1>4, <1>5, <1>6, <1>7 DEF Next

-----------------------------------------------------------------------------
(***************************************************************************)
(* What the requests know                                                  *)
(***************************************************************************)
LEMMA ReqKept ==
  ASSUME IInv, [Next]_vars, NEW p \in Requests, req'[p] = req[p],
         \A s \in Slots : phase[s] # Unborn => phase'[s] # Unborn
  PROVE  ReqOK(p)'
<1>1. ReqOK(p)
  BY DEF IInv
<1>2. CASE req[p].pc = "idle"
  BY <1>1, <1>2 DEF ReqOK, BookPcs, CancelPcs, IdleRequest
<1>3. CASE req[p].pc # "idle"
  <2>1. req[p].slot \in Slots /\ phase[req[p].slot] # Unborn
    BY <1>1, <1>3 DEF ReqOK
  <2>2. slot'[req[p].slot] # NoRow => slot'[req[p].slot].owner = req[p].seen.owner
    BY <1>1, <1>3, <2>1, OwnersKept DEF ReqOK
  <2> QED
    BY <1>1, <1>3, <2>1, <2>2 DEF ReqOK
<1> QED
  BY <1>2, <1>3

\* A cancellation after its first read.
CancelStarts(r, u, s) ==
  /\ req'[r].user = u /\ req'[r].slot = s /\ req'[r].seen = slot[s]
  /\ req'[r].at = phase[s] /\ req'[r].ec = "keep"
  /\ \/ req'[r].pc = "refund_student"
     \/ req'[r].pc = "find_emergency_grant" /\ u = slot[s].owner
  /\ slot' = slot /\ phase' = phase
  /\ slot[s] \in Row /\ phase[s] \in {Week, Days, Soon}

\* What a cancelling request knows when it starts.
LEMMA CancelStart ==
  ASSUME TypeOK, NEW r \in Requests, NEW u \in Users, NEW s \in Slots,
         CancelFindSlot(r, u, s)
  PROVE  CancelStarts(r, u, s)
<1>1. /\ slot' = slot /\ phase' = phase /\ req \in [Requests -> Request]
      /\ slot[s] \in Row /\ phase[s] \in {Week, Days, Soon}
  BY DEF TypeOK, CancelFindSlot, NotStarted, Booked
<1> DEFINE back == StudentRefund(phase[s], slot[s].student_coins)
           comp == InstructorCompensation(phase[s], slot[s].instructor_coins)
<1>2. PICK new : /\ Start(r, new)
                 /\ \/ new = [Reading(u, s, "refund_student") EXCEPT
                                !.to_student = back, !.to_instructor = comp]
                    \/ /\ u = slot[s].owner
                       /\ new = [Reading(u, s, "find_emergency_grant") EXCEPT
                                   !.to_student = slot[s].student_coins]
                    \/ new = Reading(u, s, "refund_student")
  BY DEF CancelFindSlot, AsInstructor
<1> HIDE DEF back, comp
<1>3. req'[r] = new
  BY <1>1, <1>2 DEF Start
<1>4. CASE new = [Reading(u, s, "refund_student") EXCEPT
                    !.to_student = back, !.to_instructor = comp]
  BY <1>1, <1>3, <1>4 DEF CancelStarts, Reading, IdleRequest
<1>5. CASE u = slot[s].owner /\ new = [Reading(u, s, "find_emergency_grant") EXCEPT
                                         !.to_student = slot[s].student_coins]
  BY <1>1, <1>3, <1>5 DEF CancelStarts, Reading, IdleRequest
<1>6. CASE new = Reading(u, s, "refund_student")
  BY <1>1, <1>3, <1>6 DEF CancelStarts, Reading, IdleRequest
<1> QED
  BY <1>2, <1>4, <1>5, <1>6

\* A request knows what it must when it has started.
LEMMA ReqArrive ==
  ASSUME IInv, NEW r \in Requests, Arrive(r)
  PROVE  ReqOK(r)'
<1>a. req \in [Requests -> Request] /\ slot \in [Slots -> Row \cup {NoRow}]
  BY DEF IInv, TypeOK
<1>1. ASSUME NEW u \in Users, NEW s \in Slots, NEW k \in Skills, BookFindSlot(r, u, s, k)
      PROVE  ReqOK(r)'
  <2>1. /\ req'[r] = [Reading(u, s, "find_coaching") EXCEPT !.skill = k]
        /\ slot' = slot /\ phase' = phase
        /\ slot[s] \in Row /\ slot[s].owner # u /\ phase[s] # Unborn
    BY <1>a, <1>1 DEF BookFindSlot, Bookable, Start, Unborn, Week, Days
  <2> QED
    BY <2>1 DEF ReqOK, Reading, IdleRequest, BookPcs, CancelPcs
<1>2. ASSUME NEW u \in Users, NEW s \in Slots, CancelFindSlot(r, u, s)
      PROVE  ReqOK(r)'
  <2>1. CancelStarts(r, u, s)
    BY <1>2, CancelStart DEF IInv
  <2> QED
    BY <2>1 DEF CancelStarts, ReqOK, BookPcs, CancelPcs, Unborn, Week, Days, Soon
<1>3. ASSUME NEW u \in Users, NEW s \in Slots, DeleteFindSlot(r, u, s)
      PROVE  ReqOK(r)'
  <2>1. /\ req'[r] = Reading(u, s, "commit_delete")
        /\ slot' = slot /\ phase' = phase
        /\ slot[s] \in Row /\ phase[s] # Unborn
    BY <1>a, <1>3 DEF DeleteFindSlot, Start, IInv, Timing
  <2> QED
    BY <2>1 DEF ReqOK, Reading, IdleRequest, BookPcs, CancelPcs
<1> QED
  BY <1>1, <1>2, <1>3 DEF Arrive

\* A request that goes on still knows what it must.
LEMMA ReqContinue ==
  ASSUME IInv, [Next]_vars, NEW r \in Requests, Continue(r)
  PROVE  ReqOK(r)'
<1> DEFINE q == req[r]
           Rest == /\ q'.pc = "commit_booking" => q'.charged = q'.price \/ q'.ec = "delete"
                   /\ q'.ec = "delete" => q'.pc \in {"commit_booking", "booked", "failed"}
                   /\ q'.ec = "create" => /\ q.user = q.seen.owner
                                          /\ q'.pc \in CancelPcs \cup {"cancelled", "failed"}
                   /\ q'.pc # "find_emergency_grant"
<1>a. req \in [Requests -> Request] /\ req[r] \in Request /\ ReqOK(r) /\ Frame(r)
  BY ContinueFrame DEF IInv, TypeOK
<1>b. Rest => ReqOK(r)'
  <2>1. /\ q.pc # "idle" /\ q.slot \in Slots /\ phase[q.slot] # Unborn
    BY <1>a DEF Frame, InFlight, InFlightPcs, ReqOK
  <2>2. slot'[q.slot] # NoRow => slot'[q.slot].owner = q.seen.owner
    BY <1>a, <2>1, OwnersKept DEF ReqOK
  <2> QED
    BY <1>a, <2>1, <2>2 DEF ReqOK, Frame
<1>1. CASE BookFindCoaching(r)
  BY <1>a, <1>b, <1>1 DEF BookFindCoaching, ReqOK, BookPcs, CancelPcs, Request
<1>2. CASE BookReject(r)
  BY <1>a, <1>b, <1>2 DEF BookReject, ReqOK, BookPcs, CancelPcs, Request
<1>3. CASE BookFindEmergency(r)
  BY <1>a, <1>b, <1>3 DEF BookFindEmergency, ReqOK, BookPcs, CancelPcs, Request
<1>4. CASE BookSpend(r)
  BY <1>a, <1>b, <1>4 DEF BookSpend, ReqOK, BookPcs, CancelPcs, Request
<1>5. CASE BookSpendFails(r)
  BY <1>a, <1>b, <1>5 DEF BookSpendFails, ReqOK, BookPcs, CancelPcs, Request
<1>6. CASE BookCommit(r)
  BY <1>a, <1>b, <1>6 DEF BookCommit, ReqOK, BookPcs, CancelPcs, Request
<1>7. CASE CancelGrant(r)
  BY <1>a, <1>b, <1>7 DEF CancelGrant, ReqOK, BookPcs, CancelPcs, Request
<1>8. CASE CancelRefundStudent(r)
  BY <1>a, <1>b, <1>8 DEF CancelRefundStudent, ReqOK, BookPcs, CancelPcs, Request
<1>9. CASE CancelRefundInstructor(r)
  BY <1>a, <1>b, <1>9 DEF CancelRefundInstructor, ReqOK, BookPcs, CancelPcs, Request
<1>10. CASE CancelRefundFails(r)
  BY <1>a, <1>b, <1>10 DEF CancelRefundFails, ReqOK, BookPcs, CancelPcs, Request
<1>11. CASE CancelCommit(r)
  BY <1>a, <1>b, <1>11 DEF CancelCommit, ReqOK, BookPcs, CancelPcs, Request
<1>12. CASE DeleteCommit(r)
  BY <1>a, <1>b, <1>12 DEF DeleteCommit, ReqOK, BookPcs, CancelPcs, Request
<1> QED
  BY <1>1, <1>2, <1>3, <1>4, <1>5, <1>6, <1>7, <1>8, <1>9, <1>10, <1>11, <1>12 DEF Continue

\* No step, of this request or of anybody else, spoils what a request knows.
LEMMA ReqStep ==
  ASSUME IInv, [Next]_vars, NEW p \in Requests
  PROVE  ReqOK(p)'
<1>1. CASE Configure
  BY <1>1, ReqKept DEF Configure, AddSlot, SetCoaching, DeleteCoaching, IInv, TypeOK,
     Unborn, Week, Days, Soon
<1>2. ASSUME NEW r \in Requests, Arrive(r) PROVE ReqOK(p)'
  <2>1. CASE p = r
    BY <1>2, <2>1, ReqArrive
  <2>2. CASE p # r
    BY <1>2, <2>2, ReqKept DEF Arrive, BookFindSlot, CancelFindSlot, DeleteFindSlot, Start,
       IInv, TypeOK
  <2> QED
    BY <2>1, <2>2
<1>3. ASSUME NEW r \in Requests, Continue(r) PROVE ReqOK(p)'
  <2>1. CASE p = r
    BY <1>3, <2>1, ReqContinue
  <2>2. CASE p # r
    BY <1>3, <2>2, ReqKept, ContinueFrame DEF Frame, IInv
  <2> QED
    BY <2>1, <2>2
<1>4. ASSUME NEW s \in Slots, Tick(s) PROVE ReqOK(p)'
  BY <1>4, ReqKept DEF Tick, IInv, TypeOK, Unborn, Week, Running
<1>5. CASE Cleanup
  BY <1>5, ReqKept DEF Cleanup, CleanupBegin, CleanupTake, CleanupPay, CleanupXp,
     CleanupCallFails, CleanupCommit, CleanupCommitFails
<1>6. CASE Crash
  <2>1. slot' = slot /\ phase' = phase /\ req[p] \in Request
    BY <1>6 DEF Crash, IInv, TypeOK
  <2>2. CASE InFlight(p)
    <3>1. req'[p] = [req[p] EXCEPT !.pc = "failed", !.ec = "keep"]
      BY <1>6, <2>2 DEF Crash
    <3>2. ReqOK(p) /\ req[p].pc # "idle"
      BY <2>2 DEF IInv, InFlight, InFlightPcs
    <3> QED
      BY <2>1, <3>1, <3>2 DEF ReqOK, BookPcs, CancelPcs, Request
  <2>3. CASE ~InFlight(p)
    BY <1>6, <2>1, <2>3, ReqKept DEF Crash
  <2> QED
    BY <2>2, <2>3
<1>7. CASE UNCHANGED vars
  BY <1>7, ReqKept DEF vars
<1> QED
  BY <1>1, <1>2, <1>3, <1>4, <1>5, <1>6, <1>7 DEF Next

-----------------------------------------------------------------------------
(***************************************************************************)
(* Time                                                                    *)
(***************************************************************************)
\* How the phase of a slot may change, and what the requests do meanwhile.
PhaseMoves(s) ==
  \/ phase'[s] = phase[s]
  \/ phase[s] = Unborn /\ phase'[s] \in {Week, Days, Soon} /\ req' = req
  \/ /\ phase[s] \in Week..Running /\ phase'[s] = phase[s] + 1 /\ req' = req
     /\ \A r \in Requests : InFlight(r) /\ req[r].slot = s => req[r].at = phase[s]

\* How the phase of a slot moves in a step.
LEMMA PhaseStep ==
  ASSUME IInv, [Next]_vars, NEW s \in Slots
  PROVE  PhaseMoves(s)
<1>a. phase \in [Slots -> Phases]
  BY DEF IInv, TypeOK
<1>1. CASE UNCHANGED phase
  BY <1>1 DEF PhaseMoves
<1>2. ASSUME NEW t \in Slots, Tick(t) PROVE PhaseMoves(s)
  BY <1>a, <1>2 DEF Tick, PhaseMoves
<1>3. ASSUME NEW u \in Lecturers, NEW t \in Slots, NEW ph \in Phases, AddSlot(u, t, ph)
      PROVE  PhaseMoves(s)
  BY <1>a, <1>3 DEF AddSlot, PhaseMoves
<1> QED
  BY <1>1, <1>2, <1>3, ContinueFrame
  DEF Next, Configure, SetCoaching, DeleteCoaching, Arrive, BookFindSlot, CancelFindSlot,
      DeleteFindSlot, Frame, Cleanup, CleanupBegin, CleanupTake, CleanupPay, CleanupXp,
      CleanupCallFails, CleanupCommit, CleanupCommitFails, Crash, vars, IInv

\* Every step keeps requests within one phase of their slot's.
LEMMA TimingStep == IInv /\ [Next]_vars => Timing'
<1> SUFFICES ASSUME IInv, [Next]_vars PROVE Timing'
  OBVIOUS
<1>a. /\ req \in [Requests -> Request] /\ phase \in [Slots -> Phases]
      /\ slot \in [Slots -> Row \cup {NoRow}]
  BY DEF IInv, TypeOK
<1> USE DEF Phases, Unborn, Week, Days, Soon, Running, Over
<1>1. \A s \in Slots : phase'[s] = Unborn => slot'[s] = NoRow
  BY <1>a, OwnersKept, PhaseStep DEF PhaseMoves, IInv, Timing
<1>2. ASSUME NEW r \in Requests, InFlight(r)'
      PROVE  /\ phase'[req'[r].slot] \in {req'[r].at, req'[r].at + 1}
             /\ req'[r].pc \in BookPcs => req'[r].at \in {Week, Days}
             /\ req'[r].pc \in CancelPcs => req'[r].at \in {Week, Days, Soon}
  <2>1. CASE req'[r] = req[r]
    <3>1. InFlight(r) /\ req[r].pc # "idle"
      BY <1>2, <2>1 DEF InFlight, InFlightPcs
    <3>2. req[r].slot \in Slots /\ phase[req[r].slot] # Unborn
      BY <3>1 DEF IInv, ReqOK
    <3>3. PhaseMoves(req[r].slot)
      BY <3>2, PhaseStep
    <3> QED
      BY <1>a, <2>1, <3>1, <3>2, <3>3 DEF PhaseMoves, IInv, Timing
  <2>2. CASE Arrive(r)
    <3>1. ASSUME NEW u \in Users, NEW s \in Slots, NEW k \in Skills, BookFindSlot(r, u, s, k)
          PROVE  /\ req'[r].slot = s /\ req'[r].at = phase[s] /\ req'[r].pc \notin CancelPcs
                 /\ phase' = phase /\ phase[s] \in {Week, Days}
      BY <1>a, <3>1 DEF BookFindSlot, Bookable, Start, Reading, IdleRequest, CancelPcs
    <3>2. ASSUME NEW u \in Users, NEW s \in Slots, DeleteFindSlot(r, u, s)
          PROVE  /\ req'[r].slot = s /\ req'[r].at = phase[s]
                 /\ req'[r].pc \notin BookPcs \cup CancelPcs /\ phase' = phase
      BY <1>a, <3>2 DEF DeleteFindSlot, Start, Reading, IdleRequest, BookPcs, CancelPcs
    <3>3. ASSUME NEW u \in Users, NEW s \in Slots, CancelFindSlot(r, u, s)
          PROVE  /\ req'[r].slot = s /\ req'[r].at = phase[s] /\ req'[r].pc \notin BookPcs
                 /\ phase' = phase /\ phase[s] \in {Week, Days, Soon}
      BY <3>3, CancelStart DEF CancelStarts, BookPcs, IInv
    <3> QED
      BY <2>2, <3>1, <3>2, <3>3 DEF Arrive
  <2>3. CASE Continue(r)
    <3>1. Frame(r)
      BY <2>3, ContinueFrame DEF IInv
    <3> QED
      BY <3>1 DEF Frame, IInv, Timing
  <2>4. CASE Crash
    BY <1>2, <1>a, <2>1, <2>4 DEF Crash, InFlight, InFlightPcs, Request
  <2>5. CASE \E p \in Requests \ {r} : Arrive(p) \/ Continue(p)
    <3>1. PICK p \in Requests \ {r} : Arrive(p) \/ Continue(p)
      BY <2>5
    <3>2. req'[r] = req[r]
      BY <1>a, <3>1, ContinueFrame DEF Arrive, BookFindSlot, CancelFindSlot, DeleteFindSlot,
         Start, Frame, IInv
    <3> QED
      BY <2>1, <3>2
  <2>6. CASE req' = req
    BY <2>1, <2>6
  <2> QED
    BY <2>2, <2>3, <2>4, <2>5, <2>6
    DEF Next, Configure, AddSlot, SetCoaching, DeleteCoaching, Tick, Cleanup, CleanupBegin,
        CleanupTake, CleanupPay, CleanupXp, CleanupCallFails, CleanupCommit,
        CleanupCommitFails, vars
<1> QED
  BY <1>1, <1>2 DEF Timing, InFlight

\* Every step keeps the cleanup on a slot of its result set.
LEMMA CleanerStep == IInv /\ [Next]_vars => CleanerOK'
<1> SUFFICES ASSUME IInv, [Next]_vars PROVE CleanerOK'
  OBVIOUS
<1>a. cleaner \in Cleaner /\ CleanerOK
  BY DEF IInv, TypeOK
<1>1. CASE UNCHANGED cleaner
  BY <1>a, <1>1 DEF CleanerOK
<1>2. CASE cleaner' = IdleCleaner
  BY <1>2 DEF CleanerOK, IdleCleaner
<1>3. CASE CleanupBegin
  BY <1>3 DEF CleanupBegin, CleanerOK, IdleCleaner
<1>4. ASSUME NEW s \in Slots, CleanupTake(s) PROVE CleanerOK'
  BY <1>a, <1>4 DEF CleanupTake, CleanerOK, Cleaner
<1>5. CASE CleanupPay
  BY <1>a, <1>5 DEF CleanupPay, CleanerOK, Cleaner
<1>6. CASE CleanupXp
  BY <1>a, <1>6 DEF CleanupXp, CleanerOK, Cleaner
<1> QED
  BY <1>1, <1>2, <1>3, <1>4, <1>5, <1>6, ContinueFrame
  DEF Next, Configure, AddSlot, SetCoaching, DeleteCoaching, Arrive, BookFindSlot,
      CancelFindSlot, DeleteFindSlot, Frame, Tick, Cleanup, CleanupCallFails, LoopGoesOn,
      CleanupCommit, CleanupCommitFails, Crash, vars, IInv

-----------------------------------------------------------------------------
(***************************************************************************)
(* Bookings                                                                *)
(***************************************************************************)
\* How a row may change.
RowMoves(s) ==
  \/ slot'[s] = slot[s]
  \/ slot'[s] = NoRow /\ \E r \in Requests : DeleteCommit(r) /\ req[r].slot = s
  \/ slot'[s] = NoRow /\ s \in cleaner.dels /\ (CleanupCommit \/ CleanupCallFails)
  \/ phase[s] = Unborn /\ \E u \in Users : slot'[s] = FreshRow(u)
  \/ \E r \in Requests : /\ CancelCommit(r) /\ req[r].slot = s /\ slot[s] # NoRow
                         /\ slot'[s] = CancelledRow(slot[s]) /\ req'[r].pc = "cancelled"
  \/ \E r \in Requests : /\ BookCommit(r) /\ req[r].slot = s /\ slot[s] # NoRow
                         /\ slot'[s] = BookingRow(r) /\ req'[r].pc = "booked"

\* How a row may change in a step: it is added, booked, cancelled or removed.
LEMMA RowStep ==
  ASSUME IInv, [Next]_vars, NEW s \in Slots
  PROVE  RowMoves(s)
<1>a. slot \in [Slots -> Row \cup {NoRow}] /\ req \in [Requests -> Request]
  BY DEF IInv, TypeOK
<1>1. CASE UNCHANGED slot
  BY <1>1 DEF RowMoves
<1>2. ASSUME NEW u \in Lecturers, NEW t \in Slots, NEW ph \in Phases, AddSlot(u, t, ph)
      PROVE  RowMoves(s)
  BY <1>a, <1>2, CoachingAssumption DEF AddSlot, RowMoves
<1>3. ASSUME NEW r \in Requests, BookCommit(r) PROVE RowMoves(s)
  <2>1. CASE slot[req[r].slot] # NoRow /\ slot' = [slot EXCEPT ![req[r].slot] = BookingRow(r)]
             /\ req' = [req EXCEPT ![r].pc = "booked"]
    <3>1. CASE s = req[r].slot
      <4>1. req'[r].pc = "booked"
        BY <1>a, <2>1 DEF Request
      <4>2. slot'[s] = BookingRow(r)
        BY <1>a, <2>1, <3>1
      <4> QED
        BY <1>3, <2>1, <3>1, <4>1, <4>2 DEF RowMoves
    <3>2. CASE s # req[r].slot
      BY <1>a, <2>1, <3>2 DEF RowMoves
    <3> QED
      BY <3>1, <3>2
  <2> QED
    BY <1>1, <1>3, <2>1 DEF BookCommit
<1>4. ASSUME NEW r \in Requests, CancelCommit(r) PROVE RowMoves(s)
  <2>1. CASE slot[req[r].slot] # NoRow /\ req' = [req EXCEPT ![r].pc = "cancelled"]
             /\ slot' = [slot EXCEPT ![req[r].slot] = CancelledRow(@)]
    <3>1. req'[r].pc = "cancelled"
      BY <1>a, <2>1 DEF Request
    <3>2. CASE s = req[r].slot
      <4>1. slot'[s] = CancelledRow(slot[s])
        BY <1>a, <2>1, <3>2
      <4> QED
        BY <1>4, <2>1, <3>1, <3>2, <4>1 DEF RowMoves
    <3>3. CASE s # req[r].slot
      BY <1>a, <2>1, <3>3 DEF RowMoves
    <3> QED
      BY <3>2, <3>3
  <2> QED
    BY <1>1, <1>4, <2>1 DEF CancelCommit
<1>5. ASSUME NEW r \in Requests, DeleteCommit(r) PROVE RowMoves(s)
  <2>1. slot' = [slot EXCEPT ![req[r].slot] = NoRow]
    BY <1>5 DEF DeleteCommit
  <2>2. CASE s = req[r].slot
    <3>1. slot'[s] = NoRow
      BY <1>a, <2>1, <2>2
    <3> QED
      BY <1>5, <2>2, <3>1 DEF RowMoves
  <2>3. CASE s # req[r].slot
    BY <1>a, <2>1, <2>3 DEF RowMoves
  <2> QED
    BY <2>2, <2>3
<1>6. CASE CleanupCommit \/ CleanupCallFails
  <2>1. slot'[s] = IF s \in cleaner.dels THEN NoRow ELSE slot[s]
    BY <1>6 DEF CleanupCommit, CleanupCallFails, DeletedSoFar, WithoutDeleted
  <2> QED
    BY <1>6, <2>1 DEF RowMoves
<1> QED
  BY <1>1, <1>2, <1>3, <1>4, <1>5, <1>6
  DEF Next, Configure, SetCoaching, DeleteCoaching, Arrive, BookFindSlot, CancelFindSlot,
      DeleteFindSlot, Continue, BookFindCoaching, BookReject, BookFindEmergency, BookSpend,
      BookSpendFails, CancelGrant, CancelRefundStudent, CancelRefundInstructor,
      CancelRefundFails, Tick, Cleanup, CleanupBegin, CleanupTake, CleanupPay, CleanupXp,
      CleanupCommitFails, Crash, vars

\* A request that has ended never changes again.
LEMMA FinalKept ==
  ASSUME IInv, [Next]_vars, NEW p \in Requests, req[p].pc \in Final
  PROVE  req'[p] = req[p]
<1>a. req \in [Requests -> Request] /\ ~InFlight(p) /\ req[p].pc # "idle"
  BY DEF IInv, TypeOK, InFlight, InFlightPcs, Final
<1>1. ASSUME NEW r \in Requests, Arrive(r) PROVE req'[p] = req[p]
  BY <1>a, <1>1 DEF Arrive, BookFindSlot, CancelFindSlot, DeleteFindSlot, Start
<1>2. ASSUME NEW r \in Requests, Continue(r) PROVE req'[p] = req[p]
  BY <1>a, <1>2, ContinueFrame DEF Frame, IInv
<1>3. CASE Crash
  BY <1>a, <1>3 DEF Crash
<1>4. CASE req' = req
  BY <1>4
<1> QED
  BY <1>1, <1>2, <1>3, <1>4
  DEF Next, Configure, AddSlot, SetCoaching, DeleteCoaching, Tick, Cleanup, CleanupBegin,
      CleanupTake, CleanupPay, CleanupXp, CleanupCallFails, CleanupCommit,
      CleanupCommitFails, vars

\* Every step keeps booked slots backed by a paid booking.
LEMMA BackedStep == IInv /\ [Next]_vars => BookingBacked'
<1> SUFFICES ASSUME IInv, [Next]_vars, NEW s \in Slots, Booked(slot[s])'
             PROVE  LET row == slot[s]' b == row.booking IN
                    /\ b \in Requests /\ req'[b].pc = "booked" /\ req'[b].slot = s
                    /\ row.booked_by = req'[b].user /\ row.booked_by # row.owner
                    /\ row.student_coins = req'[b].price
                    /\ row.instructor_coins = InstructorShare(req'[b].price)
                    /\ req'[b].charged = req'[b].price \/ req'[b].ec = "delete"
  BY DEF BookingBacked
<1>1. CASE slot'[s] = slot[s]
  <2>1. Booked(slot[s])
    BY <1>1 DEF Booked
  <2>2. slot[s].booking \in Requests /\ req[slot[s].booking].pc = "booked"
    BY <2>1 DEF IInv, BookingBacked
  <2>3. req'[slot[s].booking] = req[slot[s].booking]
    BY <2>2, FinalKept DEF Final
  <2> QED
    BY <1>1, <2>1, <2>3 DEF IInv, BookingBacked
<1>2. CASE slot'[s] = NoRow \/ \E u : slot'[s] = FreshRow(u)
  <2>1. ASSUME NEW u, slot'[s] = FreshRow(u) PROVE slot'[s].booked_by = None
    BY <2>1 DEF FreshRow
  <2> QED
    BY <1>2, <2>1 DEF Booked
<1>3. ASSUME NEW r \in Requests, BookCommit(r), req[r].slot = s, slot[s] # NoRow,
             slot'[s] = BookingRow(r), req'[r].pc = "booked"
      PROVE  LET row == slot[s]' b == row.booking IN
             /\ b = r /\ req'[b].slot = s
             /\ row.booked_by = req'[b].user /\ row.booked_by # row.owner
             /\ row.student_coins = req'[b].price
             /\ row.instructor_coins = InstructorShare(req'[b].price)
             /\ req'[b].charged = req'[b].price \/ req'[b].ec = "delete"
  <2>1. slot[s] \in Row /\ req[r] \in Request /\ req \in [Requests -> Request] /\ ReqOK(r)
    BY <1>3 DEF IInv, TypeOK
  <2>2. req' = [req EXCEPT ![r].pc = "booked"]
    BY <1>3, <2>1 DEF BookCommit, Request
  <2>3. /\ req'[r].slot = req[r].slot /\ req'[r].user = req[r].user
        /\ req'[r].price = req[r].price /\ req'[r].charged = req[r].charged
        /\ req'[r].ec = req[r].ec
    BY <2>1, <2>2 DEF Request
  <2>4. /\ slot[s].owner = req[r].seen.owner /\ req[r].user # req[r].seen.owner
        /\ req[r].charged = req[r].price \/ req[r].ec = "delete"
    BY <1>3, <2>1 DEF BookCommit, ReqOK, BookPcs
  <2>5. /\ slot'[s].owner = slot[s].owner /\ slot'[s].booking = r
        /\ slot'[s].booked_by = req[r].user /\ slot'[s].student_coins = req[r].price
        /\ slot'[s].instructor_coins = InstructorShare(req[r].price)
    BY <1>3, <2>1 DEF BookingRow, Row
  <2> QED
    BY <1>3, <2>3, <2>4, <2>5
<1> QED
  BY <1>1, <1>2, <1>3, RowStep DEF RowMoves, CancelledRow

\* What earns an emergency cancellation is never taken back.
LEMMA EarnedKept ==
  ASSUME IInv, [Next]_vars, NEW u, EarnedBy(u)
  PROVE  EarnedBy(u)'
<1>1. PICK c \in Requests : req[c].ec = "create" /\ req[c].user = u
                            /\ req[c].pc \in {"cancelled", "failed"}
  BY DEF EarnedBy
<1>2. req'[c] = req[c]
  BY <1>1, FinalKept DEF Final
<1> QED
  BY <1>1, <1>2 DEF EarnedBy

\* Every step keeps emergency_cancel rows earned.
LEMMA EmergencyRowEarned ==
  ASSUME IInv, [Next]_vars, NEW u \in emergency'
  PROVE  EarnedBy(u)'
<1>1. CASE u \in emergency
  BY <1>1, EarnedKept DEF IInv, EmergencyEarned
<1>2. ASSUME NEW r \in Requests, req[r].ec = "create", u = req[r].seen.owner,
             req'[r].ec = "create", req'[r].user = req[r].user,
             req'[r].pc \in {"cancelled", "failed"}
      PROVE  EarnedBy(u)'
  <2>1. req[r].user = u
    BY <1>2 DEF IInv, ReqOK
  <2> QED
    BY <1>2, <2>1 DEF EarnedBy
<1>3. ASSUME NEW r \in Requests, CancelCommit(r) \/ CancelRefundFails(r), u \notin emergency
      PROVE  EarnedBy(u)'
  <2>1. req \in [Requests -> Request] /\ req[r] \in Request
    BY DEF IInv, TypeOK
  <2>2. req[r].ec = "create" /\ u = req[r].seen.owner
    BY <1>3 DEF CancelCommit, CancelRefundFails, Granted
  <2>3. req'[r].ec = "create" /\ req'[r].user = req[r].user
        /\ req'[r].pc \in {"cancelled", "failed"}
    BY <1>3, <2>1, <2>2 DEF CancelCommit, CancelRefundFails, Request
  <2> QED
    BY <1>2, <2>2, <2>3
<1>4. CASE \E r \in Requests : BookCommit(r)
  BY <1>1, <1>4 DEF BookCommit, AfterBooking
<1> QED
  BY <1>1, <1>3, <1>4
  DEF Next, Configure, AddSlot, SetCoaching, DeleteCoaching, Arrive, BookFindSlot,
      CancelFindSlot, DeleteFindSlot, Continue, BookFindCoaching, BookReject,
      BookFindEmergency, BookSpend, BookSpendFails, CancelGrant, CancelRefundStudent,
      CancelRefundInstructor, DeleteCommit, Tick, Cleanup, CleanupBegin, CleanupTake,
      CleanupPay, CleanupXp, CleanupCallFails, CleanupCommit, CleanupCommitFails, Crash, vars

\* Every step keeps free bookings earned.
LEMMA FreeBookingEarned ==
  ASSUME IInv, [Next]_vars, NEW b \in Requests, req'[b].ec = "delete"
  PROVE  EarnedBy(req[b].seen.owner)' /\ req'[b].seen = req[b].seen
<1>a. req \in [Requests -> Request] /\ req[b] \in Request
  BY DEF IInv, TypeOK
<1>1. CASE req'[b] = req[b]
  BY <1>1, EarnedKept DEF IInv, EmergencyEarned
<1>2. ASSUME NEW r \in Requests, Arrive(r) PROVE req'[b] = req[b]
  <2>1. CASE b = r
    <3>1. ASSUME NEW u \in Users, NEW s \in Slots, CancelFindSlot(r, u, s) PROVE FALSE
      BY <2>1, <3>1, CancelStart DEF CancelStarts, IInv
    <3>2. ASSUME NEW u \in Users, NEW s \in Slots, NEW k \in Skills, BookFindSlot(r, u, s, k)
          PROVE  FALSE
      BY <1>a, <2>1, <3>2 DEF BookFindSlot, Start, Reading, IdleRequest
    <3>3. ASSUME NEW u \in Users, NEW s \in Slots, DeleteFindSlot(r, u, s) PROVE FALSE
      BY <1>a, <2>1, <3>3 DEF DeleteFindSlot, Start, Reading, IdleRequest
    <3> QED
      BY <1>2, <3>1, <3>2, <3>3 DEF Arrive
  <2>2. CASE b # r
    BY <1>a, <1>2, <2>2 DEF Arrive, BookFindSlot, CancelFindSlot, DeleteFindSlot, Start
  <2> QED
    BY <2>1, <2>2
<1>3. ASSUME NEW r \in Requests, Continue(r), b # r PROVE req'[b] = req[b]
  BY <1>3, ContinueFrame DEF Frame, IInv
<1>4. CASE Continue(b)
  <2>1. req'[b].seen = req[b].seen
    BY <1>4, ContinueFrame DEF Frame, IInv
  <2>2. CASE req[b].ec = "delete"
    BY <2>1, <2>2, EarnedKept DEF IInv, EmergencyEarned
  <2>3. CASE BookFindEmergency(b) /\ req[b].ec # "delete"
    <3>1. req[b].seen.owner \in emergency
      BY <1>a, <2>3 DEF BookFindEmergency, Request
    <3> QED
      BY <2>1, <3>1, EarnedKept DEF IInv, EmergencyEarned
  <2>4. CASE ~BookFindEmergency(b)
    <3>1. req'[b].ec = "delete" => req[b].ec = "delete"
      BY <1>a, <1>4, <2>4
      DEF Continue, BookFindCoaching, BookReject, BookSpend, BookSpendFails, BookCommit,
          CancelGrant, CancelRefundStudent, CancelRefundInstructor, CancelRefundFails,
          CancelCommit, DeleteCommit, Request
    <3> QED
      BY <2>2, <3>1
  <2> QED
    BY <2>2, <2>3, <2>4
<1>5. CASE Crash
  BY <1>1, <1>a, <1>5 DEF Crash, Request
<1>6. CASE req' = req
  BY <1>1, <1>6
<1> QED
  BY <1>1, <1>2, <1>3, <1>4, <1>5, <1>6
  DEF Next, Configure, AddSlot, SetCoaching, DeleteCoaching, Tick, Cleanup, CleanupBegin,
      CleanupTake, CleanupPay, CleanupXp, CleanupCallFails, CleanupCommit,
      CleanupCommitFails, vars

\* Both together.
LEMMA EarnedStep == IInv /\ [Next]_vars => EmergencyEarned'
<1> SUFFICES ASSUME IInv, [Next]_vars PROVE EmergencyEarned'
  OBVIOUS
<1>1. \A u \in emergency' : EarnedBy(u)'
  BY EmergencyRowEarned
<1>2. \A b \in Requests : (req[b].ec = "delete" => EarnedBy(req[b].seen.owner))'
  BY FreeBookingEarned
<1> QED
  BY <1>1, <1>2 DEF EmergencyEarned

-----------------------------------------------------------------------------
(***************************************************************************)
(* The invariant and what follows from it                                  *)
(***************************************************************************)
LEMMA InitIInv == Init => IInv
<1> SUFFICES ASSUME Init PROVE IInv
  OBVIOUS
<1> USE CoachingAssumption, NoRowAssumption DEF Init
<1>1. IdleRequest \in Request /\ IdleCleaner \in Cleaner
  BY DEF IdleRequest, Request, IdleCleaner, Cleaner, Phases, Unborn, Over
<1>2. TypeOK
  BY <1>1 DEF TypeOK, Phases, Unborn, Over
<1>3. \A r \in Requests : req[r] = IdleRequest
  OBVIOUS
<1>4. \A r \in Requests : ReqOK(r)
  BY <1>3 DEF ReqOK, IdleRequest, BookPcs, CancelPcs
<1>5. Timing
  BY <1>3 DEF Timing, InFlight, InFlightPcs, IdleRequest
<1>6. CleanerOK
  BY DEF CleanerOK, IdleCleaner
<1>7. BookingBacked
  BY DEF BookingBacked, Booked
<1>8. EmergencyEarned
  BY <1>3 DEF EmergencyEarned, IdleRequest
<1> QED
  BY <1>2, <1>4, <1>5, <1>6, <1>7, <1>8 DEF IInv

\* The invariant is inductive.
LEMMA StepIInv == IInv /\ [Next]_vars => IInv'
BY TypeStep, ReqStep, TimingStep, CleanerStep, BackedStep, EarnedStep DEF IInv

\* The invariant holds in every reachable state.
LEMMA Invariance == Spec => []IInv
BY InitIInv, StepIInv, PTL DEF Spec

\* Every variable keeps its type and the columns of a slot are set together.
THEOREM TypeCorrect == Spec => []TypeOK
<1>1. IInv => TypeOK
  BY DEF IInv
<1> QED
  BY <1>1, Invariance, PTL

\* A booked slot shows a booking that its student made and paid for, or that an
\* emergency cancellation of the instructor made free, whatever overlaps, fails
\* or restarts.
THEOREM BookingsAreBacked == Spec => []BookingBacked
<1>1. IInv => BookingBacked
  BY DEF IInv
<1> QED
  BY <1>1, Invariance, PTL

\* Nobody has an emergency cancellation, and no booking is free, that was not
\* earned by a cancellation of the instructor.
THEOREM EmergenciesAreEarned == Spec => []EmergencyEarned
<1>1. IInv => EmergencyEarned
  BY DEF IInv
<1> QED
  BY <1>1, Invariance, PTL

\* A slot that is over is only ever removed: requests that were accepted before
\* its start have written by then.
THEOREM OverSlotsAreFrozen == Spec => OverIsFrozen
<1>1. IInv /\ [Next]_vars =>
        [\A s \in Slots : phase[s] = Over => slot'[s] \in {slot[s], NoRow}]_vars
  <2> SUFFICES ASSUME IInv, [Next]_vars, NEW s \in Slots, phase[s] = Over
               PROVE  slot'[s] \in {slot[s], NoRow}
    OBVIOUS
  <2>1. ASSUME NEW r \in Requests, req[r].slot = s, req[r].pc \in {"commit_cancel", "commit_booking"}
        PROVE  FALSE
    BY <2>1 DEF IInv, Timing, InFlight, InFlightPcs, BookPcs, CancelPcs,
                Week, Days, Soon, Over
  <2>2. RowMoves(s)
    BY RowStep
  <2>3. \A r \in Requests : req[r].slot = s => ~BookCommit(r) /\ ~CancelCommit(r)
    BY <2>1 DEF BookCommit, CancelCommit
  <2> QED
    BY <2>2, <2>3 DEF RowMoves, Unborn, Over
<1> QED
  BY <1>1, Invariance, PTL DEF Spec, OverIsFrozen

-----------------------------------------------------------------------------
(***************************************************************************)
(* Part 2.  What a booking gives out is bounded only because of what every *)
(* request and the cleanup have read.  The ledger invariant LInv says it: a *)
(* request gives back what a backed row said (AllSeen); what it has read   *)
(* is still true unless its owner is contended (Contention); a slot that   *)
(* is over keeps its row until the cleanup has paid (LateDelete, PassOK,   *)
(* PaidOK); the books of grants (GrantsOK) and of coins (GivenOK) balance. *)
(* The refinement needs the same: a step that would break the promise      *)
(* about a slot is one that only a contended owner's slots can take.       *)
(***************************************************************************)

\* What a booked row of slot s says is true of the request that booked it.
RowBacked(requests, row, s) ==
  LET b == row.booking q == requests[b] IN
  /\ b \in Requests /\ q.pc = "booked" /\ q.slot = s
  /\ q.seen.owner = row.owner
  /\ row.student_coins = q.price
  /\ row.instructor_coins = InstructorShare(q.price)

\* What request r has read, and what it gave back of it.
SeenOK(r) ==
  LET q == req[r] IN
  /\ q.pc \in BookPcs \cup {"commit_delete"} => ~Booked(q.seen)
  /\ q.pc \in CancelPcs \cup {"cancelled"} => Booked(q.seen)
  /\ Booked(q.seen) => RowBacked(req, q.seen, q.slot)
  /\ q.pc \in CancelPcs => q.to_student <= q.seen.student_coins
  /\ q.refunded > 0 => /\ Booked(q.seen) /\ q.refunded <= q.seen.student_coins
                       /\ q.pc \in {"refund_instructor", "commit_cancel", "cancelled", "failed"}

\* Two requests that work on slots of one owner have made that owner contended;
\* while nobody contends, a request's slot is still what it read.
Contention ==
  /\ \A r, q \in Requests :
       r # q /\ InFlight(r) /\ InFlight(q) /\ req[r].seen.owner = req[q].seen.owner
         => req[r].seen.owner \in contended
  /\ \A r \in Requests :
       InFlight(r) /\ req[r].seen.owner \notin contended /\ slot[req[r].slot] # NoRow
         => slot[req[r].slot] = req[r].seen
  /\ \A r \in Requests :
       req[r].pc \in BookPcs \cup CancelPcs /\ req[r].seen.owner \notin contended
         => slot[req[r].slot] # NoRow

\* A deletion that read its slot after the start leaves no booking to lose.
LateDelete ==
  \A r \in Requests : req[r].pc = "commit_delete" /\ req[r].at \in {Running, Over}
    => ~Booked(slot[req[r].slot])

\* The pass of the cleanup and the rows it selected.
PassOK ==
  /\ cleaner.pc = "idle" => cleaner = IdleCleaner
  /\ \A s \in Slots : cleaner.rows[s] # NoRow =>
       phase[s] = Over /\ slot[s] \in {cleaner.rows[s], NoRow}
  /\ \A s \in Slots : Booked(cleaner.rows[s]) => slot[s] = cleaner.rows[s]
  /\ cleaner.pc \in {"pay", "xp"} =>
       /\ cleaner.cur \in Todo /\ Booked(cleaner.rows[cleaner.cur])
       /\ cleaner.pc = "pay" => cleaner.rows[cleaner.cur].instructor_coins # 0
  /\ \A s \in cleaner.dels : cleaner.rows[s] # NoRow

\* The pass is done with the payout for slot s.
PassPaid(s) == s \in cleaner.dels \/ (cleaner.pc = "xp" /\ cleaner.cur = s)

PaidOK ==
  /\ \A s \in Slots : Booked(slot[s]) /\ PassPaid(s) =>
       slot[s].instructor_coins = 0 \/ payouts[slot[s].booking] > 0
  /\ \A b \in Requests : payouts[b] > 0 => req[b].pc = "booked"
  /\ PayoutsBounded
  /\ \A s \in Slots : Booked(slot[s]) /\ ~PassPaid(s) => payouts[slot[s].booking] <= failures

\* Emergency cancellations of an owner that nobody contends.
GrantsOK ==
  \A u \in Users \ contended :
    /\ IsFiniteSet(FreeBookings(u)) /\ IsFiniteSet(Grants(u))
    /\ Cardinality(FreeBookings(u)) + (IF u \in emergency THEN 1 ELSE 0)
         = Cardinality(Grants(u))
    /\ \A r \in Requests : InFlight(r) /\ req[r].seen.owner = u =>
         /\ req[r].ec = "create" => u \notin emergency
         /\ req[r].ec = "delete" => u \in emergency

\* The coins of booking b can still be given out by nobody but a later request.
Open(b) ==
  /\ Booked(slot[req[b].slot]) /\ slot[req[b].slot].booking = b
  /\ ~PassPaid(req[b].slot)
  /\ \A c \in Refunds(b) : ~InFlight(c)

GivenOK ==
  \A b \in Bookings : req[b].seen.owner \notin contended =>
    /\ IsFiniteSet(Refunds(b))
    /\ Cardinality(Refunds(b)) + payouts[b] <= 1 + failures
    /\ Open(b) => Cardinality(Refunds(b)) + payouts[b] <= failures

AllSeen == \A r \in Requests : SeenOK(r)

LInv == /\ IInv /\ AllSeen /\ Contention /\ LateDelete
        /\ PassOK /\ PaidOK /\ GrantsOK /\ GivenOK

-----------------------------------------------------------------------------
(***************************************************************************)
(* What a step may do to a request, and what stays true of a booking       *)
(***************************************************************************)
ReqMoves(p) ==
  \/ req'[p] = req[p]
  \/ Arrive(p)
  \/ Continue(p)
  \/ Crash /\ InFlight(p) /\ req'[p] = [req[p] EXCEPT !.pc = "failed", !.ec = "keep"]

\* A request arrives, goes on, is lost in a crash, or is left alone.
LEMMA ReqStepMoves ==
  ASSUME IInv, [Next]_vars, NEW p \in Requests
  PROVE  ReqMoves(p)
<1>a. req \in [Requests -> Request]
  BY DEF IInv, TypeOK
<1>1. ASSUME NEW r \in Requests, Arrive(r) PROVE ReqMoves(p)
  <2>1. \E new : Start(r, new)
    BY <1>1 DEF Arrive, BookFindSlot, CancelFindSlot, DeleteFindSlot
  <2>2. p # r => req'[p] = req[p]
    BY <1>a, <2>1 DEF Start
  <2> QED
    BY <1>1, <2>2 DEF ReqMoves
<1>2. ASSUME NEW r \in Requests, Continue(r) PROVE ReqMoves(p)
  BY <1>2, ContinueFrame DEF Frame, IInv, ReqMoves
<1>3. CASE Crash
  <2>1. req'[p] = IF InFlight(p) THEN [req[p] EXCEPT !.pc = "failed", !.ec = "keep"]
                  ELSE req[p]
    BY <1>3 DEF Crash
  <2> QED
    BY <1>3, <2>1 DEF ReqMoves
<1>4. CASE req' = req
  BY <1>4 DEF ReqMoves
<1> QED
  BY <1>1, <1>2, <1>3, <1>4
  DEF Next, Configure, AddSlot, SetCoaching, DeleteCoaching, Tick, Cleanup, CleanupBegin,
      CleanupTake, CleanupPay, CleanupXp, CleanupCallFails, CleanupCommit,
      CleanupCommitFails, vars

\* A request in flight was in flight before and read the same, or has arrived.
StillReads(p) ==
  /\ InFlight(p)
  /\ req'[p].seen = req[p].seen /\ req'[p].slot = req[p].slot
  /\ req'[p].at = req[p].at
  /\ req'[p].pc \in BookPcs => req[p].pc \in BookPcs
  /\ req'[p].pc \in CancelPcs => req[p].pc \in CancelPcs
  /\ req'[p].pc = "commit_delete" => req[p].pc = "commit_delete"

\* A request in flight has just arrived, or still knows what it read.
LEMMA InFlightMoves ==
  ASSUME IInv, [Next]_vars, NEW p \in Requests, InFlight(p)'
  PROVE  StillReads(p) \/ Arrive(p)
<1>a. req \in [Requests -> Request] /\ req[p] \in Request
  BY DEF IInv, TypeOK
<1>1. CASE req'[p] = req[p]
  BY <1>1 DEF InFlight, StillReads
<1>2. CASE Continue(p)
  <2>1. Frame(p)
    BY <1>2, ContinueFrame DEF IInv
  <2> QED
    BY <2>1 DEF Frame, StillReads
<1>3. CASE Crash /\ req'[p] = [req[p] EXCEPT !.pc = "failed", !.ec = "keep"]
  BY <1>a, <1>3 DEF InFlight, InFlightPcs, Request
<1> QED
  BY <1>1, <1>2, <1>3, ReqStepMoves DEF ReqMoves

\* A booking keeps backing the row that shows it, wherever the row was copied.
LEMMA RowBackedKept ==
  ASSUME IInv, [Next]_vars, NEW row, NEW s, RowBacked(req, row, s)
  PROVE  RowBacked(req', row, s)
<1>1. req'[row.booking] = req[row.booking]
  BY FinalKept DEF RowBacked, Final
<1> QED
  BY <1>1 DEF RowBacked

\* The rows of booked slots are backed.
LEMMA SlotBacked ==
  ASSUME IInv, NEW s \in Slots, Booked(slot[s])
  PROVE  RowBacked(req, slot[s], s)
<1>1. LET row == slot[s] b == row.booking IN
      /\ b \in Requests /\ req[b].pc = "booked" /\ req[b].slot = s
      /\ row.student_coins = req[b].price
      /\ row.instructor_coins = InstructorShare(req[b].price)
  BY DEF IInv, BookingBacked
<1>2. slot[s].owner = req[slot[s].booking].seen.owner
  BY <1>1 DEF IInv, ReqOK, Booked
<1> QED
  BY <1>1, <1>2 DEF RowBacked

-----------------------------------------------------------------------------
(***************************************************************************)
(* What the requests read                                                  *)
(***************************************************************************)
\* A refund is no more than what was paid.
LEMMA HalfBounds ==
  ASSUME NEW n \in Nat
  PROVE  n \div 2 \in Nat /\ n \div 2 <= n
OBVIOUS

\* A cancellation reads a booked slot and gives back no more than its price.
LEMMA CancelReads ==
  ASSUME IInv, NEW r \in Requests, NEW u \in Users, NEW s \in Slots, CancelFindSlot(r, u, s)
  PROVE  /\ req'[r].pc \in {"refund_student", "find_emergency_grant"}
         /\ Booked(slot[s]) /\ req'[r].seen = slot[s] /\ req'[r].slot = s
         /\ req'[r].refunded = 0 /\ req'[r].to_student <= slot[s].student_coins
         /\ req'[r].charged = 0
<1>a. /\ req \in [Requests -> Request] /\ slot[s].student_coins \in Nat
      /\ Booked(slot[s])
  BY DEF IInv, TypeOK, CancelFindSlot, Booked, FreshRow
<1> DEFINE paid == slot[s].student_coins
           back == StudentRefund(phase[s], paid)
           comp == InstructorCompensation(phase[s], slot[s].instructor_coins)
<1>1. back \in Nat /\ back <= paid /\ 0 <= paid
  BY <1>a, HalfBounds DEF StudentRefund
<1>2. PICK new : /\ Start(r, new)
                 /\ \/ new = [Reading(u, s, "refund_student") EXCEPT
                                !.to_student = back, !.to_instructor = comp]
                    \/ new = [Reading(u, s, "find_emergency_grant") EXCEPT
                                !.to_student = slot[s].student_coins]
                    \/ new = Reading(u, s, "refund_student")
  BY DEF CancelFindSlot
<1>3. req'[r] = new
  BY <1>a, <1>2 DEF Start
<1> HIDE DEF back, comp
<1>4. CASE new = [Reading(u, s, "refund_student") EXCEPT
                    !.to_student = back, !.to_instructor = comp]
  BY <1>a, <1>1, <1>3, <1>4 DEF Reading, IdleRequest
<1>5. CASE new = [Reading(u, s, "find_emergency_grant") EXCEPT
                    !.to_student = slot[s].student_coins]
  BY <1>a, <1>3, <1>5 DEF Reading, IdleRequest
<1>6. CASE new = Reading(u, s, "refund_student")
  BY <1>a, <1>1, <1>3, <1>6 DEF Reading, IdleRequest
<1> QED
  BY <1>2, <1>4, <1>5, <1>6

\* What a request has read when it starts.
LEMMA SeenArrive ==
  ASSUME IInv, [Next]_vars, NEW r \in Requests, Arrive(r)
  PROVE  SeenOK(r)'
<1>a. req \in [Requests -> Request] /\ slot' = slot
  BY DEF IInv, TypeOK, Arrive, BookFindSlot, CancelFindSlot, DeleteFindSlot
<1>1. ASSUME NEW u \in Users, NEW s \in Slots, NEW k \in Skills, BookFindSlot(r, u, s, k)
      PROVE  SeenOK(r)'
  <2>1. /\ ~Booked(slot[s]) /\ req'[r].seen = slot[s] /\ req'[r].refunded = 0
        /\ req'[r].pc = "find_coaching"
    BY <1>a, <1>1 DEF BookFindSlot, Bookable, Start, Reading, IdleRequest
  <2> QED
    BY <1>a, <2>1 DEF SeenOK, BookPcs, CancelPcs, Booked
<1>2. ASSUME NEW u \in Users, NEW s \in Slots, DeleteFindSlot(r, u, s)
      PROVE  SeenOK(r)'
  <2>1. /\ ~Booked(slot[s]) /\ req'[r].seen = slot[s] /\ req'[r].refunded = 0
        /\ req'[r].pc = "commit_delete"
    BY <1>a, <1>2 DEF DeleteFindSlot, Start, Reading, IdleRequest
  <2> QED
    BY <1>a, <2>1 DEF SeenOK, BookPcs, CancelPcs, Booked
<1>3. ASSUME NEW u \in Users, NEW s \in Slots, CancelFindSlot(r, u, s)
      PROVE  SeenOK(r)'
  <2>1. /\ req'[r].pc \in {"refund_student", "find_emergency_grant"}
        /\ Booked(slot[s]) /\ req'[r].seen = slot[s] /\ req'[r].slot = s
        /\ req'[r].refunded = 0 /\ req'[r].to_student <= slot[s].student_coins
    BY <1>3, CancelReads
  <2>2. RowBacked(req', slot[s], s)
    BY <1>a, <2>1, SlotBacked, RowBackedKept
  <2> QED
    BY <1>a, <2>1, <2>2 DEF SeenOK, BookPcs, CancelPcs, Booked, RowBacked
<1> QED
  BY <1>1, <1>2, <1>3 DEF Arrive

\* What a request has read and given back when it has gone on.
LEMMA SeenContinue ==
  ASSUME IInv, [Next]_vars, NEW r \in Requests, SeenOK(r), Continue(r)
  PROVE  SeenOK(r)'
<1> DEFINE q == req[r]
           Rest == /\ q'.pc \in CancelPcs \cup {"cancelled"} => q.pc \in CancelPcs
                   /\ q'.pc \in CancelPcs => q'.to_student = q.to_student
                   /\ q'.refunded > 0 =>
                        /\ q'.pc \in {"refund_instructor", "commit_cancel", "cancelled", "failed"}
                        /\ \/ q'.refunded = q.refunded
                           \/ q'.refunded = q.to_student /\ q.pc \in CancelPcs
<1>a. req \in [Requests -> Request] /\ req[r] \in Request /\ Frame(r)
  BY ContinueFrame DEF IInv, TypeOK
<1>b. Rest => SeenOK(r)'
  <2>1. Booked(q.seen) => RowBacked(req', q.seen, q.slot)
    BY RowBackedKept DEF SeenOK
  <2>2. /\ q'.seen = q.seen /\ q'.slot = q.slot
        /\ q'.pc \in BookPcs => q.pc \in BookPcs
        /\ q'.pc # "commit_delete"
    BY <1>a DEF Frame
  <2> QED
    BY <2>1, <2>2 DEF SeenOK
<1>1. CASE BookFindCoaching(r)
  BY <1>a, <1>b, <1>1 DEF BookFindCoaching, SeenOK, CancelPcs, Request
<1>2. CASE BookReject(r)
  BY <1>a, <1>b, <1>2 DEF BookReject, SeenOK, CancelPcs, Request
<1>3. CASE BookFindEmergency(r)
  BY <1>a, <1>b, <1>3 DEF BookFindEmergency, SeenOK, CancelPcs, Request
<1>4. CASE BookSpend(r)
  BY <1>a, <1>b, <1>4 DEF BookSpend, SeenOK, CancelPcs, Request
<1>5. CASE BookSpendFails(r)
  BY <1>a, <1>b, <1>5 DEF BookSpendFails, SeenOK, CancelPcs, Request
<1>6. CASE BookCommit(r)
  BY <1>a, <1>b, <1>6 DEF BookCommit, SeenOK, CancelPcs, Request
<1>7. CASE CancelGrant(r)
  BY <1>a, <1>b, <1>7 DEF CancelGrant, SeenOK, CancelPcs, Request
<1>8. CASE CancelRefundStudent(r)
  BY <1>a, <1>b, <1>8 DEF CancelRefundStudent, SeenOK, CancelPcs, Request
<1>9. CASE CancelRefundInstructor(r)
  BY <1>a, <1>b, <1>9 DEF CancelRefundInstructor, SeenOK, CancelPcs, Request
<1>10. CASE CancelRefundFails(r)
  BY <1>a, <1>b, <1>10 DEF CancelRefundFails, SeenOK, CancelPcs, Request
<1>11. CASE CancelCommit(r)
  BY <1>a, <1>b, <1>11 DEF CancelCommit, SeenOK, CancelPcs, Request
<1>12. CASE DeleteCommit(r)
  BY <1>a, <1>b, <1>12 DEF DeleteCommit, SeenOK, CancelPcs, Request
<1> QED
  BY <1>1, <1>2, <1>3, <1>4, <1>5, <1>6, <1>7, <1>8, <1>9, <1>10, <1>11, <1>12 DEF Continue

\* No step spoils what a request has read.
LEMMA SeenStep == LInv /\ [Next]_vars => AllSeen'
<1> SUFFICES ASSUME LInv, [Next]_vars, NEW p \in Requests PROVE SeenOK(p)'
  BY DEF AllSeen
<1>a. IInv /\ SeenOK(p) /\ req[p] \in Request
  BY DEF LInv, AllSeen, IInv, TypeOK
<1>b. ASSUME Booked(req[p].seen) PROVE RowBacked(req', req[p].seen, req[p].slot)
  BY <1>a, <1>b, RowBackedKept DEF SeenOK
<1>1. CASE req'[p] = req[p]
  BY <1>a, <1>b, <1>1 DEF SeenOK, Booked, RowBacked
<1>2. CASE Arrive(p)
  BY <1>a, <1>2, SeenArrive
<1>3. CASE Continue(p)
  BY <1>a, <1>3, SeenContinue
<1>4. CASE InFlight(p) /\ req'[p] = [req[p] EXCEPT !.pc = "failed", !.ec = "keep"]
  <2>1. /\ req'[p].seen = req[p].seen /\ req'[p].slot = req[p].slot
        /\ req'[p].refunded = req[p].refunded /\ req'[p].pc = "failed"
    BY <1>a, <1>4 DEF Request
  <2> QED
    BY <1>a, <1>b, <2>1 DEF SeenOK, Booked, RowBacked, BookPcs, CancelPcs
<1> QED
  BY <1>a, <1>1, <1>2, <1>3, <1>4, ReqStepMoves DEF ReqMoves

-----------------------------------------------------------------------------
(***************************************************************************)
(* Contention                                                              *)
(***************************************************************************)
\* What a request that arrives leaves alone, and whom it makes contended.
Started(r) ==
  /\ req'[r].pc \in {"find_coaching", "refund_student", "find_emergency_grant", "commit_delete"}
  /\ req'[r].slot \in Slots /\ req'[r].seen = slot[req'[r].slot]
  /\ req'[r].at = phase[req'[r].slot] /\ req'[r].seen # NoRow
  /\ req'[r].ec = "keep" /\ req'[r].refunded = 0

\* An arriving request reads one slot and moves nothing but itself; where another
\* request works on a slot of the same owner, the owner is contended from now on.
LEMMA ArriveMoves ==
  ASSUME IInv, NEW r \in Requests, Arrive(r)
  PROVE  /\ UNCHANGED <<slot, coaching, emergency, phase, cleaner, payouts, failures>>
         /\ req[r].pc = "idle" /\ contended \subseteq contended'
         /\ \A p \in Requests \ {r} : req'[p] = req[p]
         /\ \A p \in Requests : InFlight(p) /\ req[p].seen.owner = req'[r].seen.owner
              => req'[r].seen.owner \in contended'
         /\ Started(r)
<1>a. req \in [Requests -> Request]
  BY DEF IInv, TypeOK
<1>1. /\ UNCHANGED <<slot, coaching, emergency, phase, cleaner, payouts, failures>>
      /\ \E new : Start(r, new)
  BY DEF Arrive, BookFindSlot, CancelFindSlot, DeleteFindSlot
<1>2. /\ req[r].pc = "idle" /\ contended \subseteq contended'
      /\ \A p \in Requests \ {r} : req'[p] = req[p]
      /\ \A p \in Requests : InFlight(p) /\ req[p].seen.owner = req'[r].seen.owner
           => req'[r].seen.owner \in contended'
  BY <1>a, <1>1 DEF Start
<1>3. ASSUME NEW u \in Users, NEW s \in Slots, NEW k \in Skills, BookFindSlot(r, u, s, k)
      PROVE  Started(r)
  BY <1>a, <1>3 DEF BookFindSlot, Bookable, Start, Reading, IdleRequest, Started
<1>4. ASSUME NEW u \in Users, NEW s \in Slots, DeleteFindSlot(r, u, s)
      PROVE  Started(r)
  BY <1>a, <1>4 DEF DeleteFindSlot, Start, Reading, IdleRequest, Started
<1>5. ASSUME NEW u \in Users, NEW s \in Slots, CancelFindSlot(r, u, s)
      PROVE  Started(r)
  <2>1. CancelStarts(r, u, s)
    BY <1>5, CancelStart DEF IInv
  <2>2. req'[r].refunded = 0
    BY <1>5, CancelReads
  <2> QED
    BY <2>1, <2>2, NoRowAssumption DEF CancelStarts, Started
<1> QED
  BY <1>1, <1>2, <1>3, <1>4, <1>5 DEF Arrive

\* Nobody is taken off the list of contended owners.
LEMMA ContendedKept ==
  ASSUME IInv, [Next]_vars
  PROVE  contended \subseteq contended'
<1>1. ASSUME NEW r \in Requests, Arrive(r) PROVE contended \subseteq contended'
  BY <1>1, ArriveMoves
<1> QED
  BY <1>1 DEF Next, Configure, AddSlot, SetCoaching, DeleteCoaching, Continue,
      BookFindCoaching, BookReject, BookFindEmergency, BookSpend, BookSpendFails,
      BookCommit, CancelGrant, CancelRefundStudent, CancelRefundInstructor,
      CancelRefundFails, CancelCommit, DeleteCommit, Tick, Cleanup, CleanupBegin,
      CleanupTake, CleanupPay, CleanupXp, CleanupCallFails, CleanupCommit,
      CleanupCommitFails, Crash, vars

\* A cancellation writes before its slot is over, and so does a booking.
LEMMA WritesInTime ==
  ASSUME IInv, NEW r \in Requests, req[r].pc \in BookPcs \cup CancelPcs
  PROVE  InFlight(r) /\ req[r].slot \in Slots /\ phase[req[r].slot] \in Week..Running
<1>1. InFlight(r) /\ req[r].pc # "idle"
  BY DEF InFlight, InFlightPcs, BookPcs, CancelPcs
<1> QED
  BY <1>1 DEF IInv, Timing, ReqOK, Week, Days, Soon, Running

\* Every write to a slot is that of a request in flight on it, or the cleanup's
\* when the slot is over.
LEMMA Writers ==
  ASSUME IInv, PassOK, [Next]_vars, NEW s \in Slots, slot[s] # NoRow, slot'[s] # slot[s]
  PROVE  \/ \E q \in Requests :
              /\ InFlight(q) /\ ~InFlight(q)' /\ req[q].slot = s
              /\ \/ BookCommit(q) /\ slot'[s] = BookingRow(q) /\ req'[q].pc = "booked"
                 \/ CancelCommit(q) /\ slot'[s] = CancelledRow(slot[s])
                    /\ req'[q].pc = "cancelled"
                 \/ DeleteCommit(q) /\ slot'[s] = NoRow
         \/ /\ s \in cleaner.dels /\ (CleanupCommit \/ CleanupCallFails)
            /\ slot'[s] = NoRow /\ phase[s] = Over
<1>1. RowMoves(s)
  BY RowStep
<1>2. phase[s] # Unborn
  BY DEF IInv, Timing
<1>3. s \in cleaner.dels => phase[s] = Over
  BY DEF PassOK
<1>4. ASSUME NEW q \in Requests, BookCommit(q), req'[q].pc = "booked"
      PROVE  InFlight(q) /\ ~InFlight(q)'
  BY <1>4 DEF BookCommit, InFlight, InFlightPcs
<1>5. ASSUME NEW q \in Requests, CancelCommit(q), req'[q].pc = "cancelled"
      PROVE  InFlight(q) /\ ~InFlight(q)'
  BY <1>5 DEF CancelCommit, InFlight, InFlightPcs
<1>6. ASSUME NEW q \in Requests, DeleteCommit(q)
      PROVE  InFlight(q) /\ ~InFlight(q)'
  <2>1. req'[q].pc = "deleted" /\ req[q].pc = "commit_delete"
    BY <1>6 DEF DeleteCommit, IInv, TypeOK, Request
  <2> QED
    BY <2>1 DEF InFlight, InFlightPcs
<1> QED
  BY <1>1, <1>2, <1>3, <1>4, <1>5, <1>6 DEF RowMoves

\* While nobody contends for the owner of the slot that request r works on,
\* only r itself and the cleanup write that slot.
LEMMA NobodyElseWrites ==
  ASSUME LInv, [Next]_vars, NEW r \in Requests, InFlight(r), InFlight(r)',
         req[r].seen.owner \notin contended, slot[req[r].slot] # NoRow
  PROVE  \/ slot'[req[r].slot] = slot[req[r].slot]
         \/ slot'[req[r].slot] = NoRow /\ phase[req[r].slot] = Over
<1> DEFINE s == req[r].slot
<1>a. IInv /\ PassOK /\ Contention /\ s \in Slots /\ slot[s].owner = req[r].seen.owner
  BY DEF LInv, IInv, ReqOK, InFlight, InFlightPcs
<1>1. ASSUME NEW q \in Requests, InFlight(q), ~InFlight(q)', req[q].slot = s
      PROVE  FALSE
  <2>1. req[q].seen.owner = slot[s].owner
    BY <1>a, <1>1 DEF IInv, ReqOK, InFlight, InFlightPcs
  <2> QED
    BY <1>a, <1>1, <2>1 DEF Contention
<1> QED
  BY <1>a, <1>1, Writers

\* Every step keeps a slot that nobody contends as its reader knows it.
LEMMA ContentionStep == LInv /\ [Next]_vars => Contention'
<1> SUFFICES ASSUME LInv, [Next]_vars PROVE Contention'
  OBVIOUS
<1>a. IInv /\ TypeOK /\ Contention /\ contended \subseteq contended'
  BY ContendedKept DEF LInv, IInv
<1>1. ASSUME NEW r \in Requests, NEW q \in Requests, r # q, InFlight(r)', InFlight(q)',
             req'[r].seen.owner = req'[q].seen.owner
      PROVE  req'[r].seen.owner \in contended'
  <2>1. CASE Arrive(r)
    BY <1>a, <1>1, <2>1, ArriveMoves DEF InFlight
  <2>2. CASE Arrive(q)
    BY <1>a, <1>1, <2>2, ArriveMoves DEF InFlight
  <2>3. CASE StillReads(r) /\ StillReads(q)
    BY <1>a, <1>1, <2>3 DEF StillReads, Contention
  <2> QED
    BY <1>a, <1>1, <2>1, <2>2, <2>3, InFlightMoves
<1>2. ASSUME NEW r \in Requests, InFlight(r)', req'[r].seen.owner \notin contended',
             slot'[req'[r].slot] # NoRow
      PROVE  slot'[req'[r].slot] = req'[r].seen
  <2>1. CASE Arrive(r)
    BY <1>a, <2>1, ArriveMoves DEF Started
  <2>2. CASE StillReads(r)
    <3>1. req[r].slot \in Slots /\ phase[req[r].slot] # Unborn
      BY <1>a, <2>2 DEF StillReads, IInv, ReqOK, InFlight, InFlightPcs
    <3>2. slot[req[r].slot] # NoRow
      BY <1>a, <1>2, <2>2, <3>1, OwnersKept DEF StillReads
    <3>3. slot'[req[r].slot] = slot[req[r].slot]
      BY <1>a, <1>2, <2>2, <3>2, NobodyElseWrites DEF StillReads
    <3> QED
      BY <1>a, <1>2, <2>2, <3>2, <3>3 DEF StillReads, Contention
  <2> QED
    BY <1>a, <1>2, <2>1, <2>2, InFlightMoves
<1>3. ASSUME NEW r \in Requests, req'[r].pc \in BookPcs \cup CancelPcs,
             req'[r].seen.owner \notin contended'
      PROVE  slot'[req'[r].slot] # NoRow
  <2>a. InFlight(r)'
    BY <1>3 DEF InFlight, InFlightPcs, BookPcs, CancelPcs
  <2>1. CASE Arrive(r)
    BY <1>a, <2>1, ArriveMoves DEF Started
  <2>2. CASE StillReads(r)
    <3>1. req[r].pc \in BookPcs \cup CancelPcs /\ req[r].seen.owner \notin contended
      BY <1>a, <1>3, <2>2 DEF StillReads
    <3>2. slot[req[r].slot] # NoRow
      BY <1>a, <3>1 DEF Contention
    <3>3. phase[req[r].slot] # Over
      BY <1>a, <3>1, WritesInTime DEF Week, Running, Over
    <3> QED
      BY <2>a, <2>2, <3>1, <3>2, <3>3, NobodyElseWrites DEF StillReads
  <2> QED
    BY <1>a, <2>a, <2>1, <2>2, InFlightMoves
<1> QED
  BY <1>1, <1>2, <1>3 DEF Contention, InFlight

\* A slot that has started is not booked any more.
LEMMA NotBookedLate ==
  ASSUME IInv, [Next]_vars, NEW s \in Slots, Booked(slot[s])', ~Booked(slot[s])
  PROVE  phase[s] \in {Week, Days, Soon} /\ phase'[s] = phase[s]
<1>1. PICK r \in Requests : BookCommit(r) /\ req[r].slot = s
  <2>1. RowMoves(s)
    BY RowStep
  <2>2. \A row : row = NoRow \/ (\E u : row = FreshRow(u)) => ~Booked(row)
    BY DEF Booked, FreshRow
  <2> QED
    BY <2>1, <2>2 DEF RowMoves, CancelledRow, Booked
<1>2. req[r].pc = "commit_booking" /\ phase' = phase
  BY <1>1 DEF BookCommit
<1>3. InFlight(r) /\ req[r].pc \in BookPcs
  BY <1>2 DEF InFlight, InFlightPcs, BookPcs
<1> QED
  BY <1>1, <1>2, <1>3 DEF IInv, Timing, Week, Days, Soon

\* No step books a slot whose deletion has read it after its start.
LEMMA LateDeleteStep == LInv /\ [Next]_vars => LateDelete'
<1> SUFFICES ASSUME LInv, [Next]_vars, NEW r \in Requests, req'[r].pc = "commit_delete",
                    req'[r].at \in {Running, Over}
             PROVE  ~Booked(slot'[req'[r].slot])
  BY DEF LateDelete
<1>a. IInv /\ TypeOK /\ LateDelete /\ AllSeen' /\ InFlight(r)'
  BY SeenStep DEF LInv, IInv, InFlight, InFlightPcs
<1>1. CASE Arrive(r)
  BY <1>a, <1>1, ArriveMoves DEF AllSeen, SeenOK, Started
<1>2. CASE StillReads(r)
  <2>1. /\ req[r].pc = "commit_delete" /\ req[r].at \in {Running, Over}
        /\ req[r].slot \in Slots
    BY <1>a, <1>2 DEF StillReads, IInv, ReqOK
  <2>2. ~Booked(slot[req[r].slot])
    BY <1>a, <2>1 DEF LateDelete
  <2>3. phase[req[r].slot] \in {req[r].at, req[r].at + 1}
    BY <1>a, <1>2 DEF StillReads, IInv, Timing
  <2> QED
    BY <1>a, <1>2, <2>1, <2>2, <2>3, NotBookedLate
    DEF StillReads, Booked, Week, Days, Soon, Running, Over
<1> QED
  BY <1>a, <1>1, <1>2, InFlightMoves

-----------------------------------------------------------------------------
(***************************************************************************)
(* The cleanup and its payouts                                             *)
(***************************************************************************)
\* A slot that is over stays so, and its row changes no more.
LEMMA FrozenWhenOver ==
  ASSUME IInv, [Next]_vars, NEW s \in Slots, phase[s] = Over
  PROVE  phase'[s] = Over /\ slot'[s] \in {slot[s], NoRow}
<1>1. ASSUME NEW r \in Requests, req[r].slot = s, req[r].pc \in BookPcs \cup CancelPcs
      PROVE  FALSE
  BY <1>1, WritesInTime DEF Week, Running, Over
<1>2. RowMoves(s) /\ PhaseMoves(s)
  BY RowStep, PhaseStep
<1>3. \A r \in Requests : req[r].slot = s => ~BookCommit(r) /\ ~CancelCommit(r)
  BY <1>1 DEF BookCommit, CancelCommit, BookPcs, CancelPcs
<1> QED
  BY <1>2, <1>3 DEF RowMoves, PhaseMoves, Unborn, Week, Days, Soon, Running, Over

\* The booking of a slot that is over is removed by nobody but the cleanup.
LEMMA BookingKeptWhenOver ==
  ASSUME IInv, PassOK, LateDelete, [Next]_vars, NEW s \in Slots,
         phase[s] = Over, Booked(slot[s])
  PROVE  \/ slot'[s] = slot[s]
         \/ /\ s \in cleaner.dels /\ (CleanupCommit \/ CleanupCallFails)
            /\ slot'[s] = NoRow
<1>1. ASSUME NEW q \in Requests, DeleteCommit(q), req[q].slot = s
      PROVE  FALSE
  <2>1. req[q].pc = "commit_delete" /\ InFlight(q)
    BY <1>1 DEF DeleteCommit, InFlight, InFlightPcs
  <2>2. req[q].at \in {Running, Over}
    <3>1. req[q].at \in Phases /\ Over \in {req[q].at, req[q].at + 1}
      BY <1>1, <2>1 DEF IInv, Timing, TypeOK, Request
    <3> QED
      BY <3>1 DEF Phases, Unborn, Running, Over
  <2> QED
    BY <1>1, <2>1, <2>2 DEF LateDelete
<1>2. slot'[s] \in {slot[s], NoRow}
  BY FrozenWhenOver
<1>3. \A u : FreshRow(u) # slot[s] /\ (FreshRow(u) = NoRow => slot[s] # NoRow)
  BY DEF Booked, FreshRow
<1>4. phase[s] # Unborn /\ slot[s] # NoRow
  BY DEF Unborn, Over, Booked
<1>5. CASE slot'[s] # slot[s]
  <2>1. ASSUME NEW q \in Requests, InFlight(q), req[q].slot = s,
               BookCommit(q) \/ CancelCommit(q)
        PROVE  FALSE
    <3>1. req[q].pc \in BookPcs \cup CancelPcs
      BY <2>1 DEF BookCommit, CancelCommit, BookPcs, CancelPcs
    <3> QED
      BY <2>1, <3>1, WritesInTime DEF Week, Running, Over
  <2> QED
    BY <1>1, <1>4, <1>5, <2>1, Writers
<1> QED
  BY <1>5

\* Steps of the cleanup itself.
CleanerMoves ==
  \/ cleaner' = IdleCleaner
  \/ CleanupBegin \/ (\E s \in Slots : CleanupTake(s)) \/ CleanupPay \/ CleanupXp

\* The pass goes on, ends, or is left alone.
LEMMA CleanerStepMoves ==
  ASSUME IInv, [Next]_vars
  PROVE  cleaner' = cleaner \/ CleanerMoves
BY ContinueFrame
   DEF Next, Configure, AddSlot, SetCoaching, DeleteCoaching, Arrive, BookFindSlot,
       CancelFindSlot, DeleteFindSlot, Frame, Tick, Cleanup, CleanupCallFails, LoopGoesOn,
       CleanupCommit, CleanupCommitFails, Crash, vars, IInv, CleanerMoves

\* Every step keeps the pass and the rows it selected in line with the slots.
LEMMA PassStep == LInv /\ [Next]_vars => PassOK'
<1> SUFFICES ASSUME LInv, [Next]_vars PROVE PassOK'
  OBVIOUS
<1>a. /\ IInv /\ PassOK /\ LateDelete /\ cleaner \in Cleaner
      /\ slot \in [Slots -> Row \cup {NoRow}]
  BY DEF LInv, IInv, TypeOK
<1>1. CASE cleaner' = IdleCleaner
  BY <1>1 DEF PassOK, IdleCleaner, Booked
<1>2. CASE CleanupBegin
  <2>1. /\ cleaner'.pc = "next" /\ cleaner'.dels = {}
        /\ cleaner'.rows = [s \in Slots |-> IF phase[s] = Over THEN slot[s] ELSE NoRow]
        /\ slot' = slot /\ phase' = phase
    BY <1>2 DEF CleanupBegin, IdleCleaner
  <2> QED
    BY <2>1 DEF PassOK, Booked
<1>3. CASE \/ cleaner' = cleaner
           \/ (\E s \in Slots : CleanupTake(s)) \/ CleanupPay \/ CleanupXp
  <2>1. /\ cleaner'.rows = cleaner.rows
        /\ cleaner'.pc = "idle" => cleaner' = cleaner
    BY <1>a, <1>3 DEF CleanupTake, CleanupPay, CleanupXp, Cleaner
  <2>2. ASSUME NEW s \in Slots, cleaner.rows[s] # NoRow
        PROVE  /\ phase'[s] = Over /\ slot'[s] \in {cleaner.rows[s], NoRow}
               /\ Booked(cleaner.rows[s]) => slot'[s] = cleaner.rows[s]
    <3>1. phase[s] = Over /\ slot[s] \in {cleaner.rows[s], NoRow}
          /\ (Booked(cleaner.rows[s]) => slot[s] = cleaner.rows[s])
      BY <1>a, <2>2 DEF PassOK
    <3>2. ~CleanupCommit /\ ~CleanupCallFails
      <4>1. ~(cleaner.pc # "idle" /\ cleaner' = IdleCleaner)
        BY <2>1 DEF IdleCleaner
      <4> QED
        BY <4>1 DEF CleanupCommit, CleanupCallFails, LoopGoesOn
    <3> QED
      BY <1>a, <3>1, <3>2, FrozenWhenOver, BookingKeptWhenOver
  <2>3. /\ cleaner'.pc \in {"pay", "xp"} =>
             /\ cleaner'.cur \in Todo' /\ Booked(cleaner'.rows[cleaner'.cur])
             /\ cleaner'.pc = "pay" => cleaner'.rows[cleaner'.cur].instructor_coins # 0
        /\ \A s \in cleaner'.dels : cleaner'.rows[s] # NoRow
    <3>1. CASE cleaner' = cleaner
      BY <1>a, <3>1 DEF PassOK, Todo, Booked
    <3>2. ASSUME NEW s \in Slots, CleanupTake(s)
          PROVE  /\ cleaner'.pc \in {"pay", "xp"} =>
                      /\ cleaner'.cur \in Todo' /\ Booked(cleaner'.rows[cleaner'.cur])
                      /\ cleaner'.pc = "pay" => cleaner'.rows[cleaner'.cur].instructor_coins # 0
                 /\ \A t \in cleaner'.dels : cleaner'.rows[t] # NoRow
      <4>1. cleaner.rows[s] # NoRow /\ s \notin cleaner.dels /\ cleaner.pc = "next"
        BY <3>2 DEF CleanupTake, Todo
      <4>2. CASE Booked(cleaner.rows[s])
        <5>1. /\ cleaner'.cur = s /\ cleaner'.dels = cleaner.dels
              /\ cleaner'.pc = IF cleaner.rows[s].instructor_coins # 0 THEN "pay" ELSE "xp"
          BY <1>a, <3>2, <4>2 DEF CleanupTake, Cleaner
        <5> QED
          BY <1>a, <2>1, <4>1, <4>2, <5>1 DEF PassOK, Todo
      <4>3. CASE ~Booked(cleaner.rows[s])
        <5>1. cleaner'.dels = cleaner.dels \cup {s} /\ cleaner'.pc = "next"
          BY <1>a, <3>2, <4>1, <4>3 DEF CleanupTake, Cleaner
        <5> QED
          BY <1>a, <2>1, <4>1, <5>1 DEF PassOK
      <4> QED
        BY <4>2, <4>3
    <3>3. CASE CleanupPay
      <4>1. cleaner'.pc = "xp" /\ cleaner'.cur = cleaner.cur /\ cleaner'.dels = cleaner.dels
            /\ cleaner.pc = "pay"
        BY <1>a, <3>3 DEF CleanupPay, Cleaner
      <4> QED
        BY <1>a, <2>1, <4>1 DEF PassOK, Todo
    <3>4. CASE CleanupXp
      <4>1. cleaner'.pc = "next" /\ cleaner'.dels = cleaner.dels \cup {cleaner.cur}
            /\ cleaner.pc = "xp"
        BY <1>a, <3>4 DEF CleanupXp, Cleaner
      <4> QED
        BY <1>a, <2>1, <4>1 DEF PassOK, Todo
    <3> QED
      BY <1>3, <3>1, <3>2, <3>3, <3>4
  <2>4. cleaner'.pc = "idle" => cleaner' = IdleCleaner
    BY <1>a, <2>1 DEF PassOK
  <2> QED
    BY <2>1, <2>2, <2>3, <2>4, NoRowAssumption DEF PassOK, Booked
<1> QED
  BY <1>a, <1>1, <1>2, <1>3, CleanerStepMoves DEF CleanerMoves

\* A booked row was booked before, or the commit of its booking wrote it.
LEMMA BookedMoves ==
  ASSUME IInv, [Next]_vars, NEW s \in Slots, Booked(slot'[s])
  PROVE  \/ slot'[s] = slot[s]
         \/ \E r \in Requests : /\ BookCommit(r) /\ req[r].slot = s
                                /\ slot'[s] = BookingRow(r) /\ slot'[s].booking = r
                                /\ slot[s] # NoRow /\ req'[r].pc = "booked"
                                /\ phase[s] # Over /\ phase' = phase
                                /\ cleaner' = cleaner /\ payouts' = payouts
                                /\ failures' = failures /\ contended' = contended
<1>1. RowMoves(s)
  BY RowStep
<1>2. \A row : row = NoRow \/ (\E u : row = FreshRow(u)) => ~Booked(row)
  BY DEF Booked, FreshRow
<1>3. ASSUME NEW r \in Requests, BookCommit(r), req[r].slot = s, slot[s] # NoRow,
             slot'[s] = BookingRow(r)
      PROVE  /\ slot'[s].booking = r /\ phase[s] # Over /\ phase' = phase
             /\ cleaner' = cleaner /\ payouts' = payouts
             /\ failures' = failures /\ contended' = contended
  <2>1. slot[s] \in Row /\ req[r].pc \in BookPcs
    BY <1>3 DEF IInv, TypeOK, BookCommit, BookPcs
  <2>2. BookingRow(r).booking = r
    BY <1>3, <2>1 DEF BookingRow, Row
  <2> QED
    BY <1>3, <2>1, <2>2, WritesInTime DEF BookCommit, Week, Running, Over
<1> QED
  BY <1>1, <1>2, <1>3 DEF RowMoves, CancelledRow

\* The booking that the cleanup is about to pay for.
LEMMA CurrentOwed ==
  ASSUME IInv, PassOK, cleaner.pc \in {"pay", "xp"}
  PROVE  LET s == cleaner.cur IN
         /\ s \in Slots /\ phase[s] = Over /\ Booked(slot[s])
         /\ slot[s] = cleaner.rows[s] /\ CurrentBooking = slot[s].booking
         /\ s \notin cleaner.dels
         /\ RowBacked(req, slot[s], s)
         /\ cleaner.pc = "pay" => slot[s].instructor_coins # 0 /\ ~PassPaid(s)
<1>1. cleaner.cur \in Todo /\ Booked(cleaner.rows[cleaner.cur])
      /\ (cleaner.pc = "pay" => cleaner.rows[cleaner.cur].instructor_coins # 0)
  BY DEF PassOK
<1>2. cleaner.cur \in Slots /\ cleaner.cur \notin cleaner.dels
  BY <1>1 DEF Todo
<1>3. slot[cleaner.cur] = cleaner.rows[cleaner.cur] /\ phase[cleaner.cur] = Over
  BY <1>1, <1>2 DEF PassOK, Booked
<1> QED
  BY <1>1, <1>2, <1>3, SlotBacked DEF CurrentBooking, PassPaid

\* How often the shop was asked to pay for a booking.
PayMoves(b) ==
  \/ payouts'[b] = payouts[b]
  \/ /\ cleaner.pc = "pay" /\ b = CurrentBooking /\ payouts'[b] = payouts[b] + 1
     /\ CleanupPay \/ (CleanupCallFails /\ failures' = failures + 1)

\* A step pays for the booking at hand, once, or for none.
LEMMA PayStep ==
  ASSUME IInv, [Next]_vars
  PROVE  (\A b \in Requests : PayMoves(b)) /\ failures' \in {failures, failures + 1}
<1>a. payouts \in [Requests -> Nat] /\ failures \in Nat
  BY DEF IInv, TypeOK
<1>1. CASE CleanupPay \/ CleanupCallFails
  <2> DEFINE c == CurrentBooking
  <2>1. /\ \/ payouts' = payouts
           \/ cleaner.pc = "pay" /\ payouts' = [payouts EXCEPT ![c] = @ + 1]
        /\ \/ CleanupPay /\ failures' = failures
           \/ CleanupCallFails /\ failures' = failures + 1
    BY <1>1 DEF CleanupPay, CleanupCallFails, Fail
  <2> HIDE DEF c
  <2>2. ASSUME NEW b \in Requests
        PROVE  \/ payouts'[b] = payouts[b]
               \/ cleaner.pc = "pay" /\ b = c /\ payouts'[b] = payouts[b] + 1
    BY <1>a, <2>1
  <2> QED
    BY <2>1, <2>2 DEF PayMoves, c
<1>2. CASE payouts' = payouts /\ failures' \in {failures, failures + 1}
  BY <1>2 DEF PayMoves
<1> QED
  BY <1>1, <1>2
  DEF Next, Configure, AddSlot, SetCoaching, DeleteCoaching, Arrive, BookFindSlot,
      CancelFindSlot, DeleteFindSlot, Continue, BookFindCoaching, BookReject,
      BookFindEmergency, BookSpend, BookSpendFails, BookCommit, CancelGrant,
      CancelRefundStudent, CancelRefundInstructor, CancelRefundFails, CancelCommit,
      DeleteCommit, Tick, Cleanup, CleanupBegin, CleanupTake, CleanupXp, CleanupCommit,
      CleanupCommitFails, Crash, Fail, vars

\* How the pass gets done with a slot, and how it is forgotten.
LEMMA PassPaidMoves ==
  ASSUME IInv, PassOK, [Next]_vars, NEW s \in Slots
  PROVE  /\ PassPaid(s)' => \/ PassPaid(s)
                            \/ CleanupTake(s) /\ ~Booked(cleaner.rows[s])
                            \/ CleanupTake(s) /\ cleaner.rows[s].instructor_coins = 0
                            \/ CleanupPay /\ cleaner.cur = s
         /\ PassPaid(s) /\ ~PassPaid(s)' =>
              \/ failures' = failures + 1
              \/ slot'[s] = NoRow
         /\ CleanupPay /\ cleaner.cur = s => PassPaid(s)'
<1>a. cleaner \in Cleaner /\ slot \in [Slots -> Row \cup {NoRow}]
  BY DEF IInv, TypeOK
<1>1. CASE cleaner' = cleaner
  <2>1. ~CleanupPay
    BY <1>a, <1>1 DEF CleanupPay, Cleaner
  <2> QED
    BY <1>1, <2>1 DEF PassPaid
<1>2. CASE cleaner' = IdleCleaner
  <2>1. ~PassPaid(s)'
    BY <1>2 DEF PassPaid, IdleCleaner
  <2>2. PassPaid(s) => cleaner.pc # "idle"
    BY DEF PassOK, PassPaid, IdleCleaner
  <2>3. CleanupCommit /\ PassPaid(s) => slot'[s] = NoRow
    BY DEF CleanupCommit, PassPaid, WithoutDeleted
  <2>4. \/ failures' = failures + 1 \/ CleanupCommit \/ cleaner' = cleaner
    <3>1. ~CleanupBegin /\ ~CleanupPay /\ ~CleanupXp /\ \A t \in Slots : ~CleanupTake(t)
      BY <1>a, <1>2 DEF CleanupBegin, CleanupPay, CleanupXp, CleanupTake, IdleCleaner, Cleaner
    <3> QED
      BY <3>1, ContinueFrame
      DEF Next, Configure, AddSlot, SetCoaching, DeleteCoaching, Arrive, BookFindSlot,
          CancelFindSlot, DeleteFindSlot, Frame, Tick, Cleanup, CleanupCallFails,
          CleanupCommitFails, Crash, Fail, vars, IInv
  <2>5. ~CleanupPay
    BY <1>a, <1>2 DEF CleanupPay, IdleCleaner, Cleaner
  <2> QED
    BY <1>1, <2>1, <2>2, <2>3, <2>4, <2>5
<1>3. CASE CleanupBegin
  <2>1. cleaner'.pc = "next" /\ cleaner'.dels = {} /\ cleaner = IdleCleaner
    BY <1>3 DEF CleanupBegin, IdleCleaner, PassOK
  <2> QED
    BY <2>1 DEF PassPaid, IdleCleaner, CleanupPay
<1>4. ASSUME NEW t \in Slots, CleanupTake(t)
      PROVE  /\ PassPaid(s)' => \/ PassPaid(s)
                                \/ s = t /\ ~Booked(cleaner.rows[s])
                                \/ s = t /\ cleaner.rows[s].instructor_coins = 0
             /\ PassPaid(s) => PassPaid(s)'
             /\ ~CleanupPay
  <2>1. CASE Booked(cleaner.rows[t])
    <3>1. /\ cleaner'.cur = t /\ cleaner'.dels = cleaner.dels /\ cleaner.pc = "next"
          /\ cleaner'.pc = IF cleaner.rows[t].instructor_coins # 0 THEN "pay" ELSE "xp"
      BY <1>a, <1>4, <2>1 DEF CleanupTake, Cleaner
    <3> QED
      BY <3>1 DEF PassPaid, CleanupPay
  <2>2. CASE ~Booked(cleaner.rows[t])
    <3>1. cleaner'.dels = cleaner.dels \cup {t} /\ cleaner'.pc = "next" /\ cleaner.pc = "next"
      BY <1>a, <1>4, <2>2 DEF CleanupTake, Cleaner
    <3> QED
      BY <2>2, <3>1 DEF PassPaid, CleanupPay
  <2> QED
    BY <2>1, <2>2
<1>5. CASE CleanupPay
  <2>1. cleaner'.pc = "xp" /\ cleaner'.cur = cleaner.cur /\ cleaner'.dels = cleaner.dels
        /\ cleaner.pc = "pay"
    BY <1>a, <1>5 DEF CleanupPay, Cleaner
  <2> QED
    BY <1>5, <2>1 DEF PassPaid
<1>6. CASE CleanupXp
  <2>1. cleaner'.pc = "next" /\ cleaner'.dels = cleaner.dels \cup {cleaner.cur}
        /\ cleaner.pc = "xp"
    BY <1>a, <1>6 DEF CleanupXp, Cleaner
  <2> QED
    BY <1>6, <2>1 DEF PassPaid, CleanupPay
<1> QED
  BY <1>1, <1>2, <1>3, <1>4, <1>5, <1>6, CleanerStepMoves DEF CleanerMoves

\* Every step keeps the books of the payouts.
LEMMA PaidStep == LInv /\ [Next]_vars => PaidOK'
<1> SUFFICES ASSUME LInv, [Next]_vars PROVE PaidOK'
  OBVIOUS
<1>a. /\ IInv /\ IInv' /\ PassOK /\ PassOK' /\ PaidOK
      /\ payouts \in [Requests -> Nat] /\ payouts' \in [Requests -> Nat]
      /\ failures \in Nat /\ failures' \in {failures, failures + 1}
  BY PassStep, StepIInv, PayStep, TypeStep DEF LInv, IInv, TypeOK
<1>b. ASSUME NEW b \in Requests, payouts'[b] # payouts[b]
      PROVE  LET s == cleaner.cur IN
             /\ s \in Slots /\ phase[s] = Over /\ Booked(slot[s]) /\ b = slot[s].booking
             /\ ~PassPaid(s) /\ RowBacked(req, slot[s], s)
             /\ payouts[b] <= failures /\ payouts'[b] = payouts[b] + 1
             /\ CleanupPay \/ failures' = failures + 1
  <2>1. PayMoves(b) /\ payouts'[b] # payouts[b]
    BY <1>a, <1>b, PayStep
  <2>2. cleaner.pc = "pay" /\ b = CurrentBooking /\ payouts'[b] = payouts[b] + 1
        /\ (CleanupPay \/ failures' = failures + 1)
    BY <2>1 DEF PayMoves
  <2>3. LET s == cleaner.cur IN
        /\ s \in Slots /\ phase[s] = Over /\ Booked(slot[s]) /\ b = slot[s].booking
        /\ ~PassPaid(s) /\ RowBacked(req, slot[s], s)
    BY <1>a, <2>2, CurrentOwed
  <2> QED
    BY <1>a, <2>2, <2>3 DEF PaidOK
<1>1. ASSUME NEW b \in Requests, payouts'[b] > 0 PROVE req'[b].pc = "booked"
  <2>1. req[b].pc = "booked"
    BY <1>a, <1>b, <1>1 DEF PaidOK, RowBacked
  <2> QED
    BY <1>a, <2>1, FinalKept DEF Final
<1>2. ASSUME NEW b \in Requests PROVE payouts'[b] <= 1 + failures'
  <2>1. payouts[b] <= 1 + failures /\ payouts[b] \in Nat /\ payouts'[b] \in Nat
    BY <1>a DEF PaidOK, PayoutsBounded
  <2>2. CASE payouts'[b] = payouts[b]
    BY <1>a, <2>1, <2>2
  <2>3. CASE payouts'[b] # payouts[b]
    BY <1>a, <1>b, <2>1, <2>3
  <2> QED
    BY <2>2, <2>3
<1>3. ASSUME NEW s \in Slots, Booked(slot'[s]), ~PassPaid(s)'
      PROVE  payouts'[slot'[s].booking] <= failures'
  <2> DEFINE b == slot'[s].booking
  <2>a. b \in Requests /\ payouts[b] \in Nat /\ payouts'[b] \in Nat
    BY <1>a, <1>3 DEF IInv, BookingBacked
  <2>1. ASSUME NEW r \in Requests, BookCommit(r), b = r, payouts' = payouts
        PROVE  payouts'[b] <= failures'
    <3>1. req[r].pc = "commit_booking"
      BY <2>1 DEF BookCommit
    <3>2. ~(payouts[r] > 0)
      BY <1>a, <3>1 DEF PaidOK
    <3> QED
      BY <1>a, <2>a, <2>1, <3>2
  <2>2. CASE slot'[s] = slot[s] /\ PassPaid(s)
    <3>1. failures' = failures + 1
      BY <1>a, <1>3, <2>2, PassPaidMoves DEF Booked
    <3>2. payouts[b] <= 1 + failures
      BY <1>a, <2>a DEF PaidOK, PayoutsBounded
    <3>3. payouts'[b] # payouts[b] => payouts[b] <= failures /\ payouts'[b] = payouts[b] + 1
      BY <1>b, <2>a
    <3> QED
      BY <1>a, <2>a, <3>1, <3>2, <3>3
  <2>3. CASE slot'[s] = slot[s] /\ ~PassPaid(s)
    <3>1. payouts[b] <= failures
      BY <1>a, <1>3, <2>3 DEF PaidOK
    <3>2. CASE payouts'[b] = payouts[b]
      BY <1>a, <2>a, <3>1, <3>2
    <3>3. CASE payouts'[b] # payouts[b]
      <4>1. /\ cleaner.cur \in Slots /\ b = slot[cleaner.cur].booking
            /\ RowBacked(req, slot[cleaner.cur], cleaner.cur)
            /\ payouts'[b] = payouts[b] + 1
            /\ CleanupPay \/ failures' = failures + 1
        BY <1>b, <2>a, <3>3
      <4>2. RowBacked(req, slot[s], s)
        BY <1>a, <1>3, <2>3, SlotBacked
      <4>3. cleaner.cur = s
        BY <2>3, <4>1, <4>2 DEF RowBacked
      <4>4. failures' = failures + 1
        BY <1>a, <1>3, <4>1, <4>3, PassPaidMoves
      <4> QED
        BY <1>a, <2>a, <3>1, <4>1, <4>4
    <3> QED
      BY <3>2, <3>3
  <2> QED
    BY <1>a, <1>3, <2>1, <2>2, <2>3, BookedMoves
<1>4. ASSUME NEW s \in Slots, Booked(slot'[s]), PassPaid(s)'
      PROVE  slot'[s].instructor_coins = 0 \/ payouts'[slot'[s].booking] > 0
  <2> DEFINE b == slot'[s].booking
  <2>a. b \in Requests /\ payouts[b] \in Nat /\ payouts'[b] \in Nat
    BY <1>a, <1>4 DEF IInv, BookingBacked
  <2>1. cleaner'.rows[s] # NoRow /\ phase'[s] = Over
    <3>1. cleaner'.rows[s] # NoRow
      BY <1>a, <1>4 DEF PassOK, PassPaid, Todo
    <3> QED
      BY <1>a, <3>1 DEF PassOK
  <2>2. slot'[s] = slot[s]
    BY <1>a, <1>4, <2>1, BookedMoves
  <2>3. CASE PassPaid(s)
    <3>1. slot[s].instructor_coins = 0 \/ payouts[b] > 0
      BY <1>a, <1>4, <2>2, <2>3 DEF PaidOK
    <3>2. payouts'[b] >= payouts[b]
      BY <1>b, <2>a
    <3> QED
      BY <2>a, <2>2, <3>1, <3>2
  <2>4. CASE CleanupTake(s) /\ (~Booked(cleaner.rows[s]) \/ cleaner.rows[s].instructor_coins = 0)
    <3>1. slot[s] = cleaner.rows[s]
      BY <1>a, <1>4, <2>2, <2>4 DEF CleanupTake, Todo, PassOK, Booked
    <3> QED
      BY <1>4, <2>2, <2>4, <3>1
  <2>5. CASE CleanupPay /\ cleaner.cur = s
    <3>1. payouts' = [payouts EXCEPT ![CurrentBooking] = @ + 1] /\ cleaner.pc = "pay"
      BY <2>5 DEF CleanupPay
    <3>2. CurrentBooking = b
      BY <1>a, <2>2, <2>5, <3>1, CurrentOwed
    <3>3. payouts' = [payouts EXCEPT ![b] = @ + 1]
      BY <3>1, <3>2
    <3> QED
      BY <1>a, <2>a, <3>3
  <2> QED
    BY <1>a, <1>4, <2>3, <2>4, <2>5, PassPaidMoves
<1> QED
  BY <1>1, <1>2, <1>3, <1>4 DEF PaidOK, PayoutsBounded

-----------------------------------------------------------------------------
(***************************************************************************)
(* Emergency cancellations                                                 *)
(***************************************************************************)
\* A request in flight is in none of the sets of ended requests.
LEMMA FlightOrEnd ==
  ASSUME IInv, NEW r \in Requests
  PROVE  InFlight(r) => req[r].pc \notin Final
BY DEF InFlight, InFlightPcs, Final

\* Free bookings, grants and the emergency_cancel row of one owner u over the
\* step of a request: at most one of them moves, by the commit of that request.
GrantMoves(u, r) ==
  \/ /\ FreeBookings(u)' = FreeBookings(u) /\ Grants(u)' = Grants(u)
     /\ u \in emergency' <=> u \in emergency
  \/ /\ req[r].ec = "delete" /\ req[r].seen.owner = u /\ ~InFlight(r)'
     /\ FreeBookings(u)' = FreeBookings(u) \cup {r} /\ Grants(u)' = Grants(u)
     /\ u \notin emergency'
  \/ /\ req[r].ec = "create" /\ req[r].seen.owner = u /\ ~InFlight(r)'
     /\ FreeBookings(u)' = FreeBookings(u) /\ Grants(u)' = Grants(u) \cup {r}
     /\ u \in emergency'

\* A request that goes on grants a free booking, uses one up, or neither.
LEMMA GrantContinue ==
  ASSUME IInv, NEW r \in Requests, Continue(r), NEW u \in Users
  PROVE  GrantMoves(u, r)
<1>a. /\ req \in [Requests -> Request] /\ req[r] \in Request /\ ReqOK(r) /\ Frame(r)
      /\ InFlight(r) /\ r \notin FreeBookings(u) /\ r \notin Grants(u)
  <2>1. Frame(r) /\ ReqOK(r) /\ req \in [Requests -> Request]
    BY ContinueFrame DEF IInv, TypeOK
  <2>2. InFlight(r)
    BY <2>1 DEF Frame
  <2> QED
    BY <2>1, <2>2 DEF InFlight, InFlightPcs, FreeBookings, Grants, Bookings
<1> DEFINE freed == req'[r].pc = "booked" /\ req'[r].ec = "delete" /\ req'[r].seen.owner = u
           granted == /\ req'[r].ec = "create" /\ req'[r].user = u
                      /\ req'[r].pc \in {"cancelled", "failed"}
<1>1. FreeBookings(u)' = IF freed THEN FreeBookings(u) \cup {r} ELSE FreeBookings(u)
  BY <1>a DEF Frame, FreeBookings, Bookings
<1>2. Grants(u)' = IF granted THEN Grants(u) \cup {r} ELSE Grants(u)
  BY <1>a DEF Frame, Grants
<1>3. req'[r].user = req[r].user /\ req'[r].seen = req[r].seen
  BY <1>a DEF Frame
<1>4. CASE BookCommit(r)
  <2>1. req[r].pc = "commit_booking" /\ req[r].ec # "create"
    BY <1>a, <1>4 DEF BookCommit, ReqOK, CancelPcs
  <2>2. CASE req' = [req EXCEPT ![r].pc = "failed"] /\ emergency' = emergency
    <3>1. req'[r].pc = "failed" /\ req'[r].ec = req[r].ec
      BY <1>a, <2>2 DEF Request
    <3> QED
      BY <1>1, <1>2, <2>1, <2>2, <3>1 DEF GrantMoves
  <2>3. CASE req' = [req EXCEPT ![r].pc = "booked"] /\ emergency' = AfterBooking(r)
    <3>1. req'[r].pc = "booked" /\ req'[r].ec = req[r].ec
      BY <1>a, <2>3 DEF Request
    <3>2. ~InFlight(r)'
      BY <3>1 DEF InFlight, InFlightPcs
    <3> QED
      BY <1>1, <1>2, <1>3, <2>1, <2>3, <3>1, <3>2 DEF GrantMoves, AfterBooking
  <2> QED
    BY <1>4, <2>2, <2>3 DEF BookCommit
<1>5. CASE CancelCommit(r)
  <2>1. /\ req[r].pc = "commit_cancel" /\ req[r].ec # "delete"
        /\ req[r].ec = "create" => req[r].user = req[r].seen.owner
    BY <1>a, <1>5 DEF CancelCommit, ReqOK
  <2>2. CASE req' = [req EXCEPT ![r].pc = "failed", ![r].ec = "keep"] /\ emergency' = emergency
    <3>1. req'[r].pc = "failed" /\ req'[r].ec = "keep"
      BY <1>a, <2>2 DEF Request
    <3> QED
      BY <1>1, <1>2, <2>2, <3>1 DEF GrantMoves
  <2>3. CASE req' = [req EXCEPT ![r].pc = "cancelled"] /\ emergency' = Granted(r)
    <3>1. req'[r].pc = "cancelled" /\ req'[r].ec = req[r].ec
      BY <1>a, <2>3 DEF Request
    <3>2. ~InFlight(r)'
      BY <3>1 DEF InFlight, InFlightPcs
    <3> QED
      BY <1>1, <1>2, <1>3, <2>1, <2>3, <3>1, <3>2 DEF GrantMoves, Granted
  <2> QED
    BY <1>5, <2>2, <2>3 DEF CancelCommit
<1>6. CASE CancelRefundFails(r)
  <2>1. /\ req[r].ec # "delete" /\ emergency' = Granted(r)
        /\ req[r].ec = "create" => req[r].user = req[r].seen.owner
    BY <1>a, <1>6 DEF CancelRefundFails, ReqOK
  <2>2. req'[r].pc = "failed" /\ req'[r].ec = req[r].ec
    BY <1>a, <1>6 DEF CancelRefundFails, Request
  <2>3. ~InFlight(r)'
    BY <2>2 DEF InFlight, InFlightPcs
  <2> QED
    BY <1>1, <1>2, <1>3, <2>1, <2>2, <2>3 DEF GrantMoves, Granted
<1>7. CASE emergency' = emergency /\ ~freed /\ ~granted
  BY <1>1, <1>2, <1>7 DEF GrantMoves
<1>8. CASE BookFindCoaching(r)
  BY <1>a, <1>7, <1>8 DEF BookFindCoaching, Request
<1>9. CASE BookReject(r)
  BY <1>a, <1>7, <1>9 DEF BookReject, Request
<1>10. CASE BookFindEmergency(r)
  BY <1>a, <1>7, <1>10 DEF BookFindEmergency, Request
<1>11. CASE BookSpend(r)
  BY <1>a, <1>7, <1>11 DEF BookSpend, Request
<1>12. CASE BookSpendFails(r)
  BY <1>a, <1>7, <1>12 DEF BookSpendFails, Request, ReqOK, CancelPcs
<1>13. CASE CancelGrant(r)
  BY <1>a, <1>7, <1>13 DEF CancelGrant, Request
<1>14. CASE CancelRefundStudent(r)
  BY <1>a, <1>7, <1>14 DEF CancelRefundStudent, Request
<1>15. CASE CancelRefundInstructor(r)
  BY <1>a, <1>7, <1>15 DEF CancelRefundInstructor, Request
<1>16. CASE DeleteCommit(r)
  BY <1>a, <1>7, <1>16 DEF DeleteCommit, Request
<1> QED
  BY <1>4, <1>5, <1>6, <1>8, <1>9, <1>10, <1>11, <1>12, <1>13, <1>14, <1>15, <1>16
  DEF Continue

\* Steps that are not those of a request in flight move none of them.
LEMMA GrantsLeftAlone ==
  ASSUME IInv, [Next]_vars, \A r \in Requests : ~Continue(r), NEW u \in Users
  PROVE  /\ FreeBookings(u)' = FreeBookings(u) /\ Grants(u)' = Grants(u)
         /\ emergency' = emergency
<1>a. req \in [Requests -> Request]
  BY DEF IInv, TypeOK
<1>1. emergency' = emergency
  BY DEF Next, Configure, AddSlot, SetCoaching, DeleteCoaching, Arrive, BookFindSlot,
         CancelFindSlot, DeleteFindSlot, Tick, Cleanup, CleanupBegin, CleanupTake,
         CleanupPay, CleanupXp, CleanupCallFails, CleanupCommit, CleanupCommitFails,
         Crash, vars
<1>2. ASSUME NEW p \in Requests
      PROVE  /\ p \in FreeBookings(u)' <=> p \in FreeBookings(u)
             /\ p \in Grants(u)' <=> p \in Grants(u)
  <2>1. CASE req'[p] = req[p]
    BY <2>1 DEF FreeBookings, Grants, Bookings
  <2>2. CASE Arrive(p)
    <3>1. req'[p].pc \in InFlightPcs /\ req[p].pc = "idle"
      BY <2>2, ArriveMoves DEF Started, InFlightPcs
    <3> QED
      BY <3>1 DEF FreeBookings, Grants, Bookings, InFlightPcs
  <2>3. CASE InFlight(p) /\ req'[p] = [req[p] EXCEPT !.pc = "failed", !.ec = "keep"]
    <3>1. req'[p].pc = "failed" /\ req'[p].ec = "keep" /\ req[p].pc \in InFlightPcs
      BY <1>a, <2>3 DEF Request, InFlight
    <3> QED
      BY <3>1 DEF FreeBookings, Grants, Bookings, InFlightPcs
  <2> QED
    BY <2>1, <2>2, <2>3, ReqStepMoves DEF ReqMoves
<1>3. FreeBookings(u) \subseteq Requests /\ Grants(u) \subseteq Requests
      /\ FreeBookings(u)' \subseteq Requests /\ Grants(u)' \subseteq Requests
  BY DEF FreeBookings, Grants, Bookings
<1> QED
  BY <1>1, <1>2, <1>3

\* A request that stays in flight, and what it plans for the emergency row.
LEMMA PlanMoves ==
  ASSUME IInv, [Next]_vars, NEW r \in Requests, InFlight(r)', req'[r].ec # "keep"
  PROVE  /\ StillReads(r)
         /\ \/ req'[r].ec = req[r].ec
            \/ /\ Continue(r) /\ emergency' = emergency
               /\ req'[r].ec = "create" <=> req[r].seen.owner \notin emergency
               /\ req'[r].ec = "delete" <=> req[r].seen.owner \in emergency
<1>a. req \in [Requests -> Request] /\ req[r] \in Request
  BY DEF IInv, TypeOK
<1>1. ~Arrive(r)
  BY ArriveMoves DEF Started
<1>2. StillReads(r)
  BY <1>1, InFlightMoves
<1>3. CASE CancelGrant(r)
  BY <1>a, <1>2, <1>3 DEF CancelGrant, Continue, Request
<1>4. CASE BookFindEmergency(r)
  <2>1. CASE req[r].seen.owner \in emergency
    BY <1>a, <1>2, <1>4, <2>1 DEF BookFindEmergency, Continue, Request
  <2>2. CASE req[r].seen.owner \notin emergency
    BY <1>a, <1>2, <1>4, <2>2 DEF BookFindEmergency, Continue, Request
  <2> QED
    BY <2>1, <2>2
<1>5. CASE Continue(r) /\ ~CancelGrant(r) /\ ~BookFindEmergency(r)
  <2>1. req'[r].ec = req[r].ec
    BY <1>a, <1>5
    DEF Continue, BookFindCoaching, BookReject, BookSpend, BookSpendFails, BookCommit,
        CancelRefundStudent, CancelRefundInstructor, CancelRefundFails, CancelCommit,
        DeleteCommit, Request
  <2> QED
    BY <1>2, <2>1
<1>6. CASE InFlight(r) /\ req'[r] = [req[r] EXCEPT !.pc = "failed", !.ec = "keep"]
  BY <1>a, <1>6 DEF Request
<1> QED
  BY <1>1, <1>2, <1>3, <1>4, <1>5, <1>6, ReqStepMoves DEF ReqMoves

\* Every step keeps the emergency cancellations of uncontended owners counted.
LEMMA GrantsStep == LInv /\ [Next]_vars => GrantsOK'
<1> SUFFICES ASSUME LInv, [Next]_vars, NEW u \in Users, u \notin contended'
             PROVE  /\ IsFiniteSet(FreeBookings(u)') /\ IsFiniteSet(Grants(u)')
                    /\ Cardinality(FreeBookings(u)') + (IF u \in emergency' THEN 1 ELSE 0)
                         = Cardinality(Grants(u)')
                    /\ \A r \in Requests : InFlight(r)' /\ req'[r].seen.owner = u =>
                         /\ req'[r].ec = "create" => u \notin emergency'
                         /\ req'[r].ec = "delete" => u \in emergency'
  BY DEF GrantsOK
<1> DEFINE F == FreeBookings(u)
           G == Grants(u)
<1>a. /\ IInv /\ Contention /\ u \notin contended /\ contended \subseteq contended'
      /\ req \in [Requests -> Request]
  BY ContendedKept DEF LInv, IInv, TypeOK
<1>b. /\ IsFiniteSet(F) /\ IsFiniteSet(G)
      /\ Cardinality(F) + (IF u \in emergency THEN 1 ELSE 0) = Cardinality(G)
      /\ \A r \in Requests : InFlight(r) /\ req[r].seen.owner = u =>
           /\ req[r].ec = "create" => u \notin emergency
           /\ req[r].ec = "delete" => u \in emergency
  BY <1>a DEF LInv, GrantsOK
<1>c. Cardinality(F) \in Nat /\ Cardinality(G) \in Nat
  BY <1>b, FS_CardinalityType
<1>1. /\ IsFiniteSet(F') /\ IsFiniteSet(G')
      /\ Cardinality(F') + (IF u \in emergency' THEN 1 ELSE 0) = Cardinality(G')
  <2>1. ASSUME NEW r \in Requests, Continue(r)
        PROVE  /\ IsFiniteSet(F') /\ IsFiniteSet(G')
               /\ Cardinality(F') + (IF u \in emergency' THEN 1 ELSE 0) = Cardinality(G')
    <3>1. GrantMoves(u, r) /\ InFlight(r) /\ r \notin F /\ r \notin G
      <4>1. InFlight(r)
        BY <1>a, <2>1, ContinueFrame DEF Frame, IInv
      <4> QED
        BY <1>a, <2>1, <4>1, GrantContinue DEF InFlight, InFlightPcs, FreeBookings, Grants, Bookings
    <3>2. CASE F' = F /\ G' = G /\ (u \in emergency' <=> u \in emergency)
      BY <1>b, <3>2
    <3>3. CASE /\ req[r].ec = "delete" /\ req[r].seen.owner = u
               /\ F' = F \cup {r} /\ G' = G /\ u \notin emergency'
      <4>1. u \in emergency
        BY <1>b, <3>1, <3>3
      <4>2. IsFiniteSet(F \cup {r}) /\ Cardinality(F \cup {r}) = Cardinality(F) + 1
        BY <1>b, <3>1, FS_AddElement
      <4> QED
        BY <1>b, <1>c, <3>3, <4>1, <4>2
    <3>4. CASE /\ req[r].ec = "create" /\ req[r].seen.owner = u
               /\ F' = F /\ G' = G \cup {r} /\ u \in emergency'
      <4>1. u \notin emergency
        BY <1>b, <3>1, <3>4
      <4>2. IsFiniteSet(G \cup {r}) /\ Cardinality(G \cup {r}) = Cardinality(G) + 1
        BY <1>b, <3>1, FS_AddElement
      <4> QED
        BY <1>b, <1>c, <3>4, <4>1, <4>2
    <3> QED
      BY <3>1, <3>2, <3>3, <3>4 DEF GrantMoves
  <2>2. CASE \A r \in Requests : ~Continue(r)
    <3>1. F' = F /\ G' = G /\ emergency' = emergency
      BY <1>a, <2>2, GrantsLeftAlone
    <3> QED
      BY <1>b, <3>1
  <2> QED
    BY <2>1, <2>2
<1>2. ASSUME NEW r \in Requests, InFlight(r)', req'[r].seen.owner = u, req'[r].ec # "keep"
      PROVE  /\ req'[r].ec = "create" => u \notin emergency'
             /\ req'[r].ec = "delete" => u \in emergency'
  <2>1. /\ StillReads(r)
        /\ \/ req'[r].ec = req[r].ec
           \/ /\ Continue(r) /\ emergency' = emergency
              /\ req'[r].ec = "create" <=> req[r].seen.owner \notin emergency
              /\ req'[r].ec = "delete" <=> req[r].seen.owner \in emergency
    BY <1>a, <1>2, PlanMoves
  <2>2. InFlight(r) /\ req[r].seen.owner = u
    BY <1>2, <2>1 DEF StillReads
  <2>3. u \in emergency' <=> u \in emergency
    <3>1. ASSUME NEW q \in Requests, Continue(q)
          PROVE  u \in emergency' <=> u \in emergency
      <4>1. InFlight(q)
        BY <1>a, <3>1, ContinueFrame DEF Frame, IInv
      <4>2. req[q].seen.owner = u => q = r
        BY <1>a, <2>2, <4>1 DEF Contention
      <4> QED
        BY <1>a, <1>2, <3>1, <4>2, GrantContinue DEF GrantMoves
    <3>2. CASE \A q \in Requests : ~Continue(q)
      BY <1>a, <3>2, GrantsLeftAlone
    <3> QED
      BY <3>1, <3>2
  <2> QED
    BY <1>b, <1>2, <2>1, <2>2, <2>3
<1> QED
  BY <1>1, <1>2

-----------------------------------------------------------------------------
(***************************************************************************)
(* Refunds and payouts of one booking                                      *)
(***************************************************************************)
\* A refund of booking b is that of a request which read b's row.
LEMMA RefundReads ==
  ASSUME IInv, AllSeen, NEW b, NEW c \in Requests, Booked(req[c].seen), req[c].seen.booking = b
  PROVE  /\ b \in Requests /\ req[b].pc = "booked" /\ req[c].slot = req[b].slot
         /\ req[c].seen.owner = req[b].seen.owner
         /\ req[c].seen.student_coins = req[b].price
BY DEF AllSeen, SeenOK, RowBacked

\* The set of the refunds of a booking grows when a shop call for one is made.
RefundMoves(b) ==
  \/ Refunds(b)' = Refunds(b)
  \/ \E c \in Requests :
       /\ c \notin Refunds(b) /\ Refunds(b)' = Refunds(b) \cup {c}
       /\ req[c].pc = "refund_student" /\ req[c].seen.booking = b
       /\ payouts' = payouts
       /\ InFlight(c)' \/ failures' = failures + 1

\* A step adds one refund at most to those of a booking.
LEMMA RefundStep ==
  ASSUME IInv, AllSeen, [Next]_vars, NEW b \in Requests
  PROVE  RefundMoves(b)
<1>a. req \in [Requests -> Request]
  BY DEF IInv, TypeOK
<1>1. ASSUME NEW c \in Requests, Continue(c) PROVE RefundMoves(b)
  <2>a. req[c] \in Request /\ Frame(c) /\ SeenOK(c)
    BY <1>a, <1>1, ContinueFrame DEF IInv, AllSeen
  <2>1. \A p \in Requests \ {c} : p \in Refunds(b)' <=> p \in Refunds(b)
    BY <2>a DEF Frame, Refunds
  <2>2. CASE req'[c].refunded = req[c].refunded
    <3>1. \A p \in Requests : p \in Refunds(b)' <=> p \in Refunds(b)
      BY <2>a, <2>1, <2>2 DEF Frame, Refunds
    <3> QED
      BY <3>1 DEF Refunds, RefundMoves
  <2>3. CASE CancelRefundStudent(c) \/ (CancelRefundFails(c) /\ req[c].pc = "refund_student")
    <3>1. req[c].pc = "refund_student"
      BY <2>3 DEF CancelRefundStudent
    <3>2. c \notin Refunds(b)
      BY <2>a, <3>1 DEF SeenOK, Refunds
    <3>3. InFlight(c)' \/ failures' = failures + 1
      <4>1. CancelRefundStudent(c) => req'[c].pc = "refund_instructor"
        BY <1>a, <2>a DEF CancelRefundStudent, Request
      <4>2. CancelRefundFails(c) => failures' = failures + 1
        BY DEF CancelRefundFails, Fail
      <4> QED
        BY <2>3, <4>1, <4>2 DEF InFlight, InFlightPcs
    <3>4. payouts' = payouts
      BY <2>3 DEF CancelRefundStudent, CancelRefundFails
    <3>5. CASE c \in Refunds(b)'
      <4>1. Refunds(b)' = Refunds(b) \cup {c}
        BY <2>1, <3>5 DEF Refunds
      <4>2. req[c].seen.booking = b
        BY <2>a, <3>5 DEF Refunds, Frame
      <4> QED
        BY <3>1, <3>2, <3>3, <3>4, <4>1, <4>2 DEF RefundMoves
    <3>6. CASE c \notin Refunds(b)'
      <4>1. Refunds(b)' = Refunds(b)
        BY <2>1, <3>2, <3>6 DEF Refunds
      <4> QED
        BY <4>1 DEF RefundMoves
    <3> QED
      BY <3>5, <3>6
  <2>4. CASE ~CancelRefundStudent(c) /\ ~(CancelRefundFails(c) /\ req[c].pc = "refund_student")
    <3>1. CASE CancelRefundFails(c)
      BY <1>a, <2>a, <2>2, <2>4, <3>1 DEF CancelRefundFails, Request
    <3>2. CASE BookCommit(c)
      BY <1>a, <2>a, <2>2, <3>2 DEF BookCommit, Request
    <3>3. CASE CancelCommit(c)
      BY <1>a, <2>a, <2>2, <3>3 DEF CancelCommit, Request
    <3>4. CASE BookFindCoaching(c)
      BY <1>a, <2>a, <2>2, <3>4 DEF BookFindCoaching, Request
    <3>5. CASE BookReject(c)
      BY <1>a, <2>a, <2>2, <3>5 DEF BookReject, Request
    <3>6. CASE BookFindEmergency(c)
      BY <1>a, <2>a, <2>2, <3>6 DEF BookFindEmergency, Request
    <3>7. CASE BookSpend(c)
      BY <1>a, <2>a, <2>2, <3>7 DEF BookSpend, Request
    <3>8. CASE BookSpendFails(c)
      BY <1>a, <2>a, <2>2, <3>8 DEF BookSpendFails, Request
    <3>9. CASE CancelGrant(c)
      BY <1>a, <2>a, <2>2, <3>9 DEF CancelGrant, Request
    <3>10. CASE CancelRefundInstructor(c)
      BY <1>a, <2>a, <2>2, <3>10 DEF CancelRefundInstructor, Request
    <3>11. CASE DeleteCommit(c)
      BY <1>a, <2>a, <2>2, <3>11 DEF DeleteCommit, Request
    <3> QED
      BY <1>1, <2>4, <3>1, <3>2, <3>3, <3>4, <3>5, <3>6, <3>7, <3>8, <3>9, <3>10, <3>11 DEF Continue
  <2> QED
    BY <2>3, <2>4
<1>2. CASE \A c \in Requests : ~Continue(c)
  <2>1. ASSUME NEW p \in Requests PROVE p \in Refunds(b)' <=> p \in Refunds(b)
    <3>1. CASE req'[p] = req[p]
      BY <3>1 DEF Refunds
    <3>2. CASE Arrive(p)
      <4>1. req'[p].refunded = 0 /\ req[p].pc = "idle"
        BY <3>2, ArriveMoves DEF Started
      <4>2. req[p].refunded = 0
        BY <4>1 DEF IInv, ReqOK, IdleRequest
      <4> QED
        BY <4>1, <4>2 DEF Refunds
    <3>3. CASE req'[p] = [req[p] EXCEPT !.pc = "failed", !.ec = "keep"]
      BY <1>a, <3>3 DEF Refunds, Request
    <3> QED
      BY <1>2, <3>1, <3>2, <3>3, ReqStepMoves DEF ReqMoves
  <2>2. Refunds(b)' = Refunds(b)
    BY <2>1 DEF Refunds
  <2> QED
    BY <2>2 DEF RefundMoves
<1> QED
  BY <1>1, <1>2

\* A cancellation that gave coins back ends with its commit or a failure.
LEMMA RefundEnds ==
  ASSUME IInv, AllSeen, [Next]_vars, NEW c \in Requests, InFlight(c), ~InFlight(c)',
         req[c].refunded > 0
  PROVE  CancelCommit(c) \/ failures' = failures + 1
<1>a. req \in [Requests -> Request] /\ req[c] \in Request
  BY DEF IInv, TypeOK
<1>b. req[c].pc \in {"refund_instructor", "commit_cancel"}
  BY DEF AllSeen, SeenOK, InFlight, InFlightPcs
<1>1. CASE req'[c] = req[c]
  BY <1>1 DEF InFlight
<1>2. CASE Arrive(c)
  BY <1>2, <1>b, ArriveMoves
<1>3. CASE Continue(c)
  <2>1. CancelRefundInstructor(c) \/ CancelRefundFails(c) \/ CancelCommit(c)
    BY <1>3, <1>b
    DEF Continue, BookFindCoaching, BookReject, BookFindEmergency, BookSpend,
        BookSpendFails, BookCommit, CancelGrant, CancelRefundStudent, DeleteCommit
  <2>2. ~CancelRefundInstructor(c)
    BY <1>a DEF CancelRefundInstructor, InFlight, InFlightPcs, Request
  <2> QED
    BY <2>1, <2>2 DEF CancelRefundFails, Fail
<1>4. CASE Crash
  BY <1>4 DEF Crash, Fail
<1> QED
  BY <1>1, <1>2, <1>3, <1>4, ReqStepMoves DEF ReqMoves

\* A cancellation that nobody contends with still has its booking in its slot,
\* and is the only one at it.
LEMMA CancelHolds ==
  ASSUME LInv, NEW c \in Requests, req[c].pc \in CancelPcs,
         req[c].seen.owner \notin contended
  PROVE  /\ Booked(slot[req[c].slot]) /\ slot[req[c].slot] = req[c].seen
         /\ ~PassPaid(req[c].slot) /\ phase[req[c].slot] # Over
         /\ \A d \in Requests : InFlight(d) /\ req[d].seen.owner = req[c].seen.owner => d = c
<1>a. IInv /\ AllSeen /\ Contention /\ PassOK
  BY DEF LInv
<1>1. InFlight(c) /\ req[c].slot \in Slots /\ phase[req[c].slot] # Over
  BY <1>a, WritesInTime DEF Week, Running, Over
<1>2. slot[req[c].slot] = req[c].seen /\ Booked(req[c].seen)
  BY <1>a, <1>1 DEF Contention, AllSeen, SeenOK
<1>3. ~PassPaid(req[c].slot)
  BY <1>a, <1>1 DEF PassOK, PassPaid, Todo
<1> QED
  BY <1>a, <1>1, <1>2, <1>3 DEF Contention

\* The booking that is paid for next still has nobody's refund on the way.
LEMMA PayWhileOpen ==
  ASSUME LInv, [Next]_vars, NEW b \in Requests, payouts'[b] # payouts[b]
  PROVE  /\ Open(b) /\ payouts'[b] = payouts[b] + 1
         /\ Refunds(b)' = Refunds(b)
         /\ ~Open(b)' \/ failures' = failures + 1
<1>a. IInv /\ AllSeen /\ PassOK
  BY DEF LInv
<1> DEFINE s == cleaner.cur
<1>1. /\ cleaner.pc = "pay" /\ b = CurrentBooking /\ payouts'[b] = payouts[b] + 1
      /\ CleanupPay \/ (CleanupCallFails /\ failures' = failures + 1)
  BY <1>a, PayStep DEF PayMoves
<1>2. /\ s \in Slots /\ phase[s] = Over /\ Booked(slot[s]) /\ b = slot[s].booking
      /\ ~PassPaid(s) /\ RowBacked(req, slot[s], s)
  BY <1>a, <1>1, CurrentOwed
<1>3. req[b].slot = s /\ req[b].pc = "booked"
  BY <1>2 DEF RowBacked
<1>4. ASSUME NEW c \in Refunds(b), InFlight(c)
      PROVE  FALSE
  <2>1. c \in Requests /\ SeenOK(c) /\ req[c].refunded > 0 /\ req[c].seen.booking = b
    BY <1>a, <1>4 DEF Refunds, AllSeen
  <2>2. req[c].pc \in BookPcs \cup CancelPcs /\ Booked(req[c].seen)
    BY <1>4, <2>1 DEF SeenOK, InFlight, InFlightPcs, CancelPcs
  <2>3. req[c].slot = s
    BY <1>a, <1>3, <2>1, <2>2, RefundReads
  <2> QED
    BY <1>a, <1>2, <2>1, <2>2, <2>3, WritesInTime DEF Week, Running, Over
<1>5. Open(b)
  BY <1>2, <1>3, <1>4 DEF Open
<1>6. Refunds(b)' = Refunds(b)
  BY <1>1 DEF CleanupPay, CleanupCallFails, Refunds
<1>7. ASSUME CleanupPay PROVE ~Open(b)'
  <2>1. PICK t \in Slots : t = s
    BY <1>2
  <2>2. PassPaid(t)'
    BY <1>a, <1>7, <2>1, PassPaidMoves
  <2>3. req'[b].slot = t
    BY <1>3, <1>7, <2>1 DEF CleanupPay
  <2> QED
    BY <2>2, <2>3 DEF Open, PassPaid
<1> QED
  BY <1>1, <1>5, <1>6, <1>7

\* A refund that is asked for is the first of a booking that nobody else has
\* given the coins of, unless its owner is contended.
LEMMA RefundWhileOpen ==
  ASSUME LInv, NEW b \in Requests, req[b].seen.owner \notin contended,
         NEW c \in Requests, req[c].pc = "refund_student", req[c].seen.booking = b,
         c \notin Refunds(b)
  PROVE  Open(b)
<1>a. IInv /\ AllSeen
  BY DEF LInv
<1>1. Booked(req[c].seen) /\ req[c].pc \in CancelPcs
  BY <1>a DEF AllSeen, SeenOK, CancelPcs
<1>2. req[c].slot = req[b].slot /\ req[c].seen.owner = req[b].seen.owner
  BY <1>a, <1>1, RefundReads
<1>3. /\ Booked(slot[req[b].slot]) /\ slot[req[b].slot].booking = b
      /\ ~PassPaid(req[b].slot)
      /\ \A d \in Requests : InFlight(d) /\ req[d].seen.owner = req[b].seen.owner => d = c
  BY <1>1, <1>2, CancelHolds
<1>4. ASSUME NEW d \in Refunds(b), InFlight(d) PROVE FALSE
  <2>1. d \in Requests /\ Booked(req[d].seen) /\ req[d].seen.booking = b
    BY <1>a, <1>4 DEF Refunds, AllSeen, SeenOK
  <2>2. req[d].seen.owner = req[b].seen.owner
    BY <1>a, <2>1, RefundReads
  <2> QED
    BY <1>3, <1>4, <2>1, <2>2
<1> QED
  BY <1>3, <1>4 DEF Open

\* A booking whose coins are open was open before, or a failure was spent.
LEMMA OpenKept ==
  ASSUME LInv, [Next]_vars, NEW b \in Requests, req[b].pc = "booked",
         req[b].seen.owner \notin contended, Open(b)', Refunds(b)' = Refunds(b),
         failures' # failures + 1
  PROVE  Open(b)
<1>a. IInv /\ AllSeen /\ PassOK /\ req'[b] = req[b]
  BY FinalKept DEF LInv, Final
<1> DEFINE s == req[b].slot
<1>1. Booked(slot'[s]) /\ slot'[s].booking = b /\ ~PassPaid(s)'
      /\ (\A c \in Refunds(b) : ~InFlight(c)')
  BY <1>a DEF Open, Booked, InFlight
<1>2. s \in Slots
  BY <1>a DEF IInv, ReqOK
<1>3. slot'[s] = slot[s]
  BY <1>a, <1>1, <1>2, BookedMoves DEF BookCommit
<1>4. ~PassPaid(s)
  BY <1>a, <1>1, <1>2, PassPaidMoves DEF Booked
<1>5. ASSUME NEW c \in Refunds(b), InFlight(c) PROVE FALSE
  <2>1. c \in Requests /\ SeenOK(c) /\ req[c].refunded > 0 /\ req[c].seen.booking = b
    BY <1>a, <1>5 DEF Refunds, AllSeen
  <2>2. Booked(req[c].seen)
    BY <2>1 DEF SeenOK
  <2>3. CancelCommit(c)
    BY <1>a, <1>1, <1>5, <2>1, RefundEnds
  <2>4. req[c].slot = s /\ req[c].seen.owner = req[b].seen.owner /\ req[c].seen.owner \in Users
    BY <1>a, <2>1, <2>2, RefundReads DEF IInv, ReqOK, InFlight, InFlightPcs, Booked, Row, TypeOK
  <2>5. slot[s] # NoRow
    BY <1>1, <1>3 DEF Booked
  <2>6. ~GrantConflict(c)
    BY <1>5, <2>1, <2>4 DEF LInv, GrantsOK, GrantConflict
  <2>7. slot' = [slot EXCEPT ![s] = CancelledRow(@)]
    BY <2>3, <2>4, <2>5, <2>6 DEF CancelCommit
  <2>8. slot'[s] = FreshRow(slot[s].owner)
    BY <1>a, <1>2, <2>7 DEF CancelledRow, IInv, TypeOK
  <2> QED
    BY <1>1, <2>8 DEF Booked, FreshRow
<1> QED
  BY <1>1, <1>3, <1>4, <1>5 DEF Open

\* Every step keeps the coins given out for a booking within its price.
LEMMA GivenStep == LInv /\ [Next]_vars => GivenOK'
<1> SUFFICES ASSUME LInv, [Next]_vars, NEW b \in Requests, req'[b].pc = "booked",
                    req'[b].seen.owner \notin contended'
             PROVE  /\ IsFiniteSet(Refunds(b)')
                    /\ Cardinality(Refunds(b)') + payouts'[b] <= 1 + failures'
                    /\ Open(b)' => Cardinality(Refunds(b)') + payouts'[b] <= failures'
  BY DEF GivenOK, Bookings
<1> DEFINE R == Refunds(b)
<1>a. /\ IInv /\ AllSeen /\ PaidOK /\ contended \subseteq contended'
      /\ payouts \in [Requests -> Nat] /\ failures \in Nat
      /\ failures' \in {failures, failures + 1} /\ req \in [Requests -> Request]
  BY ContendedKept, PayStep DEF LInv, IInv, TypeOK
<1>b. payouts[b] \in Nat
  BY <1>a
<1>1. CASE req[b].pc # "booked"
  <2>1. BookCommit(b)
    <3>1. CASE req'[b] = req[b]
      BY <1>1, <3>1
    <3>2. CASE Arrive(b)
      BY <1>a, <3>2, ArriveMoves DEF Started
    <3>3. CASE Continue(b) /\ ~BookCommit(b)
      BY <1>a, <1>1, <3>3
      DEF Continue, BookFindCoaching, BookReject, BookFindEmergency, BookSpend,
          BookSpendFails, CancelGrant, CancelRefundStudent, CancelRefundInstructor,
          CancelRefundFails, CancelCommit, DeleteCommit, Request
    <3>4. CASE req'[b] = [req[b] EXCEPT !.pc = "failed", !.ec = "keep"]
      BY <1>a, <3>4 DEF Request
    <3> QED
      BY <1>a, <3>1, <3>2, <3>3, <3>4, ReqStepMoves DEF ReqMoves
  <2>2. req[b].pc = "commit_booking" /\ payouts' = payouts
    BY <2>1 DEF BookCommit
  <2>3. R = {}
    BY <1>a, <1>1, RefundReads DEF Refunds, AllSeen, SeenOK
  <2>4. R' = R
    <3>1. RefundMoves(b)
      BY <1>a, RefundStep
    <3>2. ASSUME NEW c \in Requests, req[c].pc = "refund_student", req[c].seen.booking = b
          PROVE  FALSE
      <4>1. Booked(req[c].seen)
        BY <1>a, <3>2 DEF AllSeen, SeenOK, CancelPcs
      <4> QED
        BY <1>a, <1>1, <3>2, <4>1, RefundReads
    <3> QED
      BY <3>1, <3>2 DEF RefundMoves
  <2>5. payouts'[b] = 0
    BY <1>a, <1>b, <1>1, <2>2 DEF PaidOK
  <2>6. IsFiniteSet(R') /\ Cardinality(R') = 0
    BY <2>3, <2>4, FS_EmptySet
  <2> QED
    BY <1>a, <2>5, <2>6
<1>2. CASE req[b].pc = "booked"
  <2>a. req'[b] = req[b] /\ req[b].seen.owner \notin contended
    BY <1>a, <1>2, FinalKept DEF Final
  <2>b. /\ IsFiniteSet(R) /\ Cardinality(R) \in Nat
        /\ Cardinality(R) + payouts[b] <= 1 + failures
        /\ Open(b) => Cardinality(R) + payouts[b] <= failures
    BY <1>2, <2>a, FS_CardinalityType DEF LInv, GivenOK, Bookings
  <2>1. CASE payouts'[b] # payouts[b]
    <3>1. /\ Open(b) /\ payouts'[b] = payouts[b] + 1 /\ R' = R
          /\ ~Open(b)' \/ failures' = failures + 1
      BY <2>1, PayWhileOpen
    <3> QED
      BY <1>a, <1>b, <2>b, <3>1
  <2>2. ASSUME payouts'[b] = payouts[b], NEW c \in Requests, c \notin R, R' = R \cup {c},
               req[c].pc = "refund_student", req[c].seen.booking = b,
               InFlight(c)' \/ failures' = failures + 1
        PROVE  /\ IsFiniteSet(R')
               /\ Cardinality(R') + payouts'[b] <= 1 + failures'
               /\ Open(b)' => Cardinality(R') + payouts'[b] <= failures'
    <3>1. Open(b)
      BY <2>a, <2>2, RefundWhileOpen
    <3>2. IsFiniteSet(R') /\ Cardinality(R') = Cardinality(R) + 1
      BY <2>b, <2>2, FS_AddElement
    <3>3. InFlight(c)' => ~Open(b)'
      BY <2>2 DEF Open, InFlight
    <3> QED
      BY <1>a, <1>b, <2>b, <2>2, <3>1, <3>2, <3>3
  <2>3. CASE payouts'[b] = payouts[b] /\ R' = R
    <3>1. Open(b)' => Open(b) \/ failures' = failures + 1
      BY <1>2, <2>a, <2>3, OpenKept
    <3> QED
      BY <1>a, <1>b, <2>b, <2>3, <3>1
  <2> QED
    BY <1>a, <2>1, <2>2, <2>3, RefundStep DEF RefundMoves
<1> QED
  BY <1>1, <1>2

-----------------------------------------------------------------------------
(***************************************************************************)
(* The ledger                                                              *)
(***************************************************************************)
\* Initially there is nothing to account for.
LEMMA InitLInv == Init => LInv
<1> SUFFICES ASSUME Init PROVE LInv
  OBVIOUS
<1>a. /\ \A r \in Requests : req[r] = IdleRequest
      /\ \A s \in Slots : slot[s] = NoRow
      /\ \A b \in Requests : payouts[b] = 0
      /\ cleaner = IdleCleaner /\ failures = 0 /\ emergency = {} /\ contended = {}
  BY DEF Init
<1>1. IInv
  BY InitIInv
<1>2. AllSeen
  BY <1>a DEF AllSeen, SeenOK, IdleRequest, Booked, BookPcs, CancelPcs
<1>3. Contention /\ LateDelete
  BY <1>a DEF Contention, LateDelete, InFlight, InFlightPcs, BookPcs, CancelPcs, IdleRequest
<1>4. PassOK
  BY <1>a DEF PassOK, IdleCleaner, Booked
<1>5. PaidOK
  BY <1>a DEF PaidOK, PayoutsBounded, Booked
<1>6. \A u \in Users : FreeBookings(u) = {} /\ Grants(u) = {}
  BY <1>a DEF FreeBookings, Grants, Bookings, IdleRequest
<1>7. GrantsOK
  BY <1>a, <1>6, FS_EmptySet DEF GrantsOK, InFlight, InFlightPcs, IdleRequest
<1>8. GivenOK
  BY <1>a DEF GivenOK, Bookings, IdleRequest
<1> QED
  BY <1>1, <1>2, <1>3, <1>4, <1>5, <1>7, <1>8 DEF LInv

\* The ledger is inductive.
LEMMA StepLInv == LInv /\ [Next]_vars => LInv'
BY StepIInv, SeenStep, ContentionStep, LateDeleteStep, PassStep, PaidStep, GrantsStep, GivenStep
   DEF LInv

\* The ledger holds in every reachable state.
LEMMA LedgerInvariance == Spec => []LInv
BY InitLInv, StepLInv, PTL DEF Spec

\* The instructor is paid once for a booking, and once more at most for every
\* exception or restart.
THEOREM PayoutsAreBounded == Spec => []PayoutsBounded
<1>1. LInv => PayoutsBounded
  BY DEF LInv, PaidOK
<1> QED
  BY <1>1, LedgerInvariance, PTL

\* The cleanup removes no booking whose instructor has a share and was not paid.
THEOREM BookingsArePaidFirst == Spec => PaidBeforeRemoved
<1>1. LInv /\ [Next]_vars =>
        [\A s \in Slots :
           (phase[s] = Over /\ Booked(slot[s]) /\ slot'[s] = NoRow)
             => slot[s].instructor_coins = 0 \/ payouts[slot[s].booking] > 0]_vars
  <2> SUFFICES ASSUME LInv, [Next]_vars, NEW s \in Slots, phase[s] = Over,
                      Booked(slot[s]), slot'[s] = NoRow
               PROVE  slot[s].instructor_coins = 0 \/ payouts[slot[s].booking] > 0
    OBVIOUS
  <2>1. s \in cleaner.dels
    BY BookingKeptWhenOver DEF LInv, Booked
  <2> QED
    BY <2>1 DEF LInv, PaidOK, PassPaid
<1> QED
  BY <1>1, LedgerInvariance, PTL DEF Spec, PaidBeforeRemoved

\* While the slots of an instructor are worked on by one request at a time, an
\* emergency cancellation pays for one booking.
THEOREM EmergencyPaysOnce == Spec => []EmergencyOnce
<1>1. LInv => EmergencyOnce
  BY DEF LInv, GrantsOK, EmergencyOnce
<1> QED
  BY <1>1, LedgerInvariance, PTL

\* Under the same condition the coins of a booking are given out once, and once
\* more at most for every failure, and no refund exceeds the price.
THEOREM CoinsAreGivenOutOnce == Spec => []GivenOutOnce
<1>1. LInv => GivenOutOnce
  <2> SUFFICES ASSUME LInv, NEW b \in Bookings, req[b].seen.owner \notin contended
               PROVE  /\ Cardinality(Refunds(b)) + payouts[b] <= 1 + failures
                      /\ \A c \in Refunds(b) : req[c].refunded <= req[b].price
    BY DEF GivenOutOnce
  <2>1. Cardinality(Refunds(b)) + payouts[b] <= 1 + failures
    BY DEF LInv, GivenOK
  <2>2. ASSUME NEW c \in Refunds(b) PROVE req[c].refunded <= req[b].price
    <3>1. /\ c \in Requests /\ Booked(req[c].seen) /\ req[c].seen.booking = b
          /\ req[c].refunded <= req[c].seen.student_coins
      BY DEF LInv, AllSeen, SeenOK, Refunds
    <3> QED
      BY <3>1, RefundReads DEF LInv
  <2> QED
    BY <2>1, <2>2
<1> QED
  BY <1>1, LedgerInvariance, PTL

-----------------------------------------------------------------------------
(***************************************************************************)
(* Payments without a booking                                              *)
(***************************************************************************)
\* Only a booking takes coins, shortly before its end; what was charged for the
\* slots of an owner whom nobody contends for is lost to failures only.
ChargesOK ==
  /\ \A r \in Requests :
       req[r].charged > 0 => req[r].pc \in {"commit_booking", "booked", "failed"}
  /\ \A u \in Users \ contended :
       IsFiniteSet(LostPayments(u)) /\ Cardinality(LostPayments(u)) <= failures

\* Nobody is charged by a first read.
LEMMA ArriveCharges ==
  ASSUME IInv, NEW r \in Requests, Arrive(r)
  PROVE  req'[r].charged = 0
<1>a. req \in [Requests -> Request]
  BY DEF IInv, TypeOK
<1>1. ASSUME NEW u \in Users, NEW s \in Slots, NEW k \in Skills, BookFindSlot(r, u, s, k)
      PROVE  req'[r].charged = 0
  BY <1>a, <1>1 DEF BookFindSlot, Start, Reading, IdleRequest
<1>2. ASSUME NEW u \in Users, NEW s \in Slots, CancelFindSlot(r, u, s)
      PROVE  req'[r].charged = 0
  BY <1>2, CancelReads
<1>3. ASSUME NEW u \in Users, NEW s \in Slots, DeleteFindSlot(r, u, s)
      PROVE  req'[r].charged = 0
  BY <1>a, <1>3 DEF DeleteFindSlot, Start, Reading, IdleRequest
<1> QED
  BY <1>1, <1>2, <1>3 DEF Arrive

\* A request that goes on and was charged, or is, can still become a booking, is
\* one, or has failed: by a raising call, or because its slot has vanished.
LEMMA ContinueCharges ==
  ASSUME IInv, ChargesOK, NEW r \in Requests, Continue(r), req'[r].charged > 0
  PROVE  \/ req'[r].pc \in {"commit_booking", "booked"}
         \/ req'[r].pc = "failed" /\ failures' = failures + 1
         \/ BookCommit(r) /\ slot[req[r].slot] = NoRow /\ req'[r].pc = "failed"
<1>a. /\ req \in [Requests -> Request] /\ req[r] \in Request
      /\ req[r].charged > 0 => req[r].pc \in {"commit_booking", "booked", "failed"}
  BY DEF IInv, TypeOK, ChargesOK
<1>1. CASE BookFindCoaching(r) \/ BookReject(r) \/ BookFindEmergency(r)
  BY <1>a, <1>1 DEF BookFindCoaching, BookReject, BookFindEmergency, Request
<1>2. CASE BookSpend(r)
  BY <1>a, <1>2 DEF BookSpend, Request
<1>3. CASE BookSpendFails(r)
  BY <1>a, <1>3 DEF BookSpendFails, Fail, Request
<1>4. CASE BookCommit(r)
  BY <1>a, <1>4 DEF BookCommit, Request
<1>5. CASE CancelGrant(r) \/ CancelRefundStudent(r) \/ CancelRefundInstructor(r)
  BY <1>a, <1>5 DEF CancelGrant, CancelRefundStudent, CancelRefundInstructor, Request
<1>6. CASE CancelRefundFails(r)
  BY <1>a, <1>6 DEF CancelRefundFails, Request
<1>7. CASE CancelCommit(r) \/ DeleteCommit(r)
  BY <1>a, <1>7 DEF CancelCommit, DeleteCommit, Request
<1> QED
  BY <1>1, <1>2, <1>3, <1>4, <1>5, <1>6, <1>7 DEF Continue

\* A payment for a slot of an uncontended owner is lost by a failure, while the
\* request is in flight.
LEMMA LostNow ==
  ASSUME LInv, ChargesOK, [Next]_vars, NEW u \in Users \ contended,
         NEW p \in LostPayments(u)', p \notin LostPayments(u)
  PROVE  InFlight(p) /\ req[p].seen.owner = u /\ failures' = failures + 1
<1>a. /\ IInv /\ Contention /\ p \in Requests
      /\ req \in [Requests -> Request] /\ req[p] \in Request
      /\ req'[p].charged > 0 /\ req'[p].seen.owner = u
      /\ ~InFlight(p)' /\ req'[p].pc # "booked"
  BY DEF LInv, IInv, TypeOK, LostPayments
<1>1. CASE req'[p] = req[p]
  BY <1>a, <1>1 DEF LostPayments, InFlight
<1>2. CASE Arrive(p)
  BY <1>a, <1>2, ArriveCharges
<1>3. CASE Continue(p)
  <2>1. InFlight(p) /\ req[p].seen.owner = u
    BY <1>a, <1>3, ContinueFrame DEF Frame, IInv
  <2>2. ~(BookCommit(p) /\ slot[req[p].slot] = NoRow)
    BY <1>a, <2>1 DEF Contention, BookCommit, BookPcs
  <2>3. req'[p].pc # "commit_booking"
    BY <1>a DEF InFlight, InFlightPcs
  <2> QED
    BY <1>a, <1>3, <2>1, <2>2, <2>3, ContinueCharges
<1>4. CASE Crash /\ InFlight(p) /\ req'[p] = [req[p] EXCEPT !.pc = "failed", !.ec = "keep"]
  <2>1. req'[p].seen = req[p].seen
    BY <1>a, <1>4 DEF Request
  <2> QED
    BY <1>a, <1>4, <2>1 DEF Crash, Fail
<1> QED
  BY <1>a, <1>1, <1>2, <1>3, <1>4, ReqStepMoves DEF ReqMoves

\* Every step keeps the charges accounted for: of the requests on the slots of an
\* owner whom nobody contends for, only one can be in flight and lose its coins.
LEMMA ChargesStep == LInv /\ ChargesOK /\ [Next]_vars => ChargesOK'
<1> SUFFICES ASSUME LInv, ChargesOK, [Next]_vars PROVE ChargesOK'
  OBVIOUS
<1>a. /\ IInv /\ Contention /\ contended \subseteq contended'
      /\ req \in [Requests -> Request] /\ failures \in Nat
      /\ failures' \in {failures, failures + 1}
  BY ContendedKept, PayStep DEF LInv, IInv, TypeOK
<1>1. ASSUME NEW r \in Requests, req'[r].charged > 0
      PROVE  req'[r].pc \in {"commit_booking", "booked", "failed"}
  <2>1. CASE req'[r] = req[r]
    BY <1>1, <2>1 DEF ChargesOK
  <2>2. CASE Arrive(r)
    BY <1>a, <1>1, <2>2, ArriveCharges
  <2>3. CASE Continue(r)
    BY <1>a, <1>1, <2>3, ContinueCharges
  <2>4. CASE req'[r] = [req[r] EXCEPT !.pc = "failed", !.ec = "keep"]
    BY <1>a, <2>4 DEF Request
  <2> QED
    BY <1>a, <2>1, <2>2, <2>3, <2>4, ReqStepMoves DEF ReqMoves
<1>2. ASSUME NEW u \in Users, u \notin contended'
      PROVE  IsFiniteSet(LostPayments(u)') /\ Cardinality(LostPayments(u)') <= failures'
  <2> DEFINE L == LostPayments(u)
  <2>1. IsFiniteSet(L) /\ Cardinality(L) <= failures /\ u \in Users \ contended
    BY <1>a, <1>2 DEF ChargesOK
  <2>2. Cardinality(L) \in Nat
    BY <2>1, FS_CardinalityType
  <2>3. CASE L' \subseteq L
    <3>1. IsFiniteSet(L') /\ Cardinality(L') <= Cardinality(L)
      BY <2>1, <2>3, FS_Subset
    <3>2. Cardinality(L') \in Nat
      BY <3>1, FS_CardinalityType
    <3> QED
      BY <1>a, <2>1, <2>2, <3>1, <3>2
  <2>4. ASSUME NEW p \in L', p \notin L
        PROVE  IsFiniteSet(L') /\ Cardinality(L') <= failures'
    <3>1. failures' = failures + 1 /\ InFlight(p) /\ req[p].seen.owner = u /\ p \in Requests
      BY <2>1, <2>4, LostNow DEF LostPayments
    <3>2. ASSUME NEW q \in L', q \notin L PROVE q = p
      <4>1. InFlight(q) /\ req[q].seen.owner = u /\ q \in Requests
        BY <2>1, <3>2, LostNow DEF LostPayments
      <4> QED
        BY <1>a, <2>1, <3>1, <4>1 DEF Contention
    <3>3. L' \subseteq L \cup {p}
      BY <3>2
    <3>4. IsFiniteSet(L \cup {p}) /\ Cardinality(L \cup {p}) = Cardinality(L) + 1
      BY <2>1, <2>4, FS_AddElement
    <3>5. IsFiniteSet(L') /\ Cardinality(L') <= Cardinality(L \cup {p})
      BY <3>3, <3>4, FS_Subset
    <3>6. Cardinality(L') \in Nat
      BY <3>5, FS_CardinalityType
    <3> QED
      BY <1>a, <2>1, <2>2, <3>1, <3>4, <3>5, <3>6
  <2> QED
    BY <2>3, <2>4
<1> QED
  BY <1>1, <1>2 DEF ChargesOK

\* While the slots of an instructor are worked on by one request at a time, a
\* student who was charged for one of them has the booking; a raising call or a
\* restart costs one student their coins at most.
THEOREM ChargedMeansBooked == Spec => []PaidInVain
<1>1. Init => ChargesOK
  <2> SUFFICES ASSUME Init PROVE ChargesOK
    OBVIOUS
  <2>1. \A r \in Requests : req[r].charged = 0
    BY DEF Init, IdleRequest
  <2>2. \A u \in Users : LostPayments(u) = {}
    BY <2>1 DEF LostPayments
  <2> QED
    BY <2>1, <2>2, FS_EmptySet DEF ChargesOK, Init
<1>2. ChargesOK => PaidInVain
  BY DEF ChargesOK, PaidInVain
<1> QED
  BY <1>1, <1>2, ChargesStep, LedgerInvariance, PTL DEF Spec

-----------------------------------------------------------------------------
(***************************************************************************)
(* What the calendar shows                                                 *)
(***************************************************************************)
\* An uncontended booking that was not cancelled stays in its slot until that
\* is over, and a booked row has the skill that was asked for.
Stands(b) == /\ Booked(slot[req[b].slot])
             /\ slot[req[b].slot].booking = b
BookingsStand ==
  /\ \A b \in Bookings :
       req[b].seen.owner \notin contended /\ Cancels(b) = {} /\ phase[req[b].slot] # Over
         => Stands(b)
  /\ \A s \in Slots : Booked(slot[s]) => slot[s].skill_id = req[slot[s].booking].skill

\* A slot that is booked, or whose booking is being cancelled, and is not over is
\* written by nobody but the cancellation of that booking.
LEMMA OnlyCancelled ==
  ASSUME LInv, [Next]_vars, NEW s \in Slots, Booked(slot[s]), phase[s] # Over,
         slot[s].owner \notin contended, slot'[s] # slot[s]
  PROVE  \E q \in Requests : /\ CancelCommit(q) /\ req[q].slot = s
                             /\ req'[q].pc = "cancelled"
                             /\ req'[q].seen.booking = slot[s].booking
<1>a. IInv /\ PassOK /\ Contention /\ AllSeen /\ slot[s] # NoRow
  BY DEF LInv, Booked
<1>1. PICK q \in Requests :
         /\ InFlight(q) /\ req[q].slot = s
         /\ BookCommit(q) \/ (CancelCommit(q) /\ req'[q].pc = "cancelled") \/ DeleteCommit(q)
  BY <1>a, Writers
<1>2. req[q].seen = slot[s]
  <2>1. req[q].seen.owner = slot[s].owner
    BY <1>a, <1>1 DEF IInv, ReqOK, InFlight, InFlightPcs
  <2> QED
    BY <1>a, <1>1, <2>1 DEF Contention
<1>3. CancelCommit(q) /\ req'[q].pc = "cancelled"
  BY <1>a, <1>1, <1>2 DEF AllSeen, SeenOK, BookCommit, DeleteCommit, BookPcs
<1>4. req'[q].seen = req[q].seen
  BY <1>3, <1>a DEF CancelCommit, IInv, TypeOK, Request
<1> QED
  BY <1>1, <1>2, <1>3, <1>4

\* A booking and a cancellation that have ended stay as they ended.
LEMMA EndedKept ==
  ASSUME IInv, [Next]_vars, NEW b \in Requests
  PROVE  /\ b \in Bookings => b \in Bookings' /\ req'[b] = req[b]
         /\ Cancels(b) \subseteq Cancels(b)'
BY FinalKept DEF Bookings, Cancels, Final

\* Only the commit of a booking makes it one, and it writes the row of its slot
\* unless that has vanished.
LEMMA BookedNow ==
  ASSUME IInv, [Next]_vars, NEW b \in Requests, req'[b].pc = "booked", req[b].pc # "booked"
  PROVE  BookCommit(b) /\ slot[req[b].slot] # NoRow
<1>a. req \in [Requests -> Request] /\ req[b] \in Request
  BY DEF IInv, TypeOK
<1>1. CASE Arrive(b)
  BY <1>1, ArriveMoves DEF Started
<1>2. CASE Continue(b)
  <2>1. CASE BookCommit(b)
    BY <1>a, <2>1 DEF BookCommit, Request
  <2>2. CASE \/ BookFindCoaching(b) \/ BookReject(b) \/ BookFindEmergency(b)
             \/ BookSpend(b) \/ BookSpendFails(b)
    BY <1>a, <2>2
    DEF BookFindCoaching, BookReject, BookFindEmergency, BookSpend, BookSpendFails, Request
  <2>3. CASE CancelGrant(b) \/ CancelRefundStudent(b) \/ CancelRefundInstructor(b)
    BY <1>a, <2>3 DEF CancelGrant, CancelRefundStudent, CancelRefundInstructor, Request
  <2>4. CASE CancelRefundFails(b) \/ CancelCommit(b) \/ DeleteCommit(b)
    BY <1>a, <2>4 DEF CancelRefundFails, CancelCommit, DeleteCommit, Request
  <2> QED
    BY <1>2, <2>1, <2>2, <2>3, <2>4 DEF Continue
<1>3. CASE req'[b] = [req[b] EXCEPT !.pc = "failed", !.ec = "keep"]
  BY <1>a, <1>3 DEF Request
<1> QED
  BY <1>1, <1>2, <1>3, ReqStepMoves DEF ReqMoves

\* What the commit of a booking leaves in its slot.
LEMMA WrittenByBooking ==
  ASSUME IInv, NEW r \in Requests, BookCommit(r), slot[req[r].slot] # NoRow
  PROVE  LET s == req[r].slot IN
         /\ s \in Slots /\ req'[r].slot = s
         /\ Booked(slot'[s]) /\ slot'[s].booking = r
         /\ slot'[s].skill_id = req'[r].skill
<1> DEFINE s == req[r].slot
<1>a. /\ req \in [Requests -> Request] /\ req[r] \in Request /\ slot \in [Slots -> Row \cup {NoRow}]
      /\ req[r].pc = "commit_booking" /\ s \in Slots /\ req[r].user \in Users
  BY DEF IInv, TypeOK, BookCommit, ReqOK
<1>b. slot[s] \in Row
  BY <1>a
<1>1. /\ slot'[s] = BookingRow(r) /\ req'[r] = [req[r] EXCEPT !.pc = "booked"]
  BY <1>a DEF BookCommit
<1>2. /\ BookingRow(r).booked_by = req[r].user /\ BookingRow(r).booking = r
      /\ BookingRow(r).skill_id = req[r].skill /\ BookingRow(r) \in Row
  <2>1. BookingRow(r) \in Row
    <3>1. req[r].price \in Nat /\ InstructorShare(req[r].price) \in Nat
      BY <1>a, ShareBounds DEF Request
    <3> QED
      BY <1>a, <1>b, <3>1 DEF BookingRow, Row, IInv, ReqOK, BookPcs
  <2> QED
    BY <1>b, <2>1 DEF BookingRow, Row
<1>3. req[r].user # None /\ BookingRow(r) # NoRow
  BY <1>a, <1>2, CoachingAssumption, NoRowAssumption
<1> QED
  BY <1>a, <1>1, <1>2, <1>3 DEF Booked, Request

\* Every step keeps what the calendar needs.
LEMMA StandsStep == LInv /\ BookingsStand /\ [Next]_vars => BookingsStand'
<1> SUFFICES ASSUME LInv, BookingsStand, [Next]_vars PROVE BookingsStand'
  OBVIOUS
<1>a. IInv /\ TypeOK /\ contended \subseteq contended'
  BY ContendedKept DEF LInv, IInv
<1>1. ASSUME NEW b \in Requests, req'[b].pc = "booked", req'[b].seen.owner \notin contended',
             Cancels(b)' = {}, phase'[req'[b].slot] # Over
      PROVE  Booked(slot'[req'[b].slot]) /\ slot'[req'[b].slot].booking = b
  <2>1. CASE b \in Bookings
    <3> DEFINE s == req[b].slot
    <3>1. req'[b] = req[b] /\ Cancels(b) = {} /\ s \in Slots
      BY <1>a, <1>1, <2>1, EndedKept DEF Bookings, IInv, ReqOK
    <3>2. phase[s] # Over
      BY <1>a, <1>1, <3>1, FrozenWhenOver
    <3>3. Stands(b)
      BY <1>a, <1>1, <2>1, <3>1, <3>2 DEF BookingsStand
    <3>4. slot[s].owner = req[b].seen.owner
      BY <1>a, <3>1, <3>3, SlotBacked DEF Stands, RowBacked
    <3>5. slot'[s] = slot[s]
      BY <1>a, <1>1, <3>1, <3>2, <3>3, <3>4, OnlyCancelled DEF Stands, Cancels
    <3> QED
      BY <3>1, <3>3, <3>5 DEF Stands, Booked
  <2>2. CASE b \notin Bookings
    <3>1. BookCommit(b) /\ slot[req[b].slot] # NoRow
      BY <1>a, <1>1, <2>2, BookedNow DEF Bookings
    <3> QED
      BY <1>a, <3>1, WrittenByBooking
  <2> QED
    BY <2>1, <2>2
<1>2. ASSUME NEW s \in Slots, Booked(slot'[s])
      PROVE  slot'[s].skill_id = req'[slot'[s].booking].skill
  <2>1. CASE slot'[s] = slot[s]
    <3>1. Booked(slot[s]) /\ req'[slot[s].booking] = req[slot[s].booking]
      BY <1>a, <1>2, <2>1, SlotBacked, EndedKept DEF Booked, RowBacked, Bookings
    <3> QED
      BY <2>1, <3>1 DEF BookingsStand
  <2>2. ASSUME NEW r \in Requests, BookCommit(r), req[r].slot = s, slot[s] # NoRow
        PROVE  slot'[s].skill_id = req'[slot'[s].booking].skill
    BY <1>a, <2>2, WrittenByBooking
  <2> QED
    BY <1>a, <1>2, <2>1, <2>2, BookedMoves
<1> QED
  BY <1>1, <1>2 DEF BookingsStand, Bookings, Stands

\* The calendars of student and instructor have a booking that stands as it was
\* made, and whoever else sees the slot is neither offered it nor told whose it is.
LEMMA StandsShown ==
  ASSUME IInv, BookingsStand, NEW b \in Bookings, Stands(b), phase[req[b].slot] # Over
  PROVE  /\ \A u \in Parties(b) : \E e \in BookedOnly(u) :
              /\ e.id = req[b].slot /\ e.skill = req[b].skill /\ e.student = req[b].user
              /\ req[b].seen.owner \notin emergency => e.price = req[b].price
         /\ \A u \in Users :
              /\ \A e \in BookableOnly(u) : e.id # req[b].slot
              /\ \A e \in Calendar(u) : e.id = req[b].slot /\ e.student # None
                   => u \in Parties(b) \cup Admins
<1> DEFINE s == req[b].slot
           row == slot[s]
           Name(u) == IF u \in Admins \cup {row.owner, row.booked_by} THEN row.booked_by
                      ELSE None
           Event(u) == [id |-> s, skill |-> row.skill_id,
                        price |-> Price(row.owner, row.student_coins),
                        booked |-> TRUE, bookable |-> FALSE, student |-> Name(u)]
<1>1. /\ s \in Slots /\ Booked(row) /\ row.booking = b /\ row.owner = req[b].seen.owner
      /\ row.student_coins = req[b].price /\ row.skill_id = req[b].skill
  BY SlotBacked DEF Stands, BookingsStand, IInv, ReqOK, Bookings, RowBacked
<1>2. row.booked_by = req[b].user /\ Parties(b) = {row.booked_by, row.owner}
  BY <1>1 DEF IInv, BookingBacked, Parties
<1>3. ASSUME NEW u \in Parties(b)
      PROVE  \E e \in BookedOnly(u) :
               /\ e.id = s /\ e.skill = req[b].skill /\ e.student = req[b].user
               /\ req[b].seen.owner \notin emergency => e.price = req[b].price
  <2>1. Event(u) \in BookedOnly(u)
    BY <1>1 DEF BookedOnly, Calendar, BookedEvents, Listed, Booked
  <2>2. Event(u).student = req[b].user
    BY <1>2, <1>3
  <2>3. req[b].seen.owner \notin emergency => Event(u).price = req[b].price
    BY <1>1 DEF Price
  <2> QED
    BY <1>1, <2>1, <2>2, <2>3
<1>4. ASSUME NEW u \in Users, NEW e \in Calendar(u), e.id = s
      PROVE  ~e.bookable /\ (e.student # None => u \in Parties(b) \cup Admins)
  <2>1. e \notin FreeEvents(u)
    <3> SUFFICES ASSUME e \in FreeEvents(u) PROVE FALSE
      OBVIOUS
    <3>1. PICK t \in Slots, k \in Skills :
            /\ Unbooked(t)
            /\ e = [id |-> t, skill |-> k,
                    price |-> Price(slot[t].owner, coaching[<<slot[t].owner, k>>]),
                    booked |-> FALSE, bookable |-> u # slot[t].owner, student |-> None]
      BY DEF FreeEvents, Shown
    <3> QED
      BY <1>1, <1>4, <3>1 DEF Unbooked
  <2>2. e = Event(u)
    BY <1>4, <2>1 DEF Calendar, BookedEvents
  <2> QED
    BY <1>2, <2>2
<1> QED
  BY <1>3, <1>4 DEF BookableOnly

\* As long as the owner's slots are worked on by one request at a time, the
\* calendars of student and instructor show a booking that was made, not
\* cancelled and is not over, as booked and at its price; nobody is offered its
\* slot, and nobody else but an administrator learns whose it is.
THEOREM BookingsAreShown == Spec => []BookingShown
<1>1. Init => BookingsStand
  BY DEF Init, BookingsStand, Bookings, IdleRequest, Booked
<1>2. LInv /\ BookingsStand => BookingShown
  BY StandsShown DEF LInv, BookingsStand, BookingShown
<1> QED
  BY <1>1, <1>2, StandsStep, LedgerInvariance, PTL DEF Spec

-----------------------------------------------------------------------------
(***************************************************************************)
(* CoachingSlots implements SlotLifecycle                                  *)
(***************************************************************************)
\* A step that changes one row, and no time, changes the life of that slot.
LEMMA LifeOfOne ==
  ASSUME NEW s \in Slots, NEW row, phase[s] # Unborn, phase' = phase,
         slot \in [Slots -> Row \cup {NoRow}], slot' = [slot EXCEPT ![s] = row]
  PROVE  /\ Life' = [Life EXCEPT ![s] = IF row = NoRow THEN "gone"
                                        ELSE IF Booked(row) THEN "held" ELSE "offered"]
         /\ Holder' = [Holder EXCEPT ![s] = IF row = NoRow THEN None ELSE row.booking]
         /\ Ended' = Ended
BY DEF Life, Holder, Ended

\* A step that neither books nor cancels changes nothing of the bookings.
LEMMA BookingsKept ==
  ASSUME IInv, [Next]_vars,
         \A p \in Requests : req'[p].pc \in {"booked", "cancelled"} => req'[p].pc = req[p].pc
  PROVE  UNCHANGED <<SlotOf, Due, Cancelled>>
<1>1. \A p \in Requests :
        /\ req'[p].pc = "booked" <=> req[p].pc = "booked"
        /\ req'[p].pc = "cancelled" <=> req[p].pc = "cancelled"
        /\ req[p].pc \in {"booked", "cancelled"} => req'[p] = req[p]
  BY FinalKept DEF Final
<1>2. Bookings' = Bookings /\ \A b \in Requests : Cancels(b)' = Cancels(b)
  BY <1>1 DEF Bookings, Cancels
<1>3. SlotOf' = SlotOf
  BY <1>1 DEF SlotOf
<1>4. Due' = Due
  BY <1>1, <1>2 DEF Due, Bookings
<1>5. Cancelled' = Cancelled
  BY <1>1, <1>2 DEF Cancelled, Bookings
<1> QED
  BY <1>3, <1>4, <1>5

\* What a step leaves alone, the promise does not see.
LEMMA SlotsKept ==
  ASSUME slot' = slot, phase' = phase
  PROVE  UNCHANGED <<Life, Holder, Ended>>
BY DEF Life, Holder, Ended

\* A slot that has a row is offered or held.
LEMMA LiveRow ==
  ASSUME IInv, NEW s \in Slots
  PROVE  /\ slot[s] # NoRow <=> Life[s] \in {"offered", "held"}
         /\ Booked(slot[s]) <=> Life[s] = "held"
         /\ phase[s] = Unborn <=> Life[s] = "unborn"
         /\ slot[s] # NoRow => Holder[s] = slot[s].booking
BY DEF Life, Holder, IInv, Timing, Booked

\* The row of a slot that nobody contends is what its request in flight has read.
LEMMA ReadOrDisputed ==
  ASSUME LInv, NEW r \in Requests, InFlight(r), slot[req[r].slot] # NoRow
  PROVE  /\ req[r].slot \in Slots
         /\ slot[req[r].slot] = req[r].seen \/ req[r].slot \in Disputed
BY DEF LInv, IInv, ReqOK, InFlight, InFlightPcs, Contention, Disputed

\* add_slots offers a slot.
LEMMA MapAddSlot ==
  ASSUME LInv, [Next]_vars, NEW u \in Lecturers, NEW s \in Slots, NEW ph \in Phases, AddSlot(u, s, ph)
  PROVE  Lifecycle!Offer(s)
<1>a. IInv /\ slot \in [Slots -> Row \cup {NoRow}] /\ phase \in [Slots -> Phases]
  BY DEF LInv, IInv, TypeOK
<1>1. /\ slot' = [slot EXCEPT ![s] = FreshRow(u)] /\ phase' = [phase EXCEPT ![s] = ph]
      /\ phase[s] = Unborn /\ ph # Unborn /\ ph # Over /\ Unborn # Over
      /\ UNCHANGED <<req, payouts, contended>>
  BY DEF AddSlot, Unborn, Over, Week, Days, Soon
<1>2. /\ ~Booked(FreshRow(u)) /\ FreshRow(u) # NoRow /\ FreshRow(u).booking = None
  BY CoachingAssumption, NoRowAssumption DEF Booked, FreshRow, Row
<1>3. Life[s] = "unborn" /\ slot[s] = NoRow
  BY <1>a, <1>1 DEF Life, IInv, Timing
<1>4. /\ Life' = [Life EXCEPT ![s] = "offered"] /\ Holder' = [Holder EXCEPT ![s] = None]
      /\ Ended' = Ended
  BY <1>a, <1>1, <1>2 DEF Life, Holder, Ended
<1>5. Disputed' \in {Disputed, Disputed \cup {s}}
  BY <1>a, <1>1, <1>3 DEF Disputed
<1>6. UNCHANGED <<SlotOf, Due, Cancelled, PaidFor>>
  BY <1>a, <1>1, BookingsKept DEF PaidFor
<1> QED
  BY <1>3, <1>4, <1>5, <1>6 DEF Lifecycle!Offer, Lifecycle!Free

\* A request that arrives may start a dispute.
LEMMA MapArrive ==
  ASSUME LInv, [Next]_vars, NEW r \in Requests, Arrive(r)
  PROVE  Lifecycle!Dispute(Disputed') /\ Disputed' \in SUBSET Slots
<1>a. IInv
  BY DEF LInv
<1>1. /\ UNCHANGED <<slot, phase, payouts>> /\ contended \subseteq contended'
      /\ \A p \in Requests \ {r} : req'[p] = req[p]
      /\ req'[r].pc \notin {"booked", "cancelled"}
  BY <1>a, ArriveMoves DEF Started
<1>2. UNCHANGED <<SlotOf, Due, Cancelled>>
  BY <1>a, <1>1, BookingsKept
<1>3. UNCHANGED <<Life, Holder, Ended, PaidFor>>
  BY <1>1, SlotsKept DEF PaidFor
<1>4. /\ Disputed' = Disputed \cup Disputed' /\ Disputed' \in SUBSET Slots
      /\ \A s \in Disputed' : slot[s] # NoRow
  BY <1>1 DEF Disputed
<1> QED
  BY <1>a, <1>2, <1>3, <1>4, LiveRow DEF Lifecycle!Dispute, Lifecycle!Live

\* The commit of a booking takes the slot; a slot that another booking holds by
\* now is disputed, since the request has read it free.
LEMMA MapBookCommit ==
  ASSUME LInv, [Next]_vars, NEW r \in Requests, BookCommit(r)
  PROVE  (\E s \in Slots : Lifecycle!Book(s, r)) \/ UNCHANGED Lifecycle!vars
<1> DEFINE s == req[r].slot
<1>a. /\ IInv /\ req \in [Requests -> Request] /\ slot \in [Slots -> Row \cup {NoRow}]
      /\ req[r].pc = "commit_booking" /\ InFlight(r) /\ req[r].pc \in BookPcs
      /\ UNCHANGED <<phase, payouts, contended>>
  BY DEF LInv, IInv, TypeOK, BookCommit, InFlight, InFlightPcs, BookPcs
<1>b. s \in Slots /\ phase[s] # Over /\ phase[s] # Unborn
  BY <1>a, WritesInTime DEF Week, Days, Soon, Running, Over, Unborn
<1>c. PaidFor' = PaidFor
  BY <1>a DEF PaidFor
<1>1. CASE slot[s] = NoRow
  <2>1. slot' = slot /\ req' = [req EXCEPT ![r].pc = "failed"]
    BY <1>1 DEF BookCommit
  <2>2. \A p \in Requests : req'[p].pc \in {"booked", "cancelled"} => req'[p].pc = req[p].pc
    BY <1>a, <2>1 DEF Request
  <2>3. UNCHANGED <<SlotOf, Due, Cancelled>>
    BY <1>a, <2>2, BookingsKept
  <2>4. UNCHANGED <<Life, Holder, Ended, Disputed>>
    BY <1>a, <2>1, SlotsKept DEF Disputed
  <2> QED
    BY <1>c, <2>3, <2>4 DEF Lifecycle!vars
<1>2. CASE slot[s] # NoRow
  <2>1. slot' = [slot EXCEPT ![s] = BookingRow(r)] /\ req' = [req EXCEPT ![r].pc = "booked"]
    BY <1>2 DEF BookCommit
  <2>2. /\ slot[s] \in Row /\ slot'[s] = BookingRow(r)
        /\ Booked(slot'[s]) /\ slot'[s].booking = r
    BY <1>a, <1>b, <1>2, <2>1, WrittenByBooking
  <2>3. slot'[s].owner = slot[s].owner
    BY <2>2 DEF BookingRow, Row
  <2>4. /\ Life' = [Life EXCEPT ![s] = "held"] /\ Holder' = [Holder EXCEPT ![s] = r]
        /\ Ended' = Ended
    <3> DEFINE row == BookingRow(r)
    <3>1. row # NoRow /\ Booked(row) /\ row.booking = r
      BY <2>2 DEF Booked
    <3> HIDE DEF row
    <3> QED
      BY <1>a, <1>b, <2>1, <3>1, LifeOfOne DEF row
  <2>5. Life[s] = "offered" \/ (Life[s] = "held" /\ s \in Disputed)
    <3>1. Booked(slot[s]) => s \in Disputed
      BY <1>a, <1>2, ReadOrDisputed DEF LInv, AllSeen, SeenOK
    <3> QED
      BY <1>a, <1>b, <1>2, <3>1, LiveRow
  <2>6. s \notin Ended /\ SlotOf[r] = None
    BY <1>a, <1>b DEF Ended, SlotOf
  <2>7. /\ \A p \in Requests \ {r} : req'[p] = req[p]
        /\ req'[r].pc = "booked" /\ req'[r].slot = s /\ req'[r].price = req[r].price
    BY <1>a, <2>1 DEF Request
  <2>8. SlotOf' = [SlotOf EXCEPT ![r] = s]
    BY <2>7 DEF SlotOf
  <2>9. Bookings' = Bookings \cup {r} /\ r \notin Bookings
    BY <1>a, <2>7 DEF Bookings
  <2>10. Due' \in {Due, Due \cup {r}}
    <3>1. \A p \in Bookings : req'[p] = req[p]
      BY <2>7, <2>9 DEF Bookings
    <3>2. Due \subseteq Due' /\ Due' \subseteq Due \cup {r}
      BY <2>9, <3>1 DEF Due
    <3> QED
      BY <3>2
  <2>11. Cancelled' = Cancelled
    <3>1. \A b \in Requests : Cancels(b)' = Cancels(b)
      BY <1>a, <2>7 DEF Cancels
    <3>2. Cancels(r) = {}
      BY <1>a DEF Cancels, LInv, AllSeen, SeenOK, RowBacked
    <3> QED
      BY <2>9, <3>1, <3>2 DEF Cancelled, Bookings
  <2>12. Disputed' = Disputed
    BY <1>a, <1>b, <1>2, <2>1, <2>2, <2>3 DEF Disputed, Booked
  <2> QED
    BY <1>b, <1>c, <2>4, <2>5, <2>6, <2>8, <2>10, <2>11, <2>12 DEF Lifecycle!Book
<1> QED
  BY <1>1, <1>2

\* The commit of a cancellation frees the slot, which its booking holds unless
\* the slot is disputed.
LEMMA MapCancelCommit ==
  ASSUME LInv, [Next]_vars, NEW r \in Requests, CancelCommit(r)
  PROVE  (\E s \in Slots, b \in Requests : Lifecycle!Cancel(s, b)) \/ UNCHANGED Lifecycle!vars
<1> DEFINE s == req[r].slot
           b == req[r].seen.booking
<1>a. /\ IInv /\ req \in [Requests -> Request] /\ slot \in [Slots -> Row \cup {NoRow}]
      /\ req[r].pc = "commit_cancel" /\ InFlight(r) /\ req[r].pc \in CancelPcs
      /\ UNCHANGED <<phase, payouts, contended>>
  BY DEF LInv, IInv, TypeOK, CancelCommit, InFlight, InFlightPcs, CancelPcs
<1>b. s \in Slots /\ phase[s] # Over /\ phase[s] # Unborn
  BY <1>a, WritesInTime DEF Week, Days, Soon, Running, Over, Unborn
<1>c. PaidFor' = PaidFor
  BY <1>a DEF PaidFor
<1>1. CASE slot[s] = NoRow \/ GrantConflict(r)
  <2>1. slot' = slot /\ req' = [req EXCEPT ![r].pc = "failed", ![r].ec = "keep"]
    BY <1>1 DEF CancelCommit
  <2>2. \A p \in Requests : req'[p].pc \in {"booked", "cancelled"} => req'[p].pc = req[p].pc
    BY <1>a, <2>1 DEF Request
  <2>3. UNCHANGED <<SlotOf, Due, Cancelled>>
    BY <1>a, <2>2, BookingsKept
  <2>4. UNCHANGED <<Life, Holder, Ended, Disputed>>
    BY <1>a, <2>1, SlotsKept DEF Disputed
  <2> QED
    BY <1>c, <2>3, <2>4 DEF Lifecycle!vars
<1>2. CASE ~(slot[s] = NoRow \/ GrantConflict(r))
  <2>1. slot' = [slot EXCEPT ![s] = CancelledRow(slot[s])] /\ req' = [req EXCEPT ![r].pc = "cancelled"]
    BY <1>2 DEF CancelCommit
  <2>2. /\ slot[s] \in Row /\ slot'[s] = CancelledRow(slot[s])
        /\ slot'[s] \in Row /\ slot'[s] # NoRow
        /\ ~Booked(slot'[s]) /\ slot'[s].booking = None /\ slot'[s].owner = slot[s].owner
    BY <1>a, <1>b, <1>2, <2>1, NoRowAssumption DEF CancelledRow, FreshRow, Booked, Row
  <2>3. /\ Life' = [Life EXCEPT ![s] = "offered"] /\ Holder' = [Holder EXCEPT ![s] = None]
        /\ Ended' = Ended
    BY <1>a, <1>b, <2>1, <2>2, LifeOfOne
  <2>4. Booked(req[r].seen) /\ RowBacked(req, req[r].seen, s)
    BY <1>a DEF LInv, AllSeen, SeenOK
  <2>5. b \in Bookings /\ b \in Requests /\ SlotOf[b] = s
    BY <2>4 DEF RowBacked, Bookings, SlotOf
  <2>6. Holder[s] = b \/ s \in Disputed
    BY <1>a, <1>b, <1>2, ReadOrDisputed, LiveRow
  <2>7. Lifecycle!Live(s) /\ s \notin Ended
    BY <1>a, <1>b, <1>2, LiveRow DEF Lifecycle!Live, Ended
  <2>8. /\ \A p \in Requests \ {r} : req'[p] = req[p]
        /\ req'[r].pc = "cancelled" /\ req'[r].seen = req[r].seen
    BY <1>a, <2>1 DEF Request
  <2>9. Bookings' = Bookings
    BY <1>a, <2>8 DEF Bookings
  <2>10. SlotOf' = SlotOf /\ Due' = Due
    BY <1>a, <2>8, <2>9 DEF SlotOf, Due, Bookings
  <2>11. \A c \in Requests : Cancels(c)' = Cancels(c) \cup (IF c = b THEN {r} ELSE {})
    BY <1>a, <2>8 DEF Cancels
  <2>12. Cancelled' = Cancelled \cup {b}
    BY <2>5, <2>9, <2>11 DEF Cancelled, Bookings
  <2>13. Disputed' = Disputed
    BY <1>a, <1>b, <1>2, <2>1, <2>2 DEF Disputed
  <2> QED
    BY <1>b, <1>c, <2>3, <2>5, <2>6, <2>7, <2>10, <2>12, <2>13
    DEF Lifecycle!Cancel, Lifecycle!Free
<1> QED
  BY <1>1, <1>2

\* The commit of a deletion withdraws the slot; a booking it takes away is one of
\* a disputed slot that is not over.
LEMMA MapDeleteCommit ==
  ASSUME LInv, [Next]_vars, NEW r \in Requests, DeleteCommit(r)
  PROVE  (\E s \in Slots : Lifecycle!Withdraw(s)) \/ UNCHANGED Lifecycle!vars
<1> DEFINE s == req[r].slot
<1>a. /\ IInv /\ req \in [Requests -> Request] /\ slot \in [Slots -> Row \cup {NoRow}]
      /\ req[r].pc = "commit_delete" /\ InFlight(r) /\ s \in Slots /\ phase[s] # Unborn
      /\ UNCHANGED <<phase, payouts, contended>>
      /\ slot' = [slot EXCEPT ![s] = NoRow] /\ req' = [req EXCEPT ![r].pc = "deleted"]
  BY DEF LInv, IInv, TypeOK, DeleteCommit, InFlight, InFlightPcs, ReqOK
<1>b. UNCHANGED <<SlotOf, Due, Cancelled>>
  <2>1. \A p \in Requests : req'[p].pc \in {"booked", "cancelled"} => req'[p].pc = req[p].pc
    BY <1>a DEF Request
  <2> QED
    BY <1>a, <2>1, BookingsKept
<1>c. PaidFor' = PaidFor
  BY <1>a DEF PaidFor
<1>1. CASE slot[s] = NoRow
  <2>1. slot' = slot
    BY <1>a, <1>1
  <2>2. UNCHANGED <<Life, Holder, Ended, Disputed>>
    BY <1>a, <2>1, SlotsKept DEF Disputed
  <2> QED
    BY <1>b, <1>c, <2>2 DEF Lifecycle!vars
<1>2. CASE slot[s] # NoRow
  <2>1. /\ Life' = [Life EXCEPT ![s] = "gone"] /\ Holder' = [Holder EXCEPT ![s] = None]
        /\ Ended' = Ended
    BY <1>a, LifeOfOne
  <2>2. Booked(slot[s]) => s \in Disputed
    BY <1>a, <1>2, ReadOrDisputed DEF LInv, AllSeen, SeenOK
  <2>3. Booked(slot[s]) => s \notin Ended
    <3>1. ASSUME phase[s] = Over PROVE ~Booked(slot[s])
      <4>1. phase[s] \in {req[r].at, req[r].at + 1} /\ req[r].at \in Phases
        BY <1>a DEF IInv, Timing, TypeOK, Request
      <4>2. req[r].at \in {Running, Over}
        BY <3>1, <4>1 DEF Phases, Unborn, Running, Over
      <4> QED
        BY <1>a, <4>2 DEF LInv, LateDelete
    <3> QED
      BY <3>1 DEF Ended
  <2>4. Life[s] = "offered" \/ (Life[s] = "held" /\ s \in Disputed /\ s \notin Ended)
    BY <1>a, <1>2, <2>2, <2>3, LiveRow
  <2>5. Disputed' = Disputed \ {s}
    BY <1>a DEF Disputed
  <2> QED
    BY <1>a, <1>b, <1>c, <2>1, <2>4, <2>5 DEF Lifecycle!Withdraw, Lifecycle!Free
<1> QED
  BY <1>1, <1>2

\* The other steps of a request are not seen.
LEMMA MapContinue ==
  ASSUME LInv, [Next]_vars, NEW r \in Requests, Continue(r)
  PROVE  \/ \E s \in Slots : Lifecycle!Book(s, r) \/ Lifecycle!Withdraw(s)
         \/ \E s \in Slots, b \in Requests : Lifecycle!Cancel(s, b)
         \/ UNCHANGED Lifecycle!vars
<1>a. IInv /\ req \in [Requests -> Request] /\ req[r] \in Request
  BY DEF LInv, IInv, TypeOK
<1>1. ASSUME /\ UNCHANGED <<slot, phase, payouts, contended>>
             /\ \A p \in Requests \ {r} : req'[p] = req[p]
             /\ req'[r].pc \notin {"booked", "cancelled"}
      PROVE  UNCHANGED Lifecycle!vars
  <2>1. UNCHANGED <<SlotOf, Due, Cancelled>>
    BY <1>a, <1>1, BookingsKept
  <2>2. UNCHANGED <<Life, Holder, Ended, Disputed, PaidFor>>
    BY <1>1, SlotsKept DEF Disputed, PaidFor
  <2> QED
    BY <2>1, <2>2 DEF Lifecycle!vars
<1>2. CASE \/ BookFindCoaching(r) \/ BookReject(r) \/ BookFindEmergency(r)
           \/ BookSpend(r) \/ BookSpendFails(r)
  <2>1. /\ UNCHANGED <<slot, phase, payouts, contended>>
        /\ \A p \in Requests \ {r} : req'[p] = req[p]
        /\ req'[r].pc \notin {"booked", "cancelled"}
    BY <1>a, <1>2
    DEF BookFindCoaching, BookReject, BookFindEmergency, BookSpend, BookSpendFails, Request
  <2> QED
    BY <1>1, <2>1
<1>3. CASE \/ CancelGrant(r) \/ CancelRefundStudent(r) \/ CancelRefundInstructor(r)
           \/ CancelRefundFails(r)
  <2>1. /\ UNCHANGED <<slot, phase, payouts, contended>>
        /\ \A p \in Requests \ {r} : req'[p] = req[p]
        /\ req'[r].pc \notin {"booked", "cancelled"}
    BY <1>a, <1>3
    DEF CancelGrant, CancelRefundStudent, CancelRefundInstructor, CancelRefundFails, Request
  <2> QED
    BY <1>1, <2>1
<1> QED
  BY <1>2, <1>3, MapBookCommit, MapCancelCommit, MapDeleteCommit DEF Continue

\* The end of a slot is the one moment of time that the promise speaks of.
LEMMA MapTick ==
  ASSUME LInv, [Next]_vars, NEW s \in Slots, Tick(s)
  PROVE  Lifecycle!Expire(s) \/ UNCHANGED Lifecycle!vars
<1>a. /\ IInv /\ phase \in [Slots -> Phases]
      /\ phase[s] \in Week..Running /\ phase' = [phase EXCEPT ![s] = @ + 1]
      /\ UNCHANGED <<slot, req, payouts, contended>>
  BY DEF LInv, IInv, TypeOK, Tick
<1>b. phase[s] # Unborn /\ phase[s] # Over /\ phase[s] + 1 # Unborn
  BY <1>a DEF Week, Days, Soon, Running, Over, Unborn
<1>1. UNCHANGED <<SlotOf, Due, Cancelled, Disputed, PaidFor>>
  BY <1>a, BookingsKept DEF Disputed, PaidFor
<1>2. UNCHANGED <<Life, Holder>>
  BY <1>a, <1>b DEF Life, Holder
<1>3. Ended' = Ended \/ Ended' = Ended \cup {s}
  BY <1>a, <1>b DEF Ended
<1>4. Life[s] # "unborn"
  BY <1>a, <1>b DEF Life
<1> QED
  BY <1>1, <1>2, <1>3, <1>4 DEF Lifecycle!Expire, Lifecycle!vars

\* The deletions of a pass are of slots that are settled.
LEMMA DelsSettled ==
  ASSUME LInv, NEW s \in cleaner.dels, slot[s] # NoRow
  PROVE  s \in Slots /\ Lifecycle!Live(s) /\ Lifecycle!Settled(s)
<1>a. s \in Slots /\ IInv /\ PassOK /\ PaidOK
  BY DEF LInv, IInv, TypeOK, Cleaner
<1>1. phase[s] = Over /\ s \in Ended
  BY <1>a DEF PassOK, Ended
<1>2. ASSUME Life[s] = "held", Holder[s] \in Due PROVE Holder[s] \in PaidFor
  <2>1. Booked(slot[s]) /\ Holder[s] = slot[s].booking /\ PassPaid(s)
    BY <1>a, <1>2, LiveRow DEF PassPaid
  <2>2. /\ slot[s].booking \in Requests
        /\ slot[s].instructor_coins = InstructorShare(req[slot[s].booking].price)
    BY <1>a, <2>1, SlotBacked DEF RowBacked
  <2>3. slot[s].instructor_coins = 0 \/ payouts[slot[s].booking] > 0
    BY <1>a, <2>1 DEF PaidOK
  <2> QED
    BY <1>2, <2>1, <2>2, <2>3 DEF Due, PaidFor
<1> QED
  BY <1>a, <1>1, <1>2, LiveRow DEF Lifecycle!Live, Lifecycle!Settled

\* The booking that is paid for next is one whose share is due.
LEMMA PayDue ==
  ASSUME LInv, cleaner.pc = "pay", payouts' = [payouts EXCEPT ![CurrentBooking] = @ + 1]
  PROVE  LET s == cleaner.cur IN
         /\ s \in Slots /\ s \in Ended /\ Life[s] = "held" /\ Holder[s] \in Due
         /\ PaidFor' = PaidFor \cup {Holder[s]}
<1> DEFINE s == cleaner.cur
<1>a. IInv /\ PassOK /\ payouts \in [Requests -> Nat]
  BY DEF LInv, IInv, TypeOK
<1>1. /\ s \in Slots /\ phase[s] = Over /\ Booked(slot[s])
      /\ CurrentBooking = slot[s].booking /\ RowBacked(req, slot[s], s)
      /\ slot[s].instructor_coins # 0
  BY <1>a, CurrentOwed
<1>2. Life[s] = "held" /\ Holder[s] = slot[s].booking
  BY <1>a, <1>1, LiveRow DEF Booked
<1>3. slot[s].booking \in Due
  BY <1>1 DEF RowBacked, Due, Bookings
<1>4. slot[s].booking \in Requests
  BY <1>1 DEF RowBacked
<1> DEFINE b == slot[s].booking
<1> HIDE DEF b
<1>5. PaidFor' = PaidFor \cup {b}
  <2>1. payouts' = [payouts EXCEPT ![b] = @ + 1] /\ b \in Requests
    BY <1>1, <1>4 DEF b
  <2> QED
    BY <1>a, <2>1 DEF PaidFor
<1> QED
  BY <1>1, <1>2, <1>3, <1>5 DEF Ended, b

\* A commit of the cleanup removes settled slots, after a payment or without.
LEMMA MapDeletions ==
  ASSUME LInv, [Next]_vars, slot' = WithoutDeleted,
         UNCHANGED <<phase, req, contended>>,
         NEW P \in SUBSET Slots,
         \A s \in P : s \in Ended /\ Life[s] = "held" /\ Holder[s] \in Due,
         PaidFor' = PaidFor \cup {Holder[s] : s \in P}
  PROVE  \E S \in SUBSET Slots : Lifecycle!Clean(P, S)
<1> DEFINE S == {s \in cleaner.dels : slot[s] # NoRow}
<1>a. IInv /\ cleaner.dels \subseteq Slots
  BY DEF LInv, IInv, TypeOK, Cleaner
<1>1. \A s \in S : s \in Slots /\ Lifecycle!Live(s) /\ Lifecycle!Settled(s)
  BY DelsSettled
<1>2. \A s \in S : phase[s] # Unborn
  BY <1>a DEF IInv, Timing
<1>3. \A s \in Slots : slot'[s] = IF s \in S THEN NoRow ELSE slot[s]
  BY DEF WithoutDeleted
<1> HIDE DEF S
<1>4. Life' = [s \in Slots |-> IF s \in S THEN "gone" ELSE Life[s]]
  BY <1>2, <1>3 DEF Life, Booked
<1>5. Holder' = [s \in Slots |-> IF s \in S THEN None ELSE Holder[s]]
  BY <1>3 DEF Holder
<1>6. Disputed' = Disputed \ S /\ Ended' = Ended
  BY <1>3 DEF Disputed, Ended
<1>7. UNCHANGED <<SlotOf, Due, Cancelled>>
  BY <1>a, BookingsKept
<1>8. S \in SUBSET Slots
  BY <1>a DEF S
<1> QED
  BY <1>1, <1>4, <1>5, <1>6, <1>7, <1>8 DEF Lifecycle!Clean

\* The steps of the cleanup.
LEMMA MapCleanup ==
  ASSUME LInv, [Next]_vars, Cleanup
  PROVE  (\E P, S \in SUBSET Slots : Lifecycle!Clean(P, S)) \/ UNCHANGED Lifecycle!vars
<1>a. IInv
  BY DEF LInv
<1>1. CASE CleanupBegin \/ (\E s \in Slots : CleanupTake(s)) \/ CleanupXp \/ CleanupCommitFails
  <2>1. UNCHANGED <<slot, phase, req, payouts, contended>>
    BY <1>1 DEF CleanupBegin, CleanupTake, CleanupXp, CleanupCommitFails
  <2>2. UNCHANGED <<SlotOf, Due, Cancelled>>
    BY <1>a, <2>1, BookingsKept
  <2>3. UNCHANGED <<Life, Holder, Ended, Disputed, PaidFor>>
    BY <2>1, SlotsKept DEF Disputed, PaidFor
  <2> QED
    BY <2>2, <2>3 DEF Lifecycle!vars
<1>2. CASE CleanupPay
  <2> DEFINE P == {cleaner.cur}
  <2>1. /\ cleaner.pc = "pay" /\ payouts' = [payouts EXCEPT ![CurrentBooking] = @ + 1]
        /\ UNCHANGED <<slot, phase, req, contended>>
    BY <1>2 DEF CleanupPay
  <2>2. /\ P \in SUBSET Slots
        /\ \A s \in P : s \in Ended /\ Life[s] = "held" /\ Holder[s] \in Due
        /\ PaidFor' = PaidFor \cup {Holder[s] : s \in P}
    BY <2>1, PayDue
  <2>3. UNCHANGED <<SlotOf, Due, Cancelled, Life, Holder, Ended, Disputed>>
    BY <1>a, <2>1, BookingsKept, SlotsKept DEF Disputed
  <2>4. /\ Life = [s \in Slots |-> IF s \in {} THEN "gone" ELSE Life[s]]
        /\ Holder = [s \in Slots |-> IF s \in {} THEN None ELSE Holder[s]]
    BY DEF Life, Holder
  <2> HIDE DEF P
  <2>5. Lifecycle!Clean(P, {})
    BY <2>2, <2>3, <2>4 DEF Lifecycle!Clean
  <2> QED
    BY <2>2, <2>5
<1>3. CASE CleanupCommit
  <2>1. slot' = WithoutDeleted /\ UNCHANGED <<phase, req, contended, payouts>>
    BY <1>3 DEF CleanupCommit
  <2> DEFINE P == {}
  <2>2. /\ P \in SUBSET Slots
        /\ \A s \in P : s \in Ended /\ Life[s] = "held" /\ Holder[s] \in Due
        /\ PaidFor' = PaidFor \cup {Holder[s] : s \in P}
    BY <2>1 DEF PaidFor
  <2> HIDE DEF P
  <2> QED
    BY <2>1, <2>2, MapDeletions
<1>4. CASE CleanupCallFails
  <2>1. slot' = WithoutDeleted /\ UNCHANGED <<phase, req, contended>>
    BY <1>4 DEF CleanupCallFails, DeletedSoFar
  <2>2. CASE UNCHANGED payouts
    <3> DEFINE P == {}
    <3>1. /\ P \in SUBSET Slots
          /\ \A s \in P : s \in Ended /\ Life[s] = "held" /\ Holder[s] \in Due
          /\ PaidFor' = PaidFor \cup {Holder[s] : s \in P}
      BY <2>2 DEF PaidFor
    <3> HIDE DEF P
    <3> QED
      BY <2>1, <3>1, MapDeletions
  <2>3. CASE cleaner.pc = "pay" /\ payouts' = [payouts EXCEPT ![CurrentBooking] = @ + 1]
    <3> DEFINE P == {cleaner.cur}
    <3>1. /\ P \in SUBSET Slots
          /\ \A s \in P : s \in Ended /\ Life[s] = "held" /\ Holder[s] \in Due
          /\ PaidFor' = PaidFor \cup {Holder[s] : s \in P}
      BY <2>3, PayDue
    <3> HIDE DEF P
    <3> QED
      BY <2>1, <3>1, MapDeletions
  <2> QED
    BY <1>4, <2>2, <2>3 DEF CleanupCallFails
<1> QED
  BY <1>1, <1>2, <1>3, <1>4 DEF Cleanup

\* A restart loses coroutines, none of which had booked or cancelled.
LEMMA MapCrash ==
  ASSUME LInv, [Next]_vars, Crash
  PROVE  UNCHANGED Lifecycle!vars
<1>a. IInv /\ req \in [Requests -> Request]
  BY DEF LInv, IInv, TypeOK
<1>1. UNCHANGED <<slot, phase, payouts, contended>>
  BY DEF Crash
<1>2. \A p \in Requests : req'[p].pc \in {"booked", "cancelled"} => req'[p].pc = req[p].pc
  BY <1>a DEF Crash, Request
<1>3. UNCHANGED <<SlotOf, Due, Cancelled>>
  BY <1>a, <1>2, BookingsKept
<1>4. UNCHANGED <<Life, Holder, Ended, Disputed, PaidFor>>
  BY <1>1, SlotsKept DEF Disputed, PaidFor
<1> QED
  BY <1>3, <1>4 DEF Lifecycle!vars

\* A step that changes none of the tables, requests and payouts is not seen.
LEMMA MapRest ==
  ASSUME LInv, [Next]_vars, UNCHANGED <<slot, phase, req, payouts, contended>>
  PROVE  UNCHANGED Lifecycle!vars
<1>1. UNCHANGED <<SlotOf, Due, Cancelled>>
  BY BookingsKept DEF LInv
<1>2. UNCHANGED <<Life, Holder, Ended, Disputed, PaidFor>>
  BY SlotsKept DEF Disputed, PaidFor
<1> QED
  BY <1>1, <1>2 DEF Lifecycle!vars

\* The service starts with a promise about nothing.
LEMMA MapInit == Init => Lifecycle!Init
<1> SUFFICES ASSUME Init PROVE Lifecycle!Init
  OBVIOUS
<1>a. /\ \A r \in Requests : req[r] = IdleRequest /\ payouts[r] = 0
      /\ \A s \in Slots : slot[s] = NoRow /\ phase[s] = Unborn
  BY DEF Init
<1>1. /\ Life = [s \in Slots |-> "unborn"] /\ Holder = [s \in Slots |-> None]
      /\ Ended = {} /\ Disputed = {}
  BY <1>a DEF Life, Holder, Ended, Disputed, Unborn, Over
<1>2. Bookings = {} /\ SlotOf = [b \in Requests |-> None] /\ PaidFor = {}
  BY <1>a DEF Bookings, SlotOf, PaidFor, IdleRequest
<1>3. Due = {} /\ Cancelled = {}
  BY <1>2 DEF Due, Cancelled
<1> QED
  BY <1>1, <1>2, <1>3 DEF Lifecycle!Init

\* Every step of the service is a step of the promise or is not seen.
LEMMA MapStep == LInv /\ [Next]_vars => [Lifecycle!Next]_(Lifecycle!vars)
<1> SUFFICES ASSUME LInv, [Next]_vars PROVE Lifecycle!Next \/ UNCHANGED Lifecycle!vars
  OBVIOUS
<1>1. ASSUME NEW u \in Lecturers, NEW s \in Slots, NEW ph \in Phases, AddSlot(u, s, ph)
      PROVE  Lifecycle!Next
  BY <1>1, MapAddSlot DEF Lifecycle!Next
<1>2. CASE \E u \in Lecturers, k \in Skills :
             DeleteCoaching(u, k) \/ \E p \in Prices : SetCoaching(u, k, p)
  BY <1>2, MapRest DEF DeleteCoaching, SetCoaching
<1>3. ASSUME NEW r \in Requests, Arrive(r) PROVE Lifecycle!Next
  BY <1>3, MapArrive DEF Lifecycle!Next
<1>4. ASSUME NEW r \in Requests, Continue(r)
      PROVE  Lifecycle!Next \/ UNCHANGED Lifecycle!vars
  BY <1>4, MapContinue DEF Lifecycle!Next
<1>5. ASSUME NEW s \in Slots, Tick(s) PROVE Lifecycle!Next \/ UNCHANGED Lifecycle!vars
  BY <1>5, MapTick DEF Lifecycle!Next
<1>6. CASE Cleanup
  BY <1>6, MapCleanup DEF Lifecycle!Next
<1>7. CASE Crash
  BY <1>7, MapCrash
<1>8. CASE UNCHANGED vars
  BY <1>8, MapRest DEF vars
<1> QED
  BY <1>1, <1>2, <1>3, <1>4, <1>5, <1>6, <1>7, <1>8 DEF Next, Configure

\* The handlers, the cleanup and time keep the promise about slots and their
\* bookings: every behaviour of CoachingSlots is one of SlotLifecycle.
THEOREM PromiseIsKept == Spec => ImplementsLifecycle
BY MapInit, MapStep, LedgerInvariance, PTL DEF Spec, ImplementsLifecycle, Lifecycle!Spec

\* What is proved of the promise, read as a fact about this service.
Promise == INSTANCE SlotLifecycleProofs WITH
  Bookings <- Requests, life <- Life, holder <- Holder, slotOf <- SlotOf, due <- Due,
  paid <- PaidFor, cancelled <- Cancelled, over <- Ended, disputed <- Disputed

\* Every behaviour of the service is one of the promise whose facts are proved.
LEMMA PromiseHolds == Spec => Promise!Spec
<1>1. Lifecycle!Init => Promise!Init
  BY DEF Lifecycle!Init, Promise!Init
<1>2. [Lifecycle!Next]_(Lifecycle!vars) => [Promise!Next]_(Promise!vars)
  BY DEF Lifecycle!Next, Promise!Next, Lifecycle!vars, Promise!vars,
         Lifecycle!Offer, Promise!Offer, Lifecycle!Free, Promise!Free, Lifecycle!Book,
         Promise!Book, Lifecycle!Cancel, Promise!Cancel, Lifecycle!Live, Promise!Live,
         Lifecycle!Withdraw, Promise!Withdraw, Lifecycle!Expire, Promise!Expire,
         Lifecycle!Settled, Promise!Settled, Lifecycle!Clean, Promise!Clean,
         Lifecycle!Dispute, Promise!Dispute
<1>3. Lifecycle!Spec => Promise!Spec
  BY <1>1, <1>2, PTL DEF Lifecycle!Spec, Promise!Spec
<1> QED
  BY <1>3, PromiseIsKept, PTL DEF ImplementsLifecycle

\* No booking is both cancelled, with its refunds, and paid to the instructor,
\* whatever overlaps and fails.
THEOREM CancelledIsNotPaid == Spec => [](PaidFor \cap Cancelled = {})
<1>1. Promise!Spec => []Promise!PaidOrCancelled
  BY CoachingAssumption, Promise!NeverBoth
<1>2. Promise!PaidOrCancelled => PaidFor \cap Cancelled = {}
  BY DEF Promise!PaidOrCancelled
<1> QED
  BY <1>1, <1>2, PromiseHolds, PTL

\* What may happen to the booking in slot s while nobody contends for its owner:
\* it stays, it was cancelled, or the slot is over and its share was paid.
KeepsItsSlot(s) ==
  Booked(slot[s]) /\ slot[s].owner \notin contended =>
    LET b == slot[s].booking IN
    \/ slot'[s] # NoRow /\ slot'[s].booking = b
    \/ b \in Cancelled'
    \/ phase[s] = Over /\ (InstructorShare(req[b].price) # 0 => payouts[b] > 0)

\* As long as nobody contends for the instructor, a booking leaves its slot only
\* by its cancellation, or when the slot is over and what is due was paid.
THEOREM BookingsKeepTheirSlots == Spec => [][\A s \in Slots : KeepsItsSlot(s)]_vars
<1> DEFINE Stand == \A s \in Slots :
             Life[s] = "held" /\ s \notin Disputed /\ Holder'[s] # Holder[s]
               => Holder[s] \in Cancelled' \/ Promise!Settled(s)
<1>1. Promise!Spec => [][Stand]_(Promise!vars)
  <2>1. Promise!Spec => Promise!BookingStands
    BY CoachingAssumption, Promise!UndisputedStands
  <2> QED
    BY <2>1, PTL DEF Promise!BookingStands, Promise!Settled
<1>2. LInv /\ [Stand]_(Promise!vars) => [\A s \in Slots : KeepsItsSlot(s)]_vars
  <2> SUFFICES ASSUME LInv, [Stand]_(Promise!vars), NEW s \in Slots, Booked(slot[s]),
                      slot[s].owner \notin contended,
                      ~(slot'[s] # NoRow /\ slot'[s].booking = slot[s].booking)
               PROVE  LET b == slot[s].booking IN
                      \/ b \in Cancelled'
                      \/ phase[s] = Over /\ (InstructorShare(req[b].price) # 0 => payouts[b] > 0)
    BY DEF KeepsItsSlot
  <2>1. Life[s] = "held" /\ Holder[s] = slot[s].booking /\ s \notin Disputed
    BY LiveRow DEF LInv, Disputed, Booked
  <2>2. /\ slot[s].booking \in Bookings /\ slot[s].booking # None
    BY SlotBacked, CoachingAssumption DEF LInv, RowBacked, Bookings
  <2>3. Holder'[s] # Holder[s]
    BY <2>1, <2>2 DEF Holder
  <2>4. Stand
    BY <2>3 DEF Promise!vars
  <2> HIDE DEF Stand
  <2>5. Holder[s] \in Cancelled' \/ Promise!Settled(s)
    BY <2>1, <2>3, <2>4 DEF Stand
  <2>6. Promise!Settled(s) =>
          phase[s] = Over /\ (slot[s].booking \in Due => payouts[slot[s].booking] > 0)
    BY <2>1 DEF Promise!Settled, Ended, PaidFor
  <2> QED
    BY <2>1, <2>2, <2>5, <2>6 DEF Due
<1> HIDE DEF Stand
<1> QED
  BY <1>1, <1>2, PromiseHolds, LedgerInvariance, PTL
============================================================================
