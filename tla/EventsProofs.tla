---------------------------- MODULE EventsProofs ----------------------------
(***************************************************************************)
(* Emergency cancellations where coachings and webinars share them, for    *)
(* every set of users, slots, webinars and requests, any overlap, any      *)
(* number of failures and any order of the cleanup.                        *)
(*                                                                         *)
(* A grant and the coaching it makes free are far apart: the booking finds *)
(* the row, and deletes it when it commits; meanwhile the cleanup may take *)
(* the row for a webinar, and a cancellation may add it again.  The books  *)
(* balance because a booking that found a row holds on to its grant        *)
(* (Deleting), and only one booking at a time does unless its instructor   *)
(* is contended (OneAtATime).                                              *)
(***************************************************************************)
EXTENDS Events, FiniteSetTheorems, TLAPS

(***************************************************************************)
(* The inductive invariant.  Of what requests consist is the matter of     *)
(* CoachingSlots and Webinars; here they are tables of records.            *)
(***************************************************************************)
SlotTable(t) == /\ DOMAIN t = SlotRequests /\ t = [r \in SlotRequests |-> t[r]]
                /\ \A r \in SlotRequests :
                     {"pc", "user", "seen", "ec", "price", "charged", "refunded"} \subseteq DOMAIN t[r]
WebinarTable(t) == /\ DOMAIN t = WebinarRequests /\ t = [r \in WebinarRequests |-> t[r]]
                   /\ \A r \in WebinarRequests :
                        {"pc", "seen", "ec", "left", "charged"} \subseteq DOMAIN t[r]

\* What a cancellation and a booking have come to when they write of emergencies.
SlotReqOK(q) ==
  /\ q.pc = "find_emergency_grant" => q.user = q.seen.owner
  /\ q.ec = "create" => /\ q.user = q.seen.owner
                        /\ q.pc \in {"refund_student", "refund_instructor", "commit_cancel",
                                     "cancelled", "failed"}
  /\ q.ec = "delete" => q.pc \in {"commit_booking", "booked", "failed"}

SlotInFlight(r) == slotReq[r].pc \in S!InFlightPcs

\* Two requests in flight on slots of one instructor have made it contended.
OneAtATime ==
  \A r, q \in SlotRequests :
    r # q /\ SlotInFlight(r) /\ SlotInFlight(q) /\ slotReq[r].seen.owner = slotReq[q].seen.owner
      => slotReq[r].seen.owner \in contended

\* A booking has found an emergency_cancel row of u and is going to delete it.
Deletes(q, u) == q.pc = "commit_booking" /\ q.ec = "delete" /\ q.seen.owner = u
Deleting(u) == \E r \in SlotRequests : Deletes(slotReq[r], u)

\* The grants of u that are neither used nor claimed.
Books(u) ==
  /\ IsFiniteSet(FreeCoachings(u)) /\ IsFiniteSet(Grants(u))
  /\ Cardinality(FreeCoachings(u)) <= Cardinality(Grants(u))
  /\ u \in emergency \/ Deleting(u) =>
       Cardinality(FreeCoachings(u)) + 1 <= Cardinality(Grants(u))

EInv == /\ SlotTable(slotReq) /\ WebinarTable(webinarReq)
        /\ \A r \in SlotRequests : SlotReqOK(slotReq[r])
        /\ OneAtATime /\ FreeIsEarned
        /\ \A u \in Users \ contended : Books(u)

-----------------------------------------------------------------------------
(***************************************************************************)
(* The steps                                                               *)
(***************************************************************************)
OnlySlot(r) == /\ SlotTable(slotReq') /\ webinarReq' = webinarReq
               /\ \A p \in SlotRequests \ {r} : slotReq'[p] = slotReq[p]
OnlyWebinar(r) == /\ WebinarTable(webinarReq') /\ slotReq' = slotReq /\ contended' = contended
                  /\ \A p \in WebinarRequests \ {r} : webinarReq'[p] = webinarReq[p]

SlotStarts(r) ==
  LET n == slotReq'[r] IN
  /\ OnlySlot(r) /\ emergency' = emergency
  /\ slotReq[r].pc = "idle" /\ n.pc \in S!InFlightPcs /\ n.ec = "keep"
  /\ n.pc = "find_emergency_grant" => n.user = n.seen.owner
  /\ contended' = IF \E q \in SlotRequests : SlotInFlight(q) /\ slotReq[q].seen.owner = n.seen.owner
                  THEN contended \cup {n.seen.owner} ELSE contended

\* The ways of a slot's request that leave emergencies alone.
Ways == {<<"find_coaching", "find_emergency">>, <<"find_coaching", "rejected">>,
         <<"find_emergency", "spend">>, <<"spend", "commit_booking">>,
         <<"spend", "rejected">>, <<"spend", "failed">>, <<"commit_booking", "failed">>,
         <<"refund_student", "refund_instructor">>, <<"refund_instructor", "commit_cancel">>,
         <<"commit_delete", "deleted">>}

SlotGoes(r) ==
  LET q == slotReq[r] n == slotReq'[r] l == q.seen.owner IN
  /\ OnlySlot(r) /\ contended' = contended
  /\ n.user = q.user /\ n.seen = q.seen
  /\ \/ emergency' = emergency /\ n.ec = q.ec /\ <<q.pc, n.pc>> \in Ways
     \/ /\ emergency' = emergency /\ l \in emergency
        /\ q.pc = "find_emergency" /\ n.pc = "commit_booking" /\ n.ec = "delete"
     \/ /\ emergency' = emergency
        /\ q.pc = "find_emergency_grant" /\ n.pc = "refund_student" /\ n.ec \in {"keep", "create"}
     \/ emergency' = emergency /\ q.pc = "commit_cancel" /\ n.pc = "failed" /\ n.ec = "keep"
     \/ /\ q.pc = "commit_booking" /\ n.pc = "booked" /\ n.ec = q.ec
        /\ emergency' = IF q.ec = "delete" THEN emergency \ {l} ELSE emergency
     \/ /\ q.pc \in {"refund_student", "refund_instructor", "commit_cancel"}
        /\ n.pc \in {"cancelled", "failed"} /\ n.ec = q.ec
        /\ emergency' = IF q.ec = "create" THEN emergency \cup {l} ELSE emergency

\* What a webinar's request does to them, when it arrives or goes on.
WebinarGoes(r) ==
  LET q == webinarReq[r] n == webinarReq'[r] l == n.seen.creator IN
  /\ OnlyWebinar(r) /\ q.pc \notin {"cancelled", "failed"}
  /\ \/ q.pc = "idle" /\ n.ec = "keep"
     \/ n.seen = q.seen /\ n.ec \in {q.ec, "keep", "create"}
     \/ n.seen = q.seen /\ n.ec = "free" /\ l \in emergency
  /\ \/ emergency' = emergency /\ n.pc # "cancelled"
     \/ /\ n.pc = "cancelled"
        /\ emergency' = IF n.ec = "create" THEN emergency \cup {l} ELSE emergency

\* The cleanup and time take no request further; rows of the settled go.
OthersGo == /\ UNCHANGED <<slotReq, webinarReq, contended>> /\ emergency' \subseteq emergency

Restarts ==
  /\ emergency' = emergency /\ contended' = contended
  /\ SlotTable(slotReq') /\ WebinarTable(webinarReq')
  /\ \A r \in SlotRequests :
       \/ slotReq'[r] = slotReq[r] /\ ~SlotInFlight(r)
       \/ /\ SlotInFlight(r) /\ slotReq'[r].pc = "failed" /\ slotReq'[r].ec = "keep"
  /\ \A r \in WebinarRequests :
       \/ webinarReq'[r] = webinarReq[r]
       \/ /\ webinarReq[r].pc \notin {"cancelled", "failed"}
          /\ webinarReq'[r].pc = "failed" /\ webinarReq'[r].ec = "keep"

\* A request of a slot takes a new pc, and with it what it has learnt.
Becomes(r, pc, ec) ==
  /\ OnlySlot(r) /\ slotReq'[r].pc = pc /\ slotReq'[r].ec = ec
  /\ slotReq'[r].user = slotReq[r].user /\ slotReq'[r].seen = slotReq[r].seen

\* In every form in which CoachingSlots writes that down.
LEMMA SlotBecomes ==
  ASSUME SlotTable(slotReq), NEW r \in SlotRequests, NEW pc, NEW v, webinarReq' = webinarReq
  PROVE  /\ slotReq' = [slotReq EXCEPT ![r].pc = pc] => Becomes(r, pc, slotReq[r].ec)
         /\ slotReq' = [slotReq EXCEPT ![r].pc = pc, ![r].price = v] => Becomes(r, pc, slotReq[r].ec)
         /\ slotReq' = [slotReq EXCEPT ![r].pc = pc, ![r].charged = v] => Becomes(r, pc, slotReq[r].ec)
         /\ slotReq' = [slotReq EXCEPT ![r].pc = pc, ![r].refunded = v] => Becomes(r, pc, slotReq[r].ec)
         /\ slotReq' = [slotReq EXCEPT ![r].pc = pc, ![r].ec = v] => Becomes(r, pc, v)
<1>1. slotReq' = [slotReq EXCEPT ![r].pc = pc] => Becomes(r, pc, slotReq[r].ec)
  BY DEF SlotTable, OnlySlot, Becomes
<1>2. slotReq' = [slotReq EXCEPT ![r].pc = pc, ![r].price = v] => Becomes(r, pc, slotReq[r].ec)
  BY DEF SlotTable, OnlySlot, Becomes
<1>3. slotReq' = [slotReq EXCEPT ![r].pc = pc, ![r].charged = v] => Becomes(r, pc, slotReq[r].ec)
  BY DEF SlotTable, OnlySlot, Becomes
<1>4. slotReq' = [slotReq EXCEPT ![r].pc = pc, ![r].refunded = v] => Becomes(r, pc, slotReq[r].ec)
  BY DEF SlotTable, OnlySlot, Becomes
<1>5. slotReq' = [slotReq EXCEPT ![r].pc = pc, ![r].ec = v] => Becomes(r, pc, v)
  <2> DEFINE table == [slotReq EXCEPT ![r].pc = pc]
  <2>1. /\ DOMAIN table = SlotRequests /\ \A p \in SlotRequests \ {r} : table[p] = slotReq[p]
        /\ \A p \in SlotRequests : DOMAIN table[p] = DOMAIN slotReq[p]
        /\ table[r].pc = pc /\ table[r].user = slotReq[r].user /\ table[r].seen = slotReq[r].seen
    BY DEF SlotTable
  <2> HIDE DEF table
  <2>2. slotReq' = [table EXCEPT ![r].ec = v] => Becomes(r, pc, v)
    BY <2>1 DEF SlotTable, OnlySlot, Becomes
  <2> QED
    BY <2>2 DEF table
<1> QED
  BY <1>1, <1>2, <1>3, <1>4, <1>5

\* A request of a slot goes on: it finds what it looks for, the shop answers
\* or raises, its session is committed.
LEMMA SlotContinues ==
  ASSUME SlotTable(slotReq), NEW r \in SlotRequests, S!Continue(r), webinarReq' = webinarReq
  PROVE  SlotGoes(r)
<1> DEFINE q == slotReq[r]
           l == q.seen.owner
<1>1. CASE S!BookFindCoaching(r)
  <2>1. /\ \E v : slotReq' = [slotReq EXCEPT ![r].pc = "find_emergency", ![r].price = v]
        /\ q.pc = "find_coaching" /\ UNCHANGED <<emergency, contended>>
    BY <1>1 DEF S!BookFindCoaching
  <2>2. Becomes(r, "find_emergency", q.ec)
    BY <2>1, SlotBecomes
  <2> QED
    BY <2>1, <2>2 DEF Becomes, SlotGoes, Ways
<1>2. CASE S!BookReject(r) \/ S!CancelRefundInstructor(r) \/ S!DeleteCommit(r)
  <2>1. /\ UNCHANGED <<emergency, contended>>
        /\ \E pc : /\ <<q.pc, pc>> \in Ways
                   /\ slotReq' = [slotReq EXCEPT ![r].pc = pc]
    BY <1>2 DEF S!BookReject, S!CancelRefundInstructor, S!DeleteCommit, Ways
  <2>2. PICK pc : <<q.pc, pc>> \in Ways /\ Becomes(r, pc, q.ec)
    BY <2>1, SlotBecomes
  <2> QED
    BY <2>1, <2>2 DEF Becomes, SlotGoes
<1>3. CASE S!BookFindEmergency(r)
  <2>1. q.pc = "find_emergency" /\ UNCHANGED <<emergency, contended>>
    BY <1>3 DEF S!BookFindEmergency
  <2>2. CASE l \in emergency
    <3>1. slotReq' = [slotReq EXCEPT ![r].pc = "commit_booking", ![r].ec = "delete"]
      BY <1>3, <2>2 DEF S!BookFindEmergency
    <3>2. Becomes(r, "commit_booking", "delete")
      BY <3>1, SlotBecomes
    <3> QED
      BY <2>1, <2>2, <3>2 DEF Becomes, SlotGoes
  <2>3. CASE l \notin emergency
    <3>1. slotReq' = [slotReq EXCEPT ![r].pc = "spend"]
      BY <1>3, <2>3 DEF S!BookFindEmergency
    <3>2. Becomes(r, "spend", q.ec)
      BY <3>1, SlotBecomes
    <3> QED
      BY <2>1, <3>2 DEF Becomes, SlotGoes, Ways
  <2> QED
    BY <2>2, <2>3
<1>4. CASE S!BookSpend(r)
  <2>1. /\ q.pc = "spend" /\ UNCHANGED <<emergency, contended>>
        /\ \/ \E v : slotReq' = [slotReq EXCEPT ![r].pc = "commit_booking", ![r].charged = v]
           \/ slotReq' = [slotReq EXCEPT ![r].pc = "rejected"]
    BY <1>4 DEF S!BookSpend
  <2>2. Becomes(r, "commit_booking", q.ec) \/ Becomes(r, "rejected", q.ec)
    BY <2>1, SlotBecomes
  <2> QED
    BY <2>1, <2>2 DEF Becomes, SlotGoes, Ways
<1>5. CASE S!BookSpendFails(r)
  <2>1. /\ q.pc = "spend" /\ UNCHANGED <<emergency, contended>>
        /\ \E v : slotReq' = [slotReq EXCEPT ![r].pc = "failed", ![r].charged = v]
    BY <1>5 DEF S!BookSpendFails
  <2>2. Becomes(r, "failed", q.ec)
    BY <2>1, SlotBecomes
  <2> QED
    BY <2>1, <2>2 DEF Becomes, SlotGoes, Ways
<1>6. CASE S!BookCommit(r)
  <2>1. q.pc = "commit_booking" /\ contended' = contended
    BY <1>6 DEF S!BookCommit
  <2>2. CASE slotReq' = [slotReq EXCEPT ![r].pc = "failed"] /\ emergency' = emergency
    <3>1. Becomes(r, "failed", q.ec)
      BY <2>2, SlotBecomes
    <3> QED
      BY <2>1, <2>2, <3>1 DEF Becomes, SlotGoes, Ways
  <2>3. CASE slotReq' = [slotReq EXCEPT ![r].pc = "booked"] /\ emergency' = S!AfterBooking(r)
    <3>1. Becomes(r, "booked", q.ec)
      BY <2>3, SlotBecomes
    <3> QED
      BY <2>1, <2>3, <3>1 DEF Becomes, SlotGoes, S!AfterBooking
  <2> QED
    BY <1>6, <2>2, <2>3 DEF S!BookCommit
<1>7. CASE S!CancelGrant(r)
  <2>1. /\ q.pc = "find_emergency_grant" /\ UNCHANGED <<emergency, contended>>
        /\ \E ec \in {"keep", "create"} :
             slotReq' = [slotReq EXCEPT ![r].pc = "refund_student", ![r].ec = ec]
    BY <1>7 DEF S!CancelGrant
  <2>2. \E ec \in {"keep", "create"} : Becomes(r, "refund_student", ec)
    BY <2>1, SlotBecomes
  <2> QED
    BY <2>1, <2>2 DEF Becomes, SlotGoes
<1>8. CASE S!CancelRefundStudent(r)
  <2>1. /\ q.pc = "refund_student" /\ UNCHANGED <<emergency, contended>>
        /\ \E v : slotReq' = [slotReq EXCEPT ![r].pc = "refund_instructor", ![r].refunded = v]
    BY <1>8 DEF S!CancelRefundStudent
  <2>2. Becomes(r, "refund_instructor", q.ec)
    BY <2>1, SlotBecomes
  <2> QED
    BY <2>1, <2>2 DEF Becomes, SlotGoes, Ways
<1>9. CASE S!CancelRefundFails(r)
  <2>1. /\ q.pc \in {"refund_student", "refund_instructor"} /\ contended' = contended
        /\ emergency' = S!Granted(r)
        /\ \/ \E v : slotReq' = [slotReq EXCEPT ![r].pc = "failed", ![r].refunded = v]
           \/ slotReq' = [slotReq EXCEPT ![r].pc = "failed"]
    BY <1>9 DEF S!CancelRefundFails
  <2>2. Becomes(r, "failed", q.ec)
    BY <2>1, SlotBecomes
  <2> QED
    BY <2>1, <2>2 DEF Becomes, SlotGoes, S!Granted
<1>10. CASE S!CancelCommit(r)
  <2>1. q.pc = "commit_cancel" /\ contended' = contended
    BY <1>10 DEF S!CancelCommit
  <2>2. CASE /\ slotReq' = [slotReq EXCEPT ![r].pc = "failed", ![r].ec = "keep"]
             /\ emergency' = emergency
    <3>1. Becomes(r, "failed", "keep")
      BY <2>2, SlotBecomes
    <3> QED
      BY <2>1, <2>2, <3>1 DEF Becomes, SlotGoes
  <2>3. CASE slotReq' = [slotReq EXCEPT ![r].pc = "cancelled"] /\ emergency' = S!Granted(r)
    <3>1. Becomes(r, "cancelled", q.ec)
      BY <2>3, SlotBecomes
    <3> QED
      BY <2>1, <2>3, <3>1 DEF Becomes, SlotGoes, S!Granted
  <2> QED
    BY <1>10, <2>2, <2>3 DEF S!CancelCommit
<1> QED
  BY <1>1, <1>2, <1>3, <1>4, <1>5, <1>6, <1>7, <1>8, <1>9, <1>10 DEF S!Continue

\* A request of a slot arrives.
LEMMA SlotArrives ==
  ASSUME SlotTable(slotReq), NEW r \in SlotRequests, webinarReq' = webinarReq,
         NEW u, NEW s,
         (\E k \in Skills : S!BookFindSlot(r, u, s, k)) \/ S!CancelFindSlot(r, u, s)
  PROVE  SlotStarts(r)
<1> DEFINE Fields == {"pc", "user", "seen", "ec", "price", "charged", "refunded"}
<1>1. ASSUME NEW new, S!Start(r, new), emergency' = emergency, Fields \subseteq DOMAIN new,
             new.pc \in S!InFlightPcs, new.ec = "keep",
             new.pc = "find_emergency_grant" => new.user = new.seen.owner
      PROVE  SlotStarts(r)
  <2>1. slotReq' = [slotReq EXCEPT ![r] = new] /\ slotReq[r].pc = "idle"
    BY <1>1 DEF S!Start
  <2>2. OnlySlot(r) /\ slotReq'[r] = new
    BY <1>1, <2>1 DEF SlotTable, OnlySlot
  <2>3. contended' = IF \E q \in SlotRequests : SlotInFlight(q) /\ slotReq[q].seen.owner = new.seen.owner
                     THEN contended \cup {new.seen.owner} ELSE contended
    BY <1>1 DEF S!Start, S!InFlight, SlotInFlight
  <2> QED
    BY <1>1, <2>1, <2>2, <2>3 DEF SlotStarts
<1>2. ASSUME NEW k \in Skills, S!BookFindSlot(r, u, s, k) PROVE SlotStarts(r)
  <2> DEFINE new == [S!Reading(u, s, "find_coaching") EXCEPT !.skill = k]
  <2>1. S!Start(r, new) /\ emergency' = emergency
    BY <1>2 DEF S!BookFindSlot
  <2>2. Fields \subseteq DOMAIN new /\ new.pc = "find_coaching" /\ new.ec = "keep"
    BY DEF S!Reading, S!IdleRequest
  <2> HIDE DEF new
  <2> QED
    BY <1>1, <2>1, <2>2 DEF S!InFlightPcs
<1>3. ASSUME S!CancelFindSlot(r, u, s) PROVE SlotStarts(r)
  <2>1. emergency' = emergency
    BY <1>3 DEF S!CancelFindSlot
  <2>2. ASSUME NEW a, NEW b,
               S!Start(r, [S!Reading(u, s, "refund_student") EXCEPT !.to_student = a, !.to_instructor = b])
        PROVE  SlotStarts(r)
    <3> DEFINE new == [S!Reading(u, s, "refund_student") EXCEPT !.to_student = a, !.to_instructor = b]
    <3>1. Fields \subseteq DOMAIN new /\ new.pc = "refund_student" /\ new.ec = "keep"
      BY DEF S!Reading, S!IdleRequest
    <3> HIDE DEF new
    <3> QED
      BY <1>1, <2>1, <2>2, <3>1 DEF S!InFlightPcs, new
  <2>3. ASSUME NEW a, S!AsInstructor(u, slot[s]),
               S!Start(r, [S!Reading(u, s, "find_emergency_grant") EXCEPT !.to_student = a])
        PROVE  SlotStarts(r)
    <3> DEFINE new == [S!Reading(u, s, "find_emergency_grant") EXCEPT !.to_student = a]
    <3>1. /\ Fields \subseteq DOMAIN new /\ new.pc = "find_emergency_grant" /\ new.ec = "keep"
          /\ new.user = u /\ new.seen = slot[s]
      BY DEF S!Reading, S!IdleRequest
    <3>2. u = slot[s].owner
      BY <2>3 DEF S!AsInstructor
    <3>3. S!Start(r, new)
      BY <2>3
    <3> HIDE DEF new
    <3> QED
      BY <1>1, <2>1, <3>1, <3>2, <3>3 DEF S!InFlightPcs
  <2>4. ASSUME S!Start(r, S!Reading(u, s, "refund_student")) PROVE SlotStarts(r)
    <3> DEFINE new == S!Reading(u, s, "refund_student")
    <3>1. Fields \subseteq DOMAIN new /\ new.pc = "refund_student" /\ new.ec = "keep"
      BY DEF S!Reading, S!IdleRequest
    <3>2. S!Start(r, new)
      BY <2>4
    <3> HIDE DEF new
    <3> QED
      BY <1>1, <2>1, <3>1, <3>2 DEF S!InFlightPcs
  <2> QED
    BY <1>3, <2>2, <2>3, <2>4 DEF S!CancelFindSlot
<1> QED
  BY <1>2, <1>3

\* A request of a webinar takes a new pc, and with it what it has learnt.
WBecomes(r, pc, ec) ==
  /\ OnlyWebinar(r) /\ webinarReq'[r].pc = pc /\ webinarReq'[r].ec = ec
  /\ webinarReq'[r].seen = webinarReq[r].seen

\* In every form in which Webinars writes that down.
LEMMA WebinarBecomes ==
  ASSUME WebinarTable(webinarReq), NEW r \in WebinarRequests, NEW pc, NEW v,
         slotReq' = slotReq, contended' = contended
  PROVE  LET ec == webinarReq[r].ec IN
         /\ webinarReq' = [webinarReq EXCEPT ![r].pc = pc] => WBecomes(r, pc, ec)
         /\ webinarReq' = [webinarReq EXCEPT ![r].pc = pc, ![r].charged = v] => WBecomes(r, pc, ec)
         /\ webinarReq' = [webinarReq EXCEPT ![r].left = v, ![r].pc = pc] => WBecomes(r, pc, ec)
         /\ webinarReq' = [webinarReq EXCEPT ![r].pc = pc, ![r].ec = v] => WBecomes(r, pc, v)
         /\ webinarReq' = [webinarReq EXCEPT ![r] = [webinarReq[r] EXCEPT !.pc = pc]]
              => WBecomes(r, pc, ec)
         /\ webinarReq' = [webinarReq EXCEPT ![r] = [webinarReq[r] EXCEPT !.pc = pc, !.ec = v]]
              => WBecomes(r, pc, v)
<1> DEFINE ec == webinarReq[r].ec
<1>1. webinarReq' = [webinarReq EXCEPT ![r].pc = pc] => WBecomes(r, pc, ec)
  BY DEF WebinarTable, OnlyWebinar, WBecomes
<1>2. webinarReq' = [webinarReq EXCEPT ![r].pc = pc, ![r].charged = v] => WBecomes(r, pc, ec)
  BY DEF WebinarTable, OnlyWebinar, WBecomes
<1>3. webinarReq' = [webinarReq EXCEPT ![r].left = v, ![r].pc = pc] => WBecomes(r, pc, ec)
  BY DEF WebinarTable, OnlyWebinar, WBecomes
<1>4. webinarReq' = [webinarReq EXCEPT ![r].pc = pc, ![r].ec = v] => WBecomes(r, pc, v)
  BY DEF WebinarTable, OnlyWebinar, WBecomes
<1>5. webinarReq' = [webinarReq EXCEPT ![r] = [webinarReq[r] EXCEPT !.pc = pc]]
        => WBecomes(r, pc, ec)
  BY DEF WebinarTable, OnlyWebinar, WBecomes
<1>6. webinarReq' = [webinarReq EXCEPT ![r] = [webinarReq[r] EXCEPT !.pc = pc, !.ec = v]]
        => WBecomes(r, pc, v)
  BY DEF WebinarTable, OnlyWebinar, WBecomes
<1> QED
  BY <1>1, <1>2, <1>3, <1>4, <1>5, <1>6

\* A request of a webinar goes on.
LEMMA WebinarContinues ==
  ASSUME WebinarTable(webinarReq), NEW r \in WebinarRequests, W!Continue(r),
         slotReq' = slotReq, contended' = contended
  PROVE  WebinarGoes(r)
<1> DEFINE q == webinarReq[r]
           l == q.seen.creator
<1>1. ASSUME NEW pc, pc # "cancelled", NEW ec \in {q.ec, "keep", "create"}, WBecomes(r, pc, ec),
             q.pc \notin {"cancelled", "failed"}, emergency' = emergency
      PROVE  WebinarGoes(r)
  BY <1>1 DEF WebinarGoes, WBecomes
<1>2. CASE W!RegisterFindEmergency(r)
  <2>1. q.pc = "find_emergency" /\ emergency' = emergency
    BY <1>2 DEF W!RegisterFindEmergency, W!Become, W!db
  <2>2. CASE l \in emergency
    <3>1. webinarReq' = [webinarReq EXCEPT ![r] = [q EXCEPT !.pc = "commit_join", !.ec = "free"]]
      BY <1>2, <2>2 DEF W!RegisterFindEmergency, W!Become
    <3>2. WBecomes(r, "commit_join", "free")
      BY <3>1, WebinarBecomes
    <3> QED
      BY <2>1, <2>2, <3>2 DEF WebinarGoes, WBecomes
  <2>3. CASE l \notin emergency
    <3>1. webinarReq' = [webinarReq EXCEPT ![r] = [q EXCEPT !.pc = "spend"]]
      BY <1>2, <2>3 DEF W!RegisterFindEmergency, W!Become
    <3>2. WBecomes(r, "spend", q.ec)
      BY <3>1, WebinarBecomes
    <3> QED
      BY <1>1, <2>1, <3>2
  <2> QED
    BY <2>2, <2>3
<1>3. CASE W!RegisterSpend(r) \/ W!RegisterSpendFails(r)
  <2>1. /\ q.pc = "spend" /\ emergency' = emergency
        /\ \E pc \in {"commit_join", "rejected", "failed"} :
             \/ \E v : webinarReq' = [webinarReq EXCEPT ![r].pc = pc, ![r].charged = v]
             \/ webinarReq' = [webinarReq EXCEPT ![r].pc = pc]
    BY <1>3 DEF W!RegisterSpend, W!RegisterSpendFails, W!db
  <2>2. PICK pc \in {"commit_join", "rejected", "failed"} : WBecomes(r, pc, q.ec)
    BY <2>1, WebinarBecomes
  <2> QED
    BY <1>1, <2>1, <2>2
<1>4. CASE W!RegisterCommit(r)
  <2>1. q.pc = "commit_join" /\ emergency' = emergency
    BY <1>4 DEF W!RegisterCommit, W!Become, W!db
  <2>2. \/ webinarReq' = [webinarReq EXCEPT ![r] = [q EXCEPT !.pc = "failed"]]
        \/ webinarReq' = [webinarReq EXCEPT ![r].pc = "joined"]
    BY <1>4 DEF W!RegisterCommit, W!Become
  <2>3. WBecomes(r, "failed", q.ec) \/ WBecomes(r, "joined", q.ec)
    BY <2>2, WebinarBecomes
  <2> QED
    BY <1>1, <2>1, <2>3
<1>5. CASE W!LeaveRefund(r) \/ W!LeaveRefundFails(r) \/ W!LeaveCommit(r)
  <2>1. /\ q.pc \in {"refund_user", "refund_creator", "commit_leave"} /\ emergency' = emergency
        /\ \E pc \in {"refund_creator", "commit_leave", "left", "failed"} :
             webinarReq' = [webinarReq EXCEPT ![r].pc = pc]
    BY <1>5 DEF W!LeaveRefund, W!LeaveRefundFails, W!LeaveCommit, W!db
  <2>2. PICK pc \in {"refund_creator", "commit_leave", "left", "failed"} : WBecomes(r, pc, q.ec)
    BY <2>1, WebinarBecomes
  <2> QED
    BY <1>1, <2>1, <2>2
<1>6. CASE W!CancelCharge(r)
  <2>1. /\ q.pc = "charge_all" /\ emergency' = emergency
        /\ \E pc \in {"find_grant", "charge_all"} : \E v :
             webinarReq' = [webinarReq EXCEPT ![r].left = v, ![r].pc = pc]
    <3>1. q.pc = "charge_all" /\ emergency' = emergency
      BY <1>6 DEF W!CancelCharge, W!db
    <3>2. PICK u : webinarReq' = [webinarReq EXCEPT ![r].left = @ \ {u},
                                    ![r].pc = IF q.left = {u} THEN "find_grant" ELSE @]
      BY <1>6 DEF W!CancelCharge
    <3>3. webinarReq' = [webinarReq EXCEPT ![r].left = q.left \ {u},
                                    ![r].pc = IF q.left = {u} THEN "find_grant" ELSE "charge_all"]
      BY <3>1, <3>2 DEF WebinarTable
    <3> QED
      BY <3>1, <3>3
  <2>2. PICK pc \in {"find_grant", "charge_all"} : WBecomes(r, pc, q.ec)
    BY <2>1, WebinarBecomes
  <2> QED
    BY <1>1, <2>1, <2>2
<1>7. CASE W!CancelChargeFails(r)
  <2>1. /\ q.pc = "charge_all" /\ emergency' = emergency
        /\ webinarReq' = [webinarReq EXCEPT ![r].pc = "failed"]
    BY <1>7 DEF W!CancelChargeFails, W!db
  <2>2. WBecomes(r, "failed", q.ec)
    BY <2>1, WebinarBecomes
  <2> QED
    BY <1>1, <2>1, <2>2
<1>8. CASE W!CancelFindGrant(r)
  <2>1. /\ q.pc = "find_grant" /\ emergency' = emergency
        /\ \E ec \in {"keep", "create"} :
             webinarReq' = [webinarReq EXCEPT ![r] = [q EXCEPT !.pc = "commit_cancel", !.ec = ec]]
    BY <1>8 DEF W!CancelFindGrant, W!Become, W!db
  <2>2. PICK ec \in {"keep", "create"} : WBecomes(r, "commit_cancel", ec)
    BY <2>1, WebinarBecomes
  <2> QED
    BY <1>1, <2>1, <2>2
<1>9. CASE W!CancelCommit(r)
  <2>1. q.pc = "commit_cancel"
    BY <1>9 DEF W!CancelCommit
  <2>2. CASE /\ webinarReq' = [webinarReq EXCEPT ![r] = [q EXCEPT !.pc = "failed", !.ec = "keep"]]
             /\ emergency' = emergency
    <3>1. WBecomes(r, "failed", "keep")
      BY <2>2, WebinarBecomes
    <3> QED
      BY <1>1, <2>1, <2>2, <3>1
  <2>3. CASE /\ webinarReq' = [webinarReq EXCEPT ![r].pc = "cancelled"]
             /\ emergency' = IF q.ec = "create" THEN emergency \cup {l} ELSE emergency
    <3>1. WBecomes(r, "cancelled", q.ec)
      BY <2>3, WebinarBecomes
    <3> QED
      BY <2>1, <2>3, <3>1 DEF WBecomes, WebinarGoes
  <2> QED
    BY <1>9, <2>2, <2>3 DEF W!CancelCommit, W!Become, W!db
<1>10. CASE W!UpdateCheck(r)
  <2>1. /\ q.pc = "check_price" /\ emergency' = emergency
        /\ \E pc \in {"commit_update", "rejected"} :
             webinarReq' = [webinarReq EXCEPT ![r] = [q EXCEPT !.pc = pc]]
    BY <1>10 DEF W!UpdateCheck, W!Become, W!db
  <2>2. PICK pc \in {"commit_update", "rejected"} : WBecomes(r, pc, q.ec)
    BY <2>1, WebinarBecomes
  <2> QED
    BY <1>1, <2>1, <2>2
<1>11. CASE W!UpdateCheckFails(r) \/ W!UpdateCommit(r)
  <2>1. /\ q.pc \in {"check_price", "commit_update"} /\ emergency' = emergency
        /\ \E pc \in {"failed", "updated"} :
             webinarReq' = [webinarReq EXCEPT ![r].pc = pc]
    BY <1>11 DEF W!UpdateCheckFails, W!UpdateCommit, W!UpdateStore
  <2>2. PICK pc \in {"failed", "updated"} : WBecomes(r, pc, q.ec)
    BY <2>1, WebinarBecomes
  <2> QED
    BY <1>1, <2>1, <2>2
<1> QED
  BY <1>2, <1>3, <1>4, <1>5, <1>6, <1>7, <1>8, <1>9, <1>10, <1>11 DEF W!Continue

\* A request of a webinar arrives.
LEMMA WebinarArrives ==
  ASSUME WebinarTable(webinarReq), NEW r \in WebinarRequests, slotReq' = slotReq,
         contended' = contended, NEW u, NEW w, W!Register(r, u, w) \/ W!CancelWebinar(r, u, w)
  PROVE  WebinarGoes(r)
<1>1. PICK new : /\ W!Start(r, u, w, new)
                 /\ {"pc", "seen", "ec", "left", "charged", "user", "webinar", "who", "at"} \subseteq DOMAIN new
                 /\ new.pc # "cancelled" /\ new.ec = "keep"
  <2>1. CASE W!Register(r, u, w)
    BY <2>1 DEF W!Register, W!Idle
  <2>2. CASE W!CancelWebinar(r, u, w)
    <3> DEFINE pc == IF joined[w] = {} THEN "commit_cancel" ELSE "charge_all"
               new == [W!Idle EXCEPT !.left = joined[w], !.pc = pc]
    <3>1. W!Start(r, u, w, new)
      BY <2>2 DEF W!CancelWebinar
    <3>2. pc # "cancelled"
      OBVIOUS
    <3> HIDE DEF pc
    <3>3. /\ {"pc", "seen", "ec", "left", "charged", "user", "webinar", "who", "at"} \subseteq DOMAIN new
          /\ new.pc # "cancelled" /\ new.ec = "keep"
      BY <3>2 DEF W!Idle
    <3> QED
      BY <3>1, <3>3
  <2> QED
    BY <2>1, <2>2
<1> DEFINE n == [new EXCEPT !.user = u, !.webinar = w, !.seen = webinar[w],
                             !.who = joined[w], !.at = webinarPhase[w]]
<1>2. /\ webinarReq' = [webinarReq EXCEPT ![r] = n] /\ webinarReq[r].pc = "idle"
      /\ emergency' = emergency
  BY <1>1 DEF W!Start, W!db
<1>3. {"pc", "seen", "ec", "left", "charged"} \subseteq DOMAIN n /\ n.pc # "cancelled" /\ n.ec = "keep"
  BY <1>1
<1> HIDE DEF n
<1>4. OnlyWebinar(r) /\ webinarReq'[r] = n
  BY <1>2, <1>3 DEF WebinarTable, OnlyWebinar
<1> QED
  BY <1>2, <1>3, <1>4 DEF WebinarGoes

\* Every step of the system is one of these.
LEMMA Cases ==
  ASSUME SlotTable(slotReq), WebinarTable(webinarReq), [Next]_vars
  PROVE  \/ \E r \in SlotRequests : SlotStarts(r) \/ SlotGoes(r)
         \/ \E r \in WebinarRequests : WebinarGoes(r)
         \/ OthersGo \/ Restarts
<1>1. CASE UNCHANGED vars
  BY <1>1 DEF vars, slotVars, webinarVars, OthersGo
<1>2. CASE Handlers
  <2>1. CASE (SlotHandlers \/ \E s \in Slots : S!Tick(s)) /\ UNCHANGED webinarVars
    <3>1. webinarReq' = webinarReq
      BY <2>1 DEF webinarVars
    <3>2. ASSUME NEW u \in Lecturers, NEW s \in Slots, NEW ph, S!AddSlot(u, s, ph) PROVE OthersGo
      BY <3>1, <3>2 DEF S!AddSlot, OthersGo
    <3>3. ASSUME NEW u \in Lecturers, NEW k \in Skills, NEW p, S!SetCoaching(u, k, p) PROVE OthersGo
      BY <3>1, <3>3 DEF S!SetCoaching, OthersGo
    <3>4. ASSUME NEW s \in Slots, S!Tick(s) PROVE OthersGo
      BY <3>1, <3>4 DEF S!Tick, OthersGo
    <3>5. ASSUME NEW r \in Unused(slotReq), NEW u \in Users, NEW s \in Slots,
                 (\E k \in Skills : S!BookFindSlot(r, u, s, k)) \/ S!CancelFindSlot(r, u, s)
          PROVE  r \in SlotRequests /\ SlotStarts(r)
      <4>1. r \in SlotRequests
        BY DEF Unused, SlotTable
      <4> QED
        BY <3>1, <3>5, <4>1, SlotArrives
    <3> QED
      BY <2>1, <3>2, <3>3, <3>4, <3>5 DEF SlotHandlers
  <2>2. CASE (WebinarHandlers \/ \E w \in Webinars : W!Tick(w)) /\ UNCHANGED slotVars
    <3>1. slotReq' = slotReq /\ contended' = contended
      BY <2>2 DEF slotVars
    <3>2. ASSUME W!Announce PROVE OthersGo
      BY <3>1, <3>2 DEF W!Announce, W!CreateWebinar, OthersGo
    <3>3. ASSUME NEW w \in Webinars, W!Tick(w) PROVE OthersGo
      BY <3>1, <3>3 DEF W!Tick, W!db, OthersGo
    <3>4. ASSUME NEW r \in Unused(webinarReq), NEW u \in Users, NEW w \in Webinars,
                 W!Register(r, u, w) \/ W!CancelWebinar(r, u, w)
          PROVE  r \in WebinarRequests /\ WebinarGoes(r)
      <4>1. r \in WebinarRequests
        BY DEF Unused, WebinarTable
      <4> QED
        BY <3>1, <3>4, <4>1, WebinarArrives
    <3> QED
      BY <2>2, <3>2, <3>3, <3>4 DEF WebinarHandlers
  <2> QED
    BY <1>2, <2>1, <2>2 DEF Handlers
<1>3. CASE Continue
  BY <1>3, SlotContinues, WebinarContinues DEF Continue, slotVars, webinarVars
<1>4. CASE CleanWebinars
  <2>1. slotReq' = slotReq /\ contended' = contended
    BY <1>4 DEF CleanWebinars, slotVars
  <2>2. CASE W!Cleanup
    <3>1. ASSUME NEW rated, NEW spent, NEW dels, W!Store(rated, spent, dels)
          PROVE  emergency' \subseteq emergency
      BY <3>1 DEF W!Store, W!StoreAll, W!db
    <3>2. CASE W!CleanupCommit \/ W!CleanupCallFails
      <4>1. webinarReq' = webinarReq
        BY <3>2 DEF W!CleanupCommit, W!CleanupCallFails
      <4>2. \E rated, spent, dels : W!Store(rated, spent, dels)
        BY <3>2 DEF W!CleanupCommit, W!CleanupCallFails
      <4> QED
        BY <2>1, <3>1, <4>1, <4>2 DEF OthersGo
    <3>3. CASE W!CleanupBegin \/ W!CleanupPay \/ W!CleanupXp \/ W!CleanupCommitFails
      BY <2>1, <3>3 DEF W!CleanupBegin, W!CleanupPay, W!CleanupXp, W!CleanupCommitFails,
           W!Working, W!db, OthersGo
    <3>4. CASE (\E w \in Webinars : W!CleanupTake(w)) \/ (\E u \in Users : W!CleanupRate(u))
      BY <2>1, <3>4 DEF W!CleanupTake, W!CleanupRate, W!Working, W!db, OthersGo
    <3> QED
      BY <2>2, <3>2, <3>3, <3>4 DEF W!Cleanup
  <2>3. CASE UNCHANGED <<emergency, failures, webinarVars>>
    BY <2>1, <2>3 DEF webinarVars, OthersGo
  <2> QED
    BY <1>4, <2>2, <2>3 DEF CleanWebinars
<1>5. CASE CleanSlots
  <2>1. webinarReq' = webinarReq
    BY <1>5 DEF CleanSlots, webinarVars
  <2>2. CASE S!Cleanup
    BY <2>1, <2>2 DEF S!Cleanup, S!CleanupBegin, S!CleanupTake, S!CleanupPay, S!CleanupXp,
         S!CleanupCallFails, S!CleanupCommit, S!CleanupCommitFails, OthersGo
  <2>3. CASE UNCHANGED <<emergency, failures, slotVars>>
    BY <2>1, <2>3 DEF slotVars, OthersGo
  <2> QED
    BY <1>5, <2>2, <2>3 DEF CleanSlots
<1>6. CASE Crash
  <2>1. S!Crash /\ W!Crash
    BY <1>6 DEF Crash
  <2>2. /\ emergency' = emergency /\ contended' = contended
        /\ slotReq' = [r \in SlotRequests |->
             IF SlotInFlight(r) THEN [slotReq[r] EXCEPT !.pc = "failed", !.ec = "keep"]
             ELSE slotReq[r]]
    BY <2>1 DEF S!Crash, S!InFlight, SlotInFlight
  <2>3. webinarReq' = [r \in WebinarRequests |->
             IF W!InFlight(r) THEN [webinarReq[r] EXCEPT !.pc = "failed", !.ec = "keep"]
             ELSE webinarReq[r]]
    BY <2>1 DEF W!Crash
  <2>4. SlotTable(slotReq') /\ WebinarTable(webinarReq')
    BY <2>2, <2>3 DEF SlotTable, WebinarTable
  <2>5. ASSUME NEW r \in SlotRequests
        PROVE  \/ slotReq'[r] = slotReq[r] /\ ~SlotInFlight(r)
               \/ SlotInFlight(r) /\ slotReq'[r].pc = "failed" /\ slotReq'[r].ec = "keep"
    BY <2>2 DEF SlotTable
  <2>6. ASSUME NEW r \in WebinarRequests
        PROVE  \/ webinarReq'[r] = webinarReq[r]
               \/ /\ webinarReq[r].pc \notin {"cancelled", "failed"}
                  /\ webinarReq'[r].pc = "failed" /\ webinarReq'[r].ec = "keep"
    BY <2>3 DEF WebinarTable, W!InFlight, W!InFlightPcs
  <2> QED
    BY <2>2, <2>4, <2>5, <2>6 DEF Restarts
<1> QED
  BY <1>1, <1>2, <1>3, <1>4, <1>5, <1>6 DEF Next, CleanupLoop

-----------------------------------------------------------------------------
(***************************************************************************)
(* What the steps preserve                                                 *)
(***************************************************************************)
\* A request of a slot that goes on was in flight; so the requests of one
\* instructor that are in flight together are so since one of them started.
LEMMA RequestsStep ==
  ASSUME EInv,
         \/ \E r \in SlotRequests : SlotStarts(r) \/ SlotGoes(r)
         \/ \E r \in WebinarRequests : WebinarGoes(r)
         \/ OthersGo \/ Restarts
  PROVE  /\ SlotTable(slotReq)' /\ WebinarTable(webinarReq)'
         /\ \A r \in SlotRequests : SlotReqOK(slotReq[r])'
         /\ OneAtATime' /\ contended \subseteq contended'
<1>1. ASSUME NEW r \in SlotRequests, SlotStarts(r)
      PROVE  /\ SlotTable(slotReq') /\ WebinarTable(webinarReq') /\ contended \subseteq contended'
             /\ \A p \in SlotRequests : SlotReqOK(slotReq'[p])
             /\ OneAtATime'
  <2>1. SlotTable(slotReq') /\ WebinarTable(webinarReq') /\ contended \subseteq contended'
    BY <1>1 DEF SlotStarts, OnlySlot, EInv
  <2>2. SlotReqOK(slotReq'[r])
    BY <1>1 DEF SlotStarts, SlotReqOK
  <2>3. \A p \in SlotRequests : SlotReqOK(slotReq'[p])
    BY <1>1, <2>2 DEF SlotStarts, OnlySlot, EInv
  <2>4. ASSUME NEW p \in SlotRequests, NEW q \in SlotRequests, p # q,
               SlotInFlight(p)', SlotInFlight(q)', slotReq'[p].seen.owner = slotReq'[q].seen.owner
        PROVE  slotReq'[p].seen.owner \in contended'
    <3>1. CASE p # r /\ q # r
      <4>1. slotReq'[p] = slotReq[p] /\ slotReq'[q] = slotReq[q]
        BY <1>1, <3>1 DEF SlotStarts, OnlySlot
      <4> QED
        BY <2>1, <2>4, <4>1 DEF EInv, OneAtATime, SlotInFlight
    <3>2. CASE p = r \/ q = r
      <4>1. PICK o \in {p, q} : o # r
        BY <2>4
      <4>2. slotReq'[o] = slotReq[o]
        BY <1>1, <4>1 DEF SlotStarts, OnlySlot
      <4>3. SlotInFlight(o) /\ slotReq[o].seen.owner = slotReq'[r].seen.owner
        BY <2>4, <3>2, <4>1, <4>2 DEF SlotInFlight
      <4>4. contended' = contended \cup {slotReq'[r].seen.owner}
        BY <1>1, <4>3 DEF SlotStarts
      <4> QED
        BY <2>4, <3>2, <4>4
    <3> QED
      BY <3>1, <3>2
  <2> QED
    BY <2>1, <2>3, <2>4 DEF OneAtATime
<1>2. ASSUME NEW r \in SlotRequests, SlotGoes(r)
      PROVE  /\ SlotTable(slotReq') /\ WebinarTable(webinarReq') /\ contended \subseteq contended'
             /\ \A p \in SlotRequests : SlotReqOK(slotReq'[p])
             /\ OneAtATime'
  <2> DEFINE q == slotReq[r]
             n == slotReq'[r]
  <2>1. SlotTable(slotReq') /\ WebinarTable(webinarReq') /\ contended' = contended
    BY <1>2 DEF SlotGoes, OnlySlot, EInv
  <2>2. n.user = q.user /\ n.seen = q.seen /\ SlotReqOK(q)
    BY <1>2 DEF SlotGoes, EInv
  <2>3. SlotInFlight(r)
    BY <1>2 DEF SlotGoes, Ways, SlotInFlight, S!InFlightPcs
  <2>4. SlotReqOK(n)
    <3>1. CASE n.ec = q.ec /\ <<q.pc, n.pc>> \in Ways
      BY <2>2, <3>1 DEF Ways, SlotReqOK
    <3>2. CASE ~(n.ec = q.ec /\ <<q.pc, n.pc>> \in Ways)
      BY <1>2, <2>2, <3>2 DEF SlotGoes, SlotReqOK
    <3> QED
      BY <3>1, <3>2
  <2>5. \A p \in SlotRequests \ {r} : slotReq'[p] = slotReq[p]
    BY <1>2 DEF SlotGoes, OnlySlot
  <2>6. \A p \in SlotRequests : SlotReqOK(slotReq'[p])
    BY <2>4, <2>5 DEF EInv
  <2>7. \A p \in SlotRequests : /\ SlotInFlight(p)' => SlotInFlight(p)
                                /\ slotReq'[p].seen = slotReq[p].seen
    BY <2>2, <2>3, <2>5 DEF SlotInFlight
  <2>8. OneAtATime'
    BY <2>1, <2>7 DEF EInv, OneAtATime
  <2> QED
    BY <2>1, <2>6, <2>8
<1>3. ASSUME \/ \E r \in WebinarRequests : WebinarGoes(r)
             \/ OthersGo
      PROVE  /\ SlotTable(slotReq') /\ WebinarTable(webinarReq') /\ contended \subseteq contended'
             /\ \A p \in SlotRequests : SlotReqOK(slotReq'[p])
             /\ OneAtATime'
  <2>1. slotReq' = slotReq /\ contended' = contended /\ WebinarTable(webinarReq')
    BY <1>3 DEF WebinarGoes, OnlyWebinar, OthersGo, EInv
  <2> QED
    BY <2>1 DEF EInv, OneAtATime, SlotInFlight
<1>4. ASSUME Restarts
      PROVE  /\ SlotTable(slotReq') /\ WebinarTable(webinarReq') /\ contended \subseteq contended'
             /\ \A p \in SlotRequests : SlotReqOK(slotReq'[p])
             /\ OneAtATime'
  <2>1. \A p \in SlotRequests : ~SlotInFlight(p)'
    BY <1>4 DEF Restarts, SlotInFlight, S!InFlightPcs
  <2>2. \A p \in SlotRequests : SlotReqOK(slotReq'[p])
    BY <1>4 DEF Restarts, SlotReqOK, EInv
  <2> QED
    BY <1>4, <2>1, <2>2 DEF Restarts, OneAtATime
<1> QED
  BY <1>1, <1>2, <1>3, <1>4

\* A grant is for ever: the request that made it has ended.
LEMMA GrantsStay ==
  ASSUME EInv, NEW u,
         \/ \E r \in SlotRequests : SlotStarts(r) \/ SlotGoes(r)
         \/ \E r \in WebinarRequests : WebinarGoes(r)
         \/ OthersGo \/ Restarts
  PROVE  Grants(u) \subseteq Grants(u)'
<1>1. \A p \in SlotRequests : slotReq[p].ec = "create" /\ slotReq[p].pc \in {"cancelled", "failed"}
                                => slotReq'[p] = slotReq[p]
  <2>1. ASSUME NEW r \in SlotRequests, SlotStarts(r), NEW p \in SlotRequests,
               slotReq[p].pc \in {"cancelled", "failed"}
        PROVE  slotReq'[p] = slotReq[p]
    BY <2>1 DEF SlotStarts, OnlySlot
  <2>2. ASSUME NEW r \in SlotRequests, SlotGoes(r), NEW p \in SlotRequests,
               slotReq[p].pc \in {"cancelled", "failed"}
        PROVE  slotReq'[p] = slotReq[p]
    <3>1. slotReq[r].pc \notin {"cancelled", "failed"}
      BY <2>2 DEF SlotGoes, Ways
    <3> QED
      BY <2>2, <3>1 DEF SlotGoes, OnlySlot
  <2>3. CASE Restarts
    BY <2>3 DEF Restarts, SlotInFlight, S!InFlightPcs
  <2>4. CASE OthersGo \/ \E r \in WebinarRequests : WebinarGoes(r)
    BY <2>4 DEF OthersGo, WebinarGoes, OnlyWebinar
  <2> QED
    BY <2>1, <2>2, <2>3, <2>4
<1>2. \A p \in WebinarRequests : webinarReq[p].pc = "cancelled" => webinarReq'[p] = webinarReq[p]
  <2>1. ASSUME NEW r \in WebinarRequests, WebinarGoes(r), NEW p \in WebinarRequests,
               webinarReq[p].pc = "cancelled"
        PROVE  webinarReq'[p] = webinarReq[p]
    BY <2>1 DEF WebinarGoes, OnlyWebinar
  <2>2. CASE Restarts
    BY <2>2 DEF Restarts
  <2>3. CASE OthersGo \/ \E r \in SlotRequests : SlotStarts(r) \/ SlotGoes(r)
    BY <2>3 DEF OthersGo, SlotStarts, SlotGoes, OnlySlot
  <2> QED
    BY <2>1, <2>2, <2>3
<1> QED
  BY <1>1, <1>2 DEF Grants

\* A row in the table, and a coaching or a webinar that found one, come from
\* a grant.
LEMMA EarnedStep ==
  ASSUME EInv,
         \/ \E r \in SlotRequests : SlotStarts(r) \/ SlotGoes(r)
         \/ \E r \in WebinarRequests : WebinarGoes(r)
         \/ OthersGo \/ Restarts
  PROVE  FreeIsEarned'
<1>1. \A u : Grants(u) # {} => Grants(u)' # {}
  BY GrantsStay
<1>2. ASSUME emergency' \subseteq emergency,
             \A r \in SlotRequests : slotReq'[r].ec = "delete" =>
               /\ slotReq'[r].seen = slotReq[r].seen
               /\ slotReq[r].ec = "delete" \/ slotReq[r].seen.owner \in emergency,
             \A r \in WebinarRequests : webinarReq'[r].ec = "free" =>
               /\ webinarReq'[r].seen = webinarReq[r].seen
               /\ webinarReq[r].ec = "free" \/ webinarReq[r].seen.creator \in emergency
      PROVE  FreeIsEarned'
  <2>1. \A u \in emergency' : Grants(u)' # {}
    BY <1>1, <1>2 DEF EInv, FreeIsEarned
  <2>2. \A r \in SlotRequests : slotReq'[r].ec = "delete" => Grants(slotReq[r].seen.owner)' # {}
    BY <1>1, <1>2 DEF EInv, FreeIsEarned
  <2>3. \A r \in WebinarRequests :
          webinarReq'[r].ec = "free" => Grants(webinarReq[r].seen.creator)' # {}
    BY <1>1, <1>2 DEF EInv, FreeIsEarned
  <2> QED
    BY <2>1, <2>2, <2>3 DEF FreeIsEarned
<1>3. ASSUME NEW l, emergency' = emergency \cup {l}, Grants(l)' # {},
             \A r \in SlotRequests : slotReq'[r].ec = "delete" =>
               slotReq'[r].seen = slotReq[r].seen /\ slotReq[r].ec = "delete",
             \A r \in WebinarRequests : webinarReq'[r].ec = "free" =>
               webinarReq'[r].seen = webinarReq[r].seen /\ webinarReq[r].ec = "free"
      PROVE  FreeIsEarned'
  <2>1. \A u \in emergency' : Grants(u)' # {}
    BY <1>1, <1>3 DEF EInv, FreeIsEarned
  <2>2. \A r \in SlotRequests : slotReq'[r].ec = "delete" => Grants(slotReq[r].seen.owner)' # {}
    BY <1>1, <1>3 DEF EInv, FreeIsEarned
  <2>3. \A r \in WebinarRequests :
          webinarReq'[r].ec = "free" => Grants(webinarReq[r].seen.creator)' # {}
    BY <1>1, <1>3 DEF EInv, FreeIsEarned
  <2> QED
    BY <2>1, <2>2, <2>3 DEF FreeIsEarned
<1>4. ASSUME NEW r \in SlotRequests, SlotStarts(r) PROVE FreeIsEarned'
  BY <1>2, <1>4 DEF SlotStarts, OnlySlot
<1>5. ASSUME NEW r \in SlotRequests, SlotGoes(r) PROVE FreeIsEarned'
  <2> DEFINE q == slotReq[r]
             n == slotReq'[r]
             l == q.seen.owner
  <2>1. /\ webinarReq' = webinarReq /\ n.seen = q.seen /\ n.user = q.user
        /\ \A p \in SlotRequests \ {r} : slotReq'[p] = slotReq[p]
    BY <1>5 DEF SlotGoes, OnlySlot
  <2>2. CASE n.ec = "create" /\ n.pc \in {"cancelled", "failed"} /\ emergency' = emergency \cup {l}
    <3>1. q.ec = "create" /\ q.user = l
      BY <1>5, <2>2 DEF SlotGoes, EInv, SlotReqOK
    <3>2. r \in Grants(l)'
      BY <2>1, <2>2, <3>1 DEF Grants
    <3>3. \A p \in SlotRequests : slotReq'[p].ec = "delete" =>
            slotReq'[p].seen = slotReq[p].seen /\ slotReq[p].ec = "delete"
      BY <2>1, <2>2
    <3> QED
      BY <1>3, <2>1, <2>2, <3>2, <3>3
  <2>3. CASE emergency' \subseteq emergency
    <3>1. n.ec = "delete" => q.ec = "delete" \/ l \in emergency
      BY <1>5 DEF SlotGoes
    <3>2. \A p \in SlotRequests : slotReq'[p].ec = "delete" =>
            /\ slotReq'[p].seen = slotReq[p].seen
            /\ slotReq[p].ec = "delete" \/ slotReq[p].seen.owner \in emergency
      BY <2>1, <3>1
    <3> QED
      BY <1>2, <2>1, <2>3, <3>2
  <2> QED
    BY <1>5, <2>2, <2>3 DEF SlotGoes
<1>6. ASSUME NEW r \in WebinarRequests, WebinarGoes(r) PROVE FreeIsEarned'
  <2> DEFINE q == webinarReq[r]
             n == webinarReq'[r]
  <2> PICK l : l = n.seen.creator
    OBVIOUS
  <2>1. /\ slotReq' = slotReq
        /\ \A p \in WebinarRequests \ {r} : webinarReq'[p] = webinarReq[p]
    BY <1>6 DEF WebinarGoes, OnlyWebinar
  <2>2. CASE n.ec = "create" /\ n.pc = "cancelled" /\ emergency' = emergency \cup {l}
    <3>1. r \in Grants(l)'
      BY <2>2 DEF Grants
    <3>2. \A p \in WebinarRequests : webinarReq'[p].ec = "free" =>
            webinarReq'[p].seen = webinarReq[p].seen /\ webinarReq[p].ec = "free"
      BY <2>1, <2>2
    <3> QED
      BY <1>3, <2>1, <2>2, <3>1, <3>2
  <2>3. CASE emergency' = emergency
    <3>1. n.ec = "free" => n.seen = q.seen /\ (q.ec = "free" \/ l \in emergency)
      BY <1>6 DEF WebinarGoes
    <3>2. \A p \in WebinarRequests : webinarReq'[p].ec = "free" =>
            /\ webinarReq'[p].seen = webinarReq[p].seen
            /\ webinarReq[p].ec = "free" \/ webinarReq[p].seen.creator \in emergency
      BY <2>1, <3>1
    <3> QED
      BY <1>2, <2>1, <2>3, <3>2
  <2> QED
    BY <1>6, <2>2, <2>3 DEF WebinarGoes
<1>7. CASE OthersGo
  BY <1>2, <1>7 DEF OthersGo
<1>8. CASE Restarts
  BY <1>2, <1>8 DEF Restarts
<1> QED
  BY <1>4, <1>5, <1>6, <1>7, <1>8

\* A step that leaves the books as they are, adds a grant, or uses the grant
\* that was claimed, and claims no other.
LEMMA BooksBalance ==
  ASSUME NEW u, Books(u),
         \/ /\ FreeCoachings(u)' = FreeCoachings(u) /\ Grants(u)' = Grants(u)
            /\ (u \in emergency \/ Deleting(u))' => u \in emergency \/ Deleting(u)
         \/ /\ FreeCoachings(u)' = FreeCoachings(u)
            /\ \E r : r \notin Grants(u) /\ Grants(u)' = Grants(u) \cup {r}
         \/ /\ \E r : r \notin FreeCoachings(u) /\ FreeCoachings(u)' = FreeCoachings(u) \cup {r}
            /\ Grants(u)' = Grants(u)
            /\ u \in emergency \/ Deleting(u)
            /\ u \notin emergency' /\ ~Deleting(u)'
  PROVE  Books(u)'
<1> DEFINE f == FreeCoachings(u)
           g == Grants(u)
           claimed == u \in emergency \/ Deleting(u)
<1>1. /\ IsFiniteSet(f) /\ IsFiniteSet(g)
      /\ Cardinality(f) \in Nat /\ Cardinality(g) \in Nat
  BY FS_CardinalityType DEF Books
<1>2. CASE f' = f /\ g' = g /\ (claimed' => claimed)
  BY <1>2 DEF Books
<1>3. CASE f' = f /\ \E r : r \notin g /\ g' = g \cup {r}
  <2>1. IsFiniteSet(g') /\ Cardinality(g') = Cardinality(g) + 1
    BY <1>1, <1>3, FS_AddElement
  <2>2. Cardinality(f) <= Cardinality(g)
    BY DEF Books
  <2>3. IsFiniteSet(f') /\ Cardinality(f') + 1 <= Cardinality(g')
    BY <1>1, <1>3, <2>1, <2>2
  <2>4. Cardinality(f') <= Cardinality(g')
    BY <1>1, <1>3, <2>1, <2>2
  <2> QED
    BY <2>1, <2>3, <2>4 DEF Books
<1>4. CASE /\ \E r : r \notin f /\ f' = f \cup {r}
           /\ g' = g /\ claimed /\ ~claimed'
  <2>1. IsFiniteSet(f') /\ Cardinality(f') = Cardinality(f) + 1
    BY <1>1, <1>4, FS_AddElement
  <2>2. Cardinality(f) + 1 <= Cardinality(g)
    BY <1>4 DEF Books
  <2>3. IsFiniteSet(g') /\ Cardinality(f') <= Cardinality(g')
    BY <1>1, <1>4, <2>1, <2>2
  <2> QED
    BY <1>4, <2>1, <2>3 DEF Books
<1> QED
  BY <1>2, <1>3, <1>4

\* While the slots of u are worked on by one request at a time, the books of u
\* balance.
LEMMA BooksStep ==
  ASSUME EInv, NEW u \in Users, u \notin contended',
         \/ \E r \in SlotRequests : SlotStarts(r) \/ SlotGoes(r)
         \/ \E r \in WebinarRequests : WebinarGoes(r)
         \/ OthersGo \/ Restarts
  PROVE  Books(u)'
<1> DEFINE Same == /\ FreeCoachings(u)' = FreeCoachings(u) /\ Grants(u)' = Grants(u)
                   /\ (u \in emergency \/ Deleting(u))' => u \in emergency \/ Deleting(u)
<1>1. Books(u)
  BY RequestsStep DEF EInv
<1>2. ASSUME NEW r \in SlotRequests, SlotStarts(r) PROVE Same
  <2> DEFINE q == slotReq[r]
             n == slotReq'[r]
  <2>1. /\ webinarReq' = webinarReq /\ emergency' = emergency
        /\ \A p \in SlotRequests \ {r} : slotReq'[p] = slotReq[p]
        /\ q.pc = "idle" /\ n.ec = "keep"
    BY <1>2 DEF SlotStarts, OnlySlot
  <2>2. FreeCoachings(u)' = FreeCoachings(u)
    BY <2>1 DEF FreeCoachings
  <2>3. Grants(u)' = Grants(u)
    BY <2>1 DEF Grants
  <2>4. Deleting(u)' => Deleting(u)
    BY <2>1 DEF Deleting, Deletes
  <2> QED
    BY <2>1, <2>2, <2>3, <2>4
<1>3. ASSUME NEW r \in SlotRequests, SlotGoes(r) PROVE Books(u)'
  <2> DEFINE q == slotReq[r]
             n == slotReq'[r]
             l == q.seen.owner
  <2>1. /\ webinarReq' = webinarReq /\ n.user = q.user /\ n.seen = q.seen /\ SlotReqOK(q)
        /\ \A p \in SlotRequests \ {r} : slotReq'[p] = slotReq[p]
        /\ contended' = contended
    BY <1>3 DEF SlotGoes, OnlySlot, EInv
  <2>2. ASSUME emergency' \subseteq emergency \/ (emergency' = emergency \cup {l} /\ u # l),
               n.pc = "booked" => n.ec # "delete" \/ u # l,
               n.pc \in {"cancelled", "failed"} => n.ec # "create" \/ u # l,
               Deletes(n, u) => u \in emergency \/ Deleting(u)
        PROVE  Books(u)'
    <3>1. q.pc \notin {"booked", "cancelled", "failed"}
      BY <1>3 DEF SlotGoes, Ways
    <3>2. n.ec = "create" /\ n.pc \in {"cancelled", "failed"} => n.user = l
      BY <1>3, <2>1 DEF SlotGoes, SlotReqOK, Ways
    <3>3. FreeCoachings(u)' = FreeCoachings(u)
      BY <2>1, <2>2, <3>1 DEF FreeCoachings
    <3>4. Grants(u)' = Grants(u)
      BY <2>1, <2>2, <3>1, <3>2 DEF Grants
    <3>5. (u \in emergency \/ Deleting(u))' => u \in emergency \/ Deleting(u)
      BY <2>1, <2>2 DEF Deleting
    <3> QED
      BY <1>1, <3>3, <3>4, <3>5, BooksBalance
  <2>3. CASE emergency' = emergency /\ n.ec = q.ec /\ <<q.pc, n.pc>> \in Ways
    <3>1. n.pc # "booked" /\ ~(n.ec = "create" /\ n.pc \in {"cancelled", "failed"})
      BY <2>1, <2>3 DEF Ways, SlotReqOK
    <3>2. ~Deletes(n, u)
      BY <2>1, <2>3 DEF Ways, SlotReqOK, Deletes
    <3> QED
      BY <2>2, <2>3, <3>1, <3>2
  <2>4. CASE /\ emergency' = emergency /\ l \in emergency
             /\ q.pc = "find_emergency" /\ n.pc = "commit_booking" /\ n.ec = "delete"
    BY <2>1, <2>2, <2>4 DEF Deletes
  <2>5. CASE \/ emergency' = emergency /\ n.pc = "refund_student"
             \/ emergency' = emergency /\ n.pc = "failed" /\ n.ec = "keep"
    BY <2>2, <2>5 DEF Deletes
  <2>6. CASE /\ q.pc = "commit_booking" /\ n.pc = "booked" /\ n.ec = q.ec
             /\ emergency' = IF q.ec = "delete" THEN emergency \ {l} ELSE emergency
    <3>1. CASE q.ec = "delete" /\ u = l
      <4>1. r \notin FreeCoachings(u) /\ FreeCoachings(u)' = FreeCoachings(u) \cup {r}
        BY <2>1, <2>6, <3>1 DEF FreeCoachings
      <4>2. Grants(u)' = Grants(u)
        BY <2>1, <2>6 DEF Grants
      <4>3. Deleting(u)
        BY <2>6, <3>1 DEF Deleting, Deletes
      <4>4. ASSUME NEW p \in SlotRequests, Deletes(slotReq'[p], u) PROVE FALSE
        <5>1. p # r /\ slotReq'[p] = slotReq[p]
          BY <2>1, <2>6, <4>4 DEF Deletes
        <5>2. SlotInFlight(p) /\ SlotInFlight(r) /\ slotReq[p].seen.owner = u
          BY <2>6, <4>4, <5>1 DEF Deletes, SlotInFlight, S!InFlightPcs
        <5>3. u \in contended
          BY <3>1, <5>1, <5>2 DEF EInv, OneAtATime
        <5> QED
          BY <2>1, <5>3
      <4>5. ~Deleting(u)'
        BY <4>4 DEF Deleting
      <4>6. u \notin emergency'
        BY <2>6, <3>1
      <4> QED
        BY <1>1, <4>1, <4>2, <4>3, <4>5, <4>6, BooksBalance
    <3>2. CASE q.ec # "delete" \/ u # l
      BY <2>2, <2>6, <3>2 DEF Deletes
    <3> QED
      BY <3>1, <3>2
  <2>7. CASE /\ q.pc \in {"refund_student", "refund_instructor", "commit_cancel"}
             /\ n.pc \in {"cancelled", "failed"} /\ n.ec = q.ec
             /\ emergency' = IF q.ec = "create" THEN emergency \cup {l} ELSE emergency
    <3>1. CASE q.ec = "create" /\ u = l
      <4>1. FreeCoachings(u)' = FreeCoachings(u)
        BY <2>1, <2>7 DEF FreeCoachings
      <4>2. r \notin WebinarRequests
        BY EventsAssumption
      <4>3. r \notin Grants(u) /\ Grants(u)' = Grants(u) \cup {r}
        BY <2>1, <2>7, <3>1, <4>2 DEF Grants, SlotReqOK
      <4> QED
        BY <1>1, <4>1, <4>3, BooksBalance
    <3>2. CASE q.ec # "create" \/ u # l
      BY <2>2, <2>7, <3>2 DEF Deletes
    <3> QED
      BY <3>1, <3>2
  <2> QED
    BY <1>3, <2>3, <2>4, <2>5, <2>6, <2>7 DEF SlotGoes
<1>4. ASSUME NEW r \in WebinarRequests, WebinarGoes(r) PROVE Books(u)'
  <2> DEFINE q == webinarReq[r]
             n == webinarReq'[r]
             l == n.seen.creator
  <2>1. /\ slotReq' = slotReq /\ q.pc # "cancelled"
        /\ \A p \in WebinarRequests \ {r} : webinarReq'[p] = webinarReq[p]
    BY <1>4 DEF WebinarGoes, OnlyWebinar
  <2>2. FreeCoachings(u)' = FreeCoachings(u) /\ Deleting(u)' = Deleting(u)
    BY <2>1 DEF FreeCoachings, Deleting, Deletes
  <2>3. CASE n.pc = "cancelled" /\ n.ec = "create" /\ u = l
    <3>1. r \notin SlotRequests
      BY EventsAssumption
    <3>2. r \notin Grants(u) /\ Grants(u)' = Grants(u) \cup {r}
      BY <2>1, <2>3, <3>1 DEF Grants
    <3> QED
      BY <1>1, <2>2, <3>2, BooksBalance
  <2>4. CASE ~(n.pc = "cancelled" /\ n.ec = "create" /\ u = l)
    <3>1. Grants(u)' = Grants(u)
      BY <2>1, <2>4 DEF Grants
    <3>2. u \in emergency' => u \in emergency
      BY <1>4, <2>4 DEF WebinarGoes
    <3> QED
      BY <1>1, <2>2, <3>1, <3>2, BooksBalance
  <2> QED
    BY <2>3, <2>4
<1>5. CASE OthersGo
  BY <1>1, <1>5, BooksBalance DEF OthersGo, FreeCoachings, Grants, Deleting, Deletes
<1>6. ASSUME Restarts PROVE Same
  <2>1. \A r \in SlotRequests :
          \/ slotReq'[r] = slotReq[r]
          \/ /\ SlotInFlight(r) /\ slotReq'[r].pc = "failed" /\ slotReq'[r].ec = "keep"
    BY <1>6 DEF Restarts
  <2>2. FreeCoachings(u)' = FreeCoachings(u)
    BY <2>1 DEF FreeCoachings, SlotInFlight, S!InFlightPcs
  <2>3. Grants(u)' = Grants(u)
    <3>1. \A r \in SlotRequests :
            slotReq'[r] # slotReq[r] => ~(slotReq[r].pc \in {"cancelled", "failed"})
                                        /\ slotReq'[r].ec # "create"
      BY <2>1 DEF SlotInFlight, S!InFlightPcs
    <3>2. \A r \in WebinarRequests :
            webinarReq'[r] # webinarReq[r] => webinarReq[r].pc # "cancelled"
                                              /\ webinarReq'[r].pc # "cancelled"
      BY <1>6 DEF Restarts
    <3> QED
      BY <3>1, <3>2 DEF Grants
  <2>4. Deleting(u)' => Deleting(u)
    BY <2>1 DEF Deleting, Deletes
  <2> QED
    BY <1>6, <2>2, <2>3, <2>4 DEF Restarts
<1> QED
  BY <1>1, <1>2, <1>3, <1>4, <1>5, <1>6, BooksBalance

-----------------------------------------------------------------------------
(***************************************************************************)
(* The theorems                                                            *)
(***************************************************************************)
\* At first nothing has been granted, and nothing is free.
LEMMA InitEInv == Init => EInv
<1> SUFFICES ASSUME Init PROVE EInv
  OBVIOUS
<1>1. /\ emergency = {} /\ contended = {}
      /\ slotReq = [r \in SlotRequests |-> S!IdleRequest]
      /\ webinarReq = [r \in WebinarRequests |-> W!Idle]
  BY DEF Init, S!Init, W!Init
<1>2. /\ \A r \in SlotRequests : slotReq[r].pc = "idle" /\ slotReq[r].ec = "keep"
      /\ \A r \in WebinarRequests : webinarReq[r].pc = "idle" /\ webinarReq[r].ec = "keep"
  BY <1>1 DEF S!IdleRequest, W!Idle
<1>3. SlotTable(slotReq) /\ WebinarTable(webinarReq)
  BY <1>1 DEF SlotTable, WebinarTable, S!IdleRequest, W!Idle
<1>4. (\A r \in SlotRequests : SlotReqOK(slotReq[r])) /\ OneAtATime
  BY <1>2 DEF SlotReqOK, OneAtATime, SlotInFlight, S!InFlightPcs
<1>5. FreeIsEarned
  BY <1>1, <1>2 DEF FreeIsEarned
<1>6. ASSUME NEW u PROVE Books(u)
  <2>1. FreeCoachings(u) = {} /\ Grants(u) = {} /\ ~Deleting(u) /\ u \notin emergency
    BY <1>1, <1>2 DEF FreeCoachings, Grants, Deleting, Deletes
  <2> QED
    BY <2>1, FS_EmptySet DEF Books
<1> QED
  BY <1>3, <1>4, <1>5, <1>6 DEF EInv

\* No step of either side, of the cleanup or of a restart breaks it.
LEMMA NextEInv == EInv /\ [Next]_vars => EInv'
<1> SUFFICES ASSUME EInv, [Next]_vars PROVE EInv'
  OBVIOUS
<1>1. \/ \E r \in SlotRequests : SlotStarts(r) \/ SlotGoes(r)
      \/ \E r \in WebinarRequests : WebinarGoes(r)
      \/ OthersGo \/ Restarts
  BY Cases DEF EInv
<1>2. \A u \in Users \ contended' : Books(u)'
  BY <1>1, BooksStep
<1> QED
  BY <1>1, <1>2, RequestsStep, EarnedStep DEF EInv

THEOREM Balanced == Spec => []EInv
BY InitEInv, NextEInv, PTL DEF Spec

\* Coachings and webinars are free, and rows of emergency cancellations stand
\* for it, only where an event of that instructor was cancelled: a coaching by
\* the instructor, a webinar by the instructor or an administrator; whichever
\* kind of event the cancelled and the free one are, however the requests, the
\* cleanup, failures and restarts fall.
THEOREM FreeComesFromGrants == Spec => []FreeIsEarned
<1>1. EInv => FreeIsEarned
  BY DEF EInv
<1> QED
  BY <1>1, Balanced, PTL

\* While the slots of an instructor are worked on by one request at a time,
\* no more coachings are free than events were cancelled, the rows that wait
\* for the next booking included, although webinars use and grant the same
\* rows and the cleanup takes them away.
THEOREM OneFreeEach == Spec => []OneFreeCoachingPerGrant
<1>1. ASSUME EInv PROVE OneFreeCoachingPerGrant
  <2>1. ASSUME NEW u \in Users \ contended
        PROVE  Cardinality(FreeCoachings(u)) + Cardinality({u} \cap emergency)
                 <= Cardinality(Grants(u))
    <3>1. Books(u) /\ Cardinality(FreeCoachings(u)) \in Nat /\ Cardinality(Grants(u)) \in Nat
      BY <1>1, <2>1, FS_CardinalityType DEF EInv, Books
    <3>2. CASE u \in emergency
      <4>1. {u} \cap emergency = {u} /\ Cardinality({u}) = 1
        BY <3>2, FS_Singleton
      <4> QED
        BY <3>1, <3>2, <4>1 DEF Books
    <3>3. CASE u \notin emergency
      <4>1. {u} \cap emergency = {} /\ Cardinality({}) = 0
        BY <3>3, FS_EmptySet
      <4> QED
        BY <3>1, <4>1 DEF Books
    <3> QED
      BY <3>2, <3>3
  <2> QED
    BY <2>1 DEF OneFreeCoachingPerGrant
<1> QED
  BY <1>1, Balanced, PTL
=============================================================================
