------------------------------ MODULE Webinars ------------------------------
(***************************************************************************)
(* Webinars: an instructor announces one with a price and a number of      *)
(* seats, users register and pay, the instructor may change it, both may   *)
(* cancel, and the cleanup task pays the instructor of a webinar that is   *)
(* over, opens a rating for every participant and removes it.              *)
(*                                                                         *)
(* Handlers are cut at their awaits as in CoachingSlots: what is read      *)
(* before a call to another service is used after it, and the writes of a  *)
(* request are stored together when its session commits, also when the     *)
(* request was ended by an exception that is no HTTPException.             *)
(***************************************************************************)
EXTENDS Fees, FiniteSets, FiniteSetsExt

CONSTANTS
  Users, Admins, Lecturers,   \* Lecturers have the level for create_webinar
  Webinars,                   \* events_webinars.id
  Prices, Seats,              \* prices and max_participants that are asked for
  Limit,                      \* user -> the most that price * seats may be under
                              \* the user's rating, None when unlimited
  Starts,                     \* bound: the phases that dates are set to
  Requests, MaxFailures, None, NoRow

ASSUME WebinarAssumption ==
  /\ Admins \subseteq Users /\ Lecturers \subseteq Users
  /\ Prices \subseteq Nat /\ Seats \subseteq Nat \ {0}
  /\ Limit \in [Users -> Nat \cup {None}]
  /\ Starts \subseteq {Week, Days, Soon}
  /\ MaxFailures \in Nat
  /\ None \notin Users \cup Webinars \cup Requests \cup Nat

Row == [creator : Users, price : Nat, seats : Nat]

ASSUME NoRowAssumption == NoRow \notin Row

VARIABLES
  webinar,     \* events_webinars
  joined,      \* events_webinar_participants, by webinar
  emergency,   \* events_emergency_cancel
  ratings,     \* <<webinar, user>> -> rows of events_lecturer_rating opened
  phase,
  req, cleaner,
  payouts,     \* webinar -> payouts the shop was asked for
  balance,     \* webinar -> coins taken from users minus coins given out
  irregular,   \* webinars that overlapping requests worked on, that were
               \* repriced or made smaller under their participants, or that
               \* someone joined for free
  failures

db    == <<webinar, joined, emergency, ratings>>
ghost == <<payouts, balance, irregular>>
vars  == <<db, phase, req, cleaner, ghost, failures>>

InFlightPcs == {"find_emergency", "spend", "commit_join", "refund_user",
                "refund_creator", "commit_leave", "charge_all", "find_grant",
                "commit_cancel", "check_price", "commit_update"}
Final == {"joined", "left", "cancelled", "updated", "rejected", "failed"}

Request == [pc : {"idle"} \cup InFlightPcs \cup Final,
            user : Users \cup {None}, webinar : Webinars \cup {None},
            seen : Row \cup {NoRow}, who : SUBSET Users, at : Phases,
            left : SUBSET Users,        \* participants still to be charged
            ec : {"keep", "create", "free"},
            new : Row \cup {NoRow},     \* the row after an update
            move : Phases,              \* and the phase its new dates put it in
            charged : Nat]

Idle == [pc |-> "idle", user |-> None, webinar |-> None, seen |-> NoRow,
         who |-> {}, at |-> Unborn, left |-> {}, ec |-> "keep",
         new |-> NoRow, move |-> Unborn, charged |-> 0]

Cleaner == [pc : {"idle", "next", "rate", "pay", "xp"},
            rows : [Webinars -> Row \cup {NoRow}],
            who : [Webinars -> SUBSET Users],
            cur : Webinars \cup {None}, left : SUBSET Users,
            rated : SUBSET (Webinars \X Users), \* pending rows, deletions
            spent : SUBSET Users, dels : SUBSET Webinars]

IdleCleaner == [pc |-> "idle", rows |-> [w \in Webinars |-> NoRow],
                who |-> [w \in Webinars |-> {}], cur |-> None, left |-> {},
                rated |-> {}, spent |-> {}, dels |-> {}]

Init == /\ webinar = [w \in Webinars |-> NoRow]
        /\ joined = [w \in Webinars |-> {}]
        /\ emergency = {}
        /\ ratings = [x \in Webinars \X Users |-> 0]
        /\ phase = [w \in Webinars |-> Unborn]
        /\ req = [r \in Requests |-> Idle]
        /\ cleaner = IdleCleaner
        /\ payouts = [w \in Webinars |-> 0]
        /\ balance = [w \in Webinars |-> 0]
        /\ irregular = {}
        /\ failures = 0

InFlight(r) == req[r].pc \in InFlightPcs
Fail == failures < MaxFailures /\ failures' = failures + 1

\* Request r has read webinar w and its participants and becomes new.
Start(r, u, w, new) ==
  /\ req[r].pc = "idle"
  /\ req' = [req EXCEPT ![r] =
       [new EXCEPT !.user = u, !.webinar = w, !.seen = webinar[w],
                   !.who = joined[w], !.at = phase[w]]]
  /\ irregular' = IF \/ \E q \in Requests : InFlight(q) /\ req[q].webinar = w
                     \/ cleaner.rows[w] # NoRow
                  THEN irregular \cup {w} ELSE irregular
  /\ UNCHANGED <<db, phase, cleaner, payouts, balance, failures>>

\* Request r goes on and changes nothing but itself.
Become(r, new) == /\ req' = [req EXCEPT ![r] = new]
                  /\ UNCHANGED <<db, phase, cleaner, ghost, failures>>

Earn(w, coins) == balance' = [balance EXCEPT ![w] = @ + coins]

Affordable(u, row) ==
  u \in Admins \/ Limit[u] = None \/ row.price * row.seats <= Limit[u]

(***************************************************************************)
(* create_webinar.  It only inserts; its awaits are not told apart.        *)
(***************************************************************************)
CreateWebinar(u, w, price, seats, ph) ==
  LET row == [creator |-> u, price |-> price, seats |-> seats] IN
  /\ phase[w] = Unborn /\ ph \in Starts
  /\ u \in Admins \cup Lecturers
  /\ Affordable(u, row)
  /\ webinar' = [webinar EXCEPT ![w] = row]
  /\ phase' = [phase EXCEPT ![w] = ph]
  /\ UNCHANGED <<joined, emergency, ratings, req, cleaner, ghost, failures>>

(***************************************************************************)
(* register_for_webinar                                                    *)
(***************************************************************************)
HasPlace(w) == Cardinality(joined[w]) <= webinar[w].seats
HasRoom(w) == Cardinality(joined[w]) < webinar[w].seats

Register(r, u, w) ==
  /\ webinar[w] # NoRow
  /\ phase[w] \in {Week, Days, Soon}
  /\ u # webinar[w].creator /\ u \notin joined[w]
  /\ HasRoom(w)
  /\ Start(r, u, w, [Idle EXCEPT !.pc = "find_emergency"])

RegisterFindEmergency(r) ==
  /\ req[r].pc = "find_emergency"
  /\ Become(r, IF req[r].seen.creator \in emergency
               THEN [req[r] EXCEPT !.pc = "commit_join", !.ec = "free"]
               ELSE [req[r] EXCEPT !.pc = "spend"])

\* The shop takes the coins, refuses (412, nothing written), or the call
\* raises before or after they were taken.
SpendIgnoringAnswer(r) ==
  /\ req[r].pc = "spend"
  /\ \E c \in {0, req[r].seen.price} :
       /\ req' = [req EXCEPT ![r].pc = "commit_join", ![r].charged = c]
       /\ Earn(req[r].webinar, c)
  /\ UNCHANGED <<db, phase, cleaner, payouts, irregular, failures>>

RegisterSpend(r) ==
  /\ req[r].pc = "spend"
  /\ \/ /\ req' = [req EXCEPT ![r].pc = "commit_join", ![r].charged = req[r].seen.price]
        /\ Earn(req[r].webinar, req[r].seen.price)
     \/ /\ req' = [req EXCEPT ![r].pc = "rejected"]
        /\ UNCHANGED balance
  /\ UNCHANGED <<db, phase, cleaner, payouts, irregular, failures>>

RegisterSpendFails(r) ==
  /\ req[r].pc = "spend"
  /\ \E c \in {0, req[r].seen.price} :
       /\ req' = [req EXCEPT ![r].pc = "failed", ![r].charged = c]
       /\ Earn(req[r].webinar, c)
  /\ Fail
  /\ UNCHANGED <<db, phase, cleaner, payouts, irregular>>

\* The INSERT breaks the foreign key when the webinar is gone and the primary
\* key when the user has joined since: the coins are not given back.
RegisterCommit(r) ==
  LET w == req[r].webinar u == req[r].user IN
  /\ req[r].pc = "commit_join"
  /\ IF webinar[w] = NoRow \/ u \in joined[w]
     THEN Become(r, [req[r] EXCEPT !.pc = "failed"])
     ELSE /\ req' = [req EXCEPT ![r].pc = "joined"]
          /\ joined' = [joined EXCEPT ![w] = @ \cup {u}]
          /\ irregular' = IF req[r].ec = "free" THEN irregular \cup {w} ELSE irregular
          /\ UNCHANGED <<webinar, emergency, ratings, phase, cleaner, payouts, balance, failures>>

(***************************************************************************)
(* cancel_event -> _try_cancel_webinar                                     *)
(***************************************************************************)
\* A participant leaves; the price that counts is the webinar's, as read.
Leave(r, u, w) ==
  /\ webinar[w] # NoRow
  /\ u \in joined[w]
  /\ MayCancelAsStudent(phase[w])
  /\ Start(r, u, w, [Idle EXCEPT !.pc = "refund_user"])

UserRefund(q) == StudentRefund(q.at, q.seen.price)
\* int(webinar.price * (1 - settings.event_fee) // 2)
CreatorCompensation(q) ==
  IF q.at = Week THEN 0 ELSE (q.seen.price * (100 - FeePercent)) \div 200

LeaveRefund(r) ==
  /\ \/ /\ req[r].pc = "refund_user"
        /\ req' = [req EXCEPT ![r].pc = "refund_creator"]
        /\ Earn(req[r].webinar, -UserRefund(req[r]))
     \/ /\ req[r].pc = "refund_creator"
        /\ req' = [req EXCEPT ![r].pc = "commit_leave"]
        /\ Earn(req[r].webinar, -CreatorCompensation(req[r]))
  /\ UNCHANGED <<db, phase, cleaner, payouts, irregular, failures>>

LeaveRefundFails(r) ==
  /\ \/ req[r].pc = "refund_user" /\ UserRefund(req[r]) > 0
        /\ \E c \in {0, UserRefund(req[r])} : Earn(req[r].webinar, -c)
     \/ req[r].pc = "refund_creator" /\ CreatorCompensation(req[r]) > 0
        /\ \E c \in {0, CreatorCompensation(req[r])} : Earn(req[r].webinar, -c)
  /\ req' = [req EXCEPT ![r].pc = "failed"]
  /\ Fail
  /\ UNCHANGED <<db, phase, cleaner, payouts, irregular>>

StillJoined(r) == joined
Unjoined(r) == [joined EXCEPT ![req[r].webinar] = @ \ {req[r].user}]

\* The DELETE of a row that is gone is a warning.
LeaveCommit(r) ==
  /\ req[r].pc = "commit_leave"
  /\ req' = [req EXCEPT ![r].pc = "left"]
  /\ joined' = Unjoined(r)
  /\ UNCHANGED <<webinar, emergency, ratings, phase, cleaner, ghost, failures>>

\* The instructor, or an administrator who does not take part, cancels the
\* webinar: every participant is asked for the price, not given it back.
CancelWebinar(r, u, w) ==
  /\ webinar[w] # NoRow
  /\ phase[w] \in {Week, Days, Soon}
  /\ u \notin joined[w]
  /\ u = webinar[w].creator \/ u \in Admins
  /\ Start(r, u, w, [Idle EXCEPT !.left = joined[w],
                       !.pc = IF joined[w] = {} THEN "commit_cancel" ELSE "charge_all"])

\* The shop takes the price or refuses; its answer is ignored.
CancelCharge(r) ==
  /\ req[r].pc = "charge_all"
  /\ \E u \in req[r].left, c \in {0, req[r].seen.price} :
       /\ req' = [req EXCEPT ![r].left = @ \ {u},
                             ![r].pc = IF req[r].left = {u} THEN "find_grant" ELSE @]
       /\ Earn(req[r].webinar, c)
  /\ UNCHANGED <<db, phase, cleaner, payouts, irregular, failures>>

CancelChargeFails(r) ==
  /\ req[r].pc = "charge_all"
  /\ \E c \in {0, req[r].seen.price} : Earn(req[r].webinar, c)
  /\ req' = [req EXCEPT ![r].pc = "failed"]
  /\ Fail
  /\ UNCHANGED <<db, phase, cleaner, payouts, irregular>>

\* EmergencyCancel.create(creator)
CancelFindGrant(r) ==
  /\ req[r].pc = "find_grant"
  /\ Become(r, [req[r] EXCEPT
       !.pc = "commit_cancel",
       !.ec = IF req[r].seen.creator \in emergency THEN "keep" ELSE "create"])

\* The participants that were read are deleted with the webinar; one that has
\* joined since refers to it still, and the DELETE breaks the foreign key.
NewcomersOf(w, who) == webinar[w] # NoRow /\ ~(joined[w] \subseteq who)
GrantConflict(r) == req[r].ec = "create" /\ req[r].seen.creator \in emergency

CancelCommit(r) ==
  LET w == req[r].webinar IN
  /\ req[r].pc = "commit_cancel"
  /\ IF NewcomersOf(w, req[r].who) \/ GrantConflict(r)
     THEN Become(r, [req[r] EXCEPT !.pc = "failed", !.ec = "keep"])
     ELSE /\ req' = [req EXCEPT ![r].pc = "cancelled"]
          /\ webinar' = [webinar EXCEPT ![w] = NoRow]
          /\ joined' = [joined EXCEPT ![w] = {}]
          /\ emergency' = IF req[r].ec = "create" THEN emergency \cup {req[r].seen.creator}
                          ELSE emergency
          /\ UNCHANGED <<ratings, phase, cleaner, ghost, failures>>

(***************************************************************************)
(* update_webinar.  A new start must lie ahead and keeps the duration; a   *)
(* new duration alone moves the end, over "now" or back.  When updates     *)
(* overlap, the model takes the dates of the last one.                     *)
(***************************************************************************)
Moves(ph) == {ph} \cup Starts
             \cup (IF ph \in {Running, Over} THEN {Running, Over} ELSE {})

UpdateWebinar(r, u, w, price, seats, ph) ==
  /\ webinar[w] # NoRow
  /\ u = webinar[w].creator \/ u \in Admins
  /\ ph \in Moves(phase[w])
  /\ Start(r, u, w, [Idle EXCEPT
       !.new = [webinar[w] EXCEPT !.price = price, !.seats = seats],
       !.move = ph,
       !.pc = IF u \in Admins THEN "commit_update" ELSE "check_price"])

UpdateCheck(r) ==
  /\ req[r].pc = "check_price"
  /\ Become(r, [req[r] EXCEPT !.pc = IF Affordable(req[r].user, req[r].new)
                                     THEN "commit_update" ELSE "rejected"])

\* The row has its new values already when the price is checked, and only the
\* columns that differ from what was read are written.
Updated(r) ==
  LET q == req[r] IN
  [webinar EXCEPT
     ![q.webinar].price = IF q.new.price = q.seen.price THEN @ ELSE q.new.price,
     ![q.webinar].seats = IF q.new.seats = q.seen.seats THEN @ ELSE q.new.seats]

Upsets(w, row) == \/ joined[w] # {} /\ row.price # webinar[w].price
                  \/ row.seats < Cardinality(joined[w])

UpdateStore(r, pc) ==
  LET w == req[r].webinar IN
  IF webinar[w] = NoRow
  THEN /\ req' = [req EXCEPT ![r].pc = "failed"]
       /\ UNCHANGED <<webinar, phase, irregular>>
  ELSE /\ req' = [req EXCEPT ![r].pc = pc]
       /\ webinar' = Updated(r)
       /\ phase' = [phase EXCEPT ![w] = IF req[r].move = req[r].at THEN @ ELSE req[r].move]
       /\ irregular' = IF Upsets(w, webinar'[w]) THEN irregular \cup {w} ELSE irregular

UpdateCommit(r) ==
  /\ req[r].pc = "commit_update"
  /\ UpdateStore(r, "updated")
  /\ UNCHANGED <<joined, emergency, ratings, cleaner, payouts, balance, failures>>

\* The rating lookup raises: the changes are stored, unchecked.
UpdateCheckFails(r) ==
  /\ req[r].pc = "check_price"
  /\ Fail
  /\ UpdateStore(r, "failed")
  /\ UNCHANGED <<joined, emergency, ratings, cleaner, payouts, balance>>

(***************************************************************************)
(* Time, as in CoachingSlots.                                              *)
(***************************************************************************)
Tick(w) ==
  /\ phase[w] \in Week..Running
  /\ \A r \in Requests : InFlight(r) /\ req[r].webinar = w => req[r].at = phase[w]
  /\ phase' = [phase EXCEPT ![w] = @ + 1]
  /\ UNCHANGED <<db, req, cleaner, ghost, failures>>

(***************************************************************************)
(* clean_old_webinars                                                      *)
(***************************************************************************)
Ended == {w \in Webinars : phase[w] = Over /\ webinar[w] # NoRow}

CleanupBegin ==
  /\ cleaner.pc = "idle"
  /\ Ended # {}
  /\ cleaner' = [IdleCleaner EXCEPT
       !.pc = "next",
       !.rows = [w \in Webinars |-> IF w \in Ended THEN webinar[w] ELSE NoRow],
       !.who = [w \in Webinars |-> IF w \in Ended THEN joined[w] ELSE {}]]
  /\ irregular' = irregular \cup {w \in Ended : \E q \in Requests :
                                    InFlight(q) /\ req[q].webinar = w}
  /\ UNCHANGED <<db, phase, req, payouts, balance, failures>>

Todo == {w \in Webinars : cleaner.rows[w] # NoRow} \ cleaner.dels
Cur == cleaner.cur

Working(new) == /\ cleaner' = new
                /\ UNCHANGED <<db, phase, req, ghost, failures>>

CleanupTake(w) ==
  /\ cleaner.pc = "next"
  /\ w \in Todo
  /\ Working([cleaner EXCEPT !.cur = w, !.left = cleaner.who[w],
                !.pc = IF cleaner.who[w] = {} THEN "pay" ELSE "rate"])

\* LecturerRating.create, then the participant's xp.
CleanupRate(u) ==
  /\ cleaner.pc = "rate"
  /\ u \in cleaner.left
  /\ Working([cleaner EXCEPT !.rated = @ \cup {<<Cur, u>>}, !.left = @ \ {u},
                !.pc = IF cleaner.left = {u} THEN "pay" ELSE "rate"])

Payout == InstructorShare(Cardinality(cleaner.who[Cur]) * cleaner.rows[Cur].price)

CleanupPay ==
  /\ cleaner.pc = "pay"
  /\ cleaner' = [cleaner EXCEPT !.pc = "xp"]
  /\ payouts' = [payouts EXCEPT ![Cur] = @ + 1]
  /\ Earn(Cur, -Payout)
  /\ UNCHANGED <<db, phase, req, irregular, failures>>

\* EmergencyCancel.delete(creator) when there were participants
SpentNow == cleaner.spent \cup
  (IF cleaner.who[Cur] = {} THEN {} ELSE {cleaner.rows[Cur].creator} \cap emergency)

\* It, the lecturer's xp and db.delete(webinar).
CleanupXp ==
  /\ cleaner.pc = "xp"
  /\ Working([cleaner EXCEPT !.pc = "next", !.cur = None, !.spent = SpentNow,
                             !.dels = @ \cup {Cur}])

\* The commit: deletions, ratings and spent emergency rows together, or none
\* of them when a webinar has participants that were not read.
Conflict(dels) == \E w \in dels : NewcomersOf(w, cleaner.who[w])

OneMore(rated) == [x \in DOMAIN ratings |-> ratings[x] + IF x \in rated THEN 1 ELSE 0]

StoreNoDeletion(rated, spent, dels) ==
  ratings' = OneMore(rated) /\ UNCHANGED <<webinar, joined, emergency>>
StoreKeepingParticipants(rated, spent, dels) ==
  /\ webinar' = [w \in Webinars |-> IF w \in dels THEN NoRow ELSE webinar[w]]
  /\ emergency' = emergency \ spent
  /\ ratings' = OneMore(rated)
  /\ UNCHANGED joined

StoreAll(rated, spent, dels) ==
  /\ webinar' = [w \in Webinars |-> IF w \in dels THEN NoRow ELSE webinar[w]]
  /\ joined' = [w \in Webinars |-> IF w \in dels THEN {} ELSE joined[w]]
  /\ emergency' = emergency \ spent
  /\ ratings' = OneMore(rated)

Store(rated, spent, dels) ==
  IF Conflict(dels) THEN UNCHANGED db ELSE StoreAll(rated, spent, dels)

LoopEnds == [IdleCleaner EXCEPT !.pc = "ended"]
LoopGoesOn == IdleCleaner

\* A call raises, before or after it had its effect.  The session is committed
\* all the same, without the deletion of the webinar at hand.
DeletedWithCurrent == cleaner.dels \cup {Cur}
DeletedSoFar == cleaner.dels

CleanupCallFails ==
  /\ \/ /\ cleaner.pc = "rate"
        /\ \E u \in cleaner.left :
             Store(cleaner.rated \cup {<<Cur, u>>}, cleaner.spent, DeletedSoFar)
        /\ UNCHANGED <<payouts, balance>>
     \/ /\ cleaner.pc = "pay"
        /\ Store(cleaner.rated, cleaner.spent, DeletedSoFar)
        /\ \/ UNCHANGED <<payouts, balance>>
           \/ payouts' = [payouts EXCEPT ![Cur] = @ + 1] /\ Earn(Cur, -Payout)
     \/ /\ cleaner.pc = "xp"
        /\ Store(cleaner.rated, SpentNow, DeletedSoFar)
        /\ UNCHANGED <<payouts, balance>>
  /\ Fail
  /\ cleaner' = LoopGoesOn
  /\ UNCHANGED <<phase, req, irregular>>

\* A pass that lost its writes is counted as a failure.
CleanupCommit ==
  /\ cleaner.pc = "next" /\ Todo = {}
  /\ cleaner' = IdleCleaner
  /\ Store(cleaner.rated, cleaner.spent, cleaner.dels)
  /\ failures' = IF Conflict(cleaner.dels) THEN failures + 1 ELSE failures
  /\ UNCHANGED <<phase, req, ghost>>

\* The database refuses the commit.
CleanupCommitFails ==
  /\ cleaner.pc = "next" /\ Todo = {}
  /\ Fail
  /\ cleaner' = IdleCleaner
  /\ UNCHANGED <<db, phase, req, ghost>>

Crash ==
  /\ Fail
  /\ cleaner' = IdleCleaner
  /\ req' = [r \in Requests |->
               IF InFlight(r) THEN [req[r] EXCEPT !.pc = "failed", !.ec = "keep"]
               ELSE req[r]]
  /\ UNCHANGED <<db, phase, ghost>>

(***************************************************************************)
(* Specification                                                           *)
(***************************************************************************)
Announce == \E u \in Users, w \in Webinars, p \in Prices, n \in Seats, ph \in Phases :
              CreateWebinar(u, w, p, n, ph)

Arrive(r) ==
  \E u \in Users, w \in Webinars :
    \/ Register(r, u, w)
    \/ Leave(r, u, w)
    \/ CancelWebinar(r, u, w)
    \/ \E p \in Prices, n \in Seats, ph \in Phases : UpdateWebinar(r, u, w, p, n, ph)

Continue(r) ==
  \/ RegisterFindEmergency(r) \/ RegisterSpend(r) \/ RegisterSpendFails(r)
  \/ RegisterCommit(r)
  \/ LeaveRefund(r) \/ LeaveRefundFails(r) \/ LeaveCommit(r)
  \/ CancelCharge(r) \/ CancelChargeFails(r) \/ CancelFindGrant(r) \/ CancelCommit(r)
  \/ UpdateCheck(r) \/ UpdateCheckFails(r) \/ UpdateCommit(r)

Cleanup ==
  \/ CleanupBegin
  \/ \E w \in Webinars : CleanupTake(w)
  \/ \E u \in Users : CleanupRate(u)
  \/ CleanupPay \/ CleanupXp \/ CleanupCallFails
  \/ CleanupCommit \/ CleanupCommitFails

Next == \/ Announce
        \/ \E r \in Requests : Arrive(r)
        \/ \E r \in Requests : Continue(r)
        \/ \E w \in Webinars : Tick(w)
        \/ Cleanup
        \/ Crash

Spec == Init /\ [][Next]_vars

Fairness == /\ \A r \in Requests : WF_vars(Continue(r))
            /\ \A w \in Webinars : WF_vars(Tick(w))
            /\ WF_vars(Cleanup)

FairSpec == Spec /\ Fairness

(***************************************************************************)
(* Properties                                                              *)
(***************************************************************************)
\* Every variable has its type, and only a webinar that exists has
\* participants.
TypeOK ==
  /\ webinar \in [Webinars -> Row \cup {NoRow}]
  /\ joined \in [Webinars -> SUBSET Users]
  /\ \A w \in Webinars : webinar[w] = NoRow => joined[w] = {}
  /\ emergency \in SUBSET Users
  /\ ratings \in [Webinars \X Users -> Nat]
  /\ phase \in [Webinars -> Phases]
  /\ req \in [Requests -> Request]
  /\ cleaner \in Cleaner
  /\ payouts \in [Webinars -> Nat]
  /\ balance \in [Webinars -> Int]
  /\ irregular \in SUBSET Webinars
  /\ failures \in Nat

\* Every participant has registered in a request that charged the price it
\* saw, or that found an emergency_cancel row, which the instructor has only
\* after a webinar was cancelled on its participants.
RegistrationsBacked ==
  \A w \in Webinars : \A u \in joined[w] :
    \E r \in Requests :
      /\ req[r].pc = "joined" /\ req[r].user = u /\ req[r].webinar = w
      /\ \/ req[r].ec = "keep" /\ req[r].charged = req[r].seen.price
         \/ /\ req[r].ec = "free"
            /\ \E c \in Requests :
                 /\ req[c].pc = "cancelled" /\ req[c].ec = "create"
                 /\ req[c].seen.creator = webinar[w].creator

\* A webinar that one request at a time worked on, that was not repriced or
\* made smaller under its participants and that nobody joined for free has no
\* more participants than seats.
NotOverbooked ==
  \A w \in Webinars \ irregular :
    webinar[w] # NoRow => Cardinality(joined[w]) <= webinar[w].seats

\* Under the same condition, and as long as nothing failed, refunds and payout
\* together give out no more coins than the participants paid.
BalanceNeverNegative ==
  failures = 0 => \A w \in Webinars \ irregular : balance[w] >= 0

\* An instructor is paid, and a participant is asked for a rating, once for a
\* webinar and once more at most for every pass that failed.
SettledOnce ==
  /\ \A w \in Webinars : payouts[w] <= 1 + failures
  /\ \A x \in Webinars \X Users : ratings[x] <= 1 + failures

\* The cleanup removes a webinar only when its payout was asked for and every
\* participant, also one who joined meanwhile, has a rating to give.
RatedBeforeRemoved ==
  [][\A w \in Webinars :
       (cleaner' # cleaner /\ webinar[w] # NoRow /\ webinar'[w] = NoRow)
         => /\ payouts'[w] > 0
            /\ \A u \in joined[w] : ratings'[<<w, u>>] > 0]_vars

\* schemas/calendar.py:21, "The price of the event in morphcoins per
\* participant": all that is taken for a webinar is taken by registrations, one
\* price for each.
Purchases(w) == {r \in Requests : req[r].webinar = w /\ req[r].charged > 0}
PricePerParticipant ==
  \A w \in Webinars : balance[w] <= MapThenSumSet(LAMBDA r : req[r].charged, Purchases(w))

\* exceptions/webinars.py:33, "The user does not have the required rating to
\* set the price to this value.": a change that a user who is no administrator
\* makes leaves the webinar within what the user's rating allows.
PriceWithinRating ==
  [][\A r \in Requests :
       req'[r] # req[r] /\ req[r].pc \in {"check_price", "commit_update"}
       /\ webinar'[req[r].webinar] # webinar[req[r].webinar]
         => Affordable(req[r].user, webinar'[req[r].webinar])]_vars

\* Every webinar comes to an end: it is removed.
EveryWebinarEnds == \A w \in Webinars : webinar[w] # NoRow ~> webinar[w] = NoRow
============================================================================
