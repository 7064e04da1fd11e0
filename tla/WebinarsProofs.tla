-------------------------- MODULE WebinarsProofs --------------------------
(***************************************************************************)
(* The life of a webinar, for every set of users, webinars, prices and     *)
(* requests, any overlap and any number of failures.                       *)
(*                                                                         *)
(* What is stored depends on what was read long before: by requests        *)
(* (ReqOK) and by the cleanup (PassOK).  A webinar that is not irregular   *)
(* is still what the request at work on it has read (Alone), which is why  *)
(* its seats and its coins balance (BalanceOK).                            *)
(***************************************************************************)
EXTENDS WebinarCalendar, FiniteSetTheorems, TLAPS

(***************************************************************************)
(* The inductive invariant                                                 *)
(***************************************************************************)
RegisterPcs == {"find_emergency", "spend", "commit_join"}
LeavePcs    == {"refund_user", "refund_creator", "commit_leave"}
CancelPcs   == {"charge_all", "find_grant", "commit_cancel"}
UpdatePcs   == {"check_price", "commit_update"}

\* Request c has cancelled a webinar of l on its participants.
Granted(c, l) == req[c].pc = "cancelled" /\ req[c].ec = "create" /\ req[c].seen.creator = l
HasGrant(l) == \E c \in Requests : Granted(c, l)

\* What a registration knows of its coins.
Paid(q) == \/ q.ec = "keep" /\ q.charged = q.seen.price
           \/ q.ec = "free" /\ HasGrant(q.seen.creator)

\* What request r has read, and what it is going to write.
ReqOK(r) ==
  LET q == req[r] IN
  q.pc # "idle" =>
    /\ q.user \in Users /\ q.webinar \in Webinars /\ q.seen \in Row
    /\ IsFiniteSet(q.who)
    /\ phase[q.webinar] # Unborn
    /\ webinar[q.webinar] # NoRow => webinar[q.webinar].creator = q.seen.creator
    /\ q.pc \in RegisterPcs => q.user \notin q.who /\ Cardinality(q.who) < q.seen.seats
    /\ q.pc \in {"find_emergency", "spend"} => q.ec = "keep"
    /\ q.pc \in {"commit_join", "joined"} => Paid(q)
    /\ q.pc \in LeavePcs => q.user \in q.who /\ q.at \in {Week, Days}
    /\ q.pc \in UpdatePcs => /\ q.new \in Row /\ q.new.creator = q.seen.creator
                             /\ q.move # Unborn

\* Emergency rows come from cancellations, participants from registrations;
\* nobody stops taking part but by leaving.
JoinedOK ==
  /\ \A l \in emergency : HasGrant(l)
  /\ \A w \in Webinars :
       /\ IsFiniteSet(joined[w])
       /\ \A u \in joined[w] : \E r \in Requests :
            req[r].pc = "joined" /\ req[r].user = u /\ req[r].webinar = w
  /\ \A r \in Requests :
       req[r].pc = "joined" /\ webinar[req[r].webinar] # NoRow =>
         \/ req[r].user \in joined[req[r].webinar]
         \/ \E q \in Requests : /\ req[q].pc = "left" /\ req[q].user = req[r].user
                                /\ req[q].webinar = req[r].webinar

\* The cleanup has read webinar w, or the pass is done with its payout.
Selected(w) == cleaner.rows[w] # NoRow
PaidNow(w) == w \in cleaner.dels \/ (cleaner.pc = "xp" /\ cleaner.cur = w)

\* The pass of the cleanup: what it has read, rated and paid.
PassOK ==
  /\ cleaner.pc = "idle" => cleaner = IdleCleaner
  /\ cleaner.pc \in {"rate", "pay", "xp"} => cleaner.cur \in Todo
  /\ \A w \in cleaner.dels : Selected(w)
  /\ \A w \in Webinars : IsFiniteSet(cleaner.who[w])
  /\ \A x \in cleaner.rated : Selected(x[1])
  /\ cleaner.pc = "rate" => /\ cleaner.left # {}
                            /\ \A u \in cleaner.who[Cur] \ cleaner.left : <<Cur, u>> \in cleaner.rated
  /\ \A w \in Webinars : PaidNow(w) \/ (cleaner.pc = "pay" /\ cleaner.cur = w) =>
       \A u \in cleaner.who[w] : <<w, u>> \in cleaner.rated
  /\ \A w \in Webinars : PaidNow(w) => payouts[w] > 0

\* How often webinar w was settled: a pass that comes to its end removes it.
SettledAt(w) ==
  /\ payouts[w] <= 1 + failures
  /\ \A u \in Users : ratings[<<w, u>>] <= 1 + failures
  /\ webinar[w] # NoRow \/ Selected(w) =>
       /\ phase[w] # Unborn
       /\ ~PaidNow(w) => payouts[w] <= failures
       /\ \A u \in Users : ratings[<<w, u>>] <= failures
  /\ phase[w] = Unborn => /\ payouts[w] = 0 /\ balance[w] = 0
                          /\ \A u \in Users : ratings[<<w, u>>] = 0
SettledOK == \A w \in Webinars : SettledAt(w)

\* Request r is at work on webinar w.
At(r, w) == InFlight(r) /\ req[r].webinar = w

\* A webinar that is not irregular is worked on by one request, or by the
\* cleanup, and is what they have read.
Alone ==
  \A w \in Webinars \ irregular :
    /\ \A r, q \in Requests : r # q => ~(At(r, w) /\ At(q, w))
    /\ \A r \in Requests : At(r, w) =>
         ~Selected(w) /\ webinar[w] = req[r].seen /\ joined[w] = req[r].who
    /\ Selected(w) => webinar[w] = cleaner.rows[w] /\ joined[w] = cleaner.who[w]

\* The coins that are still there for webinar w, and what the request at work
\* on it has taken or given out in advance.
Owed(w) == IF webinar[w] = NoRow \/ PaidNow(w) THEN 0
           ELSE Cardinality(joined[w]) * webinar[w].price
Pending(q) == IF q.pc = "commit_join" /\ q.ec = "keep" THEN q.charged
              ELSE IF q.pc = "refund_creator" THEN -UserRefund(q)
              ELSE IF q.pc = "commit_leave" THEN -UserRefund(q) - CreatorCompensation(q)
              ELSE 0
BalanceOK ==
  failures = 0 => \A w \in Webinars \ irregular :
    /\ \A r \in Requests : At(r, w) => balance[w] >= Owed(w) + Pending(req[r])
    /\ (\A r \in Requests : ~At(r, w)) => balance[w] >= Owed(w)

IInv == /\ TypeOK /\ \A r \in Requests : ReqOK(r)
        /\ JoinedOK /\ PassOK /\ SettledOK /\ Alone /\ NotOverbooked /\ BalanceOK

\* Initially there are no webinars, and nobody works on any.
LEMMA InitIInv == Init => IInv
<1> SUFFICES ASSUME Init PROVE IInv
  OBVIOUS
<1> USE WebinarAssumption, NoRowAssumption
<1>a. /\ webinar = [w \in Webinars |-> NoRow] /\ joined = [w \in Webinars |-> {}]
      /\ emergency = {} /\ ratings = [x \in Webinars \X Users |-> 0]
      /\ phase = [w \in Webinars |-> Unborn] /\ req = [r \in Requests |-> Idle]
      /\ cleaner = IdleCleaner /\ payouts = [w \in Webinars |-> 0]
      /\ balance = [w \in Webinars |-> 0] /\ irregular = {} /\ failures = 0
  BY DEF Init
<1>b. /\ \A r \in Requests : req[r] = Idle
      /\ \A w \in Webinars : /\ webinar[w] = NoRow /\ joined[w] = {} /\ ~Selected(w) /\ ~PaidNow(w)
                             /\ payouts[w] = 0 /\ balance[w] = 0
                             /\ cleaner.who[w] = {}
                             /\ \A u \in Users : ratings[<<w, u>>] = 0
  BY <1>a DEF Selected, PaidNow, IdleCleaner
<1>c. IsFiniteSet({}) /\ Cardinality({}) = 0
  BY FS_EmptySet
<1>1. TypeOK
  <2>1. Idle \in Request
    BY DEF Idle, Request, Phases, Unborn, Over
  <2>2. IdleCleaner \in Cleaner
    BY DEF IdleCleaner, Cleaner
  <2> QED
    BY <1>a, <2>1, <2>2 DEF TypeOK, Phases, Unborn, Over
<1>2. \A r \in Requests : ReqOK(r)
  BY <1>b DEF ReqOK, Idle
<1>3. JoinedOK
  BY <1>a, <1>b, <1>c DEF JoinedOK, Idle
<1>4. PassOK
  BY <1>a, <1>b, <1>c DEF PassOK, IdleCleaner
<1>5. SettledOK
  BY <1>a, <1>b DEF SettledOK, SettledAt
<1>6. \A r \in Requests, w \in Webinars : ~At(r, w)
  BY <1>b DEF At, InFlight, InFlightPcs, Idle
<1>7. Alone
  BY <1>b, <1>6 DEF Alone
<1>8. NotOverbooked /\ BalanceOK
  BY <1>b, <1>6 DEF NotOverbooked, BalanceOK, Owed
<1> QED
  BY <1>1, <1>2, <1>3, <1>4, <1>5, <1>7, <1>8 DEF IInv

-----------------------------------------------------------------------------
(***************************************************************************)
(* The steps                                                               *)
(***************************************************************************)
\* Only request r moves.
Only(r) == /\ req' = [req EXCEPT ![r] = req'[r]] /\ req'[r] \in Request
           /\ \A p \in Requests \ {r} : req'[p] = req[p]

\* A request reads the webinar it is going to work on.
Started(r) ==
  LET n == req'[r] w == n.webinar IN
  /\ Only(r) /\ req[r].pc = "idle"
  /\ n.user \in Users /\ w \in Webinars
  /\ webinar[w] # NoRow /\ n.seen = webinar[w] /\ n.who = joined[w] /\ n.at = phase[w]
  /\ \/ /\ n.pc = "find_emergency" /\ n.ec = "keep"
        /\ n.user \notin n.who /\ Cardinality(n.who) < n.seen.seats
     \/ n.pc = "refund_user" /\ n.user \in n.who /\ n.at \in {Week, Days}
     \/ n.pc \in {"charge_all", "commit_cancel"}
     \/ /\ n.pc \in UpdatePcs /\ n.new \in Row /\ n.new.creator = n.seen.creator
        /\ n.move # Unborn
  /\ irregular' = IF (\E q \in Requests : At(q, w)) \/ Selected(w)
                  THEN irregular \cup {w} ELSE irregular
  /\ UNCHANGED <<db, phase, cleaner, payouts, balance, failures>>

\* What an arriving request does.
LEMMA ArriveStarts ==
  ASSUME IInv, NEW r \in Requests, Arrive(r)
  PROVE  Started(r)
<1> USE WebinarAssumption, NoRowAssumption
<1>a. /\ webinar \in [Webinars -> Row \cup {NoRow}] /\ joined \in [Webinars -> SUBSET Users]
      /\ phase \in [Webinars -> Phases] /\ req \in [Requests -> Request]
      /\ \A w \in Webinars : webinar[w] # NoRow => phase[w] # Unborn
  BY DEF IInv, TypeOK, SettledOK, SettledAt
<1>b. /\ Idle \in Request /\ Idle.pc = "idle" /\ Idle.ec = "keep"
  BY DEF Idle, Request, Phases, Unborn, Over
<1>1. ASSUME NEW u \in Users, NEW w \in Webinars, NEW base \in Request,
             webinar[w] # NoRow, Start(r, u, w, base)
      PROVE  LET n == req'[r] IN
             /\ Only(r) /\ req[r].pc = "idle"
             /\ n.user = u /\ n.webinar = w /\ n.seen = webinar[w] /\ n.who = joined[w]
             /\ n.at = phase[w] /\ n.pc = base.pc /\ n.ec = base.ec /\ n.left = base.left
             /\ n.new = base.new /\ n.move = base.move
             /\ irregular' = IF (\E q \in Requests : At(q, w)) \/ Selected(w)
                             THEN irregular \cup {w} ELSE irregular
             /\ UNCHANGED <<db, phase, cleaner, payouts, balance, failures>>
  <2> DEFINE n == [base EXCEPT !.user = u, !.webinar = w, !.seen = webinar[w],
                                !.who = joined[w], !.at = phase[w]]
  <2>1. /\ n \in Request
        /\ n.user = u /\ n.webinar = w /\ n.seen = webinar[w] /\ n.who = joined[w]
        /\ n.at = phase[w] /\ n.pc = base.pc /\ n.ec = base.ec /\ n.left = base.left
        /\ n.new = base.new /\ n.move = base.move
    BY <1>a DEF Request
  <2>2. req' = [req EXCEPT ![r] = n] /\ req[r].pc = "idle"
    BY <1>1 DEF Start
  <2>3. /\ irregular' = IF (\E q \in Requests : At(q, w)) \/ Selected(w)
                        THEN irregular \cup {w} ELSE irregular
        /\ UNCHANGED <<db, phase, cleaner, payouts, balance, failures>>
    BY <1>1 DEF Start, At, Selected
  <2> HIDE DEF n
  <2>4. req'[r] = n /\ \A p \in Requests \ {r} : req'[p] = req[p]
    BY <1>a, <2>2
  <2> QED
    BY <2>1, <2>2, <2>3, <2>4 DEF Only
<1>2. ASSUME NEW u \in Users, NEW w \in Webinars, Register(r, u, w) PROVE Started(r)
  <2> DEFINE base == [Idle EXCEPT !.pc = "find_emergency"]
  <2>1. /\ base \in Request /\ base.pc = "find_emergency" /\ base.ec = "keep"
    BY <1>b DEF Request, InFlightPcs, Idle
  <2>2. /\ Start(r, u, w, base) /\ webinar[w] # NoRow /\ u \notin joined[w]
        /\ Cardinality(joined[w]) < webinar[w].seats
    BY <1>2 DEF Register, HasRoom
  <2> HIDE DEF base
  <2> QED
    BY <1>1, <2>1, <2>2 DEF Started
<1>3. ASSUME NEW u \in Users, NEW w \in Webinars, Leave(r, u, w) PROVE Started(r)
  <2> DEFINE base == [Idle EXCEPT !.pc = "refund_user"]
  <2>1. /\ base \in Request /\ base.pc = "refund_user"
    BY <1>b DEF Request, InFlightPcs, Idle
  <2>2. /\ Start(r, u, w, base) /\ webinar[w] # NoRow /\ u \in joined[w]
        /\ phase[w] \in {Week, Days}
    BY <1>3 DEF Leave, MayCancelAsStudent
  <2> HIDE DEF base
  <2> QED
    BY <1>1, <2>1, <2>2 DEF Started
<1>4. ASSUME NEW u \in Users, NEW w \in Webinars, CancelWebinar(r, u, w) PROVE Started(r)
  <2> DEFINE base == [Idle EXCEPT !.left = joined[w],
                       !.pc = IF joined[w] = {} THEN "commit_cancel" ELSE "charge_all"]
  <2>1. /\ base \in Request /\ base.pc \in {"charge_all", "commit_cancel"}
    BY <1>a, <1>b DEF Request, InFlightPcs, Idle
  <2>2. Start(r, u, w, base) /\ webinar[w] # NoRow
    BY <1>4 DEF CancelWebinar
  <2> HIDE DEF base
  <2> QED
    BY <1>1, <2>1, <2>2 DEF Started
<1>5. ASSUME NEW u \in Users, NEW w \in Webinars, NEW p \in Prices, NEW k \in Seats,
             NEW ph \in Phases, UpdateWebinar(r, u, w, p, k, ph)
      PROVE  Started(r)
  <2> DEFINE row == [webinar[w] EXCEPT !.price = p, !.seats = k]
             pc == IF u \in Admins THEN "commit_update" ELSE "check_price"
             base == [Idle EXCEPT !.new = row, !.move = ph, !.pc = pc]
  <2>1. Start(r, u, w, base) /\ webinar[w] # NoRow /\ ph \in Moves(phase[w])
    BY <1>5 DEF UpdateWebinar
  <2>2. webinar[w] \in Row /\ row \in Row /\ row.creator = webinar[w].creator
    BY <1>a, <2>1 DEF Row
  <2>3. ph # Unborn
    BY <1>a, <2>1 DEF Moves, Week, Days, Soon, Running, Over, Unborn
  <2>4. pc \in UpdatePcs
    BY DEF UpdatePcs
  <2> HIDE DEF row, pc
  <2>5. base \in Request /\ base.pc = pc /\ base.new = row /\ base.move = ph
    BY <1>b, <2>2, <2>4 DEF Request, InFlightPcs, Idle, UpdatePcs
  <2> HIDE DEF base
  <2> QED
    BY <1>1, <2>1, <2>2, <2>3, <2>4, <2>5 DEF Started
<1> QED
  BY <1>2, <1>3, <1>4, <1>5 DEF Arrive

\* What a request keeps of itself while it goes on.
Same(q, n) == /\ n.user = q.user /\ n.webinar = q.webinar /\ n.seen = q.seen /\ n.who = q.who
              /\ n.at = q.at /\ n.new = q.new /\ n.move = q.move

\* A request that asks another service, or looks something up, as it does
\* when nothing raises.
Asks(q, n, c) ==
  \/ /\ q.pc = "find_emergency" /\ n.pc = "spend" /\ n.ec = q.ec /\ c = 0
  \/ /\ q.pc = "find_emergency" /\ n.pc = "commit_join" /\ n.ec = "free" /\ c = 0
     /\ q.seen.creator \in emergency
  \/ /\ q.pc = "spend" /\ n.pc = "commit_join" /\ n.ec = q.ec
     /\ n.charged = q.seen.price /\ c = q.seen.price
  \/ /\ q.pc = "refund_user" /\ n.pc = "refund_creator" /\ c = -UserRefund(q)
  \/ /\ q.pc = "refund_creator" /\ n.pc = "commit_leave" /\ c = -CreatorCompensation(q)
  \/ /\ q.pc \in CancelPcs /\ n.pc \in CancelPcs /\ c \in Nat
  \/ /\ q.pc = "check_price" /\ n.pc = "commit_update" /\ c = 0
  \/ /\ q.pc \notin LeavePcs /\ n.pc \in {"rejected", "failed"} /\ c = 0

\* The writes of requests: they ask, join, leave, cancel or update.
Waits(r) ==
  /\ UNCHANGED <<db, phase, irregular>>
  /\ \E c \in Int : /\ Earn(req[r].webinar, c)
                    /\ \/ Asks(req[r], req'[r], c) /\ failures' = failures
                       \/ req'[r].pc = "failed" /\ failures' = failures + 1

Joins(r) ==
  LET q == req[r] n == req'[r] w == q.webinar IN
  /\ q.pc = "commit_join" /\ n.pc = "joined" /\ n.ec = q.ec /\ n.charged = q.charged
  /\ webinar[w] # NoRow /\ q.user \notin joined[w]
  /\ joined' = [joined EXCEPT ![w] = @ \cup {q.user}]
  /\ irregular' = IF q.ec = "free" THEN irregular \cup {w} ELSE irregular
  /\ UNCHANGED <<webinar, emergency, phase, balance, failures>>

Leaves(r) ==
  /\ req[r].pc = "commit_leave" /\ req'[r].pc = "left"
  /\ joined' = Unjoined(r)
  /\ UNCHANGED <<webinar, emergency, phase, irregular, balance, failures>>

Cancels(r) ==
  LET q == req[r] n == req'[r] w == q.webinar IN
  /\ q.pc = "commit_cancel" /\ n.pc = "cancelled" /\ n.ec = q.ec
  /\ webinar' = [webinar EXCEPT ![w] = NoRow] /\ joined' = [joined EXCEPT ![w] = {}]
  /\ emergency' = IF q.ec = "create" THEN emergency \cup {q.seen.creator} ELSE emergency
  /\ UNCHANGED <<phase, irregular, balance, failures>>

Updates(r) ==
  LET q == req[r] w == q.webinar IN
  /\ q.pc \in UpdatePcs /\ req'[r].pc \in {"updated", "failed"}
  /\ webinar[w] # NoRow /\ webinar' = Updated(r)
  /\ phase' = [phase EXCEPT ![w] = IF q.move = q.at THEN @ ELSE q.move]
  /\ irregular' = IF Upsets(w, webinar'[w]) THEN irregular \cup {w} ELSE irregular
  /\ failures' \in {failures, failures + 1}
  /\ UNCHANGED <<joined, emergency, balance>>

Goes(r) ==
  /\ Only(r) /\ InFlight(r) /\ Same(req[r], req'[r])
  /\ UNCHANGED <<ratings, cleaner, payouts>>
  /\ Waits(r) \/ Joins(r) \/ Leaves(r) \/ Cancels(r) \/ Updates(r)

\* What the refunds of a participant amount to.
LEMMA RefundsWithinPrice ==
  ASSUME NEW q, q.at \in {Week, Days}, q.seen.price \in Nat
  PROVE  /\ UserRefund(q) \in Nat /\ CreatorCompensation(q) \in Nat
         /\ UserRefund(q) + CreatorCompensation(q) <= q.seen.price
<1> DEFINE p == q.seen.price
           f == 100 - FeePercent
<1>1. p \in Nat /\ f \in 0..100
  BY FeeAssumption
<1>2. p * f \in Nat /\ p * f <= p * 100
  <2> HIDE DEF p, f
  <2> QED
    BY <1>1
<1>3. p \div 2 \in Nat /\ (p * f) \div 200 \in Nat /\ (p \div 2) + ((p * f) \div 200) <= p
  <2> DEFINE x == p * f
  <2>1. x \in Nat /\ x <= p * 100
    BY <1>2
  <2> HIDE DEF x, p
  <2>2. p \div 2 \in Nat /\ x \div 200 \in Nat /\ (p \div 2) + (x \div 200) <= p
    BY <1>1, <2>1
  <2> QED
    BY <2>2 DEF x
<1> QED
  BY <1>1, <1>3 DEF UserRefund, StudentRefund, CreatorCompensation, Week, Days

\* What a request does when it goes on.
LEMMA ContinueGoes ==
  ASSUME IInv, NEW r \in Requests, Continue(r)
  PROVE  Goes(r)
<1> USE WebinarAssumption
<1>a. /\ req \in [Requests -> Request] /\ req[r] \in Request /\ balance \in [Webinars -> Int]
      /\ ReqOK(r)
  BY DEF IInv, TypeOK
<1>b. InFlight(r) /\ req[r].pc # "idle"
  BY DEF Continue, RegisterFindEmergency, RegisterSpend, RegisterSpendFails, RegisterCommit,
         LeaveRefund, LeaveRefundFails, LeaveCommit, CancelCharge, CancelChargeFails,
         CancelFindGrant, CancelCommit, UpdateCheck, UpdateCheckFails, UpdateCommit,
         InFlight, InFlightPcs
<1>c. /\ req[r].webinar \in Webinars /\ req[r].seen \in Row /\ req[r].seen.price \in Nat
      /\ req[r].pc \in LeavePcs => req[r].at \in {Week, Days}
  BY <1>a, <1>b DEF ReqOK, Row
<1>d. ASSUME NEW c \in Int, Earn(req[r].webinar, c),
             UNCHANGED <<db, phase, irregular>>,
             \/ Asks(req[r], req'[r], c) /\ failures' = failures
             \/ req'[r].pc = "failed" /\ failures' = failures + 1
      PROVE  Waits(r)
  BY <1>d DEF Waits
<1>e. ASSUME balance' = balance, UNCHANGED <<db, phase, irregular>>,
             Asks(req[r], req'[r], 0) /\ failures' = failures
      PROVE  Waits(r)
  <2>1. Earn(req[r].webinar, 0)
    BY <1>a, <1>c, <1>e DEF Earn
  <2> QED
    BY <1>d, <1>e, <2>1
<1>f. ASSUME Only(r), Same(req[r], req'[r]), ratings' = ratings, cleaner' = cleaner,
             payouts' = payouts, Waits(r)
      PROVE  Goes(r)
  BY <1>b, <1>f DEF Goes
<1>1. ASSUME NEW n, req' = [req EXCEPT ![r] = n], n \in Request, Same(req[r], n)
      PROVE  Only(r) /\ req'[r] = n /\ Same(req[r], req'[r])
  BY <1>a, <1>1 DEF Only
<1>2. CASE RegisterFindEmergency(r)
  <2> DEFINE n == IF req[r].seen.creator \in emergency
                  THEN [req[r] EXCEPT !.pc = "commit_join", !.ec = "free"]
                  ELSE [req[r] EXCEPT !.pc = "spend"]
  <2>1. /\ req' = [req EXCEPT ![r] = n] /\ req[r].pc = "find_emergency"
        /\ UNCHANGED <<db, phase, cleaner, ghost, failures>>
    BY <1>2 DEF RegisterFindEmergency, Become
  <2>2. /\ n \in Request /\ Same(req[r], n)
        /\ \/ n.pc = "spend" /\ n.ec = req[r].ec
           \/ n.pc = "commit_join" /\ n.ec = "free" /\ req[r].seen.creator \in emergency
    BY <1>a DEF Request, Same, InFlightPcs
  <2> HIDE DEF n
  <2>3. req'[r] = n /\ Only(r) /\ Same(req[r], req'[r])
    BY <1>1, <2>1, <2>2
  <2>4. Asks(req[r], req'[r], 0)
    BY <2>1, <2>2, <2>3 DEF Asks
  <2> QED
    BY <1>e, <1>f, <2>1, <2>3, <2>4 DEF db, ghost
<1>3. ASSUME NEW pc \in InFlightPcs \cup Final, NEW c \in Nat,
             req' = [req EXCEPT ![r].pc = pc, ![r].charged = c]
      PROVE  /\ Only(r) /\ Same(req[r], req'[r])
             /\ req'[r].pc = pc /\ req'[r].charged = c /\ req'[r].ec = req[r].ec
  <2> DEFINE n == [req[r] EXCEPT !.pc = pc, !.charged = c]
  <2>1. req' = [req EXCEPT ![r] = n]
    BY <1>a, <1>3
  <2>2. /\ n \in Request /\ Same(req[r], n)
        /\ n.pc = pc /\ n.charged = c /\ n.ec = req[r].ec
    BY <1>a DEF Request, Same
  <2> HIDE DEF n
  <2> QED
    BY <1>1, <2>1, <2>2
<1>4. ASSUME NEW pc \in InFlightPcs \cup Final, req' = [req EXCEPT ![r].pc = pc]
      PROVE  /\ Only(r) /\ Same(req[r], req'[r])
             /\ req'[r].pc = pc /\ req'[r].charged = req[r].charged /\ req'[r].ec = req[r].ec
  <2> DEFINE n == [req[r] EXCEPT !.pc = pc]
  <2>1. req' = [req EXCEPT ![r] = n]
    BY <1>a, <1>4
  <2>2. /\ n \in Request /\ Same(req[r], n)
        /\ n.pc = pc /\ n.charged = req[r].charged /\ n.ec = req[r].ec
    BY <1>a DEF Request, Same
  <2> HIDE DEF n
  <2> QED
    BY <1>1, <2>1, <2>2
<1>5. CASE RegisterSpend(r)
  <2>a. /\ req[r].pc = "spend"
        /\ UNCHANGED <<db, phase, cleaner, payouts, irregular, failures>>
    BY <1>5 DEF RegisterSpend
  <2>1. CASE /\ req' = [req EXCEPT ![r].pc = "commit_join", ![r].charged = req[r].seen.price]
             /\ Earn(req[r].webinar, req[r].seen.price)
    <3>1. /\ Only(r) /\ Same(req[r], req'[r]) /\ req'[r].pc = "commit_join"
          /\ req'[r].charged = req[r].seen.price /\ req'[r].ec = req[r].ec
      BY <1>c, <1>3, <2>1 DEF InFlightPcs
    <3>2. Asks(req[r], req'[r], req[r].seen.price) /\ req[r].seen.price \in Int
      BY <1>c, <2>a, <3>1 DEF Asks
    <3> QED
      BY <1>d, <1>f, <2>a, <2>1, <3>1, <3>2 DEF db
  <2>2. CASE req' = [req EXCEPT ![r].pc = "rejected"] /\ balance' = balance
    <3>1. Only(r) /\ Same(req[r], req'[r]) /\ req'[r].pc = "rejected"
      BY <1>4, <2>2 DEF Final
    <3>2. Asks(req[r], req'[r], 0)
      BY <2>a, <3>1 DEF Asks, LeavePcs
    <3> QED
      BY <1>e, <1>f, <2>a, <2>2, <3>1, <3>2 DEF db
  <2> QED
    BY <1>5, <2>1, <2>2 DEF RegisterSpend
<1>6. CASE RegisterSpendFails(r)
  <2>1. PICK c \in {0, req[r].seen.price} :
           /\ req' = [req EXCEPT ![r].pc = "failed", ![r].charged = c]
           /\ Earn(req[r].webinar, c)
    BY <1>6 DEF RegisterSpendFails
  <2>2. failures' = failures + 1 /\ UNCHANGED <<db, phase, cleaner, payouts, irregular>>
    BY <1>6 DEF RegisterSpendFails, Fail
  <2> QED
    <3>c. c \in Nat
      BY <1>c
    <3>1. Only(r) /\ Same(req[r], req'[r]) /\ req'[r].pc = "failed" /\ c \in Int
      <4>1. "failed" \in InFlightPcs \cup Final
        BY DEF Final
      <4>2. Only(r) /\ Same(req[r], req'[r]) /\ req'[r].pc = "failed"
        BY <1>3, <2>1, <3>c, <4>1
      <4>3. c \in Int
        BY <3>c
      <4> QED
        BY <4>2, <4>3
    <3>2. UNCHANGED <<db, phase, irregular>> /\ failures' = failures + 1
      BY <2>2
    <3>3. Waits(r)
      BY <1>d, <2>1, <3>1, <3>2
    <3> QED
      BY <1>f, <2>2, <3>1, <3>3 DEF db
<1>7. CASE RegisterCommit(r)
  <2>1. CASE webinar[req[r].webinar] = NoRow \/ req[r].user \in joined[req[r].webinar]
    <3>1. /\ req' = [req EXCEPT ![r].pc = "failed"] /\ req[r].pc = "commit_join"
          /\ UNCHANGED <<db, phase, cleaner, ghost, failures>>
      BY <1>a, <1>7, <2>1 DEF RegisterCommit, Become
    <3>2. Only(r) /\ Same(req[r], req'[r]) /\ req'[r].pc = "failed"
      BY <1>4, <3>1 DEF Final
    <3>3. Asks(req[r], req'[r], 0)
      BY <3>1, <3>2 DEF Asks, LeavePcs
    <3> QED
      BY <1>e, <1>f, <3>1, <3>2, <3>3 DEF db, ghost
  <2>2. CASE ~(webinar[req[r].webinar] = NoRow \/ req[r].user \in joined[req[r].webinar])
    BY <1>b, <1>4, <1>7, <2>2 DEF Final, Goes, Joins, RegisterCommit
  <2> QED
    BY <2>1, <2>2
<1>8. CASE LeaveRefund(r)
  <2>a. UNCHANGED <<db, phase, cleaner, payouts, irregular, failures>>
    BY <1>8 DEF LeaveRefund
  <2>1. CASE /\ req[r].pc = "refund_user" /\ req' = [req EXCEPT ![r].pc = "refund_creator"]
             /\ Earn(req[r].webinar, -UserRefund(req[r]))
    <3>1. -UserRefund(req[r]) \in Int
      BY <1>c, <2>1, RefundsWithinPrice DEF LeavePcs
    <3> QED
      BY <1>b, <1>4, <2>a, <2>1, <3>1 DEF InFlightPcs, Goes, Waits, Asks, db
  <2>2. CASE /\ req[r].pc = "refund_creator" /\ req' = [req EXCEPT ![r].pc = "commit_leave"]
             /\ Earn(req[r].webinar, -CreatorCompensation(req[r]))
    <3>1. -CreatorCompensation(req[r]) \in Int
      BY <1>c, <2>2, RefundsWithinPrice DEF LeavePcs
    <3> QED
      BY <1>b, <1>4, <2>a, <2>2, <3>1 DEF InFlightPcs, Goes, Waits, Asks, db
  <2> QED
    BY <1>8, <2>1, <2>2 DEF LeaveRefund
<1>9. CASE LeaveRefundFails(r)
  <2>1. /\ req' = [req EXCEPT ![r].pc = "failed"] /\ failures' = failures + 1
        /\ UNCHANGED <<db, phase, cleaner, payouts, irregular>>
    BY <1>9 DEF LeaveRefundFails, Fail
  <2>2. /\ req[r].pc \in LeavePcs
        /\ \E c \in {0, UserRefund(req[r]), CreatorCompensation(req[r])} :
             Earn(req[r].webinar, -c)
    BY <1>9 DEF LeaveRefundFails, LeavePcs
  <2>3. UserRefund(req[r]) \in Nat /\ CreatorCompensation(req[r]) \in Nat
    BY <1>c, <2>2, RefundsWithinPrice
  <2>4. \E c \in Int : Earn(req[r].webinar, c)
    <3>1. PICK c \in {0, UserRefund(req[r]), CreatorCompensation(req[r])} :
             Earn(req[r].webinar, -c)
      BY <2>2
    <3>2. -c \in Int
      BY <2>3
    <3> QED
      BY <3>1, <3>2
  <2> QED
    BY <1>b, <1>4, <2>1, <2>4 DEF Final, Goes, Waits, db
<1>10. CASE LeaveCommit(r)
  BY <1>b, <1>4, <1>10 DEF Final, Goes, Leaves, LeaveCommit, ghost
<1>11. CASE CancelCharge(r)
  <2>1. PICK u \in req[r].left, c \in {0, req[r].seen.price} :
           /\ req' = [req EXCEPT ![r].left = @ \ {u},
                                 ![r].pc = IF req[r].left = {u} THEN "find_grant" ELSE @]
           /\ Earn(req[r].webinar, c)
    BY <1>11 DEF CancelCharge
  <2>2. req[r].pc = "charge_all" /\ UNCHANGED <<db, phase, cleaner, payouts, irregular, failures>>
    BY <1>11 DEF CancelCharge
  <2> DEFINE pc == IF req[r].left = {u} THEN "find_grant" ELSE "charge_all"
             n == [req[r] EXCEPT !.left = @ \ {u}, !.pc = pc]
  <2>3. req' = [req EXCEPT ![r] = n]
    BY <1>a, <2>1, <2>2
  <2>4. n \in Request /\ Same(req[r], n) /\ n.pc \in CancelPcs
    BY <1>a DEF Request, Same, InFlightPcs, CancelPcs
  <2>5. c \in Nat /\ req[r].pc \in CancelPcs
    BY <1>c, <2>2 DEF CancelPcs
  <2> HIDE DEF n, pc
  <2> QED
    <3>1. req'[r] = n /\ Only(r) /\ Same(req[r], req'[r])
      BY <1>1, <2>3, <2>4
    <3>2. Asks(req[r], req'[r], c)
      BY <2>4, <2>5, <3>1 DEF Asks
    <3>3. UNCHANGED <<db, phase, irregular>> /\ failures' = failures /\ c \in Int
      BY <2>2, <2>5
    <3>4. Waits(r)
      BY <1>d, <2>1, <3>1, <3>2, <3>3
    <3> QED
      BY <1>f, <2>2, <3>1, <3>4 DEF db
<1>12. CASE CancelChargeFails(r)
  <2>1. PICK c \in {0, req[r].seen.price} :
           Earn(req[r].webinar, c)
    BY <1>12 DEF CancelChargeFails
  <2>2. /\ req' = [req EXCEPT ![r].pc = "failed"] /\ failures' = failures + 1
        /\ UNCHANGED <<db, phase, cleaner, payouts, irregular>>
    BY <1>12 DEF CancelChargeFails, Fail
  <2> QED
    <3>c. c \in Nat
      BY <1>c
    <3>1. Only(r) /\ Same(req[r], req'[r]) /\ req'[r].pc = "failed" /\ c \in Int
      <4>1. "failed" \in InFlightPcs \cup Final
        BY DEF Final
      <4>2. Only(r) /\ Same(req[r], req'[r]) /\ req'[r].pc = "failed"
        BY <1>4, <2>2, <3>c, <4>1
      <4>3. c \in Int
        BY <3>c
      <4> QED
        BY <4>2, <4>3
    <3>2. UNCHANGED <<db, phase, irregular>> /\ failures' = failures + 1
      BY <2>2
    <3>3. Waits(r)
      BY <1>d, <2>1, <3>1, <3>2
    <3> QED
      BY <1>f, <2>2, <3>1, <3>3 DEF db
<1>13. CASE CancelFindGrant(r)
  <2> DEFINE ec == IF req[r].seen.creator \in emergency THEN "keep" ELSE "create"
             n == [req[r] EXCEPT !.pc = "commit_cancel", !.ec = ec]
  <2>1. /\ req' = [req EXCEPT ![r] = n] /\ req[r].pc = "find_grant"
        /\ UNCHANGED <<db, phase, cleaner, ghost, failures>>
    BY <1>13 DEF CancelFindGrant, Become
  <2>2. n \in Request /\ Same(req[r], n) /\ n.pc = "commit_cancel"
    BY <1>a DEF Request, Same, InFlightPcs
  <2> HIDE DEF n, ec
  <2> QED
    <3>1. req'[r] = n /\ Only(r) /\ Same(req[r], req'[r])
      BY <1>1, <2>1, <2>2
    <3>2. Asks(req[r], req'[r], 0)
      BY <2>1, <2>2, <3>1 DEF Asks, CancelPcs
    <3> QED
      BY <1>e, <1>f, <2>1, <3>1, <3>2 DEF db, ghost
<1>14. CASE CancelCommit(r)
  <2>1. CASE NewcomersOf(req[r].webinar, req[r].who) \/ GrantConflict(r)
    <3> DEFINE n == [req[r] EXCEPT !.pc = "failed", !.ec = "keep"]
    <3>1. /\ req' = [req EXCEPT ![r] = n] /\ req[r].pc = "commit_cancel"
          /\ UNCHANGED <<db, phase, cleaner, ghost, failures>>
      BY <1>14, <2>1 DEF CancelCommit, Become
    <3>2. n \in Request /\ Same(req[r], n) /\ n.pc = "failed"
      BY <1>a DEF Request, Same, Final
    <3> HIDE DEF n
    <3> QED
      <4>1. req'[r] = n /\ Only(r) /\ Same(req[r], req'[r])
        BY <1>1, <3>1, <3>2
      <4>2. Asks(req[r], req'[r], 0)
        BY <3>1, <3>2, <4>1 DEF Asks, LeavePcs
      <4> QED
        BY <1>e, <1>f, <3>1, <4>1, <4>2 DEF db, ghost
  <2>2. CASE ~(NewcomersOf(req[r].webinar, req[r].who) \/ GrantConflict(r))
    BY <1>b, <1>4, <1>14, <2>2 DEF Final, Goes, Cancels, CancelCommit, ghost
  <2> QED
    BY <2>1, <2>2
<1>15. CASE UpdateCheck(r)
  <2>1. PICK pc \in {"commit_update", "rejected"} : req' = [req EXCEPT ![r].pc = pc]
    BY <1>a, <1>15 DEF UpdateCheck, Become
  <2>2. req[r].pc = "check_price" /\ UNCHANGED <<db, phase, cleaner, ghost, failures>>
    BY <1>15 DEF UpdateCheck, Become
  <2> QED
    <3>1. Only(r) /\ Same(req[r], req'[r]) /\ req'[r].pc \in {"commit_update", "rejected"}
      BY <1>4, <2>1 DEF InFlightPcs, Final
    <3>2. Asks(req[r], req'[r], 0)
      BY <2>2, <3>1 DEF Asks, LeavePcs
    <3> QED
      BY <1>e, <1>f, <2>2, <3>1, <3>2 DEF db, ghost
<1>16. ASSUME NEW pc \in Final, pc \in {"updated", "failed"}, UpdateStore(r, pc),
              req[r].pc \in UpdatePcs,
              failures' = failures \/ (failures' = failures + 1 /\ pc = "failed"),
              UNCHANGED <<joined, emergency, ratings, cleaner, payouts, balance>>
       PROVE  Goes(r)
  <2>1. CASE webinar[req[r].webinar] = NoRow
    <3>1. /\ req' = [req EXCEPT ![r].pc = "failed"]
          /\ UNCHANGED <<webinar, phase, irregular>>
      BY <1>16, <2>1 DEF UpdateStore
    <3> QED
      <4>1. Only(r) /\ Same(req[r], req'[r]) /\ req'[r].pc = "failed"
        BY <1>4, <3>1 DEF Final
      <4>2. Asks(req[r], req'[r], 0)
        BY <1>16, <4>1 DEF Asks, LeavePcs, UpdatePcs
      <4>3. CASE failures' = failures
        BY <1>e, <1>f, <1>16, <3>1, <4>1, <4>2, <4>3 DEF db
      <4>4. CASE failures' = failures + 1
        <5>1. Earn(req[r].webinar, 0)
          BY <1>a, <1>c, <1>16 DEF Earn
        <5> QED
          BY <1>d, <1>f, <1>16, <3>1, <4>1, <4>4, <5>1 DEF db
      <4> QED
        BY <1>16, <4>3, <4>4
  <2>2. CASE webinar[req[r].webinar] # NoRow
    <3>1. /\ req' = [req EXCEPT ![r].pc = pc] /\ webinar' = Updated(r)
          /\ phase' = [phase EXCEPT ![req[r].webinar] =
                         IF req[r].move = req[r].at THEN @ ELSE req[r].move]
          /\ irregular' = IF Upsets(req[r].webinar, webinar'[req[r].webinar])
                          THEN irregular \cup {req[r].webinar} ELSE irregular
      BY <1>16, <2>2 DEF UpdateStore
    <3> QED
      BY <1>b, <1>4, <1>16, <2>2, <3>1 DEF Goes, Updates
  <2> QED
    BY <2>1, <2>2
<1>17. CASE UpdateCheckFails(r)
  BY <1>16, <1>17 DEF UpdateCheckFails, Final, UpdatePcs, Fail
<1>18. CASE UpdateCommit(r)
  BY <1>16, <1>18 DEF UpdateCommit, Final, UpdatePcs
<1> QED
  BY <1>2, <1>5, <1>6, <1>7, <1>8, <1>9, <1>10, <1>11, <1>12, <1>13, <1>14, <1>15, <1>17, <1>18
     DEF Continue

\* What the cleanup is about to pay is a number of coins.
LEMMA PayoutIsCoins ==
  ASSUME IInv, cleaner.pc \in {"rate", "pay", "xp"}
  PROVE  /\ Cur \in Webinars /\ cleaner.rows[Cur] \in Row /\ Cur \notin cleaner.dels
         /\ Cardinality(cleaner.who[Cur]) \in Nat /\ Payout \in Nat
         /\ Payout <= Cardinality(cleaner.who[Cur]) * cleaner.rows[Cur].price
<1>1. Cur \in Todo /\ cleaner \in Cleaner /\ \A w \in Webinars : IsFiniteSet(cleaner.who[w])
  BY DEF IInv, PassOK, TypeOK, Cur
<1>2. Cur \in Webinars /\ cleaner.rows[Cur] \in Row /\ Cur \notin cleaner.dels
  BY <1>1 DEF Todo, Cleaner
<1>3. Cardinality(cleaner.who[Cur]) \in Nat /\ cleaner.rows[Cur].price \in Nat
  BY <1>1, <1>2, FS_CardinalityType DEF Row
<1> DEFINE x == Cardinality(cleaner.who[Cur]) * cleaner.rows[Cur].price
           f == 100 - FeePercent
<1>4. x \in Nat /\ f \in 0..100
  <2> DEFINE a == Cardinality(cleaner.who[Cur])
             b == cleaner.rows[Cur].price
  <2>1. a \in Nat /\ b \in Nat
    BY <1>3
  <2> HIDE DEF a, b
  <2>2. a * b \in Nat
    BY <2>1
  <2> QED
    BY <2>2, FeeAssumption DEF a, b
<1>5. x * f \in Nat /\ x * f <= x * 100
  <2> HIDE DEF x, f
  <2> QED
    BY <1>4
<1>6. (x * f) \div 100 \in Nat /\ (x * f) \div 100 <= x
  <2> DEFINE y == x * f
  <2>1. y \in Nat /\ y <= x * 100 /\ x \in Nat
    BY <1>4, <1>5
  <2> HIDE DEF x, y
  <2>2. y \div 100 \in Nat /\ y \div 100 <= x
    BY <2>1
  <2> QED
    BY <2>2 DEF y
<1> QED
  BY <1>2, <1>3, <1>6 DEF Payout, InstructorShare

\* The cleanup goes from call to call.
Works ==
  LET c == cleaner n == cleaner' IN
  /\ n \in Cleaner /\ n.rows = c.rows /\ n.who = c.who /\ n.pc # "idle"
  /\ UNCHANGED <<db, phase, req, irregular, failures>>
  /\ \/ /\ c.pc = "next" /\ n.cur \in Todo /\ n.left = c.who[n.cur]
        /\ n.pc = IF c.who[n.cur] = {} THEN "pay" ELSE "rate"
        /\ n.rated = c.rated /\ n.dels = c.dels /\ UNCHANGED <<payouts, balance>>
     \/ /\ c.pc = "rate" /\ n.cur = c.cur
        /\ \E u \in c.left : /\ n.left = c.left \ {u} /\ n.rated = c.rated \cup {<<c.cur, u>>}
                             /\ n.pc = IF c.left = {u} THEN "pay" ELSE "rate"
        /\ n.dels = c.dels /\ UNCHANGED <<payouts, balance>>
     \/ /\ c.pc = "pay" /\ n.pc = "xp" /\ n.cur = c.cur /\ n.rated = c.rated /\ n.dels = c.dels
        /\ payouts' = [payouts EXCEPT ![c.cur] = @ + 1] /\ Earn(c.cur, -Payout)
     \/ /\ c.pc = "xp" /\ n.pc = "next" /\ n.rated = c.rated /\ n.dels = c.dels \cup {c.cur}
        /\ UNCHANGED <<payouts, balance>>

\* Its session ends: all is stored, or something went wrong.
PassEnds ==
  /\ cleaner.pc # "idle" /\ cleaner' = IdleCleaner
  /\ UNCHANGED <<phase, req, irregular>>
  /\ \/ /\ failures' = failures /\ Todo = {} /\ cleaner.pc = "next"
        /\ UNCHANGED <<payouts, balance>>
        /\ ~Conflict(cleaner.dels) /\ StoreAll(cleaner.rated, cleaner.spent, cleaner.dels)
     \/ /\ failures' = failures + 1
        /\ \/ UNCHANGED <<payouts, balance>>
           \/ /\ cleaner.pc = "pay" /\ payouts' = [payouts EXCEPT ![Cur] = @ + 1]
              /\ Earn(Cur, -Payout)
        /\ \/ UNCHANGED db
           \/ /\ ~Conflict(cleaner.dels)
              /\ \E rated, spent : /\ cleaner.rated \subseteq rated
                                   /\ \A x \in rated : Selected(x[1])
                                   /\ StoreAll(rated, spent, cleaner.dels)

\* What the cleanup does.
LEMMA CleanupMoves ==
  ASSUME IInv, Cleanup
  PROVE  CleanupBegin \/ Works \/ PassEnds
<1>a. /\ cleaner \in Cleaner /\ emergency \in SUBSET Users
      /\ cleaner.pc \in {"rate", "pay", "xp"} => Cur \in Webinars /\ cleaner.rows[Cur] \in Row
  BY PayoutIsCoins DEF IInv, TypeOK
<1>1. ASSUME NEW w \in Webinars, CleanupTake(w) PROVE Works
  <2> DEFINE pc == IF cleaner.who[w] = {} THEN "pay" ELSE "rate"
             n == [cleaner EXCEPT !.cur = w, !.left = cleaner.who[w], !.pc = pc]
  <2>1. /\ cleaner' = n /\ cleaner.pc = "next" /\ w \in Todo
        /\ UNCHANGED <<db, phase, req, ghost, failures>>
    BY <1>1 DEF CleanupTake, Working
  <2>2. cleaner.who[w] \in SUBSET Users
    BY <1>a DEF Cleaner
  <2>3. /\ n \in Cleaner /\ n.rows = cleaner.rows /\ n.who = cleaner.who /\ n.pc = pc
        /\ n.cur = w /\ n.left = cleaner.who[w] /\ n.rated = cleaner.rated
        /\ n.dels = cleaner.dels
    BY <1>a, <2>2 DEF Cleaner
  <2> HIDE DEF n
  <2> QED
    BY <2>1, <2>3 DEF Works, db, ghost
<1>2. ASSUME NEW u \in Users, CleanupRate(u) PROVE Works
  <2> DEFINE pc == IF cleaner.left = {u} THEN "pay" ELSE "rate"
             n == [cleaner EXCEPT !.rated = @ \cup {<<Cur, u>>}, !.left = @ \ {u}, !.pc = pc]
  <2>1. /\ cleaner' = n /\ cleaner.pc = "rate" /\ u \in cleaner.left
        /\ UNCHANGED <<db, phase, req, ghost, failures>>
    BY <1>2 DEF CleanupRate, Working
  <2>2. <<Cur, u>> \in Webinars \X Users
    BY <1>a, <2>1
  <2>3. /\ n \in Cleaner /\ n.rows = cleaner.rows /\ n.who = cleaner.who /\ n.pc = pc
        /\ n.cur = cleaner.cur /\ n.left = cleaner.left \ {u}
        /\ n.rated = cleaner.rated \cup {<<Cur, u>>}
        /\ n.dels = cleaner.dels
    BY <1>a, <2>2 DEF Cleaner
  <2> HIDE DEF n
  <2> QED
    BY <2>1, <2>3 DEF Works, db, ghost, Cur
<1>3. CASE CleanupPay
  <2> DEFINE n == [cleaner EXCEPT !.pc = "xp"]
  <2>1. /\ cleaner' = n /\ cleaner.pc = "pay"
        /\ UNCHANGED <<db, phase, req, irregular, failures>>
        /\ payouts' = [payouts EXCEPT ![Cur] = @ + 1] /\ Earn(Cur, -Payout)
    BY <1>3 DEF CleanupPay
  <2>2. /\ n \in Cleaner /\ n.rows = cleaner.rows /\ n.who = cleaner.who /\ n.pc = "xp"
        /\ n.cur = cleaner.cur /\ n.rated = cleaner.rated /\ n.dels = cleaner.dels
    BY <1>a DEF Cleaner
  <2> HIDE DEF n
  <2> QED
    BY <2>1, <2>2 DEF Works, Cur
<1>4. CASE CleanupXp
  <2> DEFINE spent == SpentNow
             n == [cleaner EXCEPT !.pc = "next", !.cur = None, !.spent = spent,
                             !.dels = @ \cup {Cur}]
  <2>1. /\ cleaner' = n /\ cleaner.pc = "xp"
        /\ UNCHANGED <<db, phase, req, ghost, failures>>
    BY <1>4 DEF CleanupXp, Working
  <2>2. spent \in SUBSET Users /\ Cur \in Webinars
    BY <1>a, <2>1 DEF SpentNow, Cleaner
  <2> HIDE DEF spent
  <2>3. /\ n \in Cleaner /\ n.rows = cleaner.rows /\ n.who = cleaner.who /\ n.pc = "next"
        /\ n.rated = cleaner.rated /\ n.dels = cleaner.dels \cup {Cur}
    BY <1>a, <2>2 DEF Cleaner
  <2> HIDE DEF n
  <2> QED
    BY <2>1, <2>3 DEF Works, db, ghost, Cur
<1>5. CASE CleanupCommit
  <2>1. /\ cleaner.pc = "next" /\ Todo = {} /\ cleaner' = IdleCleaner
        /\ UNCHANGED <<phase, req, irregular, payouts, balance>>
        /\ Store(cleaner.rated, cleaner.spent, cleaner.dels)
        /\ failures' = IF Conflict(cleaner.dels) THEN failures + 1 ELSE failures
    BY <1>5 DEF CleanupCommit, ghost
  <2>2. CASE Conflict(cleaner.dels)
    BY <2>1, <2>2 DEF PassEnds, Store
  <2>3. CASE ~Conflict(cleaner.dels)
    BY <2>1, <2>3 DEF PassEnds, Store
  <2> QED
    BY <2>2, <2>3
<1>6. CASE CleanupCommitFails
  BY <1>6 DEF CleanupCommitFails, PassEnds, Fail, ghost, db
<1>7. CASE CleanupCallFails
  <2>1. /\ failures' = failures + 1 /\ cleaner' = IdleCleaner /\ UNCHANGED <<phase, req, irregular>>
        /\ cleaner.pc \in {"rate", "pay", "xp"}
    BY <1>7 DEF CleanupCallFails, Fail, LoopGoesOn
  <2>2. \/ UNCHANGED <<payouts, balance>>
        \/ /\ cleaner.pc = "pay" /\ payouts' = [payouts EXCEPT ![Cur] = @ + 1]
           /\ Earn(Cur, -Payout)
    BY <1>7 DEF CleanupCallFails
  <2>3. \E rated, spent : /\ cleaner.rated \subseteq rated
                          /\ rated \subseteq cleaner.rated \cup ({Cur} \X Users)
                          /\ Store(rated, spent, cleaner.dels)
    <3>1. CASE cleaner.pc = "rate"
      <4>1. PICK u \in cleaner.left :
               Store(cleaner.rated \cup {<<Cur, u>>}, cleaner.spent, cleaner.dels)
        BY <1>7, <3>1 DEF CleanupCallFails, DeletedSoFar
      <4>2. u \in Users
        BY <1>a DEF Cleaner
      <4>3. cleaner.rated \cup {<<Cur, u>>} \subseteq cleaner.rated \cup ({Cur} \X Users)
        BY <4>2
      <4> QED
        BY <4>1, <4>3
    <3>2. CASE cleaner.pc # "rate"
      BY <1>7, <3>2 DEF CleanupCallFails, DeletedSoFar
    <3> QED
      BY <3>1, <3>2
  <2>4. \A rated : rated \subseteq cleaner.rated \cup ({Cur} \X Users)
          => \A x \in rated : Selected(x[1])
    <3>1. Selected(Cur) /\ \A x \in cleaner.rated : Selected(x[1])
      BY <2>1 DEF IInv, PassOK, Todo, Selected, Cur
    <3> QED
      BY <3>1
  <2>5. \/ UNCHANGED db
        \/ /\ ~Conflict(cleaner.dels)
           /\ \E rated, spent : /\ cleaner.rated \subseteq rated
                                /\ \A x \in rated : Selected(x[1])
                                /\ StoreAll(rated, spent, cleaner.dels)
    BY <2>3, <2>4 DEF Store
  <2> QED
    BY <2>1, <2>2, <2>5 DEF PassEnds
<1> QED
  BY <1>1, <1>2, <1>3, <1>4, <1>5, <1>6, <1>7 DEF Cleanup

\* Every step announces a webinar, is one of a request or of the cleanup, or
\* is time or a restart.
StepKinds ==
  \/ \E u \in Users, w \in Webinars, p \in Prices, k \in Seats, ph \in Phases :
       CreateWebinar(u, w, p, k, ph)
  \/ \E r \in Requests : Started(r)
  \/ \E r \in Requests : Goes(r)
  \/ \E w \in Webinars : Tick(w)
  \/ CleanupBegin \/ Works \/ PassEnds
  \/ Crash
  \/ UNCHANGED vars

\* The steps are those that StepKinds lists.
LEMMA StepMoves ==
  ASSUME IInv, [Next]_vars
  PROVE  StepKinds
BY ArriveStarts, ContinueGoes, CleanupMoves DEF Next, Announce, StepKinds

-----------------------------------------------------------------------------
(***************************************************************************)
(* Types, rows and what requests know                                      *)
(***************************************************************************)
\* What every request that goes on knows.
LEMMA GoesFacts ==
  ASSUME IInv, NEW r \in Requests, Goes(r)
  PROVE  /\ req[r] \in Request /\ ReqOK(r) /\ req[r].pc # "idle"
         /\ req[r].user \in Users /\ req[r].webinar \in Webinars /\ req[r].seen \in Row
         /\ At(r, req[r].webinar)
BY DEF IInv, TypeOK, Goes, InFlight, InFlightPcs, ReqOK, At

\* An update replaces a row by one of the same creator.
LEMMA UpdatesRow ==
  ASSUME IInv, NEW r \in Requests, Goes(r), Updates(r)
  PROVE  LET w == req[r].webinar row == webinar'[w] IN
         /\ webinar[w] \in Row /\ row \in Row /\ row.creator = webinar[w].creator
         /\ webinar' = [webinar EXCEPT ![w] = row]
         /\ w \notin irregular' => /\ Cardinality(joined[w]) <= row.seats
                                   /\ joined[w] # {} => row.price = webinar[w].price
<1> DEFINE q == req[r]
           w == q.webinar
           price == IF q.new.price = q.seen.price THEN webinar[w].price ELSE q.new.price
           seats == IF q.new.seats = q.seen.seats THEN webinar[w].seats ELSE q.new.seats
           new == [webinar[w] EXCEPT !.price = price, !.seats = seats]
<1>1. /\ w \in Webinars /\ webinar \in [Webinars -> Row \cup {NoRow}] /\ webinar[w] # NoRow
      /\ webinar[w] \in Row /\ q.new \in Row
  BY GoesFacts DEF IInv, TypeOK, Updates, ReqOK
<1>2. new \in Row /\ new.creator = webinar[w].creator
  BY <1>1 DEF Row
<1>3. webinar' = [webinar EXCEPT ![w] = new]
  <2>1. webinar' = [webinar EXCEPT
                      ![w].price = IF q.new.price = q.seen.price THEN @ ELSE q.new.price,
                      ![w].seats = IF q.new.seats = q.seen.seats THEN @ ELSE q.new.seats]
    BY DEF Updates, Updated
  <2> QED
    BY <1>1, <2>1 DEF Row
<1> HIDE DEF new
<1>4. webinar'[w] = new
  BY <1>1, <1>3
<1>5. w \notin irregular' => /\ Cardinality(joined[w]) <= new.seats
                             /\ joined[w] # {} => new.price = webinar[w].price
  <2>1. w \notin irregular' => ~Upsets(w, new)
    BY <1>4 DEF Updates
  <2>2. IsFiniteSet(joined[w]) /\ new.seats \in Nat
    BY <1>1, <1>2 DEF IInv, JoinedOK, Row
  <2>3. Cardinality(joined[w]) \in Nat
    BY <2>2, FS_CardinalityType
  <2> QED
    BY <2>1, <2>2, <2>3 DEF Upsets
<1> QED
  BY <1>1, <1>2, <1>3, <1>4, <1>5

\* A webinar is announced once, has its creator for good and is gone for good.
LEMMA WebinarsStay ==
  ASSUME IInv, [Next]_vars, NEW w \in Webinars, phase[w] # Unborn
  PROVE  /\ phase'[w] # Unborn
         /\ webinar'[w] # NoRow => webinar[w] # NoRow /\ webinar'[w].creator = webinar[w].creator
<1>a. webinar \in [Webinars -> Row \cup {NoRow}] /\ phase \in [Webinars -> Phases]
  BY DEF IInv, TypeOK
<1>1. CASE UNCHANGED <<webinar, phase>>
  BY <1>1
<1>2. ASSUME NEW u \in Users, NEW v \in Webinars, NEW p \in Prices, NEW k \in Seats,
             NEW ph \in Phases, CreateWebinar(u, v, p, k, ph)
      PROVE  UNCHANGED <<webinar[w], phase[w]>>
  BY <1>a, <1>2 DEF CreateWebinar
<1>3. ASSUME NEW r \in Requests, Goes(r), Updates(r)
      PROVE  /\ phase'[w] # Unborn
             /\ webinar'[w] # NoRow => webinar[w] # NoRow /\ webinar'[w].creator = webinar[w].creator
  <2>1. req[r].move # Unborn /\ req[r].webinar \in Webinars /\ webinar[req[r].webinar] # NoRow
    BY <1>3, GoesFacts DEF Updates, ReqOK
  <2>2. phase'[w] # Unborn
    BY <1>a, <1>3, <2>1 DEF Updates
  <2>3. CASE w = req[r].webinar
    BY <1>3, <2>1, <2>2, <2>3, UpdatesRow
  <2>4. CASE w # req[r].webinar
    BY <1>a, <1>3, <2>2, <2>4, UpdatesRow
  <2> QED
    BY <2>3, <2>4
<1>4. ASSUME NEW r \in Requests, Goes(r), Cancels(r)
      PROVE  phase' = phase /\ webinar'[w] \in {webinar[w], NoRow}
  BY <1>a, <1>4 DEF Cancels
<1>5. ASSUME NEW v \in Webinars, Tick(v)
      PROVE  phase'[w] # Unborn /\ webinar' = webinar
  BY <1>a, <1>5 DEF Tick, Week, Running, Unborn, Phases, Over, db
<1>6. CASE PassEnds
  BY <1>6 DEF PassEnds, StoreAll, db
<1> QED
  <2>1. ASSUME NEW r \in Requests, Goes(r)
        PROVE  Updates(r) \/ Cancels(r) \/ UNCHANGED <<webinar, phase>>
    BY <2>1 DEF Goes, Waits, Joins, Leaves, db
  <2>2. \/ UNCHANGED <<webinar, phase>>
        \/ \E u \in Users, v \in Webinars, p \in Prices, k \in Seats, ph \in Phases :
             CreateWebinar(u, v, p, k, ph)
        \/ \E r \in Requests : Goes(r)
        \/ \E v \in Webinars : Tick(v)
        \/ PassEnds
    BY StepMoves DEF StepKinds, Started, CleanupBegin, Works, Crash, vars, db
  <2>3. CASE \E r \in Requests : Goes(r)
    BY <1>1, <1>3, <1>4, <2>1, <2>3
  <2> QED
    BY <1>1, <1>2, <1>5, <1>6, <2>2, <2>3

\* Every step keeps the types.
LEMMA TypeStep == IInv /\ [Next]_vars => TypeOK'
<1> SUFFICES ASSUME IInv, [Next]_vars PROVE TypeOK'
  OBVIOUS
<1> USE WebinarAssumption, NoRowAssumption
<1>a. TypeOK
  BY DEF IInv
<1>b. /\ webinar \in [Webinars -> Row \cup {NoRow}] /\ joined \in [Webinars -> SUBSET Users]
      /\ \A w \in Webinars : webinar[w] = NoRow => joined[w] = {}
      /\ emergency \in SUBSET Users /\ ratings \in [Webinars \X Users -> Nat]
      /\ phase \in [Webinars -> Phases] /\ req \in [Requests -> Request]
      /\ cleaner \in Cleaner /\ payouts \in [Webinars -> Nat] /\ balance \in [Webinars -> Int]
      /\ irregular \in SUBSET Webinars /\ failures \in Nat
  BY <1>a DEF TypeOK
<1>1. ASSUME NEW u \in Users, NEW w \in Webinars, NEW p \in Prices, NEW k \in Seats,
             NEW ph \in Phases, CreateWebinar(u, w, p, k, ph)
      PROVE  TypeOK'
  <2> DEFINE row == [creator |-> u, price |-> p, seats |-> k]
  <2>1. row \in Row
    BY DEF Row
  <2>2. /\ webinar' = [webinar EXCEPT ![w] = row] /\ phase' = [phase EXCEPT ![w] = ph]
        /\ UNCHANGED <<joined, emergency, ratings, req, cleaner, ghost, failures>>
    BY <1>1 DEF CreateWebinar
  <2> HIDE DEF row
  <2>3. webinar' \in [Webinars -> Row \cup {NoRow}] /\ phase' \in [Webinars -> Phases]
    BY <1>b, <2>1, <2>2
  <2>4. \A v \in Webinars : webinar'[v] = NoRow => joined'[v] = {}
    BY <1>b, <2>1, <2>2
  <2> QED
    BY <1>b, <2>2, <2>3, <2>4 DEF TypeOK, ghost
<1>2. ASSUME NEW r \in Requests, Only(r) PROVE req' \in [Requests -> Request]
  <2> DEFINE new == req'[r]
  <2>1. req' = [req EXCEPT ![r] = new] /\ new \in Request
    BY <1>2 DEF Only
  <2> HIDE DEF new
  <2> QED
    BY <1>b, <2>1
<1>3. ASSUME NEW r \in Requests, Started(r) PROVE TypeOK'
  <2>1. req' \in [Requests -> Request]
    BY <1>2, <1>3 DEF Started
  <2>2. irregular' \in SUBSET Webinars
    BY <1>b, <1>3 DEF Started
  <2> QED
    BY <1>b, <1>3, <2>1, <2>2 DEF TypeOK, Started, db
<1>4. ASSUME NEW r \in Requests, Goes(r) PROVE TypeOK'
  <2>1. req' \in [Requests -> Request]
    BY <1>2, <1>4 DEF Goes
  <2>2. ratings' = ratings /\ cleaner' = cleaner /\ payouts' = payouts
    BY <1>4 DEF Goes
  <2>3. req[r].user \in Users /\ req[r].webinar \in Webinars /\ req[r].seen \in Row
        /\ req[r] \in Request
    BY <1>4, GoesFacts
  <2>4. CASE Waits(r)
    BY <1>b, <2>1, <2>2, <2>3, <2>4 DEF Waits, Earn, TypeOK, db
  <2>5. CASE Joins(r)
    <3>1. /\ joined' \in [Webinars -> SUBSET Users] /\ irregular' \in SUBSET Webinars
          /\ \A w \in Webinars : webinar[w] = NoRow => joined'[w] = {}
      BY <1>b, <2>3, <2>5 DEF Joins
    <3> QED
      BY <1>b, <2>1, <2>2, <2>5, <3>1 DEF TypeOK, Joins
  <2>6. CASE Leaves(r)
    <3>1. /\ joined' \in [Webinars -> SUBSET Users]
          /\ \A w \in Webinars : webinar[w] = NoRow => joined'[w] = {}
      BY <1>b, <2>3, <2>6 DEF Leaves, Unjoined
    <3> QED
      BY <1>b, <2>1, <2>2, <2>6, <3>1 DEF TypeOK, Leaves
  <2>7. CASE Cancels(r)
    <3>1. /\ joined' \in [Webinars -> SUBSET Users] /\ webinar' \in [Webinars -> Row \cup {NoRow}]
          /\ \A w \in Webinars : webinar'[w] = NoRow => joined'[w] = {}
      BY <1>b, <2>3, <2>7 DEF Cancels
    <3>2. emergency' \in SUBSET Users
      BY <1>b, <2>3, <2>7 DEF Cancels, Row
    <3> QED
      BY <1>b, <2>1, <2>2, <2>7, <3>1, <3>2 DEF TypeOK, Cancels
  <2>8. CASE Updates(r)
    <3> DEFINE row == webinar'[req[r].webinar]
    <3>1. row \in Row /\ webinar' = [webinar EXCEPT ![req[r].webinar] = row]
      BY <1>4, <2>8, UpdatesRow
    <3> HIDE DEF row
    <3>2. /\ webinar' \in [Webinars -> Row \cup {NoRow}]
          /\ \A w \in Webinars : webinar'[w] = NoRow => joined[w] = {}
      BY <1>b, <2>3, <3>1
    <3>3. phase' \in [Webinars -> Phases]
      BY <1>b, <2>3, <2>8 DEF Updates, Request
    <3>4. irregular' \in SUBSET Webinars /\ failures' \in Nat
      BY <1>b, <2>3, <2>8 DEF Updates
    <3> QED
      BY <1>b, <2>1, <2>2, <2>8, <3>2, <3>3, <3>4 DEF TypeOK, Updates
  <2> QED
    BY <1>4, <2>4, <2>5, <2>6, <2>7, <2>8 DEF Goes
<1>5. ASSUME NEW w \in Webinars, Tick(w) PROVE TypeOK'
  <2>1. phase' \in [Webinars -> Phases]
    BY <1>b, <1>5 DEF Tick, Week, Running, Phases, Over, Unborn
  <2> QED
    BY <1>b, <1>5, <2>1 DEF Tick, TypeOK, db, ghost
<1>6. CASE CleanupBegin
  <2> DEFINE rows == [w \in Webinars |-> IF w \in Ended THEN webinar[w] ELSE NoRow]
             who == [w \in Webinars |-> IF w \in Ended THEN joined[w] ELSE {}]
  <2>1. rows \in [Webinars -> Row \cup {NoRow}] /\ who \in [Webinars -> SUBSET Users]
    BY <1>b
  <2>2. cleaner' = [IdleCleaner EXCEPT !.pc = "next", !.rows = rows, !.who = who]
    BY <1>6 DEF CleanupBegin
  <2> HIDE DEF rows, who
  <2>3. cleaner' \in Cleaner
    BY <2>1, <2>2 DEF Cleaner, IdleCleaner
  <2>4. irregular' \in SUBSET Webinars
    BY <1>b, <1>6 DEF CleanupBegin, Ended
  <2> QED
    BY <1>b, <1>6, <2>3, <2>4 DEF CleanupBegin, TypeOK, db
<1>7. ASSUME cleaner.pc = "pay", payouts' = [payouts EXCEPT ![Cur] = @ + 1], Earn(Cur, -Payout)
      PROVE  payouts' \in [Webinars -> Nat] /\ balance' \in [Webinars -> Int]
  <2>1. Cur \in Webinars /\ Payout \in Nat
    BY <1>7, PayoutIsCoins
  <2> QED
    BY <1>b, <1>7, <2>1 DEF Earn
<1>8. CASE Works
  <2>1. payouts' \in [Webinars -> Nat] /\ balance' \in [Webinars -> Int] /\ cleaner' \in Cleaner
    BY <1>b, <1>7, <1>8 DEF Works, Cur
  <2> QED
    BY <1>b, <1>8, <2>1 DEF Works, TypeOK, db
<1>9. CASE PassEnds
  <2>1. IdleCleaner \in Cleaner
    BY DEF IdleCleaner, Cleaner
  <2>2. payouts' \in [Webinars -> Nat] /\ balance' \in [Webinars -> Int] /\ failures' \in Nat
    BY <1>b, <1>7, <1>9 DEF PassEnds
  <2>3. ASSUME NEW rated, NEW spent, StoreAll(rated, spent, cleaner.dels)
        PROVE  /\ webinar' \in [Webinars -> Row \cup {NoRow}] /\ joined' \in [Webinars -> SUBSET Users]
               /\ \A w \in Webinars : webinar'[w] = NoRow => joined'[w] = {}
               /\ emergency' \in SUBSET Users /\ ratings' \in [Webinars \X Users -> Nat]
    <3>1. ratings' \in [Webinars \X Users -> Nat]
      BY <1>b, <2>3 DEF StoreAll, OneMore
    <3> QED
      BY <1>b, <2>3, <3>1 DEF StoreAll
  <2>4. /\ webinar' \in [Webinars -> Row \cup {NoRow}] /\ joined' \in [Webinars -> SUBSET Users]
        /\ \A w \in Webinars : webinar'[w] = NoRow => joined'[w] = {}
        /\ emergency' \in SUBSET Users /\ ratings' \in [Webinars \X Users -> Nat]
    BY <1>b, <1>9, <2>3 DEF PassEnds, db
  <2> QED
    BY <1>b, <1>9, <2>1, <2>2, <2>4 DEF PassEnds, TypeOK
<1>10. CASE Crash
  <2>1. req' \in [Requests -> Request]
    <3>1. ASSUME NEW q \in Request
          PROVE  [q EXCEPT !.pc = "failed", !.ec = "keep"] \in Request
      BY DEF Request, Final
    <3>2. \A r \in Requests : req[r] \in Request
      BY <1>b
    <3>3. req' = [r \in Requests |->
                    IF InFlight(r) THEN [req[r] EXCEPT !.pc = "failed", !.ec = "keep"]
                    ELSE req[r]]
      BY <1>10 DEF Crash
    <3> QED
      BY <3>1, <3>2, <3>3
  <2>2. IdleCleaner \in Cleaner
    BY DEF IdleCleaner, Cleaner
  <2>3. failures' \in Nat
    <3>1. failures \in Nat /\ failures' = failures + 1
      BY <1>b, <1>10 DEF Crash, Fail
    <3> QED
      BY <3>1
  <2> QED
    BY <1>b, <1>10, <2>1, <2>2, <2>3 DEF Crash, TypeOK, db, ghost
<1>11. CASE UNCHANGED vars
  BY <1>b, <1>11 DEF TypeOK, vars, db, ghost
<1> QED
  BY <1>1, <1>3, <1>4, <1>5, <1>6, <1>8, <1>9, <1>10, <1>11, StepMoves DEF StepKinds

\* A request that has ended stays as it is, and so do the grants.
LEMMA EndedStays ==
  ASSUME IInv, [Next]_vars, NEW r \in Requests, req[r].pc \in Final
  PROVE  req'[r] = req[r]
<1>1. ~InFlight(r) /\ req[r].pc # "idle"
  BY DEF InFlight, InFlightPcs, Final
<1>2. CASE Crash
  BY <1>1, <1>2 DEF Crash, IInv, TypeOK
<1>3. CASE UNCHANGED req
  BY <1>3
<1>4. ASSUME NEW p \in Requests, Started(p) \/ Goes(p) PROVE req'[r] = req[r]
  BY <1>1, <1>4 DEF Started, Goes, Only
<1> QED
  BY <1>2, <1>3, <1>4, StepMoves DEF StepKinds, CreateWebinar, Tick, CleanupBegin, Works, PassEnds, vars

\* Nobody's grant is taken back.
LEMMA GrantsStay ==
  ASSUME IInv, [Next]_vars, NEW l, HasGrant(l)
  PROVE  \E c \in Requests : Granted(c, l) /\ req'[c] = req[c]
<1>1. PICK c \in Requests : Granted(c, l)
  BY DEF HasGrant
<1>2. req'[c] = req[c]
  BY <1>1, EndedStays DEF Granted, Final
<1> QED
  BY <1>1, <1>2

\* Whatever happens to a request, it is about the same webinar.
LEMMA RequestMoves ==
  ASSUME IInv, [Next]_vars, NEW p \in Requests
  PROVE  \/ req'[p] = req[p]
         \/ Started(p)
         \/ Goes(p)
         \/ Crash /\ InFlight(p) /\ req'[p].pc = "failed" /\ Same(req[p], req'[p])
<1>a. req \in [Requests -> Request] /\ req[p] \in Request
  BY DEF IInv, TypeOK
<1>1. CASE Crash
  BY <1>a, <1>1 DEF Crash, Request, Same
<1>2. CASE UNCHANGED req
  BY <1>2
<1>3. ASSUME NEW r \in Requests, Started(r) \/ Goes(r)
      PROVE  req'[p] = req[p] \/ Started(p) \/ Goes(p)
  BY <1>3 DEF Started, Goes, Only
<1> QED
  BY <1>1, <1>2, <1>3, StepMoves DEF StepKinds, CreateWebinar, Tick, CleanupBegin, Works, PassEnds, vars

\* Requests know what they need to know.
LEMMA ReqStep == IInv /\ [Next]_vars => \A r \in Requests : ReqOK(r)'
<1> SUFFICES ASSUME IInv, [Next]_vars, NEW p \in Requests PROVE ReqOK(p)'
  OBVIOUS
<1> USE WebinarAssumption, NoRowAssumption
<1> DEFINE q == req[p]
           n == req'[p]
<1>a. /\ ReqOK(p) /\ JoinedOK /\ TypeOK /\ SettledOK
  BY DEF IInv
<1>b. ASSUME q.pc # "idle", Same(q, n)
      PROVE  /\ n.user \in Users /\ n.webinar \in Webinars /\ n.seen \in Row /\ IsFiniteSet(n.who)
             /\ phase'[n.webinar] # Unborn
             /\ webinar'[n.webinar] # NoRow => webinar'[n.webinar].creator = n.seen.creator
  <2>1. /\ q.user \in Users /\ q.webinar \in Webinars /\ q.seen \in Row /\ IsFiniteSet(q.who)
        /\ phase[q.webinar] # Unborn
        /\ webinar[q.webinar] # NoRow => webinar[q.webinar].creator = q.seen.creator
    BY <1>a, <1>b DEF ReqOK
  <2>2. /\ phase'[q.webinar] # Unborn
        /\ webinar'[q.webinar] # NoRow =>
             webinar[q.webinar] # NoRow /\ webinar'[q.webinar].creator = webinar[q.webinar].creator
    BY <2>1, WebinarsStay
  <2> QED
    BY <1>b, <2>1, <2>2 DEF Same
<1>c. ASSUME q.pc # "idle", Paid(q), n.ec = q.ec, n.charged = q.charged, n.seen = q.seen
      PROVE  Paid(req[p])'
  <2>1. CASE q.ec = "keep"
    BY <1>c, <2>1 DEF Paid
  <2>2. CASE q.ec = "free"
    <3>1. PICK c \in Requests : Granted(c, q.seen.creator) /\ req'[c] = req[c]
      BY <1>c, <2>2, GrantsStay DEF Paid
    <3> QED
      BY <1>c, <2>2, <3>1 DEF Paid, HasGrant, Granted
  <2> QED
    BY <1>c, <2>1, <2>2 DEF Paid
<1>1. CASE n = q
  <2>1. CASE q.pc = "idle"
    BY <1>1, <2>1 DEF ReqOK
  <2>2. CASE q.pc # "idle"
    <3>1. /\ n.user \in Users /\ n.webinar \in Webinars /\ n.seen \in Row /\ IsFiniteSet(n.who)
          /\ phase'[n.webinar] # Unborn
          /\ webinar'[n.webinar] # NoRow => webinar'[n.webinar].creator = n.seen.creator
      BY <1>b, <1>1, <2>2 DEF Same
    <3>2. n.pc \in {"commit_join", "joined"} => Paid(req[p])'
      BY <1>a, <1>c, <1>1, <2>2 DEF ReqOK
    <3> QED
      BY <1>a, <1>1, <2>2, <3>1, <3>2 DEF ReqOK
  <2> QED
    BY <2>1, <2>2
<1>2. CASE Started(p)
  <2>1. /\ n.user \in Users /\ n.webinar \in Webinars /\ n.seen \in Row /\ IsFiniteSet(n.who)
        /\ phase'[n.webinar] # Unborn
        /\ webinar'[n.webinar] # NoRow => webinar'[n.webinar].creator = n.seen.creator
    BY <1>a, <1>2 DEF Started, JoinedOK, TypeOK, SettledOK, SettledAt, db
  <2> QED
    BY <1>2, <2>1 DEF Started, ReqOK, RegisterPcs, LeavePcs, UpdatePcs
<1>3. CASE Goes(p)
  <2>1. q.pc # "idle" /\ Same(q, n)
    BY <1>3, GoesFacts DEF Goes
  <2>2. /\ n.user \in Users /\ n.webinar \in Webinars /\ n.seen \in Row /\ IsFiniteSet(n.who)
        /\ phase'[n.webinar] # Unborn
        /\ webinar'[n.webinar] # NoRow => webinar'[n.webinar].creator = n.seen.creator
    BY <1>b, <2>1
  <2>3. CASE n.pc \in Final \ {"joined"}
    BY <2>2, <2>3 DEF ReqOK, Final, RegisterPcs, LeavePcs, UpdatePcs
  <2>4. CASE Joins(p)
    <3>1. Paid(req[p])'
      BY <1>a, <1>c, <2>1, <2>4 DEF Joins, Same, ReqOK
    <3> QED
      BY <2>2, <2>4, <3>1 DEF ReqOK, Joins, RegisterPcs, LeavePcs, UpdatePcs
  <2>5. ASSUME NEW c \in Int, Asks(q, n, c), n.pc \notin Final PROVE ReqOK(p)'
    <3>1. CASE q.pc = "find_emergency"
      <4>1. /\ n.pc \in RegisterPcs /\ n.pc # "find_emergency"
            /\ n.pc = "spend" => n.ec = "keep"
            /\ n.pc = "commit_join" => n.ec = "free" /\ HasGrant(n.seen.creator)
            /\ n.user \notin n.who /\ Cardinality(n.who) < n.seen.seats
        BY <1>a, <2>1, <2>5, <3>1
           DEF Asks, ReqOK, JoinedOK, Same, RegisterPcs, LeavePcs, CancelPcs, Final
      <4>2. n.pc = "commit_join" => Paid(req[p])'
        <5>1. ASSUME n.pc = "commit_join"
              PROVE  \E g \in Requests : Granted(g, n.seen.creator) /\ req'[g] = req[g]
          BY <4>1, <5>1, GrantsStay
        <5> QED
          BY <4>1, <5>1 DEF Paid, HasGrant, Granted
      <4> QED
        BY <2>2, <4>1, <4>2 DEF ReqOK, RegisterPcs, LeavePcs, UpdatePcs
    <3>2. CASE q.pc = "spend"
      <4>1. /\ n.pc = "commit_join" /\ n.ec = "keep" /\ n.charged = n.seen.price
            /\ n.user \notin n.who /\ Cardinality(n.who) < n.seen.seats
        BY <1>a, <2>1, <2>5, <3>2
           DEF Asks, ReqOK, Same, RegisterPcs, LeavePcs, CancelPcs, Final
      <4>2. Paid(req[p])'
        BY <4>1 DEF Paid
      <4> QED
        BY <2>2, <4>1, <4>2 DEF ReqOK, RegisterPcs, LeavePcs, UpdatePcs
    <3>3. CASE q.pc \in LeavePcs
      <4>1. n.pc \in LeavePcs /\ n.user \in n.who /\ n.at \in {Week, Days}
        BY <1>a, <2>1, <2>5, <3>3 DEF Asks, ReqOK, Same, LeavePcs, CancelPcs, Final
      <4> QED
        BY <2>2, <4>1 DEF ReqOK, RegisterPcs, LeavePcs, UpdatePcs
    <3>4. CASE q.pc \in CancelPcs
      <4>1. n.pc \in CancelPcs
        BY <2>5, <3>4 DEF Asks, LeavePcs, CancelPcs, Final
      <4> QED
        BY <2>2, <4>1 DEF ReqOK, RegisterPcs, LeavePcs, UpdatePcs, CancelPcs
    <3>5. CASE q.pc = "check_price"
      <4>1. n.pc = "commit_update" /\ n.new \in Row /\ n.new.creator = n.seen.creator
            /\ n.move # Unborn
        BY <1>a, <2>1, <2>5, <3>5 DEF Asks, ReqOK, Same, LeavePcs, CancelPcs, UpdatePcs, Final
      <4> QED
        BY <2>2, <4>1 DEF ReqOK, RegisterPcs, LeavePcs, UpdatePcs
    <3> QED
      BY <2>5, <3>1, <3>2, <3>3, <3>4, <3>5 DEF Asks, LeavePcs, Final
  <2>6. CASE Waits(p)
    <3>1. \/ n.pc = "failed"
          \/ \E c \in Int : Asks(q, n, c)
      BY <2>6 DEF Waits
    <3>2. n.pc # "joined"
      BY <3>1 DEF Asks, CancelPcs
    <3> QED
      BY <2>3, <2>5, <3>1, <3>2 DEF Final
  <2>7. Leaves(p) \/ Cancels(p) \/ Updates(p) => n.pc \in Final \ {"joined"}
    BY DEF Leaves, Cancels, Updates, Final
  <2> QED
    BY <1>3, <2>3, <2>4, <2>6, <2>7 DEF Goes
<1>4. CASE InFlight(p) /\ n.pc = "failed" /\ Same(q, n)
  <2>1. q.pc # "idle"
    BY <1>4 DEF InFlight, InFlightPcs
  <2>2. /\ n.user \in Users /\ n.webinar \in Webinars /\ n.seen \in Row /\ IsFiniteSet(n.who)
        /\ phase'[n.webinar] # Unborn
        /\ webinar'[n.webinar] # NoRow => webinar'[n.webinar].creator = n.seen.creator
    BY <1>4, <1>b, <2>1
  <2> QED
    BY <1>4, <2>2 DEF ReqOK, RegisterPcs, LeavePcs, UpdatePcs
<1> QED
  BY <1>1, <1>2, <1>3, <1>4, RequestMoves

\* How the participants of a webinar change.
LEMMA JoinedMoves ==
  ASSUME IInv, [Next]_vars, NEW w \in Webinars
  PROVE  \/ joined'[w] = joined[w]
         \/ webinar'[w] = NoRow /\ joined'[w] = {}
         \/ \E r \in Requests : /\ Goes(r) /\ Joins(r) /\ req[r].webinar = w
                                /\ joined'[w] = joined[w] \cup {req[r].user}
         \/ \E r \in Requests : /\ Goes(r) /\ Leaves(r) /\ req[r].webinar = w
                                /\ joined'[w] = joined[w] \ {req[r].user}
<1>a. joined \in [Webinars -> SUBSET Users] /\ webinar \in [Webinars -> Row \cup {NoRow}]
  BY DEF IInv, TypeOK
<1>1. ASSUME NEW r \in Requests, Goes(r)
      PROVE  \/ joined'[w] = joined[w]
             \/ webinar'[w] = NoRow /\ joined'[w] = {}
             \/ /\ Joins(r) /\ req[r].webinar = w
                /\ joined'[w] = joined[w] \cup {req[r].user}
             \/ /\ Leaves(r) /\ req[r].webinar = w
                /\ joined'[w] = joined[w] \ {req[r].user}
  <2>1. CASE Waits(r)
    BY <2>1 DEF Waits, db
  <2>2. CASE Joins(r)
    BY <1>a, <2>2 DEF Joins
  <2>3. CASE Leaves(r)
    BY <1>a, <2>3 DEF Leaves, Unjoined
  <2>4. CASE Cancels(r)
    BY <1>a, <2>4 DEF Cancels
  <2>5. CASE Updates(r)
    BY <2>5 DEF Updates
  <2> QED
    BY <1>1, <2>1, <2>2, <2>3, <2>4, <2>5 DEF Goes
<1>2. CASE PassEnds
  BY <1>a, <1>2 DEF PassEnds, StoreAll, db
<1>3. CASE joined' = joined
  BY <1>3
<1>4. \/ joined' = joined \/ PassEnds
      \/ \E r \in Requests : Goes(r)
  BY StepMoves DEF StepKinds, CreateWebinar, Started, Tick, CleanupBegin, Works, Crash, vars, db
<1> QED
  BY <1>1, <1>2, <1>3, <1>4

\* Participants come from registrations, and emergency rows from cancellations.
LEMMA JoinedStep == IInv /\ [Next]_vars => JoinedOK'
<1> SUFFICES ASSUME IInv, [Next]_vars PROVE JoinedOK'
  OBVIOUS
<1>a. JoinedOK /\ TypeOK /\ TypeOK' /\ \A r \in Requests : ReqOK(r)
  BY TypeStep DEF IInv
<1>1. ASSUME NEW l \in emergency' PROVE HasGrant(l)'
  <2>1. CASE l \in emergency
    <3>1. PICK c \in Requests : Granted(c, l) /\ req'[c] = req[c]
      BY <1>a, <2>1, GrantsStay DEF JoinedOK
    <3> QED
      BY <3>1 DEF HasGrant, Granted
  <2>2. CASE l \notin emergency
    <3>1. PICK r \in Requests : Goes(r) /\ Cancels(r) /\ l = req[r].seen.creator /\ req[r].ec = "create"
      <4>1. ASSUME PassEnds PROVE emergency' \subseteq emergency
        BY <4>1 DEF PassEnds, StoreAll, db
      <4>2. ASSUME NEW r \in Requests, Goes(r)
            PROVE  emergency' \subseteq emergency
                   \/ (Cancels(r) /\ emergency' = emergency \cup {req[r].seen.creator}
                       /\ req[r].ec = "create")
        BY <4>2 DEF Goes, Waits, Joins, Leaves, Cancels, Updates, db
      <4>3. \/ emergency' = emergency \/ PassEnds
            \/ \E r \in Requests : Goes(r)
        BY StepMoves DEF StepKinds, CreateWebinar, Started, Tick, CleanupBegin, Works, Crash, vars, db
      <4> QED
        BY <1>1, <2>2, <4>1, <4>2, <4>3
    <3>2. Granted(r, l)'
      BY <3>1 DEF Goes, Cancels, Same, Granted
    <3> QED
      BY <3>2 DEF HasGrant
  <2> QED
    BY <2>1, <2>2
<1>2. ASSUME NEW w \in Webinars
      PROVE  /\ IsFiniteSet(joined'[w])
             /\ \A u \in joined'[w] : \E r \in Requests :
                  req'[r].pc = "joined" /\ req'[r].user = u /\ req'[r].webinar = w
  <2>1. /\ IsFiniteSet(joined[w])
        /\ \A u \in joined[w] : \E r \in Requests :
             req'[r].pc = "joined" /\ req'[r].user = u /\ req'[r].webinar = w
    <3>1. ASSUME NEW u \in joined[w]
          PROVE  \E r \in Requests :
                   req'[r].pc = "joined" /\ req'[r].user = u /\ req'[r].webinar = w
      <4>1. PICK r \in Requests : req[r].pc = "joined" /\ req[r].user = u /\ req[r].webinar = w
        BY <1>a DEF JoinedOK
      <4>2. req'[r] = req[r]
        BY <4>1, EndedStays DEF Final
      <4> QED
        BY <4>1, <4>2
    <3> QED
      BY <1>a, <3>1 DEF JoinedOK
  <2>2. ASSUME NEW r \in Requests, Goes(r), Joins(r), req[r].webinar = w,
               joined'[w] = joined[w] \cup {req[r].user}
        PROVE  /\ IsFiniteSet(joined'[w])
               /\ req'[r].pc = "joined" /\ req'[r].user = req[r].user /\ req'[r].webinar = w
    BY <2>1, <2>2, FS_AddElement DEF Goes, Joins, Same
  <2>3. ASSUME NEW u, joined'[w] = joined[w] \ {u}
        PROVE  IsFiniteSet(joined'[w]) /\ joined'[w] \subseteq joined[w]
    BY <2>1, <2>3, FS_RemoveElement
  <2>4. IsFiniteSet({})
    BY FS_EmptySet
  <2>5. CASE joined'[w] = joined[w] \/ joined'[w] = {}
    BY <2>1, <2>4, <2>5
  <2>6. CASE \E r \in Requests : /\ Goes(r) /\ Joins(r) /\ req[r].webinar = w
                                 /\ joined'[w] = joined[w] \cup {req[r].user}
    BY <2>1, <2>2, <2>6
  <2>7. CASE \E u : joined'[w] = joined[w] \ {u}
    BY <2>1, <2>3, <2>7
  <2> QED
    BY <2>5, <2>6, <2>7, JoinedMoves
<1>3. ASSUME NEW r \in Requests, req'[r].pc = "joined", webinar'[req'[r].webinar] # NoRow,
             req'[r].user \notin joined'[req'[r].webinar]
      PROVE  \E q \in Requests : /\ req'[q].pc = "left" /\ req'[q].user = req'[r].user
                                 /\ req'[q].webinar = req'[r].webinar
  <2> DEFINE u == req'[r].user
             w == req'[r].webinar
  <2>1. CASE req[r].pc = "joined"
    <3>1. req'[r] = req[r] /\ w \in Webinars /\ phase[w] # Unborn
      BY <1>a, <2>1, EndedStays DEF Final, ReqOK
    <3>2. webinar[w] # NoRow
      BY <1>3, <3>1, WebinarsStay
    <3>3. CASE u \in joined[w]
      <4>1. PICK q \in Requests : /\ Goes(q) /\ Leaves(q) /\ req[q].webinar = w
                                  /\ joined'[w] = joined[w] \ {req[q].user}
        BY <1>3, <3>1, <3>3, JoinedMoves
      <4>2. req[q].user = u
        BY <1>3, <3>3, <4>1
      <4> QED
        BY <4>1, <4>2 DEF Goes, Leaves, Same
    <3>4. CASE u \notin joined[w]
      <4>1. PICK q \in Requests : req[q].pc = "left" /\ req[q].user = u /\ req[q].webinar = w
        BY <1>a, <2>1, <3>1, <3>2, <3>4 DEF JoinedOK
      <4>2. req'[q] = req[q]
        BY <4>1, EndedStays DEF Final
      <4> QED
        BY <4>1, <4>2
    <3> QED
      BY <3>3, <3>4
  <2>2. CASE req[r].pc # "joined"
    <3>1. Goes(r) /\ Joins(r)
      <4>1. Goes(r)
        BY <1>3, <2>2, RequestMoves DEF Started, UpdatePcs
      <4> QED
        BY <1>3, <4>1 DEF Goes, Waits, Asks, Leaves, Cancels, Updates, CancelPcs
    <3>2. joined' = [joined EXCEPT ![w] = @ \cup {u}] /\ w \in Webinars
      BY <3>1, GoesFacts DEF Goes, Joins, Same
    <3> QED
      BY <1>a, <1>3, <3>2 DEF TypeOK
  <2> QED
    BY <2>1, <2>2
<1> QED
  BY <1>1, <1>2, <1>3 DEF JoinedOK

-----------------------------------------------------------------------------
(***************************************************************************)
(* The cleanup                                                             *)
(***************************************************************************)
\* The pass knows what it has rated and paid.
LEMMA PassStep == IInv /\ [Next]_vars => PassOK'
<1> SUFFICES ASSUME IInv, [Next]_vars PROVE PassOK'
  OBVIOUS
<1>a. PassOK /\ cleaner \in Cleaner /\ payouts \in [Webinars -> Nat]
  BY DEF IInv, TypeOK
<1>1. CASE UNCHANGED <<cleaner, payouts>>
  BY <1>a, <1>1 DEF PassOK, Todo, Cur, Selected, PaidNow
<1>2. CASE cleaner' = IdleCleaner
  <2>1. IsFiniteSet({})
    BY FS_EmptySet
  <2> QED
    BY <1>2, <2>1 DEF PassOK, IdleCleaner, Selected, PaidNow
<1>3. CASE CleanupBegin
  <2> DEFINE rows == [w \in Webinars |-> IF w \in Ended THEN webinar[w] ELSE NoRow]
             who == [w \in Webinars |-> IF w \in Ended THEN joined[w] ELSE {}]
  <2>1. cleaner' = [IdleCleaner EXCEPT !.pc = "next", !.rows = rows, !.who = who]
    BY <1>3 DEF CleanupBegin
  <2>2. \A w \in Webinars : IsFiniteSet(who[w])
    BY FS_EmptySet DEF IInv, JoinedOK
  <2> HIDE DEF rows, who
  <2>3. /\ cleaner'.pc = "next" /\ cleaner'.who = who /\ cleaner'.dels = {}
        /\ cleaner'.rated = {}
    BY <2>1 DEF IdleCleaner
  <2> QED
    BY <2>2, <2>3 DEF PassOK, PaidNow
<1>4. CASE Works
  <2>1. /\ cleaner' \in Cleaner /\ cleaner'.rows = cleaner.rows /\ cleaner'.who = cleaner.who
        /\ cleaner'.pc # "idle"
    BY <1>4 DEF Works
  <2>2. /\ \A w \in Webinars : Selected(w)' = Selected(w)
        /\ \A w \in Webinars : IsFiniteSet(cleaner'.who[w])
        /\ \A w \in cleaner.dels : Selected(w)
        /\ \A x \in cleaner.rated : Selected(x[1])
        /\ \A w : Selected(w)' <=> Selected(w)
    BY <1>a, <2>1 DEF PassOK, Selected
  <2>3. ASSUME cleaner.pc = "next", cleaner'.cur \in Todo, cleaner'.left = cleaner.who[cleaner'.cur],
               cleaner'.pc = IF cleaner.who[cleaner'.cur] = {} THEN "pay" ELSE "rate",
               cleaner'.rated = cleaner.rated, cleaner'.dels = cleaner.dels,
               UNCHANGED payouts
        PROVE  PassOK'
    BY <1>a, <2>1, <2>2, <2>3 DEF PassOK, Todo, Cur, PaidNow
  <2>4. ASSUME cleaner.pc = "rate", cleaner'.cur = cleaner.cur, UNCHANGED payouts,
               cleaner'.dels = cleaner.dels, NEW u \in cleaner.left,
               cleaner'.left = cleaner.left \ {u},
               cleaner'.rated = cleaner.rated \cup {<<cleaner.cur, u>>},
               cleaner'.pc = IF cleaner.left = {u} THEN "pay" ELSE "rate"
        PROVE  PassOK'
    <3>1. cleaner.cur \in Todo /\ cleaner'.cur \in Todo' /\ Selected(cleaner.cur)
      BY <1>a, <2>1, <2>4 DEF PassOK, Todo, Selected
    <3>2. \A v \in cleaner.who[cleaner.cur] \ cleaner'.left : <<cleaner.cur, v>> \in cleaner'.rated
      BY <1>a, <2>4 DEF PassOK, Cur
    <3>3. \A x \in cleaner'.rated : Selected(x[1])
      BY <2>2, <2>4, <3>1
    <3>4. \A w \in Webinars : PaidNow(w)' <=> PaidNow(w)
      BY <1>a, <2>4, <3>1 DEF PaidNow
    <3>5. \A w \in Webinars : PaidNow(w) => /\ payouts[w] > 0
                                            /\ \A v \in cleaner.who[w] : <<w, v>> \in cleaner.rated
      BY <1>a DEF PassOK
    <3>6. cleaner'.pc = "rate" => cleaner'.left # {}
      BY <2>4
    <3>7. cleaner'.pc = "pay" => cleaner'.left = {}
      BY <2>4
    <3>8. \A w \in Webinars : PaidNow(w)' \/ (cleaner'.pc = "pay" /\ cleaner'.cur = w) =>
            \A v \in cleaner'.who[w] : <<w, v>> \in cleaner'.rated
      BY <2>1, <2>4, <3>2, <3>4, <3>5, <3>7
    <3>9. \A w \in Webinars : PaidNow(w)' => payouts'[w] > 0
      BY <2>4, <3>4, <3>5
    <3> QED
      BY <2>1, <2>2, <2>4, <3>1, <3>2, <3>3, <3>6, <3>8, <3>9 DEF PassOK, Cur
  <2>5. ASSUME cleaner.pc = "pay", cleaner'.pc = "xp", cleaner'.cur = cleaner.cur,
               cleaner'.rated = cleaner.rated, cleaner'.dels = cleaner.dels,
               payouts' = [payouts EXCEPT ![cleaner.cur] = @ + 1]
        PROVE  PassOK'
    <3>1. cleaner.cur \in Webinars /\ cleaner.cur \in Todo /\ cleaner'.cur \in Todo'
      BY <1>a, <2>1, <2>5 DEF PassOK, Todo
    <3>2. payouts'[cleaner.cur] > 0 /\ \A w \in Webinars : payouts[w] > 0 => payouts'[w] > 0
      BY <1>a, <2>5, <3>1
    <3> QED
      BY <1>a, <2>1, <2>2, <2>5, <3>1, <3>2 DEF PassOK, Cur, PaidNow
  <2>6. ASSUME cleaner.pc = "xp", cleaner'.pc = "next", cleaner'.rated = cleaner.rated,
               cleaner'.dels = cleaner.dels \cup {cleaner.cur}, UNCHANGED payouts
        PROVE  PassOK'
    <3>1. cleaner.cur \in Webinars /\ cleaner.cur \in Todo /\ Selected(cleaner.cur)
      BY <1>a, <2>6 DEF PassOK, Todo, Selected
    <3>2. \A w : PaidNow(w)' <=> PaidNow(w)
      BY <2>6 DEF PaidNow
    <3> QED
      BY <1>a, <2>1, <2>2, <2>6, <3>1, <3>2 DEF PassOK, Cur
  <2> QED
    BY <1>4, <2>3, <2>4, <2>5, <2>6 DEF Works
<1>5. ASSUME NEW r \in Requests, Goes(r) PROVE UNCHANGED <<cleaner, payouts>>
  BY <1>5 DEF Goes
<1> QED
  BY <1>1, <1>2, <1>3, <1>4, <1>5, StepMoves
     DEF StepKinds, CreateWebinar, Started, Tick, PassEnds, Crash, vars, ghost

\* A row is there only when it was, or is announced.
LEMMA NewRows ==
  ASSUME IInv, [Next]_vars, NEW w \in Webinars, webinar'[w] # NoRow, phase[w] = Unborn
  PROVE  /\ phase'[w] # Unborn /\ UNCHANGED <<payouts, ratings, failures, balance, cleaner, joined>>
         /\ \E u \in Users, p \in Prices, k \in Seats, ph \in Phases : CreateWebinar(u, w, p, k, ph)
<1>a. /\ webinar \in [Webinars -> Row \cup {NoRow}] /\ phase \in [Webinars -> Phases]
      /\ webinar[w] = NoRow /\ Starts \subseteq {Week, Days, Soon}
  BY WebinarAssumption DEF IInv, TypeOK, SettledOK, SettledAt
<1>1. ASSUME NEW u \in Users, NEW v \in Webinars, NEW p \in Prices, NEW k \in Seats,
             NEW ph \in Phases, CreateWebinar(u, v, p, k, ph)
      PROVE  /\ phase'[w] # Unborn /\ v = w
             /\ UNCHANGED <<payouts, ratings, failures, balance, cleaner, joined>>
  BY <1>a, <1>1 DEF CreateWebinar, ghost, Week, Days, Soon, Unborn
<1>2. CASE webinar' = webinar
  BY <1>a, <1>2
<1>3. ASSUME NEW r \in Requests, Goes(r) PROVE FALSE
  <2>1. CASE Updates(r)
    <3>1. req[r].webinar # w /\ req[r].webinar \in Webinars
      BY <1>a, <1>3, <2>1, GoesFacts DEF Updates
    <3> QED
      BY <1>a, <1>3, <2>1, <3>1, UpdatesRow
  <2>2. CASE Cancels(r)
    BY <1>a, <2>2 DEF Cancels
  <2>3. CASE Waits(r) \/ Joins(r) \/ Leaves(r)
    BY <1>a, <2>3 DEF Waits, Joins, Leaves, db
  <2> QED
    BY <1>3, <2>1, <2>2, <2>3 DEF Goes
<1>4. CASE PassEnds
  BY <1>a, <1>4 DEF PassEnds, StoreAll, db
<1>5. \/ webinar' = webinar \/ PassEnds
      \/ \E r \in Requests : Goes(r)
      \/ \E u \in Users, v \in Webinars, p \in Prices, k \in Seats, ph \in Phases :
           CreateWebinar(u, v, p, k, ph)
  BY StepMoves DEF StepKinds, Started, Tick, CleanupBegin, Works, Crash, vars, db
<1> QED
  BY <1>1, <1>2, <1>3, <1>4, <1>5

\* A pass that ends without a failure removes everything it has selected.
LEMMA EndRemoves ==
  ASSUME IInv, PassEnds, failures' = failures, NEW w \in Webinars, Selected(w)
  PROVE  webinar'[w] = NoRow /\ ~Selected(w)'
<1>1. /\ Todo = {} /\ StoreAll(cleaner.rated, cleaner.spent, cleaner.dels) /\ cleaner' = IdleCleaner
  BY DEF PassEnds, IInv, TypeOK
<1>2. w \in cleaner.dels
  BY <1>1 DEF Todo, Selected
<1> QED
  BY <1>1, <1>2 DEF StoreAll, IdleCleaner, Selected

\* Who changes what the shop was asked for, and what was rated.
LEMMA SettlesMove ==
  ASSUME IInv, [Next]_vars, NEW w \in Webinars
  PROVE  /\ failures' \in {failures, failures + 1}
         /\ \/ payouts'[w] = payouts[w]
            \/ /\ payouts'[w] = payouts[w] + 1 /\ cleaner.pc = "pay" /\ Cur = w
               /\ failures' = failures => PaidNow(w)'
         /\ \A u \in Users :
              \/ ratings'[<<w, u>>] = ratings[<<w, u>>]
              \/ /\ ratings'[<<w, u>>] = ratings[<<w, u>>] + 1 /\ Selected(w) /\ PassEnds
         /\ Selected(w)' => Selected(w) \/ webinar[w] # NoRow
         /\ phase[w] = Unborn => balance'[w] = balance[w]
         /\ failures' = failures /\ PaidNow(w) => PaidNow(w)' \/ PassEnds
<1>a. /\ payouts \in [Webinars -> Nat] /\ ratings \in [Webinars \X Users -> Nat]
      /\ balance \in [Webinars -> Int] /\ failures \in Nat /\ cleaner \in Cleaner
      /\ \A v \in Webinars : Selected(v) => phase[v] # Unborn
  BY DEF IInv, TypeOK, SettledOK, SettledAt
<1>1. CASE UNCHANGED <<payouts, ratings, cleaner>> /\ (balance'[w] = balance[w] \/ phase[w] # Unborn)
           /\ failures' \in {failures, failures + 1}
  BY <1>1 DEF Selected, PaidNow
<1>2. ASSUME NEW r \in Requests, Goes(r)
      PROVE  /\ UNCHANGED <<payouts, ratings, cleaner>>
             /\ balance'[w] = balance[w] \/ phase[w] # Unborn
             /\ failures' \in {failures, failures + 1}
  <2>1. UNCHANGED <<payouts, ratings, cleaner>> /\ failures' \in {failures, failures + 1}
    BY <1>2 DEF Goes, Waits, Joins, Leaves, Cancels, Updates
  <2>2. CASE Waits(r)
    <3>1. PICK c \in Int : balance' = [balance EXCEPT ![req[r].webinar] = @ + c]
      BY <2>2 DEF Waits, Earn
    <3>2. phase[req[r].webinar] # Unborn
      BY <1>2, GoesFacts DEF ReqOK
    <3> QED
      BY <1>a, <2>1, <3>1, <3>2
  <2>3. CASE balance' = balance
    BY <2>1, <2>3
  <2> QED
    BY <1>2, <2>2, <2>3 DEF Goes, Joins, Leaves, Cancels, Updates
<1>3. CASE CleanupBegin
  <2>1. cleaner'.rows = [v \in Webinars |-> IF v \in Ended THEN webinar[v] ELSE NoRow]
    BY <1>3 DEF CleanupBegin, IdleCleaner
  <2>2. Selected(w)' => webinar[w] # NoRow
    BY <2>1 DEF Selected
  <2>3. ~PaidNow(w)
    BY <1>3 DEF CleanupBegin, PaidNow, IInv, PassOK, IdleCleaner
  <2> QED
    BY <1>3, <2>2, <2>3 DEF CleanupBegin, db
<1>4. CASE Works
  <2>1. /\ UNCHANGED <<ratings, failures>> /\ Selected(w)' = Selected(w)
    BY <1>4 DEF Works, db, Selected
  <2>2. CASE UNCHANGED <<payouts, balance>>
    <3>1. PaidNow(w) => PaidNow(w)'
      BY <1>4, <2>2 DEF Works, PaidNow
    <3> QED
      BY <2>1, <2>2, <3>1
  <2>3. CASE ~ UNCHANGED <<payouts, balance>>
    <3>1. /\ cleaner.pc = "pay" /\ cleaner'.pc = "xp" /\ cleaner'.cur = Cur
          /\ cleaner'.dels = cleaner.dels
          /\ payouts' = [payouts EXCEPT ![Cur] = @ + 1] /\ Earn(Cur, -Payout)
      BY <1>4, <2>3 DEF Works, Cur
    <3>2. Cur \in Webinars /\ Selected(Cur)
      BY <3>1 DEF IInv, PassOK, Todo, Cur, Selected
    <3>3. PaidNow(w) \/ Cur = w => PaidNow(w)'
      BY <3>1 DEF PaidNow
    <3>4. payouts'[w] = payouts[w] \/ (payouts'[w] = payouts[w] + 1 /\ Cur = w)
      BY <1>a, <3>1, <3>2
    <3>5. phase[w] = Unborn => balance'[w] = balance[w]
      BY <1>a, <3>1, <3>2 DEF Earn
    <3> QED
      BY <2>1, <3>1, <3>3, <3>4, <3>5
  <2> QED
    BY <2>2, <2>3
<1>5. CASE PassEnds
  <2>1. failures' \in {failures, failures + 1} /\ ~Selected(w)'
    BY <1>5 DEF PassEnds, Selected, IdleCleaner
  <2>2. /\ \/ payouts'[w] = payouts[w]
           \/ /\ payouts'[w] = payouts[w] + 1 /\ cleaner.pc = "pay" /\ Cur = w
              /\ failures' # failures
        /\ phase[w] = Unborn => balance'[w] = balance[w]
    <3>1. CASE UNCHANGED <<payouts, balance>>
      BY <3>1
    <3>2. CASE /\ cleaner.pc = "pay" /\ failures' = failures + 1
               /\ payouts' = [payouts EXCEPT ![Cur] = @ + 1] /\ Earn(Cur, -Payout)
      <4>1. Cur \in Webinars /\ Selected(Cur)
        BY <3>2 DEF IInv, PassOK, Todo, Cur, Selected
      <4>2. phase[w] = Unborn => balance'[w] = balance[w]
        BY <1>a, <3>2, <4>1 DEF Earn
      <4>3. failures' # failures
        BY <1>a, <3>2
      <4> QED
        BY <1>a, <3>2, <4>1, <4>2, <4>3
    <3> QED
      BY <1>5, <3>1, <3>2 DEF PassEnds
  <2>3. ASSUME NEW u \in Users
        PROVE  \/ ratings'[<<w, u>>] = ratings[<<w, u>>]
               \/ ratings'[<<w, u>>] = ratings[<<w, u>>] + 1 /\ Selected(w)
    <3>1. CASE UNCHANGED ratings
      BY <3>1
    <3>2. ASSUME NEW rated, ratings' = OneMore(rated), \A x \in rated : Selected(x[1])
          PROVE  \/ ratings'[<<w, u>>] = ratings[<<w, u>>]
                 \/ ratings'[<<w, u>>] = ratings[<<w, u>>] + 1 /\ Selected(w)
      <4>1. ratings'[<<w, u>>] = ratings[<<w, u>>] + IF <<w, u>> \in rated THEN 1 ELSE 0
        BY <1>a, <3>2 DEF OneMore
      <4>2. <<w, u>> \in rated => Selected(w)
        BY <3>2
      <4>3. ratings[<<w, u>>] \in Nat
        BY <1>a
      <4> QED
        BY <4>1, <4>2, <4>3
    <3>3. \A x \in cleaner.rated : Selected(x[1])
      BY DEF IInv, PassOK
    <3> QED
      BY <1>5, <3>1, <3>2, <3>3 DEF PassEnds, StoreAll, db
  <2> QED
    BY <1>5, <2>1, <2>2, <2>3
<1>6. CASE Crash
  <2>1. /\ failures' = failures + 1 /\ cleaner' = IdleCleaner
        /\ UNCHANGED <<payouts, ratings, balance>>
    BY <1>6 DEF Crash, Fail, db, ghost
  <2>2. failures \in Nat
    BY <1>a
  <2>3. failures' # failures
    BY <2>1, <2>2
  <2>4. ~Selected(w)'
    BY <2>1 DEF Selected, IdleCleaner
  <2> QED
    BY <2>1, <2>3, <2>4
<1>7. \/ UNCHANGED <<payouts, ratings, cleaner, balance, failures>>
      \/ \E r \in Requests : Goes(r)
      \/ CleanupBegin \/ Works \/ PassEnds \/ Crash
  BY StepMoves DEF StepKinds, CreateWebinar, Started, Tick, vars, db, ghost
<1> QED
  BY <1>1, <1>2, <1>3, <1>4, <1>5, <1>6, <1>7

\* A webinar is settled once, and once more at most for every failure.
LEMMA SettledStep == IInv /\ [Next]_vars => SettledOK'
<1> SUFFICES ASSUME IInv, [Next]_vars, NEW w \in Webinars PROVE SettledAt(w)'
  BY DEF SettledOK
<1> DEFINE Live == webinar[w] # NoRow \/ Selected(w)
<1>a. /\ SettledAt(w) /\ payouts[w] \in Nat /\ failures \in Nat
      /\ \A u \in Users : ratings[<<w, u>>] \in Nat
  BY DEF IInv, SettledOK, TypeOK
<1>b. /\ cleaner.pc = "pay" /\ Cur = w => Selected(w) /\ ~PaidNow(w)
      /\ PaidNow(w) => Selected(w)
  BY DEF IInv, PassOK, Todo, Cur, Selected, PaidNow
<1>1. /\ failures' \in {failures, failures + 1}
      /\ \/ payouts'[w] = payouts[w]
         \/ /\ payouts'[w] = payouts[w] + 1 /\ cleaner.pc = "pay" /\ Cur = w
            /\ failures' = failures => PaidNow(w)'
      /\ \A u \in Users :
           \/ ratings'[<<w, u>>] = ratings[<<w, u>>]
           \/ /\ ratings'[<<w, u>>] = ratings[<<w, u>>] + 1 /\ Selected(w) /\ PassEnds
      /\ Selected(w)' => Selected(w) \/ webinar[w] # NoRow
      /\ phase[w] = Unborn => balance'[w] = balance[w]
      /\ failures' = failures /\ PaidNow(w) => PaidNow(w)' \/ PassEnds
  BY SettlesMove
<1>2. payouts'[w] <= 1 + failures'
  <2>1. CASE payouts'[w] = payouts[w]
    BY <1>a, <1>1, <2>1 DEF SettledAt
  <2>2. CASE payouts'[w] = payouts[w] + 1 /\ cleaner.pc = "pay" /\ Cur = w
    <3>1. payouts[w] <= failures
      BY <1>a, <1>b, <2>2 DEF SettledAt
    <3> QED
      BY <1>a, <1>1, <2>2, <3>1
  <2> QED
    BY <1>1, <2>1, <2>2
<1>3. ASSUME NEW u \in Users PROVE ratings'[<<w, u>>] <= 1 + failures'
  <2>1. CASE ratings'[<<w, u>>] = ratings[<<w, u>>]
    BY <1>a, <1>1, <2>1 DEF SettledAt
  <2>2. CASE ratings'[<<w, u>>] = ratings[<<w, u>>] + 1 /\ Selected(w)
    <3>1. ratings[<<w, u>>] <= failures
      BY <1>a, <2>2 DEF SettledAt
    <3> QED
      BY <1>a, <1>1, <2>2, <3>1
  <2> QED
    BY <1>1, <2>1, <2>2
<1>4. ASSUME Live'
      PROVE  /\ phase'[w] # Unborn
             /\ ~PaidNow(w)' => payouts'[w] <= failures'
             /\ \A u \in Users : ratings'[<<w, u>>] <= failures'
  <2>1. CASE phase[w] = Unborn
    <3>1. webinar'[w] # NoRow
      BY <1>a, <1>1, <1>4, <2>1 DEF SettledAt
    <3>2. phase'[w] # Unborn /\ UNCHANGED <<payouts, ratings, failures>>
      BY <2>1, <3>1, NewRows
    <3> QED
      BY <1>a, <2>1, <3>2 DEF SettledAt
  <2>2. CASE phase[w] # Unborn
    <3>1. phase'[w] # Unborn /\ Live
      BY <1>1, <1>4, <2>2, WebinarsStay
    <3>2. failures' = failures /\ PassEnds => ~Selected(w)
      BY <1>4, EndRemoves
    <3>3. ASSUME ~PaidNow(w)' PROVE payouts'[w] <= failures'
      <4>1. CASE failures' = failures
        <5>1. ~PaidNow(w)
          BY <1>b, <1>1, <3>2, <3>3, <4>1
        <5>2. payouts[w] <= failures /\ payouts'[w] = payouts[w]
          BY <1>a, <1>1, <3>1, <3>3, <4>1, <5>1 DEF SettledAt
        <5> QED
          BY <4>1, <5>2
      <4>2. CASE failures' = failures + 1
        <5>1. CASE payouts'[w] = payouts[w]
          BY <1>a, <4>2, <5>1 DEF SettledAt
        <5>2. CASE payouts'[w] = payouts[w] + 1 /\ cleaner.pc = "pay" /\ Cur = w
          <6>1. payouts[w] <= failures
            BY <1>a, <1>b, <5>2 DEF SettledAt
          <6> QED
            BY <1>a, <4>2, <5>2, <6>1
        <5> QED
          BY <1>1, <5>1, <5>2
      <4> QED
        BY <1>1, <4>1, <4>2
    <3>4. ASSUME NEW u \in Users PROVE ratings'[<<w, u>>] <= failures'
      <4>1. ratings[<<w, u>>] <= failures
        BY <1>a, <3>1 DEF SettledAt
      <4>2. CASE failures' = failures
        BY <1>1, <3>2, <4>1, <4>2
      <4>3. CASE failures' = failures + 1
        BY <1>a, <1>1, <4>1, <4>3
      <4> QED
        BY <1>1, <4>2, <4>3
    <3> QED
      BY <3>1, <3>3, <3>4
  <2> QED
    BY <2>1, <2>2
<1>5. ASSUME phase'[w] = Unborn
      PROVE  payouts'[w] = 0 /\ balance'[w] = 0 /\ \A u \in Users : ratings'[<<w, u>>] = 0
  <2>1. phase[w] = Unborn
    BY <1>5, WebinarsStay
  <2>2. ~Selected(w)
    BY <1>a, <2>1 DEF SettledAt
  <2> QED
    BY <1>a, <1>b, <1>1, <2>1, <2>2 DEF SettledAt
<1> QED
  BY <1>2, <1>3, <1>4, <1>5 DEF SettledAt

\* What holds of the webinars that are not irregular, for one of them.
AloneAt(w) ==
  /\ \A r, q \in Requests : r # q => ~(At(r, w) /\ At(q, w))
  /\ \A r \in Requests : At(r, w) =>
       ~Selected(w) /\ webinar[w] = req[r].seen /\ joined[w] = req[r].who
  /\ Selected(w) => webinar[w] = cleaner.rows[w] /\ joined[w] = cleaner.who[w]

\* While nothing is read or written of a webinar, what was read of it holds.
LEMMA AloneKept ==
  ASSUME NEW w \in Webinars, AloneAt(w),
         \A p \in Requests : At(p, w)' => /\ At(p, w)
                                          /\ req'[p].seen = req[p].seen /\ req'[p].who = req[p].who
                                          /\ webinar'[w] = webinar[w] /\ joined'[w] = joined[w],
         Selected(w)' => /\ Selected(w)
                         /\ cleaner'.rows[w] = cleaner.rows[w] /\ cleaner'.who[w] = cleaner.who[w]
                         /\ webinar'[w] = webinar[w] /\ joined'[w] = joined[w]
  PROVE  AloneAt(w)'
<1>1. \A r, q \in Requests : r # q => ~(At(r, w)' /\ At(q, w)')
  BY DEF AloneAt
<1>2. \A r \in Requests : At(r, w)' =>
        ~Selected(w)' /\ webinar'[w] = req'[r].seen /\ joined'[w] = req'[r].who
  BY DEF AloneAt
<1>3. Selected(w)' => webinar'[w] = cleaner'.rows[w] /\ joined'[w] = cleaner'.who[w]
  BY DEF AloneAt
<1> QED
  BY <1>1, <1>2, <1>3 DEF AloneAt

\* A webinar that is regular after a step was regular before it.
LEMMA RegularBefore ==
  ASSUME IInv, [Next]_vars, NEW w \in Webinars, w \notin irregular'
  PROVE  w \notin irregular /\ AloneAt(w)
<1>1. irregular \subseteq irregular'
  BY StepMoves DEF StepKinds, CreateWebinar, Started, Goes, Waits, Joins, Leaves, Cancels, Updates,
     Tick, CleanupBegin, Works, PassEnds, Crash, vars, ghost
<1> QED
  BY <1>1 DEF IInv, Alone, AloneAt

\* Nobody works on a webinar that has not been announced.
LEMMA UnbornIsFree ==
  ASSUME IInv, NEW w \in Webinars, phase[w] = Unborn
  PROVE  /\ \A p \in Requests : ~At(p, w)
         /\ ~Selected(w) /\ webinar[w] = NoRow /\ joined[w] = {} /\ balance[w] = 0
<1>1. \A p \in Requests : At(p, w) => phase[w] # Unborn
  BY DEF IInv, ReqOK, At, InFlight, InFlightPcs
<1> QED
  BY <1>1 DEF IInv, SettledOK, SettledAt, TypeOK

\* Once it has joined, left, cancelled or updated, a request is at its end.
LEMMA WritesEnd ==
  ASSUME NEW r \in Requests, NEW w, Joins(r) \/ Leaves(r) \/ Cancels(r) \/ Updates(r)
  PROVE  ~At(r, w)'
BY DEF Joins, Leaves, Cancels, Updates, At, InFlight, InFlightPcs

\* A request that goes on changes its own webinar only.
LEMMA OthersStay ==
  ASSUME IInv, NEW r \in Requests, Goes(r), NEW w \in Webinars, req[r].webinar # w
  PROVE  /\ webinar'[w] = webinar[w] /\ joined'[w] = joined[w] /\ balance'[w] = balance[w]
         /\ cleaner' = cleaner
         /\ \A p \in Requests : At(p, w)' <=> At(p, w)
         /\ \A p \in Requests : At(p, w) => req'[p] = req[p]
<1>a. /\ webinar \in [Webinars -> Row \cup {NoRow}] /\ joined \in [Webinars -> SUBSET Users]
      /\ balance \in [Webinars -> Int] /\ req[r].webinar \in Webinars
  BY GoesFacts DEF IInv, TypeOK
<1>1. req'[r].webinar = req[r].webinar /\ (\A p \in Requests \ {r} : req'[p] = req[p])
  BY DEF Goes, Same, Only
<1>2. \A p \in Requests : (At(p, w)' <=> At(p, w)) /\ (At(p, w) => req'[p] = req[p])
  BY <1>1 DEF At, InFlight
<1>3. cleaner' = cleaner
  BY DEF Goes
<1>4. CASE Waits(r)
  BY <1>a, <1>2, <1>3, <1>4 DEF Waits, db, Earn
<1>5. CASE Joins(r)
  BY <1>a, <1>2, <1>3, <1>5 DEF Joins
<1>6. CASE Leaves(r)
  BY <1>a, <1>2, <1>3, <1>6 DEF Leaves, Unjoined
<1>7. CASE Cancels(r)
  BY <1>a, <1>2, <1>3, <1>7 DEF Cancels
<1>8. CASE Updates(r)
  BY <1>a, <1>2, <1>3, <1>8 DEF Updates, Updated
<1> QED
  BY <1>4, <1>5, <1>6, <1>7, <1>8 DEF Goes

\* A request that goes on at a regular webinar is the only one at it.
LEMMA GoesAlone ==
  ASSUME IInv, NEW r \in Requests, Goes(r), NEW w \in Webinars, req[r].webinar = w, AloneAt(w)
  PROVE  /\ \A p \in Requests \ {r} : ~At(p, w) /\ ~At(p, w)'
         /\ ~Selected(w) /\ ~PaidNow(w) /\ cleaner' = cleaner
         /\ webinar[w] = req[r].seen /\ webinar[w] \in Row /\ webinar[w] # NoRow
         /\ joined[w] = req[r].who
<1>1. At(r, w) /\ req[r].seen \in Row
  BY GoesFacts
<1>2. \A p \in Requests \ {r} : ~At(p, w) /\ req'[p] = req[p]
  BY <1>1 DEF AloneAt, Goes, Only
<1>3. \A p \in Requests \ {r} : ~At(p, w)'
  BY <1>2 DEF At, InFlight
<1>4. ~Selected(w) /\ webinar[w] = req[r].seen /\ joined[w] = req[r].who
  BY <1>1 DEF AloneAt
<1>5. ~PaidNow(w)
  BY <1>4 DEF IInv, PassOK, PaidNow, Todo, Selected
<1>6. cleaner' = cleaner
  BY DEF Goes
<1> QED
  BY <1>1, <1>2, <1>3, <1>4, <1>5, <1>6, NoRowAssumption

\* What was read of a regular webinar stays true of it until it is used.
LEMMA AloneStep == IInv /\ [Next]_vars => Alone'
<1> SUFFICES ASSUME IInv, [Next]_vars, NEW w \in Webinars, w \notin irregular'
             PROVE  AloneAt(w)'
  BY DEF Alone, AloneAt
<1>a. w \notin irregular /\ AloneAt(w)
  BY RegularBefore
<1>b. /\ webinar \in [Webinars -> Row \cup {NoRow}] /\ joined \in [Webinars -> SUBSET Users]
  BY DEF IInv, TypeOK
<1>1. ASSUME NEW u \in Users, NEW v \in Webinars, NEW p \in Prices, NEW k \in Seats,
             NEW ph \in Phases, CreateWebinar(u, v, p, k, ph)
      PROVE  AloneAt(w)'
  <2>1. req' = req /\ cleaner' = cleaner /\ joined' = joined
    BY <1>1 DEF CreateWebinar
  <2>2. \A q \in Requests : At(q, w)' <=> At(q, w)
    BY <2>1 DEF At, InFlight
  <2>3. Selected(w)' <=> Selected(w)
    BY <2>1 DEF Selected
  <2>4. CASE v = w
    <3>1. (\A q \in Requests : ~At(q, w)) /\ ~Selected(w)
      BY <1>1, <2>4, UnbornIsFree DEF CreateWebinar
    <3> QED
      BY <1>a, <2>2, <2>3, <3>1, AloneKept
  <2>5. CASE v # w
    <3>1. webinar'[w] = webinar[w]
      BY <1>1, <1>b, <2>5 DEF CreateWebinar
    <3> QED
      BY <1>a, <2>1, <2>2, <2>3, <3>1, AloneKept
  <2> QED
    BY <2>4, <2>5
<1>2. ASSUME NEW r \in Requests, Started(r) PROVE AloneAt(w)'
  <2>1. /\ UNCHANGED <<webinar, joined, cleaner>>
        /\ \A p \in Requests \ {r} : req'[p] = req[p]
    BY <1>2 DEF Started, Only, db
  <2>2. \A p \in Requests \ {r} : At(p, w)' <=> At(p, w)
    BY <2>1 DEF At, InFlight
  <2>3. Selected(w)' <=> Selected(w)
    BY <2>1 DEF Selected
  <2>4. CASE req'[r].webinar = w
    <3>1. (\A q \in Requests : ~At(q, w)) /\ ~Selected(w)
      BY <1>2, <2>4 DEF Started
    <3>2. webinar'[w] = req'[r].seen /\ joined'[w] = req'[r].who
      BY <1>2, <2>1, <2>4 DEF Started
    <3>3. \A p, q \in Requests : p # q => ~(At(p, w)' /\ At(q, w)')
      BY <2>2, <3>1
    <3>4. \A p \in Requests : At(p, w)' =>
            ~Selected(w)' /\ webinar'[w] = req'[p].seen /\ joined'[w] = req'[p].who
      BY <2>2, <2>3, <3>1, <3>2
    <3> QED
      BY <2>3, <3>1, <3>3, <3>4 DEF AloneAt
  <2>5. CASE req'[r].webinar # w
    <3>1. ~At(r, w)'
      BY <2>5 DEF At
    <3> QED
      BY <1>a, <2>1, <2>2, <2>3, <3>1, AloneKept
  <2> QED
    BY <2>4, <2>5
<1>3. ASSUME NEW r \in Requests, Goes(r) PROVE AloneAt(w)'
  <2>1. CASE req[r].webinar # w
    <3>1. Selected(w)' <=> Selected(w)
      BY <1>3, <2>1, OthersStay DEF Selected
    <3> QED
      BY <1>3, <1>a, <2>1, <3>1, OthersStay, AloneKept
  <2>2. CASE req[r].webinar = w
    <3>1. /\ \A p \in Requests \ {r} : ~At(p, w)'
          /\ ~Selected(w) /\ cleaner' = cleaner
      BY <1>3, <1>a, <2>2, GoesAlone
    <3>2. ~Selected(w)'
      BY <3>1 DEF Selected
    <3>3. At(r, w) /\ req'[r].seen = req[r].seen /\ req'[r].who = req[r].who
      BY <1>3, <2>2, GoesFacts DEF Goes, Same
    <3>4. At(r, w)' => webinar'[w] = webinar[w] /\ joined'[w] = joined[w]
      BY <1>3, WritesEnd DEF Goes, Waits, db
    <3> QED
      BY <1>a, <3>1, <3>2, <3>3, <3>4, AloneKept
  <2> QED
    BY <2>1, <2>2
<1>4. CASE UNCHANGED <<webinar, joined, req, cleaner>>
  <2>1. /\ \A p \in Requests : At(p, w)' <=> At(p, w)
        /\ Selected(w)' <=> Selected(w)
    BY <1>4 DEF At, InFlight, Selected
  <2> QED
    BY <1>4, <1>a, <2>1, AloneKept
<1>5. CASE CleanupBegin
  <2>1. /\ UNCHANGED <<webinar, joined, req>>
        /\ \A p \in Requests : At(p, w)' <=> At(p, w)
    BY <1>5 DEF CleanupBegin, db, At, InFlight
  <2>2. /\ cleaner'.rows[w] = IF w \in Ended THEN webinar[w] ELSE NoRow
        /\ cleaner'.who[w] = IF w \in Ended THEN joined[w] ELSE {}
    BY <1>5 DEF CleanupBegin, IdleCleaner
  <2>3. CASE w \in Ended
    <3>1. \A p \in Requests : ~At(p, w)'
      BY <1>5, <2>1, <2>3 DEF CleanupBegin, At
    <3> QED
      BY <2>1, <2>2, <2>3, <3>1 DEF AloneAt
  <2>4. CASE w \notin Ended
    <3>1. ~Selected(w)'
      BY <2>2, <2>4 DEF Selected
    <3> QED
      BY <1>a, <2>1, <3>1, AloneKept
  <2> QED
    BY <2>3, <2>4
<1>6. CASE Works
  <2>1. /\ UNCHANGED <<webinar, joined, req>>
        /\ cleaner'.rows = cleaner.rows /\ cleaner'.who = cleaner.who
    BY <1>6 DEF Works, db
  <2>2. /\ \A p \in Requests : At(p, w)' <=> At(p, w)
        /\ Selected(w)' <=> Selected(w)
    BY <2>1 DEF At, InFlight, Selected
  <2> QED
    BY <1>a, <2>1, <2>2, AloneKept
<1>7. CASE PassEnds
  <2>1. ~Selected(w)' /\ req' = req
    BY <1>7 DEF PassEnds, Selected, IdleCleaner
  <2>2. \A p \in Requests : At(p, w)' <=> At(p, w)
    BY <2>1 DEF At, InFlight
  <2>3. ~Selected(w) => webinar'[w] = webinar[w] /\ joined'[w] = joined[w]
    <3>1. ~Selected(w) => w \notin cleaner.dels
      BY DEF IInv, PassOK
    <3> QED
      BY <1>7, <3>1 DEF PassEnds, StoreAll, db
  <2>4. \A p \in Requests : At(p, w) => ~Selected(w)
    BY <1>a DEF AloneAt
  <2> QED
    BY <1>a, <2>1, <2>2, <2>3, <2>4, AloneKept
<1>8. CASE Crash
  <2>1. ~Selected(w)'
    BY <1>8 DEF Crash, Selected, IdleCleaner
  <2>2. \A p \in Requests : ~At(p, w)'
    BY <1>8 DEF Crash, At, InFlight, InFlightPcs, IInv, TypeOK, Request
  <2> QED
    BY <1>a, <2>1, <2>2, AloneKept
<1>9. ASSUME NEW v \in Webinars, Tick(v) PROVE AloneAt(w)'
  BY <1>4, <1>9 DEF Tick, db
<1>10. CASE UNCHANGED vars
  BY <1>4, <1>10 DEF vars, db
<1> QED
  BY StepMoves, <1>1, <1>2, <1>3, <1>5, <1>6, <1>7, <1>8, <1>9, <1>10 DEF StepKinds

-----------------------------------------------------------------------------
(***************************************************************************)
(* Seats and coins                                                         *)
(***************************************************************************)
\* How the participants of a webinar and its row change together.
RowKept(w) == webinar'[w] = webinar[w] /\ joined'[w] = joined[w]

\* A webinar is announced without participants; then its row and participants
\* stay, or a request writes them, or it is removed.
LEMMA RowMoves ==
  ASSUME IInv, [Next]_vars, NEW w \in Webinars
  PROVE  \/ RowKept(w)
         \/ webinar'[w] = NoRow /\ joined'[w] = {}
         \/ phase[w] = Unborn /\ webinar'[w] \in Row /\ joined'[w] = {}
         \/ \E r \in Requests : Goes(r) /\ req[r].webinar = w /\ (Joins(r) \/ Leaves(r) \/ Updates(r))
<1> USE WebinarAssumption
<1>b. /\ webinar \in [Webinars -> Row \cup {NoRow}] /\ joined \in [Webinars -> SUBSET Users]
  BY DEF IInv, TypeOK
<1>1. ASSUME NEW u \in Users, NEW v \in Webinars, NEW p \in Prices, NEW k \in Seats,
             NEW ph \in Phases, CreateWebinar(u, v, p, k, ph)
      PROVE  RowKept(w) \/ (phase[w] = Unborn /\ webinar'[w] \in Row /\ joined'[w] = {})
  <2> DEFINE row == [creator |-> u, price |-> p, seats |-> k]
  <2>1. /\ webinar' = [webinar EXCEPT ![v] = row] /\ joined' = joined /\ phase[v] = Unborn
    BY <1>1 DEF CreateWebinar
  <2>2. row \in Row
    BY DEF Row
  <2> HIDE DEF row
  <2>3. CASE v = w
    <3>1. joined[w] = {}
      BY <2>1, <2>3, UnbornIsFree
    <3> QED
      BY <1>b, <2>1, <2>2, <2>3, <3>1
  <2>4. CASE v # w
    BY <1>b, <2>1, <2>4 DEF RowKept
  <2> QED
    BY <2>3, <2>4
<1>2. CASE UNCHANGED <<webinar, joined>>
  BY <1>2 DEF RowKept
<1>3. ASSUME NEW r \in Requests, Goes(r)
      PROVE  \/ RowKept(w) \/ (webinar'[w] = NoRow /\ joined'[w] = {})
             \/ req[r].webinar = w /\ (Joins(r) \/ Leaves(r) \/ Updates(r))
  <2>1. CASE req[r].webinar # w
    BY <1>3, <2>1, OthersStay DEF RowKept
  <2>2. CASE req[r].webinar = w /\ Waits(r)
    <3>1. UNCHANGED <<webinar, joined>>
      BY <2>2 DEF Waits, db
    <3> QED
      BY <3>1 DEF RowKept
  <2>3. CASE req[r].webinar = w /\ Cancels(r)
    BY <1>b, <2>3 DEF Cancels
  <2> QED
    BY <1>3, <2>1, <2>2, <2>3 DEF Goes
<1>4. CASE PassEnds
  <2>1. CASE UNCHANGED <<webinar, joined>>
    BY <1>2, <2>1
  <2>2. CASE \E rated, spent : StoreAll(rated, spent, cleaner.dels)
    BY <2>2 DEF StoreAll, RowKept
  <2> QED
    BY <1>4, <2>1, <2>2 DEF PassEnds, db
<1>5. \/ \E u \in Users, v \in Webinars, p \in Prices, k \in Seats, ph \in Phases :
           CreateWebinar(u, v, p, k, ph)
      \/ UNCHANGED <<webinar, joined>>
      \/ \E r \in Requests : Goes(r)
      \/ PassEnds
  BY StepMoves DEF StepKinds, Started, Tick, CleanupBegin, Works, Crash, vars, db
<1> QED
  BY <1>1, <1>2, <1>3, <1>4, <1>5

\* How many take part after one has joined, and after one has left.
LEMMA OneMoreOneLess ==
  ASSUME IInv, NEW w \in Webinars, NEW u
  PROVE  /\ Cardinality(joined[w]) \in Nat
         /\ u \notin joined[w] => Cardinality(joined[w] \cup {u}) = Cardinality(joined[w]) + 1
         /\ u \in joined[w] => /\ Cardinality(joined[w] \ {u}) = Cardinality(joined[w]) - 1
                               /\ Cardinality(joined[w]) > 0
<1>1. IsFiniteSet(joined[w])
  BY DEF IInv, JoinedOK
<1>2. /\ Cardinality(joined[w]) \in Nat
      /\ u \notin joined[w] => Cardinality(joined[w] \cup {u}) = Cardinality(joined[w]) + 1
      /\ u \in joined[w] => Cardinality(joined[w] \ {u}) = Cardinality(joined[w]) - 1
  BY <1>1, FS_CardinalityType, FS_AddElement, FS_RemoveElement
<1>3. u \in joined[w] => Cardinality(joined[w]) # 0
  BY <1>1, FS_EmptySet
<1> QED
  BY <1>2, <1>3

\* Nobody gets a seat that is not there.
LEMMA SeatsStep == IInv /\ [Next]_vars => NotOverbooked'
<1> SUFFICES ASSUME IInv, [Next]_vars, NEW w \in Webinars, w \notin irregular',
                    webinar'[w] # NoRow
             PROVE  Cardinality(joined'[w]) <= webinar'[w].seats
  BY DEF NotOverbooked
<1> DEFINE n == Cardinality(joined[w])
<1>a. w \notin irregular /\ AloneAt(w)
  BY RegularBefore
<1>b. /\ webinar[w] # NoRow => n <= webinar[w].seats
      /\ joined \in [Webinars -> SUBSET Users] /\ n \in Nat
  BY <1>a, OneMoreOneLess DEF IInv, NotOverbooked, TypeOK
<1>1. CASE RowKept(w)
  BY <1>1, <1>b DEF RowKept
<1>2. CASE phase[w] = Unborn /\ webinar'[w] \in Row /\ joined'[w] = {}
  <2>1. webinar'[w].seats \in Nat
    BY <1>2, WebinarAssumption DEF Row
  <2>2. Cardinality(joined'[w]) = 0
    BY <1>2, FS_EmptySet
  <2> QED
    BY <2>1, <2>2
<1>3. ASSUME NEW r \in Requests, Goes(r), req[r].webinar = w
      PROVE  Joins(r) \/ Leaves(r) \/ Updates(r) =>
             Cardinality(joined'[w]) <= webinar'[w].seats
  <2> DEFINE q == req[r]
  <2>1. webinar[w] = q.seen /\ webinar[w] \in Row /\ joined[w] = q.who /\ webinar[w] # NoRow
    BY <1>a, <1>3, GoesAlone
  <2>2. webinar[w].seats \in Nat
    BY <2>1, WebinarAssumption DEF Row
  <2>3. CASE Joins(r)
    <3>1. n < webinar[w].seats
      BY <1>3, <2>1, <2>3, GoesFacts DEF Joins, ReqOK, RegisterPcs
    <3>2. /\ joined'[w] = joined[w] \cup {q.user} /\ q.user \notin joined[w]
          /\ webinar'[w] = webinar[w]
      BY <1>3, <1>b, <2>3 DEF Joins
    <3>3. Cardinality(joined'[w]) = n + 1
      BY <3>2, OneMoreOneLess
    <3> HIDE DEF n
    <3> QED
      BY <1>b, <2>2, <3>1, <3>2, <3>3
  <2>4. CASE Leaves(r)
    <3>1. /\ joined'[w] = joined[w] \ {q.user} /\ webinar'[w] = webinar[w]
          /\ q.user \in joined[w]
      BY <1>3, <1>b, <2>1, <2>4, GoesFacts DEF Leaves, Unjoined, ReqOK, LeavePcs
    <3>2. Cardinality(joined'[w]) = n - 1 /\ n <= webinar[w].seats
      BY <1>b, <2>1, <3>1, OneMoreOneLess
    <3> HIDE DEF n
    <3> QED
      BY <1>b, <2>2, <3>1, <3>2
  <2>5. CASE Updates(r)
    BY <1>3, <2>5, UpdatesRow DEF Updates
  <2> QED
    BY <2>3, <2>4, <2>5
<1> QED
  BY RowMoves, <1>1, <1>2, <1>3

\* What is there for regular webinar w, unless something failed.
CoinsAt(w) == /\ \A r \in Requests : At(r, w) => balance[w] >= Owed(w) + Pending(req[r])
              /\ (\A r \in Requests : ~At(r, w)) => balance[w] >= Owed(w)

\* What a webinar is owed is a number of coins.
LEMMA OwedIsCoins ==
  ASSUME IInv, NEW w \in Webinars
  PROVE  /\ Owed(w) \in Nat
         /\ webinar[w] # NoRow => webinar[w].price \in Nat
<1>1. Cardinality(joined[w]) \in Nat
  BY OneMoreOneLess
<1>2. webinar[w] # NoRow => webinar[w].price \in Nat
  BY WebinarAssumption DEF IInv, TypeOK, Row
<1>3. ASSUME NEW a \in Nat, NEW b \in Nat PROVE a * b \in Nat
  OBVIOUS
<1> QED
  BY <1>1, <1>2, <1>3 DEF Owed

\* While nothing happens to a webinar, its coins are there.
LEMMA CoinsKept ==
  ASSUME NEW w \in Webinars, CoinsAt(w),
         \A p \in Requests : At(p, w)' <=> At(p, w),
         \A p \in Requests : At(p, w) => req'[p] = req[p],
         balance'[w] = balance[w], Owed(w)' = Owed(w)
  PROVE  CoinsAt(w)'
<1>1. \A p \in Requests : At(p, w)' => balance'[w] >= Owed(w)' + Pending(req'[p])
  BY DEF CoinsAt
<1>2. (\A p \in Requests : ~At(p, w)') => balance'[w] >= Owed(w)'
  BY DEF CoinsAt
<1> QED
  BY <1>1, <1>2 DEF CoinsAt

\* What a request that goes on does to the coins of its webinar.
LEMMA GoesKeepsCoins ==
  ASSUME IInv, [Next]_vars, NEW r \in Requests, Goes(r), NEW w \in Webinars,
         req[r].webinar = w, w \notin irregular', CoinsAt(w), failures' = failures
  PROVE  CoinsAt(w)'
<1> DEFINE q == req[r]
           n == req'[r]
           k == Cardinality(joined[w])
           p == webinar[w].price
<1>a. w \notin irregular /\ AloneAt(w)
  BY RegularBefore
<1>b. /\ \A x \in Requests \ {r} : ~At(x, w) /\ ~At(x, w)'
      /\ ~PaidNow(w) /\ cleaner' = cleaner
      /\ webinar[w] = q.seen /\ webinar[w] \in Row /\ webinar[w] # NoRow
      /\ joined[w] = q.who
  BY <1>a, GoesAlone
<1>c. /\ balance \in [Webinars -> Int] /\ joined \in [Webinars -> SUBSET Users]
      /\ q \in Request /\ n \in Request /\ ReqOK(r) /\ q.pc # "idle" /\ Same(q, n)
  BY GoesFacts DEF IInv, TypeOK, Goes, Only
<1>d. /\ k \in Nat /\ p \in Nat /\ Owed(w) = k * p /\ Owed(w) \in Nat
      /\ balance[w] \in Int
  BY <1>b, <1>c, OneMoreOneLess, OwedIsCoins DEF Owed
<1>e. balance[w] >= Owed(w) + Pending(q)
  BY GoesFacts DEF CoinsAt
<1>f. ~PaidNow(w)'
  BY <1>b DEF PaidNow
<1>g. /\ q.charged \in Nat /\ n.charged \in Nat /\ q.seen.price \in Nat
      /\ q.pc \in LeavePcs =>
           /\ UserRefund(q) \in Nat /\ CreatorCompensation(q) \in Nat
           /\ UserRefund(q) + CreatorCompensation(q) <= q.seen.price
  <2>1. q.charged \in Nat /\ n.charged \in Nat /\ q.seen.price \in Nat
    BY <1>b, <1>c, <1>d DEF Request
  <2>2. q.pc \in LeavePcs => q.at \in {Week, Days}
    BY <1>c DEF ReqOK
  <2> QED
    BY <2>1, <2>2, RefundsWithinPrice
<1>h. UserRefund(n) = UserRefund(q) /\ CreatorCompensation(n) = CreatorCompensation(q)
  BY <1>c DEF Same, UserRefund, CreatorCompensation
<1>1. ASSUME Waits(r) PROVE CoinsAt(w)'
  <2>1. PICK c \in Int : Earn(w, c) /\ Asks(q, n, c)
    <3>1. failures \in Nat
      BY DEF IInv, TypeOK
    <3>2. failures' # failures + 1
      BY <3>1
    <3> QED
      BY <1>1, <3>2 DEF Waits
  <2>2. balance'[w] = balance[w] + c
    BY <1>c, <2>1 DEF Earn
  <2>3. Owed(w)' = Owed(w)
    BY <1>1, <1>b, <1>f DEF Waits, db, Owed
  <2>4. InFlight(r)' => Pending(n) <= Pending(q) + c /\ Pending(n) \in Int /\ Pending(q) \in Int
    <3>1. q.pc = "spend" => q.ec = "keep"
      BY <1>c DEF ReqOK
    <3>2. CASE q.pc = "find_emergency" \/ q.pc = "spend"
      BY <1>g, <2>1, <3>1, <3>2 DEF Asks, Pending, InFlight, InFlightPcs, CancelPcs
    <3>3. CASE q.pc = "refund_user"
      BY <1>g, <1>h, <2>1, <3>3 DEF Asks, Pending, CancelPcs, LeavePcs
    <3>4. CASE q.pc = "refund_creator"
      BY <1>g, <1>h, <2>1, <3>4 DEF Asks, Pending, CancelPcs, LeavePcs
    <3>5. CASE q.pc \in CancelPcs \/ q.pc = "check_price"
      BY <2>1, <3>5 DEF Asks, Pending, CancelPcs, InFlight, InFlightPcs
    <3>6. CASE q.pc \notin {"find_emergency", "spend", "refund_user", "refund_creator",
                            "check_price"} \cup CancelPcs
      BY <2>1, <3>6 DEF Asks, InFlight, InFlightPcs, CancelPcs
    <3> QED
      BY <3>2, <3>3, <3>4, <3>5, <3>6
  <2>5. ~InFlight(r)' => c >= 0 /\ Pending(q) \in Nat
    <3>1. ~InFlight(r)' => c = 0 /\ q.pc \notin LeavePcs
      BY <2>1 DEF Asks, InFlight, InFlightPcs, CancelPcs
    <3> QED
      BY <1>g, <3>1 DEF Pending, LeavePcs
  <2> HIDE DEF q, n, k, p
  <2>6. InFlight(r)' => balance'[w] >= Owed(w)' + Pending(n)
    BY <1>d, <1>e, <2>2, <2>3, <2>4
  <2>7. ~InFlight(r)' => balance'[w] >= Owed(w)'
    BY <1>d, <1>e, <2>2, <2>3, <2>5
  <2>8. At(r, w)' <=> InFlight(r)'
    BY <1>c DEF Same, At, q, n
  <2> QED
    BY <1>b, <2>6, <2>7, <2>8 DEF CoinsAt, n
<1>2. ASSUME Joins(r) \/ Leaves(r) \/ Cancels(r) \/ Updates(r),
             balance[w] >= Owed(w)'
      PROVE  CoinsAt(w)'
  <2>1. \A x \in Requests : ~At(x, w)'
    BY <1>2, <1>b, WritesEnd
  <2>2. balance' = balance
    BY <1>2 DEF Joins, Leaves, Cancels, Updates
  <2> QED
    BY <1>2, <2>1, <2>2 DEF CoinsAt
<1>3. ASSUME Joins(r) PROVE balance[w] >= Owed(w)'
  <2>1. q.pc = "commit_join" /\ q.ec = "keep" /\ q.charged = p
    <3>1. q.pc = "commit_join" /\ q.ec # "free"
      BY <1>3 DEF Joins
    <3> QED
      BY <1>b, <1>c, <3>1 DEF ReqOK, Paid
  <2>2. /\ webinar' = webinar /\ joined'[w] = joined[w] \cup {q.user} /\ q.user \notin joined[w]
    BY <1>3, <1>c DEF Joins
  <2>3. Cardinality(joined'[w]) = k + 1
    BY <2>2, OneMoreOneLess
  <2>4. Owed(w)' = (k + 1) * p
    BY <1>b, <1>f, <2>2, <2>3 DEF Owed
  <2>5. Pending(q) = p
    BY <2>1 DEF Pending
  <2> HIDE DEF k, p, q
  <2>6. (k + 1) * p = k * p + p
    BY <1>d
  <2> QED
    BY <1>d, <1>e, <2>4, <2>5, <2>6
<1>4. ASSUME Leaves(r) PROVE balance[w] >= Owed(w)'
  <2>1. q.pc = "commit_leave" /\ q.user \in joined[w]
    BY <1>4, <1>b, <1>c DEF Leaves, ReqOK, LeavePcs
  <2>2. webinar' = webinar /\ joined'[w] = joined[w] \ {q.user}
    BY <1>4, <1>c DEF Leaves, Unjoined
  <2>3. Cardinality(joined'[w]) = k - 1 /\ k > 0
    BY <2>1, <2>2, OneMoreOneLess
  <2>4. Owed(w)' = (k - 1) * p
    BY <1>b, <1>f, <2>2, <2>3 DEF Owed
  <2> DEFINE a == UserRefund(q)
             b == CreatorCompensation(q)
  <2>5. Pending(q) = -a - b /\ a \in Nat /\ b \in Nat /\ a + b <= p
    BY <1>b, <1>g, <2>1 DEF Pending, LeavePcs
  <2> HIDE DEF k, p, q, a, b
  <2>6. (k - 1) * p = k * p - p
    BY <1>d
  <2> QED
    BY <1>d, <1>e, <2>4, <2>5, <2>6
<1>5. ASSUME Cancels(r) PROVE balance[w] >= Owed(w)'
  <2>1. Owed(w)' = 0
    BY <1>5 DEF Cancels, Owed, IInv, TypeOK
  <2>2. Pending(q) = 0
    BY <1>5 DEF Cancels, Pending
  <2> HIDE DEF q
  <2> QED
    BY <1>d, <1>e, <2>1, <2>2
<1>6. ASSUME Updates(r) PROVE balance[w] >= Owed(w)'
  <2>1. Pending(q) = 0
    BY <1>6 DEF Updates, Pending, UpdatePcs
  <2>2. /\ webinar'[w] \in Row /\ joined'[w] = joined[w]
        /\ joined[w] # {} => webinar'[w].price = p
    BY <1>6, UpdatesRow DEF Updates
  <2>3. webinar'[w].price \in Nat /\ webinar'[w] # NoRow
    BY <2>2, NoRowAssumption DEF Row
  <2>4. Owed(w)' = k * webinar'[w].price
    BY <1>f, <2>2, <2>3 DEF Owed
  <2>5. joined[w] = {} => k = 0
    BY FS_EmptySet
  <2>6. Owed(w)' = k * p
    <3>1. CASE joined[w] # {}
      BY <2>2, <2>4, <3>1
    <3>2. CASE joined[w] = {}
      <4> HIDE DEF p
      <4> QED
        BY <1>d, <2>3, <2>4, <2>5, <3>2
    <3> QED
      BY <3>1, <3>2
  <2> HIDE DEF q
  <2> QED
    BY <1>d, <1>e, <2>1, <2>6
<1> QED
  BY <1>1, <1>2, <1>3, <1>4, <1>5, <1>6 DEF Goes

\* What the cleanup does to the coins of a webinar.
LEMMA WorksKeepsCoins ==
  ASSUME IInv, Works, NEW w \in Webinars, w \notin irregular, AloneAt(w), CoinsAt(w)
  PROVE  CoinsAt(w)'
<1>a. /\ UNCHANGED <<webinar, joined, req>>
      /\ \A x \in Requests : (At(x, w)' <=> At(x, w)) /\ req'[x] = req[x]
  BY DEF Works, db, At, InFlight
<1>b. balance \in [Webinars -> Int] /\ Owed(w) \in Nat
  BY OwedIsCoins DEF IInv, TypeOK
<1>1. ASSUME balance'[w] = balance[w], PaidNow(w)' <=> PaidNow(w)
      PROVE  CoinsAt(w)'
  BY <1>1, <1>a, CoinsKept DEF Owed
<1>2. CASE ~(cleaner.pc = "pay" /\ cleaner.cur = w)
  <2>1. balance'[w] = balance[w]
    <3>1. CASE cleaner.pc # "pay"
      BY <3>1 DEF Works
    <3>2. CASE cleaner.pc = "pay"
      <4>1. Earn(cleaner.cur, -Payout) /\ cleaner.cur # w
        BY <1>2, <3>2 DEF Works
      <4> QED
        BY <1>b, <4>1 DEF Earn
    <3> QED
      BY <3>1, <3>2
  <2>2. PaidNow(w)' <=> PaidNow(w)
    BY <1>2 DEF Works, PaidNow
  <2> QED
    BY <1>1, <2>1, <2>2
<1>3. CASE cleaner.pc = "pay" /\ cleaner.cur = w
  <2> DEFINE d == Payout
  <2>1. /\ Earn(w, -d) /\ PaidNow(w)' /\ Selected(w) /\ ~PaidNow(w)
    BY <1>3, PayoutIsCoins DEF Works, PaidNow, Cur, IInv, PassOK, Todo, Selected
  <2>2. /\ webinar[w] = cleaner.rows[w] /\ joined[w] = cleaner.who[w] /\ webinar[w] # NoRow
        /\ \A x \in Requests : ~At(x, w)
    BY <2>1 DEF AloneAt, Selected
  <2>3. d \in Nat /\ d <= Owed(w)
    BY <1>3, <2>1, <2>2, PayoutIsCoins DEF Owed, Cur
  <2>4. balance[w] >= Owed(w)
    BY <2>2 DEF CoinsAt
  <2> HIDE DEF d
  <2>5. balance'[w] = balance[w] - d
    BY <1>b, <2>1, <2>3 DEF Earn
  <2>6. balance[w] \in Int
    BY <1>b
  <2>7. balance'[w] >= 0
    BY <1>b, <2>3, <2>4, <2>5, <2>6
  <2>8. Owed(w)' = 0
    BY <2>1 DEF Owed
  <2> QED
    BY <1>a, <2>2, <2>7, <2>8 DEF CoinsAt
<1> QED
  BY <1>2, <1>3

\* No more coins are given out for a webinar than were taken for it.
LEMMA BalanceStep == IInv /\ [Next]_vars => BalanceOK'
<1> SUFFICES ASSUME IInv, [Next]_vars, failures' = 0, NEW w \in Webinars, w \notin irregular'
             PROVE  CoinsAt(w)'
  BY DEF BalanceOK, CoinsAt
<1>a. w \notin irregular /\ AloneAt(w)
  BY RegularBefore
<1>b. failures = 0 /\ failures' # failures + 1
  <2>1. failures \in Nat /\ failures' \in {failures, failures + 1}
    BY SettlesMove DEF IInv, TypeOK
  <2> QED
    BY <2>1
<1>c. CoinsAt(w)
  BY <1>a, <1>b DEF IInv, BalanceOK, CoinsAt
<1>d. /\ webinar \in [Webinars -> Row \cup {NoRow}] /\ balance \in [Webinars -> Int]
  BY DEF IInv, TypeOK
<1>1. ASSUME NEW u \in Users, NEW v \in Webinars, NEW p \in Prices, NEW k \in Seats,
             NEW ph \in Phases, CreateWebinar(u, v, p, k, ph)
      PROVE  CoinsAt(w)'
  <2>1. UNCHANGED <<req, cleaner, joined, balance>>
    BY <1>1 DEF CreateWebinar, ghost
  <2>2. \A x \in Requests : (At(x, w)' <=> At(x, w)) /\ req'[x] = req[x]
    BY <2>1 DEF At, InFlight
  <2>3. PaidNow(w)' <=> PaidNow(w)
    BY <2>1 DEF PaidNow
  <2>4. CASE v = w
    <3>1. (\A x \in Requests : ~At(x, w)') /\ joined'[w] = {} /\ balance'[w] = 0
      BY <1>1, <2>1, <2>2, <2>4, UnbornIsFree DEF CreateWebinar
    <3>2. webinar'[w].price \in Nat
      BY <1>1, <1>d, <2>4, WebinarAssumption DEF CreateWebinar
    <3>3. Cardinality(joined'[w]) = 0
      BY <3>1, FS_EmptySet
    <3>4. Cardinality(joined'[w]) * webinar'[w].price = 0
      BY <3>2, <3>3
    <3>5. Owed(w)' = 0
      BY <3>4 DEF Owed
    <3> QED
      BY <3>1, <3>5 DEF CoinsAt
  <2>5. CASE v # w
    <3>1. webinar'[w] = webinar[w]
      BY <1>1, <1>d, <2>5 DEF CreateWebinar
    <3> QED
      BY <1>c, <2>1, <2>2, <2>3, <3>1, CoinsKept DEF Owed
  <2> QED
    BY <2>4, <2>5
<1>2. ASSUME NEW r \in Requests, Started(r) PROVE CoinsAt(w)'
  <2>1. /\ UNCHANGED <<webinar, joined, cleaner, balance>>
        /\ \A x \in Requests \ {r} : req'[x] = req[x]
        /\ ~At(r, w)
    BY <1>2 DEF Started, Only, db, At, InFlight, InFlightPcs
  <2>2. Owed(w)' = Owed(w)
    BY <2>1 DEF Owed, PaidNow
  <2>3. \A x \in Requests \ {r} : At(x, w)' <=> At(x, w)
    BY <2>1 DEF At, InFlight
  <2>4. CASE req'[r].webinar = w
    <3>1. \A x \in Requests : ~At(x, w)
      BY <1>2, <2>4 DEF Started
    <3>2. balance'[w] >= Owed(w)'
      BY <1>c, <2>1, <2>2, <3>1 DEF CoinsAt
    <3>3. Pending(req'[r]) = 0
      BY <1>2 DEF Started, Pending, UpdatePcs
    <3>4. Owed(w) \in Nat
      BY OwedIsCoins
    <3>5. balance'[w] >= Owed(w)' + 0
      BY <2>2, <3>2, <3>4
    <3> QED
      BY <2>3, <3>1, <3>2, <3>3, <3>5 DEF CoinsAt
  <2>5. CASE req'[r].webinar # w
    <3>1. ~At(r, w)'
      BY <2>5 DEF At
    <3> QED
      BY <1>c, <2>1, <2>2, <2>3, <3>1, CoinsKept
  <2> QED
    BY <2>4, <2>5
<1>3. ASSUME NEW r \in Requests, Goes(r) PROVE CoinsAt(w)'
  <2>1. CASE req[r].webinar = w
    <3>1. failures' = failures
      BY <1>b
    <3> QED
      BY <1>3, <1>c, <2>1, <3>1, GoesKeepsCoins
  <2>2. CASE req[r].webinar # w
    <3>1. Owed(w)' = Owed(w)
      BY <1>3, <2>2, OthersStay DEF Owed, PaidNow
    <3> QED
      BY <1>3, <1>c, <2>2, <3>1, OthersStay, CoinsKept
  <2> QED
    BY <2>1, <2>2
<1>4. CASE UNCHANGED <<webinar, joined, req, cleaner, balance>>
  <2>1. /\ \A x \in Requests : (At(x, w)' <=> At(x, w)) /\ req'[x] = req[x]
        /\ Owed(w)' = Owed(w)
    BY <1>4 DEF At, InFlight, Owed, PaidNow
  <2> QED
    BY <1>4, <1>c, <2>1, CoinsKept
<1>5. CASE CleanupBegin
  <2>1. UNCHANGED <<webinar, joined, req, balance>>
    BY <1>5 DEF CleanupBegin, db
  <2>2. \A x \in Requests : (At(x, w)' <=> At(x, w)) /\ req'[x] = req[x]
    BY <2>1 DEF At, InFlight
  <2>3. ~PaidNow(w) /\ ~PaidNow(w)'
    BY <1>5 DEF CleanupBegin, PaidNow, IInv, PassOK, IdleCleaner
  <2> QED
    BY <1>c, <2>1, <2>2, <2>3, CoinsKept DEF Owed
<1>6. CASE Works
  BY <1>6, <1>a, <1>c, WorksKeepsCoins
<1>7. CASE PassEnds
  <2>1. /\ UNCHANGED <<req, balance>> /\ cleaner.pc = "next" /\ cleaner' = IdleCleaner
        /\ StoreAll(cleaner.rated, cleaner.spent, cleaner.dels)
    BY <1>7, <1>b DEF PassEnds
  <2>2. \A x \in Requests : (At(x, w)' <=> At(x, w)) /\ req'[x] = req[x]
    BY <2>1 DEF At, InFlight
  <2>3. ~PaidNow(w)' /\ (PaidNow(w) <=> w \in cleaner.dels)
    BY <2>1 DEF PaidNow, IdleCleaner
  <2>4. Owed(w)' = Owed(w)
    <3>1. CASE w \in cleaner.dels
      BY <2>1, <2>3, <3>1 DEF StoreAll, Owed
    <3>2. CASE w \notin cleaner.dels
      <4>1. webinar'[w] = webinar[w] /\ joined'[w] = joined[w]
        BY <2>1, <3>2 DEF StoreAll
      <4> QED
        BY <2>3, <3>2, <4>1 DEF Owed
    <3> QED
      BY <3>1, <3>2
  <2> QED
    BY <1>c, <2>1, <2>2, <2>4, CoinsKept
<1>8. ~Crash
  BY <1>b DEF Crash, Fail
<1>9. ASSUME NEW v \in Webinars, Tick(v) PROVE CoinsAt(w)'
  BY <1>4, <1>9 DEF Tick, db, ghost
<1>10. CASE UNCHANGED vars
  BY <1>4, <1>10 DEF vars, db, ghost
<1> QED
  BY StepMoves, <1>1, <1>2, <1>3, <1>5, <1>6, <1>7, <1>8, <1>9, <1>10 DEF StepKinds

-----------------------------------------------------------------------------
(***************************************************************************)
(* The theorems                                                            *)
(***************************************************************************)
\* Every step keeps the invariant.
LEMMA StepIInv == IInv /\ [Next]_vars => IInv'
<1> SUFFICES ASSUME IInv, [Next]_vars PROVE IInv'
  OBVIOUS
<1>1. TypeOK' /\ (\A r \in Requests : ReqOK(r)')
  BY TypeStep, ReqStep
<1>2. JoinedOK' /\ PassOK' /\ SettledOK' /\ Alone'
  BY JoinedStep, PassStep, SettledStep, AloneStep
<1>3. NotOverbooked' /\ BalanceOK'
  BY SeatsStep, BalanceStep
<1> QED
  BY <1>1, <1>2, <1>3 DEF IInv

\* The invariant holds in every state that the specification reaches.
LEMMA Invariance == Spec => []IInv
BY InitIInv, StepIInv, PTL DEF Spec

\* Webinars, participants, requests and the cleanup keep their types, and only
\* a webinar that exists has participants: every handler and the cleanup.
THEOREM TypeCorrect == Spec => []TypeOK
<1>1. IInv => TypeOK
  BY DEF IInv
<1> QED
  BY Invariance, <1>1, PTL

\* clean_old_webinars pays an instructor, and opens a rating for a participant,
\* once for a webinar and once more at most for every pass that failed, however
\* many webinars and participants a pass has.
THEOREM SettledAtMostOnce == Spec => []SettledOnce
<1>1. IInv => SettledOnce
  <2> SUFFICES ASSUME IInv PROVE SettledOnce
    OBVIOUS
  <2>1. \A w \in Webinars : SettledAt(w)
    BY DEF IInv, SettledOK
  <2>2. \A w \in Webinars : payouts[w] <= 1 + failures
    BY <2>1 DEF SettledAt
  <2>3. ASSUME NEW x \in Webinars \X Users PROVE ratings[x] <= 1 + failures
    <3>1. PICK w \in Webinars, u \in Users : x = <<w, u>>
      OBVIOUS
    <3> QED
      BY <2>1, <3>1 DEF SettledAt
  <2> QED
    BY <2>2, <2>3 DEF SettledOnce
<1> QED
  BY Invariance, <1>1, PTL

\* register_for_webinar: whoever takes part has paid the price that the request
\* read, or the instructor has cancelled a webinar on its participants.
THEOREM RegistrationsArePaid == Spec => []RegistrationsBacked
<1>1. IInv => RegistrationsBacked
  <2> SUFFICES ASSUME IInv, NEW w \in Webinars, NEW u \in joined[w]
               PROVE  \E r \in Requests :
                        /\ req[r].pc = "joined" /\ req[r].user = u /\ req[r].webinar = w
                        /\ \/ req[r].ec = "keep" /\ req[r].charged = req[r].seen.price
                           \/ req[r].ec = "free" /\ HasGrant(webinar[w].creator)
    BY DEF RegistrationsBacked, HasGrant, Granted
  <2>1. PICK r \in Requests : req[r].pc = "joined" /\ req[r].user = u /\ req[r].webinar = w
    BY DEF IInv, JoinedOK
  <2>2. webinar[w] # NoRow
    BY DEF IInv, TypeOK
  <2>3. Paid(req[r]) /\ webinar[w].creator = req[r].seen.creator
    BY <2>1, <2>2 DEF IInv, ReqOK
  <2> QED
    BY <2>1, <2>3 DEF Paid
<1> QED
  BY Invariance, <1>1, PTL

\* register_for_webinar and update_webinar: a webinar that one request at a time
\* works on, and that is not made smaller than it is full, has a seat for every
\* participant.
THEOREM SeatsSuffice == Spec => []NotOverbooked
<1>1. IInv => NotOverbooked
  BY DEF IInv
<1> QED
  BY Invariance, <1>1, PTL

\* cancel_event and clean_old_webinars: unless something failed, refunds and
\* payouts give out no more coins than were taken for the same webinar, for
\* every price, fee and number of participants.
THEOREM CoinsSuffice == Spec => []BalanceNeverNegative
<1>1. IInv => BalanceNeverNegative
  <2> SUFFICES ASSUME IInv, failures = 0, NEW w \in Webinars, w \notin irregular
               PROVE  balance[w] >= 0
    BY DEF BalanceNeverNegative
  <2>1. CoinsAt(w) /\ AloneAt(w)
    BY DEF IInv, BalanceOK, CoinsAt, Alone, AloneAt
  <2>2. Owed(w) \in Nat /\ balance[w] \in Int
    BY OwedIsCoins DEF IInv, TypeOK
  <2>3. CASE \A r \in Requests : ~At(r, w)
    BY <2>1, <2>2, <2>3 DEF CoinsAt
  <2>4. ASSUME NEW r \in Requests, At(r, w) PROVE balance[w] >= 0
    <3> DEFINE q == req[r]
               k == Cardinality(joined[w])
               p == webinar[w].price
    <3>1. /\ ReqOK(r) /\ q.pc # "idle" /\ q \in Request /\ q.webinar = w /\ q.seen \in Row
      BY <2>4 DEF IInv, TypeOK, ReqOK, At, InFlight, InFlightPcs
    <3>2. ~Selected(w) /\ webinar[w] = q.seen /\ joined[w] = q.who /\ webinar[w] # NoRow
      BY <2>1, <2>4, <3>1, NoRowAssumption DEF AloneAt
    <3>3. ~PaidNow(w)
      BY <3>2 DEF IInv, PassOK, PaidNow, Todo, Selected
    <3>4. balance[w] >= Owed(w) + Pending(q)
      BY <2>1, <2>4 DEF CoinsAt
    <3>5. CASE q.pc \notin LeavePcs
      <4>1. Pending(q) \in Nat
        BY <3>1, <3>5 DEF Pending, LeavePcs, Request
      <4> HIDE DEF q
      <4> QED
        BY <2>2, <3>4, <4>1
    <3>6. CASE q.pc \in LeavePcs
      <4> DEFINE a == UserRefund(q)
                 b == CreatorCompensation(q)
      <4>1. q.user \in joined[w] /\ q.at \in {Week, Days}
        BY <3>1, <3>2, <3>6 DEF ReqOK
      <4>2. k \in Nat /\ k > 0 /\ p \in Nat
        BY <3>2, <4>1, OneMoreOneLess, OwedIsCoins
      <4>3. Owed(w) = k * p
        BY <3>2, <3>3 DEF Owed
      <4>4. a \in Nat /\ b \in Nat /\ a + b <= p
        BY <3>2, <4>1, <4>2, RefundsWithinPrice
      <4>5. Pending(q) \in {-a - b, -a, 0}
        BY <3>6 DEF Pending, LeavePcs
      <4> HIDE DEF q, k, p, a, b
      <4>6. k * p >= p
        BY <4>2
      <4> QED
        BY <2>2, <3>4, <4>2, <4>3, <4>4, <4>5, <4>6
    <3> QED
      BY <3>5, <3>6
  <2> QED
    BY <2>3, <2>4
<1> QED
  BY Invariance, <1>1, PTL

\* clean_old_webinars removes a webinar only when its payout was asked for and
\* every participant that goes with it has a rating to give.
THEOREM RatedThenRemoved == Spec => RatedBeforeRemoved
<1>1. IInv /\ [Next]_vars =>
        [\A w \in Webinars :
           (cleaner' # cleaner /\ webinar[w] # NoRow /\ webinar'[w] = NoRow)
             => /\ payouts'[w] > 0
                /\ \A u \in joined[w] : ratings'[<<w, u>>] > 0]_vars
  <2> SUFFICES ASSUME IInv, [Next]_vars, NEW w \in Webinars,
                      cleaner' # cleaner, webinar[w] # NoRow, webinar'[w] = NoRow
               PROVE  payouts'[w] > 0 /\ (\A u \in joined[w] : ratings'[<<w, u>>] > 0)
    OBVIOUS
  <2>a. /\ payouts \in [Webinars -> Nat] /\ joined \in [Webinars -> SUBSET Users]
        /\ ratings \in [Webinars \X Users -> Nat]
    BY DEF IInv, TypeOK
  <2>1. PassEnds
    BY StepMoves DEF StepKinds, CreateWebinar, Started, Goes, Tick, CleanupBegin, Works, Crash, vars, db
  <2>2. PICK rated, spent : /\ cleaner.rated \subseteq rated /\ ~Conflict(cleaner.dels)
                            /\ StoreAll(rated, spent, cleaner.dels)
    BY <2>1 DEF PassEnds, db
  <2>3. w \in cleaner.dels
    BY <2>2 DEF StoreAll
  <2>4. PaidNow(w) /\ payouts[w] > 0 /\ \A u \in cleaner.who[w] : <<w, u>> \in cleaner.rated
    BY <2>3 DEF PaidNow, IInv, PassOK
  <2>5. payouts'[w] > 0
    <3>1. payouts'[w] = payouts[w] \/ payouts'[w] = payouts[w] + 1
      BY SettlesMove
    <3>2. payouts[w] \in Nat
      BY <2>a
    <3> QED
      BY <2>4, <3>1, <3>2
  <2>6. joined[w] \subseteq cleaner.who[w]
    BY <2>2, <2>3 DEF Conflict, NewcomersOf
  <2>7. ASSUME NEW u \in joined[w] PROVE ratings'[<<w, u>>] > 0
    <3>1. <<w, u>> \in rated /\ <<w, u>> \in Webinars \X Users
      BY <2>a, <2>2, <2>4, <2>6
    <3>2. ratings'[<<w, u>>] = ratings[<<w, u>>] + 1
      BY <2>a, <2>2, <3>1 DEF StoreAll, OneMore
    <3>3. ratings[<<w, u>>] \in Nat
      BY <2>a, <3>1
    <3> QED
      BY <3>2, <3>3
  <2> QED
    BY <2>5, <2>7
<1> QED
  BY Invariance, <1>1, PTL DEF Spec, RatedBeforeRemoved

\* The calendar shows a registration to whoever has one and has not left, and
\* does not offer the webinar again.
THEOREM RegistrationIsShown == Spec => []RegistrationShown
<1>1. IInv => RegistrationShown
  <2> SUFFICES ASSUME IInv, NEW r \in Requests, req[r].pc = "joined",
                      webinar[req[r].webinar] # NoRow, phase[req[r].webinar] # Over,
                      ~ \E q \in Requests : /\ req[q].pc = "left" /\ req[q].user = req[r].user
                                            /\ req[q].webinar = req[r].webinar
               PROVE  \E e \in Calendar(req[r].user) :
                        e.id = req[r].webinar /\ e.booked /\ ~e.bookable
    BY DEF RegistrationShown
  <2> DEFINE w == req[r].webinar
             u == req[r].user
             e == ById(u, w)
  <2>1. w \in Webinars /\ u \in joined[w]
    BY DEF IInv, JoinedOK, ReqOK
  <2>2. e \in Calendar(u)
    BY <2>1 DEF Calendar, Listed
  <2>3. BookedBy(u, w) /\ ~BookableFor(u, w)
    BY <2>1 DEF BookedBy, BookableFor
  <2>4. e.id = w /\ e.booked /\ ~e.bookable
    BY <2>3 DEF ById
  <2> QED
    BY <2>2, <2>4
<1> QED
  BY Invariance, <1>1, PTL
============================================================================
