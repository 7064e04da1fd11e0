------------------------- MODULE WeeklySlotsProofs -------------------------
(***************************************************************************)
(* Safety of WeeklySlots for every set of rules, every horizon and clock,  *)
(* any number of requests, failures and restarts.                          *)
(*                                                                         *)
(* SlotsFollowRule is not inductive: a rule and its slots are stored by a  *)
(* commit that comes after many rounds of create_slots, so the invariant   *)
(* says what an addition (AddOK), a deletion and a pass of the cleanup     *)
(* have made and read so far, and that a pass whose rule still exists      *)
(* starts from the last_slot in the table.                                 *)
(***************************************************************************)
EXTENDS WeeklySlots, TLAPS

(***************************************************************************)
(* What the calendar arithmetic computes, for every date.                  *)
(***************************************************************************)
\* Two different days of the same weekday are a week apart.
LEMMA WeekLater ==
  ASSUME NEW d \in Nat, NEW e \in Nat, d % 7 = e % 7, d < e
  PROVE  e >= d + 7
<1>1. d = 7 * (d \div 7) + (d % 7) /\ e = 7 * (e \div 7) + (e % 7)
  BY SMTT(30)
<1>2. (d \div 7) \in Int /\ (e \div 7) \in Int /\ d % 7 \in 0..6
  BY SMTT(30)
<1> QED BY <1>1, <1>2, SMTT(30)

\* The number of days next_slot goes on reaches the weekday, and is zero on
\* that weekday only.
LEMMA DaysUntil ==
  ASSUME NEW d \in Nat, NEW wd \in 0..6
  PROVE  LET n == (wd - (d % 7)) % 7 IN
         /\ n \in 0..6 /\ (d + n) % 7 = wd /\ (n = 0 => wd = d % 7) /\ (wd = d % 7 => n = 0)
         /\ n = IF wd >= (d % 7) THEN wd - (d % 7) ELSE wd - (d % 7) + 7
<1> DEFINE k == d % 7
<1>1. k \in 0..6 BY SMTT(30)
<1>2. d = 7 * (d \div 7) + k /\ (d \div 7) \in Int BY SMTT(30)
<1>3. (wd - k) % 7 = IF wd >= k THEN wd - k ELSE wd - k + 7
  <2> HIDE DEF k
  <2> QED BY <1>1, SMTT(30)
<1>4. (d + (IF wd >= k THEN wd - k ELSE wd - k + 7)) % 7 = wd
  BY SMTT(30)
<1> QED
  <2> HIDE DEF k
  <2>1. (wd - k) % 7 \in 0..6 BY <1>1, <1>3
  <2> QED BY <1>1, <1>3, <1>4, <2>1 DEF k

\* No day of the weekday comes earlier.
LEMMA NotBefore ==
  ASSUME NEW d \in Nat, NEW e \in Nat, NEW wd \in 0..6, e % 7 = wd, d <= e
  PROVE  e >= d + ((wd - (d % 7)) % 7)
<1>1. (e - d) >= 0 BY SMT
<1> QED BY SMTT(60)

\* next_slot returns the first instant after start that has the weekday and
\* the time asked for, for every start, weekday and time.
THEOREM NextSlotIsNext ==
  ASSUME NEW s \in Instant, NEW wd \in 0..6, NEW t \in Nat
  PROVE  /\ next_slot(s, wd, t) \in Instant
         /\ Occurs(next_slot(s, wd, t), wd, t)
         /\ Before(s, next_slot(s, wd, t))
         /\ \A y \in Instant : Occurs(y, wd, t) /\ Before(s, y)
              => UpTo(next_slot(s, wd, t), y)
<1> DEFINE x == next_slot(s, wd, t)
<1> DEFINE n == (wd - (s.day % 7)) % 7
<1>1. s.day \in Nat /\ s.time \in Nat /\ s = At(s.day, s.time)
  BY DEF Instant, At
<1>2. /\ n \in 0..6 /\ (s.day + n) % 7 = wd
      /\ (n = 0 => wd = s.day % 7) /\ (s.day % 7 = wd => n = 0)
  BY <1>1, DaysUntil
<1>3. ASSUME NEW y \in Instant, Occurs(y, wd, t)
      PROVE  y.day \in Nat /\ y.day % 7 = wd /\ y.time = t /\ y = At(y.day, t)
  BY <1>3 DEF Instant, Occurs, weekday, At
<1>4. ASSUME NEW y \in Instant, Occurs(y, wd, t), Before(s, y)
      PROVE  y.day >= s.day + n
  <2>1. s.day <= y.day
    BY <1>4, <1>1, <1>3 DEF Before
  <2> QED BY <2>1, <1>1, <1>3, <1>4, NotBefore
<1> HIDE DEF n
<1>5. CASE t <= s.time /\ weekday(s) = wd
  <2>1. x = At(s.day + 7, t)
    BY <1>5 DEF next_slot, replace, plusDays, At
  <2>2. (s.day + 7) % 7 = wd
    BY <1>1, <1>5, SMTT(30) DEF weekday
  <2>3. ASSUME NEW y \in Instant, Occurs(y, wd, t), Before(s, y)
        PROVE  UpTo(x, y)
    <3>1. s.day # y.day
      BY <1>1, <1>3, <1>5, <2>3 DEF Before
    <3>2. y.day \in Nat /\ y.day % 7 = wd
      BY <1>3, <2>3
    <3>3. s.day < y.day
      BY <3>1, <3>2, <1>1, <2>3 DEF Before
    <3>4. s.day % 7 = wd
      BY <1>5 DEF weekday
    <3>5. y.day >= s.day + 7
      BY <3>2, <3>3, <3>4, <1>1, WeekLater
    <3> QED BY <3>5, <2>1, <1>1, <1>3, <2>3 DEF UpTo, Before, At
  <2> QED BY <1>1, <2>1, <2>2, <2>3 DEF Occurs, weekday, Before, At, Instant
<1>6. CASE ~(t <= s.time /\ weekday(s) = wd)
  <2>1. x = At(s.day + n, t)
    BY <1>6 DEF next_slot, replace, plusDays, At, weekday, n
  <2>2. n = 0 => s.time < t
    BY <1>1, <1>2, <1>6 DEF weekday
  <2>3. ASSUME NEW y \in Instant, Occurs(y, wd, t), Before(s, y)
        PROVE  UpTo(x, y)
    BY <2>1, <1>1, <1>2, <1>3, <1>4, <2>3 DEF UpTo, Before, At
  <2> QED BY <1>1, <1>2, <2>1, <2>2, <2>3 DEF Occurs, weekday, Before, At, Instant
<1> QED BY <1>5, <1>6

\* Instants are totally ordered.
LEMMA Order ==
  ASSUME NEW a \in Instant, NEW b \in Instant, NEW c \in Instant
  PROVE  /\ UpTo(a, a) /\ ~Before(a, a)
         /\ Before(a, b) \/ UpTo(b, a)
         /\ ~(Before(a, b) /\ UpTo(b, a))
         /\ UpTo(a, b) /\ UpTo(b, c) => UpTo(a, c)
         /\ Before(a, b) /\ UpTo(b, c) => Before(a, c)
         /\ UpTo(a, b) /\ Before(b, c) => Before(a, c)
         /\ Before(a, b) => UpTo(a, b)
         /\ UpTo(a, b) => a.day <= b.day
BY DEF Instant, Before, UpTo

(***************************************************************************)
(* The rules' slots                                                        *)
(***************************************************************************)

\* Occurrences is the set of the rule's occurrences between two instants.
LEMMA OccurrencesAre ==
  ASSUME NEW w \in Rules, NEW from \in Instant, NEW to \in Instant, NEW i
  PROVE  i \in Occurrences(w, from, to) <=>
           /\ i \in Instant /\ Occurs(i, Weekday[w], Start[w])
           /\ Before(from, i) /\ UpTo(i, to)
<1> USE WeeklyAssumption
<1>1. ASSUME i \in Occurrences(w, from, to)
      PROVE  /\ i \in Instant /\ Occurs(i, Weekday[w], Start[w])
             /\ Before(from, i) /\ UpTo(i, to)
  <2>1. PICK d \in from.day..to.day :
          /\ i = At(d, Start[w]) /\ Occurs(i, Weekday[w], Start[w])
          /\ Before(from, i) /\ UpTo(i, to)
    BY <1>1 DEF Occurrences
  <2>2. d \in Nat /\ Start[w] \in Nat
    BY DEF Instant
  <2>3. i \in Instant
    BY <2>1, <2>2 DEF Instant, At
  <2> QED BY <2>1, <2>3
<1>2. ASSUME i \in Instant, Occurs(i, Weekday[w], Start[w]), Before(from, i), UpTo(i, to)
      PROVE  i \in Occurrences(w, from, to)
  <2>1. i = At(i.day, Start[w])
    BY <1>2 DEF Instant, Occurs, At
  <2>2. i.day \in from.day..to.day
    BY <1>2 DEF Instant, Before, UpTo
  <2> QED BY <1>2, <2>1, <2>2 DEF Occurrences
<1> QED BY <1>1, <1>2

\* From an instant to itself there is none; two adjoining stretches make one;
\* one round of create_slots adds the one next_slot returns.
LEMMA OccurrencesJoin ==
  ASSUME NEW w \in Rules, NEW a \in Instant, NEW b \in Instant, NEW c \in Instant,
         UpTo(a, b), UpTo(b, c)
  PROVE  /\ Occurrences(w, a, a) = {}
         /\ Occurrences(w, a, c) = Occurrences(w, a, b) \cup Occurrences(w, b, c)
         /\ Occurrences(w, a, b) \cap Occurrences(w, b, c) = {}
<1>1. Occurrences(w, a, a) = {}
  BY OccurrencesAre, Order
<1>2. ASSUME NEW i PROVE i \in Occurrences(w, a, c) <=>
        i \in Occurrences(w, a, b) \cup Occurrences(w, b, c)
  <2>1. CASE i \in Instant
    BY <2>1, OccurrencesAre, Order
  <2>2. CASE i \notin Instant
    BY <2>2, OccurrencesAre
  <2> QED BY <2>1, <2>2
<1>3. Occurrences(w, a, b) \cap Occurrences(w, b, c) = {}
  BY OccurrencesAre, Order
<1> QED BY <1>1, <1>2, <1>3

\* One round of create_slots adds the one occurrence that next_slot returns.
LEMMA OccurrencesNext ==
  ASSUME NEW w \in Rules, NEW a \in Instant, NEW row \in Row, UpTo(a, row.last_slot)
  PROVE  LET x == next(w, row) IN
         /\ x \in Instant /\ Before(row.last_slot, x) /\ UpTo(a, x)
         /\ Occurrences(w, a, x) = Occurrences(w, a, row.last_slot) \cup {x}
<1> DEFINE b == row.last_slot
<1> DEFINE x == next(w, row)
<1>1. b \in Instant BY DEF Row
<1>2. /\ x \in Instant /\ Occurs(x, Weekday[w], Start[w]) /\ Before(b, x)
      /\ \A y \in Instant : Occurs(y, Weekday[w], Start[w]) /\ Before(b, y) => UpTo(x, y)
  BY <1>1, NextSlotIsNext, WeeklyAssumption DEF next
<1> HIDE DEF x, b
<1>3. UpTo(b, x) /\ UpTo(a, x)
  BY <1>1, <1>2, Order DEF b
<1>4. Occurrences(w, b, x) = {x}
  <2>1. ASSUME NEW i PROVE i \in Occurrences(w, b, x) <=> i = x
    <3>1. i \in Occurrences(w, b, x) => i = x
      <4> HAVE i \in Occurrences(w, b, x)
      <4>1. i \in Instant /\ Occurs(i, Weekday[w], Start[w]) /\ Before(b, i) /\ UpTo(i, x)
        BY <1>1, <1>2, OccurrencesAre
      <4>2. UpTo(x, i) BY <4>1, <1>2
      <4> QED BY <4>1, <4>2, <1>2 DEF UpTo, Before, Instant
    <3>2. x \in Occurrences(w, b, x)
      BY <1>1, <1>2, OccurrencesAre, Order
    <3> QED BY <3>1, <3>2
  <2> QED BY <2>1
<1>5. Occurrences(w, a, x) = Occurrences(w, a, b) \cup {x}
  BY <1>1, <1>2, <1>3, <1>4, OccurrencesJoin DEF b
<1> QED BY <1>2, <1>3, <1>5 DEF x, b

(***************************************************************************)
(* The inductive invariant.                                                *)
(***************************************************************************)
\* A rule in the table has been added, with all its slots up to last_slot.
RuleOK(w) ==
  /\ SlotsOf(w) \subseteq created[w]
  /\ rule[w] # NoRule =>
       /\ UpTo(rule[w].added, rule[w].last_slot)
       /\ created[w] = Occurrences(w, rule[w].added, rule[w].last_slot)
       /\ created[w] # {}

\* A request that adds a rule has made the slots up to its own last_slot, and
\* nobody knows the rule yet.
Adding(r) == req[r].pc \in {"create", "commit_add"}
AddOK(r) ==
  LET q == req[r] IN
  Adding(r) =>
    /\ q.id \in Rules /\ q.row \in Row
    /\ rule[q.id] = NoRule /\ created[q.id] = {}
    /\ UpTo(q.row.added, q.until) /\ UpTo(q.row.added, q.row.last_slot)
    /\ q.made = Occurrences(q.id, q.row.added, q.row.last_slot)
    /\ q.made = {} => q.row.last_slot = q.row.added
    /\ q.pc = "commit_add" => Before(q.until, q.row.last_slot)
    /\ \A p \in Requests : Adding(p) /\ req[p].id = q.id => p = r

\* A request that deletes a rule has read slots that were made.
DeleteOK(r) ==
  LET q == req[r] IN
  q.pc = "commit_delete" =>
    /\ q.id \in Rules /\ created[q.id] # {}
    /\ q.free \cup q.booked \subseteq created[q.id]
    /\ q.free \cap q.booked = {}

\* A pass has made the slots between the last_slot it read and its own.
PassOK(w) ==
  LET row == cleaner.row[w] IN
  /\ cleaner.pc # "create" => row = NoRule
  /\ row = NoRule => cleaner.made[w] = {}
  /\ row # NoRule =>
       /\ created[w] # {}
       /\ cleaner.made[w] \cap created[w] = {}
       /\ \A i \in created[w] : UpTo(i, row.last_slot)
       /\ rule[w] # NoRule =>
            /\ UpTo(rule[w].last_slot, row.last_slot)
            /\ cleaner.made[w] = Occurrences(w, rule[w].last_slot, row.last_slot)
            /\ cleaner.made[w] = {} => row.last_slot = rule[w].last_slot

RulesOK  == \A w \in Rules : RuleOK(w)
AddsOK   == \A r \in Requests : AddOK(r)
DeletesOK == \A r \in Requests : DeleteOK(r)
PassesOK == \A w \in Rules : PassOK(w)

IInv == TypeOK /\ RulesOK /\ AddsOK /\ DeletesOK /\ PassesOK /\ LinkedSlotsHaveRule

USE DEF tables

\* The initial state.
LEMMA InitInv == Init => IInv
<1> SUFFICES ASSUME Init PROVE IInv
  OBVIOUS
<1> USE DEF Init
<1>1. Zero \in Instant
  BY DEF Zero, At, Instant
<1>2. Idle \in Request /\ IdleCleaner \in Cleaner
  BY <1>1 DEF Idle, Request, IdleCleaner, Cleaner
<1>3. TypeOK
  BY <1>1, <1>2 DEF TypeOK
<1>4. RulesOK /\ LinkedSlotsHaveRule
  BY DEF RulesOK, RuleOK, SlotsOf, LinkedSlotsHaveRule
<1>5. AddsOK /\ DeletesOK
  BY DEF AddsOK, AddOK, Adding, DeletesOK, DeleteOK, Idle
<1>6. PassesOK
  BY DEF PassesOK, PassOK, IdleCleaner
<1> QED BY <1>3, <1>4, <1>5, <1>6 DEF IInv

\* A step that changes no more than one request keeps everything else.
LEMMA AskKeeps ==
  ASSUME IInv, NEW r \in Requests, NEW new \in Request, Ask(r, new)
  PROVE  /\ TypeOK' /\ RulesOK' /\ PassesOK' /\ LinkedSlotsHaveRule'
         /\ req'[r] = new
         /\ \A p \in Requests : p # r => req'[p] = req[p]
         /\ rule' = rule /\ created' = created
<1> USE DEF Ask
<1>1. req' = [req EXCEPT ![r] = new] /\ req \in [Requests -> Request]
  BY DEF IInv, TypeOK
<1>2. TypeOK'
  BY <1>1 DEF IInv, TypeOK
<1>3. RulesOK' /\ LinkedSlotsHaveRule'
  BY DEF IInv, RulesOK, RuleOK, SlotsOf, LinkedSlotsHaveRule
<1>4. PassesOK'
  BY DEF IInv, PassesOK, PassOK
<1> QED BY <1>1, <1>2, <1>3, <1>4

\* A request that neither adds nor deletes has nothing to keep.
LEMMA AskDone ==
  ASSUME IInv, NEW r \in Requests, NEW new \in Request, Ask(r, new),
         new.pc \in {"idle", "done", "failed"}
  PROVE  IInv'
<1>1. /\ TypeOK' /\ RulesOK' /\ PassesOK' /\ LinkedSlotsHaveRule'
      /\ req'[r] = new
      /\ \A p \in Requests : p # r => req'[p] = req[p]
      /\ rule' = rule /\ created' = created
  BY AskKeeps
<1>2. ASSUME NEW p \in Requests PROVE AddOK(p)' /\ DeleteOK(p)'
  <2>1. AddOK(p) /\ DeleteOK(p)
    BY DEF IInv, AddsOK, DeletesOK
  <2>2. CASE p = r
    BY <1>1, <2>2 DEF AddOK, Adding, DeleteOK
  <2>3. CASE p # r
    <3>1. req'[p] = req[p] BY <1>1, <2>3
    <3>2. \A o \in Requests : Adding(o)' => Adding(o) /\ req'[o] = req[o]
      BY <1>1 DEF Adding
    <3>3. AddOK(p)'
      BY <1>1, <2>1, <3>1, <3>2 DEF AddOK, Adding
    <3>4. DeleteOK(p)'
      BY <1>1, <2>1, <3>1 DEF DeleteOK
    <3> QED BY <3>3, <3>4
  <2> QED BY <2>2, <2>3
<1> QED BY <1>1, <1>2 DEF IInv, AddsOK, DeletesOK

\* A request that has ended has its type.
LEMMA EndedType ==
  ASSUME NEW pc \in {"done", "failed"}
  PROVE  Ended(pc) \in Request /\ Ended(pc).pc = pc
<1>1. Zero \in Instant
  BY DEF Zero, At, Instant
<1>2. Idle \in Request
  BY <1>1 DEF Idle, Request
<1> QED BY <1>2 DEF Ended, Request, Idle

\* n days later is an instant that is not earlier.
LEMMA Later ==
  ASSUME NEW i \in Instant, NEW n \in Nat
  PROVE  plusDays(i, n) \in Instant /\ UpTo(i, plusDays(i, n))
BY DEF Instant, plusDays, At, UpTo, Before

\* add_weekly_slot starts with no slot made and a rule nobody knows.
LEMMA StepAddRule ==
  ASSUME IInv, NEW r \in Requests, NEW w \in Rules, AddRule(r, w)
  PROVE  IInv'
<1> DEFINE row == [last_slot |-> now, added |-> now]
<1> DEFINE new == [Idle EXCEPT !.pc = "create", !.id = w, !.until = plusDays(now, Horizon),
                               !.row = row]
<1>1. now \in Instant /\ Zero \in Instant
  BY DEF IInv, TypeOK, Zero, At, Instant
<1>2. row \in Row
  BY <1>1 DEF Row
<1>3. plusDays(now, Horizon) \in Instant /\ UpTo(now, plusDays(now, Horizon))
  BY <1>1, Later, WeeklyAssumption
<1>4. /\ new \in Request /\ new.pc = "create" /\ new.id = w /\ new.row = row
      /\ new.until = plusDays(now, Horizon) /\ new.made = {}
  BY <1>1, <1>2, <1>3 DEF Idle, Request
<1>5. row.added = now /\ row.last_slot = now
  OBVIOUS
<1>6. Ask(r, new)
  BY DEF AddRule
<1>7. rule[w] = NoRule /\ created[w] = {} /\ \A q \in Requests : InFlight(q) => req[q].id # w
  BY DEF AddRule
<1> HIDE DEF new, row
<1>8. /\ TypeOK' /\ RulesOK' /\ PassesOK' /\ LinkedSlotsHaveRule'
      /\ req'[r] = new
      /\ \A p \in Requests : p # r => req'[p] = req[p]
      /\ rule' = rule /\ created' = created
  BY <1>4, <1>6, AskKeeps
<1>9. ASSUME NEW p \in Requests PROVE AddOK(p)' /\ DeleteOK(p)'
  <2>1. AddOK(p) /\ DeleteOK(p)
    BY DEF IInv, AddsOK, DeletesOK
  <2>2. CASE p = r
    <3>1. Occurrences(w, now, now) = {} /\ UpTo(now, now)
      BY <1>1, Order, OccurrencesJoin
    <3>2. \A o \in Requests : Adding(o)' /\ req'[o].id = w => o = r
      BY <1>7, <1>8 DEF Adding, InFlight
    <3>3. AddOK(r)'
      BY <1>2, <1>3, <1>4, <1>5, <1>7, <1>8, <3>1, <3>2 DEF AddOK
    <3> QED BY <1>4, <1>8, <2>2, <3>3 DEF DeleteOK
  <2>3. CASE p # r
    <3>1. req'[p] = req[p] BY <1>8, <2>3
    <3>2. Adding(p) => req[p].id # w
      BY <1>7 DEF Adding, InFlight
    <3>3. \A o \in Requests : Adding(o)' /\ Adding(p) /\ req'[o].id = req[p].id => Adding(o) /\ req'[o] = req[o]
      BY <1>4, <1>8, <3>2 DEF Adding
    <3>4. AddOK(p)'
      BY <1>8, <2>1, <3>1, <3>3 DEF AddOK, Adding
    <3> QED BY <1>8, <2>1, <3>1, <3>4 DEF DeleteOK
  <2> QED BY <2>2, <2>3
<1> QED BY <1>8, <1>9 DEF IInv, AddsOK, DeletesOK

\* A round of create_slots by a request that adds a rule, or its end.
LEMMA AskAdding ==
  ASSUME IInv, NEW r \in Requests, NEW new \in Request, Ask(r, new),
         Adding(r), new.pc \in {"create", "commit_add"}, new.id = req[r].id,
         new.row \in Row, UpTo(new.row.added, new.until),
         UpTo(new.row.added, new.row.last_slot),
         new.made = Occurrences(new.id, new.row.added, new.row.last_slot),
         new.made = {} => new.row.last_slot = new.row.added,
         new.pc = "commit_add" => Before(new.until, new.row.last_slot)
  PROVE  IInv'
<1>1. /\ TypeOK' /\ RulesOK' /\ PassesOK' /\ LinkedSlotsHaveRule'
      /\ req'[r] = new
      /\ \A p \in Requests : p # r => req'[p] = req[p]
      /\ rule' = rule /\ created' = created
  BY AskKeeps
<1>2. \A p \in Requests : /\ Adding(p)' <=> Adding(p)
                          /\ req'[p].id = req[p].id
  BY <1>1 DEF Adding
<1>3. ASSUME NEW p \in Requests PROVE AddOK(p)' /\ DeleteOK(p)'
  <2>1. AddOK(p) /\ DeleteOK(p) /\ AddOK(r)
    BY DEF IInv, AddsOK, DeletesOK
  <2>2. CASE p = r
    <3>1. AddOK(r)'
      BY <1>1, <1>2, <2>1 DEF AddOK
    <3> QED BY <1>1, <2>2, <3>1 DEF DeleteOK
  <2>3. CASE p # r
    <3>1. req'[p] = req[p] BY <1>1, <2>3
    <3>2. AddOK(p)'
      BY <1>1, <1>2, <2>1, <3>1 DEF AddOK
    <3> QED BY <1>1, <2>1, <3>1, <3>2 DEF DeleteOK
  <2> QED BY <2>2, <2>3
<1> QED BY <1>1, <1>3 DEF IInv, AddsOK, DeletesOK

\* A round of create_slots keeps the made slots the occurrences so far.
LEMMA StepAddCreate ==
  ASSUME IInv, NEW r \in Requests, AddCreate(r)
  PROVE  IInv'
<1> DEFINE q == req[r]
<1> DEFINE row == q.row
<1> DEFINE x == next(q.id, row)
<1> DEFINE more == [q EXCEPT !.row.last_slot = x, !.made = @ \cup {x}]
<1> DEFINE new == IF More(row, q.until) THEN more ELSE [q EXCEPT !.pc = "commit_add"]
<1>1. q \in Request /\ q.pc = "create" /\ Ask(r, new) /\ Adding(r)
  BY DEF IInv, TypeOK, AddCreate, Adding
<1>2. /\ q.id \in Rules /\ row \in Row
      /\ UpTo(row.added, q.until) /\ UpTo(row.added, row.last_slot)
      /\ q.made = Occurrences(q.id, row.added, row.last_slot)
      /\ q.made = {} => row.last_slot = row.added
  BY <1>1 DEF IInv, AddsOK, AddOK
<1>3. row.added \in Instant /\ row.last_slot \in Instant /\ q.until \in Instant
  BY <1>1, <1>2 DEF Row, Request
<1>4. /\ x \in Instant /\ UpTo(row.added, x)
      /\ Occurrences(q.id, row.added, x) = q.made \cup {x}
  BY <1>2, <1>3, OccurrencesNext
<1>5. CASE More(row, q.until)
  <2>1. new = more BY <1>5
  <2> DEFINE row2 == [row EXCEPT !.last_slot = x]
  <2>2. row2 \in Row /\ row2.last_slot = x /\ row2.added = row.added
    BY <1>2, <1>4 DEF Row
  <2>3. more = [q EXCEPT !.row = row2, !.made = @ \cup {x}]
    BY <1>1, <1>2 DEF Request
  <2> HIDE DEF row2, more, x
  <2>4. /\ more.pc = "create" /\ more.id = q.id /\ more.row = row2
        /\ more.until = q.until /\ more.made = q.made \cup {x}
        /\ more \in Request
    <3> HIDE DEF row
    <3> QED BY <1>1, <1>2, <1>4, <2>2, <2>3 DEF Request
  <2> HIDE DEF row, q, new
  <2> QED BY <1>1, <1>2, <1>4, <2>1, <2>2, <2>4, AskAdding DEF q
<1>6. CASE ~More(row, q.until)
  <2>1. /\ new \in Request
        /\ new.pc = "commit_add" /\ new.id = q.id /\ new.row = row
        /\ new.until = q.until /\ new.made = q.made
    BY <1>1, <1>6 DEF Request
  <2>2. Before(q.until, row.last_slot)
    BY <1>3, <1>6, Order DEF More
  <2> HIDE DEF new
  <2> QED BY <1>1, <1>2, <2>1, <2>2, AskAdding
<1> QED BY <1>5, <1>6

\* The commit stores a rule together with all its occurrences.
LEMMA StepAddCommit ==
  ASSUME IInv, NEW r \in Requests, AddCommit(r)
  PROVE  IInv'
<1> DEFINE q == req[r]
<1>1. /\ q \in Request /\ q.pc = "commit_add" /\ Adding(r)
      /\ AddOK(r)
  BY DEF IInv, TypeOK, AddCommit, Adding, AddsOK
<1>0. PICK w \in Rules : w = q.id
  BY <1>1 DEF AddOK
<1>2. /\ q.row \in Row /\ created[w] = {} /\ rule[w] = NoRule
      /\ UpTo(q.row.added, q.row.last_slot)
      /\ q.made = Occurrences(w, q.row.added, q.row.last_slot)
      /\ \A p \in Requests : Adding(p) /\ req[p].id = w => p = r
  BY <1>0, <1>1 DEF AddOK
<1>3. q.made # {}
  <2>1. q.row.added \in Instant /\ q.row.last_slot \in Instant /\ q.until \in Instant
    BY <1>1, <1>2 DEF Row, Request
  <2> QED BY <1>1, <2>1, Order DEF AddOK
<1>4. q.made \in SUBSET Instant /\ q.row # NoRule
  BY <1>1, <1>2, NoRuleAssumption DEF Request
<1>5. Ended("done") \in Request /\ Ended("done").pc = "done"
  BY EndedType
<1>6. /\ rule' = [rule EXCEPT ![w] = q.row]
      /\ free' = [free EXCEPT ![w] = q.made]
      /\ created' = [created EXCEPT ![w] = q.made]
      /\ req' = [req EXCEPT ![r] = Ended("done")]
      /\ UNCHANGED <<now, booked, unlinked, cleaner, failures>>
  BY <1>0 DEF AddCommit
<1>7. free[w] = {} /\ booked[w] = {} /\ unlinked[w] = {}
  BY <1>2 DEF IInv, RulesOK, RuleOK, SlotsOf
<1> HIDE DEF q
<1>8. TypeOK'
  BY <1>2, <1>4, <1>5, <1>6, <1>7 DEF IInv, TypeOK
<1>9. \A v \in Rules : v # w => /\ rule'[v] = rule[v] /\ free'[v] = free[v]
                                /\ created'[v] = created[v]
  BY <1>6 DEF IInv, TypeOK
<1>10. rule'[w] = q.row /\ free'[w] = q.made /\ created'[w] = q.made
  BY <1>2, <1>6 DEF IInv, TypeOK
<1>11. RulesOK'
  <2>1. RuleOK(w)'
    BY <1>2, <1>3, <1>6, <1>7, <1>10 DEF RuleOK, SlotsOf
  <2>2. \A v \in Rules : v # w => RuleOK(v)'
    BY <1>6, <1>9 DEF IInv, RulesOK, RuleOK, SlotsOf
  <2> QED BY <2>1, <2>2 DEF RulesOK
<1>12. LinkedSlotsHaveRule'
  BY <1>4, <1>6, <1>9, <1>10 DEF IInv, LinkedSlotsHaveRule
<1>13. PassesOK'
  <2>1. ASSUME NEW v \in Rules PROVE PassOK(v)'
    <3>1. PassOK(v) BY DEF IInv, PassesOK
    <3> QED BY <1>2, <1>6, <1>9, <3>1 DEF PassOK
  <2> QED BY <2>1 DEF PassesOK
<1>14. ASSUME NEW p \in Requests PROVE AddOK(p)' /\ DeleteOK(p)'
  <2>1. AddOK(p) /\ DeleteOK(p)
    BY DEF IInv, AddsOK, DeletesOK
  <2>2. req'[r] = Ended("done") /\ \A o \in Requests : o # r => req'[o] = req[o]
    BY <1>6 DEF IInv, TypeOK
  <2>3. CASE p = r
    BY <1>5, <2>2, <2>3 DEF AddOK, Adding, DeleteOK
  <2>4. CASE p # r
    <3>1. req'[p] = req[p] BY <2>2, <2>4
    <3>2. Adding(p) => req[p].id \in Rules /\ req[p].id # w
      BY <1>2, <2>1, <2>4 DEF AddOK
    <3>3. \A o \in Requests : Adding(o)' => Adding(o) /\ req'[o] = req[o]
      BY <1>5, <2>2 DEF Adding
    <3>4. AddOK(p)'
      BY <1>9, <2>1, <3>1, <3>2, <3>3 DEF AddOK, Adding
    <3>5. DeleteOK(p)'
      BY <1>2, <1>9, <2>1, <3>1 DEF DeleteOK
    <3> QED BY <3>4, <3>5
  <2> QED BY <2>3, <2>4
<1> QED BY <1>8, <1>11, <1>12, <1>13, <1>14 DEF IInv, AddsOK, DeletesOK

\* delete_weekly_slot reads the rule and its slots.
LEMMA StepDeleteRule ==
  ASSUME IInv, NEW r \in Requests, NEW w \in Rules, DeleteRule(r, w)
  PROVE  IInv'
<1> DEFINE new == [Idle EXCEPT !.pc = "commit_delete", !.id = w, !.row = rule[w],
                               !.free = free[w], !.booked = booked[w]]
<1>1. Ask(r, new) /\ rule[w] # NoRule
  BY DEF DeleteRule
<1>2. Zero \in Instant
  BY DEF Zero, At, Instant
<1>3. /\ new \in Request /\ new.pc = "commit_delete" /\ new.id = w
      /\ new.free = free[w] /\ new.booked = booked[w]
  BY <1>2 DEF IInv, TypeOK, Idle, Request
<1>4. /\ created[w] # {} /\ free[w] \cup booked[w] \subseteq created[w]
      /\ free[w] \cap booked[w] = {}
  BY <1>1 DEF IInv, TypeOK, RulesOK, RuleOK, SlotsOf
<1> HIDE DEF new
<1>5. /\ TypeOK' /\ RulesOK' /\ PassesOK' /\ LinkedSlotsHaveRule'
      /\ req'[r] = new
      /\ \A p \in Requests : p # r => req'[p] = req[p]
      /\ rule' = rule /\ created' = created
  BY <1>1, <1>3, AskKeeps
<1>6. ASSUME NEW p \in Requests PROVE AddOK(p)' /\ DeleteOK(p)'
  <2>1. AddOK(p) /\ DeleteOK(p)
    BY DEF IInv, AddsOK, DeletesOK
  <2>2. CASE p = r
    BY <1>3, <1>4, <1>5, <2>2 DEF AddOK, Adding, DeleteOK
  <2>3. CASE p # r
    <3>1. req'[p] = req[p] BY <1>5, <2>3
    <3>2. \A o \in Requests : Adding(o)' => Adding(o) /\ req'[o] = req[o]
      BY <1>3, <1>5 DEF Adding
    <3>3. AddOK(p)'
      BY <1>5, <2>1, <3>1, <3>2 DEF AddOK, Adding
    <3>4. DeleteOK(p)'
      BY <1>5, <2>1, <3>1 DEF DeleteOK
    <3> QED BY <3>3, <3>4
  <2> QED BY <2>2, <2>3
<1> QED BY <1>5, <1>6 DEF IInv, AddsOK, DeletesOK

\* Its commit removes the rule and every slot that names it, or nothing.
LEMMA StepDeleteCommit ==
  ASSUME IInv, NEW r \in Requests, DeleteCommit(r)
  PROVE  IInv'
<1> DEFINE q == req[r]
<1>1. q \in Request /\ q.pc = "commit_delete" /\ DeleteOK(r)
  BY DEF IInv, TypeOK, DeleteCommit, DeletesOK
<1>2. PICK w \in Rules : w = q.id
  BY <1>1 DEF DeleteOK
<1>3. /\ created[w] # {} /\ q.free \cup q.booked \subseteq created[w]
      /\ q.free \cap q.booked = {}
  BY <1>1, <1>2 DEF DeleteOK
<1>4. CASE DeleteRefused(q)
  BY <1>4, AskDone, EndedType DEF DeleteCommit
<1>5. CASE ~DeleteRefused(q)
  <2>1. free[w] \cup booked[w] \subseteq q.free \cup q.booked
    BY <1>2, <1>5 DEF DeleteRefused
  <2>2. /\ rule' = [rule EXCEPT ![w] = NoRule]
        /\ free' = [free EXCEPT ![w] = @ \ (q.free \cup q.booked)]
        /\ booked' = [booked EXCEPT ![w] = @ \ (q.free \cup q.booked)]
        /\ unlinked' = [unlinked EXCEPT ![w] = (unlinked[w] \ q.free) \cup q.booked]
        /\ req' = [req EXCEPT ![r] = Ended("done")]
        /\ UNCHANGED <<now, created, cleaner, failures>>
    BY <1>2, <1>5 DEF DeleteCommit, Kept
  <2>3. q.free \in SUBSET Instant /\ q.booked \in SUBSET Instant
    BY <1>1 DEF Request
  <2>4. Ended("done") \in Request /\ Ended("done").pc = "done"
    BY EndedType
  <2> HIDE DEF q
  <2>5. /\ rule'[w] = NoRule /\ free'[w] = {} /\ booked'[w] = {}
        /\ unlinked'[w] = (unlinked[w] \ q.free) \cup q.booked
        /\ \A v \in Rules : v # w =>
             /\ rule'[v] = rule[v] /\ free'[v] = free[v]
             /\ booked'[v] = booked[v] /\ unlinked'[v] = unlinked[v]
    BY <2>1, <2>2 DEF IInv, TypeOK
  <2>6. TypeOK'
    <3>1. /\ rule' \in [Rules -> Row \cup {NoRule}]
          /\ free' \in [Rules -> SUBSET Instant]
          /\ booked' \in [Rules -> SUBSET Instant]
          /\ unlinked' \in [Rules -> SUBSET Instant]
      BY <2>2, <2>3 DEF IInv, TypeOK
    <3>2. req' \in [Requests -> Request]
      BY <2>2, <2>4 DEF IInv, TypeOK
    <3>3. \A v \in Rules : /\ free'[v] \cap booked'[v] = {}
                           /\ (free'[v] \cup booked'[v]) \cap unlinked'[v] = {}
      BY <2>5 DEF IInv, TypeOK
    <3> QED BY <3>1, <3>2, <3>3, <2>2 DEF IInv, TypeOK
  <2>7. RulesOK' /\ LinkedSlotsHaveRule'
    <3>1. ASSUME NEW v \in Rules PROVE RuleOK(v)'
      <4>1. RuleOK(v) /\ RuleOK(w) BY DEF IInv, RulesOK
      <4>2. CASE v = w
        BY <1>3, <2>2, <2>5, <4>1, <4>2 DEF RuleOK, SlotsOf
      <4>3. CASE v # w
        BY <2>2, <2>5, <4>1, <4>3 DEF RuleOK, SlotsOf
      <4> QED BY <4>2, <4>3
    <3>2. LinkedSlotsHaveRule'
      BY <2>5 DEF IInv, LinkedSlotsHaveRule
    <3> QED BY <3>1, <3>2 DEF RulesOK
  <2>8. PassesOK'
    <3>1. ASSUME NEW v \in Rules PROVE PassOK(v)'
      <4>1. PassOK(v) BY DEF IInv, PassesOK
      <4> QED BY <2>2, <2>5, <4>1 DEF PassOK
    <3> QED BY <3>1 DEF PassesOK
  <2>9. ASSUME NEW p \in Requests PROVE AddOK(p)' /\ DeleteOK(p)'
    <3>1. AddOK(p) /\ DeleteOK(p)
      BY DEF IInv, AddsOK, DeletesOK
    <3>2. req'[r] = Ended("done") /\ \A o \in Requests : o # r => req'[o] = req[o]
      BY <2>2 DEF IInv, TypeOK
    <3>3. CASE p = r
      BY <2>4, <3>2, <3>3 DEF AddOK, Adding, DeleteOK
    <3>4. CASE p # r
      <4>1. req'[p] = req[p] BY <3>2, <3>4
      <4>2. Adding(p) => req[p].id \in Rules /\ req[p].id # w
        BY <1>3, <3>1 DEF AddOK
      <4>3. \A o \in Requests : Adding(o)' => Adding(o) /\ req'[o] = req[o]
        BY <2>4, <3>2 DEF Adding
      <4>4. AddOK(p)'
        BY <2>2, <2>5, <3>1, <4>1, <4>2, <4>3 DEF AddOK, Adding
      <4>5. DeleteOK(p)'
        BY <2>2, <3>1, <4>1 DEF DeleteOK
      <4> QED BY <4>4, <4>5
    <3> QED BY <3>3, <3>4
  <2> QED BY <2>6, <2>7, <2>8, <2>9 DEF IInv, AddsOK, DeletesOK
<1> QED BY <1>4, <1>5

\* A step that leaves the rules and the requests alone, adds no slot and keeps
\* the types and what the cleanup knows keeps the invariant.
LEMMA SlotStep ==
  ASSUME IInv, TypeOK', PassesOK', UNCHANGED <<rule, created, req>>,
         \A w \in Rules : /\ SlotsOf(w)' \subseteq SlotsOf(w)
                          /\ (free'[w] \cup booked'[w]) \subseteq (free[w] \cup booked[w])
  PROVE  IInv'
<1>1. RulesOK'
  BY DEF IInv, RulesOK, RuleOK
<1>2. LinkedSlotsHaveRule'
  BY DEF IInv, LinkedSlotsHaveRule
<1>3. AddsOK'
  BY DEF IInv, AddsOK, AddOK, Adding
<1>4. DeletesOK'
  BY DEF IInv, DeletesOK, DeleteOK
<1> QED BY <1>1, <1>2, <1>3, <1>4 DEF IInv

\* Booking, releasing and deleting slots makes none.
LEMMA StepBookings ==
  ASSUME IInv, Bookings
  PROVE  IInv'
<1>0. PICK w \in Rules : \E i \in free[w] \cup booked[w] :
        Book(w, i) \/ Release(w, i) \/ DeleteSlot(w, i)
  BY DEF Bookings
<1>1. PICK i \in free[w] \cup booked[w] : Book(w, i) \/ Release(w, i) \/ DeleteSlot(w, i)
  BY <1>0
<1>2. UNCHANGED <<now, rule, unlinked, created, req, cleaner, failures>>
  BY <1>1 DEF Book, Release, DeleteSlot
<1>3. PassesOK'
  BY <1>2 DEF IInv, PassesOK, PassOK
<1>4. \/ /\ free' = [free EXCEPT ![w] = @ \ {i}]
         /\ booked' = [booked EXCEPT ![w] = @ \cup {i}]
      \/ /\ booked' = [booked EXCEPT ![w] = @ \ {i}]
         /\ free' = [free EXCEPT ![w] = @ \cup {i}]
      \/ free' = [free EXCEPT ![w] = @ \ {i}] /\ booked' = booked
  BY <1>1 DEF Book, Release, DeleteSlot
<1>5. /\ free' \in [Rules -> SUBSET Instant] /\ booked' \in [Rules -> SUBSET Instant]
      /\ \A v \in Rules : /\ free'[v] \cap booked'[v] = {}
                          /\ (free'[v] \cup booked'[v]) \subseteq (free[v] \cup booked[v])
  <2>1. i \in Instant
    BY <1>1 DEF IInv, TypeOK
  <2>2. CASE /\ free' = [free EXCEPT ![w] = @ \ {i}]
             /\ booked' = [booked EXCEPT ![w] = @ \cup {i}]
    BY <1>1, <2>1, <2>2 DEF IInv, TypeOK
  <2>3. CASE /\ booked' = [booked EXCEPT ![w] = @ \ {i}]
             /\ free' = [free EXCEPT ![w] = @ \cup {i}]
    BY <1>1, <2>1, <2>3 DEF IInv, TypeOK
  <2>4. CASE free' = [free EXCEPT ![w] = @ \ {i}] /\ booked' = booked
    BY <2>4 DEF IInv, TypeOK
  <2> QED BY <1>4, <2>2, <2>3, <2>4
<1>6. TypeOK'
  BY <1>2, <1>5 DEF IInv, TypeOK
<1>7. \A v \in Rules : SlotsOf(v)' \subseteq SlotsOf(v)
  BY <1>2, <1>5 DEF SlotsOf
<1> QED BY <1>2, <1>3, <1>5, <1>6, <1>7, SlotStep

\* A task that has read no rule has made no slot.
LEMMA NoPass ==
  ASSUME cleaner'.row = [w \in Rules |-> NoRule], cleaner'.made = [w \in Rules |-> {}]
  PROVE  PassesOK'
BY DEF PassesOK, PassOK

\* The cleanup task between two passes has its type and made no slot.
LEMMA IdleCleanerType ==
  /\ IdleCleaner \in Cleaner
  /\ IdleCleaner.row = [w \in Rules |-> NoRule]
  /\ IdleCleaner.made = [w \in Rules |-> {}]
<1>1. Zero \in Instant
  BY DEF Zero, At, Instant
<1> QED BY <1>1 DEF IdleCleaner, Cleaner

\* The pass reads the slots that are over.
LEMMA StepCleanupBegin ==
  ASSUME IInv, CleanupBegin
  PROVE  IInv'
<1> DEFINE new == [IdleCleaner EXCEPT !.pc = "rules", !.over = [w \in Rules |-> OverSlots(w)]]
<1>1. cleaner' = new /\ UNCHANGED <<now, tables, req, failures>>
  BY DEF CleanupBegin
<1>2. [w \in Rules |-> OverSlots(w)] \in [Rules -> SUBSET Instant]
  BY DEF IInv, TypeOK, OverSlots, SlotsOf
<1>3. new \in Cleaner /\ new.row = [w \in Rules |-> NoRule] /\ new.made = [w \in Rules |-> {}]
  <2> DEFINE o == [w \in Rules |-> OverSlots(w)]
  <2> HIDE DEF o
  <2>1. o \in [Rules -> SUBSET Instant] BY <1>2 DEF o
  <2>2. [IdleCleaner EXCEPT !.pc = "rules", !.over = o] \in Cleaner
    BY <2>1, IdleCleanerType DEF Cleaner
  <2>3. new = [IdleCleaner EXCEPT !.pc = "rules", !.over = o]
    BY DEF o
  <2> HIDE DEF new
  <2> QED BY <2>2, <2>3 DEF IdleCleaner
<1> HIDE DEF new
<1>4. TypeOK'
  BY <1>1, <1>3 DEF IInv, TypeOK
<1>5. PassesOK'
  BY <1>1, <1>3, NoPass
<1> QED BY <1>1, <1>4, <1>5, SlotStep DEF SlotsOf

\* The pass starts from the last_slot that is in the table.
LEMMA StepCleanupReadRules ==
  ASSUME IInv, CleanupReadRules
  PROVE  IInv'
<1>1. /\ cleaner.pc = "rules" /\ UNCHANGED <<now, tables, req, failures>>
      /\ cleaner' = [cleaner EXCEPT !.pc = "create", !.row = rule,
                                    !.until = plusDays(now, Horizon)]
  BY DEF CleanupReadRules
<1>2. plusDays(now, Horizon) \in Instant
  BY Later, WeeklyAssumption DEF IInv, TypeOK
<1>3. /\ cleaner' \in Cleaner /\ cleaner'.row = rule /\ cleaner'.made = cleaner.made
      /\ cleaner'.pc = "create"
  BY <1>1, <1>2 DEF IInv, TypeOK, Cleaner
<1>4. TypeOK'
  BY <1>1, <1>3 DEF IInv, TypeOK
<1>5. ASSUME NEW w \in Rules PROVE PassOK(w)'
  <2>1. cleaner.made[w] = {}
    BY <1>1 DEF IInv, PassesOK, PassOK
  <2>2. CASE rule[w] = NoRule
    BY <1>1, <1>3, <2>1, <2>2 DEF PassOK
  <2>3. CASE rule[w] # NoRule
    <3>1. RuleOK(w) /\ rule[w] \in Row /\ created[w] \subseteq Instant
      BY <2>3 DEF IInv, RulesOK, TypeOK
    <3>2. rule[w].added \in Instant /\ rule[w].last_slot \in Instant
      BY <3>1 DEF Row
    <3>3. /\ created[w] # {}
          /\ created[w] = Occurrences(w, rule[w].added, rule[w].last_slot)
      BY <2>3, <3>1 DEF RuleOK
    <3>4. \A i \in created[w] : UpTo(i, rule[w].last_slot)
      BY <3>2, <3>3, OccurrencesAre
    <3>5. /\ UpTo(rule[w].last_slot, rule[w].last_slot)
          /\ Occurrences(w, rule[w].last_slot, rule[w].last_slot) = {}
      BY <3>2, Order, OccurrencesJoin
    <3> QED BY <1>1, <1>3, <2>1, <2>3, <3>3, <3>4, <3>5 DEF PassOK
  <2> QED BY <2>2, <2>3
<1> QED BY <1>1, <1>4, <1>5, SlotStep DEF SlotsOf, PassesOK

\* A round of create_slots in a pass, as in add_weekly_slot.
LEMMA StepCleanupCreate ==
  ASSUME IInv, NEW w \in Rules, CleanupCreate(w)
  PROVE  IInv'
<1> DEFINE row == cleaner.row[w]
<1> DEFINE x == next(w, row)
<1>1. /\ cleaner.pc = "create" /\ row # NoRule
      /\ UNCHANGED <<now, tables, req, failures>>
      /\ cleaner' = [cleaner EXCEPT !.row[w].last_slot = x, !.made[w] = @ \cup {x}]
  BY DEF CleanupCreate, ToCreate
<1>2. cleaner \in Cleaner /\ row \in Row
  BY <1>1 DEF IInv, TypeOK, Cleaner
<1>3. row.last_slot \in Instant
  BY <1>2 DEF Row
<1>4. x \in Instant /\ Before(row.last_slot, x)
  BY <1>2, <1>3, OccurrencesNext, Order
<1> DEFINE row2 == [row EXCEPT !.last_slot = x]
<1>5. row2 \in Row /\ row2.last_slot = x
  BY <1>2, <1>4 DEF Row
<1> DEFINE rows2 == [cleaner.row EXCEPT ![w] = row2]
<1> DEFINE made2 == [cleaner.made EXCEPT ![w] = cleaner.made[w] \cup {x}]
<1>6. cleaner' = [cleaner EXCEPT !.row = rows2, !.made = made2]
  BY <1>1
<1> HIDE DEF row2, x, row
<1>7. /\ rows2 \in [Rules -> Row \cup {NoRule}] /\ made2 \in [Rules -> SUBSET Instant]
       /\ rows2[w] = row2 /\ made2[w] = cleaner.made[w] \cup {x}
       /\ \A v \in Rules : v # w => /\ rows2[v] = cleaner.row[v]
                                    /\ made2[v] = cleaner.made[v]
  BY <1>2, <1>4, <1>5 DEF Cleaner
<1> HIDE DEF rows2, made2
<1>8. /\ cleaner' \in Cleaner /\ cleaner'.pc = "create"
       /\ cleaner'.row = rows2 /\ cleaner'.made = made2
  BY <1>1, <1>2, <1>6, <1>7 DEF Cleaner
<1>9. /\ cleaner' \in Cleaner /\ cleaner'.pc = "create"
      /\ cleaner'.row[w] = row2 /\ cleaner'.made[w] = cleaner.made[w] \cup {x}
      /\ \A v \in Rules : v # w => /\ cleaner'.row[v] = cleaner.row[v]
                                   /\ cleaner'.made[v] = cleaner.made[v]
  BY <1>7, <1>8
<1>10. TypeOK'
  BY <1>1, <1>9 DEF IInv, TypeOK
<1>11. row2 # NoRule
  BY <1>5, NoRuleAssumption
<1>12. ASSUME NEW v \in Rules PROVE PassOK(v)'
  <2>1. PassOK(v) /\ PassOK(w) BY DEF IInv, PassesOK
  <2>2. CASE v # w
    BY <1>1, <1>9, <2>1, <2>2 DEF PassOK
  <2>3. CASE v = w
    <3>1. /\ created[w] # {} /\ cleaner.made[w] \cap created[w] = {}
          /\ \A i \in created[w] : UpTo(i, row.last_slot)
      BY <1>1, <2>1 DEF PassOK, row
    <3>2. created[w] \subseteq Instant
      BY DEF IInv, TypeOK
    <3>3. \A i \in created[w] : UpTo(i, x) /\ i # x
      BY <1>3, <1>4, <3>1, <3>2, Order
    <3>4. ASSUME rule[w] # NoRule
          PROVE  /\ UpTo(rule[w].last_slot, x)
                 /\ cleaner'.made[w] = Occurrences(w, rule[w].last_slot, x)
      <4>1. /\ UpTo(rule[w].last_slot, row.last_slot)
            /\ cleaner.made[w] = Occurrences(w, rule[w].last_slot, row.last_slot)
        BY <1>1, <2>1, <3>4 DEF PassOK, row
      <4>2. rule[w].last_slot \in Instant
        BY <3>4 DEF IInv, TypeOK, Row
      <4> QED BY <1>2, <1>9, <4>1, <4>2, OccurrencesNext DEF x
    <3> QED BY <1>1, <1>5, <1>9, <1>11, <2>3, <3>1, <3>3, <3>4 DEF PassOK
  <2> QED BY <2>2, <2>3
<1> QED BY <1>1, <1>10, <1>12, SlotStep DEF SlotsOf, PassesOK

\* The commit of a pass that is not refused.
LEMMA StepCleanupStore ==
  ASSUME IInv, CleanupStore, ~CleanupRefused, cleaner' = IdleCleaner,
         UNCHANGED <<now, req, failures>>
  PROVE  IInv'
<1>1. ASSUME NEW w \in Rules
      PROVE  /\ rule'[w] = AfterPass(w)
             /\ free'[w] = (free[w] \ cleaner.over[w]) \cup cleaner.made[w]
             /\ booked'[w] = booked[w] \ cleaner.over[w]
             /\ unlinked'[w] = unlinked[w] \ cleaner.over[w]
             /\ created'[w] = created[w] \cup cleaner.made[w]
  BY DEF CleanupStore
<1>2. ASSUME NEW w \in Rules
      PROVE  /\ cleaner.made[w] \in SUBSET Instant
             /\ cleaner.row[w] \in Row \cup {NoRule}
             /\ cleaner.made[w] # {} => cleaner.row[w] # NoRule /\ rule[w] # NoRule
             /\ cleaner.made[w] \cap created[w] = {}
             /\ PassOK(w) /\ RuleOK(w)
  BY DEF IInv, TypeOK, Cleaner, PassesOK, PassOK, RulesOK, CleanupRefused
<1>3. ASSUME NEW w \in Rules
      PROVE  /\ AfterPass(w) \in Row \cup {NoRule}
             /\ AfterPass(w) = NoRule <=> rule[w] = NoRule
             /\ rule[w] # NoRule =>
                  /\ AfterPass(w).added = rule[w].added
                  /\ AfterPass(w).last_slot = IF cleaner.made[w] = {} THEN rule[w].last_slot
                                              ELSE cleaner.row[w].last_slot
  <2>1. rule[w] \in Row \cup {NoRule}
    BY DEF IInv, TypeOK
  <2>2. CASE cleaner.made[w] = {}
    BY <2>1, <2>2 DEF AfterPass
  <2>3. CASE cleaner.made[w] # {}
    <3>1. rule[w] \in Row /\ cleaner.row[w] \in Row
      BY <1>2, <2>1, <2>3
    <3>2. AfterPass(w) = [rule[w] EXCEPT !.last_slot = cleaner.row[w].last_slot]
      BY <2>3 DEF AfterPass
    <3>3. AfterPass(w) \in Row /\ rule[w] # NoRule
      BY <3>1, <3>2, NoRuleAssumption DEF Row
    <3> QED BY <2>3, <3>1, <3>2, <3>3, NoRuleAssumption DEF Row
  <2> QED BY <2>2, <2>3
<1>4. TypeOK'
  <2>1. rule' \in [Rules -> Row \cup {NoRule}]
    BY <1>3 DEF CleanupStore
  <2>2. /\ free' \in [Rules -> SUBSET Instant] /\ booked' \in [Rules -> SUBSET Instant]
        /\ unlinked' \in [Rules -> SUBSET Instant] /\ created' \in [Rules -> SUBSET Instant]
    BY <1>2 DEF CleanupStore, IInv, TypeOK
  <2>3. \A w \in Rules : /\ free'[w] \cap booked'[w] = {}
                         /\ (free'[w] \cup booked'[w]) \cap unlinked'[w] = {}
    <3>1. ASSUME NEW w \in Rules
          PROVE  /\ free'[w] \cap booked'[w] = {}
                 /\ (free'[w] \cup booked'[w]) \cap unlinked'[w] = {}
      <4>1. /\ free[w] \cap booked[w] = {} /\ (free[w] \cup booked[w]) \cap unlinked[w] = {}
        BY DEF IInv, TypeOK
      <4>2. free[w] \cup booked[w] \cup unlinked[w] \subseteq created[w]
        BY <1>2 DEF RuleOK, SlotsOf
      <4> QED BY <1>1, <1>2, <4>1, <4>2
    <3> QED BY <3>1
  <2> QED BY <2>1, <2>2, <2>3, IdleCleanerType DEF IInv, TypeOK
<1>5. ASSUME NEW w \in Rules PROVE RuleOK(w)'
  <2>1. SlotsOf(w)' \subseteq created'[w]
    BY <1>1, <1>2 DEF RuleOK, SlotsOf
  <2>2. ASSUME rule[w] # NoRule
        PROVE  /\ UpTo(rule'[w].added, rule'[w].last_slot)
               /\ created'[w] = Occurrences(w, rule'[w].added, rule'[w].last_slot)
               /\ created'[w] # {}
    <3>1. /\ UpTo(rule[w].added, rule[w].last_slot)
          /\ created[w] = Occurrences(w, rule[w].added, rule[w].last_slot)
          /\ created[w] # {}
      BY <1>2, <2>2 DEF RuleOK
    <3>2. rule[w] \in Row /\ rule[w].added \in Instant /\ rule[w].last_slot \in Instant
      BY <2>2 DEF IInv, TypeOK, Row
    <3>3. CASE cleaner.made[w] = {}
      BY <1>1, <1>3, <2>2, <3>1, <3>3
    <3>4. CASE cleaner.made[w] # {}
      <4>1. /\ UpTo(rule[w].last_slot, cleaner.row[w].last_slot)
            /\ cleaner.made[w] = Occurrences(w, rule[w].last_slot, cleaner.row[w].last_slot)
        BY <1>2, <2>2, <3>4 DEF PassOK
      <4>2. cleaner.row[w].last_slot \in Instant
        BY <1>2, <3>4 DEF Row
      <4>3. /\ UpTo(rule[w].added, cleaner.row[w].last_slot)
            /\ Occurrences(w, rule[w].added, cleaner.row[w].last_slot)
                 = created[w] \cup cleaner.made[w]
        BY <3>1, <3>2, <4>1, <4>2, Order, OccurrencesJoin
      <4> QED BY <1>1, <1>3, <2>2, <3>1, <3>4, <4>3
    <3> QED BY <3>3, <3>4
  <2> QED BY <1>1, <1>3, <2>1, <2>2 DEF RuleOK
<1>6. LinkedSlotsHaveRule'
  <2>1. ASSUME NEW w \in Rules, free'[w] \cup booked'[w] # {} PROVE rule'[w] # NoRule
    <3>1. free[w] \cup booked[w] # {} \/ cleaner.made[w] # {}
      BY <1>1, <2>1
    <3>2. rule[w] # NoRule
      BY <1>2, <3>1 DEF IInv, LinkedSlotsHaveRule
    <3> QED BY <1>1, <1>3, <3>2
  <2> QED BY <2>1 DEF LinkedSlotsHaveRule
<1>7. PassesOK'
  BY NoPass, IdleCleanerType
<1>8. ASSUME NEW p \in Requests PROVE AddOK(p)' /\ DeleteOK(p)'
  <2>1. AddOK(p) /\ DeleteOK(p) /\ req' = req
    BY DEF IInv, AddsOK, DeletesOK
  <2>2. ASSUME Adding(p)
        PROVE  /\ req[p].id \in Rules /\ rule'[req[p].id] = NoRule
               /\ created'[req[p].id] = {}
    <3>1. PICK w \in Rules : w = req[p].id
      BY <2>1, <2>2 DEF AddOK
    <3>2. created[w] = {} /\ rule[w] = NoRule
      BY <2>1, <2>2, <3>1 DEF AddOK
    <3>3. cleaner.made[w] = {}
      BY <1>2, <3>2
    <3> QED BY <1>1, <1>3, <3>1, <3>2, <3>3
  <2>3. AddOK(p)'
    BY <2>1, <2>2 DEF AddOK, Adding
  <2>4. DeleteOK(p)'
    BY <1>1, <2>1 DEF DeleteOK
  <2> QED BY <2>3, <2>4
<1> QED BY <1>4, <1>5, <1>6, <1>7, <1>8 DEF IInv, RulesOK, AddsOK, DeletesOK

\* The commit of a pass, accepted or refused.
LEMMA StepCleanupCommit ==
  ASSUME IInv, CleanupCommit
  PROVE  IInv'
<1>1. cleaner' = IdleCleaner /\ UNCHANGED <<now, req, failures>>
  BY DEF CleanupCommit
<1>2. CASE CleanupRefused
  <2>1. UNCHANGED tables
    BY <1>2 DEF CleanupCommit
  <2>2. TypeOK' /\ PassesOK'
    BY <1>1, <2>1, IdleCleanerType, NoPass DEF IInv, TypeOK
  <2> QED BY <1>1, <2>1, <2>2, SlotStep DEF SlotsOf
<1>3. CASE ~CleanupRefused
  BY <1>1, <1>3, StepCleanupStore DEF CleanupCommit
<1> QED BY <1>2, <1>3

\* An exception in the pass makes no slot.
LEMMA StepCleanupFails ==
  ASSUME IInv, CleanupFails
  PROVE  IInv'
<1>1. /\ cleaner' = IdleCleaner /\ UNCHANGED <<now, rule, created, req>>
      /\ failures' = failures + 1
  BY DEF CleanupFails, Fail
<1>2. PICK done \in [Rules -> SUBSET UNION {cleaner.over[w] : w \in Rules}] :
        /\ free' = [w \in Rules |-> free[w] \ done[w]]
        /\ booked' = [w \in Rules |-> booked[w] \ done[w]]
        /\ unlinked' = [w \in Rules |-> unlinked[w] \ done[w]]
  BY DEF CleanupFails
<1>3. TypeOK'
  BY <1>1, <1>2, IdleCleanerType DEF IInv, TypeOK
<1>4. PassesOK'
  BY <1>1, IdleCleanerType, NoPass
<1>5. \A w \in Rules : /\ SlotsOf(w)' \subseteq SlotsOf(w)
                       /\ (free'[w] \cup booked'[w]) \subseteq (free[w] \cup booked[w])
  BY <1>2 DEF SlotsOf
<1> QED BY <1>1, <1>3, <1>4, <1>5, SlotStep

\* A restart loses what was not stored, and nothing else.
LEMMA StepCrash ==
  ASSUME IInv, Crash
  PROVE  IInv'
<1>1. /\ cleaner' = IdleCleaner /\ UNCHANGED <<now, tables>> /\ failures' = failures + 1
      /\ req' = [r \in Requests |-> IF InFlight(r) THEN Ended("failed") ELSE req[r]]
  BY DEF Crash, Fail
<1>2. \A r \in Requests : /\ req'[r] \in Request
                          /\ req'[r].pc \notin {"create", "commit_add", "commit_delete"}
  BY <1>1, EndedType DEF IInv, TypeOK, InFlight
<1>3. TypeOK'
  BY <1>1, <1>2, IdleCleanerType DEF IInv, TypeOK
<1>4. PassesOK'
  BY <1>1, IdleCleanerType, NoPass
<1>5. RulesOK' /\ LinkedSlotsHaveRule'
  BY <1>1 DEF IInv, RulesOK, RuleOK, SlotsOf, LinkedSlotsHaveRule
<1>6. AddsOK' /\ DeletesOK'
  BY <1>2 DEF AddsOK, AddOK, Adding, DeletesOK, DeleteOK
<1> QED BY <1>3, <1>4, <1>5, <1>6 DEF IInv

\* Time passing changes no slot.
LEMMA StepTick ==
  ASSUME IInv, Tick
  PROVE  IInv'
<1>1. now' \in Instant /\ UNCHANGED <<tables, req, cleaner, failures>>
  BY WeeklyAssumption DEF Tick
<1>2. TypeOK'
  BY <1>1 DEF IInv, TypeOK
<1>3. PassesOK'
  BY <1>1 DEF IInv, PassesOK, PassOK
<1> QED BY <1>1, <1>2, <1>3, SlotStep DEF SlotsOf

\* The invariant is inductive.
LEMMA NextInv == IInv /\ [Next]_vars => IInv'
<1> SUFFICES ASSUME IInv, [Next]_vars PROVE IInv'
  OBVIOUS
<1>1. CASE UNCHANGED vars
  <2>1. UNCHANGED <<now, tables, req, cleaner, failures>>
    BY <1>1 DEF vars
  <2>2. TypeOK' /\ PassesOK'
    BY <2>1 DEF IInv, TypeOK, PassesOK, PassOK
  <2> QED BY <2>1, <2>2, SlotStep DEF SlotsOf
<1>2. ASSUME NEW r \in Requests, Arrive(r) PROVE IInv'
  BY <1>2, StepAddRule, StepDeleteRule DEF Arrive
<1>3. ASSUME NEW r \in Requests, Continue(r) PROVE IInv'
  BY <1>3, StepAddCreate, StepAddCommit, StepDeleteCommit DEF Continue
<1>4. CASE Bookings
  BY <1>4, StepBookings
<1>5. CASE Cleanup
  BY <1>5, StepCleanupBegin, StepCleanupReadRules, StepCleanupCreate,
     StepCleanupCommit, StepCleanupFails DEF Cleanup
<1>6. CASE Crash
  BY <1>6, StepCrash
<1>7. CASE Tick
  BY <1>7, StepTick
<1> QED BY <1>1, <1>2, <1>3, <1>4, <1>5, <1>6, <1>7 DEF Next

\* The invariant holds in every reachable state.
LEMMA Invariance == Spec => []IInv
BY InitInv, NextInv, PTL DEF Spec

(***************************************************************************)
(* Theorems                                                                *)
(***************************************************************************)
\* Every reachable state is well-typed, and a slot is in one state at a time.
THEOREM TypeCorrect == Spec => []TypeOK
<1>1. IInv => TypeOK
  BY DEF IInv
<1> QED BY <1>1, Invariance, PTL

\* The slots made for a rule by add_weekly_slot and by all passes of the
\* cleanup are its occurrences up to last_slot, no more and no fewer.
THEOREM SlotsAreTheRules == Spec => []SlotsFollowRule
<1>1. IInv => SlotsFollowRule
  BY DEF IInv, RulesOK, RuleOK, SlotsFollowRule
<1> QED BY <1>1, Invariance, PTL

\* No pass of the cleanup makes a slot that was made before.
THEOREM SlotsAreMadeOnce == Spec => []NoSlotTwice
<1>1. IInv => NoSlotTwice
  BY DEF IInv, PassesOK, PassOK, NoSlotTwice
<1> QED BY <1>1, Invariance, PTL

\* A slot that names a rule names one that exists.
THEOREM LinksHold == Spec => []LinkedSlotsHaveRule
<1>1. IInv => LinkedSlotsHaveRule
  BY DEF IInv
<1> QED BY <1>1, Invariance, PTL

\* What happens to a rule that disappears: a deletion that read it commits.
LEMMA RuleRemoved ==
  ASSUME IInv, [Next]_vars, NEW w \in Rules, rule[w] # NoRule, rule'[w] = NoRule
  PROVE  \E r \in Requests : /\ req[r].id = w /\ DeleteCommit(r)
                             /\ ~DeleteRefused(req[r])
<1>1. rule' # rule
  OBVIOUS
<1>2. ASSUME NEW r \in Requests, AddCommit(r) PROVE FALSE
  <2>1. req[r].row # NoRule
    BY <1>2, NoRuleAssumption DEF IInv, AddsOK, AddOK, Adding, AddCommit
  <2> QED BY <1>2, <2>1 DEF AddCommit, IInv, TypeOK
<1>3. ~CleanupCommit
  <2>1. SUFFICES ASSUME CleanupCommit PROVE FALSE
    OBVIOUS
  <2>2. rule'[w] = AfterPass(w)
    BY <1>1, <2>1 DEF CleanupCommit, CleanupStore
  <2>3. CASE cleaner.made[w] = {}
    BY <2>2, <2>3 DEF AfterPass
  <2>4. CASE cleaner.made[w] # {}
    <3>1. rule[w] \in Row /\ cleaner.row[w] \in Row
      BY <2>4 DEF IInv, TypeOK, Cleaner, PassesOK, PassOK
    <3>2. AfterPass(w) \in Row
      BY <2>4, <3>1 DEF AfterPass, Row
    <3> QED BY <2>2, <3>2, NoRuleAssumption
  <2> QED BY <2>3, <2>4
<1>4. \E r \in Requests : DeleteCommit(r)
  BY <1>1, <1>2, <1>3 DEF Next, vars, Arrive, AddRule, DeleteRule, Ask, Continue, AddCreate,
     Bookings, Book, Release, DeleteSlot, Cleanup, CleanupBegin, CleanupReadRules,
     CleanupCreate, CleanupFails, Crash, Tick
<1>5. PICK r \in Requests : DeleteCommit(r)
  BY <1>4
<1>6. ~DeleteRefused(req[r])
  BY <1>1, <1>5 DEF DeleteCommit, Ask
<1>7. req[r].id = w
  BY <1>5, <1>6 DEF DeleteCommit, IInv, TypeOK
<1> QED BY <1>5, <1>6, <1>7

\* Deleting a rule takes away no booking that it could have read.
THEOREM BookingsSurvive == Spec => BookingsOutliveRule
<1>1. ASSUME IInv, [Next]_vars, NEW w \in Rules, rule[w] # NoRule, rule'[w] = NoRule,
             NEW i \in booked[w] \ (unlinked'[w])
      PROVE  \E r \in Requests : req[r].pc = "commit_delete" /\ i \in req[r].free
  <2>1. PICK r \in Requests : /\ req[r].id = w /\ DeleteCommit(r)
                              /\ ~DeleteRefused(req[r])
    BY <1>1, RuleRemoved
  <2>2. /\ req[r].pc = "commit_delete"
        /\ unlinked' = [unlinked EXCEPT ![w] = Kept(req[r])]
    BY <2>1 DEF DeleteCommit
  <2>3. unlinked'[w] = Kept(req[r])
    BY <1>1, <2>2 DEF IInv, TypeOK
  <2>4. booked[w] \subseteq req[r].free \cup req[r].booked
    BY <2>1 DEF DeleteRefused
  <2>5. req[r].booked \subseteq unlinked'[w]
    BY <2>3 DEF Kept
  <2> QED BY <1>1, <2>2, <2>4, <2>5
<1>2. IInv /\ [Next]_vars =>
        [\A w \in Rules : rule[w] # NoRule /\ rule'[w] = NoRule =>
           \A i \in booked[w] \ (unlinked'[w]) :
             \E r \in Requests : req[r].pc = "commit_delete" /\ i \in req[r].free]_vars
  BY <1>1
<1> QED BY <1>2, Invariance, PTL DEF Spec, BookingsOutliveRule
=============================================================================
