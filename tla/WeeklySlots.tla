---------------------------- MODULE WeeklySlots ----------------------------
(***************************************************************************)
(* Weekly rules: an instructor adds a rule, which at once creates its      *)
(* slots of the next 30 days; every pass of the cleanup task creates those *)
(* that have come within 30 days since; deleting the rule deletes its free *)
(* slots and unlinks the booked ones.                                      *)
(*                                                                         *)
(* The slots of a rule are told apart by their start.  How a booking comes *)
(* about is the matter of CoachingSlots: here a slot is booked or released *)
(* in one step.                                                            *)
(***************************************************************************)
EXTENDS WeeklyRule, FiniteSets

CONSTANTS
  Rules,               \* events_weekly_slots.id
  Weekday, Start, End, \* the columns of a rule that never change
  Horizon,             \* timedelta(days=30)
  Clock,               \* bound: the instants at which the model looks
  Requests, MaxFailures, NoRule

ASSUME WeeklyAssumption ==
  /\ Weekday \in [Rules -> 0..6]
  /\ Start \in [Rules -> Nat] /\ End \in [Rules -> Nat]
  /\ Horizon \in Nat /\ Clock \subseteq Instant /\ MaxFailures \in Nat

\* added is not a column: it is when the rule was added.
Row == [last_slot : Instant, added : Instant]

ASSUME NoRuleAssumption == NoRule \notin Row

VARIABLES
  now,
  rule,      \* events_weekly_slots
  free,      \* rule -> starts of its slots that are not booked
  booked,    \* rule -> starts of its slots that are
  unlinked,  \* rule -> starts of slots it made that no longer name it
  created,   \* rule -> starts of all slots ever stored for it
  req, cleaner, failures

tables == <<rule, free, booked, unlinked, created>>
vars   == <<now, tables, req, cleaner, failures>>

Request == [pc : {"idle", "create", "commit_add", "commit_delete", "done", "failed"},
            id : Rules \cup {NoRule},
            row : Row \cup {NoRule},
            until : Instant,
            made : SUBSET Instant,       \* slots created, not yet stored
            free : SUBSET Instant,       \* rule.slots as read: not booked,
            booked : SUBSET Instant]     \* and booked

Zero == At(0, 0)
Idle == [pc |-> "idle", id |-> NoRule, row |-> NoRule, until |-> Zero,
         made |-> {}, free |-> {}, booked |-> {}]

Cleaner == [pc : {"idle", "rules", "create"},
            over : [Rules -> SUBSET Instant],     \* slots whose end has passed
            row : [Rules -> Row \cup {NoRule}],   \* the rules as read
            until : Instant,
            made : [Rules -> SUBSET Instant]]

IdleCleaner == [pc |-> "idle", over |-> [w \in Rules |-> {}],
                row |-> [w \in Rules |-> NoRule], until |-> Zero,
                made |-> [w \in Rules |-> {}]]

Init == /\ now = Zero
        /\ rule = [w \in Rules |-> NoRule]
        /\ free = [w \in Rules |-> {}]
        /\ booked = [w \in Rules |-> {}]
        /\ unlinked = [w \in Rules |-> {}]
        /\ created = [w \in Rules |-> {}]
        /\ req = [r \in Requests |-> Idle]
        /\ cleaner = IdleCleaner
        /\ failures = 0

Ended(pc) == [Idle EXCEPT !.pc = pc]
InFlight(r) == req[r].pc \in {"create", "commit_add", "commit_delete"}
Fail == failures < MaxFailures /\ failures' = failures + 1

Ask(r, new) == /\ req' = [req EXCEPT ![r] = new]
               /\ UNCHANGED <<now, tables, cleaner, failures>>

(***************************************************************************)
(* create_slots: one round of its loop moves last_slot on and adds a slot  *)
(* there.  It goes on while last_slot has not passed `until`.              *)
(***************************************************************************)
next(w, row) == next_slot(row.last_slot, Weekday[w], Start[w])
MoreBefore(row, until) == Before(row.last_slot, until)
More(row, until) == UpTo(row.last_slot, until)

(***************************************************************************)
(* add_weekly_slot -> WeeklySlot.create.  The rule and its slots are       *)
(* stored by one commit.                                                   *)
(***************************************************************************)
AddRule(r, w) ==
  /\ req[r].pc = "idle"
  /\ rule[w] = NoRule /\ created[w] = {}           \* uuid4: an id not used yet
  /\ \A q \in Requests : InFlight(q) => req[q].id # w
  /\ Ask(r, [Idle EXCEPT
       !.pc = "create", !.id = w, !.until = plusDays(now, Horizon),
       !.row = [last_slot |-> now, added |-> now]])

AddCreate(r) ==
  LET q == req[r] IN
  /\ q.pc = "create"
  /\ Ask(r, IF More(q.row, q.until)
            THEN [q EXCEPT !.row.last_slot = next(q.id, q.row), !.made = @ \cup {next(q.id, q.row)}]
            ELSE [q EXCEPT !.pc = "commit_add"])

AddCommit(r) ==
  LET w == req[r].id IN
  /\ req[r].pc = "commit_add"
  /\ rule' = [rule EXCEPT ![w] = req[r].row]
  /\ free' = [free EXCEPT ![w] = req[r].made]
  /\ created' = [created EXCEPT ![w] = req[r].made]
  /\ req' = [req EXCEPT ![r] = Ended("done")]
  /\ UNCHANGED <<now, booked, unlinked, cleaner, failures>>

(***************************************************************************)
(* delete_weekly_slot                                                      *)
(***************************************************************************)
DeleteRule(r, w) ==
  /\ req[r].pc = "idle"
  /\ rule[w] # NoRule
  /\ Ask(r, [Idle EXCEPT !.pc = "commit_delete", !.id = w, !.row = rule[w],
                         !.free = free[w], !.booked = booked[w]])

\* The commit is refused when a slot that is to be unlinked has vanished, or
\* when the rule has a slot that was not read.
DeleteRefusedIfGone(q) ==
  ~(q.booked \subseteq free[q.id] \cup booked[q.id] \cup unlinked[q.id])
DeleteRefused(q) ==
  \/ ~(q.booked \subseteq free[q.id] \cup booked[q.id] \cup unlinked[q.id])
  \/ ~(free[q.id] \cup booked[q.id] \subseteq q.free \cup q.booked)

\* What was free when it was read is deleted, booked meanwhile or not.
KeptNone(q) == unlinked[q.id] \ q.free
Kept(q) == (unlinked[q.id] \ q.free) \cup q.booked

DeleteCommit(r) ==
  LET q == req[r] w == q.id IN
  /\ q.pc = "commit_delete"
  /\ IF DeleteRefused(q)
     THEN Ask(r, Ended("failed"))
     ELSE /\ rule' = [rule EXCEPT ![w] = NoRule]
          /\ free' = [free EXCEPT ![w] = @ \ (q.free \cup q.booked)]
          /\ booked' = [booked EXCEPT ![w] = @ \ (q.free \cup q.booked)]
          /\ unlinked' = [unlinked EXCEPT ![w] = Kept(q)]
          /\ req' = [req EXCEPT ![r] = Ended("done")]
          /\ UNCHANGED <<now, created, cleaner, failures>>

(***************************************************************************)
(* What CoachingSlots does to the slots of a rule: one is booked, released *)
(* by a cancellation, or deleted when free.                                *)
(***************************************************************************)
Book(w, i) ==
  /\ i \in free[w] /\ UpTo(plusDays(now, 1), i)
  /\ free' = [free EXCEPT ![w] = @ \ {i}]
  /\ booked' = [booked EXCEPT ![w] = @ \cup {i}]
  /\ UNCHANGED <<now, rule, unlinked, created, req, cleaner, failures>>

Release(w, i) ==
  /\ i \in booked[w] /\ UpTo(now, i)
  /\ booked' = [booked EXCEPT ![w] = @ \ {i}]
  /\ free' = [free EXCEPT ![w] = @ \cup {i}]
  /\ UNCHANGED <<now, rule, unlinked, created, req, cleaner, failures>>

DeleteSlot(w, i) ==
  /\ i \in free[w]
  /\ free' = [free EXCEPT ![w] = @ \ {i}]
  /\ UNCHANGED <<now, rule, booked, unlinked, created, req, cleaner, failures>>

(***************************************************************************)
(* clean_old_slots.  It reads the slots that are over, pays for them (see  *)
(* CoachingSlots), then reads the rules and creates their slots.           *)
(***************************************************************************)
SlotsOf(w) == free[w] \cup booked[w] \cup unlinked[w]
OverSlots(w) == {i \in SlotsOf(w) : Before(slot_end(i, End[w]), now)}

CleanupBegin ==
  /\ cleaner.pc = "idle"
  /\ cleaner' = [IdleCleaner EXCEPT !.pc = "rules", !.over = [w \in Rules |-> OverSlots(w)]]
  /\ UNCHANGED <<now, tables, req, failures>>

CleanupReadRules ==
  /\ cleaner.pc = "rules"
  /\ cleaner' = [cleaner EXCEPT !.pc = "create", !.row = rule,
                                !.until = plusDays(now, Horizon)]
  /\ UNCHANGED <<now, tables, req, failures>>

ToCreate == {w \in Rules : cleaner.row[w] # NoRule /\ More(cleaner.row[w], cleaner.until)}

CleanupCreate(w) ==
  /\ cleaner.pc = "create"
  /\ w \in ToCreate
  /\ cleaner' = [cleaner EXCEPT
       !.row[w].last_slot = next(w, cleaner.row[w]),
       !.made[w] = @ \cup {next(w, cleaner.row[w])}]
  /\ UNCHANGED <<now, tables, req, failures>>

\* The UPDATE of last_slot finds no row, or the INSERT of a slot no rule, when
\* the rule has been deleted: nothing of the pass is stored.
CleanupRefused == \E w \in Rules : cleaner.made[w] # {} /\ rule[w] = NoRule

RulesAsRead(w) == rule[w]
AfterPass(w) ==
  IF cleaner.made[w] = {} THEN rule[w]
  ELSE [rule[w] EXCEPT !.last_slot = cleaner.row[w].last_slot]

CleanupStore ==
  /\ rule' = [w \in Rules |-> AfterPass(w)]
  /\ free' = [w \in Rules |-> (free[w] \ cleaner.over[w]) \cup cleaner.made[w]]
  /\ booked' = [w \in Rules |-> booked[w] \ cleaner.over[w]]
  /\ unlinked' = [w \in Rules |-> unlinked[w] \ cleaner.over[w]]
  /\ created' = [w \in Rules |-> created[w] \cup cleaner.made[w]]

CleanupCommit ==
  /\ cleaner.pc = "create" /\ ToCreate = {}
  /\ cleaner' = IdleCleaner
  /\ IF CleanupRefused THEN UNCHANGED tables ELSE CleanupStore
  /\ UNCHANGED <<now, req, failures>>

\* An exception while the slots are paid for commits the deletions made so
\* far; the rules are not reached in that pass.
CleanupFails ==
  /\ cleaner.pc = "rules"
  /\ Fail
  /\ \E done \in [Rules -> SUBSET UNION {cleaner.over[w] : w \in Rules}] :
       /\ \A w \in Rules : done[w] \subseteq cleaner.over[w]
       /\ free' = [w \in Rules |-> free[w] \ done[w]]
       /\ booked' = [w \in Rules |-> booked[w] \ done[w]]
       /\ unlinked' = [w \in Rules |-> unlinked[w] \ done[w]]
  /\ cleaner' = IdleCleaner
  /\ UNCHANGED <<now, rule, created, req>>

Crash ==
  /\ Fail
  /\ cleaner' = IdleCleaner
  /\ req' = [r \in Requests |-> IF InFlight(r) THEN Ended("failed")
                                ELSE req[r]]
  /\ UNCHANGED <<now, tables>>

\* The service may be down, or slow, for as long as it takes.
Tick ==
  /\ \E i \in Clock : Before(now, i) /\ now' = i
  /\ UNCHANGED <<tables, req, cleaner, failures>>

(***************************************************************************)
(* Specification                                                           *)
(***************************************************************************)
Arrive(r) == \E w \in Rules : AddRule(r, w) \/ DeleteRule(r, w)
Continue(r) == AddCreate(r) \/ AddCommit(r) \/ DeleteCommit(r)

Bookings == \E w \in Rules : \E i \in free[w] \cup booked[w] :
              Book(w, i) \/ Release(w, i) \/ DeleteSlot(w, i)

Cleanup == \/ CleanupBegin \/ CleanupReadRules
           \/ \E w \in Rules : CleanupCreate(w)
           \/ CleanupCommit \/ CleanupFails

Next == \/ \E r \in Requests : Arrive(r)
        \/ \E r \in Requests : Continue(r)
        \/ Bookings
        \/ Cleanup
        \/ Crash
        \/ Tick

Spec == Init /\ [][Next]_vars

\* Requests are carried on, the loop of the cleanup task never ends.  Time need
\* not pass.
FairSpec == /\ Spec
            /\ \A r \in Requests : WF_vars(Continue(r))
            /\ WF_vars(Cleanup)

(***************************************************************************)
(* Properties                                                              *)
(***************************************************************************)
\* Every variable has its type, and a slot is in one state at a time.
TypeOK ==
  /\ now \in Instant
  /\ rule \in [Rules -> Row \cup {NoRule}]
  /\ free \in [Rules -> SUBSET Instant]
  /\ booked \in [Rules -> SUBSET Instant]
  /\ unlinked \in [Rules -> SUBSET Instant]
  /\ \A w \in Rules : /\ free[w] \cap booked[w] = {}
                     /\ (free[w] \cup booked[w]) \cap unlinked[w] = {}
  /\ created \in [Rules -> SUBSET Instant]
  /\ req \in [Requests -> Request]
  /\ cleaner \in Cleaner
  /\ failures \in Nat

\* The slots that were ever made for a rule are exactly its occurrences from
\* the moment it was added up to last_slot: none is left out and none is made
\* that the rule does not ask for, whatever failed or overlapped.
Occurrences(w, from, to) ==
  {At(d, Start[w]) : d \in {d \in from.day..to.day :
     /\ Occurs(At(d, Start[w]), Weekday[w], Start[w])
     /\ Before(from, At(d, Start[w])) /\ UpTo(At(d, Start[w]), to)}}

SlotsFollowRule ==
  \A w \in Rules : rule[w] # NoRule =>
    created[w] = Occurrences(w, rule[w].added, rule[w].last_slot)

\* No pass makes a slot a second time.
NoSlotTwice == \A w \in Rules : cleaner.made[w] \cap created[w] = {}

\* A slot that names a rule names one that exists: the deletion of a rule, the
\* cleanup and bookings never leave a slot that the foreign key forbids.
LinkedSlotsHaveRule ==
  \A w \in Rules : free[w] \cup booked[w] # {} => rule[w] # NoRule

\* The deletion of a rule takes no booking away, unless the slot was booked
\* after the deletion had read the rule.
BookingsOutliveRule ==
  [][\A w \in Rules : rule[w] # NoRule /\ rule'[w] = NoRule =>
       \A i \in booked[w] \ (unlinked'[w]) :
         \E r \in Requests : req[r].pc = "commit_delete" /\ i \in req[r].free]_vars

\* A rule gets its slots: when time stands still, in the end its last slot is
\* beyond the horizon, or it has been deleted.
HorizonReached ==
  \A w \in Rules : rule[w] # NoRule ~>
    (rule[w] = NoRule \/ Before(plusDays(now, Horizon), rule[w].last_slot))
============================================================================
