# Verification of events-ms

`events-ms` is the service of the Bootstrap Academy that manages coachings and
webinars. Instructors offer slots, coaching prices and webinars; users book and
register with coins, which another service, the shop, keeps; everybody may
cancel under certain terms; a background task pays the instructors, opens the
ratings and removes what is over. This directory holds TLA+ models of that
code, the TLC configurations that check them on small instances, and theorems
about them that the TLA+ proof system TLAPS checks for all instances.

Paths below are relative to `src/`; `api/...` is the Python package.

## How the code runs

One process, one event loop (uvicorn, asyncio). Three facts shape every model:

* **Every request is a coroutine with its own session** (`api/app.py:58`
  `db_session` -> `api/database/__init__.py:12` `db_context`). It reads rows when
  it asks for them; its writes reach the database together when the handler has
  returned. Between two `await`s any other request and the cleanup task run.
  There are no row locks, and no handler re-reads what it checked.
* **`db_context` commits in a `finally`.** An `HTTPException` was rolled back
  before that (`api/app.py:64` `rollback_on_exception`). Any other exception
  (`InternalServiceError`, a timeout of httpx, Redis) was not: what the handler had
  written until then is stored.
* **The shop, auth, skills services and Redis act at once.** A call to them is
  never undone by a rollback; one that raises may have had its effect or not.

So a handler is cut at its database reads, its calls that another actor can tell
apart, and its commit. A request is a record with a program counter, what it
read, and what it is going to write. An early return without writes is the
guard of an action. `UPDATE` and `DELETE` of the ORM name the primary key only:
on a row that has vanished the first is an error that loses the transaction, the
second a warning.

## Components

| Component | State it keeps | Operations | Module |
|---|---|---|---|
| Coaching slots and bookings: `api/endpoints/slots.py`, `coachings.py`, `api/models/slots.py`, `coachings.py` | `events_slot`, `events_coachings` | add and delete slots, set and delete a coaching, book | `CoachingSlots`; the promise in `SlotLifecycle` |
| Cancellation: `api/endpoints/calendar.py` `cancel_event` | both tables of events | student, instructor and administrator cancel; refunds | `CoachingSlots`, `Webinars` |
| Emergency cancellations: `api/models/emergency_cancel.py` | `events_emergency_cancel` | create, delete, exists | `CoachingSlots`, `Webinars`, shared in `Events` |
| Fees: `int(price * (1 - event_fee))`, the refund rules | none | arithmetic | `Fees` |
| Webinars: `api/endpoints/webinars.py`, `api/models/webinars.py` | `events_webinars`, `events_webinar_participants` | create, register, update, leave, cancel, clean up | `Webinars` |
| Weekly slots: `api/models/weekly_slots.py` | `events_weekly_slots`, their slots | add and delete a rule, `create_slots`, `next_slot` | `WeeklyRule`, `WeeklySlots` |
| Ratings: `api/models/lecturer_rating.py`, `api/endpoints/ratings.py`, `api/utils/cache.py` | `events_lecturer_rating`, one Redis entry per lecturer and skill | `get_rating` (cached, prunes), rate, cancel, report | `Ratings` |
| Calendar view: `api/endpoints/calendar.py` `get_events` | none, reads all of the above | list, filter by booked and bookable | `CoachingCalendar`, `WebinarCalendar` |
| Cleanup task: `api/app.py:69` `cleanup_loop` | none | `clean_old_webinars`, then `clean_old_slots`, every five minutes | `Webinars`, `CoachingSlots`, `WeeklySlots`, composed in `Events` |
| Database sessions: `api/database/`, `api/app.py:58` | the connection pool, the transaction of a request | query, write, rollback, commit, close | `Sessions`; used by every other module |
| Authentication: `api/auth.py`, `api/utils/jwt.py`, the link of `download_ics` | none; the auth service keeps the ended logins in Redis | decode a token, ask whether it is revoked, check rights | `Access` |
| Internal services: `api/services/` | Redis entries of `is_admin`, `get_email` | coins, xp, levels, users | the cached lookups in `Access`; otherwise in each module, as answers and failures |
| E-mail: `api/utils/email.py` | none | a confirmation is handed to a task | `Sessions`, only when it is sent and that it may raise |
| iCalendar text, documentation, debugging, logging, settings, `main.py` | none | output | not modelled: no state of the domain |
| Exams `api/models/exams.py` | `events_exams` | none | not modelled: no handler uses the table |
| Migrations `alembic/` | the schema | run offline | not modelled |

They interact through the tables, not through calls: a booking, a cancellation,
a deletion, a rule's deletion and the cleanup meet in one row of `events_slot`;
an emergency cancellation of one event makes the next booking of the same
instructor free; the cleanup of a webinar opens the ratings that later limit
what the instructor may charge; rights and remembered answers about users decide
who may do any of it; and all of them compete for one pool of connections.

What is hard here, and listed with its line in `PROJECT.json` under `hazards`:
checks on rows that are stale when the commit comes; coins that move before the
commit that would justify it; the cleanup working on rows that requests are
changing; exceptions that store one half of a handler; the same call made again
by the next pass; calendar arithmetic at its boundaries; a cache cleared before
the change it is cleared for is visible; rights and answers that outlive the
truth; a pool of connections that runs empty, and loses connections to refused
commits; one exception that keeps the cleanup from the rest of its round.

## The modules

### Fees
The phases of an event (`Week`, `Days`, `Soon`, `Running`, `Over`, and `Unborn`
before it exists) are cut where the code's comparisons with `utcnow()` change
their answer: seven days and one day before the start, the start, the end. The
models keep a phase instead of dates; `Tick` moves it on. `InstructorShare`,
`StudentRefund` and `InstructorCompensation` are the arithmetic of
`coachings.py` and `calendar.py`. The code multiplies in binary floating point; for a
few prices its result is one coin below the exact floor the module uses (90,
170, 180 with the default fee of 30 %), never further away.

### CoachingSlots
`slot`, `coaching` and `emergency` are the tables. `req` holds the coroutines of
`book_coaching` (find slot, find coaching, find emergency, spend, commit),
`cancel_event` (find, grant, refund student, refund instructor, commit) and
`delete_slot` (find, commit). `cleaner` is the coroutine of `clean_old_slots`: it
reads its rows, pays for each booked one, and deletes them all in one commit.
`...Fails` actions are calls that raise, `CleanupCommitFails` a refused commit,
`Crash` a restart. Variables the code does not have: `booking` in a row names
the request that wrote it; `payouts` counts what the shop was asked for;
`contended` remembers the instructors whose slots two overlapping requests
worked on, because some properties hold only without overlap, as the findings
show.

### SlotLifecycle, CoachingLifecycle
`SlotLifecycle` is what a student and an instructor are promised about a slot, without
requests or tables: it is offered, held by one booking at a time, cancelled or
held to its end, settled and removed; a cancelled booking is never paid, nor a
paid one cancelled (`PaidOrCancelled`), and a booking does not leave its slot in any
other way (`BookingStands`). The service does not keep that promise for overlapping
requests, as `coaching_double_booking` shows. So a slot may be *disputed*, and then its
booking may be lost, but only before the slot is over. `CoachingLifecycle` maps
the state of `CoachingSlots` to that of `SlotLifecycle`, with one operator per abstract
variable (`Life`, `Holder`, `SlotOf`, `Due`, `PaidFor`, `Cancelled`, `Ended`, `Disputed`): a
booking is the request that made it, a slot is disputed while its owner is `contended`.
It states `ImplementsLifecycle`. Payment and removal are one action, `Clean(P, S)`, of a set of
bookings and a set of settled slots: a call that raises may pay one more booking while
the commit that follows it removes the slots of several others, in the same step.

### Webinars
The same cut as in `CoachingSlots` for `create_webinar`, `register_for_webinar`, `update_webinar`, the two ways of
cancelling and `clean_old_webinars`, which rates, pays and gives xp row by row and
stores ratings, deletions and spent emergency rows together. Foreign and primary
keys refuse a commit as the database does. `update_webinar` assigns to the row
before it asks for the rating, so a raising lookup stores the change. `balance`
counts coins taken minus coins given out per webinar; `irregular` collects the
webinars that overlapping requests worked on, that were repriced or made
smaller under their participants, or that somebody joined free of charge.

### Events
`CoachingSlots` and `Webinars` as two instances over one table of emergency
cancellations and one `cleanup_loop`. `round` is the call of its `try` block the loop is
at: an exception of `clean_old_webinars` leaves `clean_old_slots` out until the next
round, which begins with the webinars again. `Handlers` starts the requests that
touch what the two sides share (book, cancel, register), `Continue` carries on what
has started, `Crash` ends all. `MaxRequests` bounds the requests of both kinds together;
`EventsAssumption` says that no request is of both kinds.

### Sessions
What `db_context` does around a handler, whatever the handler does. A session takes a
connection from the pool at its first query, keeps it over every `await`, and
gives it back at the commit, or at the rollback of an `HTTPException`. When the commit
raises, `db.close()` is never reached (`api/database/__init__.py`): the connection is
`lost` until the session is collected. With the pool empty a query waits, and
raises at the pool's timeout. A handler is reduced to its writes, its confirmation by
e-mail and the four ways to end; the cleanup loop is a task without an
end. The other modules take from here that the writes of one request are stored
together or not at all, and that an exception that is no `HTTPException` stores them.

### Access
Who may do what. `Change`, `Issue`, `Logout` and `Tick` are the auth service and time; a
request arrives with a token that decodes (`decode_jwt`), awaits `is_revoked`, passes
`require_verified_email` and `self_or_admin` on the flags *in the token*, and may then
ask `is_admin` or `get_email`, which `redis_cached` answers from Redis or from the service.
The link that `GET /calendar` hands out bears no token and never expires; its requests
start at the lookup (`download_ics`). `lastHeld` remembers when an account was last in
a state, which is what the properties are measured against.

### WeeklyRule, WeeklySlots
`WeeklyRule` is the date arithmetic: an instant is a day counted from a Monday
and a time of day; `next_slot` is the code's, `slot_end` its duration modulo a
day. `WeeklySlots` holds the rules and, per rule, the starts of its slots that
are free, booked, or unlinked from a deleted rule. `AddRule` and the cleanup run
`create_slots` round by round (`More`, `next`) on the `last_slot` they read; what
they made is stored by their commit, which the database refuses when the rule is
gone. How a slot is booked and released belongs to `CoachingSlots`; here it is
one step each. `created` and `added` remember what was ever made.

### Ratings
The ratings of one lecturer for one skill and the Redis entry for it. `redis_cached`
is a hit, or a miss, a query, a store and a commit; `add_rating` looks for keys,
deletes them and commits afterwards. A value is the set of the ratings that count
in it, not their weighted average, so that two values are equal exactly when
they are made of the same ratings. `Tick` ages the entry and expires it after
`Ttl`.

### CoachingCalendar, WebinarCalendar
Extend the two modules by what `get_coachings`, `get_webinars` and `get_events` show to
every user in every reachable state: price, booked, bookable, the student's name.
A view is taken at one moment; the filters by text and price and the links are
left out.

## What is checked

`MC*.tla` extend the modules with the small instances; every `.cfg` is one run.
Most runs switch deadlock checking off, because every request of an instance is
made once and then the system rests. `sessions`, whose cleanup loop never rests, and
`access`, whose requests come again, check it.

| Run | Instance | Shows |
|---|---|---|
| `coaching_safety` | 1 slot, two instructors of whom one is an administrator, student, 3 requests, 1 failure | every step is one that `SlotLifecycle` allows, so that without overlap no booking gets lost and none is both cancelled and paid; bookings are backed by payments, emergencies are earned, payouts are bounded by failures and given out once, nothing is removed unpaid, slots that are over are frozen; without overlap an emergency cancellation makes exactly one booking free; a student who was charged has the booking unless something failed; the student and the instructor see it in the calendar as it was made, its slot is offered to nobody, and nobody else but an administrator is told who booked it |
| `webinar_safety` | 1 webinar, 2 prices, rating limit, 2 requests, 1 failure | settled once plus once per failed pass; removed only when paid and when everybody has a rating, also who joins meanwhile; seats hold, registrations were paid or were free for a reason, and refunds and payouts stay within what was paid, unless the webinar is irregular; who registered sees it as booked until it is over, cancelled or left |
| `events` | 1 slot and 1 webinar of one instructor, 3 requests, 1 failure, fair | what is free was earned by a cancellation of either kind; one cancellation makes one coaching free at most; every slot and every webinar is removed in the end, although a webinar that raises puts the slots off |
| `sessions` | 2 requests and the loop, 1 connection, 2 writes each, 2 failures, fair | an answer agrees with what is stored, a confirmation with what will be, however commits fail; every request is answered, the loop comes back, the pool recovers all its connections |
| `access` | 1 account and another user id, 1 login, 2 requests, 3 ticks, 2 changes | rights end with the token at the latest, a logout ends access for requests that arrive later, remembered answers are at most `cache_ttl` and one tick old |
| `weekly_slots` | 1 rule, 2 requests, 1 failure, two weeks of downtime, a slot exactly at the horizon, fair | slots are exactly the rule's occurrences, none twice, none without rule; a deletion takes no booking it read as booked; rules reach beyond the horizon |
| `rating_safety` | 3 ratings around `rating_max_keep`, of 1 or 5 stars, 3 requests, 1 failure | a stale value is at most its time to live and one request old; pruning never takes the last rating; a rating is given once and not turned into another one, unless its participant overlaps requests |

The runs named below check a sentence of the repository and find it violated;
`PROJECT.json` quotes each under `findings`.

| Run | What happens |
|---|---|
| `coaching_unqualified` | `set_coaching` compares the level the wrong way round (`coachings.py:124`) |
| `coaching_double_booking` | two bookings of one slot both charge, the second overwrites the first (`coachings.py:44`) |
| `webinar_cancel_charges` | cancelling a webinar charges its participants again (`calendar.py:363`) |
| `webinar_unchecked_price` | a price is stored although the rating could not be checked (`webinars.py:240`) |
| `rating_stale` | a rating given is missing from the value returned after it (`lecturer_rating.py:45`) |

The models behave like the code in the following respects too, which no run
asserts to be otherwise; the properties above are stated around them.

* `delete_slot` deletes a slot that was booked after it was read, and the student's
  coins are gone (`slots.py:70-73`).
* A coaching is looked up by its instructor only; any skill can be booked at the
  price found (`coachings.py:51`).
* Two registrations take the last seat of a webinar (`webinars.py:171`), and one
  that fails at its commit keeps the coins (`webinars.py:174`).
* A weekly rule whose start equals its end makes slots of no length
  (`weekly_slots.py:49`), and after a downtime `create_slots` makes slots that are past.
* A confirmation that was sent is not taken back when the commit is refused, and
  that commit's connection is missing from the pool until the session is collected
  (`api/database/__init__.py`).
* Who is no longer an administrator, or not verified any more, keeps the rights
  in the token until it expires (`api/auth.py`); a calendar link lasts for ever.
* `get_events(bookable=True)` returns slots within a day of their start, and running
  ones (`calendar.py:177`), which `book_coaching` refuses (`coachings.py:45`); the
  description of the filter is "Return only events that the user can book"
  (`calendar.py:249`). `get_events(booked=True)` returns the coachings that anybody booked
  (`calendar.py:146`); its description is "Return only events that the user has
  booked" (`calendar.py:248`). `CoachingCalendar` models both as the code has them;
  `BookingShown` says what the two parties of a booking see, and what everybody
  else does not, and asks for neither of the two.

### Bounds, and why they are enough

* `Requests`: each is made once. The races of this code are between two
  requests, or a request and the cleanup; a third request lets the booking,
  registration or rating they race about exist before, or another follow.
* `MaxFailures`: calls that raise, refused commits and restarts together. One
  failure can fall on every step. The runs with liveness properties need it finite, as a shop
  that always raises keeps the cleanup from removing anything; bounds such as
  `payouts[b] <= 1 + failures` are stated relative to it. A pass of the webinar
  cleanup that loses its writes to a newcomer counts as one too.
* One slot, which is free again after a cancellation, so that an emergency
  cancellation and the booking it makes free can follow in it. `events`
  has a webinar next to it, since a cancelled webinar is gone.
* `Lecturers`: who offers anything. The code lets every account; the properties
  distinguish owner, student and administrator.
* `Starts`: the phases to which the dates of an event are set.
* `MaxRequests`: three requests of both kinds together are two events and the
  cancellation of one of them, or a cancellation and two bookings after it.
* `pool_size`, `max_overflow`: one connection for three tasks, so that each can be kept
  waiting by each of the others and by a lost connection. `Writes` is two, to tell
  nothing, a part and everything apart.
* `TokenTtl`, `cache_ttl`, `MaxTime`, `MaxChanges`, `MaxTokens`: a right and an answer outlive
  the truth by one tick each; with three ticks a token is issued, its right lost, and
  the token refused. Two changes make a user an administrator and unmake one.
  The bounds stated are the smallest that hold there.
* `Clock`, `Horizon`: a rule is added on the day before its weekday, on the day
  itself before its time, or weeks later; the horizon is 8 days instead of 30,
  so that it has one or two slots ahead and, when it is added on the day before,
  one exactly at the horizon.
* `Ttl` is two ticks. The bound in `StalenessBounded` is the smallest that holds.
* `Stars` are two, so that a rating that is given again, and a cached value that has the
  old one, are seen.
* Symmetry: requests differ in nothing but their name. Runs with liveness properties
  use none.

### Assumptions of the models

* A phase, and a tick of `Ratings`, lasts longer than a request: a request that
  read an event in one phase has ended before the phase after the next. A call
  over httpx gives up after five seconds, phases last hours. A request may still
  read in one phase and commit in the next, which is where the comparisons with
  `utcnow()` are stale. So with a tick of `Access`: a token lasts minutes. `WeeklySlots` does not need this: time passes
  there however long a request or a pass takes.
* Fairness: a request that has arrived is carried on (calls to other services
  time out; the database and Redis answer or raise); time passes; `cleanup_loop`
  never ends, since it catches every exception and sleeps five minutes
  (`api/app.py:69-76`). Nothing says that requests arrive, and
  `weekly_slots` does not even assume that time passes. In `Sessions` the loop also wakes
  from its sleep, and the sessions of finished tasks are collected, which CPython
  does when their last reference goes; a query that waits for a connection gets
  one or times out. `EverythingEnds` needs fairness of the one loop only, not of
  its two passes separately.
* Reads of one session that no other actor can tell apart from one read are one
  step; `add_slots`, `set_coaching`, `delete_coaching` and `create_webinar`, which write rows
  that nobody else writes, are one step.
* What a user's rating allows (`Limit`) does not change; when updates of the dates
  of a webinar overlap, the last one's dates count.
* `CoachingSlots` and `Webinars` each have the table of emergency cancellations for
  themselves; what follows from sharing it is checked in `Events`.
* The database holds no request up with row locks; `Sessions` knows no other reason
  to wait than the pool.
* The auth service keeps a logout in Redis at least as long as the tokens of that
  login last, and signs tokens with what the account is at that moment. Neither is
  code of this repository.

### Not modelled

* `exists_user` and `check_existence`, `admin_auth`, the internal audience, `get_user_id_by_email`
  and `get_lecturers`: no endpoint uses them.
* The text of e-mails and of the iCalendar export, and the delivery of e-mails: output.
* `events_exams`: no handler reads or writes it. The migrations: run offline.
* Settings, logging, the Sentry and documentation helpers: no state of the domain.
* The filters of the listings by title, skill, time and price.
* How `api/database/database.py` builds statements and converts columns; of it
  `Sessions` has what happens to connections and transactions.
* The skills and levels of users, which other services own: constants.

## What is proved

TLC checks the instances above. For the following, TLAPS checks a proof for every
number of users, slots, webinars, rules, requests and failures, every price and fee. The
proofs rest on the named assumptions of the modules only (`CoachingAssumption`,
`WebinarAssumption`, `NoRowAssumption`, `FeeAssumption`, `EventsAssumption`, `RatingsAssumption`,
`WeeklyAssumption`, `NoRuleAssumption`, `SessionAssumption`, `AccessAssumption`), which TLC evaluates
in every run of the module, and for `SlotLifecycle` on `None \notin Slots`, which
`CoachingSlotsProofs` derives for the instance it uses. Every safety property that a run
checks, invariant or action property, is the statement of a theorem, and so is the
refinement.

The properties are not inductive, nearly all for one reason: a step that stores
something uses what its request read several steps before. Each invariant therefore adds
what a request in flight knows at every program counter, and why that is still
true, or which of it is not any more.

* `CoachingSlotsProofs`, part 1: `TypeCorrect`, `BookingsAreBacked`, `EmergenciesAreEarned`,
  `OverSlotsAreFrozen`, and `RefundWithinPrice`: student and instructor together never
  get back more than the price. `IInv` has `ReqOK(r)`, what a request has read, been charged
  and is going to write (its student is not the owner, its price is paid unless it
  deletes an emergency row, its slot has the owner it saw); `Timing`, that an unfinished
  request read its slot at most one phase ago, from which `OverIsFrozen` follows; and
  `CleanerOK`, the same for the cleanup. That a slot's owner never changes and its
  identifier is never used again is what lets the old read speak about the new row.
* `CoachingSlotsProofs`, part 2: `PayoutsAreBounded`, `BookingsArePaidFirst`, `EmergencyPaysOnce`,
  `CoinsAreGivenOutOnce`, `ChargedMeansBooked`, `BookingsAreShown`. `LInv` adds to `IInv`: what a
  cancellation gives back stands in a row that a finished booking backs (`AllSeen`); two
  requests in flight on slots of one owner make the owner `contended`, and until then the
  slot is what its request has read (`Contention`); a deletion that read its slot after the
  start finds no booking to lose (`LateDelete`); a slot that the pass of the cleanup has
  selected keeps its row, and a pass pays before it deletes (`PassOK`, `PaidOK`). Two books
  balance: of grants, free bookings plus the waiting row are *equal* to the cancellations
  that granted (`GrantsOK`); of coins, refunds and payouts of a booking are one less as long
  as its coins can still be given out (`GivenOK`). `ChargedMeansBooked` adds `ChargesOK`: of
  the requests on an uncontended instructor's slots one at most is in flight, so that a
  failure loses one payment at most, and its slot cannot have vanished before it commits, since
  a booking is committed before its slot is over (`Timing`). `BookingsAreShown` adds
  `BookingsStand`: a booking stays in its slot, so that whoever sees the slot sees the booking.
* The refinement, in the same module: `PromiseIsKept` is `Spec => ImplementsLifecycle`. The
  lemmas `Map...` name, for the actions of `CoachingSlots`, the action of `SlotLifecycle` that each is,
  or show that it stutters; a step that would break the promise (the second booking of a slot, a late
  cancellation, a deletion of a booked slot) needs a stale read, hence by
  `Contention` a disputed slot, and by `Timing` one that is not over. The proof attempt
  is what made `Clean(P, S)` one action. `CancelledIsNotPaid` and `BookingsKeepTheirSlots` carry
  the theorems of `SlotLifecycleProofs` over to `CoachingSlots`.
* `SlotLifecycleProofs`: `NeverBoth`, `UndisputedStands`. A payment needs a slot that is over and a
  cancellation one that is not; they exclude each other because a booking keeps
  the slot it was made for, what was paid for belongs to a slot that is over
  (`PaidWhenOver`), and the booking that holds a slot was made for it and is not
  cancelled (`HeldByItsOwn`).
* `WebinarsProofs`: `TypeCorrect`, `SettledAtMostOnce`, `RatedThenRemoved`, `RegistrationsArePaid`,
  `SeatsSuffice`, `CoinsSuffice`, `RegistrationIsShown`. `ReqOK` and `PassOK` say what requests and
  the pass of the cleanup carry; `SettledOK` that payouts and ratings of a webinar that still
  exists, and that the pass is not done with, are at most as many as the failures; `JoinedOK` that who
  takes part has registered, and who has registered takes part, or has left, while the webinar
  exists. `Alone` is the heart of `SeatsSuffice` and `CoinsSuffice`: a webinar that is not irregular is worked on by one request or by the
  cleanup, and is what that one has read. Then seats are counted on the number the request
  has seen, and the coins balance (`BalanceOK`): what was taken covers the price of
  every participant (`Owed`), and what the request at work has taken or given in
  advance (`Pending`).
* `EventsProofs`: `FreeComesFromGrants`, `OneFreeEach`, about both kinds of events over one table.
  Every step of `Events` is reduced to what it does to requests and emergency rows
  (`SlotStarts`, `SlotGoes`, `WebinarGoes`, `OthersGo`, `Restarts`). A grant and the coaching it makes
  free are far apart, and a webinar may use the row or the cleanup take it in between;
  so `Books(u)` counts a booking that has found a row (`Deleting`) as if the row were there, and
  `OneAtATime` makes it the only one. Here the books are an inequality: a grant can be spent on
  webinars alone.
* `RatingsProofs`: `TypeCorrect`, `StalenessIsBounded`, `RatedOnlyOnce`, `OnlyOldOnesGo`. How stale the
  cache is depends on how old the query of the value on its way there is (`Stale`);
  `Alone` says that a participant's request still has the row it found, unless requests on that
  row overlap; `HasNewest` that whatever a reader is about to prune is too old compared with a
  rating that is there, although the reader's list is older than the ratings.
* `SessionsProofs`: `TypeCorrect`, `AnswersTellStored`, `ConfirmationsHold`. `SessionOK`
  says, for each program counter, what a session may have pending, stored and sent: an `HTTPException` comes
  before the confirmation, a return with all writes or none. That the pool never gives out too
  much needs the count of holders before and after a step (`HoldersOf`).
* `AccessProofs`: `TypeCorrect`, `RightsEnd`, `LogoutsEndAccess`, `AnswersStayTrue`. The properties compare
  now with a moment in the past, so the invariant says when everything that is kept was
  true: a token `TokenTtl` before it expires (`TokensOK`), a remembered answer one tick
  before it was stored (`CacheOK`: a slow request stores what it was told in the tick before),
  an answer in the hands of a request since it arrived (`AnswerOK`). A request is
  at most one tick old, which adds the tick in the bound of `AnswersWereTrue`.
* `WeeklySlotsProofs`: `NextSlotIsNext`: `next_slot` is the least instant after its argument with
  the rule's weekday and time, for every date; no week is left out and none
  doubled. With it `TypeCorrect`, `SlotsAreTheRules`, `SlotsAreMadeOnce`, `LinksHold`, `BookingsSurvive`.
  `SlotsFollowRule` holds of the tables because of what the coroutines carry: `AddsOK` says that an
  addition has made exactly the occurrences from its start to its own `last_slot`,
  and that nobody else knows the rule yet; `PassesOK` that a pass has made exactly those
  between the `last_slot` stored and its own, so that its commit extends the set
  without gap or overlap, unless the rule is gone, when the database
  refuses it; `DeletesOK` that what a deletion read is still among the slots of the
  rule or gone for good, which `BookingsOutliveRule` and `LinkedSlotsHaveRule` need.

Only model-checked: the liveness properties (`EverythingEnds`, `NobodyWaitsForEver`,
`PoolRecovers`, `HorizonReached`), since reasoning about fairness and `ENABLED` is beyond the prover.
No theorem speaks about `MC*` modules or about the runs that find a violation.

## Plan

Done: the life of a slot and its refinement, the cleanup loop as a whole with the
shared emergency cancellations, sessions, access; proofs of every safety property the
runs check and of the refinement. Left, in this order:

1. *Seats of a webinar.* An abstract specification of who holds a seat, with
   `Webinars` shown, and then proved, to implement it for webinars that are not irregular.
2. *The two sides of `Events`.* Which theorems of `CoachingSlots` and `Webinars` hold of `Events`
   as they stand, although each side sees emergency rows that it did not write.
3. *The balance of coachings.* The coins of bookings that were free and are cancelled
   a week ahead (`calendar.py:392`).
