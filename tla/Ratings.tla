------------------------------ MODULE Ratings ------------------------------
(***************************************************************************)
(* The ratings of one lecturer for one skill, and the value of             *)
(* LecturerRating.get_rating that Redis caches for them.  The cleanup task *)
(* opens a rating for every participant of a webinar; the participant      *)
(* gives it or drops it; everybody who looks at the lecturer's events      *)
(* computes their rating or takes it from the cache.                       *)
(*                                                                         *)
(* The database commits when a handler has returned, Redis at once.  So    *)
(* add_rating clears the cache BEFORE the rating it gives is visible, and  *)
(* a reader in between stores a value that lacks it.                       *)
(***************************************************************************)
EXTENDS Integers, FiniteSets

CONSTANTS
  Rows,         \* events_lecturer_rating.id
  When,         \* webinar_timestamp, in days
  Stars,        \* ratings that are given
  MaxKeep,      \* settings.rating_max_keep
  Ttl,          \* settings.cache_ttl, in ticks
  Requests, MaxFailures,
  Unborn, Unrated, Gone, None

ASSUME RatingsAssumption ==
  /\ When \in [Rows -> Nat] /\ MaxKeep \in Nat
  /\ Ttl \in Nat \ {0} /\ MaxFailures \in Nat
  /\ Unborn # Unrated /\ Unborn # Gone /\ Unrated # Gone
  /\ {Unborn, Unrated, Gone, None} \cap Stars = {}
  /\ None \notin Rows

\* The average is not computed: a value is the set of ratings it is made of.
\* The cache holds one value or none.
Value == SUBSET (Rows \X Stars)
NoEntry == {}
Entry(value) == {value}

VARIABLES
  row,        \* Rows -> Stars, Unrated, or no row: Unborn before, Gone after
  cache,      \* func_cache:lecturer_rating:... , an entry or none
  age,        \* ticks since the entry was stored
  req,
  since,      \* ticks since the rating in the database last changed
  contended,  \* rows that overlapping requests of their participant worked on
  failures

vars == <<row, cache, age, req, since, contended, failures>>

InFlightPcs == {"query", "store", "commit_read", "keys", "clear", "commit_rate",
                "commit_drop"}
Final == {"answered", "rated", "dropped", "rejected", "failed"}

Request == [pc : {"idle"} \cup InFlightPcs \cup Final,
            id : Rows \cup {None}, stars : Stars \cup {None},
            val : Value, prune : SUBSET Rows,
            old : BOOLEAN]           \* a tick has passed since it arrived

Idle == [pc |-> "idle", id |-> None, stars |-> None, val |-> {}, prune |-> {},
         old |-> FALSE]

Init == /\ row = [i \in Rows |-> Unborn]
        /\ cache = NoEntry
        /\ age = 0
        /\ req = [r \in Requests |-> Idle]
        /\ since = 0
        /\ contended = {}
        /\ failures = 0

InFlight(r) == req[r].pc \in InFlightPcs
Fail == failures < MaxFailures /\ failures' = failures + 1

(***************************************************************************)
(* get_rating: ratings more than rating_max_keep days older than the       *)
(* newest are deleted and not counted, the others are.                     *)
(***************************************************************************)
Rated == {i \in Rows : row[i] \in Stars}

DroppedAtKeep(S) == {i \in S : \E j \in S : When[j] - When[i] >= MaxKeep}
Dropped(S) == {i \in S : \E j \in S : When[j] - When[i] > MaxKeep}

AllOf(S) == S
Counted(S) == S \ Dropped(S)

Rating == {<<i, row[i]>> : i \in Counted(Rated)}

\* The writes of a commit, and since, which the code has no need of.
Store(new) ==
  /\ row' = new
  /\ since' = IF Rating' = Rating THEN since ELSE 0

Arrive(r, new) == /\ req[r].pc = "idle"
                  /\ req' = [req EXCEPT ![r] = new]
                  /\ UNCHANGED <<row, cache, age, since, failures>>

Become(r, new) == /\ req' = [req EXCEPT ![r] = new]
                  /\ UNCHANGED <<row, since, contended, failures>>

(***************************************************************************)
(* redis_cached around get_rating                                          *)
(***************************************************************************)
ReadHit(r) ==
  /\ \E value \in cache : Arrive(r, [Idle EXCEPT !.pc = "answered", !.val = value])
  /\ UNCHANGED contended

ReadMiss(r) ==
  /\ cache = NoEntry
  /\ Arrive(r, [Idle EXCEPT !.pc = "query"])
  /\ UNCHANGED contended

ReadQuery(r) ==
  /\ req[r].pc = "query"
  /\ Become(r, [req[r] EXCEPT !.pc = "store", !.prune = Dropped(Rated),
                  !.val = {<<i, row[i]>> : i \in Counted(Rated)}])
  /\ UNCHANGED <<cache, age>>

ReadStore(r) ==
  /\ req[r].pc = "store"
  /\ Become(r, [req[r] EXCEPT !.pc = "commit_read"])
  /\ cache' = Entry(req[r].val)
  /\ age' = 0

Pruned(r) == [i \in Rows |-> IF i \in req[r].prune THEN Gone ELSE row[i]]

\* The request commits, and with it the deletions, or it is refused by an
\* HTTPException (InsufficientRatingError, say), which takes them back.
ReadCommit(r) ==
  /\ req[r].pc = "commit_read"
  /\ req' = [req EXCEPT ![r].pc = "answered"]
  /\ Store(Pruned(r)) \/ Store(row)
  /\ UNCHANGED <<cache, age, contended, failures>>

\* Redis raises: the deletions are committed.
ReadFails(r) ==
  /\ req[r].pc = "store"
  /\ Fail
  /\ req' = [req EXCEPT ![r].pc = "failed"]
  /\ Store(Pruned(r))
  /\ UNCHANGED <<cache, age, contended>>

(***************************************************************************)
(* rate_lecturer, cancel_rating and report_lecturer, by the participant    *)
(***************************************************************************)
FindAny(i) == row[i] \in Stars \cup {Unrated}
FindUnrated(i) == row[i] = Unrated

Find(r, i, new) ==
  /\ FindUnrated(i)
  /\ Arrive(r, [new EXCEPT !.id = i])
  /\ contended' = IF \E q \in Requests : InFlight(q) /\ req[q].id = i
                  THEN contended \cup {i} ELSE contended

RateFind(r, i, s) == Find(r, i, [Idle EXCEPT !.pc = "keys", !.stars = s])

\* clear_cache looks for keys first and deletes what it found.
RateKeys(r) ==
  /\ req[r].pc = "keys"
  /\ Become(r, [req[r] EXCEPT !.pc = IF cache = NoEntry THEN "commit_rate" ELSE "clear"])
  /\ UNCHANGED <<cache, age>>

RateClear(r) ==
  /\ req[r].pc = "clear"
  /\ Become(r, [req[r] EXCEPT !.pc = "commit_rate"])
  /\ cache' = NoEntry
  /\ age' = 0

\* The UPDATE names the primary key only, and fails on a row that is gone.
Given(r) == IF row[req[r].id] = Gone THEN row
            ELSE [row EXCEPT ![req[r].id] = req[r].stars]

RateCommit(r) ==
  /\ req[r].pc = "commit_rate"
  /\ req' = [req EXCEPT ![r].pc = IF row[req[r].id] = Gone THEN "failed" ELSE "rated"]
  /\ Store(Given(r))
  /\ UNCHANGED <<cache, age, contended, failures>>

\* Redis raises: the rating is stored and the cache is not cleared.
RateFails(r) ==
  /\ req[r].pc \in {"keys", "clear"}
  /\ Fail
  /\ req' = [req EXCEPT ![r].pc = "failed"]
  /\ Store(Given(r))
  /\ UNCHANGED <<cache, age, contended>>

DropFind(r, i) == Find(r, i, [Idle EXCEPT !.pc = "commit_drop"])

\* Neither handler clears the cache: the row has no rating, as far as it saw.
DropCommit(r) ==
  /\ req[r].pc = "commit_drop"
  /\ req' = [req EXCEPT ![r].pc = "dropped"]
  /\ Store([row EXCEPT ![req[r].id] = Gone])
  /\ UNCHANGED <<cache, age, contended, failures>>

\* report_lecturer cannot send its message.
DropReject(r) ==
  /\ req[r].pc = "commit_drop"
  /\ Become(r, [req[r] EXCEPT !.pc = "rejected"])
  /\ UNCHANGED <<cache, age>>

(***************************************************************************)
(* The environment                                                         *)
(***************************************************************************)
\* LecturerRating.create, in the commit of the cleanup task.
Open(i) ==
  /\ row[i] = Unborn
  /\ row' = [row EXCEPT ![i] = Unrated]
  /\ UNCHANGED <<cache, age, req, since, contended, failures>>

\* A tick lasts longer than any request, and the entry expires after Ttl of
\* them.
StillThere == cache
Expired == NoEntry

Tick ==
  /\ \A r \in Requests : InFlight(r) => ~req[r].old
  /\ req' = [r \in Requests |-> IF InFlight(r) THEN [req[r] EXCEPT !.old = TRUE]
                                ELSE req[r]]
  /\ cache' = IF age + 1 = Ttl THEN Expired ELSE cache
  /\ age' = IF cache = NoEntry THEN 0 ELSE (age + 1) % Ttl
  /\ since' = IF since = Ttl + 2 THEN since ELSE since + 1
  /\ UNCHANGED <<row, contended, failures>>

\* The process restarts: what was not committed is lost, the cache is not.
Crash ==
  /\ Fail
  /\ req' = [r \in Requests |-> IF InFlight(r) THEN [req[r] EXCEPT !.pc = "failed"]
                                ELSE req[r]]
  /\ UNCHANGED <<row, cache, age, since, contended>>

(***************************************************************************)
(* Specification                                                           *)
(***************************************************************************)
Ask(r) == \/ ReadHit(r) \/ ReadMiss(r)
          \/ \E i \in Rows : DropFind(r, i) \/ \E s \in Stars : RateFind(r, i, s)

Continue(r) == \/ ReadQuery(r) \/ ReadStore(r) \/ ReadCommit(r) \/ ReadFails(r)
               \/ RateKeys(r) \/ RateClear(r) \/ RateCommit(r) \/ RateFails(r)
               \/ DropCommit(r) \/ DropReject(r)

Next == \/ \E r \in Requests : Ask(r)
        \/ \E r \in Requests : Continue(r)
        \/ \E i \in Rows : Open(i)
        \/ Tick
        \/ Crash

Spec == Init /\ [][Next]_vars

(***************************************************************************)
(* Properties                                                              *)
(***************************************************************************)
\* Every variable has its type, and a cached value counts no two ratings more
\* than rating_max_keep days apart.
TypeOK ==
  /\ row \in [Rows -> Stars \cup {Unborn, Unrated, Gone}]
  /\ cache \in SUBSET Value /\ Cardinality(cache) <= 1
  /\ \A value \in cache : \A x, y \in value : When[x[1]] - When[y[1]] <= MaxKeep
  /\ age \in 0..Ttl-1
  /\ req \in [Requests -> Request]
  /\ since \in 0..Ttl+2
  /\ contended \in SUBSET Rows
  /\ failures \in Nat

\* A cached rating that is not the rating any more was the rating at most the
\* time to live and one request ago, also when a reader overlaps the giving of
\* a rating or the cache could not be cleared.
Fresh == cache \in {NoEntry, Entry(Rating)}
StalenessBounded == ~Fresh => since <= Ttl

\* A participant who does one thing at a time has a say once: the rating they
\* gave is not changed, and not taken back by cancel_rating or a report.
RatedOnce ==
  [][\A i \in Rows \ contended : row[i] \in Stars =>
       \/ row'[i] = row[i]
       \/ row'[i] = Gone /\ \E r \in Requests : i \in req[r].prune]_vars

\* As long as that holds for all of them, a rating is deleted only while there
\* is another one of a webinar more than rating_max_keep days later, so the
\* lecturer never loses their last rating to the snapshot of a slow reader.
OnlyOldRatingsGo ==
  [][contended = {} =>
       \A i \in Rated \ Rated' : \E j \in Rated' : When[j] - When[i] > MaxKeep]_vars

\* endpoints/ratings.py:28, "Return the rating of a user for a skill.": when no
\* other request is in progress, the rating returned is the rating there is.
RatingReturned ==
  [][\A r \in Requests :
       req[r].pc = "idle" /\ req'[r].pc = "answered"
       /\ (\A q \in Requests : ~InFlight(q))
         => req'[r].val = Rating]_vars
============================================================================
