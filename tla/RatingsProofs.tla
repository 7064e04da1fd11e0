--------------------------- MODULE RatingsProofs ---------------------------
(***************************************************************************)
(* Safety of Ratings for every set of rows, dates and requests, any time   *)
(* to live and any number of failures.                                     *)
(*                                                                         *)
(* StalenessBounded is about the cache; what bounds it is how old the      *)
(* query of the value on its way to the cache may be (Stale).  What keeps  *)
(* the last rating from a slow reader is that the newest rating is in no   *)
(* reader's list of old ones (HasNewest), although the lists are older     *)
(* than the ratings.                                                       *)
(***************************************************************************)
EXTENDS Ratings, FiniteSetTheorems, TLAPS
RatePcs == {"keys", "clear", "commit_rate"}

\* A value counts no two ratings more than rating_max_keep days apart.
Within(value) == \A x, y \in value : When[x[1]] - When[y[1]] <= MaxKeep

\* What request r knows: the row and the stars of a participant, or the value
\* and the old ratings of a reader.
ReqOK(r) ==
  LET q == req[r] IN
  /\ q.pc \in RatePcs => q.id \in Rows /\ q.stars \in Stars
  /\ q.pc = "commit_drop" => q.id \in Rows
  /\ Within(q.val)
  /\ \A i \in q.prune : row[i] \in Stars \cup {Gone}

\* The cache holds one value or none.
CacheOK == cache = NoEntry \/ \E value \in Value : Within(value) /\ cache = Entry(value)

\* The rating changed after the query that a value about to be stored, or the one
\* in the cache, comes from; since counts from that change.
Stale == /\ \A r \in Requests : req[r].pc = "store" /\ req[r].val # Rating =>
              since <= IF req[r].old THEN 1 ELSE 0
         /\ ~Fresh => since <= age + 1

\* Two requests on one row contend; alone, a participant's request still has the
\* row that it found.
Alone ==
  /\ \A r, q \in Requests :
       r # q /\ InFlight(r) /\ InFlight(q) /\ req[r].id = req[q].id /\ req[r].id \in Rows
         => req[r].id \in contended
  /\ \A r \in Requests :
       InFlight(r) /\ req[r].id \in Rows \ contended => row[req[r].id] = Unrated

\* There is a newest rating, and whatever a reader is about to delete is too old
\* compared with one that is there.
Newest(m) == m \in Rated /\ \A j \in Rated : When[j] <= When[m]
HasNewest ==
  contended = {} =>
    /\ Rated # {} => \E m \in Rows : Newest(m)
    /\ \A r \in Requests : \A i \in req[r].prune :
         InFlight(r) => \E j \in Rated : When[j] - When[i] > MaxKeep

IInv == /\ TypeOK /\ CacheOK /\ \A r \in Requests : ReqOK(r)
        /\ Stale /\ Alone /\ HasNewest

\* Initially there are no ratings, and nobody asks for them.
LEMMA InitIInv == Init => IInv
<1> SUFFICES ASSUME Init PROVE IInv
  OBVIOUS
<1> USE RatingsAssumption
<1>a. /\ \A i \in Rows : row[i] = Unborn
      /\ \A r \in Requests : req[r] = Idle
      /\ cache = {} /\ age = 0 /\ since = 0 /\ contended = {} /\ failures = 0
  BY DEF Init, NoEntry
<1>1. Idle \in Request /\ req = [r \in Requests |-> Idle]
  BY DEF Init, Idle, Request, Value
<1>2. TypeOK
  <2>1. Cardinality(cache) = 0
    BY <1>a, FS_EmptySet
  <2> QED
    BY <1>a, <1>1, <2>1 DEF Init, TypeOK
<1>3. CacheOK /\ \A r \in Requests : ReqOK(r)
  BY <1>a DEF CacheOK, NoEntry, ReqOK, Idle, RatePcs, Within
<1>4. Stale
  BY <1>a DEF Stale, Fresh, NoEntry, Idle
<1>5. Alone /\ HasNewest
  BY <1>a DEF Alone, HasNewest, InFlight, InFlightPcs, Idle, Rated
<1> QED
  BY <1>2, <1>3, <1>4, <1>5 DEF IInv

-----------------------------------------------------------------------------
(***************************************************************************)
(* The steps                                                               *)
(***************************************************************************)
\* A request that looks at one row, or asks for the rating, starts.
Started(r) ==
  /\ UNCHANGED <<row, cache, age, since, failures>>
  /\ req[r].pc = "idle" /\ req'[r] \in Request /\ Within(req'[r].val)
  /\ req'[r].prune = {} /\ req'[r].pc # "store"
  /\ req'[r].pc \in RatePcs => req'[r].stars \in Stars
  /\ \/ req'[r].id = None /\ contended' = contended
        /\ req'[r].pc \notin RatePcs \cup {"commit_drop"}
     \/ /\ req'[r].id \in Rows /\ row[req'[r].id] = Unrated
        /\ contended' = IF \E q \in Requests : InFlight(q) /\ req[q].id = req'[r].id
                        THEN contended \cup {req'[r].id} ELSE contended

\* What an arriving request does.
LEMMA AskStarts ==
  ASSUME IInv, NEW r \in Requests, Ask(r)
  PROVE  /\ Started(r) /\ req' = [req EXCEPT ![r] = req'[r]]
         /\ \A p \in Requests \ {r} : req'[p] = req[p]
<1>a. /\ req \in [Requests -> Request] /\ cache \in SUBSET Value /\ CacheOK
      /\ \A value \in cache : Within(value)
  BY DEF IInv, TypeOK, Within
<1>b. Idle \in Request /\ Within({})
  BY DEF Idle, Request, Value, Within
<1>1. ASSUME NEW new, Arrive(r, new)
      PROVE  /\ req' = [req EXCEPT ![r] = new] /\ req'[r] = new /\ req[r].pc = "idle"
             /\ \A p \in Requests \ {r} : req'[p] = req[p]
             /\ UNCHANGED <<row, cache, age, since, failures>>
  BY <1>a, <1>1 DEF Arrive
<1>2. CASE ReadHit(r)
  <2>1. PICK value \in cache : Arrive(r, [Idle EXCEPT !.pc = "answered", !.val = value])
    BY <1>2 DEF ReadHit
  <2> DEFINE new == [Idle EXCEPT !.pc = "answered", !.val = value]
  <2>2. /\ new \in Request /\ new.pc = "answered" /\ new.prune = {} /\ new.id = None
        /\ new.val = value /\ Within(value)
    BY <1>a, <2>1 DEF Idle, Request, Final
  <2> HIDE DEF new
  <2>3. /\ req' = [req EXCEPT ![r] = new] /\ req'[r] = new /\ req[r].pc = "idle"
        /\ \A p \in Requests \ {r} : req'[p] = req[p]
        /\ UNCHANGED <<row, cache, age, since, failures>>
    BY <1>1, <2>1 DEF new
  <2> QED
    BY <1>2, <2>2, <2>3 DEF Started, ReadHit, RatePcs
<1>3. CASE ReadMiss(r)
  <2> DEFINE new == [Idle EXCEPT !.pc = "query"]
  <2>1. Arrive(r, new)
    BY <1>3 DEF ReadMiss
  <2>2. /\ new \in Request /\ new.pc = "query" /\ new.prune = {} /\ new.id = None
        /\ new.val = {}
    BY DEF Idle, Request, InFlightPcs, Value
  <2> HIDE DEF new
  <2>3. /\ req' = [req EXCEPT ![r] = new] /\ req'[r] = new /\ req[r].pc = "idle"
        /\ \A p \in Requests \ {r} : req'[p] = req[p]
        /\ UNCHANGED <<row, cache, age, since, failures>>
    BY <1>1, <2>1
  <2> QED
    BY <1>b, <1>3, <2>2, <2>3 DEF Started, ReadMiss, RatePcs
<1>4. ASSUME NEW i \in Rows, NEW base, Find(r, i, base),
             base \in Request, base.val = {}, base.prune = {}, base.pc # "store",
             base.pc \in RatePcs => base.stars \in Stars
      PROVE  /\ Started(r) /\ req' = [req EXCEPT ![r] = req'[r]]
             /\ \A p \in Requests \ {r} : req'[p] = req[p]
  <2> DEFINE new == [base EXCEPT !.id = i]
  <2>1. /\ Arrive(r, new) /\ row[i] = Unrated
        /\ contended' = IF \E q \in Requests : InFlight(q) /\ req[q].id = i
                        THEN contended \cup {i} ELSE contended
    BY <1>4 DEF Find, FindUnrated
  <2>2. /\ new \in Request /\ new.pc = base.pc /\ new.prune = {} /\ new.id = i
        /\ new.val = {} /\ new.stars = base.stars
    BY <1>4 DEF Request
  <2> HIDE DEF new
  <2>3. /\ req' = [req EXCEPT ![r] = new] /\ req'[r] = new /\ req[r].pc = "idle"
        /\ \A p \in Requests \ {r} : req'[p] = req[p]
        /\ UNCHANGED <<row, cache, age, since, failures>>
    BY <1>1, <2>1
  <2> QED
    BY <1>b, <1>4, <2>1, <2>2, <2>3 DEF Started
<1>5. ASSUME NEW i \in Rows, DropFind(r, i)
      PROVE  /\ Started(r) /\ req' = [req EXCEPT ![r] = req'[r]]
             /\ \A p \in Requests \ {r} : req'[p] = req[p]
  <2> DEFINE base == [Idle EXCEPT !.pc = "commit_drop"]
  <2>1. /\ base \in Request /\ base.val = {} /\ base.prune = {} /\ base.pc = "commit_drop"
    BY DEF Idle, Request, InFlightPcs, Value
  <2>2. Find(r, i, base)
    BY <1>5 DEF DropFind
  <2> HIDE DEF base
  <2> QED
    BY <1>4, <2>1, <2>2 DEF RatePcs
<1>6. ASSUME NEW i \in Rows, NEW s \in Stars, RateFind(r, i, s)
      PROVE  /\ Started(r) /\ req' = [req EXCEPT ![r] = req'[r]]
             /\ \A p \in Requests \ {r} : req'[p] = req[p]
  <2> DEFINE base == [Idle EXCEPT !.pc = "keys", !.stars = s]
  <2>1. /\ base \in Request /\ base.val = {} /\ base.prune = {} /\ base.pc = "keys"
        /\ base.stars = s
    BY DEF Idle, Request, InFlightPcs, Value
  <2>2. Find(r, i, base)
    BY <1>6 DEF RateFind
  <2> HIDE DEF base
  <2> QED
    BY <1>4, <2>1, <2>2
<1> QED
  BY <1>2, <1>3, <1>5, <1>6 DEF Ask

\* How the ratings change when a request goes on: they are computed, one is
\* given, one dropped, or the old ones are pruned.
Goes(r) ==
  LET q == req[r] new == req'[r] IN
  /\ InFlight(r) /\ new \in Request
  /\ new.id = q.id /\ new.stars = q.stars /\ new.old = q.old
  /\ new.pc \in RatePcs => q.pc \in RatePcs
  /\ new.pc # "commit_drop"
  /\ \/ new.prune = q.prune /\ new.val = q.val /\ new.pc # "store"
     \/ q.pc = "query" /\ new.prune = Dropped(Rated) /\ new.val = Rating
        /\ row' = row /\ new.pc = "store"
  /\ \/ row' = row
     \/ q.pc \in RatePcs /\ row' = Given(r) /\ ~InFlight(r)'
     \/ q.pc = "commit_drop" /\ row' = [row EXCEPT ![q.id] = Gone] /\ ~InFlight(r)'
     \/ q.pc \in {"store", "commit_read"} /\ row' = Pruned(r) /\ ~InFlight(r)'
  /\ \/ row' = row /\ since' = since
     \/ Store(row')
  /\ \/ cache' = cache /\ age' = age
     \/ cache' = NoEntry /\ age' = 0
     \/ q.pc = "store" /\ cache' = Entry(q.val) /\ age' = 0 /\ row' = row
  /\ contended' = contended /\ failures' \in {failures, failures + 1}

\* What a request does when it goes on.
LEMMA ContinueGoes ==
  ASSUME IInv, NEW r \in Requests, Continue(r)
  PROVE  /\ Goes(r) /\ req' = [req EXCEPT ![r] = req'[r]]
         /\ \A p \in Requests \ {r} : req'[p] = req[p]
<1>a. /\ req \in [Requests -> Request] /\ req[r] \in Request /\ ReqOK(r)
      /\ row \in [Rows -> Stars \cup {Unborn, Unrated, Gone}]
  BY DEF IInv, TypeOK
<1>1. CASE ReadQuery(r)
  <2>1. /\ req' = [req EXCEPT ![r] = [req[r] EXCEPT !.pc = "store",
                        !.prune = Dropped(Rated), !.val = Rating]]
        /\ UNCHANGED <<row, since, contended, failures, cache, age>> /\ req[r].pc = "query"
    BY <1>1 DEF ReadQuery, Become, Rating
  <2>2. Dropped(Rated) \in SUBSET Rows /\ Rating \in Value
    BY <1>a DEF Dropped, Rated, Rating, Counted, Value
  <2>3. /\ req'[r].pc = "store" /\ req'[r].prune = Dropped(Rated) /\ req'[r].val = Rating
        /\ req'[r].id = req[r].id /\ req'[r].stars = req[r].stars /\ req'[r].old = req[r].old
        /\ req'[r] \in Request /\ \A p \in Requests \ {r} : req'[p] = req[p]
        /\ req' = [req EXCEPT ![r] = req'[r]]
    BY <1>a, <2>1, <2>2 DEF Request, InFlightPcs
  <2> QED
    BY <2>1, <2>3 DEF Goes, InFlight, InFlightPcs, RatePcs
<1>2. ASSUME NEW pc \in InFlightPcs \cup Final, req' = [req EXCEPT ![r].pc = pc]
      PROVE  /\ req'[r].pc = pc /\ req'[r].prune = req[r].prune /\ req'[r].val = req[r].val
             /\ req'[r].id = req[r].id /\ req'[r].stars = req[r].stars
             /\ req'[r].old = req[r].old
             /\ req'[r] \in Request /\ \A p \in Requests \ {r} : req'[p] = req[p]
             /\ req' = [req EXCEPT ![r] = req'[r]]
  BY <1>a, <1>2 DEF Request
<1>3. CASE ReadStore(r)
  <2>1. /\ req' = [req EXCEPT ![r].pc = "commit_read"] /\ req[r].pc = "store"
        /\ cache' = Entry(req[r].val) /\ age' = 0
        /\ UNCHANGED <<row, since, contended, failures>>
    BY <1>a, <1>3 DEF ReadStore, Become
  <2>2. /\ req'[r].pc = "commit_read" /\ req'[r].prune = req[r].prune /\ req'[r].val = req[r].val
        /\ req'[r].id = req[r].id /\ req'[r].stars = req[r].stars
        /\ req'[r].old = req[r].old
        /\ req'[r] \in Request /\ \A p \in Requests \ {r} : req'[p] = req[p]
        /\ req' = [req EXCEPT ![r] = req'[r]]
    BY <1>2, <2>1 DEF InFlightPcs
  <2> QED
    BY <2>1, <2>2 DEF Goes, InFlight, InFlightPcs, RatePcs
<1>4. CASE ReadCommit(r)
  <2>1. /\ req' = [req EXCEPT ![r].pc = "answered"] /\ req[r].pc = "commit_read"
        /\ row' \in {row, Pruned(r)} /\ Store(row')
        /\ UNCHANGED <<cache, age, contended, failures>>
    BY <1>4 DEF ReadCommit, Store
  <2> QED
    BY <1>2, <2>1 DEF Goes, InFlight, InFlightPcs, Final, RatePcs
<1>5. CASE ReadFails(r)
  <2>1. /\ req' = [req EXCEPT ![r].pc = "failed"] /\ req[r].pc = "store"
        /\ row' = Pruned(r) /\ Store(row')
        /\ UNCHANGED <<cache, age, contended>> /\ failures' = failures + 1
    BY <1>5 DEF ReadFails, Store, Fail
  <2> QED
    BY <1>2, <2>1 DEF Goes, InFlight, InFlightPcs, Final, RatePcs
<1>6. CASE RateKeys(r)
  <2>1. PICK pc \in {"commit_rate", "clear"} :
           /\ req' = [req EXCEPT ![r].pc = pc] /\ req[r].pc = "keys"
           /\ UNCHANGED <<row, since, contended, failures, cache, age>>
    BY <1>a, <1>6 DEF RateKeys, Become
  <2> QED
    BY <1>2, <2>1 DEF Goes, InFlight, InFlightPcs, RatePcs
<1>7. CASE RateClear(r)
  <2>1. /\ req' = [req EXCEPT ![r].pc = "commit_rate"] /\ req[r].pc = "clear"
        /\ cache' = NoEntry /\ age' = 0
        /\ UNCHANGED <<row, since, contended, failures>>
    BY <1>a, <1>7 DEF RateClear, Become
  <2> QED
    BY <1>2, <2>1 DEF Goes, InFlight, InFlightPcs, RatePcs
<1>8. CASE RateCommit(r)
  <2>1. PICK pc \in {"failed", "rated"} :
           /\ req' = [req EXCEPT ![r].pc = pc] /\ req[r].pc = "commit_rate"
           /\ row' = Given(r) /\ Store(row')
           /\ UNCHANGED <<cache, age, contended, failures>>
    BY <1>8 DEF RateCommit, Store
  <2> QED
    BY <1>2, <2>1 DEF Goes, InFlight, InFlightPcs, Final, RatePcs
<1>9. CASE RateFails(r)
  <2>1. /\ req' = [req EXCEPT ![r].pc = "failed"] /\ req[r].pc \in {"keys", "clear"}
        /\ row' = Given(r) /\ Store(row')
        /\ UNCHANGED <<cache, age, contended>> /\ failures' = failures + 1
    BY <1>9 DEF RateFails, Store, Fail
  <2> QED
    BY <1>2, <2>1 DEF Goes, InFlight, InFlightPcs, Final, RatePcs
<1>10. CASE DropCommit(r)
  <2>1. /\ req' = [req EXCEPT ![r].pc = "dropped"] /\ req[r].pc = "commit_drop"
        /\ row' = [row EXCEPT ![req[r].id] = Gone] /\ Store(row')
        /\ UNCHANGED <<cache, age, contended, failures>>
    BY <1>10 DEF DropCommit, Store
  <2> QED
    BY <1>2, <2>1 DEF Goes, InFlight, InFlightPcs, Final, RatePcs
<1>11. CASE DropReject(r)
  <2>1. /\ req' = [req EXCEPT ![r].pc = "rejected"] /\ req[r].pc = "commit_drop"
        /\ UNCHANGED <<row, since, contended, failures, cache, age>>
    BY <1>a, <1>11 DEF DropReject, Become
  <2> QED
    BY <1>2, <2>1 DEF Goes, InFlight, InFlightPcs, Final, RatePcs
<1> QED
  BY <1>1, <1>3, <1>4, <1>5, <1>6, <1>7, <1>8, <1>9, <1>10, <1>11 DEF Continue

\* Every step is one of a request, the opening of a rating, time or a restart.
Moves ==
  \/ \E r \in Requests : /\ Started(r) \/ Goes(r)
                         /\ req' = [req EXCEPT ![r] = req'[r]]
                         /\ \A p \in Requests \ {r} : req'[p] = req[p]
  \/ \E i \in Rows : Open(i)
  \/ Tick
  \/ Crash
  \/ UNCHANGED vars

\* The steps are those that Moves lists.
LEMMA StepMoves ==
  ASSUME IInv, [Next]_vars
  PROVE  Moves
BY AskStarts, ContinueGoes DEF Next, Moves

\* A rating that was given or is gone is not opened again.
LEMMA RowsAge ==
  ASSUME IInv, [Next]_vars, NEW i \in Rows, row[i] \in Stars \cup {Gone}
  PROVE  row'[i] \in Stars \cup {Gone}
<1>a. row \in [Rows -> Stars \cup {Unborn, Unrated, Gone}] /\ Unborn \notin Stars \cup {Gone}
  BY RatingsAssumption DEF IInv, TypeOK
<1>1. CASE row' = row
  BY <1>1
<1>2. ASSUME NEW r \in Requests, Goes(r) PROVE row'[i] \in Stars \cup {Gone}
  <2>1. req[r].pc \in RatePcs => req[r].id \in Rows /\ req[r].stars \in Stars
    BY DEF IInv, ReqOK
  <2> QED
    BY <1>a, <1>2, <2>1 DEF Goes, Given, Pruned
<1>3. ASSUME NEW j \in Rows, Open(j) PROVE row'[i] \in Stars \cup {Gone}
  BY <1>a, <1>3 DEF Open
<1> QED
  BY <1>1, <1>2, <1>3, StepMoves DEF Moves, Started, Tick, Crash, vars

\* The ratings that a query counts are within rating_max_keep days.
LEMMA RatingWithin ==
  ASSUME IInv
  PROVE  Within(Rating) /\ Rating \in Value /\ Dropped(Rated) \subseteq Rated
<1>a. row \in [Rows -> Stars \cup {Unborn, Unrated, Gone}] /\ When \in [Rows -> Nat]
      /\ MaxKeep \in Nat
  BY RatingsAssumption DEF IInv, TypeOK
<1>1. Rating \in Value
  <2>1. \A i \in Counted(Rated) : i \in Rows /\ row[i] \in Stars
    BY DEF Counted, Rated
  <2> QED
    BY <2>1 DEF Rating, Value
<1>2. ASSUME NEW x \in Rating, NEW y \in Rating PROVE When[x[1]] - When[y[1]] <= MaxKeep
  <2>1. x[1] \in Rated /\ y[1] \in Rated /\ y[1] \notin Dropped(Rated)
    BY DEF Rating, Counted
  <2>2. ~(When[x[1]] - When[y[1]] > MaxKeep)
    BY <2>1 DEF Dropped
  <2>3. When[x[1]] \in Nat /\ When[y[1]] \in Nat
    BY <1>a, <2>1 DEF Rated
  <2> QED
    BY <1>a, <2>2, <2>3
<1> QED
  BY <1>1, <1>2 DEF Within, Dropped

\* Requests know what they need to know.
LEMMA ReqStep == IInv /\ [Next]_vars => \A r \in Requests : ReqOK(r)'
<1> SUFFICES ASSUME IInv, [Next]_vars, NEW p \in Requests PROVE ReqOK(p)'
  OBVIOUS
<1>a. ReqOK(p) /\ req[p] \in Request /\ req \in [Requests -> Request]
  BY DEF IInv, TypeOK
<1>b. \A i \in req[p].prune : row'[i] \in Stars \cup {Gone}
  <2>1. req[p].prune \subseteq Rows
    BY <1>a DEF Request
  <2> QED
    BY <1>a, <2>1, RowsAge DEF ReqOK
<1>1. CASE req'[p] = req[p]
  BY <1>a, <1>b, <1>1 DEF ReqOK
<1>2. CASE Started(p)
  BY <1>2, RatingsAssumption DEF Started, ReqOK, RatePcs
<1>3. CASE Goes(p)
  <2>1. /\ req'[p].pc \in RatePcs => req'[p].id \in Rows /\ req'[p].stars \in Stars
        /\ req'[p].pc # "commit_drop"
    BY <1>a, <1>3 DEF Goes, ReqOK
  <2>2. CASE req'[p].prune = req[p].prune /\ req'[p].val = req[p].val
    BY <1>a, <1>b, <2>1, <2>2 DEF ReqOK
  <2>3. CASE req'[p].prune = Dropped(Rated) /\ req'[p].val = Rating /\ row' = row
    BY <2>1, <2>3, RatingWithin DEF ReqOK, Rated
  <2> QED
    BY <1>3, <2>2, <2>3 DEF Goes
<1>4. CASE Tick
  <2>1. /\ req'[p].pc = req[p].pc /\ req'[p].prune = req[p].prune /\ req'[p].val = req[p].val
        /\ req'[p].id = req[p].id /\ req'[p].stars = req[p].stars
    BY <1>a, <1>4 DEF Tick, Request
  <2> QED
    BY <1>a, <1>b, <2>1 DEF ReqOK
<1>5. CASE Crash
  <2>1. /\ req'[p].pc \in {req[p].pc, "failed"} /\ req'[p].prune = req[p].prune
        /\ req'[p].val = req[p].val
        /\ req'[p].id = req[p].id /\ req'[p].stars = req[p].stars
    BY <1>a, <1>5 DEF Crash, Request
  <2> QED
    BY <1>a, <1>b, <2>1 DEF ReqOK, RatePcs
<1> QED
  BY <1>1, <1>2, <1>3, <1>4, <1>5, StepMoves DEF Moves, Open, vars

\* The cache holds one value or none.
LEMMA CacheStep == IInv /\ [Next]_vars => CacheOK'
<1> SUFFICES ASSUME IInv, [Next]_vars PROVE CacheOK'
  OBVIOUS
<1>a. CacheOK
  BY DEF IInv
<1>1. CASE cache' \in {cache, NoEntry}
  BY <1>a, <1>1 DEF CacheOK, Within, Entry, NoEntry
<1>2. ASSUME NEW r \in Requests, cache' = Entry(req[r].val) PROVE CacheOK'
  <2>1. req[r].val \in Value /\ Within(req[r].val)
    BY DEF IInv, TypeOK, Request, ReqOK
  <2> QED
    BY <1>2, <2>1 DEF CacheOK, Within, Entry, NoEntry
<1> QED
  BY <1>1, <1>2, StepMoves DEF Moves, Started, Goes, Open, Tick, Expired, Crash, vars

\* Every step keeps the types.
LEMMA TypeStep == IInv /\ [Next]_vars => TypeOK'
<1> SUFFICES ASSUME IInv, [Next]_vars PROVE TypeOK'
  OBVIOUS
<1> USE RatingsAssumption
<1>a. TypeOK /\ CacheOK'
  BY CacheStep DEF IInv
<1>1. /\ cache' \in SUBSET Value /\ Cardinality(cache') <= 1
      /\ \A value \in cache' : Within(value)
  <2>1. CASE cache' = NoEntry
    BY <2>1, FS_EmptySet DEF NoEntry
  <2>2. ASSUME NEW value \in Value, Within(value), cache' = Entry(value)
        PROVE  /\ cache' \in SUBSET Value /\ Cardinality(cache') <= 1
               /\ \A v \in cache' : Within(v)
    <3>1. Cardinality({value}) = 1
      BY FS_Singleton
    <3> QED
      BY <2>2, <3>1 DEF Entry
  <2> QED
    BY <1>a, <2>1, <2>2 DEF CacheOK, Within
<1>2. row' \in [Rows -> Stars \cup {Unborn, Unrated, Gone}]
  <2>1. ASSUME NEW r \in Requests, Goes(r)
        PROVE  row' \in [Rows -> Stars \cup {Unborn, Unrated, Gone}]
    <3>1. req[r].pc \in RatePcs => req[r].id \in Rows /\ req[r].stars \in Stars
      BY DEF IInv, ReqOK
    <3> QED
      BY <1>a, <2>1, <3>1 DEF TypeOK, Goes, Given, Pruned
  <2> QED
    BY <1>a, <2>1, StepMoves DEF Moves, Started, Open, Tick, Crash, vars, TypeOK
<1>3. req' \in [Requests -> Request]
  <2>1. ASSUME NEW r \in Requests, req'[r] \in Request, req' = [req EXCEPT ![r] = req'[r]]
        PROVE  req' \in [Requests -> Request]
    <3> DEFINE new == req'[r]
    <3>1. new \in Request /\ req' = [req EXCEPT ![r] = new]
      BY <2>1
    <3> HIDE DEF new
    <3> QED
      BY <1>a, <3>1 DEF TypeOK
  <2>2. CASE Tick
    BY <1>a, <2>2 DEF TypeOK, Tick, Request
  <2>3. CASE Crash
    BY <1>a, <2>3 DEF TypeOK, Crash, Request, Final
  <2> QED
    BY <1>a, <2>1, <2>2, <2>3, StepMoves DEF Moves, Started, Goes, Open, vars, TypeOK
<1>4. age' \in 0..Ttl-1
  <2>1. CASE Tick
    <3>1. age \in Nat /\ (age + 1) % Ttl \in 0..Ttl-1
      BY <1>a DEF TypeOK
    <3> QED
      BY <2>1, <3>1 DEF Tick
  <2> QED
    BY <1>a, <2>1, StepMoves DEF Moves, Started, Goes, Open, Crash, vars, TypeOK
<1>5. since' \in 0..Ttl+2
  BY <1>a, StepMoves DEF Moves, Started, Goes, Store, Open, Tick, Crash, vars, TypeOK
<1>6. contended' \in SUBSET Rows
  BY <1>a, StepMoves DEF Moves, Started, Goes, Open, Tick, Crash, vars, TypeOK
<1>7. failures' \in Nat
  BY <1>a, StepMoves DEF Moves, Started, Goes, Open, Tick, Crash, Fail, vars, TypeOK
<1> QED
  BY <1>1, <1>2, <1>3, <1>4, <1>5, <1>6, <1>7 DEF TypeOK, Within

-----------------------------------------------------------------------------
(***************************************************************************)
(* How old a cached value may be                                           *)
(***************************************************************************)
\* The rating depends on the rows that were rated only.
LEMMA RatingKept ==
  ASSUME Rated' = Rated, \A i \in Rated : row'[i] = row[i]
  PROVE  Rating' = Rating
<1>1. Dropped(Rated)' = Dropped(Rated)
  BY DEF Dropped
<1>2. Counted(Rated)' = Counted(Rated) /\ Counted(Rated) \subseteq Rated
  BY <1>1 DEF Counted
<1> QED
  BY <1>2 DEF Rating

\* since counts the ticks from the last change of the rating.
LEMMA SinceMoves ==
  ASSUME IInv, [Next]_vars
  PROVE  \/ Rating' = Rating /\ since' = since /\ ~Tick
         \/ since' = 0 /\ ~Tick
         \/ Rating' = Rating /\ since' <= since + 1 /\ Tick
<1>a. since \in Nat /\ row \in [Rows -> Stars \cup {Unborn, Unrated, Gone}]
  BY RatingsAssumption DEF IInv, TypeOK
<1>1. row' = row => Rating' = Rating
  BY RatingKept DEF Rated
<1>2. CASE Tick
  BY <1>a, <1>1, <1>2 DEF Tick
<1>3. ASSUME NEW i \in Rows, Open(i) PROVE Rating' = Rating /\ since' = since
  <2>1. Rated' = Rated /\ \A j \in Rated : row'[j] = row[j]
    BY <1>a, <1>3, RatingsAssumption DEF Open, Rated
  <2> QED
    BY <1>3, <2>1, RatingKept DEF Open
<1>4. ASSUME NEW r \in Requests, Goes(r)
      PROVE  (Rating' = Rating /\ since' = since) \/ since' = 0
  BY <1>1, <1>4 DEF Goes, Store
<1> QED
  BY <1>1, <1>2, <1>3, <1>4, StepMoves DEF Moves, Started, Crash, vars

\* What comes into the cache and what is on its way there is never older than
\* since, age and the tick that a request may last allow.
LEMMA StaleStep == IInv /\ [Next]_vars => Stale'
<1> SUFFICES ASSUME IInv, [Next]_vars PROVE Stale'
  OBVIOUS
<1>a. /\ Ttl \in Nat \ {0} /\ TypeOK /\ Stale /\ since \in Nat /\ age \in 0..Ttl-1 /\ since' \in Nat /\ age' \in Nat
      /\ req \in [Requests -> Request] /\ req' \in [Requests -> Request]
  <2>1. Ttl \in Nat \ {0} /\ TypeOK /\ TypeOK' /\ Stale
    BY RatingsAssumption, TypeStep DEF IInv
  <2> QED
    BY <2>1 DEF TypeOK
<1>1. ASSUME NEW p \in Requests, req'[p].pc = "store", req'[p].val # Rating'
      PROVE  since' <= IF req'[p].old THEN 1 ELSE 0
  <2>1. CASE since' = 0
    BY <2>1
  <2>2. CASE Rating' = Rating /\ since' = since /\ ~Tick
    <3>1. \/ req'[p] = req[p]
          \/ req'[p].val = Rating
          \/ req'[p].pc # "store"
      BY <1>a, <2>2, StepMoves DEF Moves, Started, Goes, Open, Crash, vars, Request
    <3> QED
      BY <1>a, <1>1, <2>2, <3>1 DEF Stale
  <2>3. CASE Rating' = Rating /\ since' <= since + 1 /\ Tick
    <3>1. /\ req[p].pc = "store" /\ ~req[p].old /\ req'[p].old /\ req'[p].val = req[p].val
      <4>1. req'[p] = IF InFlight(p) THEN [req[p] EXCEPT !.old = TRUE] ELSE req[p]
        BY <2>3 DEF Tick
      <4>2. req[p].pc = "store"
        BY <1>a, <1>1, <4>1 DEF Request
      <4>3. InFlight(p) /\ ~req[p].old
        BY <2>3, <4>2 DEF Tick, InFlight, InFlightPcs
      <4> QED
        BY <1>a, <4>1, <4>2, <4>3 DEF Request
    <3>2. since <= 0
      BY <1>a, <1>1, <2>3, <3>1 DEF Stale
    <3> QED
      BY <1>a, <2>3, <3>1, <3>2
  <2> QED
    BY <2>1, <2>2, <2>3, SinceMoves
<1>2. ASSUME ~Fresh' PROVE since' <= age' + 1
  <2>1. CASE since' = 0
    <3>1. age' \in Nat
      BY <1>a
    <3>2. \A n \in Nat : 0 <= n + 1
      OBVIOUS
    <3> QED
      BY <2>1, <3>1, <3>2
  <2>2. CASE Rating' = Rating /\ since' = since /\ ~Tick
    <3>1. \/ cache' = cache /\ age' = age
          \/ \E r \in Requests : /\ req[r].pc = "store" /\ cache' = Entry(req[r].val)
                                 /\ age' = 0 /\ row' = row
      BY <1>2, <2>2, StepMoves DEF Moves, Started, Goes, Open, Crash, vars, Fresh
    <3>2. CASE cache' = cache /\ age' = age
      BY <1>a, <1>2, <2>2, <3>2 DEF Stale, Fresh
    <3>3. ASSUME NEW r \in Requests, req[r].pc = "store", cache' = Entry(req[r].val), age' = 0
          PROVE  since' <= age' + 1
      <4>1. req[r].val # Rating
        BY <1>2, <2>2, <3>3 DEF Fresh
      <4>2. since <= IF req[r].old THEN 1 ELSE 0
        BY <1>a, <3>3, <4>1 DEF Stale
      <4> QED
        BY <1>a, <2>2, <3>3, <4>2
    <3> QED
      BY <3>1, <3>2, <3>3
  <2>3. CASE Rating' = Rating /\ since' <= since + 1 /\ Tick
    <3>1. age + 1 # Ttl /\ cache' = cache /\ cache # NoEntry
      BY <1>2, <2>3 DEF Tick, Expired, Fresh
    <3>2. age' = age + 1
      <4>1. age + 1 \in 0..Ttl-1 /\ Ttl \in Nat \ {0}
        BY <1>a, <3>1
      <4>2. (age + 1) % Ttl = age + 1
        BY <4>1
      <4> QED
        BY <2>3, <3>1, <4>2 DEF Tick
    <3>3. ~Fresh
      BY <1>2, <2>3, <3>1 DEF Fresh
    <3> QED
      BY <1>a, <2>3, <3>2, <3>3 DEF Stale
  <2> QED
    BY <2>1, <2>2, <2>3, SinceMoves
<1> QED
  BY <1>1, <1>2 DEF Stale

-----------------------------------------------------------------------------
(***************************************************************************)
(* A participant's say                                                     *)
(***************************************************************************)
\* A request in flight was in flight before, on the same row, or has started.
LEMMA StillAt ==
  ASSUME IInv, [Next]_vars, NEW p \in Requests, InFlight(p)'
  PROVE  \/ Started(p)
         \/ /\ InFlight(p) /\ req'[p].id = req[p].id
            /\ \A i \in req'[p].prune : i \in req[p].prune \/ (i \in Dropped(Rated) /\ row' = row)
<1>a. req \in [Requests -> Request]
  BY DEF IInv, TypeOK
<1>1. CASE req'[p] = req[p]
  BY <1>1 DEF InFlight
<1>2. CASE Goes(p)
  BY <1>2 DEF Goes
<1>3. CASE Tick
  BY <1>a, <1>3 DEF Tick, Request, InFlight
<1>4. CASE Crash
  BY <1>a, <1>4 DEF Crash, Request, InFlight, InFlightPcs
<1> QED
  BY <1>1, <1>2, <1>3, <1>4, StepMoves DEF Moves, Open, vars

\* A request that starts is the only one that moves.
LEMMA StartedAlone ==
  ASSUME IInv, [Next]_vars, NEW p \in Requests, Started(p), req'[p].pc # "idle"
  PROVE  \A q \in Requests \ {p} : req'[q] = req[q]
<1>1. req'[p] # req[p] /\ ~InFlight(p)
  BY DEF Started, InFlight, InFlightPcs
<1>2. ~Tick /\ ~Crash
  BY <1>1 DEF Tick, Crash
<1> QED
  BY <1>1, <1>2, StepMoves DEF Moves, Goes, Open, vars

\* Nobody is taken off the list of contended rows.
LEMMA ContendedKept ==
  ASSUME IInv, [Next]_vars
  PROVE  contended \subseteq contended'
BY StepMoves DEF Moves, Started, Goes, Open, Tick, Crash, vars

\* Who may change a row that waits for its rating or has it.
LEMMA RowMoves ==
  ASSUME IInv, [Next]_vars, NEW i \in Rows, row'[i] # row[i], row[i] # Unborn
  PROVE  \/ /\ row[i] \in Stars \cup {Gone} /\ row'[i] = Gone
            /\ \E r \in Requests : i \in req[r].prune /\ InFlight(r) /\ row' = Pruned(r)
         \/ \E r \in Requests : InFlight(r) /\ ~InFlight(r)' /\ req[r].id = i
<1>a. row \in [Rows -> Stars \cup {Unborn, Unrated, Gone}]
  BY DEF IInv, TypeOK
<1>1. ASSUME NEW r \in Requests, Goes(r), row' = Given(r), ~InFlight(r)'
      PROVE  InFlight(r) /\ ~InFlight(r)' /\ req[r].id = i
  BY <1>a, <1>1 DEF Goes, Given
<1>2. ASSUME NEW r \in Requests, Goes(r), row' = [row EXCEPT ![req[r].id] = Gone], ~InFlight(r)'
      PROVE  InFlight(r) /\ ~InFlight(r)' /\ req[r].id = i
  BY <1>a, <1>2 DEF Goes
<1>3. ASSUME NEW r \in Requests, Goes(r), row' = Pruned(r)
      PROVE  /\ row[i] \in Stars \cup {Gone} /\ row'[i] = Gone
             /\ i \in req[r].prune /\ InFlight(r) /\ row' = Pruned(r)
  BY <1>a, <1>3 DEF Goes, Pruned, IInv, ReqOK
<1>4. ASSUME NEW j \in Rows, Open(j) PROVE FALSE
  BY <1>a, <1>4 DEF Open
<1> QED
  BY <1>1, <1>2, <1>3, <1>4, StepMoves DEF Moves, Started, Goes, Tick, Crash, vars

\* While a participant does one thing at a time, it finds the row as it left it.
LEMMA AloneStep == IInv /\ [Next]_vars => Alone'
<1> SUFFICES ASSUME IInv, [Next]_vars PROVE Alone'
  OBVIOUS
<1>a. /\ Alone /\ contended \subseteq contended' /\ Unrated \notin Stars \cup {Gone, Unborn}
      /\ None \notin Rows
  BY ContendedKept, RatingsAssumption DEF IInv
<1>1. ASSUME NEW r \in Requests, NEW q \in Requests, r # q, InFlight(r)', InFlight(q)',
             req'[r].id = req'[q].id, req'[r].id \in Rows
      PROVE  req'[r].id \in contended'
  <2>a. req'[r].pc # "idle" /\ req'[q].pc # "idle"
    BY <1>1 DEF InFlight, InFlightPcs
  <2>1. CASE Started(r)
    <3>1. req'[q] = req[q]
      BY <2>a, <1>1, <2>1, StartedAlone
    <3> QED
      BY <1>a, <1>1, <2>1, <3>1 DEF Started, InFlight
  <2>2. CASE Started(q)
    <3>1. req'[r] = req[r]
      BY <2>a, <1>1, <2>2, StartedAlone
    <3> QED
      BY <1>a, <1>1, <2>2, <3>1 DEF Started, InFlight
  <2>3. CASE InFlight(r) /\ InFlight(q) /\ req'[r].id = req[r].id /\ req'[q].id = req[q].id
    BY <1>a, <1>1, <2>3 DEF Alone
  <2> QED
    BY <1>1, <2>1, <2>2, <2>3, StillAt
<1>2. ASSUME NEW r \in Requests, InFlight(r)', req'[r].id \in Rows \ contended'
      PROVE  row'[req'[r].id] = Unrated
  <2>1. CASE Started(r)
    BY <1>a, <1>2, <2>1 DEF Started
  <2>2. CASE InFlight(r) /\ req'[r].id = req[r].id
    <3> DEFINE i == req[r].id
    <3>1. row[i] = Unrated /\ i \in Rows \ contended
      BY <1>a, <1>2, <2>2 DEF Alone
    <3>2. ASSUME row'[i] # row[i] PROVE FALSE
      <4>1. PICK q \in Requests : InFlight(q) /\ ~InFlight(q)' /\ req[q].id = i
        BY <1>a, <3>1, <3>2, RowMoves
      <4> QED
        BY <1>a, <1>2, <2>2, <3>1, <4>1 DEF Alone
    <3> QED
      BY <2>2, <3>1, <3>2
  <2> QED
    BY <1>2, <2>1, <2>2, StillAt
<1> QED
  BY <1>1, <1>2 DEF Alone, InFlight

-----------------------------------------------------------------------------
(***************************************************************************)
(* The newest rating stays                                                 *)
(***************************************************************************)
\* As long as nobody contends, a step gives one rating, or takes away what a
\* reader has found too old.
LEMMA RatedMoves ==
  ASSUME IInv, [Next]_vars, contended = {}
  PROVE  \/ \E k \in Rows : Rated' = Rated \cup {k}
         \/ /\ Rated' \subseteq Rated
            /\ \A i \in Rated \ Rated' :
                 \E r \in Requests : InFlight(r) /\ i \in req[r].prune
<1>a. /\ row \in [Rows -> Stars \cup {Unborn, Unrated, Gone}]
      /\ Unborn \notin Stars /\ Unrated \notin Stars /\ Gone \notin Stars /\ Unrated # Gone
  BY RatingsAssumption DEF IInv, TypeOK
<1>b. \A r \in Requests : InFlight(r) /\ req[r].id \in Rows => row[req[r].id] = Unrated
  BY DEF IInv, Alone
<1>1. CASE row' = row
  BY <1>1 DEF Rated
<1>2. ASSUME NEW r \in Requests, Goes(r), req[r].pc \in RatePcs, row' = Given(r)
      PROVE  \E k \in Rows : Rated' = Rated \cup {k}
  <2>1. InFlight(r) /\ req[r].id \in Rows /\ req[r].stars \in Stars
    BY <1>2 DEF IInv, ReqOK, Goes
  <2>2. row' = [row EXCEPT ![req[r].id] = req[r].stars]
    BY <1>a, <1>b, <1>2, <2>1 DEF Given
  <2>3. Rated' = Rated \cup {req[r].id}
    BY <1>a, <2>1, <2>2 DEF Rated
  <2> QED
    BY <2>1, <2>3
<1>3. ASSUME NEW r \in Requests, Goes(r), req[r].pc = "commit_drop",
             row' = [row EXCEPT ![req[r].id] = Gone]
      PROVE  Rated' = Rated
  <2>1. req[r].id \in Rows /\ row[req[r].id] = Unrated
    BY <1>b, <1>3 DEF IInv, ReqOK, Goes
  <2> QED
    BY <1>a, <1>3, <2>1 DEF Rated
<1>4. ASSUME NEW r \in Requests, Goes(r), row' = Pruned(r)
      PROVE  Rated' \subseteq Rated /\ Rated \ Rated' \subseteq req[r].prune
  BY <1>a, <1>4 DEF Rated, Pruned
<1>5. ASSUME NEW i \in Rows, Open(i) PROVE Rated' = Rated
  BY <1>a, <1>5 DEF Open, Rated
<1> QED
  <2>1. ASSUME NEW r \in Requests, Goes(r), row' # row
        PROVE  \/ \E k \in Rows : Rated' = Rated \cup {k}
               \/ Rated' = Rated
               \/ Rated' \subseteq Rated /\ Rated \ Rated' \subseteq req[r].prune /\ InFlight(r)
    BY <1>2, <1>3, <1>4, <2>1 DEF Goes
  <2>2. \/ row' = row
        \/ \E i \in Rows : Open(i)
        \/ \E r \in Requests : Goes(r) /\ row' # row
    BY StepMoves DEF Moves, Started, Tick, Crash, vars
  <2> QED
    BY <1>1, <1>5, <2>1, <2>2

\* What was the newest rating is still there, or there is a newer one.
LEMMA NewestKept ==
  ASSUME IInv, [Next]_vars, contended = {}
  PROVE  /\ \A j \in Rated : \E m \in Rated' : When[j] <= When[m]
         /\ Rated' # {} => \E m \in Rows : Newest(m)'
<1>a. /\ When \in [Rows -> Nat] /\ MaxKeep \in Nat /\ HasNewest
      /\ Rated \subseteq Rows /\ Rated' \subseteq Rows
  BY RatingsAssumption DEF IInv, Rated
<1>1. CASE Rated = {}
  <2>1. Rated' = {} \/ \E k \in Rows : Rated' = {k}
    BY <1>1, RatedMoves
  <2>2. ASSUME NEW k \in Rows, Rated' = {k} PROVE Newest(k)'
    BY <1>a, <2>2 DEF Newest
  <2> QED
    BY <1>1, <2>1, <2>2
<1>2. CASE Rated # {}
  <2>1. PICK m \in Rows : Newest(m)
    BY <1>a, <1>2 DEF HasNewest
  <2>2. m \in Rated /\ \A j \in Rated : When[j] <= When[m]
    BY <2>1 DEF Newest
  <2>3. ASSUME NEW k \in Rows, Rated' = Rated \cup {k}
        PROVE  \E n \in Rated' : \A j \in Rated' : When[j] <= When[n]
    <3>1. CASE When[k] <= When[m]
      BY <2>2, <2>3, <3>1
    <3>2. CASE ~(When[k] <= When[m])
      <4>1. When[k] \in Nat /\ When[m] \in Nat /\ \A j \in Rated : When[j] \in Nat
        BY <1>a
      <4>2. \A j \in Rated : When[j] <= When[k]
        BY <2>2, <3>2, <4>1
      <4> QED
        BY <2>3, <4>1, <4>2
    <3> QED
      BY <3>1, <3>2
  <2>4. ASSUME Rated' \subseteq Rated,
               \A i \in Rated \ Rated' : \E r \in Requests : InFlight(r) /\ i \in req[r].prune
        PROVE  \E n \in Rated' : \A j \in Rated' \cup Rated : When[j] <= When[n]
    <3>1. m \in Rated'
      <4>1. SUFFICES ASSUME m \notin Rated' PROVE FALSE
        OBVIOUS
      <4>2. PICK j \in Rated : When[j] - When[m] > MaxKeep
        BY <1>a, <2>2, <2>4, <4>1 DEF HasNewest
      <4>3. When[j] \in Nat /\ When[m] \in Nat /\ When[j] <= When[m]
        BY <1>a, <2>2
      <4> QED
        BY <1>a, <4>2, <4>3
    <3> QED
      BY <2>2, <2>4, <3>1
  <2>5. \E n \in Rated' : \A j \in Rated' \cup Rated : When[j] <= When[n]
    BY <2>3, <2>4, RatedMoves
  <2>6. PICK n \in Rated' : \A j \in Rated' \cup Rated : When[j] <= When[n]
    BY <2>5
  <2>7. n \in Rows /\ Newest(n)'
    BY <1>a, <2>6 DEF Newest
  <2> QED
    BY <2>6, <2>7
<1> QED
  BY <1>1, <1>2

\* There is a newest rating, which no reader is about to delete.
LEMMA HasNewestStep == IInv /\ [Next]_vars => HasNewest'
<1> SUFFICES ASSUME IInv, [Next]_vars, contended' = {}
             PROVE  /\ Rated' # {} => \E m \in Rows : Newest(m)'
                    /\ \A p \in Requests : \A i \in req'[p].prune :
                         InFlight(p)' => \E j \in Rated' : When[j] - When[i] > MaxKeep
  BY DEF HasNewest
<1>a. /\ When \in [Rows -> Nat] /\ MaxKeep \in Nat /\ HasNewest /\ contended = {}
      /\ Rated \subseteq Rows /\ Rated' \subseteq Rows
      /\ req' \in [Requests -> Request]
  BY RatingsAssumption, ContendedKept, TypeStep DEF IInv, Rated, TypeOK
<1>1. ASSUME NEW p \in Requests, NEW i \in req'[p].prune, InFlight(p)'
      PROVE  \E j \in Rated' : When[j] - When[i] > MaxKeep
  <2>1. i \in Rows
    BY <1>a DEF Request
  <2>2. \/ InFlight(p) /\ i \in req[p].prune
        \/ i \in Dropped(Rated)
    BY <1>1, StillAt DEF Started
  <2>3. PICK j \in Rated : When[j] - When[i] > MaxKeep
    BY <1>a, <2>2 DEF HasNewest, Dropped
  <2>4. PICK m \in Rated' : When[j] <= When[m]
    BY <1>a, NewestKept
  <2>5. When[i] \in Nat /\ When[j] \in Nat /\ When[m] \in Nat
    BY <1>a, <2>1
  <2>6. When[m] - When[i] > MaxKeep
    BY <1>a, <2>3, <2>4, <2>5
  <2> QED
    BY <2>6
<1> QED
  BY <1>a, <1>1, NewestKept

-----------------------------------------------------------------------------
(***************************************************************************)
(* The theorems                                                            *)
(***************************************************************************)
\* IInv is inductive.
LEMMA StepIInv == IInv /\ [Next]_vars => IInv'
BY TypeStep, CacheStep, ReqStep, StaleStep, AloneStep, HasNewestStep DEF IInv

\* IInv holds in every state of every behaviour.
LEMMA Invariance == Spec => []IInv
BY InitIInv, StepIInv, PTL DEF Spec

\* Every variable has its type, and a cached value counts no two ratings more
\* than rating_max_keep days apart.
THEOREM TypeCorrect == Spec => []TypeOK
<1>1. IInv => TypeOK
  BY DEF IInv
<1> QED
  BY <1>1, Invariance, PTL

\* For every time to live and number of overlapping requests, with and without
\* failures of Redis: a rating that is served and is not the rating any more
\* stopped being it at most cache_ttl ago, of which the last tick is that of the
\* request that stored it.
THEOREM StalenessIsBounded == Spec => []StalenessBounded
<1>1. IInv => StalenessBounded
  <2> SUFFICES ASSUME IInv, ~Fresh PROVE since <= Ttl
    BY DEF StalenessBounded
  <2>1. since <= age + 1
    BY DEF IInv, Stale
  <2>2. since \in Nat /\ age \in 0..Ttl-1 /\ Ttl \in Nat
    BY RatingsAssumption DEF IInv, TypeOK
  <2> QED
    BY <2>1, <2>2
<1> QED
  BY <1>1, Invariance, PTL

\* A participant whose requests do not overlap rates once: no later request of
\* theirs, and no slow reader, turns the rating into another one.
THEOREM RatedOnlyOnce == Spec => RatedOnce
<1>1. ASSUME IInv, [Next]_vars, NEW i \in Rows \ contended, row[i] \in Stars
      PROVE  row'[i] = row[i] \/ (row'[i] = Gone /\ \E r \in Requests : i \in req[r].prune)
  <2>1. Unborn \notin Stars /\ Unrated \notin Stars
    BY RatingsAssumption
  <2>2. ~ \E r \in Requests : InFlight(r) /\ req[r].id = i
    BY <1>1, <2>1 DEF IInv, Alone
  <2> QED
    BY <1>1, <2>1, <2>2, RowMoves
<1>2. IInv /\ [Next]_vars =>
        [\A i \in Rows \ contended : row[i] \in Stars =>
           \/ row'[i] = row[i]
           \/ row'[i] = Gone /\ \E r \in Requests : i \in req[r].prune]_vars
  BY <1>1
<1> QED
  BY <1>2, Invariance, PTL DEF Spec, RatedOnce

\* As long as no participant contends with themselves, whatever readers computed
\* and however late they commit, a rating goes only when there is one of a
\* webinar more than rating_max_keep days later, which stays.
THEOREM OnlyOldOnesGo == Spec => OnlyOldRatingsGo
<1>1. ASSUME IInv, [Next]_vars, contended = {}, NEW i \in Rated, i \notin Rated'
      PROVE  \E j \in Rated' : When[j] - When[i] > MaxKeep
  <2>a. /\ When \in [Rows -> Nat] /\ MaxKeep \in Nat
        /\ Rated \subseteq Rows /\ Rated' \subseteq Rows
    BY RatingsAssumption DEF Rated
  <2>1. PICK r \in Requests : InFlight(r) /\ i \in req[r].prune
    BY <1>1, RatedMoves
  <2>2. PICK j \in Rated : When[j] - When[i] > MaxKeep
    BY <1>1, <2>1 DEF IInv, HasNewest
  <2>3. PICK m \in Rated' : When[j] <= When[m]
    BY <1>1, NewestKept
  <2>4. When[i] \in Nat /\ When[j] \in Nat /\ When[m] \in Nat
    BY <2>a
  <2>5. When[m] - When[i] > MaxKeep
    BY <2>a, <2>2, <2>3, <2>4
  <2> QED
    BY <2>5
<1>2. IInv /\ [Next]_vars =>
        [contended = {} =>
           \A i \in Rated \ Rated' : \E j \in Rated' : When[j] - When[i] > MaxKeep]_vars
  BY <1>1
<1> QED
  BY <1>2, Invariance, PTL DEF Spec, OnlyOldRatingsGo
============================================================================
