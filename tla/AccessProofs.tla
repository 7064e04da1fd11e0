---------------------------- MODULE AccessProofs ----------------------------
(***************************************************************************)
(* How long rights and remembered answers outlive the truth, for every     *)
(* number of users, logins, tokens and requests and every time to live.    *)
(***************************************************************************)
EXTENDS Access, TLAPS

ReqType == [pc : {"idle", "decoded", "serving", "asking", "storing", "answered"},
            since : 0..MaxTime, by : SUBSET tokens,
            user_id : UserIds \cup {me}, wasOut : BOOLEAN, fn : Lookups,
            about : Users \cup {me}, answer : Values]

\* At some time since t, fn would have returned v for u.
WasTrue(fn, u, v, t) == \E st \in State : AnswerOf(fn, st) = v /\ lastHeld[u][st] >= t

ServedPc == {"serving", "asking", "storing", "answered"}

\* A request under way has arrived in this tick or the last one, with tokens
\* that were valid then; what it has been told was true not long before.
TokenOK(q, t) ==
  /\ q.pc # "idle" => q.since < t.exp
  /\ q.wasOut => t.rt \in loggedOut
  /\ q.pc \in ServedPc => require_verified_email(t) /\ self_or_admin(t, q.user_id)

AnswerOK(q) ==
  /\ q.pc \in {"asking", "storing", "answered"} => q.about \in Users
  /\ q.pc = "storing" => WasTrue(q.fn, q.about, q.answer, q.since)
  /\ q.pc = "answered" => WasTrue(q.fn, q.about, q.answer, q.since - cache_ttl)

ReqOK(q) ==
  /\ q.pc # "idle" => q.since <= now /\ now <= q.since + 1
  /\ \A t \in q.by : TokenOK(q, t) /\ q.by = {t}
  /\ q.pc \in ServedPc => ~q.wasOut
  /\ AnswerOK(q)

HeldNow == \A u \in Users : lastHeld[u][account[u]] = now
NotAhead == \A u \in Users, st \in State : lastHeld[u][st] \in Int /\ lastHeld[u][st] <= now
TokensOK == \A t \in tokens : lastHeld[t.uid][t.data] >= t.exp - TokenTtl
CacheOK == \A fn \in Lookups, u \in Users :
             cache[<<fn, u>>].exp > 0 =>
               WasTrue(fn, u, cache[<<fn, u>>].answer, cache[<<fn, u>>].exp - cache_ttl - 1)

IInv == /\ TypeOK /\ HeldNow /\ NotAhead /\ TokensOK /\ CacheOK
        /\ \A r \in Requests : ReqOK(req[r])

-----------------------------------------------------------------------------
\* At the beginning nothing is under way, issued or remembered.
LEMMA InitIInv == Init => IInv
<1> SUFFICES ASSUME Init PROVE IInv
  OBVIOUS
<1> USE AccessAssumption
<1>1. account \in [Users -> State] /\ lastHeld \in [Users -> [State -> Int]]
  BY DEF Init, State, Never
<1>2. Idle \in ReqType /\ NoEntry \in Entry
  BY DEF Idle, ReqType, Lookups, Values, NoEntry, Entry
<1>3. TypeOK
  BY <1>1, <1>2 DEF Init, TypeOK, ReqType
<1>4. HeldNow /\ NotAhead
  BY <1>1 DEF Init, HeldNow, NotAhead, Never
<1>5. TokensOK
  BY DEF Init, TokensOK
<1>6. CacheOK
  <2>1. \A fn \in Lookups, u \in Users : cache[<<fn, u>>] = NoEntry
    BY DEF Init
  <2> QED BY <2>1 DEF CacheOK, NoEntry
<1>7. ReqOK(Idle)
  BY DEF Idle, ReqOK, AnswerOK, ServedPc
<1> QED BY <1>3, <1>4, <1>5, <1>6, <1>7 DEF Init, IInv

\* A step outside of the requests keeps what IInv says of them and the cache.
LEMMA OutsideStep ==
  ASSUME IInv, UNCHANGED <<cache, req>>,
         loggedOut \subseteq loggedOut',
         \A w \in Users, st \in State : lastHeld'[w][st] \in Int /\ lastHeld'[w][st] >= lastHeld[w][st],
         now' \in Int,
         \A r \in Requests : req[r].pc # "idle" =>
           req[r].since <= now' /\ now' <= req[r].since + 1
  PROVE  CacheOK' /\ \A r \in Requests : ReqOK(req[r])'
<1> USE AccessAssumption
<1>1. /\ lastHeld \in [Users -> [State -> Int]] /\ cache \in [Lookups \X Users -> Entry]
      /\ req \in [Requests -> ReqType]
  BY DEF IInv, TypeOK, ReqType
<1>2. CacheOK'
  <2> SUFFICES ASSUME NEW fn \in Lookups, NEW u \in Users, cache[<<fn, u>>].exp > 0
               PROVE  WasTrue(fn, u, cache[<<fn, u>>].answer,
                              cache[<<fn, u>>].exp - cache_ttl - 1)'
    BY DEF CacheOK
  <2> DEFINE e == cache[<<fn, u>>]
  <2>1. e \in Entry
    BY <1>1
  <2>2. e.exp - cache_ttl - 1 \in Int
    BY <2>1 DEF Entry
  <2>3. WasTrue(fn, u, e.answer, e.exp - cache_ttl - 1)
    BY DEF IInv, CacheOK
  <2>4. WasTrue(fn, u, e.answer, e.exp - cache_ttl - 1) =>
        \E st \in State : AnswerOf(fn, st) = e.answer
                          /\ lastHeld'[u][st] >= e.exp - cache_ttl - 1
    <3> HIDE DEF e
    <3> QED BY <1>1, <2>2 DEF WasTrue
  <2> QED BY <2>3, <2>4 DEF WasTrue, AnswerOf
<1>3. ASSUME NEW r \in Requests PROVE ReqOK(req[r])'
  <2> DEFINE q == req[r]
  <2>1. q \in ReqType /\ ReqOK(q)
    BY <1>1 DEF IInv
  <2>2. q.since \in Int
    BY <2>1 DEF ReqType
  <2>3. \A t \in q.by : TokenOK(q, t)'
    BY <2>1 DEF ReqOK, TokenOK, require_verified_email, self_or_admin, Resolved
  <2>4. ASSUME q.pc = "storing" PROVE WasTrue(q.fn, q.about, q.answer, q.since)'
    <3>1. PICK st \in State : AnswerOf(q.fn, st) = q.answer /\ lastHeld[q.about][st] >= q.since
      BY <2>1, <2>4 DEF ReqOK, AnswerOK, WasTrue
    <3>2. q.about \in Users
      BY <2>1, <2>4 DEF ReqOK, AnswerOK
    <3>3. lastHeld'[q.about][st] >= q.since
      BY <1>1, <2>2, <3>1, <3>2
    <3> QED BY <3>1, <3>3 DEF WasTrue, AnswerOf
  <2>5. ASSUME q.pc = "answered"
        PROVE  WasTrue(q.fn, q.about, q.answer, q.since - cache_ttl)'
    <3>1. PICK st \in State : /\ AnswerOf(q.fn, st) = q.answer
                              /\ lastHeld[q.about][st] >= q.since - cache_ttl
      BY <2>1, <2>5 DEF ReqOK, AnswerOK, WasTrue
    <3>2. q.about \in Users
      BY <2>1, <2>5 DEF ReqOK, AnswerOK
    <3>3. lastHeld'[q.about][st] >= q.since - cache_ttl
      BY <1>1, <2>2, <3>1, <3>2
    <3> QED BY <3>1, <3>3 DEF WasTrue, AnswerOf
  <2>6. AnswerOK(q)'
    BY <2>1, <2>4, <2>5 DEF ReqOK, AnswerOK
  <2> QED BY <2>1, <2>3, <2>6 DEF ReqOK
<1> QED BY <1>2, <1>3

\* A step of one request that leaves the cache alone.
LEMMA RequestStep ==
  ASSUME IInv, NEW r \in Requests, NEW new \in ReqType, ReqOK(new), Become(r, new)
  PROVE  IInv'
<1>1. /\ req \in [Requests -> ReqType] /\ req' = [req EXCEPT ![r] = new]
      /\ UNCHANGED <<now, cache, account, lastHeld, loggedOut, tokens, changes>>
  BY DEF IInv, TypeOK, ReqType, Become, external
<1>2. TypeOK'
  BY <1>1 DEF IInv, TypeOK, ReqType
<1>3. HeldNow' /\ NotAhead' /\ TokensOK' /\ CacheOK'
  BY <1>1 DEF IInv, HeldNow, NotAhead, TokensOK, CacheOK, WasTrue
<1>4. ASSUME NEW q \in ReqType, ReqOK(q) PROVE ReqOK(q)'
  BY <1>1, <1>4 DEF ReqOK, TokenOK, AnswerOK, WasTrue
<1>5. \A x \in Requests : req'[x] \in ReqType /\ ReqOK(req'[x])
  BY <1>1 DEF IInv
<1>6. ASSUME NEW x \in Requests PROVE ReqOK(req[x])'
  BY <1>1, <1>5 DEF ReqOK, TokenOK, AnswerOK, WasTrue
<1> QED BY <1>2, <1>3, <1>6 DEF IInv

\* The auth service and time.
LEMMA AuthServiceIInv == ASSUME IInv, AuthService PROVE IInv'
<1> USE AccessAssumption
<1>0. /\ lastHeld \in [Users -> [State -> Int]] /\ account \in [Users -> State]
      /\ tokens \subseteq Token /\ now \in 0..MaxTime /\ changes \in 0..MaxChanges
      /\ req \in [Requests -> ReqType] /\ HeldNow /\ TokensOK
      /\ \A r \in Requests : ReqOK(req[r])
  BY DEF IInv, TypeOK, ReqType
<1>1. ASSUME NEW u \in Users, NEW st \in State, Change(u, st) PROVE IInv'
  <2>1. /\ UNCHANGED <<now, loggedOut, tokens, cache, req>> /\ changes' \in 0..MaxChanges
        /\ account' = [account EXCEPT ![u] = st]
        /\ lastHeld' = [lastHeld EXCEPT ![u] = [lastHeld[u] EXCEPT ![st] = now]]
    BY <1>0, <1>1 DEF Change
  <2>2. \A w \in Users, x \in State : lastHeld[w][x] \in Int /\ lastHeld[w][x] <= now
    BY DEF IInv, NotAhead
  <2>3. \A w \in Users, x \in State : lastHeld'[w][x] \in Int /\ lastHeld'[w][x] >= lastHeld[w][x]
    BY <1>0, <2>1, <2>2
  <2>4. TypeOK'
    BY <1>0, <2>1 DEF IInv, TypeOK, Token
  <2>5. HeldNow' /\ NotAhead'
    BY <1>0, <2>1, <2>2 DEF HeldNow, NotAhead
  <2>6. TokensOK'
    BY <1>0, <2>1, <2>2, <2>3 DEF TokensOK, Token
  <2>7. CacheOK' /\ \A r \in Requests : ReqOK(req[r])'
    BY <1>0, <2>1, <2>3, OutsideStep DEF ReqOK, ReqType
  <2> QED BY <2>4, <2>5, <2>6, <2>7 DEF IInv
<1>2. ASSUME NEW rt \in Logins, Issue(rt) PROVE IInv'
  <2> DEFINE t == [rt |-> rt, uid |-> Owner[rt], data |-> account[Owner[rt]],
                   exp |-> now + TokenTtl]
  <2>1. /\ UNCHANGED <<now, account, lastHeld, loggedOut, cache, req, changes>>
        /\ tokens' = tokens \cup {t} /\ account[Owner[rt]] # "gone"
    BY <1>2 DEF Issue
  <2>2. t \in Token /\ lastHeld[t.uid][t.data] >= t.exp - TokenTtl
    BY <1>0, <2>1 DEF Token, HeldNow, State
  <2>3. TypeOK'
    BY <1>0, <2>1, <2>2 DEF IInv, TypeOK
  <2>4. HeldNow' /\ NotAhead'
    BY <2>1 DEF IInv, HeldNow, NotAhead
  <2>5. TokensOK'
    <3> HIDE DEF t
    <3> QED BY <1>0, <2>1, <2>2 DEF TokensOK
  <2>6. CacheOK' /\ \A r \in Requests : ReqOK(req[r])'
    BY <1>0, <2>1, OutsideStep DEF ReqOK, ReqType
  <2> QED BY <2>3, <2>4, <2>5, <2>6 DEF IInv
<1>3. ASSUME NEW rt \in Logins, Logout(rt) PROVE IInv'
  <2>1. /\ UNCHANGED <<now, account, lastHeld, tokens, cache, req, changes>>
        /\ loggedOut' = loggedOut \cup {rt}
    BY <1>3 DEF Logout
  <2>2. TypeOK' /\ HeldNow' /\ NotAhead' /\ TokensOK'
    BY <2>1 DEF IInv, TypeOK, HeldNow, NotAhead, TokensOK
  <2>3. CacheOK' /\ \A r \in Requests : ReqOK(req[r])'
    BY <1>0, <2>1, OutsideStep DEF ReqOK, ReqType
  <2> QED BY <2>2, <2>3 DEF IInv
<1>4. CASE Tick
  <2>1. /\ UNCHANGED <<account, loggedOut, tokens, cache, req, changes>>
        /\ now' = now + 1 /\ now' \in 0..MaxTime
        /\ lastHeld' = [w \in Users |-> [lastHeld[w] EXCEPT ![account[w]] = now + 1]]
        /\ \A r \in Requests : req[r].pc # "idle" => req[r].since = now
    BY <1>0, <1>4 DEF Tick
  <2>2. \A w \in Users, x \in State : lastHeld[w][x] \in Int /\ lastHeld[w][x] <= now
    BY DEF IInv, NotAhead
  <2>3. \A w \in Users, x \in State : lastHeld'[w][x] \in Int /\ lastHeld'[w][x] >= lastHeld[w][x]
                                      /\ lastHeld'[w][x] <= now'
    BY <1>0, <2>1, <2>2
  <2>4. TypeOK'
    BY <1>0, <2>1 DEF IInv, TypeOK
  <2>5. HeldNow' /\ NotAhead'
    BY <1>0, <2>1, <2>3 DEF HeldNow, NotAhead
  <2>6. TokensOK'
    BY <1>0, <2>1, <2>2, <2>3 DEF TokensOK, Token
  <2>7. CacheOK' /\ \A r \in Requests : ReqOK(req[r])'
    BY <1>0, <2>1, <2>3, OutsideStep
  <2> QED BY <2>4, <2>5, <2>6, <2>7 DEF IInv
<1> QED BY <1>1, <1>2, <1>3, <1>4 DEF AuthService

\* Whoever asks gets a remembered answer that was true when it was stored, or
\* goes on to ask the service.
LEMMA AsksOK ==
  ASSUME IInv, NEW q \in ReqType, ReqOK(q), q.since <= now, now <= q.since + 1,
         \A t \in q.by : /\ q.since < t.exp
                         /\ require_verified_email(t) /\ self_or_admin(t, q.user_id),
         ~q.wasOut, NEW fn \in Lookups, NEW u \in Users
  PROVE  Asks(q, fn, u) \in ReqType /\ ReqOK(Asks(q, fn, u))
<1> DEFINE entry == cache[<<fn, u>>]
           new == Asks(q, fn, u)
<1> USE AccessAssumption
<1>1. entry \in Entry /\ now \in Nat /\ lastHeld \in [Users -> [State -> Int]]
  BY DEF IInv, TypeOK
<1>2. q.since \in Int /\ q.wasOut \in BOOLEAN
  BY DEF ReqType
<1>3. CASE Alive(entry)
  <2>1. new = [q EXCEPT !.fn = fn, !.about = u, !.pc = "answered", !.answer = entry.answer]
    BY <1>3 DEF Asks, Key
  <2>2. new \in ReqType
    BY <1>1, <2>1 DEF ReqType, Entry
  <2>3. /\ new.pc = "answered" /\ new.fn = fn /\ new.about = u /\ new.answer = entry.answer
        /\ new.since = q.since /\ new.by = q.by /\ new.user_id = q.user_id
        /\ new.wasOut = q.wasOut
    BY <2>1 DEF ReqType
  <2>4. entry.exp \in Nat /\ entry.exp > now
    BY <1>1, <1>3 DEF Alive, Entry
  <2>5. WasTrue(fn, u, entry.answer, entry.exp - cache_ttl - 1)
    BY <1>1, <2>4 DEF IInv, CacheOK
  <2>6. PICK st \in State : /\ AnswerOf(fn, st) = entry.answer
                            /\ lastHeld[u][st] >= entry.exp - cache_ttl - 1
    BY <2>5 DEF WasTrue
  <2>7. lastHeld[u][st] >= q.since - cache_ttl
    BY <1>1, <1>2, <2>4, <2>6
  <2>8. WasTrue(fn, u, entry.answer, q.since - cache_ttl)
    BY <2>6, <2>7 DEF WasTrue
  <2>9. AnswerOK(new)
    BY <2>3, <2>8 DEF AnswerOK
  <2>10. \A t \in new.by : TokenOK(new, t) /\ new.by = {t}
    BY <2>3 DEF TokenOK, ReqOK
  <2>11. ~new.wasOut
    BY <2>3
  <2>12. ReqOK(new)
    <3> HIDE DEF new
    <3> QED BY <2>3, <2>9, <2>10, <2>11 DEF ReqOK
  <2> QED BY <2>2, <2>12
<1>4. CASE ~Alive(entry)
  <2>1. new = [q EXCEPT !.fn = fn, !.about = u, !.pc = "asking"]
    BY <1>4 DEF Asks, Key
  <2>2. new \in ReqType
    BY <2>1 DEF ReqType
  <2>3. /\ new.pc = "asking" /\ new.about = u /\ new.since = q.since /\ new.by = q.by
        /\ new.user_id = q.user_id /\ new.wasOut = q.wasOut
    BY <2>1 DEF ReqType
  <2>4. AnswerOK(new)
    BY <2>3 DEF AnswerOK
  <2>5. \A t \in new.by : TokenOK(new, t) /\ new.by = {t}
    BY <2>3 DEF TokenOK, ReqOK
  <2>11. ~new.wasOut
    BY <2>3
  <2>12. ReqOK(new)
    <3> HIDE DEF new
    <3> QED BY <2>3, <2>4, <2>5, <2>11 DEF ReqOK
  <2> QED BY <2>2, <2>12
<1> QED BY <1>3, <1>4

\* A stored answer was true when its request arrived, at most a tick ago.
LEMMA StoreIInv == ASSUME IInv, NEW r \in Requests, Store(r) PROVE IInv'
<1> DEFINE q == req[r]
           new == [q EXCEPT !.pc = "answered"]
           entry == [answer |-> q.answer, exp |-> now + cache_ttl]
<1> USE AccessAssumption
<1>0. /\ q \in ReqType /\ ReqOK(q) /\ now \in 0..MaxTime /\ q.pc = "storing"
      /\ lastHeld \in [Users -> [State -> Int]]
      /\ cache \in [Lookups \X Users -> Entry] /\ req \in [Requests -> ReqType]
  BY DEF IInv, TypeOK, ReqType, Store
<1>1. /\ UNCHANGED <<now, account, lastHeld, loggedOut, tokens, changes>>
      /\ req' = [req EXCEPT ![r] = new]
      /\ cache' = [cache EXCEPT ![<<q.fn, q.about>>] = entry]
  BY <1>0 DEF Store, external, Key
<1>2. /\ new.pc = "answered" /\ new.answer = q.answer /\ new.fn = q.fn /\ new.about = q.about
      /\ new.since = q.since /\ new.by = q.by /\ new.wasOut = q.wasOut
      /\ new.user_id = q.user_id /\ new \in ReqType
  BY <1>0 DEF ReqType
<1>3. /\ q.about \in Users /\ q.fn \in Lookups /\ q.since \in Int /\ now <= q.since + 1
      /\ q.answer \in Values
  BY <1>0 DEF ReqOK, AnswerOK, ReqType
<1>4. PICK st \in State : AnswerOf(q.fn, st) = q.answer /\ lastHeld[q.about][st] >= q.since
  BY <1>0 DEF ReqOK, AnswerOK, WasTrue
<1>5. lastHeld[q.about][st] \in Int
  BY <1>0, <1>3
<1>6. entry \in Entry /\ entry.exp = now + cache_ttl /\ entry.answer = q.answer
  BY <1>0, <1>3 DEF Entry
<1>7. WasTrue(q.fn, q.about, entry.answer, entry.exp - cache_ttl - 1)
  <2>1. lastHeld[q.about][st] >= entry.exp - cache_ttl - 1
    BY <1>0, <1>3, <1>4, <1>5, <1>6
  <2> QED BY <1>4, <1>6, <2>1 DEF WasTrue
<1>8. WasTrue(q.fn, q.about, q.answer, q.since - cache_ttl)
  <2>1. lastHeld[q.about][st] >= q.since - cache_ttl
    BY <1>3, <1>4, <1>5
  <2> QED BY <1>4, <2>1 DEF WasTrue
<1>9. ReqOK(new)
  <2> HIDE DEF new
  <2> QED BY <1>0, <1>2, <1>3, <1>8 DEF ReqOK, TokenOK, AnswerOK, ServedPc
<1> HIDE DEF new, entry
<1>10. TypeOK'
  BY <1>0, <1>1, <1>2, <1>3, <1>6 DEF IInv, TypeOK, ReqType
<1>11. HeldNow' /\ NotAhead' /\ TokensOK'
  BY <1>1 DEF IInv, HeldNow, NotAhead, TokensOK
<1>12. CacheOK'
  <2> SUFFICES ASSUME NEW fn \in Lookups, NEW u \in Users, cache'[<<fn, u>>].exp > 0
               PROVE  WasTrue(fn, u, cache'[<<fn, u>>].answer,
                              cache'[<<fn, u>>].exp - cache_ttl - 1)
    BY <1>1 DEF CacheOK, WasTrue
  <2>1. CASE fn = q.fn /\ u = q.about
    BY <1>0, <1>1, <1>7, <2>1
  <2>2. CASE ~(fn = q.fn /\ u = q.about)
    BY <1>0, <1>1, <2>2 DEF IInv, CacheOK
  <2> QED BY <2>1, <2>2
<1>13. \A x \in Requests : ReqOK(req'[x])
  BY <1>0, <1>1, <1>9 DEF IInv
<1>14. ASSUME NEW x \in Requests PROVE ReqOK(req[x])'
  BY <1>1, <1>13 DEF ReqOK, TokenOK, AnswerOK, WasTrue
<1> QED BY <1>10, <1>11, <1>12, <1>14 DEF IInv

\* Every step of a request.
LEMMA HandleIInv == ASSUME IInv, NEW r \in Requests, Handle(r) PROVE IInv'
<1> DEFINE q == req[r]
<1> USE AccessAssumption
<1>0. /\ q \in ReqType /\ ReqOK(q) /\ now \in 0..MaxTime /\ tokens \subseteq Token
      /\ lastHeld \in [Users -> [State -> Int]] /\ account \in [Users -> State]
      /\ cache \in [Lookups \X Users -> Entry] /\ req \in [Requests -> ReqType]
  BY DEF IInv, TypeOK, ReqType
<1>a. Idle \in ReqType /\ ReqOK(Idle)
  BY DEF Idle, ReqType, Lookups, Values, ReqOK, AnswerOK, ServedPc
<1>1. ASSUME NEW t \in tokens, NEW user_id \in UserIds \cup {me}, Arrive(r, t, user_id) PROVE IInv'
  <2> DEFINE new == [Idle EXCEPT !.pc = "decoded", !.since = now, !.by = {t},
                                 !.user_id = user_id, !.wasOut = t.rt \in loggedOut]
  <2>0. (t.rt \in loggedOut) \in BOOLEAN /\ {t} \in SUBSET tokens
    OBVIOUS
  <2>1. new \in ReqType
    <3> DEFINE out == t.rt \in loggedOut
    <3>1. out \in BOOLEAN
      BY <2>0
    <3> HIDE DEF out
    <3>2. [Idle EXCEPT !.pc = "decoded", !.since = now, !.by = {t}, !.user_id = user_id,
                       !.wasOut = out] \in ReqType
      BY <1>0, <1>a, <2>0, <3>1 DEF ReqType
    <3> QED BY <3>2 DEF out
  <2>2. /\ new.pc = "decoded" /\ new.since = now /\ new.by = {t}
        /\ new.wasOut = (t.rt \in loggedOut)
    BY <1>a DEF ReqType
  <2>3. now < t.exp
    BY <1>1 DEF Arrive, Decodes
  <2>4. TokenOK(new, t)
    BY <2>2, <2>3 DEF TokenOK, ServedPc
  <2>5. ReqOK(new)
    BY <1>0, <2>2, <2>4 DEF ReqOK, AnswerOK, ServedPc
  <2>6. Become(r, new)
    BY <1>1 DEF Arrive
  <2> HIDE DEF new
  <2> QED BY <2>1, <2>5, <2>6, RequestStep
<1>2. CASE Authenticate(r)
  <2>1. PICK t \in q.by :
          Become(r, IF ~is_revoked(t) /\ require_verified_email(t) /\ self_or_admin(t, q.user_id)
                    THEN [q EXCEPT !.pc = "serving"] ELSE Idle)
    BY <1>2 DEF Authenticate
  <2>2. CASE ~(~is_revoked(t) /\ require_verified_email(t) /\ self_or_admin(t, q.user_id))
    BY <1>a, <2>1, <2>2, RequestStep
  <2>3. CASE ~is_revoked(t) /\ require_verified_email(t) /\ self_or_admin(t, q.user_id)
    <3> DEFINE new == [q EXCEPT !.pc = "serving"]
    <3>1. new \in ReqType /\ Become(r, new)
      BY <1>0, <2>1, <2>3 DEF ReqType
    <3>2. /\ new.pc = "serving" /\ new.since = q.since /\ new.by = q.by
          /\ new.wasOut = q.wasOut /\ new.user_id = q.user_id
      BY <1>0 DEF ReqType
    <3>3. q.pc = "decoded" /\ q.by = {t}
      BY <1>0, <1>2 DEF Authenticate, ReqOK
    <3>4. ~q.wasOut
      BY <1>0, <2>3, <3>3 DEF ReqOK, TokenOK, is_revoked
    <3>5. \A x \in new.by : TokenOK(new, x)
      BY <1>0, <2>3, <3>2, <3>3, <3>4 DEF ReqOK, TokenOK
    <3>6. ReqOK(new)
      BY <1>0, <3>2, <3>3, <3>4, <3>5 DEF ReqOK, AnswerOK
    <3> HIDE DEF new
    <3> QED BY <3>1, <3>6, RequestStep
  <2> QED BY <2>2, <2>3
<1>3. ASSUME NEW fn \in Lookups, NEW u \in Users, Lookup(r, fn, u) PROVE IInv'
  <2>1. q.pc = "serving" /\ Become(r, Asks(q, fn, u))
    BY <1>3 DEF Lookup
  <2>2. Asks(q, fn, u) \in ReqType /\ ReqOK(Asks(q, fn, u))
    BY <1>0, <2>1, AsksOK DEF ReqOK, TokenOK, ServedPc
  <2> QED BY <2>1, <2>2, RequestStep
<1>4. ASSUME NEW u \in Users, download_ics(r, u) PROVE IInv'
  <2> DEFINE fresh == [Idle EXCEPT !.since = now]
  <2>1. /\ fresh \in ReqType /\ fresh.pc = "idle" /\ fresh.since = now /\ fresh.by = {}
        /\ fresh.wasOut = FALSE
    BY <1>0, <1>a DEF ReqType, Idle
  <2>2. ReqOK(fresh)
    BY <1>0, <2>1 DEF ReqOK, AnswerOK, ServedPc
  <2>3. Become(r, Asks(fresh, "is_admin", u)) /\ "is_admin" \in Lookups
    BY <1>4 DEF download_ics, Lookups
  <2> HIDE DEF fresh
  <2>4. Asks(fresh, "is_admin", u) \in ReqType /\ ReqOK(Asks(fresh, "is_admin", u))
    BY <1>0, <2>1, <2>2, <2>3, AsksOK
  <2> QED BY <2>3, <2>4, RequestStep
<1>5. CASE Fetch(r)
  <2> DEFINE v == AnswerOf(q.fn, account[q.about])
             new == [q EXCEPT !.pc = "storing", !.answer = v]
  <2>1. q.pc = "asking" /\ Become(r, new)
    BY <1>5 DEF Fetch
  <2>2. q.about \in Users /\ q.since <= now /\ q.since \in Int
    BY <1>0, <2>1 DEF ReqOK, AnswerOK, ReqType
  <2>3. v \in Values
    BY DEF AnswerOf, Values
  <2>4. new \in ReqType
    BY <1>0, <2>3 DEF ReqType
  <2>5. /\ new.pc = "storing" /\ new.answer = v /\ new.fn = q.fn /\ new.about = q.about
        /\ new.since = q.since /\ new.by = q.by /\ new.wasOut = q.wasOut
        /\ new.user_id = q.user_id
    BY <1>0 DEF ReqType
  <2>6. account[q.about] \in State /\ lastHeld[q.about][account[q.about]] = now
    BY <1>0, <2>2 DEF IInv, HeldNow
  <2>7. WasTrue(q.fn, q.about, v, q.since)
    BY <2>2, <2>6 DEF WasTrue
  <2>8. ReqOK(new)
    <3> HIDE DEF v, new
    <3> QED BY <1>0, <2>1, <2>2, <2>5, <2>7 DEF ReqOK, TokenOK, AnswerOK, ServedPc
  <2> HIDE DEF new
  <2> QED BY <2>1, <2>4, <2>8, RequestStep
<1>6. CASE Unavailable(r) \/ Finish(r)
  BY <1>6, <1>a, RequestStep DEF Unavailable, handle_error, Finish
<1>7. CASE Use(r)
  <2>1. CASE q.by = {}
    BY <1>7, <1>a, <2>1, RequestStep DEF Use
  <2>2. CASE q.by # {}
    <3> DEFINE new == [q EXCEPT !.pc = "serving", !.fn = Idle.fn, !.about = me, !.answer = "no"]
    <3>1. q.pc = "answered" /\ Become(r, new)
      BY <1>7, <2>2 DEF Use
    <3>2. new \in ReqType
      BY <1>0, <1>a DEF ReqType, Values
    <3>3. /\ new.pc = "serving" /\ new.since = q.since /\ new.by = q.by
          /\ new.wasOut = q.wasOut /\ new.user_id = q.user_id
      BY <1>0 DEF ReqType
    <3>4. ReqOK(new)
      <4> HIDE DEF new
      <4> QED BY <1>0, <3>1, <3>3 DEF ReqOK, TokenOK, AnswerOK, ServedPc
    <3> HIDE DEF new
    <3> QED BY <3>1, <3>2, <3>4, RequestStep
  <2> QED BY <2>1, <2>2
<1>8. CASE Store(r)
  BY <1>8, StoreIInv
<1> QED BY <1>1, <1>2, <1>3, <1>4, <1>5, <1>6, <1>7, <1>8 DEF Handle

LEMMA Invariance == Spec => []IInv
<1>1. ASSUME IInv, [Next]_vars PROVE IInv'
  <2>1. CASE UNCHANGED vars
    <3>1. TypeOK' /\ HeldNow' /\ NotAhead' /\ TokensOK' /\ CacheOK'
      BY <1>1, <2>1 DEF vars, IInv, TypeOK, HeldNow, NotAhead, TokensOK, CacheOK, WasTrue
    <3>2. ASSUME NEW r \in Requests PROVE ReqOK(req[r])'
      BY <1>1, <2>1 DEF vars, IInv, ReqOK, TokenOK, AnswerOK, WasTrue
    <3> QED BY <3>1, <3>2 DEF IInv
  <2>2. CASE AuthService
    BY <1>1, <2>2, AuthServiceIInv
  <2>3. ASSUME NEW r \in Requests, Handle(r) PROVE IInv'
    BY <1>1, <2>3, HandleIInv
  <2> QED BY <1>1, <2>1, <2>2, <2>3 DEF Next
<1> QED BY <1>1, InitIInv, PTL DEF Spec

-----------------------------------------------------------------------------
\* Every variable has its type in every reachable state.
THEOREM TypeCorrect == Spec => []TypeOK
<1>1. IInv => TypeOK
  BY DEF IInv
<1> QED BY <1>1, Invariance, PTL

\* A right is gone TokenTtl after it was lost: a request is served within one
\* tick of a moment at which its token was valid, and a token is valid for
\* TokenTtl after a moment at which the account was what the token says.
THEOREM RightsEnd == Spec => []RightsWereHeld
<1>1. ASSUME IInv PROVE RightsWereHeld
  <2> SUFFICES ASSUME NEW r \in Requests, Served(r), NEW t \in req[r].by
               PROVE  \E st \in {"verified", "admin"} :
                        /\ Resolved(t, req[r].user_id) = t.uid \/ st = "admin"
                        /\ now <= lastHeld[t.uid][st] + TokenTtl
    BY DEF RightsWereHeld
  <2> DEFINE q == req[r]
  <2> USE AccessAssumption
  <2>0. q \in ReqType /\ ReqOK(q) /\ q.pc \in ServedPc /\ q.pc # "idle"
    BY <1>1 DEF IInv, TypeOK, ReqType, Served, ServedPc
  <2>1. /\ t \in tokens /\ t \in Token /\ q.since \in Int /\ now \in Int
        /\ lastHeld \in [Users -> [State -> Int]]
    BY <1>1, <2>0 DEF IInv, TypeOK, ReqType
  <2>2. TokenOK(q, t) /\ q.since <= now /\ now <= q.since + 1
    BY <2>0 DEF ReqOK
  <2>3. q.since < t.exp /\ t.data # "unverified" /\ self_or_admin(t, q.user_id)
    BY <2>0, <2>2 DEF TokenOK, require_verified_email
  <2>4. t.data \in {"verified", "admin"} /\ t.uid \in Users /\ t.exp \in Int /\ t.data \in State
    BY <2>1, <2>3 DEF Token, State
  <2>5. lastHeld[t.uid][t.data] \in Int /\ lastHeld[t.uid][t.data] >= t.exp - TokenTtl
    BY <1>1, <2>1, <2>4 DEF IInv, TokensOK
  <2>6. now <= lastHeld[t.uid][t.data] + TokenTtl
    BY <2>1, <2>2, <2>3, <2>4, <2>5
  <2>7. Resolved(t, q.user_id) = t.uid \/ t.data = "admin"
    BY <2>3 DEF self_or_admin
  <2> QED BY <2>4, <2>6, <2>7
<1> QED BY <1>1, Invariance, PTL

\* A login that has ended serves no request that arrives later.
THEOREM LogoutsEndAccess == Spec => []LogoutEndsAccess
<1>1. ASSUME IInv PROVE LogoutEndsAccess
  BY <1>1 DEF IInv, LogoutEndsAccess, Served, ServedPc, ReqOK
<1> QED BY <1>1, Invariance, PTL

\* A remembered answer is never older than the time it may be remembered and
\* the tick a request takes, whoever stored it, and in whatever order.
THEOREM AnswersStayTrue == Spec => []AnswersWereTrue
<1>1. ASSUME IInv PROVE AnswersWereTrue
  <2> SUFFICES ASSUME NEW r \in Requests, req[r].pc = "answered"
               PROVE  \E st \in State : /\ AnswerOf(req[r].fn, st) = req[r].answer
                                        /\ now <= lastHeld[req[r].about][st] + cache_ttl + 1
    BY DEF AnswersWereTrue
  <2> DEFINE q == req[r]
  <2> USE AccessAssumption
  <2>1. q \in ReqType /\ ReqOK(q) /\ now \in Int /\ lastHeld \in [Users -> [State -> Int]]
    BY <1>1 DEF IInv, TypeOK, ReqType
  <2>2. q.about \in Users /\ WasTrue(q.fn, q.about, q.answer, q.since - cache_ttl)
    BY <2>1 DEF ReqOK, AnswerOK
  <2>3. PICK st \in State : /\ AnswerOf(q.fn, st) = q.answer
                            /\ lastHeld[q.about][st] >= q.since - cache_ttl
    BY <2>2 DEF WasTrue
  <2>4. q.since \in Int /\ now <= q.since + 1 /\ lastHeld[q.about][st] \in Int
    BY <2>1, <2>2 DEF ReqOK, ReqType
  <2>5. now <= lastHeld[q.about][st] + cache_ttl + 1
    BY <2>1, <2>3, <2>4
  <2> QED BY <2>3, <2>5
<1> QED BY <1>1, Invariance, PTL
============================================================================
