------------------------------- MODULE Access -------------------------------
(***************************************************************************)
(* Who may do what: access tokens, logout, and the cached questions to the *)
(* auth service.                                                           *)
(*                                                                         *)
(* The events service never asks whether a token still tells the truth: it *)
(* trusts the flags in it until it expires, and looks only whether the     *)
(* login it stems from has been ended.  What it does ask (is_admin,        *)
(* get_email) it remembers for cache_ttl.  So every right outlives its     *)
(* loss; this module says by how much.                                     *)
(*                                                                         *)
(* One tick of `now` is longer than any request: a request that arrived in *)
(* a tick is over before the next but one.                                 *)
(***************************************************************************)
EXTENDS Integers, FiniteSets

CONSTANTS
  Users, UserIds,         \* UserIds: what a path may name, an existing user or not
  Logins, Owner,          \* the refresh tokens, and whose they are
  Requests,               \* requests under way at a time
  me,                     \* "me" or "self" in the place of a user id
  TokenTtl, cache_ttl,    \* in ticks
  MaxTime, MaxChanges, MaxTokens   \* bounds on ticks, changes of accounts, tokens

ASSUME AccessAssumption ==
  /\ Owner \in [Logins -> Users]
  /\ Users \subseteq UserIds /\ me \notin UserIds
  /\ TokenTtl \in Nat /\ cache_ttl \in Nat
  /\ MaxTime \in Nat /\ MaxChanges \in Nat /\ MaxTokens \in Nat

VARIABLES
  now,
  account,      \* what the auth service says of a user
  lastHeld,     \* when an account was last in a state (for the properties)
  loggedOut,    \* session_logout:<rt> in the Redis of the auth service
  tokens,       \* access tokens that were issued
  cache,        \* func_cache:user:... in Redis
  req,          \* the requests under way
  changes       \* number of changes of accounts so far

vars == <<now, account, lastHeld, loggedOut, tokens, cache, req, changes>>
external == <<account, lastHeld, loggedOut, tokens, changes>>

State == {"unverified", "verified", "admin", "gone"}
Never == 0 - TokenTtl - cache_ttl - 2

Lookups == {"is_admin", "get_email"}
Values == {"yes", "no"}

\* What a lookup returns for an account: is_admin a flag, get_email whether
\* there is an address.  Of a user that is gone: 404, and so "no".
AnswerOf(fn, st) ==
  IF <<fn, st>> = <<"is_admin", "admin">> \/ (fn = "get_email" /\ st # "gone")
  THEN "yes" ELSE "no"

Token == [rt : Logins, uid : Users, data : State \ {"gone"}, exp : Nat]
Entry == [answer : Values, exp : Nat]
NoEntry == [answer |-> "no", exp |-> 0]

\* req[r].by is the set of the token of the request: empty for a calendar link.
Idle == [pc |-> "idle", since |-> 0, by |-> {}, user_id |-> me, wasOut |-> FALSE,
         fn |-> "is_admin", about |-> me, answer |-> "no"]

Init == /\ now = 0
        /\ account \in [Users -> {"unverified", "admin"}]
        /\ lastHeld = [u \in Users |-> [st \in State |-> IF st = account[u] THEN 0 ELSE Never]]
        /\ loggedOut = {} /\ tokens = {}
        /\ cache = [key \in Lookups \X Users |-> NoEntry]
        /\ req = [r \in Requests |-> Idle]
        /\ changes = 0

(***************************************************************************)
(* The auth service                                                        *)
(***************************************************************************)
\* An account is verified, made an admin, unmade, or deleted for good.
Change(u, st) ==
  /\ changes < MaxChanges /\ changes' = changes + 1
  /\ account[u] \notin {st, "gone"}
  /\ account' = [account EXCEPT ![u] = st]
  /\ lastHeld' = [lastHeld EXCEPT ![u] = [@ EXCEPT ![st] = now]]
  /\ UNCHANGED <<now, loggedOut, tokens, cache, req>>

\* At login and at every refresh.  Older tokens stay as they are.
Issue(rt) ==
  /\ rt \notin loggedOut /\ account[Owner[rt]] # "gone"
  /\ Cardinality(tokens) < MaxTokens
  /\ tokens' = tokens \cup {[rt |-> rt, uid |-> Owner[rt], data |-> account[Owner[rt]],
                             exp |-> now + TokenTtl]}
  /\ UNCHANGED <<now, account, lastHeld, loggedOut, cache, req, changes>>

Logout(rt) ==
  /\ loggedOut' = loggedOut \cup {rt}
  /\ UNCHANGED <<now, account, lastHeld, tokens, cache, req, changes>>

Tick ==
  /\ now < MaxTime /\ now' = now + 1
  /\ \A r \in Requests : req[r].pc # "idle" => req[r].since = now
  /\ lastHeld' = [u \in Users |-> [lastHeld[u] EXCEPT ![account[u]] = now + 1]]
  /\ UNCHANGED <<account, loggedOut, tokens, cache, req, changes>>

(***************************************************************************)
(* A request with a token                                                  *)
(***************************************************************************)
Become(r, new) == req' = [req EXCEPT ![r] = new] /\ UNCHANGED <<now, cache, external>>

\* decode_jwt.  A request whose token it refuses is answered at once.
Signed(t) == TRUE
Decodes(t) == now < t.exp

Arrive(r, t, user_id) ==
  /\ req[r].pc = "idle"
  /\ Decodes(t)
  /\ Become(r, [Idle EXCEPT !.pc = "decoded", !.since = now, !.by = {t},
                            !.user_id = user_id, !.wasOut = t.rt \in loggedOut])

NotAsked(t) == FALSE
is_revoked(t) == t.rt \in loggedOut

require_verified_email(t) == t.data # "unverified"     \* or an admin

Resolved(t, user_id) == IF user_id = me THEN t.uid ELSE user_id
AnyVerified(t, user_id) == TRUE
self_or_admin(t, user_id) == Resolved(t, user_id) = t.uid \/ t.data = "admin"

\* The dependencies of an endpoint: one await, that of is_revoked.
Authenticate(r) ==
  /\ req[r].pc = "decoded"
  /\ \E t \in req[r].by :
       Become(r, IF ~is_revoked(t) /\ require_verified_email(t) /\ self_or_admin(t, req[r].user_id)
                 THEN [req[r] EXCEPT !.pc = "serving"] ELSE Idle)

(***************************************************************************)
(* Cached lookups                                                          *)
(***************************************************************************)
PerUser(fn, u) == <<"is_admin", u>>
Key(fn, u) == <<fn, u>>
Kept(entry) == entry.exp > 0
Alive(entry) == now < entry.exp

\* redis_cached: the remembered answer, or the service is asked.
Asks(q, fn, u) ==
  LET entry == cache[Key(fn, u)]
      asking == [q EXCEPT !.fn = fn, !.about = u]
  IN  IF Alive(entry) THEN [asking EXCEPT !.pc = "answered", !.answer = entry.answer]
      ELSE [asking EXCEPT !.pc = "asking"]

Lookup(r, fn, u) == req[r].pc = "serving" /\ Become(r, Asks(req[r], fn, u))

\* The link to the calendar of a user, as GET /calendar has handed it out: it
\* bears no token, never expires, and shows what is_admin lets the user see.
download_ics(r, u) ==
  /\ req[r].pc = "idle"
  /\ Become(r, Asks([Idle EXCEPT !.since = now], "is_admin", u))

Fetch(r) ==
  /\ req[r].pc = "asking"
  /\ Become(r, [req[r] EXCEPT !.pc = "storing",
                              !.answer = AnswerOf(req[r].fn, account[req[r].about])])

\* 401, 403 or 5xx: the lookup raises, and nothing is remembered.
BodyAsAnswer(r) == [req[r] EXCEPT !.pc = "storing", !.answer = "error"]
TakenAsMissing(r) == [req[r] EXCEPT !.pc = "storing", !.answer = "no"]
handle_error(r) == Idle
Unavailable(r) == req[r].pc = "asking" /\ Become(r, handle_error(r))

\* setex, an await after the answer has come.
Store(r) ==
  /\ req[r].pc = "storing"
  /\ cache' = [cache EXCEPT ![Key(req[r].fn, req[r].about)] =
                 [answer |-> req[r].answer, exp |-> now + cache_ttl]]
  /\ req' = [req EXCEPT ![r].pc = "answered"]
  /\ UNCHANGED <<now, external>>

\* The handler uses what it was told, and may go on to another lookup.
Use(r) == /\ req[r].pc = "answered"
          /\ Become(r, IF req[r].by = {} THEN Idle
                       ELSE [req[r] EXCEPT !.pc = "serving", !.fn = Idle.fn, !.about = me,
                                           !.answer = "no"])

Finish(r) == req[r].pc = "serving" /\ Become(r, Idle)

(***************************************************************************)
(* Specification                                                           *)
(***************************************************************************)
AuthService == \/ \E u \in Users, st \in State : Change(u, st)
               \/ \E rt \in Logins : Issue(rt) \/ Logout(rt)
               \/ Tick

Handle(r) == \/ \E t \in tokens, user_id \in UserIds \cup {me} : Arrive(r, t, user_id)
             \/ Authenticate(r)
             \/ \E fn \in Lookups, u \in Users : Lookup(r, fn, u)
             \/ \E u \in Users : download_ics(r, u)
             \/ Fetch(r) \/ Unavailable(r) \/ Store(r) \/ Use(r) \/ Finish(r)

Next == AuthService \/ \E r \in Requests : Handle(r)

Spec == Init /\ [][Next]_vars

-----------------------------------------------------------------------------
\* Every variable has its type.
TypeOK ==
  /\ now \in 0..MaxTime
  /\ account \in [Users -> State]
  /\ lastHeld \in [Users -> [State -> Int]]
  /\ loggedOut \subseteq Logins
  /\ tokens \subseteq Token
  /\ cache \in [Lookups \X Users -> Entry]
  /\ changes \in 0..MaxChanges
  /\ req \in [Requests -> [pc : {"idle", "decoded", "serving", "asking", "storing", "answered"},
                           since : 0..MaxTime, by : SUBSET tokens,
                           user_id : UserIds \cup {me}, wasOut : BOOLEAN, fn : Lookups,
                           about : Users \cup {me}, answer : Values]]

Served(r) == req[r].pc \in {"serving", "asking", "storing", "answered"}

\* Whoever is served had a verified account less than TokenTtl ago, and was an
\* admin within that time if the request is about somebody else; whatever has
\* happened to the account since.
RightsWereHeld ==
  \A r \in Requests : Served(r) =>
    \A t \in req[r].by : \E st \in {"verified", "admin"} :
      /\ Resolved(t, req[r].user_id) = t.uid \/ st = "admin"
      /\ now <= lastHeld[t.uid][st] + TokenTtl

\* Who has logged out is not served again with a token of that login, however
\* long the token lasts; a request that was under way is.
LogoutEndsAccess ==
  \A r \in Requests : Served(r) => ~req[r].wasOut

\* What a lookup returns, remembered or not, was true of that user at most
\* cache_ttl and one tick ago, also after other requests have stored what they
\* were told earlier, and after the service has been out of reach.
AnswersWereTrue ==
  \A r \in Requests : req[r].pc = "answered" =>
    \E st \in State : /\ AnswerOf(req[r].fn, st) = req[r].answer
                      /\ now <= lastHeld[req[r].about][st] + cache_ttl + 1
============================================================================
