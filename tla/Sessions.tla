------------------------------ MODULE Sessions ------------------------------
(***************************************************************************)
(* Database sessions and the connection pool: what db_context does around  *)
(* every request and every call of the cleanup loop, whatever is done      *)
(* inside.  The other modules use it as a rule ("the writes of a request   *)
(* are stored together, also when it was ended by an exception that is no  *)
(* HTTPException"); here the rule itself is the subject.                   *)
(*                                                                         *)
(* A session takes a connection at its first query, keeps it over every    *)
(* await, and gives it back when it is committed or rolled back.  When the *)
(* commit raises, db.close() is never reached: the connection stays with   *)
(* the session until that is collected as garbage.  Locks of the database  *)
(* on rows are left out.                                                   *)
(***************************************************************************)
EXTENDS Integers, FiniteSets

CONSTANTS
  Requests,               \* HTTP requests, each made once
  Loop,                   \* the task of cleanup_loop
  pool_size, max_overflow,
  Writes,                 \* rows that a handler which changes anything writes
  MaxFailures             \* bound on calls that raise and refused commits

ASSUME SessionAssumption ==
  /\ Loop \notin Requests /\ IsFiniteSet(Requests)
  /\ pool_size \in Nat \ {0} /\ max_overflow \in Nat
  /\ Writes \in Nat \ {0} /\ MaxFailures \in Nat

Tasks == Requests \cup {Loop}

VARIABLES
  task,       \* the coroutines and the session in their context
  lost,       \* connections of sessions that were neither closed nor collected
  failures

vars == <<task, lost, failures>>

Task == [pc : {"idle", "running", "waiting", "commit", "close", "done"},
         conn : BOOLEAN,                         \* has a connection
         pending : 0..Writes, stored : 0..Writes, \* rows written, rows stored
         mail : BOOLEAN,                         \* a confirmation is on its way
         refused : BOOLEAN,                      \* its commit raised
         outcome : {"none", "ok", "http", "error"}]

NoSession == [pc |-> "idle", conn |-> FALSE, pending |-> 0, stored |-> 0,
              mail |-> FALSE, refused |-> FALSE, outcome |-> "none"]

Init == /\ task = [t \in Tasks |-> NoSession]
        /\ lost = 0
        /\ failures = 0

Capacity == pool_size + max_overflow
Holders == {t \in Tasks : task[t].conn}
Available == Capacity - Cardinality(Holders) - lost
AnyFree == TRUE
SomeFree == Available > 0

Become(t, new) == task' = [task EXCEPT ![t] = new] /\ UNCHANGED <<lost, failures>>
Fail == failures < MaxFailures /\ failures' = failures + 1

\* The middleware db_session, or db_wrapper, creates a session.
CreateSession(t) ==
  /\ task[t].pc = "idle"
  /\ Become(t, [NoSession EXCEPT !.pc = "running"])

(***************************************************************************)
(* The handler                                                             *)
(***************************************************************************)
\* exec, stream and what is built on them: the first one needs a connection.
Query(t) ==
  /\ task[t].pc = "running" /\ ~task[t].conn
  /\ Become(t, IF SomeFree THEN [task[t] EXCEPT !.conn = TRUE]
               ELSE [task[t] EXCEPT !.pc = "waiting"])

Acquire(t) ==
  /\ task[t].pc = "waiting" /\ SomeFree
  /\ Become(t, [task[t] EXCEPT !.pc = "running", !.conn = TRUE])

\* The pool gives up after its timeout, and the query raises.
NeverTimesOut(t) == FALSE
TimesOut(t) == task[t].pc = "waiting" /\ ~SomeFree
PoolTimeout(t) ==
  /\ TimesOut(t)
  /\ Become(t, [task[t] EXCEPT !.pc = "commit", !.outcome = "error"])

\* add, delete, or an assignment to a column: kept in the session.
Write(t) ==
  /\ task[t].pc = "running" /\ task[t].pending < Writes
  /\ Become(t, [task[t] EXCEPT !.pending = @ + 1])

\* The confirmation is handed to a task of its own, after the last write.
AtAnyTime(t) == task[t].conn
AfterLastWrite(t) == task[t].conn /\ task[t].pending = Writes
Mail(t) ==
  /\ task[t].pc = "running" /\ t \in Requests /\ ~task[t].mail
  /\ AfterLastWrite(t)
  /\ Become(t, [task[t] EXCEPT !.mail = TRUE])

Return(t) ==
  /\ task[t].pc = "running" /\ task[t].pending \in {0, Writes}
  /\ Become(t, [task[t] EXCEPT !.pc = "commit", !.outcome = "ok"])

\* An HTTPException: rollback_on_exception drops the writes and gives the
\* connection back.  The checks that raise one come before the confirmation.
NotRolledBack(ts) == [ts EXCEPT !.conn = FALSE]
RolledBack(ts) == [ts EXCEPT !.pending = 0, !.conn = FALSE]
RaiseHTTP(t) ==
  /\ task[t].pc = "running" /\ t \in Requests /\ ~task[t].mail
  /\ Become(t, [RolledBack(task[t]) EXCEPT !.pc = "commit", !.outcome = "http"])

\* Any other exception: a call to another service, an undeliverable address.
Raise(t) ==
  /\ task[t].pc = "running"
  /\ Fail
  /\ task' = [task EXCEPT ![t].pc = "commit", ![t].outcome = "error"]
  /\ UNCHANGED lost

(***************************************************************************)
(* The end of db_context, whatever the outcome                             *)
(***************************************************************************)
\* A session with writes and no connection takes one for the commit.
CanCommit(ts) == ts.conn \/ ts.pending = 0 \/ SomeFree

Commit(t) ==
  /\ task[t].pc = "commit"
  /\ CanCommit(task[t])
  /\ Become(t, [task[t] EXCEPT !.pc = "close", !.stored = @ + task[t].pending,
                               !.pending = 0, !.conn = FALSE])

\* cleanup_loop goes on after an exception; the client of a request is told.
LeftHolding(t) == IF t = Loop THEN NoSession
                  ELSE [task[t] EXCEPT !.pc = "done", !.outcome = "error", !.refused = TRUE]
Left(t) == IF t = Loop THEN NoSession
           ELSE [task[t] EXCEPT !.pc = "done", !.outcome = "error", !.refused = TRUE,
                                !.pending = 0, !.conn = FALSE]

\* The commit raises and db.close() is skipped: a connection that the session
\* had, or took for the commit, is not given back.
CommitRefused(t) ==
  /\ task[t].pc = "commit" /\ (task[t].conn \/ task[t].pending > 0)
  /\ task' = [task EXCEPT ![t] = Left(t)]
  /\ \/ CanCommit(task[t]) /\ Fail /\ lost' = lost + 1
     \/ ~CanCommit(task[t]) /\ UNCHANGED <<lost, failures>>    \* pool timeout

\* By now the connection is back: the commit has seen to it.  The loop sleeps
\* before its next call.
Over(t) == IF t = Loop THEN NoSession ELSE [task[t] EXCEPT !.pc = "done"]
Close(t) == task[t].pc = "close" /\ Become(t, Over(t))

\* The session of a task that is over is collected, its connection dropped.
Collect == lost > 0 /\ lost' = lost - 1 /\ UNCHANGED <<task, failures>>

(***************************************************************************)
(* Specification                                                           *)
(***************************************************************************)
Handle(t) == \/ Query(t) \/ Acquire(t) \/ PoolTimeout(t) \/ Write(t) \/ Mail(t)
             \/ Return(t) \/ RaiseHTTP(t) \/ Raise(t)
Leave(t) == Commit(t) \/ CommitRefused(t) \/ Close(t)
Continue(t) == Handle(t) \/ Leave(t)

Next == Collect \/ \E t \in Tasks : CreateSession(t) \/ Continue(t)

Spec == Init /\ [][Next]_vars

\* A coroutine that has started is carried on; the loop wakes up from its
\* sleep; garbage is collected.  Nothing says that requests arrive.
Fairness == /\ \A t \in Tasks : WF_vars(Continue(t))
            /\ WF_vars(CreateSession(Loop))
            /\ WF_vars(Collect)

FairSpec == Spec /\ Fairness

-----------------------------------------------------------------------------
\* Every variable has its type, and the pool never gives out more connections
\* than it may.
TypeOK == /\ task \in [Tasks -> Task]
          /\ lost \in Nat
          /\ failures \in Nat
          /\ Available >= 0

\* What the client is told agrees with the tables: after a success all writes
\* are stored, after an HTTPException none.  Only after a server error either
\* may be so, or a part of them.
AnswerTellsStored ==
  \A r \in Requests : task[r].pc = "done" =>
    /\ task[r].outcome = "ok" => task[r].stored \in {0, Writes}
    /\ task[r].outcome = "ok" /\ task[r].mail => task[r].stored = Writes
    /\ task[r].outcome = "http" => task[r].stored = 0

\* A confirmation is sent for a booking that is stored, unless the commit that
\* follows it is refused.
ConfirmedIsStored ==
  \A r \in Requests : task[r].pc = "done" /\ task[r].mail =>
    task[r].stored = Writes \/ task[r].refused

\* However full the pool is, a request that has arrived is answered, and the
\* cleanup loop is asleep again and again: no exception ends it, and no pool
\* that is exhausted holds it up for good.
NobodyWaitsForEver ==
  /\ \A r \in Requests : task[r].pc = "running" ~> task[r].pc = "done"
  /\ []<>(task[Loop].pc = "idle")

\* Again and again all connections are back in the pool.
PoolRecovers == []<>(Available = Capacity)
============================================================================
