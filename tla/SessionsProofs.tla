--------------------------- MODULE SessionsProofs ---------------------------
(***************************************************************************)
(* What db_context promises, for every number of requests, every size of   *)
(* the pool and every number of rows and failures.                         *)
(***************************************************************************)
EXTENDS Sessions, FiniteSetTheorems, TLAPS

\* What a session has written, stored and said when its coroutine is at a
\* program counter.
SessionOK(ts) ==
  /\ ts.conn => ts.pc \in {"running", "commit"}
  /\ ts.pc = "idle" => ts = NoSession
  /\ ts.pc \in {"running", "waiting"} => ts.outcome = "none"
  /\ ts.pc \in {"running", "waiting", "commit"} => ts.stored = 0
  /\ ts.pc \in {"running", "waiting", "commit"} /\ ts.mail => ts.pending = Writes
  /\ ts.pc = "commit" => /\ ts.outcome = "ok" => ts.pending \in {0, Writes}
                         /\ ts.outcome = "http" => ts.pending = 0
  /\ ts.pc \in {"close", "done"} =>
       /\ ts.outcome = "ok" => ts.stored \in {0, Writes}
       /\ ts.outcome = "http" => ts.stored = 0
       /\ ts.mail => ts.stored = Writes \/ ts.refused
  /\ ts.refused => ts.outcome = "error"

IInv == TypeOK /\ \A t \in Tasks : SessionOK(task[t])

-----------------------------------------------------------------------------
LEMMA TasksFinite == IsFiniteSet(Tasks)
<1>1. IsFiniteSet(Requests)
  BY SessionAssumption
<1> QED BY <1>1, FS_AddElement DEF Tasks

\* There are as many connections in use as before the step of a coroutine that
\* keeps what it has, one more when it takes one, one less when it gives it back.
LEMMA HoldersOf ==
  ASSUME NEW t \in Tasks, NEW new \in Task, task \in [Tasks -> Task],
         task' = [task EXCEPT ![t] = new]
  PROVE  /\ Cardinality(Holders) \in Nat /\ Cardinality(Holders') \in Nat
         /\ new.conn = task[t].conn => Cardinality(Holders') = Cardinality(Holders)
         /\ new.conn /\ ~task[t].conn => Cardinality(Holders') = Cardinality(Holders) + 1
         /\ ~new.conn /\ task[t].conn => Cardinality(Holders') = Cardinality(Holders) - 1
<1>1. IsFiniteSet(Holders)
  BY TasksFinite, FS_Subset DEF Holders
<1>2. Holders' = IF new.conn THEN Holders \cup {t} ELSE Holders \ {t}
  <2>1. CASE new.conn
    BY <2>1 DEF Holders
  <2>2. CASE ~new.conn
    BY <2>2 DEF Holders
  <2> QED BY <2>1, <2>2
<1>3. t \in Holders <=> task[t].conn
  BY DEF Holders
<1>4. /\ IsFiniteSet(Holders \cup {t})
      /\ Cardinality(Holders \cup {t}) =
           IF t \in Holders THEN Cardinality(Holders) ELSE Cardinality(Holders) + 1
  BY <1>1, FS_AddElement
<1>5. /\ IsFiniteSet(Holders \ {t})
      /\ Cardinality(Holders \ {t}) =
           IF t \in Holders THEN Cardinality(Holders) - 1 ELSE Cardinality(Holders)
  BY <1>1, FS_RemoveElement
<1>6. /\ Cardinality(Holders) \in Nat
      /\ Cardinality(Holders \cup {t}) \in Nat
      /\ Cardinality(Holders \ {t}) \in Nat
  BY <1>1, <1>4, <1>5, FS_CardinalityType
<1>7. CASE new.conn
  BY <1>7, <1>2, <1>3, <1>4, <1>6
<1>8. CASE ~new.conn
  BY <1>8, <1>2, <1>3, <1>5, <1>6
<1> QED BY <1>7, <1>8

\* A step of one coroutine keeps IInv if its new record is in order and it
\* takes a connection only when one is free.
LEMMA StepOf ==
  ASSUME IInv, NEW t \in Tasks, NEW new \in Task, SessionOK(new),
         task' = [task EXCEPT ![t] = new], failures' \in Nat,
         lost' = lost,
         new.conn => task[t].conn \/ Available > 0
  PROVE  IInv'
<1>1. task' \in [Tasks -> Task]
  BY DEF IInv, TypeOK
<1>2. \A u \in Tasks : SessionOK(task'[u])
  BY DEF IInv, TypeOK
<1>3. Available' >= 0
  <2>1. Capacity \in Nat
    BY SessionAssumption DEF Capacity
  <2>2. task \in [Tasks -> Task] /\ lost \in Nat /\ Available >= 0
    BY DEF IInv, TypeOK
  <2>3. new.conn \in BOOLEAN /\ task[t].conn \in BOOLEAN
    BY <2>2 DEF Task
  <2>4. /\ Cardinality(Holders) \in Nat /\ Cardinality(Holders') \in Nat
        /\ new.conn = task[t].conn => Cardinality(Holders') = Cardinality(Holders)
        /\ new.conn /\ ~task[t].conn => Cardinality(Holders') = Cardinality(Holders) + 1
        /\ ~new.conn /\ task[t].conn => Cardinality(Holders') = Cardinality(Holders) - 1
    BY <2>2, HoldersOf
  <2>5. /\ Available = Capacity - Cardinality(Holders) - lost
        /\ Available' = Capacity - Cardinality(Holders') - lost
    BY DEF Available, Capacity
  <2>6. Cardinality(Holders') <= Cardinality(Holders) \/ (new.conn /\ ~task[t].conn)
    BY <2>3, <2>4
  <2>7. CASE Cardinality(Holders') <= Cardinality(Holders)
    BY <2>1, <2>2, <2>4, <2>5, <2>7
  <2>8. CASE new.conn /\ ~task[t].conn
    BY <2>1, <2>2, <2>4, <2>5, <2>8
  <2> QED BY <2>6, <2>7, <2>8
<1> QED BY <1>1, <1>2, <1>3 DEF IInv, TypeOK, SessionOK, NoSession
-----------------------------------------------------------------------------
\* At the beginning there are no sessions, and all connections are in the pool.
LEMMA InitIInv == Init => IInv
<1> SUFFICES ASSUME Init PROVE IInv
  OBVIOUS
<1>1. Holders = {}
  BY DEF Init, NoSession, Holders
<1>2. Available >= 0
  <2>1. Cardinality(Holders) = 0
    BY <1>1, FS_EmptySet
  <2>2. lost = 0
    BY DEF Init
  <2> QED BY <2>1, <2>2, SessionAssumption DEF Available, Capacity
<1>3. NoSession \in Task
  BY SessionAssumption DEF NoSession, Task
<1>4. TypeOK
  BY <1>2, <1>3 DEF Init, TypeOK
<1>5. SessionOK(NoSession)
  BY DEF SessionOK, NoSession
<1> QED BY <1>4, <1>5 DEF Init, IInv

\* While a coroutine runs: queries, writes, the mail, and the ways to end.
LEMMA HandleIInv ==
  ASSUME IInv, NEW t \in Tasks, Handle(t) PROVE IInv'
<1> DEFINE ts == task[t]
<1>0. /\ ts \in Task /\ SessionOK(ts) /\ failures \in Nat /\ Writes \in Nat \ {0}
      /\ task \in [Tasks -> Task]
  BY SessionAssumption DEF IInv, TypeOK
<1> USE DEF Become
<1>1. CASE Query(t)
  <2> DEFINE new == IF SomeFree THEN [ts EXCEPT !.conn = TRUE] ELSE [ts EXCEPT !.pc = "waiting"]
  <2>1. /\ new \in Task /\ SessionOK(new)
        /\ new.conn => ts.conn \/ Available > 0
    BY <1>0, <1>1 DEF Query, Task, SessionOK, SomeFree
  <2>2. task' = [task EXCEPT ![t] = new] /\ lost' = lost /\ failures' \in Nat
    BY <1>0, <1>1 DEF Query
  <2> QED BY <2>1, <2>2, StepOf
<1>2. CASE Acquire(t)
  <2> DEFINE new == [ts EXCEPT !.pc = "running", !.conn = TRUE]
  <2>1. /\ new \in Task /\ SessionOK(new)
        /\ new.conn => ts.conn \/ Available > 0
    BY <1>0, <1>2 DEF Acquire, Task, SessionOK, SomeFree
  <2>2. task' = [task EXCEPT ![t] = new] /\ lost' = lost /\ failures' \in Nat
    BY <1>0, <1>2 DEF Acquire
  <2> QED BY <2>1, <2>2, StepOf
<1>3. CASE PoolTimeout(t)
  <2> DEFINE new == [ts EXCEPT !.pc = "commit", !.outcome = "error"]
  <2>1. new \in Task /\ SessionOK(new) /\ (new.conn => ts.conn)
    BY <1>0, <1>3 DEF PoolTimeout, TimesOut, Task, SessionOK
  <2>2. task' = [task EXCEPT ![t] = new] /\ lost' = lost /\ failures' \in Nat
    BY <1>0, <1>3 DEF PoolTimeout
  <2> QED BY <2>1, <2>2, StepOf
<1>4. CASE Write(t)
  <2> DEFINE new == [ts EXCEPT !.pending = @ + 1]
  <2>1. new \in Task /\ SessionOK(new) /\ (new.conn => ts.conn)
    BY <1>0, <1>4 DEF Write, Task, SessionOK
  <2>2. task' = [task EXCEPT ![t] = new] /\ lost' = lost /\ failures' \in Nat
    BY <1>0, <1>4 DEF Write
  <2> QED BY <2>1, <2>2, StepOf
<1>5. CASE Mail(t)
  <2> DEFINE new == [ts EXCEPT !.mail = TRUE]
  <2>1. new \in Task /\ SessionOK(new) /\ (new.conn => ts.conn)
    BY <1>0, <1>5 DEF Mail, AfterLastWrite, Task, SessionOK
  <2>2. task' = [task EXCEPT ![t] = new] /\ lost' = lost /\ failures' \in Nat
    BY <1>0, <1>5 DEF Mail
  <2> QED BY <2>1, <2>2, StepOf
<1>6. CASE Return(t)
  <2> DEFINE new == [ts EXCEPT !.pc = "commit", !.outcome = "ok"]
  <2>1. new \in Task /\ SessionOK(new) /\ (new.conn => ts.conn)
    BY <1>0, <1>6 DEF Return, Task, SessionOK
  <2>2. task' = [task EXCEPT ![t] = new] /\ lost' = lost /\ failures' \in Nat
    BY <1>0, <1>6 DEF Return
  <2> QED BY <2>1, <2>2, StepOf
<1>7. CASE RaiseHTTP(t)
  <2> DEFINE new == [RolledBack(ts) EXCEPT !.pc = "commit", !.outcome = "http"]
  <2>1. new \in Task /\ SessionOK(new) /\ (new.conn => ts.conn)
    BY <1>0, <1>7 DEF RaiseHTTP, RolledBack, Task, SessionOK
  <2>2. task' = [task EXCEPT ![t] = new] /\ lost' = lost /\ failures' \in Nat
    BY <1>0, <1>7 DEF RaiseHTTP
  <2> QED BY <2>1, <2>2, StepOf
<1>8. CASE Raise(t)
  <2> DEFINE new == [ts EXCEPT !.pc = "commit", !.outcome = "error"]
  <2>1. new \in Task /\ SessionOK(new) /\ (new.conn => ts.conn)
    BY <1>0, <1>8 DEF Raise, Task, SessionOK
  <2>2. task' = [task EXCEPT ![t] = new]
    BY <1>0, <1>8 DEF Raise
  <2>3. lost' = lost /\ failures' \in Nat
    BY <1>0, <1>8 DEF Raise, Fail
  <2> QED BY <2>1, <2>2, <2>3, StepOf
<1> QED BY <1>1, <1>2, <1>3, <1>4, <1>5, <1>6, <1>7, <1>8 DEF Handle

\* A refused commit loses a connection that was the session's, or was free.
LEMMA RefusedIInv ==
  ASSUME IInv, NEW t \in Tasks, CommitRefused(t) PROVE IInv'
<1> DEFINE ts == task[t]
           new == Left(t)
<1>0. /\ ts \in Task /\ SessionOK(ts) /\ failures \in Nat /\ lost \in Nat
      /\ Writes \in Nat \ {0} /\ task \in [Tasks -> Task] /\ Available >= 0
  BY SessionAssumption DEF IInv, TypeOK
<1>1. new \in Task /\ SessionOK(new) /\ new.conn = FALSE
  BY <1>0 DEF CommitRefused, Left, NoSession, Task, SessionOK
<1>2. task' = [task EXCEPT ![t] = new]
  BY DEF CommitRefused
<1>3. CASE CanCommit(ts) /\ Fail /\ lost' = lost + 1
  <2>1. failures' \in Nat /\ lost' \in Nat
    BY <1>0, <1>3 DEF Fail
  <2>2. task' \in [Tasks -> Task] /\ \A u \in Tasks : SessionOK(task'[u])
    BY <1>0, <1>1, <1>2 DEF IInv
  <2> HIDE DEF new
  <2>3. /\ Cardinality(Holders) \in Nat /\ Cardinality(Holders') \in Nat
        /\ new.conn = ts.conn => Cardinality(Holders') = Cardinality(Holders)
        /\ ~new.conn /\ ts.conn => Cardinality(Holders') = Cardinality(Holders) - 1
    BY <1>0, <1>1, <1>2, HoldersOf
  <2>10. ts.conn \in BOOLEAN
    BY <1>0 DEF Task
  <2>4. ts.conn \/ Available > 0
    BY <1>0, <1>3 DEF CanCommit, CommitRefused, SomeFree, Task
  <2>5. Capacity \in Nat
    BY SessionAssumption DEF Capacity
  <2>6. /\ Available = Capacity - Cardinality(Holders) - lost
        /\ Available' = Capacity - Cardinality(Holders') - lost'
    BY DEF Available, Capacity
  <2>7. ASSUME ts.conn PROVE Available' >= 0
    <3>1. Cardinality(Holders') = Cardinality(Holders) - 1
      BY <1>1, <2>3, <2>7
    <3> QED BY <1>0, <1>3, <2>3, <2>5, <2>6, <3>1
  <2>8. ASSUME ~ts.conn PROVE Available' >= 0
    <3>1. Cardinality(Holders') = Cardinality(Holders)
      BY <1>1, <2>3, <2>8, <2>10
    <3>2. Available > 0
      BY <2>4, <2>8
    <3> QED BY <1>0, <1>3, <2>3, <2>5, <2>6, <3>1, <3>2
  <2>9. Available' >= 0
    BY <2>7, <2>8
  <2> QED BY <2>1, <2>2, <2>9 DEF IInv, TypeOK
<1>4. CASE UNCHANGED <<lost, failures>>
  BY <1>0, <1>1, <1>2, <1>4, StepOf
<1> QED BY <1>3, <1>4 DEF CommitRefused

\* Every step keeps IInv.
LEMMA StepIInv == IInv /\ [Next]_vars => IInv'
<1> SUFFICES ASSUME IInv, [Next]_vars PROVE IInv'
  OBVIOUS
<1>0. /\ task \in [Tasks -> Task] /\ failures \in Nat /\ lost \in Nat
      /\ Writes \in Nat \ {0} /\ Available >= 0
      /\ \A t \in Tasks : task[t] \in Task /\ SessionOK(task[t])
  BY SessionAssumption DEF IInv, TypeOK
<1>1. CASE Collect
  <2>1. Holders' = Holders
    BY <1>1 DEF Collect, Holders
  <2>2. Available' >= 0
    <3>1. Capacity \in Nat /\ Capacity' = Capacity
      BY SessionAssumption DEF Capacity
    <3>2. Cardinality(Holders) \in Nat
      BY TasksFinite, FS_Subset, FS_CardinalityType DEF Holders
    <3> QED BY <1>0, <1>1, <2>1, <3>1, <3>2 DEF Collect, Available
  <2> QED BY <1>0, <1>1, <2>2 DEF Collect, IInv, TypeOK
<1>2. ASSUME NEW t \in Tasks, CreateSession(t) PROVE IInv'
  <2> DEFINE new == [NoSession EXCEPT !.pc = "running"]
  <2>1. NoSession \in Task
    BY <1>0 DEF NoSession, Task
  <2>5. /\ NoSession.conn = FALSE /\ NoSession.outcome = "none" /\ NoSession.stored = 0
        /\ NoSession.mail = FALSE /\ NoSession.refused = FALSE
    BY DEF NoSession
  <2>3. new \in Task /\ ~new.conn
    BY <2>1, <2>5 DEF Task
  <2>6. /\ new.pc = "running" /\ new.conn = FALSE /\ new.outcome = "none"
        /\ new.stored = 0 /\ new.mail = FALSE /\ new.refused = FALSE
    BY <2>1, <2>5 DEF Task
  <2>4. SessionOK(new)
    BY <2>6 DEF SessionOK
  <2>2. task' = [task EXCEPT ![t] = new] /\ lost' = lost /\ failures' \in Nat
    BY <1>0, <1>2 DEF CreateSession, Become
  <2> QED BY <2>2, <2>3, <2>4, StepOf
<1>3. ASSUME NEW t \in Tasks, Handle(t) PROVE IInv'
  BY <1>3, HandleIInv
<1>4. ASSUME NEW t \in Tasks, Commit(t) PROVE IInv'
  <2> DEFINE ts == task[t]
             new == [ts EXCEPT !.pc = "close", !.stored = @ + ts.pending,
                               !.pending = 0, !.conn = FALSE]
  <2>3. ts \in Task /\ SessionOK(ts) /\ ts.pc = "commit" /\ ts.stored = 0
    BY <1>0, <1>4 DEF Commit, SessionOK
  <2>4. /\ new.pc = "close" /\ new.stored = ts.pending /\ new.pending = 0 /\ new.conn = FALSE
        /\ new.mail = ts.mail /\ new.refused = ts.refused /\ new.outcome = ts.outcome
    BY <2>3 DEF Task
  <2>5. new \in Task
    <3>1. ts.stored + ts.pending \in 0..Writes
      BY <1>0, <2>3 DEF Task
    <3> QED BY <1>0, <2>3, <3>1 DEF Task
  <2>6. SessionOK(new)
    BY <2>3, <2>4 DEF SessionOK
  <2>1. new \in Task /\ SessionOK(new) /\ ~new.conn
    BY <2>4, <2>5, <2>6
  <2>2. task' = [task EXCEPT ![t] = new] /\ lost' = lost /\ failures' \in Nat
    BY <1>0, <1>4 DEF Commit, Become
  <2> QED BY <2>1, <2>2, StepOf
<1>5. ASSUME NEW t \in Tasks, CommitRefused(t) PROVE IInv'
  BY <1>5, RefusedIInv
<1>6. ASSUME NEW t \in Tasks, Close(t) PROVE IInv'
  <2> DEFINE new == Over(t)
  <2>1. new \in Task /\ SessionOK(new) /\ ~new.conn
    BY <1>0, <1>6 DEF Close, Over, NoSession, Task, SessionOK
  <2>2. task' = [task EXCEPT ![t] = new] /\ lost' = lost /\ failures' \in Nat
    BY <1>0, <1>6 DEF Close, Become
  <2> QED BY <2>1, <2>2, StepOf
<1>7. CASE UNCHANGED vars
  <2>1. Holders' = Holders
    BY <1>7 DEF vars, Holders
  <2>2. Available' = Available
    BY <1>7, <2>1 DEF vars, Available, Capacity
  <2> QED BY <1>0, <1>7, <2>2 DEF vars, IInv, TypeOK
<1> QED BY <1>1, <1>2, <1>3, <1>4, <1>5, <1>6, <1>7 DEF Next, Continue, Leave

\* IInv holds in every reachable state.
LEMMA Invariance == Spec => []IInv
  BY InitIInv, StepIInv, PTL DEF Spec

-----------------------------------------------------------------------------
\* Sessions keep their type, and the pool never gives out more connections than
\* it may, however many sessions a refused commit has left unclosed.
THEOREM TypeCorrect == Spec => []TypeOK
<1>1. IInv => TypeOK
  BY DEF IInv
<1> QED BY <1>1, Invariance, PTL

\* After a success all writes of a request are stored, after an HTTPException
\* none, whatever else runs and fails meanwhile.
THEOREM AnswersTellStored == Spec => []AnswerTellsStored
<1>1. IInv => AnswerTellsStored
  BY DEF IInv, SessionOK, AnswerTellsStored, Tasks
<1> QED BY <1>1, Invariance, PTL

\* What a confirmation was sent for is stored, unless its commit is refused.
THEOREM ConfirmationsHold == Spec => []ConfirmedIsStored
<1>1. IInv => ConfirmedIsStored
  BY DEF IInv, SessionOK, ConfirmedIsStored, Tasks
<1> QED BY <1>1, Invariance, PTL
============================================================================
