------------------------------ MODULE Sessions ------------------------------
(***************************************************************************)
(* Statements and transactions: Client.query() and what is built on it, in  *)
(* src/src/db/client.ts, src/src/db/transaction-manager.ts, the decorators   *)
(* of src/src/decorators and Model.transactional().                          *)
(*                                                                         *)
(* A task is one call of the application.  It takes the steps of Program in *)
(* turn; a step that is a statement asks the pool for a connection, sends    *)
(* the statement on it and gives the connection back at once, while the      *)
(* statement runs.  The pool is what ConnectionLease promises, and lists its *)
(* connections in numeric order; the sessions of the database behind the     *)
(* connections are external.                                                 *)
(***************************************************************************)
EXTENDS Naturals, FiniteSets, SequencesExt

CONSTANTS Tasks, Conns, Kinds,
  MaxTries,    \* attempts of RetryOperation() and retryOperation()
  MaxAttempts, \* bound of the model: attempts of all calls together
  MaxFaults    \* bound of the model: refusals, timeouts, errors, moves of the state,
               \* less one for every call after the first

ASSUME SessionsAssumption ==
  /\ IsFiniteSet(Tasks)
  /\ MaxTries \in Nat \ {0} /\ MaxFaults \in Nat /\ MaxAttempts \in Nat
  /\ Conns \subseteq Nat \ {0}

VARIABLES
  kind,       \* what each task is
  at,         \* the step it has come to
  phase,      \* how far the step is
  tries,      \* the attempt it is in
  outcome,    \* what its caller was told
  lease,      \* the connection of its statement, until it is given back
  outer,      \* the connection @Query or @Connection holds around the method
  overdue,    \* requests the pool still has, although their timer has gone off
  lost,       \* the connections nobody will give back, with their requests
  pool,       \* the pool of the pool manager
  connected,  \* whether the connection state is CONNECTED
  active,     \* TransactionManager.transactionActive
  flight,     \* statements sent and not yet run by the database
  inTransaction, uncommitted, durable,   \* the sessions, and what has been committed
  executed,   \* history: the statements that were run
  timedOut,   \* history: the attempts that gave up on a statement
  raced,      \* history: the requests whose timer has gone off
  faults,     \* history: how many faults there have been
  overlapped  \* history: two calls of the transaction manager have overlapped

taskVars    == <<kind, at, phase, tries, outcome>>
leaseVars   == <<lease, outer, overdue, lost>>
serverVars  == <<flight, inTransaction, uncommitted, durable, executed>>
historyVars == <<timedOut, raced, overlapped, faults>>
vars == <<taskVars, leaseVars, pool, connected, active, serverVars, historyVars>>

NoConn == 0

\* "decorated" is @Transaction or Model.transactional(), "execute" is
\* Client.executeTransaction(), "managed" is @Query or @Connection.
Wrapped       == {"decorated", "execute"}
Transactional == Wrapped \cup {"manager"}
AllKinds      == Transactional \cup {"managed", "plain", "health", "indicator", "none"}

\* The calls of an application are of these kinds; "none" is no call yet.
ASSUME KindsAssumption == Kinds \subseteq AllKinds \ {"none"}

Step  == {"idle", "isolation", "begin", "work", "commit", "rollback", "manage",
          "close", "probe", "stats", "details", "look", "end"}
Phase == {"ready", "polling", "asking", "pending", "ok", "failed"}

\* An attempt of a task, a request of one of its steps, and what is sent on the
\* connection that was granted for it.
Attempt   == [task : Tasks, try : 1..MaxTries]
Request   == [task : Tasks, try : 1..MaxTries, step : Step]
Statement == [task : Tasks, try : 1..MaxTries, step : Step, conn : Conns]

Present(t)   == [task |-> t, try |-> tries[t]]
Current(t)   == [task |-> t, try |-> tries[t], step |-> at[t]]
Given(q, c)  == [task |-> q.task, try |-> q.try, step |-> q.step, conn |-> c]
RequestOf(q) == [task |-> q.task, try |-> q.try, step |-> q.step]
AttemptOf(q) == [task |-> q.task, try |-> q.try]

\* What each variable ranges over.
TypeOK ==
  /\ kind \in [Tasks -> AllKinds] /\ at \in [Tasks -> Step]
  /\ phase \in [Tasks -> Phase] /\ tries \in [Tasks -> 1..MaxTries]
  /\ outcome \in [Tasks -> {"none", "failing", "resolved", "rejected"}]
  /\ lease \in [Tasks -> Conns \cup {NoConn}]
  /\ outer \in [Tasks -> Conns \cup {NoConn}]
  /\ overdue \subseteq Request /\ raced \subseteq Request /\ lost \subseteq Statement
  /\ pool \in {"absent", "ready", "drained"}
  /\ connected \in BOOLEAN /\ active \in BOOLEAN
  /\ flight \subseteq Statement /\ executed \subseteq Statement
  /\ inTransaction \in [Conns -> BOOLEAN]
  /\ uncommitted \in [Conns -> SUBSET Attempt]
  /\ durable \subseteq Attempt
  /\ timedOut \subseteq Attempt /\ overlapped \in BOOLEAN /\ faults \in 0..MaxFaults

Init ==
  /\ kind = [t \in Tasks |-> "none"] /\ at = [t \in Tasks |-> "idle"]
  /\ phase = [t \in Tasks |-> "ready"] /\ tries = [t \in Tasks |-> 1]
  /\ outcome = [t \in Tasks |-> "none"]
  /\ lease = [t \in Tasks |-> NoConn] /\ outer = [t \in Tasks |-> NoConn]
  /\ overdue = {} /\ raced = {} /\ lost = {}
  /\ pool \in {"absent", "ready"}
  /\ connected = (pool = "ready") /\ active = FALSE
  /\ flight = {} /\ executed = {}
  /\ inTransaction = [c \in Conns |-> FALSE]
  /\ uncommitted = [c \in Conns |-> {}]
  /\ durable = {} /\ timedOut = {} /\ overlapped = FALSE /\ faults = 0

-----------------------------------------------------------------------------
(* The programs                                                            *)

\* @Transaction, Model.transactional() and Client.executeTransaction()
TransactionSteps == <<"begin", "work", "commit">>
\* TransactionManager: beginTransaction() sets the isolation level first.
ManagerSteps == <<"isolation", "begin", "work", "commit">>
\* @Query and @Connection hold a connection around the method.
ManagedSteps == <<"manage", "work", "close">>
\* Client.checkHealth(): a trial query, the statistics, the details.
HealthSteps == <<"probe", "stats", "details">>
IndicatorSteps == <<"look">>

\* The steps of a task that meets no error.
Program(k) ==
  CASE k \in Wrapped -> TransactionSteps
    [] k = "manager" -> ManagerSteps
    [] k = "managed" -> ManagedSteps
    [] k = "health" -> HealthSteps
    [] k = "plain" -> <<"work">>
    [] k = "indicator" -> IndicatorSteps

After(k, s) ==
  IF s \notin ToSet(Program(k)) THEN "end"
  ELSE LET i == CHOOSE i \in DOMAIN Program(k) : Program(k)[i] = s
       IN IF i = Len(Program(k)) THEN "end" ELSE Program(k)[i + 1]

OnErrorCommitMutant(k, s) ==
  CASE k \in Transactional /\ s = "work" -> "commit"
    [] k \in Transactional /\ s = "commit" -> "rollback"
    [] k = "decorated" /\ s = "begin" -> "rollback"
    [] k = "managed" /\ s = "work" -> "close"
    [] OTHER -> "end"

OnErrorLeakMutant(k, s) ==
  CASE k \in Transactional /\ s \in {"work", "commit"} -> "rollback"
    [] k = "decorated" /\ s = "begin" -> "rollback"
    [] OTHER -> "end"

\* Where a task goes when a step throws.  @Transaction and Model.transactional()
\* roll back even when begin has thrown, executeTransaction() does not.
OnError(k, s) ==
  CASE k \in Transactional /\ s \in {"work", "commit"} -> "rollback"
    [] k = "decorated" /\ s = "begin" -> "rollback"
    [] k = "managed" /\ s = "work" -> "close"
    [] OTHER -> "end"

\* The bounds of the model: one more fault (the more calls, the fewer faults), one
\* more attempt.
Calls == {t \in Tasks : kind[t] # "none"}
Fault ==
  /\ faults < MaxFaults /\ faults + Cardinality(Calls) <= MaxFaults
  /\ faults' = faults + 1
Attempts == {a \in Attempt : a.task \in Calls /\ a.try <= tries[a.task]}
Trying   == Cardinality(Attempts) < MaxAttempts

Free(c) ==
  /\ \A t \in Tasks : c \notin {lease[t], outer[t]}
  /\ \A q \in lost : q.conn # c

\* The connection the pool grants: the first free one of its list.
FirstFree(c) == Free(c) /\ \A d \in Conns : Free(d) => c <= d

\* Task t comes to step s.  At the end its caller is told.
Enter(t, s, bad) ==
  /\ at' = [at EXCEPT ![t] = s]
  /\ phase' = [phase EXCEPT ![t] = "ready"]
  /\ outcome' = [outcome EXCEPT ![t] =
       CASE s = "end" -> IF bad \/ @ = "failing" THEN "rejected" ELSE "resolved"
         [] s # "end" -> IF bad THEN "failing" ELSE @]

-----------------------------------------------------------------------------
(* Calls                                                                   *)

Start(t, k) ==
  /\ at[t] = "idle" /\ Trying
  /\ kind' = [kind EXCEPT ![t] = k]
  /\ Enter(t, Head(Program(k)), FALSE)
  /\ UNCHANGED <<tries, leaseVars, pool, connected, active, serverVars, historyVars>>

\* A method under @CheckConnectionState or @GetConnectionState is not even begun
\* unless the state is right.
StartChecked(t) ==
  /\ at[t] = "idle" /\ Trying
  /\ kind' = [kind EXCEPT ![t] = "plain"]
  /\ IF connected THEN Enter(t, "work", FALSE) ELSE Enter(t, "end", TRUE)
  /\ UNCHANGED <<tries, leaseVars, pool, connected, active, serverVars, historyVars>>

RetryAlwaysMutant(t) ==
  /\ kind[t] # "health" /\ at[t] = "end" /\ tries[t] < MaxTries
  /\ tries' = [tries EXCEPT ![t] = @ + 1]
  /\ at' = [at EXCEPT ![t] = Head(Program(kind[t]))]
  /\ outcome' = [outcome EXCEPT ![t] = "none"]
  /\ UNCHANGED <<kind, phase, leaseVars, pool, connected, active, serverVars, historyVars>>

RetryOnceMoreMutant(t) ==
  /\ kind[t] # "health" /\ at[t] = "end" /\ outcome[t] = "rejected"
  /\ tries[t] <= MaxTries
  /\ tries' = [tries EXCEPT ![t] = @ + 1]
  /\ at' = [at EXCEPT ![t] = Head(Program(kind[t]))]
  /\ outcome' = [outcome EXCEPT ![t] = "none"]
  /\ UNCHANGED <<kind, phase, leaseVars, pool, connected, active, serverVars, historyVars>>

\* RetryOperation() or retryOperation() around any method that throws, a whole
\* transaction or @Query method too, calls it again.  (checkHealth() does not throw.)
Retry(t) ==
  /\ kind[t] # "health" /\ at[t] = "end" /\ outcome[t] = "rejected"
  /\ tries[t] < MaxTries /\ Trying
  /\ tries' = [tries EXCEPT ![t] = @ + 1]
  /\ at' = [at EXCEPT ![t] = Head(Program(kind[t]))]
  /\ outcome' = [outcome EXCEPT ![t] = "none"]
  /\ UNCHANGED <<kind, phase, leaseVars, pool, connected, active, serverVars, historyVars>>

\* Client.beginTransaction(), commitTransaction() and rollbackTransaction() require
\* CONNECTED, those of the transaction manager its flag.
Forbidden(t) ==
  \/ kind[t] \in Wrapped /\ at[t] \in {"begin", "commit", "rollback"} /\ ~connected
  \/ kind[t] = "manager" /\ at[t] \in {"commit", "rollback"} /\ ~active

\* A call of the transaction manager has started and not ended.
InManager(t) ==
  /\ kind[t] = "manager"
  /\ \/ at[t] = "begin"
     \/ at[t] \in {"isolation", "commit", "rollback"} /\ phase[t] # "ready"

NoteOverlap(t) ==
  overlapped' = (overlapped \/ (kind[t] = "manager" /\ at[t] # "work"
                                /\ \E u \in Tasks \ {t} : InManager(u)))

\* The next step asks the pool for a connection: query(), the details of the health
\* check, or getConnection() of @Query and @Connection.  While there is no pool the
\* client polls, without a timer; the connection manager rejects at once.
Ask(t) ==
  /\ phase[t] = "ready" /\ at[t] \notin {"idle", "close", "look", "end"}
  /\ ~(kind[t] = "manager" /\ at[t] = "isolation" /\ active)
  /\ phase' = [phase EXCEPT ![t] =
       IF Forbidden(t) \/ (at[t] = "manage" /\ pool # "ready") THEN "failed"
       ELSE IF pool = "ready" THEN "asking" ELSE "polling"]
  /\ NoteOverlap(t)
  /\ UNCHANGED <<kind, at, tries, outcome, leaseVars, pool, connected, active, serverVars,
                 timedOut, raced, faults>>

Poll(t) ==
  /\ phase[t] = "polling" /\ pool = "ready"
  /\ phase' = [phase EXCEPT ![t] = "asking"]
  /\ UNCHANGED <<kind, at, tries, outcome, leaseVars, pool, connected, active, serverVars,
                 historyVars>>

\* beginTransaction() of the transaction manager finds a transaction active, logs
\* a warning and returns.
BeginNested(t) ==
  /\ kind[t] = "manager" /\ at[t] = "isolation" /\ phase[t] = "ready" /\ active
  /\ Enter(t, "work", FALSE)
  /\ NoteOverlap(t)
  /\ UNCHANGED <<kind, tries, leaseVars, pool, connected, active, serverVars, timedOut,
                 raced, faults>>

\* The pool grants a connection.  query() sends its statement on it; the statement
\* of the details is sent on a connection that is never returned.
Grant(t, c) ==
  /\ phase[t] = "asking" /\ pool = "ready" /\ FirstFree(c)
  /\ IF at[t] = "manage"
       THEN /\ outer' = [outer EXCEPT ![t] = c]
            /\ phase' = [phase EXCEPT ![t] = "ok"]
            /\ UNCHANGED <<lease, lost, flight>>
       ELSE /\ phase' = [phase EXCEPT ![t] = "pending"]
            /\ flight' = flight \cup {Given(Current(t), c)}
            /\ IF at[t] = "details"
                 THEN lost' = lost \cup {Given(Current(t), c)} /\ UNCHANGED lease
                 ELSE lease' = [lease EXCEPT ![t] = c] /\ UNCHANGED lost
            /\ UNCHANGED outer
  /\ UNCHANGED <<kind, at, tries, outcome, overdue, pool, connected, active, inTransaction,
                 uncommitted, durable, executed, historyVars>>

\* The pool refuses: state ERROR.
Refuse(t) ==
  /\ Fault /\ phase[t] = "asking"
  /\ phase' = [phase EXCEPT ![t] = "failed"]
  /\ connected' = FALSE
  /\ UNCHANGED <<kind, at, tries, outcome, leaseVars, pool, active, serverVars, timedOut,
                 raced, overlapped>>

\* The timer of the pool manager goes off first.  The request stays with the pool.
RaceTimeout(t) ==
  /\ Fault /\ phase[t] = "asking"
  /\ phase' = [phase EXCEPT ![t] = "failed"]
  /\ connected' = FALSE
  /\ overdue' = overdue \cup {Current(t)} /\ raced' = raced \cup {Current(t)}
  /\ UNCHANGED <<kind, at, tries, outcome, lease, outer, lost, pool, active, serverVars,
                 timedOut, overlapped>>

\* The pool grants such a request: nobody awaits the connection, and nobody will
\* give it back.
LateGrant(q, c) ==
  /\ pool = "ready" /\ FirstFree(c)
  /\ overdue' = overdue \ {q}
  /\ lost' = lost \cup {Given(q, c)}
  /\ UNCHANGED <<taskVars, lease, outer, pool, connected, active, serverVars, historyVars>>

\* Or it refuses it, to nobody.
LateRefuse(q) ==
  /\ overdue' = overdue \ {q}
  /\ UNCHANGED <<taskVars, lease, outer, lost, pool, connected, active, serverVars,
                 historyVars>>

\* The finally of query() has returned the connection.
GiveBack(t) ==
  /\ lease[t] # NoConn
  /\ lease' = [lease EXCEPT ![t] = NoConn]
  /\ UNCHANGED <<taskVars, outer, overdue, lost, pool, connected, active, serverVars,
                 historyVars>>

\* The timer of query() goes off.  The statement is not cancelled.  The details
\* have no timer.
QueryTimeout(t) ==
  /\ Fault /\ phase[t] = "pending" /\ at[t] \notin {"details", "look", "close"}
  /\ phase' = [phase EXCEPT ![t] = "failed"]
  /\ timedOut' = timedOut \cup {Present(t)}
  /\ UNCHANGED <<kind, at, tries, outcome, leaseVars, pool, connected, active, serverVars,
                 raced, overlapped>>

-----------------------------------------------------------------------------
(* The database                                                            *)

\* Statement q is answered.  If somebody still waits for that answer, it is his.
Answer(q, a) ==
  LET t == q.task IN
  phase' = IF at[t] = q.step /\ tries[t] = q.try /\ phase[t] = "pending"
             THEN [phase EXCEPT ![t] = a] ELSE phase

\* The session of the connection runs the statement.  Work outside a transaction is
\* committed at once; COMMIT and ROLLBACK end whatever is open in the session.
Run(q) ==
  LET c == q.conn
      work == uncommitted[c] \cup (IF q.step = "work" THEN {AttemptOf(q)} ELSE {}) IN
  /\ inTransaction' = [inTransaction EXCEPT ![c] =
       (@ \/ q.step = "begin") /\ q.step \notin {"commit", "rollback"}]
  /\ durable' = IF q.step = "commit" \/ (q.step = "work" /\ ~inTransaction[c])
                  THEN durable \cup work ELSE durable
  /\ uncommitted' = [uncommitted EXCEPT ![c] = IF inTransaction'[c] THEN work ELSE {}]

Execute(q) ==
  /\ q \in flight
  /\ flight' = flight \ {q}
  /\ \/ /\ Run(q) /\ Answer(q, "ok")
        /\ executed' = IF q.step \in {"begin", "work", "commit", "rollback"}
                         THEN executed \cup {q} ELSE executed
        /\ UNCHANGED faults
     \/ /\ Fault /\ Answer(q, "failed")
        /\ UNCHANGED <<inTransaction, uncommitted, durable, executed>>
  /\ UNCHANGED <<kind, at, tries, outcome, leaseVars, pool, connected, active, timedOut,
                 raced, overlapped>>

-----------------------------------------------------------------------------
(* After a step                                                            *)

Settled(t, a) == phase[t] = a /\ lease[t] = NoConn

ProceedEarlyMutant(t) ==
  /\ (phase[t] = "ok" \/ (phase[t] = "pending" /\ at[t] = "commit")) /\ lease[t] = NoConn
  /\ Enter(t, After(kind[t], at[t]), FALSE)
  /\ active' = IF kind[t] # "manager" THEN active
               ELSE (active \/ at[t] = "begin") /\ at[t] \notin {"commit", "rollback"}
  /\ UNCHANGED <<kind, tries, leaseVars, pool, connected, serverVars, historyVars>>

\* The step has succeeded.
Proceed(t) ==
  /\ Settled(t, "ok")
  /\ Enter(t, After(kind[t], at[t]), FALSE)
  /\ active' = IF kind[t] # "manager" THEN active
               ELSE (active \/ at[t] = "begin") /\ at[t] \notin {"commit", "rollback"}
  /\ UNCHANGED <<kind, tries, leaseVars, pool, connected, serverVars, historyVars>>

\* The method throws although its statement has succeeded.  (The method of @Query
\* is called after the steps modelled here, and a plain call is its statement.)
MethodThrows(t) ==
  /\ kind[t] \in Transactional \cup {"managed"}
  /\ Settled(t, "ok") /\ at[t] = "work"
  /\ Fault /\ Enter(t, OnError(kind[t], "work"), TRUE)
  /\ UNCHANGED <<kind, tries, leaseVars, pool, connected, active, serverVars, timedOut,
                 raced, overlapped>>

FlagDroppedMutant(t) ==
  /\ Settled(t, "failed")
  /\ Enter(t, OnError(kind[t], at[t]), at[t] # "details")
  /\ active' = (active /\ ~(kind[t] = "manager" /\ at[t] # "work"))
  /\ UNCHANGED <<kind, tries, leaseVars, pool, connected, serverVars, historyVars>>

\* The step has failed.  A begin that fails resets the flag of the transaction
\* manager, a commit or a rollback that fails does not.  The health check goes on
\* without its details.
Fail(t) ==
  /\ Settled(t, "failed")
  /\ Enter(t, OnError(kind[t], at[t]), at[t] # "details")
  /\ active' = (active /\ ~(kind[t] = "manager" /\ at[t] \in {"isolation", "begin"}))
  /\ UNCHANGED <<kind, tries, leaseVars, pool, connected, serverVars, historyVars>>

\* @Query and @Connection close their connection; the state becomes DISCONNECTING.
CloseOuter(t) ==
  /\ at[t] = "close" /\ phase[t] = "ready"
  /\ phase' = [phase EXCEPT ![t] = "pending"]
  /\ connected' = FALSE
  /\ UNCHANGED <<kind, at, tries, outcome, leaseVars, pool, active, serverVars, historyVars>>

OuterClosed(t) ==
  /\ at[t] = "close" /\ phase[t] = "pending"
  /\ outer' = [outer EXCEPT ![t] = NoConn]
  /\ phase' = [phase EXCEPT ![t] = "ok"]
  /\ UNCHANGED <<kind, at, tries, outcome, lease, overdue, lost, pool, connected, active,
                 serverVars, historyVars>>

\* The health indicator reads the state, and after the await of checkHealth() it
\* reports whether anybody holds a connection of the connection manager.
Look(t) ==
  /\ at[t] = "look" /\ phase[t] = "ready"
  /\ phase' = [phase EXCEPT ![t] = IF connected THEN "pending" ELSE "failed"]
  /\ UNCHANGED <<kind, at, tries, outcome, leaseVars, pool, connected, active, serverVars,
                 historyVars>>

Report(t) ==
  /\ at[t] = "look" /\ phase[t] = "pending"
  /\ phase' = [phase EXCEPT ![t] =
       IF \E u \in Tasks : outer[u] # NoConn THEN "ok" ELSE "failed"]
  /\ UNCHANGED <<kind, at, tries, outcome, leaseVars, pool, connected, active, serverVars,
                 historyVars>>

\* Anybody else moves the connection state, by an operation of ConnectionManager.
StateMoves ==
  /\ Fault /\ connected' = ~connected
  /\ UNCHANGED <<taskVars, leaseVars, pool, active, serverVars, timedOut, raced, overlapped>>

\* Client.init() has finished.
PoolReady ==
  /\ pool = "absent" /\ pool' = "ready" /\ connected' = TRUE
  /\ UNCHANGED <<taskVars, leaseVars, active, serverVars, historyVars>>

\* The pool has been drained.  Client.destroy() leaves the state CONNECTED.
PoolDrained ==
  /\ Fault /\ pool = "ready" /\ pool' = "drained" /\ connected' \in {connected, FALSE}
  /\ UNCHANGED <<taskVars, leaseVars, active, serverVars, timedOut, raced, overlapped>>

-----------------------------------------------------------------------------

TaskStep(t) ==
  \/ \E k \in Kinds : Start(t, k)
  \/ StartChecked(t)
  \/ Retry(t)
  \/ Ask(t)
  \/ Poll(t)
  \/ BeginNested(t)
  \/ \E c \in Conns : Grant(t, c)
  \/ Refuse(t)
  \/ RaceTimeout(t)
  \/ GiveBack(t)
  \/ QueryTimeout(t)
  \/ Proceed(t)
  \/ MethodThrows(t)
  \/ Fail(t)
  \/ CloseOuter(t)
  \/ OuterClosed(t)
  \/ Look(t)
  \/ Report(t)

Next ==
  \/ \E t \in Tasks : TaskStep(t)
  \/ \E q \in overdue : LateRefuse(q) \/ \E c \in Conns : LateGrant(q, c)
  \/ \E q \in flight : Execute(q)
  \/ StateMoves
  \/ PoolReady
  \/ PoolDrained

Spec == Init /\ [][Next]_vars

-----------------------------------------------------------------------------
(* Safety                                                                  *)

\* Attempt i of task t has had its step s run.
Ran(t, i, s) == \E q \in executed : q.task = t /\ q.try = i /\ q.step = s

\* What attempt i of a task was told: it has failed when the caller was told so or
\* another attempt has followed.
Succeeded(t, i) == i = tries[t] /\ outcome[t] = "resolved"
Failed(t, i)    == i < tries[t] \/ (i = tries[t] /\ outcome[t] = "rejected")

\* What is told of each attempt at a transaction is true of its COMMIT: when it
\* resolves, BEGIN, the work and COMMIT have all been run, and when it rejects,
\* COMMIT has not, unless somebody stopped waiting for an answer.  (A second
\* beginTransaction() of the transaction manager runs no BEGIN of its own.)
CommitTruth ==
  \A t \in Tasks, i \in 1..MaxTries : kind[t] \in Wrapped =>
    /\ Succeeded(t, i) => \A s \in {"begin", "work", "commit"} : Ran(t, i, s)
    /\ Failed(t, i) /\ Ran(t, i, "commit") => [task |-> t, try |-> i] \in timedOut

\* Where the documented atomicity does hold: if all statements of a call ran on
\* one session that nobody else used, and none timed out, then the work of a call
\* that resolved is durable, with that of a failed attempt before it only if the
\* rollback of that attempt did not run; of a call that rejected nothing is.
AtomicOnOneSession ==
  \A t \in Tasks : \A c \in Conns :
    /\ kind[t] \in Wrapped
    /\ \A i \in 1..MaxTries : [task |-> t, try |-> i] \notin timedOut
    /\ \A q \in executed : q.task = t <=> q.conn = c
    => \A i \in 1..MaxTries :
         /\ Succeeded(t, i) => [task |-> t, try |-> i] \in durable
         /\ outcome[t] = "rejected" \/ (Failed(t, i) /\ Ran(t, i, "rollback"))
              => [task |-> t, try |-> i] \notin durable

\* A call that is a single statement is run a second time only if an earlier
\* attempt timed out: a failure that was answered has done nothing.  (The work of a
\* transaction or of @Connection may be run again because something after it failed.)
AppliedOnce ==
  \A t \in Tasks : kind[t] = "plain" =>
    \A i, j \in 1..MaxTries :
      i < j /\ Ran(t, i, "work") /\ Ran(t, j, "work") => [task |-> t, try |-> i] \in timedOut

\* However a call ends, it has returned its connections; the ones that are lost, one
\* to a request, were granted for the details of a health check or after the timer
\* of their request had gone off.
NothingHeldAfter ==
  /\ \A t \in Tasks : at[t] = "end" => lease[t] = NoConn /\ outer[t] = NoConn
  /\ \A q \in lost : q.step = "details" \/ RequestOf(q) \in raced
  /\ \A p, q \in lost : RequestOf(p) = RequestOf(q) => p = q

\* The statements the database has run for the transaction manager, on whatever
\* session they reached: those that begin a transaction and those that end one.
Begun == {q \in executed : kind[q.task] = "manager" /\ q.step = "begin"}
Ended == {q \in executed : kind[q.task] = "manager" /\ q.step \in {"commit", "rollback"}}

\* As long as calls of the transaction manager do not overlap and nothing times
\* out, its flag counts rightly whenever no call is under way: it is set if and only
\* if more BEGINs have been run for it than COMMITs and ROLLBACKs, whichever steps
\* failed and were retried.  (That they reached one session it does not say.)
FlagTruth ==
  ~overlapped /\ timedOut = {} /\ (\A t \in Tasks : ~InManager(t)) =>
    (active <=> Cardinality(Begun) > Cardinality(Ended))

\* "This ensures atomicity and data integrity for database operations within the
\* method." (transaction.decorator.ts)  A method that rejects, without a time-out,
\* has left nothing behind.
DecoratedIsAtomic ==
  \A t \in Tasks, i \in 1..MaxTries :
    kind[t] = "decorated" /\ outcome[t] = "rejected" /\ Present(t) \notin timedOut
      => [task |-> t, try |-> i] \notin durable

=============================================================================
