--------------------------- MODULE Sessions_proofs ---------------------------
(***************************************************************************)
(* What is proved of the statements and transactions, for any number of     *)
(* calls, connections, attempts and faults.                                 *)
(***************************************************************************)
EXTENDS Sessions, FiniteSetTheorems, SequenceTheorems, TLAPS

(* The inductive invariant *)

Recorded == {"begin", "work", "commit", "rollback"}
Sent     == Recorded \cup {"isolation", "probe", "stats", "details"}

\* The steps a call of kind k can come to.
Steps(k) ==
  CASE k = "none" -> {"idle"}
    [] k \in Wrapped -> Recorded \cup {"end"}
    [] k = "manager" -> Recorded \cup {"isolation", "end"}
    [] k = "managed" -> {"manage", "work", "close", "end"}
    [] k = "health" -> {"probe", "stats", "details", "end"}
    [] k = "plain" -> {"work", "end"}
    [] k = "indicator" -> {"look", "end"}

\* How far a step can be, and what is told before the end.
Place(t) ==
  /\ at[t] \in Steps(kind[t])
  /\ at[t] \in {"idle", "end"} => phase[t] = "ready"
  /\ at[t] = "close" => phase[t] \in {"ready", "pending", "ok"}
  /\ at[t] = "manage" => phase[t] \notin {"pending", "polling"}
  /\ at[t] = "look" => phase[t] \notin {"asking", "polling"}
  /\ outcome[t] \in (CASE at[t] = "end" -> {"resolved", "rejected"}
                       [] at[t] = "rollback" -> {"failing"}
                       [] at[t] = "close" -> {"none", "failing"}
                       [] OTHER -> {"none"})

\* What a call holds: a lease while its statement runs, the outer connection from
\* the grant to the close.
Holding(t) ==
  /\ lease[t] # NoConn => at[t] \in Sent \ {"details"} /\ phase[t] \in {"pending", "ok", "failed"}
  /\ outer[t] # NoConn => \/ at[t] = "manage" /\ phase[t] = "ok"
                          \/ at[t] = "work" /\ kind[t] = "managed"
                          \/ at[t] = "close" /\ phase[t] \in {"ready", "pending"}

\* The attempt a call is in has had step s run.
Done(t, s) == Ran(t, tries[t], s)

\* A call of @Transaction or executeTransaction() that got past a statement has had
\* it run in this attempt.
Ahead(t) ==
  kind[t] \in Wrapped =>
    /\ \A s \in Recorded : at[t] = s /\ phase[t] = "ok" => Done(t, s)
    /\ at[t] = "work" => Done(t, "begin")
    /\ at[t] = "commit" => Done(t, "begin") /\ Done(t, "work")
    /\ outcome[t] = "resolved" => \A s \in {"begin", "work", "commit"} : Done(t, s)

\* A statement in flight is one its caller waits for, unless its attempt has given up.
Awaited(q) ==
  /\ q.step \in Sent /\ q.step \in Steps(kind[q.task]) /\ q.try <= tries[q.task]
  /\ \/ AttemptOf(q) \in timedOut
     \/ at[q.task] = q.step /\ tries[q.task] = q.try /\ phase[q.task] = "pending"

\* A statement that has been run has its attempt past it, unless that has given up.
\* An attempt that was followed by another has not committed.
Behind(q) ==
  LET t == q.task
      s == q.step IN
  /\ s \in Recorded /\ s \in Steps(kind[t]) /\ q.try <= tries[t]
  /\ \/ AttemptOf(q) \in timedOut
     \/ q.try < tries[t] /\ s # "commit" /\ kind[t] # "plain"
     \/ q.try = tries[t] /\
          \/ at[t] = s /\ phase[t] = "ok"
          \/ s = "begin" /\ at[t] \in {"work", "commit", "rollback", "end"}
          \/ s = "work" /\ at[t] \in {"commit", "rollback", "close", "end"}
                        /\ (kind[t] = "plain" => outcome[t] = "resolved")
          \/ s = "commit" /\ at[t] = "end" /\ outcome[t] = "resolved"
          \/ s = "rollback" /\ at[t] = "end" /\ outcome[t] = "rejected"

\* An attempt that has not given up has one statement in flight, and none run twice.
Single ==
  /\ \A q, r \in flight : AttemptOf(q) = AttemptOf(r) /\ AttemptOf(q) \notin timedOut => q = r
  /\ \A q, r \in executed :
       AttemptOf(q) = AttemptOf(r) /\ q.step = r.step /\ AttemptOf(q) \notin timedOut => q = r

CallInv ==
  /\ \A t \in Tasks : Place(t) /\ Holding(t) /\ Ahead(t)
  /\ \A q \in flight : Awaited(q)
  /\ \A q \in executed : Behind(q)
  /\ Single

\* The order in which a call comes to its steps.
Rank(s) ==
  CASE s = "idle" -> 0
    [] s = "isolation" -> 1
    [] s \in {"begin", "manage", "probe"} -> 2
    [] s \in {"work", "stats", "look"} -> 3
    [] s \in {"commit", "details", "close"} -> 4
    [] s = "rollback" -> 5
    [] OTHER -> 6

\* The call has done with a request, and holds nothing for it: that of an earlier
\* attempt or step, the one that has failed, or the one for the details.
Gone(r) ==
  LET t == r.task IN
  \/ r.try < tries[t]
  \/ r.try = tries[t] /\
       \/ Rank(r.step) < Rank(at[t]) /\ (r.step = "manage" => at[t] = "end")
       \/ r.step = at[t] /\ lease[t] = NoConn
            /\ (phase[t] = "failed" \/ (at[t] = "details" /\ phase[t] \in {"pending", "ok"}))

\* The requests whose timer has gone off, and the connections that are lost.
LossInv ==
  /\ overdue \subseteq raced
  /\ \A r \in raced : Gone(r)
  /\ \A q \in lost :
       /\ Gone(RequestOf(q)) /\ RequestOf(q) \notin overdue
       /\ q.step = "details" \/ RequestOf(q) \in raced
  /\ \A p, q \in lost : RequestOf(p) = RequestOf(q) => p = q

\* Every session: a transaction was begun in it, and what is open was worked in it.
SessionInv ==
  /\ \A c \in Conns :
       /\ inTransaction[c] => \E q \in executed : q.conn = c
       /\ ~inTransaction[c] => uncommitted[c] = {}
       /\ \A a \in uncommitted[c] : \E q \in executed : AttemptOf(q) = a /\ q.conn = c
  /\ \A a \in durable : \E q \in executed : AttemptOf(q) = a

\* All statements of t were run on c, and nothing else was; none has timed out.
Alone(t, c) ==
  /\ \A q \in executed : q.task = t <=> q.conn = c
  /\ \A i \in 1..MaxTries : [task |-> t, try |-> i] \notin timedOut

\* The session of a call that has it to itself follows the call.
Follows(t, c) ==
  kind[t] \in Wrapped /\ Alone(t, c) =>
    /\ Done(t, "begin") => (inTransaction[c] <=> ~Done(t, "commit") /\ ~Done(t, "rollback"))
    /\ Done(t, "begin") /\ inTransaction[c] /\ Done(t, "work") => Present(t) \in uncommitted[c]
    /\ Done(t, "commit") => Present(t) \in durable
    /\ \A i \in 1..MaxTries :
         /\ [task |-> t, try |-> i] \in durable => Done(t, "commit")
         /\ Ran(t, i, "rollback") => [task |-> t, try |-> i] \notin durable \cup uncommitted[c]

\* The calls of the transaction manager, as long as they neither overlap nor time out.
OneInManager == \A t, u \in Tasks : InManager(t) /\ InManager(u) => t = u
FlagOf(t) ==
  InManager(t) => /\ at[t] \in {"isolation", "begin"} => ~active
                  /\ at[t] \in {"commit", "rollback"} /\ phase[t] # "failed" => active
Answered(S) == \E t \in Tasks : kind[t] = "manager" /\ at[t] \in S /\ phase[t] = "ok"
Opened == Answered({"begin"}) \/ (active /\ ~Answered({"commit", "rollback"}))
FlagInv ==
  /\ IsFiniteSet(executed)
  /\ ~overlapped => OneInManager
  /\ ~overlapped /\ timedOut = {} =>
       /\ \A t \in Tasks : FlagOf(t)
       /\ Cardinality(Begun) = Cardinality(Ended) + (IF Opened THEN 1 ELSE 0)

-----------------------------------------------------------------------------
(* The programs                                                            *)

\* Where a call of kind k goes when its step s succeeds.
Successor(k, s) ==
  CASE s = "isolation" -> "begin"
    [] s \in {"begin", "manage"} -> "work"
    [] s = "work" /\ k \in Transactional -> "commit"
    [] s = "work" /\ k = "managed" -> "close"
    [] s = "probe" -> "stats"
    [] s = "stats" -> "details"
    [] OTHER -> "end"

\* Step i of a program that has no step twice is followed by step i + 1.
LEMMA NextInProgram ==
  ASSUME NEW k, NEW i \in DOMAIN Program(k),
         \A j \in DOMAIN Program(k) : Program(k)[j] = Program(k)[i] => j = i
  PROVE  After(k, Program(k)[i]) =
           IF i = Len(Program(k)) THEN "end" ELSE Program(k)[i + 1]
<1> DEFINE s == Program(k)[i]
<1>1. s \in ToSet(Program(k))
  BY DEF ToSet
<1>2. (CHOOSE j \in DOMAIN Program(k) : Program(k)[j] = s) = i
  OBVIOUS
<1> QED
  BY <1>1, <1>2 DEF After

\* A step that is not in a program ends the call.
LEMMA NotInProgram ==
  ASSUME NEW k, NEW s, \A j \in DOMAIN Program(k) : Program(k)[j] # s
  PROVE  After(k, s) = "end"
BY DEF After, ToSet

\* The programs of one, three and four steps.
LEMMA OneStep ==
  ASSUME NEW k, NEW a, Program(k) = <<a>>
  PROVE  After(k, a) = "end"
<1>1. DOMAIN Program(k) = {1} /\ Len(Program(k)) = 1 /\ Program(k)[1] = a
  OBVIOUS
<1>2. After(k, Program(k)[1]) = "end"
  BY <1>1, NextInProgram
<1> QED
  BY <1>1, <1>2

\* Three steps, none twice.
LEMMA ThreeSteps ==
  ASSUME NEW k, NEW a, NEW b, NEW c, Program(k) = <<a, b, c>>,
         a # b, a # c, b # c
  PROVE  After(k, a) = b /\ After(k, b) = c /\ After(k, c) = "end"
<1>1. /\ DOMAIN Program(k) = 1..3 /\ Len(Program(k)) = 3
      /\ Program(k)[1] = a /\ Program(k)[2] = b /\ Program(k)[3] = c
  OBVIOUS
<1>2. \A j \in DOMAIN Program(k) : j = 1 \/ j = 2 \/ j = 3
  BY <1>1
<1>3. After(k, Program(k)[1]) = Program(k)[2]
  BY <1>1, <1>2, NextInProgram
<1>4. After(k, Program(k)[2]) = Program(k)[3]
  BY <1>1, <1>2, NextInProgram
<1>5. After(k, Program(k)[3]) = "end"
  <2>1. 3 \in DOMAIN Program(k) /\ \A j \in DOMAIN Program(k) : Program(k)[j] = Program(k)[3] => j = 3
    BY <1>1, <1>2
  <2> QED
    BY <1>1, <2>1, NextInProgram
<1> QED
  BY <1>1, <1>3, <1>4, <1>5

\* Four steps, none twice.
LEMMA FourSteps ==
  ASSUME NEW k, NEW a, NEW b, NEW c, NEW d, Program(k) = <<a, b, c, d>>,
         a # b, a # c, a # d, b # c, b # d, c # d
  PROVE  After(k, a) = b /\ After(k, b) = c /\ After(k, c) = d /\ After(k, d) = "end"
<1>1. /\ DOMAIN Program(k) = 1..4 /\ Len(Program(k)) = 4
      /\ Program(k)[1] = a /\ Program(k)[2] = b /\ Program(k)[3] = c /\ Program(k)[4] = d
  OBVIOUS
<1>2. \A j \in DOMAIN Program(k) : j = 1 \/ j = 2 \/ j = 3 \/ j = 4
  BY <1>1
<1>3. After(k, Program(k)[1]) = Program(k)[2]
  BY <1>1, <1>2, NextInProgram
<1>4. After(k, Program(k)[2]) = Program(k)[3]
  BY <1>1, <1>2, NextInProgram
<1>5. After(k, Program(k)[3]) = Program(k)[4]
  BY <1>1, <1>2, NextInProgram
<1>6. After(k, Program(k)[4]) = "end"
  <2>1. 4 \in DOMAIN Program(k) /\ \A j \in DOMAIN Program(k) : Program(k)[j] = Program(k)[4] => j = 4
    BY <1>1, <1>2
  <2> QED
    BY <1>1, <2>1, NextInProgram
<1> QED
  BY <1>1, <1>3, <1>4, <1>5, <1>6

\* After() goes along the table.
LEMMA AfterIsSuccessor ==
  ASSUME NEW k \in AllKinds \ {"none"}, NEW s \in Steps(k) \ {"end"}
  PROVE  After(k, s) = Successor(k, s)
<1>1. CASE k \in Wrapped
  <2>1. Program(k) = <<"begin", "work", "commit">>
    BY <1>1 DEF Program, TransactionSteps, Wrapped
  <2>2. /\ After(k, "begin") = "work" /\ After(k, "work") = "commit"
        /\ After(k, "commit") = "end"
    BY <2>1, ThreeSteps
  <2>3. After(k, "rollback") = "end"
    BY <2>1, NotInProgram
  <2> QED
    BY <1>1, <2>2, <2>3 DEF Steps, Successor, Wrapped, Transactional, Recorded
<1>2. CASE k = "manager"
  <2>1. Program(k) = <<"isolation", "begin", "work", "commit">>
    BY <1>2 DEF Program, ManagerSteps, Wrapped
  <2>2. /\ After(k, "isolation") = "begin" /\ After(k, "begin") = "work"
        /\ After(k, "work") = "commit" /\ After(k, "commit") = "end"
    BY <2>1, FourSteps
  <2>3. After(k, "rollback") = "end"
    BY <2>1, NotInProgram
  <2> QED
    BY <1>2, <2>2, <2>3 DEF Steps, Successor, Wrapped, Transactional, Recorded
<1>3. CASE k = "managed"
  <2>1. Program(k) = <<"manage", "work", "close">>
    BY <1>3 DEF Program, ManagedSteps, Wrapped
  <2>2. /\ After(k, "manage") = "work" /\ After(k, "work") = "close"
        /\ After(k, "close") = "end"
    BY <2>1, ThreeSteps
  <2> QED
    BY <1>3, <2>2 DEF Steps, Successor, Wrapped, Transactional
<1>4. CASE k = "health"
  <2>1. Program(k) = <<"probe", "stats", "details">>
    BY <1>4 DEF Program, HealthSteps, Wrapped
  <2>2. /\ After(k, "probe") = "stats" /\ After(k, "stats") = "details"
        /\ After(k, "details") = "end"
    BY <2>1, ThreeSteps
  <2> QED
    BY <1>4, <2>2 DEF Steps, Successor, Wrapped, Transactional
<1>5. CASE k = "plain"
  <2>1. Program(k) = <<"work">>
    BY <1>5 DEF Program, Wrapped
  <2>2. After(k, "work") = "end"
    BY <2>1, OneStep
  <2> QED
    BY <1>5, <2>2 DEF Steps, Successor, Wrapped, Transactional
<1>6. CASE k = "indicator"
  <2>1. Program(k) = <<"look">>
    BY <1>6 DEF Program, IndicatorSteps, Wrapped
  <2>2. After(k, "look") = "end"
    BY <2>1, OneStep
  <2> QED
    BY <1>6, <2>2 DEF Steps, Successor, Wrapped, Transactional
<1> QED
  BY <1>1, <1>2, <1>3, <1>4, <1>5, <1>6 DEF AllKinds, Transactional

\* A call starts with a step of its kind that neither ends it nor closes anything.
LEMMA FirstStep ==
  ASSUME NEW k \in AllKinds \ {"none"}
  PROVE  /\ Head(Program(k)) \in Steps(k)
         /\ Head(Program(k)) \in {"begin", "isolation", "manage", "probe", "work", "look"}
         /\ k \in Wrapped => Head(Program(k)) = "begin"
         /\ Head(Program(k)) = "work" => k = "plain"
BY DEF AllKinds, Transactional, Wrapped, Program, Steps, Recorded, TransactionSteps,
       ManagerSteps, ManagedSteps, HealthSteps, IndicatorSteps

\* What a call does when a step of its kind throws.
LEMMA WhenItThrows ==
  ASSUME NEW k \in AllKinds \ {"none"}, NEW s \in Steps(k) \ {"end"}
  PROVE  /\ OnError(k, s) \in Steps(k) /\ OnError(k, s) \in {"rollback", "close", "end"}
         /\ OnError(k, s) = "close" <=> k = "managed" /\ s = "work"
         /\ OnError(k, s) = "rollback" <=>
              \/ k \in Transactional /\ s \in {"work", "commit"}
              \/ k = "decorated" /\ s = "begin"
BY DEF OnError, AllKinds, Transactional, Wrapped, Steps, Recorded

-----------------------------------------------------------------------------
(* Types                                                                   *)

\* Entering a step keeps the types.
LEMMA EnterTypes ==
  ASSUME TypeOK, NEW t \in Tasks, NEW s \in Step, NEW bad \in BOOLEAN, Enter(t, s, bad)
  PROVE  /\ at' \in [Tasks -> Step] /\ phase' \in [Tasks -> Phase]
         /\ outcome' \in [Tasks -> {"none", "failing", "resolved", "rejected"}]
BY DEF TypeOK, Enter, Phase

\* The steps of a kind are steps.
LEMMA StepsAreSteps == \A k \in AllKinds : Steps(k) \subseteq Step
BY DEF Steps, AllKinds, Transactional, Wrapped, Recorded, Step

\* A call that has begun has a kind, and is at a step of that kind.
LEMMA HasBegun ==
  ASSUME TypeOK, NEW t \in Tasks, Place(t), at[t] # "idle"
  PROVE  kind[t] \in AllKinds \ {"none"} /\ at[t] \in Steps(kind[t])
BY DEF TypeOK, Place, Steps, AllKinds, Transactional, Wrapped

\* The count of faults stays within its bound.
LEMMA FaultCounts ==
  ASSUME TypeOK, Fault
  PROVE  faults' \in 0..MaxFaults
BY SessionsAssumption DEF TypeOK, Fault

\* What is current has its type.
LEMMA CurrentTypes ==
  ASSUME TypeOK, NEW t \in Tasks
  PROVE  /\ Current(t) \in Request /\ Present(t) \in Attempt
         /\ \A c \in Conns : Given(Current(t), c) \in Statement
BY DEF TypeOK, Current, Present, Given, Request, Attempt, Statement

\* A statement is of a request, of an attempt.
LEMMA StatementTypes ==
  ASSUME NEW q \in Statement
  PROVE  /\ q.task \in Tasks /\ q.try \in 1..MaxTries /\ q.step \in Step /\ q.conn \in Conns
         /\ AttemptOf(q) \in Attempt /\ RequestOf(q) \in Request
BY DEF AttemptOf, RequestOf, Request, Attempt, Statement

\* Every step of a call keeps the types.
LEMMA TaskTypes ==
  ASSUME TypeOK, CallInv, NEW t \in Tasks, TaskStep(t)
  PROVE  TypeOK'
<1> USE DEF leaseVars, serverVars, historyVars, taskVars
<1>0. Place(t)
  BY DEF CallInv
<1>1. ASSUME NEW k \in Kinds, Start(t, k) PROVE TypeOK'
  <2>1. Head(Program(k)) \in Step
    BY KindsAssumption, FirstStep, StepsAreSteps
  <2> QED
    BY <1>1, <2>1, EnterTypes, KindsAssumption DEF Start, TypeOK
<1>2. CASE StartChecked(t)
  <2>1. \E s \in Step, bad \in BOOLEAN : Enter(t, s, bad)
    BY <1>2 DEF StartChecked, Step
  <2> QED
    BY <1>2, <2>1, EnterTypes DEF StartChecked, TypeOK, AllKinds
<1>3. CASE Retry(t)
  <2>1. Head(Program(kind[t])) \in Step
    <3>1. at[t] # "idle"
      BY <1>3 DEF Retry
    <3> QED
      BY <1>0, <3>1, HasBegun, FirstStep, StepsAreSteps
  <2>2. tries' \in [Tasks -> 1..MaxTries]
    BY <1>3, SessionsAssumption DEF Retry, TypeOK
  <2> QED
    BY <1>3, <2>1, <2>2 DEF Retry, TypeOK
<1>4. CASE Ask(t) \/ Poll(t)
  BY <1>4 DEF Ask, Poll, TypeOK, Phase, NoteOverlap
<1>5. CASE BeginNested(t)
  <2>1. "work" \in Step
    BY DEF Step
  <2> QED
    BY <1>5, <2>1, EnterTypes DEF BeginNested, TypeOK, NoteOverlap
<1>6. ASSUME NEW c \in Conns, Grant(t, c) PROVE TypeOK'
  <2>1. phase' \in [Tasks -> Phase]
    BY <1>6 DEF Grant, TypeOK, Phase
  <2>2. lease' \in [Tasks -> Conns \cup {NoConn}] /\ outer' \in [Tasks -> Conns \cup {NoConn}]
    BY <1>6 DEF Grant, TypeOK
  <2>3. lost' \subseteq Statement /\ flight' \subseteq Statement
    BY <1>6, CurrentTypes DEF Grant, TypeOK
  <2> QED
    BY <1>6, <2>1, <2>2, <2>3 DEF Grant, TypeOK
<1>7. CASE Refuse(t) \/ RaceTimeout(t)
  <2>1. faults' \in 0..MaxFaults /\ phase' \in [Tasks -> Phase] /\ connected' \in BOOLEAN
    BY <1>7, FaultCounts DEF Refuse, RaceTimeout, TypeOK, Phase
  <2>2. overdue' \subseteq Request /\ raced' \subseteq Request
    BY <1>7, CurrentTypes DEF Refuse, RaceTimeout, TypeOK
  <2> QED
    BY <1>7, <2>1, <2>2 DEF Refuse, RaceTimeout, TypeOK
<1>8. CASE GiveBack(t)
  BY <1>8 DEF GiveBack, TypeOK
<1>9. CASE QueryTimeout(t)
  BY <1>9, FaultCounts, CurrentTypes DEF QueryTimeout, TypeOK, Phase
<1>10. CASE Proceed(t)
  <2>1. After(kind[t], at[t]) \in Step
    <3>1. at[t] # "idle" /\ at[t] # "end"
      BY <1>0, <1>10 DEF Proceed, Settled, Place
    <3> QED
      BY <1>0, <3>1, HasBegun, AfterIsSuccessor DEF Successor, Step
  <2> QED
    BY <1>10, <2>1, EnterTypes DEF Proceed, TypeOK
<1>11. CASE MethodThrows(t)
  <2>1. OnError(kind[t], "work") \in Step
    BY DEF OnError, Step
  <2> QED
    BY <1>11, <2>1, EnterTypes, FaultCounts DEF MethodThrows, TypeOK
<1>12. CASE Fail(t)
  <2>1. OnError(kind[t], at[t]) \in Step
    BY DEF OnError, Step
  <2> QED
    BY <1>12, <2>1, EnterTypes DEF Fail, TypeOK
<1>13. CASE CloseOuter(t)
  BY <1>13 DEF CloseOuter, TypeOK, Phase
<1>14. CASE OuterClosed(t)
  BY <1>14 DEF OuterClosed, TypeOK, Phase
<1>15. CASE Look(t)
  BY <1>15 DEF Look, TypeOK, Phase
<1>16. CASE Report(t)
  BY <1>16 DEF Report, TypeOK, Phase
<1> QED
  BY <1>1, <1>2, <1>3, <1>4, <1>5, <1>6, <1>7, <1>8, <1>9, <1>10, <1>11, <1>12, <1>13,
     <1>14, <1>15, <1>16 DEF TaskStep

\* So does the database.
LEMMA ExecuteTypes ==
  ASSUME TypeOK, NEW q \in flight, Execute(q)
  PROVE  TypeOK'
<1>1. q \in Statement
  BY DEF TypeOK
<1>2. q.task \in Tasks /\ q.conn \in Conns /\ AttemptOf(q) \in Attempt
  BY <1>1, StatementTypes
<1>3. phase' \in [Tasks -> Phase]
  BY <1>2 DEF Execute, Answer, TypeOK, Phase
<1>4. /\ inTransaction' \in [Conns -> BOOLEAN] /\ uncommitted' \in [Conns -> SUBSET Attempt]
      /\ durable' \subseteq Attempt
  <2>1. CASE Run(q)
    <3>1. inTransaction' \in [Conns -> BOOLEAN]
      BY <1>2, <2>1 DEF Run, TypeOK
    <3>2. uncommitted[q.conn] \cup (IF q.step = "work" THEN {AttemptOf(q)} ELSE {})
            \in SUBSET Attempt
      BY <1>2 DEF TypeOK
    <3> QED
      BY <1>2, <2>1, <3>1, <3>2 DEF Run, TypeOK
  <2>2. CASE UNCHANGED <<inTransaction, uncommitted, durable>>
    BY <2>2 DEF TypeOK
  <2> QED
    BY <2>1, <2>2 DEF Execute
<1>5. flight' \subseteq Statement /\ executed' \subseteq Statement
  BY <1>1 DEF Execute, TypeOK
<1>6. faults' \in 0..MaxFaults
  BY FaultCounts DEF Execute, TypeOK
<1> QED
  BY <1>3, <1>4, <1>5, <1>6 DEF Execute, leaseVars, TypeOK

\* What happens to no call: the state moves, the pool comes or goes, or it settles a
\* request nobody awaits.
Elsewhere ==
  \/ StateMoves \/ PoolReady \/ PoolDrained
  \/ \E q \in overdue : LateRefuse(q) \/ \E c \in Conns : LateGrant(q, c)

\* A step is one of a call, of the database, or of neither.
LEMMA NextIs ==
  Next <=> \/ \E t \in Tasks : TaskStep(t)
           \/ \E q \in flight : Execute(q)
           \/ Elsewhere
BY Zenon DEF Next, Elsewhere

\* So does everybody else.
LEMMA ElsewhereTypes ==
  ASSUME TypeOK, Elsewhere
  PROVE  TypeOK'
<1> USE DEF taskVars, leaseVars, serverVars, historyVars
<1>1. CASE StateMoves \/ PoolReady \/ PoolDrained
  BY <1>1, FaultCounts DEF StateMoves, PoolReady, PoolDrained, TypeOK
<1>2. ASSUME NEW q \in overdue, LateRefuse(q) PROVE TypeOK'
  BY <1>2 DEF LateRefuse, TypeOK
<1>3. ASSUME NEW q \in overdue, NEW c \in Conns, LateGrant(q, c) PROVE TypeOK'
  <2>1. Given(q, c) \in Statement
    BY DEF TypeOK, Given, Request, Statement
  <2> QED
    BY <1>3, <2>1 DEF LateGrant, TypeOK
<1> QED
  BY <1>1, <1>2, <1>3 DEF Elsewhere

-----------------------------------------------------------------------------
(* One call                                                                *)

\* All that CallInv says of one call.
Own(t) ==
  /\ Place(t) /\ Holding(t) /\ Ahead(t)
  /\ \A q \in flight : q.task = t => Awaited(q)
  /\ \A q \in executed : q.task = t => Behind(q)

\* The other calls are where they were.
Others(t) ==
  \A u \in Tasks \ {t} :
    /\ kind'[u] = kind[u] /\ at'[u] = at[u] /\ phase'[u] = phase[u]
    /\ tries'[u] = tries[u] /\ outcome'[u] = outcome[u]
    /\ lease'[u] = lease[u] /\ outer'[u] = outer[u]

\* CallInv, call by call.
LEMMA CallByCall == ASSUME TypeOK PROVE CallInv <=> (\A t \in Tasks : Own(t)) /\ Single
BY DEF CallInv, Own, TypeOK, Statement

\* A call that is left alone keeps its part: no statement of it is sent or run, and
\* nobody takes its history back.
LEMMA OwnKept ==
  ASSUME NEW t \in Tasks, NEW u \in Tasks \ {t}, Others(t), Own(u),
         \A q \in flight' : q.task = u => q \in flight,
         \A q \in executed' : q.task = u => q \in executed,
         executed \subseteq executed', timedOut \subseteq timedOut'
  PROVE  Own(u)'
<1>1. Place(u)' /\ Holding(u)'
  BY DEF Others, Own, Place, Holding
<1>2. Ahead(u)'
  BY DEF Others, Own, Ahead, Done, Ran
<1>3. \A q \in flight' : q.task = u => Awaited(q)'
  BY DEF Others, Own, Awaited
<1>4. \A q \in executed' : q.task = u => Behind(q)'
  BY DEF Others, Own, Behind
<1> QED
  BY <1>1, <1>2, <1>3, <1>4 DEF Own

\* A step of call t that neither sends nor runs a statement.
LEMMA CalmStep ==
  ASSUME TypeOK, TypeOK', CallInv, NEW t \in Tasks, Others(t), Own(t)',
         UNCHANGED <<flight, executed>>, timedOut \subseteq timedOut'
  PROVE  CallInv'
<1>1. \A u \in Tasks : Own(u)'
  BY CallByCall, OwnKept
<1>2. Single'
  BY DEF CallInv, Single
<1> QED
  BY <1>1, <1>2 DEF CallInv, Own, TypeOK, Statement

\* What Enter() does.
LEMMA Entered ==
  ASSUME TypeOK, NEW t \in Tasks, NEW s, NEW bad \in BOOLEAN, Enter(t, s, bad)
  PROVE  /\ at'[t] = s /\ phase'[t] = "ready"
         /\ s = "end" => outcome'[t] = IF bad \/ outcome[t] = "failing"
                                        THEN "rejected" ELSE "resolved"
         /\ s # "end" => outcome'[t] = IF bad THEN "failing" ELSE outcome[t]
         /\ \A u \in Tasks \ {t} :
              at'[u] = at[u] /\ phase'[u] = phase[u] /\ outcome'[u] = outcome[u]
<1>1. /\ at'[t] = s /\ phase'[t] = "ready"
      /\ \A u \in Tasks \ {t} :
           at'[u] = at[u] /\ phase'[u] = phase[u] /\ outcome'[u] = outcome[u]
  BY DEF TypeOK, Enter
<1>2. outcome'[t] =
        CASE s = "end" -> IF bad \/ outcome[t] = "failing" THEN "rejected" ELSE "resolved"
          [] s # "end" -> IF bad THEN "failing" ELSE outcome[t]
  BY Zenon DEF TypeOK, Enter
<1>3. s = "end" => outcome'[t] = IF bad \/ outcome[t] = "failing" THEN "rejected" ELSE "resolved"
  BY <1>2
<1>4. s # "end" => outcome'[t] = IF bad THEN "failing" ELSE outcome[t]
  BY <1>2
<1> QED
  BY <1>1, <1>3, <1>4

\* A call goes on from a step that has succeeded.
LEMMA ProceedCalm ==
  ASSUME TypeOK, TypeOK', CallInv, NEW t \in Tasks, Proceed(t)
  PROVE  CallInv'
<1> USE DEF leaseVars, serverVars, historyVars
<1>1. Own(t)
  BY CallByCall
<1>2. /\ phase[t] = "ok" /\ lease[t] = NoConn
      /\ at[t] \in Steps(kind[t]) \ {"end", "idle"} /\ kind[t] \in AllKinds \ {"none"}
  <2>1. phase[t] = "ok" /\ lease[t] = NoConn /\ at[t] \notin {"idle", "end"}
    BY <1>1 DEF Proceed, Settled, Own, Place
  <2> QED
    BY <1>1, <2>1, HasBegun DEF Own
<1>3. After(kind[t], at[t]) = Successor(kind[t], at[t])
  BY <1>2, AfterIsSuccessor
<1>4. /\ at'[t] = Successor(kind[t], at[t]) /\ phase'[t] = "ready"
      /\ at'[t] = "end" => outcome'[t] = IF outcome[t] = "failing"
                                          THEN "rejected" ELSE "resolved"
      /\ at'[t] # "end" => outcome'[t] = outcome[t]
      /\ Others(t)
  BY <1>3, Entered DEF Proceed, Others
<1>5. /\ UNCHANGED <<kind, tries, lease, outer, flight, executed, timedOut>>
  BY DEF Proceed
<1>6. Place(t)'
  BY <1>1, <1>2, <1>4, <1>5
  DEF Own, Place, Successor, Steps, AllKinds, Transactional, Wrapped, Recorded
<1>7. Holding(t)'
  BY <1>1, <1>2, <1>4, <1>5
  DEF Own, Holding, Successor, Steps, AllKinds, Transactional, Wrapped, Recorded
<1>8. Ahead(t)'
  BY <1>1, <1>2, <1>4, <1>5
  DEF Own, Ahead, Place, Successor, Steps, Transactional, Wrapped, Recorded, Done, Ran
<1>9. \A q \in flight' : q.task = t => Awaited(q)'
  BY <1>1, <1>2, <1>5 DEF Own, Awaited
<1>10. \A q \in executed' : q.task = t => Behind(q)'
  BY <1>1, <1>2, <1>4, <1>5
  DEF Own, Behind, Place, Successor, Steps, AllKinds, Transactional, Wrapped, Recorded
<1> QED
  BY <1>4, <1>5, <1>6, <1>7, <1>8, <1>9, <1>10, CalmStep DEF Own

\* The statements of a call that waits for none are no longer its concern.
LEMMA NothingAwaited ==
  ASSUME NEW t \in Tasks, Own(t), phase[t] # "pending",
         kind'[t] = kind[t], tries'[t] = tries[t],
         UNCHANGED <<flight, timedOut>>
  PROVE  \A q \in flight' : q.task = t => Awaited(q)'
BY DEF Own, Awaited

\* An error takes a call to its rollback, to its close or to its end.
LEMMA ThrowCalm ==
  ASSUME TypeOK, TypeOK', CallInv, NEW t \in Tasks,
         MethodThrows(t) \/ Fail(t)
  PROVE  CallInv'
<1> USE DEF leaseVars, serverVars, historyVars
<1>1. Own(t)
  BY CallByCall
<1>2. /\ lease[t] = NoConn /\ phase[t] # "pending"
      /\ phase[t] = "failed" \/ (phase[t] = "ok" /\ at[t] = "work" /\ kind[t] # "plain")
      /\ at[t] \in Steps(kind[t]) \ {"end", "idle"} /\ kind[t] \in AllKinds \ {"none"}
  <2>1. /\ lease[t] = NoConn /\ at[t] \notin {"idle", "end"}
        /\ phase[t] = "failed" \/ (phase[t] = "ok" /\ at[t] = "work" /\ kind[t] # "plain")
    BY <1>1 DEF MethodThrows, Fail, Settled, Own, Place, Transactional, Wrapped
  <2> QED
    BY <1>1, <2>1, HasBegun DEF Own
<1> DEFINE s == OnError(kind[t], at[t])
           bad == at[t] # "details"
<1>3. /\ s \in Steps(kind[t]) /\ s \in {"rollback", "close", "end"}
      /\ s = "close" <=> kind[t] = "managed" /\ at[t] = "work"
      /\ s = "rollback" <=> \/ kind[t] \in Transactional /\ at[t] \in {"work", "commit"}
                            \/ kind[t] = "decorated" /\ at[t] = "begin"
  BY <1>2, WhenItThrows
<1> HIDE DEF s
<1>4. Enter(t, s, bad)
  BY DEF MethodThrows, Fail, Settled, s
<1>5. /\ at'[t] = s /\ phase'[t] = "ready"
      /\ s = "end" => outcome'[t] = IF bad \/ outcome[t] = "failing"
                                     THEN "rejected" ELSE "resolved"
      /\ s # "end" => outcome'[t] = "failing"
      /\ Others(t)
  <2>1. s # "end" => bad
    BY <1>3
  <2> QED
    BY <1>4, <2>1, Entered DEF MethodThrows, Fail, Others
<1>6. UNCHANGED <<kind, tries, lease, outer, flight, executed, timedOut>>
  BY DEF MethodThrows, Fail
<1>7. Place(t)'
  BY <1>1, <1>2, <1>3, <1>5, <1>6 DEF Own, Place
<1>8. Holding(t)'
  BY <1>1, <1>2, <1>3, <1>5, <1>6
  DEF Own, Holding, Steps, AllKinds, Transactional, Wrapped, Recorded
<1>9. Ahead(t)'
  <2>1. kind[t] \in Wrapped => outcome'[t] # "resolved"
    BY <1>2, <1>5 DEF Steps, Wrapped, Recorded
  <2> QED
    BY <1>3, <1>5, <1>6, <2>1 DEF Ahead
<1>10. \A q \in flight' : q.task = t => Awaited(q)'
  BY <1>1, <1>2, <1>6, NothingAwaited
<1>11. \A q \in executed' : q.task = t => Behind(q)'
  <2> SUFFICES ASSUME NEW q \in executed, q.task = t, AttemptOf(q) \notin timedOut, q.try = tries[t]
               PROVE  Behind(q)'
    <3> SUFFICES ASSUME NEW q \in executed, q.task = t,
                        AttemptOf(q) \in timedOut \/ q.try # tries[t]
                 PROVE  Behind(q)'
      BY <1>6
    <3>1. Behind(q)
      BY <1>1 DEF Own
    <3>2. AttemptOf(q) \in timedOut \/ (q.try < tries[t] /\ q.step # "commit" /\ kind[t] # "plain")
      BY <3>1 DEF Behind
    <3>3. kind'[t] = kind[t] /\ tries'[t] = tries[t] /\ timedOut' = timedOut
      BY <1>6
    <3> QED
      BY <3>1, <3>2, <3>3 DEF Behind
  <2>1. Behind(q) /\ tries[t] \in Nat
    BY <1>1 DEF Own, TypeOK
  <2>2. /\ q.step \in Recorded /\ q.step \in Steps(kind[t])
        /\ (q.step = "begin" /\ at[t] \in {"work", "commit", "rollback"})
             \/ (q.step = "work" /\ (at[t] = "work" \/ at[t] \in {"commit", "rollback", "close"}))
    BY <1>2, <2>1 DEF Behind
  <2>3. q.step = "begin" => at'[t] \in {"rollback", "end"} /\ kind[t] \notin {"plain", "managed"}
    BY <1>2, <1>3, <1>5, <2>2
    DEF Steps, AllKinds, Transactional, Wrapped, Recorded
  <2>4. q.step = "work" => at'[t] \in {"rollback", "close", "end"} /\ kind[t] # "plain"
    BY <1>2, <1>3, <1>5, <2>1, <2>2
    DEF Behind, Steps, AllKinds, Transactional, Wrapped, Recorded
  <2> QED
    BY <1>6, <2>1, <2>2, <2>3, <2>4 DEF Behind
<1> QED
  BY <1>5, <1>6, <1>7, <1>8, <1>9, <1>10, <1>11, CalmStep DEF Own

\* A call begins.
LEMMA StartCalm ==
  ASSUME TypeOK, TypeOK', CallInv, NEW t \in Tasks,
         (\E k \in Kinds : Start(t, k)) \/ StartChecked(t)
  PROVE  CallInv'
<1> USE DEF leaseVars, serverVars, historyVars
<1>1. Own(t)
  BY CallByCall
<1>2. at[t] = "idle" /\ phase[t] = "ready" /\ outcome[t] = "none" /\ kind[t] = "none"
  <2>1. at[t] = "idle" /\ at[t] \in Steps(kind[t]) /\ kind[t] \in AllKinds
    BY <1>1 DEF Own, Place, Start, StartChecked, TypeOK
  <2>2. kind[t] = "none"
    BY <2>1 DEF Steps, AllKinds, Transactional, Wrapped, Recorded
  <2> QED
    BY <1>1, <2>1, <2>2 DEF Own, Place, Steps, Wrapped
<1> DEFINE Begins(k, s, bad) ==
             /\ s \in Steps(k)
             /\ kind' = [kind EXCEPT ![t] = k] /\ Enter(t, s, bad)
             /\ \/ s \in {"begin", "isolation", "manage", "probe", "work", "look"} /\ ~bad
                \/ s = "end" /\ bad /\ k = "plain"
             /\ k \in Wrapped => s = "begin"
             /\ s = "work" => k = "plain"
<1>3. PICK k \in AllKinds \ {"none"}, s \in Step, bad \in BOOLEAN : Begins(k, s, bad)
  <2>1. ASSUME NEW k \in Kinds, Start(t, k)
        PROVE  \E j \in AllKinds \ {"none"}, s \in Step, bad \in BOOLEAN : Begins(j, s, bad)
    <3>1. k \in AllKinds \ {"none"}
      BY KindsAssumption
    <3>2. Begins(k, Head(Program(k)), FALSE) /\ Head(Program(k)) \in Step
      BY <2>1, <3>1, FirstStep, StepsAreSteps DEF Start
    <3> QED
      BY <3>1, <3>2
  <2>2. CASE StartChecked(t)
    <3>1. "plain" \in AllKinds \ {"none"} /\ "plain" \notin Wrapped
      BY DEF AllKinds, Wrapped
    <3>2. "work" \in Steps("plain") /\ "end" \in Steps("plain")
      BY DEF Steps, Wrapped
    <3>3. Begins("plain", "work", FALSE) \/ Begins("plain", "end", TRUE)
      BY <2>2, <3>1, <3>2 DEF StartChecked
    <3> QED
      BY <3>1, <3>2, <3>3, StepsAreSteps
  <2> QED
    BY <2>1, <2>2
<1>4. /\ at'[t] = s /\ phase'[t] = "ready" /\ kind'[t] = k
      /\ outcome'[t] = IF s = "end" THEN "rejected" ELSE "none"
      /\ Others(t) /\ UNCHANGED <<tries, lease, outer, flight, executed, timedOut>>
  <2>1. UNCHANGED <<tries, lease, outer, flight, executed, timedOut>>
    BY DEF Start, StartChecked
  <2>2. kind'[t] = k /\ \A u \in Tasks \ {t} : kind'[u] = kind[u]
    BY <1>3 DEF TypeOK
  <2>3. /\ at'[t] = s /\ phase'[t] = "ready"
        /\ outcome'[t] = IF s = "end" THEN "rejected" ELSE "none"
        /\ \A u \in Tasks \ {t} :
             at'[u] = at[u] /\ phase'[u] = phase[u] /\ outcome'[u] = outcome[u]
    BY <1>2, <1>3, Entered
  <2> QED
    BY <2>1, <2>2, <2>3 DEF Others
<1>5. Place(t)'
  BY <1>3, <1>4 DEF Place
<1>6. Holding(t)'
  BY <1>1, <1>2, <1>4 DEF Own, Holding, Sent, Recorded
<1>7. Ahead(t)'
  BY <1>3, <1>4 DEF Ahead
<1>8. \A q \in flight' : q.task = t => Awaited(q)'
  BY <1>1, <1>2, <1>4 DEF Own, Awaited, Sent, Recorded, Steps, Wrapped
<1>9. \A q \in executed' : q.task = t => Behind(q)'
  BY <1>1, <1>2, <1>4 DEF Own, Behind, Recorded, Steps, Wrapped
<1> QED
  BY <1>4, <1>5, <1>6, <1>7, <1>8, <1>9, CalmStep DEF Own

\* A retry: the attempt that was rejected has not committed, and what it has in
\* flight it has given up on.
LEMMA RetryCalm ==
  ASSUME TypeOK, TypeOK', CallInv, NEW t \in Tasks, Retry(t)
  PROVE  CallInv'
<1> USE DEF leaseVars, serverVars, historyVars
<1>1. Own(t)
  BY CallByCall
<1>2. /\ at[t] = "end" /\ outcome[t] = "rejected" /\ phase[t] = "ready"
      /\ kind[t] \in AllKinds \ {"none"} /\ kind[t] # "health"
  <2>1. at[t] = "end" /\ outcome[t] = "rejected" /\ phase[t] = "ready" /\ kind[t] # "health"
    BY <1>1 DEF Retry, Own, Place
  <2> QED
    BY <1>1, <2>1, HasBegun DEF Own
<1> DEFINE s == Head(Program(kind[t]))
<1>3. /\ s \in Steps(kind[t]) /\ s \in {"begin", "isolation", "manage", "probe", "work", "look"}
      /\ kind[t] \in Wrapped => s = "begin"
  BY <1>2, FirstStep
<1>4. /\ at'[t] = s /\ outcome'[t] = "none" /\ tries'[t] = tries[t] + 1
      /\ UNCHANGED <<kind, phase, lease, outer, flight, executed, timedOut>>
      /\ Others(t)
  BY DEF Retry, Others, TypeOK
<1> HIDE DEF s
<1>5. Place(t)' /\ Ahead(t)'
  BY <1>2, <1>3, <1>4 DEF Place, Ahead
<1>6. Holding(t)'
  BY <1>1, <1>2, <1>4 DEF Own, Holding, Sent, Recorded
<1>7. tries[t] \in Nat
  BY DEF TypeOK
<1>8. \A q \in flight' : q.task = t => Awaited(q)'
  <2> SUFFICES ASSUME NEW q \in flight, q.task = t PROVE Awaited(q)'
    BY <1>4
  <2>1. q.step \in Sent /\ q.step \in Steps(kind[t]) /\ q.try <= tries[t] /\ AttemptOf(q) \in timedOut
    BY <1>1, <1>2 DEF Own, Awaited
  <2>2. q.try \in Nat
    BY DEF TypeOK, Statement
  <2> QED
    BY <1>4, <1>7, <2>1, <2>2 DEF Awaited
<1>9. \A q \in executed' : q.task = t => Behind(q)'
  <2> SUFFICES ASSUME NEW q \in executed, q.task = t PROVE Behind(q)'
    BY <1>4
  <2>1. Behind(q) /\ q.try \in Nat
    BY <1>1 DEF Own, TypeOK, Statement
  <2>2. /\ q.step \in Recorded /\ q.step \in Steps(kind[t]) /\ q.try <= tries[t]
        /\ AttemptOf(q) \in timedOut \/ (q.step # "commit" /\ kind[t] # "plain")
    BY <1>2, <2>1 DEF Behind, Steps, Wrapped
  <2> QED
    BY <1>4, <1>7, <2>1, <2>2 DEF Behind
<1> QED
  BY <1>4, <1>5, <1>6, <1>8, <1>9, CalmStep DEF Own

\* A second beginTransaction() goes straight to the work.
LEMMA BeginNestedCalm ==
  ASSUME TypeOK, TypeOK', CallInv, NEW t \in Tasks, BeginNested(t)
  PROVE  CallInv'
<1> USE DEF leaseVars, serverVars
<1>1. Own(t)
  BY CallByCall
<1>2. /\ kind[t] = "manager" /\ at[t] = "isolation" /\ phase[t] = "ready"
      /\ outcome[t] = "none"
  BY <1>1 DEF BeginNested, Own, Place
<1>3. /\ at'[t] = "work" /\ phase'[t] = "ready" /\ outcome'[t] = "none"
      /\ UNCHANGED <<kind, tries, lease, outer, flight, executed, timedOut>>
      /\ Others(t)
  BY ZenonT(60), <1>2, Entered DEF BeginNested, Others
<1>4. Place(t)' /\ Ahead(t)'
  BY <1>2, <1>3 DEF Place, Ahead, Steps, Wrapped, Recorded
<1>5. Holding(t)'
  BY <1>1, <1>2, <1>3 DEF Own, Holding
<1>6. \A q \in flight' : q.task = t => Awaited(q)'
  BY <1>1, <1>2, <1>3, NothingAwaited
<1>7. \A q \in executed' : q.task = t => Behind(q)'
  BY <1>1, <1>2, <1>3 DEF Own, Behind, Recorded
<1> QED
  BY <1>3, <1>4, <1>5, <1>6, <1>7, CalmStep DEF Own

\* A step of call t that changes no more than how far its step is.
LEMMA PhaseCalm ==
  ASSUME TypeOK, TypeOK', CallInv, NEW t \in Tasks, NEW a,
         phase' = [phase EXCEPT ![t] = a],
         a # phase[t], phase[t] # "pending" \/ Present(t) \in timedOut' \/ at[t] \notin Sent,
         phase[t] # "ok", a = "ok" => kind[t] \notin Wrapped /\ at[t] \notin Recorded,
         at[t] \notin {"idle", "end"},
         at[t] = "close" => a \in {"ready", "pending", "ok"},
         at[t] = "manage" => a \notin {"pending", "polling"},
         at[t] = "look" => a \notin {"asking", "polling"},
         a \in {"pending", "ok", "failed"} \/ lease[t] = NoConn,
         at[t] = "close" => a = "pending" \/ (a = "ok" /\ outer'[t] = NoConn),
         at[t] = "manage" => outer'[t] = NoConn \/ a = "ok",
         outer'[t] = outer[t] \/ outer'[t] = NoConn \/ at[t] = "manage",
         \A u \in Tasks \ {t} : outer'[u] = outer[u],
         UNCHANGED <<kind, at, tries, outcome, lease, flight, executed>>,
         timedOut \subseteq timedOut'
  PROVE  CallInv'
<1>1. Own(t)
  BY CallByCall
<1>2. phase'[t] = a /\ \A u \in Tasks \ {t} : phase'[u] = phase[u]
  BY DEF TypeOK
<1>3. Others(t)
  BY <1>2 DEF Others
<1>4. Place(t)'
  BY <1>1, <1>2 DEF Own, Place
<1>5. Holding(t)'
  BY <1>1, <1>2 DEF Own, Holding, Sent, Recorded
<1>6. Ahead(t)'
  BY <1>1, <1>2 DEF Own, Ahead, Done, Ran
<1>7. \A q \in flight' : q.task = t => Awaited(q)'
  BY <1>1, <1>2 DEF Own, Awaited, AttemptOf, Present
<1>8. \A q \in executed' : q.task = t => Behind(q)'
  BY <1>1, <1>2 DEF Own, Behind
<1> QED
  BY <1>3, <1>4, <1>5, <1>6, <1>7, <1>8, CalmStep DEF Own

\* The steps of a call that only tell how far its step is.
LEMMA WaitCalm ==
  ASSUME TypeOK, TypeOK', CallInv, NEW t \in Tasks,
         Ask(t) \/ Poll(t) \/ Refuse(t) \/ RaceTimeout(t) \/ QueryTimeout(t) \/ CloseOuter(t)
         \/ OuterClosed(t) \/ Look(t) \/ Report(t)
  PROVE  CallInv'
<1> USE DEF leaseVars, serverVars, historyVars
<1>1. Own(t)
  BY CallByCall
<1>2. at[t] \in {"close", "look"} => kind[t] \notin Wrapped
  BY <1>1 DEF Own, Place, Steps, Recorded, Wrapped
<1>3. CASE Ask(t) \/ Poll(t)
  <2>1. /\ phase[t] \in {"ready", "polling"} /\ at[t] \notin {"idle", "close", "look", "end"}
        /\ UNCHANGED <<kind, at, tries, outcome, lease, outer, flight, executed, timedOut>>
    BY <1>1, <1>3 DEF Ask, Poll, Own, Place
  <2>2. lease[t] = NoConn /\ (outer[t] # NoConn => at[t] = "work")
    BY <1>1, <2>1 DEF Own, Holding
  <2>3. PICK a \in {"failed", "asking", "polling"} :
          phase' = [phase EXCEPT ![t] = a] /\ a # phase[t] /\ (at[t] = "manage" => a # "polling")
    BY <1>3 DEF Ask, Poll
  <2> QED
    BY <2>1, <2>2, <2>3, PhaseCalm
<1>4. CASE Refuse(t) \/ RaceTimeout(t)
  <2>1. phase[t] = "asking" /\ phase' = [phase EXCEPT ![t] = "failed"]
        /\ UNCHANGED <<kind, at, tries, outcome, lease, outer, flight, executed, timedOut>>
    BY <1>4 DEF Refuse, RaceTimeout
  <2>2. lease[t] = NoConn /\ at[t] \notin {"idle", "end", "close", "look"}
        /\ (at[t] = "manage" => outer[t] = NoConn)
    BY <1>1, <2>1 DEF Own, Holding, Place
  <2> QED
    BY <2>1, <2>2, PhaseCalm
<1>5. CASE QueryTimeout(t)
  <2>1. at[t] \notin {"idle", "end", "close", "look", "manage"}
    BY <1>1, <1>5 DEF QueryTimeout, Own, Place
  <2> QED
    BY <1>5, <2>1, PhaseCalm DEF QueryTimeout
<1>6. CASE CloseOuter(t)
  <2>1. phase[t] = "ready" /\ at[t] = "close" /\ "close" \notin Sent
    BY <1>6 DEF CloseOuter, Sent, Recorded
  <2> QED
    BY <1>6, <2>1, PhaseCalm DEF CloseOuter
<1>7. CASE OuterClosed(t)
  <2>1. phase[t] = "pending" /\ at[t] = "close" /\ "close" \notin Sent
    BY <1>7 DEF OuterClosed, Sent, Recorded
  <2>2. outer'[t] = NoConn /\ \A u \in Tasks \ {t} : outer'[u] = outer[u]
    BY <1>7 DEF OuterClosed, TypeOK
  <2> QED
    BY <1>2, <1>7, <2>1, <2>2, PhaseCalm DEF OuterClosed, Sent
<1>8. CASE Look(t)
  <2>1. at[t] = "look" /\ phase[t] = "ready" /\ "look" \notin Sent /\ outer[t] = NoConn
    BY <1>1, <1>8 DEF Look, Sent, Recorded, Own, Holding
  <2>2. PICK a \in {"failed", "pending"} : phase' = [phase EXCEPT ![t] = a]
    BY <1>8 DEF Look
  <2> QED
    BY <1>8, <2>1, <2>2, PhaseCalm DEF Look
<1>9. CASE Report(t)
  <2>1. at[t] = "look" /\ phase[t] = "pending" /\ "look" \notin Sent /\ outer[t] = NoConn
    BY <1>1, <1>9 DEF Report, Sent, Recorded, Own, Holding
  <2>2. PICK a \in {"failed", "ok"} : phase' = [phase EXCEPT ![t] = a]
    BY <1>9 DEF Report
  <2> QED
    BY <1>2, <1>9, <2>1, <2>2, PhaseCalm DEF Report, Sent
<1> QED
  BY <1>3, <1>4, <1>5, <1>6, <1>7, <1>8, <1>9

\* query() gives its connection back.
LEMMA GiveBackCalm ==
  ASSUME TypeOK, TypeOK', CallInv, NEW t \in Tasks, GiveBack(t)
  PROVE  CallInv'
<1> USE DEF taskVars, serverVars, historyVars
<1>1. Own(t)
  BY CallByCall
<1>2. /\ lease'[t] = NoConn /\ Others(t)
      /\ UNCHANGED <<kind, at, phase, tries, outcome, outer, flight, executed, timedOut>>
  BY DEF GiveBack, Others, TypeOK
<1>3. Place(t)' /\ Holding(t)'
  BY <1>1, <1>2 DEF Own, Place, Holding
<1>4. Ahead(t)'
  BY <1>1, <1>2 DEF Own, Ahead, Done, Ran
<1>5. (\A q \in flight' : q.task = t => Awaited(q)') /\ \A q \in executed' : q.task = t => Behind(q)'
  BY <1>1, <1>2 DEF Own, Awaited, Behind
<1> QED
  BY <1>2, <1>3, <1>4, <1>5, CalmStep DEF Own

\* A connection is granted: a statement of the call goes into flight, whose attempt has
\* none there unless it has given up.
LEMMA GrantKept ==
  ASSUME TypeOK, TypeOK', CallInv, NEW t \in Tasks, NEW c \in Conns, Grant(t, c)
  PROVE  CallInv'
<1> USE DEF historyVars
<1>0. PICK new \in Statement : new = Given(Current(t), c)
  BY CurrentTypes
<1>1. Own(t)
  BY CallByCall
<1>2. /\ phase[t] = "asking" /\ at[t] \notin {"idle", "end", "close", "look"}
      /\ lease[t] = NoConn /\ outer[t] # NoConn => at[t] = "work"
      /\ kind[t] \in AllKinds \ {"none"}
  <2>1. phase[t] = "asking" /\ at[t] \notin {"idle", "end", "close", "look"}
    BY <1>1 DEF Grant, Own, Place
  <2> QED
    BY <1>1, <2>1, HasBegun DEF Own, Holding
<1>3. UNCHANGED <<kind, at, tries, outcome, executed, timedOut>>
  BY DEF Grant
<1>4. CASE at[t] = "manage"
  <2>1. UNCHANGED <<lease, flight>> /\ phase' = [phase EXCEPT ![t] = "ok"]
        /\ \A u \in Tasks \ {t} : outer'[u] = outer[u]
    BY <1>4 DEF Grant, TypeOK
  <2>2. kind[t] \notin Wrapped
    BY <1>1, <1>4 DEF Own, Place, Steps, Wrapped, Recorded
  <2> QED
    BY <1>2, <1>3, <1>4, <2>1, <2>2, PhaseCalm DEF Recorded
<1>5. CASE at[t] # "manage"
  <2>1. /\ phase'[t] = "pending" /\ UNCHANGED outer /\ flight' = flight \cup {new}
        /\ Others(t)
    BY <1>0, <1>3, <1>5 DEF Grant, Others, TypeOK
  <2>2. at[t] \in Sent
    BY <1>1, <1>2, <1>5
    DEF Own, Place, Steps, Sent, Recorded, AllKinds, Transactional, Wrapped
  <2>3. Place(t)' /\ Ahead(t)'
    BY <1>1, <1>3, <1>5, <2>1, <2>2 DEF Own, Place, Ahead, Done, Ran, Sent, Recorded
  <2>4. Holding(t)'
    <3>1. at[t] = "details" => lease'[t] = NoConn
      BY <1>1, <1>2, <1>5 DEF Grant, Own, Holding
    <3> QED
      BY <1>1, <1>2, <1>3, <2>1, <2>2, <3>1 DEF Own, Holding
  <2>5. \A q \in flight' : q.task = t => Awaited(q)'
    <3>1. Awaited(new)'
      <4>1. new.task = t /\ new.step = at[t] /\ new.try = tries[t] /\ tries[t] \in Nat
        BY <1>0 DEF Given, Current, TypeOK
      <4> QED
        BY <1>1, <1>3, <2>1, <2>2, <4>1 DEF Own, Place, Awaited
    <3>2. \A q \in flight : q.task = t => AttemptOf(q) \in timedOut
      BY <1>1, <1>2 DEF Own, Awaited
    <3> SUFFICES ASSUME NEW q \in flight', q.task = t PROVE Awaited(q)'
      OBVIOUS
    <3>3. CASE q = new
      BY <3>1, <3>3
    <3>4. CASE q # new
      <4>1. Awaited(q) /\ AttemptOf(q) \in timedOut
        BY <1>1, <2>1, <3>2, <3>4 DEF Own
      <4> QED
        BY <1>3, <4>1 DEF Awaited
    <3> QED
      BY <3>3, <3>4
  <2>6. \A q \in executed' : q.task = t => Behind(q)'
    BY <1>1, <1>2, <1>3, <2>1 DEF Own, Behind
  <2>7. \A u \in Tasks : Own(u)'
    <3>1. ASSUME NEW u \in Tasks \ {t} PROVE Own(u)'
      <4>1. Own(u) /\ new.task = t
        BY <1>0, CallByCall DEF Given, Current
      <4>2. \A q \in flight' : q.task = u => q \in flight
        BY <2>1, <4>1
      <4> QED
        BY <1>3, <2>1, <4>1, <4>2, OwnKept
    <3> QED
      BY <2>3, <2>4, <2>5, <2>6, <3>1 DEF Own
  <2>8. Single'
    <3>1. \A q \in flight : q.task = t => AttemptOf(q) \in timedOut
      BY <1>1, <1>2 DEF Own, Awaited
    <3>2. AttemptOf(new).task = t /\ \A q \in flight : AttemptOf(q).task = q.task
      BY <1>0 DEF AttemptOf, Given, Current
    <3> QED
      BY <1>3, <2>1, <3>1, <3>2 DEF CallInv, Single
  <2> QED
    BY <2>7, <2>8 DEF CallInv, Own, TypeOK, Statement
<1> QED
  BY <1>4, <1>5

\* The database answers a statement: the caller that waits for it is past it, and no
\* other call is concerned.
LEMMA ExecuteKept ==
  ASSUME TypeOK, TypeOK', CallInv, NEW q \in flight, Execute(q)
  PROVE  CallInv'
<1> USE DEF leaseVars
<1> DEFINE t == q.task
<1>1. t \in Tasks /\ q \in Statement
  BY DEF TypeOK, Statement
<1>2. Own(t)
  BY <1>1, CallByCall
<1>3. /\ UNCHANGED <<kind, at, tries, outcome, lease, outer, timedOut>>
      /\ flight' = flight \ {q} /\ executed \subseteq executed'
      /\ executed' \subseteq executed \cup {q}
  BY DEF Execute
<1>4. PICK a \in {"ok", "failed"} :
        /\ Answer(q, a)
        /\ a = "ok" /\ q.step \in Recorded => q \in executed'
        /\ executed' # executed => a = "ok" /\ q.step \in Recorded
  BY DEF Execute, Recorded
<1>5. Awaited(q)
  BY DEF CallInv
<1> DEFINE waits == at[t] = q.step /\ tries[t] = q.try /\ phase[t] = "pending"
<1>6. /\ waits => phase'[t] = a
      /\ ~waits => phase'[t] = phase[t]
      /\ \A u \in Tasks \ {t} : phase'[u] = phase[u]
      /\ ~waits => AttemptOf(q) \in timedOut
  BY <1>1, <1>4, <1>5 DEF Answer, TypeOK, Awaited
<1> HIDE DEF waits
<1>7. Others(t)
  BY <1>3, <1>6 DEF Others
<1>8. waits => at[t] = q.step /\ q.try = tries[t] /\ phase[t] = "pending" /\ at[t] \in Sent
  BY <1>5 DEF waits, Awaited
<1>9. Place(t)'
  BY <1>2, <1>3, <1>6, <1>8 DEF Own, Place, Sent, Recorded
<1>10. Holding(t)'
  BY <1>2, <1>3, <1>6, <1>8 DEF Own, Holding, Sent, Recorded
<1>11. Ahead(t)'
  <2>1. \A s : Done(t, s) => Done(t, s)'
    BY <1>3 DEF Done, Ran
  <2>2. waits /\ a = "ok" /\ at[t] \in Recorded => Done(t, at[t])'
    <3> SUFFICES ASSUME waits, a = "ok", at[t] \in Recorded
                 PROVE  \E r \in executed' : r.task = t /\ r.try = tries'[t] /\ r.step = at'[t]
      BY DEF Done, Ran
    <3> QED
      BY <1>3, <1>4, <1>8
  <2> QED
    BY <1>2, <1>3, <1>6, <1>8, <2>1, <2>2 DEF Own, Ahead
<1>12. \A r \in flight' : r.task = t => Awaited(r)'
  <2> SUFFICES ASSUME NEW r \in flight, r # q, r.task = t PROVE Awaited(r)'
    BY <1>3
  <2>1. Awaited(r)
    BY DEF CallInv
  <2>2. AttemptOf(r) \in timedOut \/ ~waits
    <3> SUFFICES ASSUME AttemptOf(r) \notin timedOut, waits PROVE FALSE
      OBVIOUS
    <3>1. AttemptOf(q) = AttemptOf(r)
      BY <1>8, <2>1 DEF Awaited, AttemptOf
    <3> QED
      BY <3>1 DEF CallInv, Single
  <2> QED
    BY <1>3, <1>6, <2>1, <2>2 DEF Awaited
<1>13. \A r \in executed' : r.task = t => Behind(r)'
  <2>1. ASSUME NEW r \in executed, r.task = t PROVE Behind(r)'
    <3>1. Behind(r)
      BY <2>1 DEF CallInv
    <3>2. waits => phase[t] = "pending"
      BY <1>8
    <3> QED
      BY <1>3, <1>6, <2>1, <3>1, <3>2 DEF Behind
  <2>2. executed' # executed => Behind(q)'
    BY <1>3, <1>4, <1>5, <1>6, <1>8 DEF Behind, Awaited
  <2> QED
    BY <1>3, <2>1, <2>2
<1>14. \A u \in Tasks : Own(u)'
  <2>1. \A u \in Tasks \ {t} : Own(u)'
    BY CallByCall, OwnKept, <1>1, <1>3, <1>7
  <2> QED
    BY <1>9, <1>10, <1>11, <1>12, <1>13, <2>1 DEF Own
<1>15. Single'
  <2> SUFFICES ASSUME executed' # executed, AttemptOf(q) \notin timedOut,
                      NEW r \in executed, AttemptOf(r) = AttemptOf(q), r.step = q.step
               PROVE  FALSE
    BY <1>3 DEF CallInv, Single
  <2>1. waits /\ phase[t] = "pending" /\ at[t] = q.step /\ q.try = tries[t]
    BY <1>6, <1>8
  <2>2. Behind(r) /\ q.step \in Recorded /\ r.task = t /\ r.try = tries[t]
    BY <1>4, <2>1 DEF CallInv, AttemptOf
  <2>3. tries[t] \in Nat
    BY <1>1 DEF TypeOK
  <2> QED
    BY <2>1, <2>2, <2>3, <1>2 DEF Behind, Recorded, Own, Place
<1> QED
  BY <1>14, <1>15 DEF CallInv, Own, TypeOK, Statement

\* A step that touches no call and no statement.
LEMMA CallInvKept ==
  ASSUME CallInv, UNCHANGED <<taskVars, lease, outer, flight, executed, timedOut>>
  PROVE  CallInv'
<1> USE DEF taskVars
<1>1. \A t \in Tasks : Place(t)' /\ Holding(t)' /\ Ahead(t)'
  BY DEF CallInv, Place, Holding, Ahead, Done, Ran
<1>2. (\A q \in flight' : Awaited(q)') /\ \A q \in executed' : Behind(q)'
  BY DEF CallInv, Awaited, Behind
<1>3. Single'
  BY DEF CallInv, Single
<1> QED
  BY <1>1, <1>2, <1>3 DEF CallInv


\* The first state.
LEMMA CallsInit == Init => TypeOK /\ CallInv
<1> SUFFICES ASSUME Init PROVE TypeOK /\ CallInv
  OBVIOUS
<1>1. TypeOK
  <2>1. tries \in [Tasks -> 1..MaxTries] /\ faults \in 0..MaxFaults
    BY SessionsAssumption DEF Init
  <2> QED
    BY <2>1 DEF Init, TypeOK, AllKinds, Step, Phase
<1>2. \A t \in Tasks : Place(t) /\ Holding(t) /\ Ahead(t)
  BY DEF Init, Place, Holding, Ahead, Steps, Transactional, Wrapped
<1>3. (\A q \in flight : Awaited(q)) /\ (\A q \in executed : Behind(q)) /\ Single
  BY DEF Init, Single
<1> QED
  BY <1>1, <1>2, <1>3 DEF CallInv

\* What happens to no call leaves all calls alone.
LEMMA ElsewhereLeaves ==
  ASSUME Elsewhere
  PROVE  /\ UNCHANGED <<taskVars, lease, outer, flight, executed, timedOut, overlapped>>
         /\ UNCHANGED <<active, inTransaction, uncommitted, durable, raced>>
BY DEF Elsewhere, StateMoves, PoolReady, PoolDrained, LateRefuse, LateGrant, leaseVars,
       serverVars, historyVars

\* Every step of every call, of the database and of anybody else.
LEMMA CallsNext == TypeOK /\ CallInv /\ [Next]_vars => TypeOK' /\ CallInv'
<1> SUFFICES ASSUME TypeOK, CallInv, [Next]_vars PROVE TypeOK' /\ CallInv'
  OBVIOUS
<1>1. ASSUME NEW t \in Tasks, TaskStep(t) PROVE TypeOK' /\ CallInv'
  <2>1. TypeOK'
    BY <1>1, TaskTypes
  <2>2. ASSUME NEW c \in Conns, Grant(t, c) PROVE CallInv'
    BY <2>1, <2>2, GrantKept
  <2> QED
    BY <1>1, <2>1, <2>2, StartCalm, RetryCalm, BeginNestedCalm, WaitCalm, GiveBackCalm,
       ProceedCalm, ThrowCalm DEF TaskStep
<1>2. ASSUME NEW q \in flight, Execute(q) PROVE TypeOK' /\ CallInv'
  BY <1>2, ExecuteTypes, ExecuteKept
<1>3. CASE Elsewhere
  BY <1>3, ElsewhereTypes, ElsewhereLeaves, CallInvKept
<1>4. CASE UNCHANGED vars
  <2>1. TypeOK'
    BY <1>4 DEF TypeOK, vars, taskVars, leaseVars, serverVars, historyVars
  <2> QED
    BY <1>4, <2>1, CallInvKept DEF vars, leaseVars, serverVars, historyVars
<1> QED
  BY <1>1, <1>2, <1>3, <1>4, NextIs

\* The calls keep their invariant: every call is at a step of its kind, holds what that
\* step entitles it to, and has the statements in flight and run that go with it.
THEOREM CallsInvariant == Spec => [](TypeOK /\ CallInv)
BY CallsInit, CallsNext, PTL DEF Spec

\* What the caller is told of every attempt at a transaction is true of its COMMIT.
THEOREM CallersToldTheTruth == Spec => []CommitTruth
<1>1. TypeOK /\ CallInv => CommitTruth
  <2> SUFFICES ASSUME TypeOK, CallInv, NEW t \in Tasks, NEW i \in 1..MaxTries, kind[t] \in Wrapped
               PROVE  /\ Succeeded(t, i) => \A s \in {"begin", "work", "commit"} : Ran(t, i, s)
                      /\ Failed(t, i) /\ Ran(t, i, "commit") => [task |-> t, try |-> i] \in timedOut
    BY DEF CommitTruth
  <2>1. Succeeded(t, i) => \A s \in {"begin", "work", "commit"} : Ran(t, i, s)
    BY DEF CallInv, Ahead, Done, Succeeded
  <2>2. ASSUME Failed(t, i), Ran(t, i, "commit"), [task |-> t, try |-> i] \notin timedOut
        PROVE  FALSE
    <3>1. PICK q \in executed : q.task = t /\ q.try = i /\ q.step = "commit"
      BY <2>2 DEF Ran
    <3>2. Behind(q) /\ AttemptOf(q) \notin timedOut
      BY <2>2, <3>1 DEF CallInv, AttemptOf
    <3>3. /\ q.try = tries[t]
          /\ (at[t] = "commit" /\ phase[t] = "ok") \/ outcome[t] = "resolved"
      BY <3>1, <3>2 DEF Behind
    <3>4. outcome[t] = "rejected" => at[t] = "end"
      BY DEF CallInv, Place
    <3>5. tries[t] \in Nat
      BY DEF TypeOK
    <3> QED
      BY <2>2, <3>1, <3>3, <3>4, <3>5 DEF Failed
  <2> QED
    BY <2>1, <2>2
<1> QED
  BY <1>1, CallsInvariant, PTL

\* A single statement is applied again by a retry only if an earlier attempt had
\* given up on it: an attempt whose failure was answered has left nothing run.
THEOREM WorkAppliedOnce == Spec => []AppliedOnce
<1>1. TypeOK /\ CallInv => AppliedOnce
  <2> SUFFICES ASSUME TypeOK, CallInv, NEW t \in Tasks, kind[t] = "plain",
                      NEW i \in 1..MaxTries, NEW j \in 1..MaxTries,
                      i < j, Ran(t, i, "work"), Ran(t, j, "work"),
                      [task |-> t, try |-> i] \notin timedOut
               PROVE  FALSE
    BY DEF AppliedOnce
  <2>1. PICK q \in executed : q.task = t /\ q.try = i /\ q.step = "work"
    BY DEF Ran
  <2>2. PICK r \in executed : r.task = t /\ r.try = j /\ r.step = "work"
    BY DEF Ran
  <2>3. q.try = tries[t]
    BY <2>1 DEF CallInv, Behind, AttemptOf
  <2>4. r.try <= tries[t] /\ tries[t] \in Nat
    BY <2>2 DEF CallInv, Behind, TypeOK
  <2> QED
    BY <2>1, <2>2, <2>3, <2>4
<1> QED
  BY <1>1, CallsInvariant, PTL

-----------------------------------------------------------------------------
(* The connections that are lost                                           *)

\* Whatever a step leads to comes later.
LEMMA RankRises ==
  ASSUME NEW k \in AllKinds \ {"none"}, NEW s \in Steps(k) \ {"end"}
  PROVE  /\ Rank(s) < Rank(After(k, s)) /\ Rank(s) < Rank(OnError(k, s))
         /\ \A r : Rank(r) \in Nat
<1>1. \A r : Rank(r) \in Nat
  BY DEF Rank
<1>2. Rank(s) < Rank(Successor(k, s))
  BY DEF Rank, Successor, Steps, AllKinds, Transactional, Wrapped, Recorded
<1>3. After(k, s) = Successor(k, s)
  BY AfterIsSuccessor
<1>4. Rank(s) < Rank(OnError(k, s))
  BY DEF Rank, OnError, Steps, AllKinds, Transactional, Wrapped, Recorded
<1> QED
  BY <1>1, <1>2, <1>3, <1>4

\* A step of a call leaves the other calls where they are.
LEMMA LeavesOthers ==
  ASSUME TypeOK, NEW t \in Tasks, TaskStep(t)
  PROVE  Others(t)
<1> USE DEF Others, taskVars, leaseVars
<1>1. ASSUME NEW k \in Kinds, Start(t, k) PROVE Others(t)
  BY <1>1, Entered DEF Start, TypeOK
<1>2. CASE StartChecked(t)
  BY <1>2, Entered DEF StartChecked, TypeOK
<1>3. CASE Retry(t)
  BY <1>3 DEF Retry, TypeOK
<1>4. CASE Ask(t) \/ Poll(t)
  BY <1>4 DEF Ask, Poll, TypeOK
<1>5. CASE BeginNested(t)
  BY <1>5, Entered DEF BeginNested
<1>6. ASSUME NEW c \in Conns, Grant(t, c) PROVE Others(t)
  BY <1>6 DEF Grant, TypeOK
<1>7. CASE Refuse(t) \/ RaceTimeout(t) \/ QueryTimeout(t)
  BY <1>7 DEF Refuse, RaceTimeout, QueryTimeout, TypeOK
<1>8. CASE GiveBack(t)
  BY <1>8 DEF GiveBack, TypeOK
<1>9. CASE Proceed(t)
  BY <1>9, Entered DEF Proceed
<1>10. CASE MethodThrows(t) \/ Fail(t)
  BY <1>10, Entered DEF MethodThrows, Fail
<1>11. CASE CloseOuter(t) \/ OuterClosed(t) \/ Look(t) \/ Report(t)
  BY <1>11 DEF CloseOuter, OuterClosed, Look, Report, TypeOK
<1> QED
  BY <1>1, <1>2, <1>3, <1>4, <1>5, <1>6, <1>7, <1>8, <1>9, <1>10, <1>11 DEF TaskStep

\* A call that goes to a later step is done with what it was done with.
LEMMA GoneByEntering ==
  ASSUME TypeOK, CallInv, NEW t \in Tasks, NEW r \in Request, r.task = t, Gone(r),
         kind[t] \in AllKinds \ {"none"}, at[t] \in Steps(kind[t]) \ {"end"},
         tries'[t] = tries[t], Rank(at[t]) < Rank(at'[t]),
         phase[t] = "failed" /\ at[t] = "manage" => at'[t] = "end"
  PROVE  Gone(r)'
<1>1. Rank(r.step) \in Nat /\ Rank(at[t]) \in Nat /\ Rank(at'[t]) \in Nat
  BY RankRises
<1> QED
  BY <1>1 DEF Gone

\* Once a call is done with a request, it is so for good.
LEMMA GoneByCall ==
  ASSUME TypeOK, CallInv, NEW t \in Tasks, TaskStep(t), NEW r \in Request, Gone(r)
  PROVE  Gone(r)'
<1> USE DEF leaseVars, taskVars, historyVars
<1>0. Others(t) /\ Place(t) /\ r.task \in Tasks
  BY LeavesOthers DEF CallInv, Request
<1>1. CASE r.task # t
  BY <1>0, <1>1 DEF Gone, Others
<1>2. CASE r.task = t
  <2>1. ASSUME at[t] = "idle", UNCHANGED tries PROVE Gone(r)'
    <3>1. r.try < tries[t] \/ Rank(r.step) < 0
      BY <1>0, <1>2, <2>1 DEF Gone, Place, Rank
    <3>2. ~(Rank(r.step) < 0)
      BY DEF Rank
    <3> QED
      BY <1>2, <2>1, <3>1, <3>2 DEF Gone
  <2>2. CASE Retry(t)
    <3>1. tries'[t] = tries[t] + 1 /\ tries[t] \in Nat /\ r.try \in Nat
      BY <2>2 DEF Retry, TypeOK, Request
    <3> QED
      BY <1>2, <3>1 DEF Gone
  <2>3. ASSUME NEW s, Rank(at[t]) < Rank(s), at[t] \notin {"idle", "end"},
               at'[t] = s, UNCHANGED tries,
               phase[t] = "failed" /\ at[t] = "manage" => s = "end"
        PROVE  Gone(r)'
    BY <1>0, <1>2, <2>3, HasBegun, GoneByEntering
  <2>4. CASE Proceed(t)
    <3>1. at[t] \notin {"idle", "end"} /\ phase[t] # "failed"
      BY <1>0, <2>4 DEF Proceed, Settled, Place
    <3>2. Rank(at[t]) < Rank(After(kind[t], at[t]))
      BY <1>0, <3>1, HasBegun, RankRises
    <3>3. at'[t] = After(kind[t], at[t]) /\ UNCHANGED tries
      BY <2>4, Entered DEF Proceed
    <3> QED
      BY <2>3, <3>1, <3>2, <3>3
  <2>5. CASE Fail(t) \/ MethodThrows(t)
    <3>0. at[t] \notin {"idle", "end"}
      BY <1>0, <2>5 DEF Fail, MethodThrows, Settled, Place
    <3>1. at[t] \notin {"idle", "end"} /\ (at[t] = "manage" => kind[t] = "managed")
      BY <1>0, <3>0, HasBegun DEF Steps, Recorded, Wrapped, AllKinds, Transactional
    <3>2. Rank(at[t]) < Rank(OnError(kind[t], at[t]))
      BY <1>0, <3>1, HasBegun, RankRises
    <3>3. at'[t] = OnError(kind[t], at[t]) /\ UNCHANGED tries
      BY <2>5, Entered DEF Fail, MethodThrows
    <3>4. at[t] = "manage" => OnError(kind[t], at[t]) = "end"
      BY <3>1 DEF OnError, Transactional, Wrapped
    <3> QED
      BY <2>3, <3>1, <3>2, <3>3, <3>4
  <2>6. CASE BeginNested(t)
    <3>1. at[t] = "isolation" /\ at'[t] = "work" /\ UNCHANGED tries
      BY <2>6, Entered DEF BeginNested
    <3> QED
      BY <2>3, <3>1 DEF Rank
  <2>7. ASSUME UNCHANGED <<at, tries>>,
               \/ phase[t] = "ready" \/ phase[t] = "polling" \/ phase[t] = "asking"
               \/ at[t] \in {"close", "look"} /\ phase[t] = "pending"
               \/ phase[t] = "pending" /\ at[t] # "details" /\ phase'[t] = "failed"
               \/ lease[t] # NoConn
        PROVE  Gone(r)'
    BY <1>2, <2>7 DEF Gone
  <2>8. CASE Ask(t) \/ Poll(t) \/ Refuse(t) \/ RaceTimeout(t) \/ CloseOuter(t) \/ OuterClosed(t)
             \/ Look(t) \/ Report(t)
    BY <2>7, <2>8 DEF Ask, Poll, Refuse, RaceTimeout, CloseOuter, OuterClosed, Look, Report
  <2>9. CASE QueryTimeout(t)
    BY <2>7, <2>9 DEF QueryTimeout, TypeOK
  <2>10. CASE GiveBack(t)
    BY <2>7, <2>10 DEF GiveBack
  <2>11. ASSUME NEW c \in Conns, Grant(t, c) PROVE Gone(r)'
    BY <2>7, <2>11 DEF Grant
  <2>12. CASE (\E k \in Kinds : Start(t, k)) \/ StartChecked(t)
    BY <2>1, <2>12 DEF Start, StartChecked
  <2> QED
    BY <2>2, <2>4, <2>5, <2>6, <2>8, <2>9, <2>10, <2>11, <2>12 DEF TaskStep
<1> QED
  BY <1>1, <1>2

\* An answer of the database does not change that.
LEMMA GoneByAnswer ==
  ASSUME TypeOK, CallInv, NEW q \in flight, Execute(q), NEW r \in Request, Gone(r)
  PROVE  Gone(r)'
<1> DEFINE t == r.task
<1>1. UNCHANGED <<at, tries, lease>>
  BY DEF Execute, leaseVars
<1>2. phase'[t] = phase[t] \/ (phase[t] = "pending" /\ phase'[t] \in {"ok", "failed"})
  BY DEF Execute, Answer, TypeOK, Request
<1> QED
  BY <1>1, <1>2 DEF Gone

\* A call that asks is not done with its request.
LEMMA NotGone ==
  ASSUME TypeOK, NEW t \in Tasks, phase[t] = "asking"
  PROVE  ~Gone(Current(t))
<1>1. /\ Current(t).task = t /\ Current(t).try = tries[t] /\ Current(t).step = at[t]
      /\ tries[t] \in Nat /\ Rank(at[t]) \in Nat
  BY DEF Current, TypeOK, Rank
<1> QED
  BY <1>1 DEF Gone

\* The requests are where they were, as long as none times out and none is granted
\* that nobody will give back.
LEMMA LossKept ==
  ASSUME TypeOK, LossInv, \A r \in Request : Gone(r) => Gone(r)',
         UNCHANGED <<raced, lost>>, overdue' \subseteq overdue
  PROVE  LossInv'
<1>1. \A q \in lost : RequestOf(q) \in Request
  BY StatementTypes DEF TypeOK
<1>2. \A r \in raced : r \in Request
  BY DEF TypeOK
<1> QED
  BY <1>1, <1>2 DEF LossInv

\* Every step keeps the account of the requests and of the connections that are lost.
LEMMA LossNext == TypeOK /\ CallInv /\ LossInv /\ [Next]_vars => LossInv'
<1> USE DEF leaseVars, taskVars, historyVars
<1> SUFFICES ASSUME TypeOK, CallInv, LossInv, [Next]_vars PROVE LossInv'
  OBVIOUS
<1>0. (\A q \in lost : RequestOf(q) \in Request) /\ \A r \in raced : r \in Request
  BY StatementTypes DEF TypeOK
<1>1. ASSUME NEW t \in Tasks, TaskStep(t) PROVE LossInv'
  <2>1. \A r \in Request : Gone(r) => Gone(r)'
    BY <1>1, GoneByCall
  <2>2. CASE RaceTimeout(t)
    <3>1. /\ phase[t] = "asking" /\ phase'[t] = "failed"
          /\ UNCHANGED <<at, tries, lease, lost>>
          /\ overdue' = overdue \cup {Current(t)} /\ raced' = raced \cup {Current(t)}
      BY <2>2 DEF RaceTimeout, TypeOK
    <3>2. lease[t] = NoConn
      BY <3>1 DEF CallInv, Holding
    <3>3. PICK r \in Request : r = Current(t) /\ r.task = t /\ r.try = tries[t] /\ r.step = at[t]
      BY CurrentTypes DEF Current
    <3>4. Gone(r)'
      BY <3>1, <3>2, <3>3 DEF Gone
    <3>5. (\A q \in lost : RequestOf(q) # r) /\ overdue' = overdue \cup {r}
          /\ raced' = raced \cup {r}
      BY <3>1, <3>3, NotGone DEF LossInv
    <3> QED
      BY <1>0, <2>1, <3>1, <3>4, <3>5 DEF LossInv
  <2>3. ASSUME NEW c \in Conns, Grant(t, c), at[t] = "details" PROVE LossInv'
    <3>1. /\ phase[t] = "asking" /\ phase'[t] = "pending" /\ UNCHANGED <<at, tries, lease, overdue, raced>>
          /\ lost' = lost \cup {Given(Current(t), c)}
      BY <2>3 DEF Grant, TypeOK
    <3>2. lease[t] = NoConn
      BY <3>1 DEF CallInv, Holding
    <3>3. PICK r \in Request : r = Current(t) /\ r.task = t /\ r.try = tries[t] /\ r.step = at[t]
      BY CurrentTypes DEF Current
    <3>4. PICK q \in Statement : q = Given(Current(t), c) /\ RequestOf(q) = r /\ q.step = "details"
      BY <2>3, <3>3, CurrentTypes DEF RequestOf, Given, Current
    <3>5. Gone(r)'
      BY <2>3, <3>1, <3>2, <3>3 DEF Gone
    <3>6. (\A p \in lost : RequestOf(p) # r) /\ r \notin overdue
      BY <3>1, <3>3, NotGone DEF LossInv
    <3>7. lost' = lost \cup {q}
      BY <3>1, <3>4
    <3> QED
      BY <1>0, <2>1, <3>1, <3>4, <3>5, <3>6, <3>7 DEF LossInv
  <2>4. ASSUME NEW c \in Conns, Grant(t, c), at[t] # "details" PROVE UNCHANGED <<overdue, raced, lost>>
    BY <2>4 DEF Grant
  <2>5. \/ UNCHANGED <<overdue, raced, lost>> \/ RaceTimeout(t)
        \/ \E c \in Conns : Grant(t, c) /\ at[t] = "details"
    BY <1>1, <2>4
    DEF TaskStep, Start, StartChecked, Retry, Ask, Poll, BeginNested, Refuse, GiveBack,
        QueryTimeout, Proceed, MethodThrows, Fail, CloseOuter, OuterClosed, Look, Report
  <2> QED
    BY <2>1, <2>2, <2>3, <2>5, LossKept
<1>2. ASSUME NEW q \in flight, Execute(q) PROVE LossInv'
  <2>1. \A r \in Request : Gone(r) => Gone(r)'
    BY <1>2, GoneByAnswer
  <2> QED
    BY <1>2, <2>1, LossKept DEF Execute
<1>3. ASSUME UNCHANGED <<taskVars, lease, raced>> PROVE \A r : Gone(r)' = Gone(r)
  BY <1>3 DEF Gone
<1>4. CASE UNCHANGED vars \/ StateMoves \/ PoolReady \/ PoolDrained
  <2>1. UNCHANGED <<taskVars, leaseVars, raced>>
    BY <1>4 DEF vars, StateMoves, PoolReady, PoolDrained
  <2> QED
    BY <1>3, <2>1, LossKept
<1>5. ASSUME NEW r \in overdue, LateRefuse(r) PROVE LossInv'
  BY <1>3, <1>5, LossKept DEF LateRefuse
<1>6. ASSUME NEW r \in overdue, NEW c \in Conns, LateGrant(r, c) PROVE LossInv'
  <2> DEFINE q == Given(r, c)
  <2>1. RequestOf(q) = r /\ r \in raced
    BY DEF RequestOf, Given, TypeOK, Request, LossInv
  <2>2. overdue' = overdue \ {r} /\ lost' = lost \cup {q} /\ UNCHANGED <<taskVars, lease, raced>>
    BY <1>6 DEF LateGrant
  <2> HIDE DEF q
  <2>3. \A p \in lost : RequestOf(p) # r
    BY DEF LossInv
  <2> QED
    BY <1>3, <2>1, <2>2, <2>3 DEF LossInv
<1> QED
  BY <1>1, <1>2, <1>4, <1>5, <1>6, NextIs DEF Elsewhere

\* However a call ends, it has returned its connections.  A connection is lost only to
\* the details of a health check or to a request whose timer had gone off before the
\* pool granted it, and no request loses two.
THEOREM NothingIsHeld == Spec => []NothingHeldAfter
<1>1. Init => LossInv
  BY DEF Init, LossInv
<1>2. TypeOK /\ CallInv /\ LossInv => NothingHeldAfter
  <2> SUFFICES ASSUME TypeOK, CallInv, LossInv PROVE NothingHeldAfter
    OBVIOUS
  <2>1. \A t \in Tasks : at[t] = "end" => lease[t] = NoConn /\ outer[t] = NoConn
    BY DEF CallInv, Place, Holding, Sent, Recorded
  <2> QED
    BY <2>1 DEF NothingHeldAfter, LossInv
<1> QED
  BY <1>1, <1>2, LossNext, CallsInvariant, PTL DEF Spec

-----------------------------------------------------------------------------
(* The sessions                                                            *)

\* What the sessions and the calls have of each other.
Atomic == SessionInv /\ \A t \in Tasks : \A c \in Conns : Follows(t, c)

\* Where a call is between two statements: the same, beginning, or retried after an
\* attempt that was rejected.
Unmoved(t) ==
  \/ kind'[t] = kind[t] /\ tries'[t] = tries[t]
  \/ kind[t] = "none"
  \/ kind'[t] = kind[t] /\ tries'[t] = tries[t] + 1 /\ outcome[t] = "rejected"

\* Only the database changes its sessions.  A call that begins has run nothing, and an
\* attempt that was rejected has not committed.
LEMMA SessionsLeftAlone ==
  ASSUME TypeOK, CallInv, Atomic, timedOut \subseteq timedOut',
         UNCHANGED <<inTransaction, uncommitted, durable, executed>>,
         \A t \in Tasks : Unmoved(t)
  PROVE  Atomic'
<1>1. SessionInv'
  BY DEF Atomic, SessionInv
<1>2. ASSUME NEW t \in Tasks, NEW c \in Conns PROVE Follows(t, c)'
  <2>1. CASE kind'[t] = kind[t] /\ tries'[t] = tries[t]
    <3>1. Follows(t, c) /\ (Alone(t, c)' => Alone(t, c))
      BY DEF Atomic, Alone
    <3> QED
      BY <2>1, <3>1 DEF Follows, Done, Ran, Present
  <2>2. CASE kind[t] = "none"
    <3>1. \A q \in executed : q.task # t
      BY <2>2 DEF CallInv, Behind, Steps, Recorded, Wrapped
    <3>2. /\ \A s : ~Done(t, s)' /\ \A i \in 1..MaxTries : ~Ran(t, i, s)'
      BY <3>1 DEF Done, Ran
    <3>3. \A i \in 1..MaxTries : [task |-> t, try |-> i] \notin durable
      BY <3>1 DEF Atomic, SessionInv, AttemptOf
    <3> QED
      BY <3>2, <3>3 DEF Follows
  <2>3. CASE kind'[t] = kind[t] /\ tries'[t] = tries[t] + 1 /\ outcome[t] = "rejected"
    <3> SUFFICES ASSUME kind[t] \in Wrapped, Alone(t, c)' PROVE Follows(t, c)'
      BY <2>3 DEF Follows
    <3>1. Follows(t, c) /\ Alone(t, c)
      BY DEF Atomic, Alone
    <3>2. ~Done(t, "commit")
      <4> SUFFICES ASSUME NEW q \in executed, q.task = t, q.try = tries[t], q.step = "commit"
                   PROVE  FALSE
        BY DEF Done, Ran
      <4>1. AttemptOf(q) \notin timedOut /\ tries[t] \in Nat
        BY <3>1 DEF Alone, AttemptOf, TypeOK, Statement
      <4>2. at[t] = "end"
        BY <2>3 DEF CallInv, Place
      <4> QED
        BY <2>3, <4>1, <4>2 DEF CallInv, Behind
    <3>3. \A s : ~Done(t, s)'
      <4> SUFFICES ASSUME NEW q \in executed, q.task = t, q.try = tries[t] + 1 PROVE FALSE
        BY <2>3 DEF Done, Ran
      <4>1. q.try <= tries[t] /\ tries[t] \in Nat
        BY DEF CallInv, Behind, TypeOK
      <4> QED
        BY <4>1
    <3>4. \A i \in 1..MaxTries :
            /\ [task |-> t, try |-> i] \notin durable
            /\ Ran(t, i, "rollback")' => [task |-> t, try |-> i] \notin uncommitted[c]
      BY <3>1, <3>2 DEF Follows, Ran
    <3> QED
      BY <3>3, <3>4 DEF Follows
  <2> QED
    BY <2>1, <2>2, <2>3 DEF Unmoved
<1> QED
  BY <1>1, <1>2 DEF Atomic

\* A statement that neither begins, works nor ends leaves every session as it is.
LEMMA RunUnrecorded ==
  ASSUME TypeOK, SessionInv, NEW q \in flight, Run(q), q.step \notin Recorded
  PROVE  UNCHANGED <<inTransaction, uncommitted, durable>>
<1>1. q.conn \in Conns
  BY DEF TypeOK, Statement
<1>2. inTransaction' = inTransaction
  BY <1>1 DEF Run, TypeOK, Recorded
<1>3. durable' = durable
  BY DEF Run, Recorded
<1>4. uncommitted' = uncommitted
  <2>1. uncommitted' = [uncommitted EXCEPT ![q.conn] =
                          IF inTransaction[q.conn] THEN uncommitted[q.conn] ELSE {}]
    BY <1>2 DEF Run, Recorded
  <2>2. (IF inTransaction[q.conn] THEN uncommitted[q.conn] ELSE {}) = uncommitted[q.conn]
    BY <1>1 DEF SessionInv
  <2> QED
    BY <1>1, <2>1, <2>2 DEF TypeOK
<1> QED
  BY <1>2, <1>3, <1>4

\* What one statement does to its session.
LEMMA RunRecorded ==
  ASSUME TypeOK, NEW q \in flight, Run(q)
  PROVE  LET c == q.conn
             work == uncommitted[c] \cup (IF q.step = "work" THEN {AttemptOf(q)} ELSE {}) IN
         /\ inTransaction'[c] <=> (inTransaction[c] \/ q.step = "begin")
                                     /\ q.step \notin {"commit", "rollback"}
         /\ uncommitted'[c] = IF inTransaction'[c] THEN work ELSE {}
         /\ durable' = IF q.step = "commit" \/ (q.step = "work" /\ ~inTransaction[c])
                         THEN durable \cup work ELSE durable
         /\ \A d \in Conns \ {c} :
              inTransaction'[d] = inTransaction[d] /\ uncommitted'[d] = uncommitted[d]
<1>1. q.conn \in Conns
  BY DEF TypeOK, Statement
<1> QED
  BY <1>1 DEF Run, TypeOK

\* The database runs a statement that counts.
LEMMA AtomicRun ==
  ASSUME TypeOK, CallInv, Atomic, NEW q \in flight, Run(q), q.step \in Recorded,
         executed' = executed \cup {q}, UNCHANGED <<kind, tries, timedOut>>
  PROVE  Atomic'
<1> DEFINE c == q.conn
           u == q.task
           a == AttemptOf(q)
           work == uncommitted[c] \cup (IF q.step = "work" THEN {a} ELSE {})
<1>1. /\ inTransaction'[c] <=> (inTransaction[c] \/ q.step = "begin")
                                  /\ q.step \notin {"commit", "rollback"}
      /\ uncommitted'[c] = IF inTransaction'[c] THEN work ELSE {}
      /\ durable' = IF q.step = "commit" \/ (q.step = "work" /\ ~inTransaction[c])
                      THEN durable \cup work ELSE durable
      /\ \A d \in Conns \ {c} :
           inTransaction'[d] = inTransaction[d] /\ uncommitted'[d] = uncommitted[d]
  BY RunRecorded
<1>2. q \in executed' /\ executed \subseteq executed' /\ c \in Conns /\ u \in Tasks
  BY DEF TypeOK, Statement
<1>3. \A b \in work : \E r \in executed' : AttemptOf(r) = b /\ r.conn = c
  BY <1>2 DEF Atomic, SessionInv
<1>4. SessionInv'
  <2>1. ASSUME NEW d \in Conns
        PROVE  /\ inTransaction'[d] => \E r \in executed' : r.conn = d
               /\ ~inTransaction'[d] => uncommitted'[d] = {}
               /\ \A b \in uncommitted'[d] : \E r \in executed' : AttemptOf(r) = b /\ r.conn = d
    BY <1>1, <1>2, <1>3 DEF Atomic, SessionInv
  <2>2. \A b \in durable' : \E r \in executed' : AttemptOf(r) = b
    BY <1>1, <1>2, <1>3 DEF Atomic, SessionInv
  <2> QED
    BY <2>1, <2>2 DEF SessionInv
<1>5. ASSUME NEW t \in Tasks, NEW d \in Conns PROVE Follows(t, d)'
  <2> SUFFICES ASSUME kind[t] \in Wrapped, Alone(t, d)' PROVE Follows(t, d)'
    BY DEF Follows
  <2>1. Alone(t, d) /\ (u = t <=> c = d)
    BY <1>2 DEF Alone
  <2>2. /\ Done(t, "begin") =>
             (inTransaction[d] <=> ~Done(t, "commit") /\ ~Done(t, "rollback"))
        /\ Done(t, "begin") /\ inTransaction[d] /\ Done(t, "work") => Present(t) \in uncommitted[d]
        /\ Done(t, "commit") => Present(t) \in durable
        /\ \A i \in 1..MaxTries :
             /\ [task |-> t, try |-> i] \in durable => Done(t, "commit")
             /\ Ran(t, i, "rollback") => [task |-> t, try |-> i] \notin durable \cup uncommitted[d]
    BY <2>1 DEF Atomic, Follows
  <2> SUFFICES
        /\ Done(t, "begin")' =>
             (inTransaction'[d] <=> ~Done(t, "commit")' /\ ~Done(t, "rollback")')
        /\ Done(t, "begin")' /\ inTransaction'[d] /\ Done(t, "work")' => Present(t) \in uncommitted'[d]
        /\ Done(t, "commit")' => Present(t) \in durable'
        /\ \A i \in 1..MaxTries :
             /\ [task |-> t, try |-> i] \in durable' => Done(t, "commit")'
             /\ Ran(t, i, "rollback")' => [task |-> t, try |-> i] \notin durable' \cup uncommitted'[d]
    BY DEF Follows, Present
  <2>3. CASE u # t
    <3>1. (\A i, s : Ran(t, i, s)' <=> Ran(t, i, s)) /\ \A s : Done(t, s)' <=> Done(t, s)
      BY <2>3 DEF Ran, Done
    <3>2. \A i \in 1..MaxTries : [task |-> t, try |-> i] \notin work
      <4>1. \A r \in executed' : r.conn = c => r.task # t
        BY <2>1, <2>3 DEF Alone
      <4>2. \A r \in executed' : \A i \in 1..MaxTries : AttemptOf(r) = [task |-> t, try |-> i] => r.task = t
        BY DEF AttemptOf
      <4> QED
        BY <1>3, <4>1, <4>2
    <3>3. tries[t] \in 1..MaxTries /\ Present(t) = [task |-> t, try |-> tries[t]]
      BY DEF TypeOK, Present
    <3> HIDE DEF c, u, a, work
    <3>4. inTransaction'[d] = inTransaction[d] /\ uncommitted'[d] = uncommitted[d]
      BY <1>1, <2>1, <2>3
    <3>5. \A i \in 1..MaxTries : [task |-> t, try |-> i] \in durable' <=> [task |-> t, try |-> i] \in durable
      BY <1>1, <3>2
    <3>6. Present(t) \in durable' <=> Present(t) \in durable
      BY <3>3, <3>5
    <3> QED
      BY <2>2, <3>1, <3>4, <3>5, <3>6
  <2>4. CASE u = t
    <3>1. a \notin timedOut /\ tries[t] \in 1..MaxTries
      BY <2>1, <2>4 DEF Alone, AttemptOf, TypeOK, Statement
    <3>2. at[t] = q.step /\ phase[t] = "pending" /\ q.try = tries[t]
      BY <2>4, <3>1 DEF CallInv, Awaited
    <3>3. a = Present(t) /\ Present(t) = [task |-> t, try |-> tries[t]]
      BY <2>4, <3>2 DEF AttemptOf, Present
    <3>4. /\ \A s : Done(t, s)' <=> Done(t, s) \/ s = q.step
          /\ \A i, s : Ran(t, i, s)' <=> Ran(t, i, s) \/ (i = tries[t] /\ s = q.step)
          /\ \A s : Done(t, s) <=> Ran(t, tries[t], s)
      BY <2>4, <3>2 DEF Ran, Done
    <3>5. \A r \in executed : r.task = t /\ r.try = tries[t] =>
            \/ r.step = "begin" /\ q.step \in {"work", "commit", "rollback"}
            \/ r.step = "work" /\ q.step \in {"commit", "rollback"}
      <4> SUFFICES ASSUME NEW r \in executed, r.task = t, r.try = tries[t]
                   PROVE  \/ r.step = "begin" /\ q.step \in {"work", "commit", "rollback"}
                          \/ r.step = "work" /\ q.step \in {"commit", "rollback"}
        OBVIOUS
      <4>1. AttemptOf(r) \notin timedOut
        BY <3>1, <3>3 DEF AttemptOf
      <4> QED
        BY <3>1, <3>2, <4>1 DEF CallInv, Behind, Recorded
    <3>6. /\ q.step = "begin" => ~Done(t, "begin") /\ ~Done(t, "work")
          /\ q.step = "work" => ~Done(t, "work")
          /\ ~Done(t, "commit") /\ ~Done(t, "rollback")
      BY <3>5 DEF Done, Ran
    <3>7. /\ q.step = "work" => Done(t, "begin")
          /\ q.step = "commit" => Done(t, "begin") /\ Done(t, "work")
      BY <3>2 DEF CallInv, Ahead
    <3>8. q.step = "begin" \/ q.step = "work" \/ q.step = "commit" \/ q.step = "rollback"
      BY DEF Recorded
    <3>9. \A i \in 1..MaxTries : [task |-> t, try |-> i] = a => i = tries[t]
      BY <3>3
    <3>10. c = d
      BY <2>1, <2>4
    <3> HIDE DEF c, u, a
    <3>11. CASE q.step = "begin"
      <4>1. durable' = durable /\ inTransaction'[d] /\ uncommitted'[d] = uncommitted[d]
        BY <1>1, <3>10, <3>11
      <4> QED
        BY <2>2, <3>4, <3>6, <3>11, <4>1
    <3>12. CASE q.step = "work"
      <4>1. inTransaction[d]
        BY <2>2, <3>6, <3>7, <3>12
      <4>2. durable' = durable /\ inTransaction'[d] /\ uncommitted'[d] = uncommitted[d] \cup {a}
        BY <1>1, <3>10, <3>12, <4>1
      <4> QED
        BY <2>2, <3>3, <3>4, <3>6, <3>7, <3>9, <3>12, <4>2
    <3>13. CASE q.step = "commit"
      <4>1. inTransaction[d] /\ Present(t) \in uncommitted[d]
        BY <2>2, <3>6, <3>7, <3>13
      <4>2. durable' = durable \cup uncommitted[d] /\ ~inTransaction'[d] /\ uncommitted'[d] = {}
        BY <1>1, <3>10, <3>13
      <4> QED
        BY <2>2, <3>4, <3>13, <4>1, <4>2
    <3>14. CASE q.step = "rollback"
      <4>1. durable' = durable /\ ~inTransaction'[d] /\ uncommitted'[d] = {}
        BY <1>1, <3>10, <3>14
      <4> QED
        BY <2>2, <3>4, <3>6, <3>14, <4>1
    <3> QED
      BY <3>8, <3>11, <3>12, <3>13, <3>14
  <2> QED
    BY <2>3, <2>4
<1> QED
  BY <1>4, <1>5 DEF Atomic

\* Every step keeps it.
LEMMA AtomicNext ==
  ASSUME TypeOK, CallInv, Atomic, [Next]_vars
  PROVE  Atomic'
<1> USE DEF leaseVars, serverVars, historyVars
<1>1. ASSUME NEW t \in Tasks, TaskStep(t) PROVE Atomic'
  <2>1. UNCHANGED <<inTransaction, uncommitted, durable, executed>> /\ timedOut \subseteq timedOut'
    BY <1>1 DEF TaskStep, Start, StartChecked, Retry, Ask, Poll, BeginNested, Grant, Refuse,
                RaceTimeout, GiveBack, QueryTimeout, Proceed, MethodThrows, Fail, CloseOuter,
                OuterClosed, Look, Report
  <2>2. \A u \in Tasks \ {t} : Unmoved(u)
    BY <1>1, LeavesOthers DEF Others, Unmoved
  <2>3. Unmoved(t)
    <3>1. at[t] = "idle" => kind[t] = "none"
      BY DEF CallInv, Place, Steps, TypeOK, AllKinds, Transactional, Wrapped, Recorded
    <3>2. CASE (\E k \in Kinds : Start(t, k)) \/ StartChecked(t)
      BY <3>1, <3>2 DEF Start, StartChecked, Unmoved
    <3>3. CASE Retry(t)
      BY <3>3 DEF Retry, TypeOK, Unmoved
    <3>4. CASE ~((\E k \in Kinds : Start(t, k)) \/ StartChecked(t) \/ Retry(t))
      <4>1. UNCHANGED <<kind, tries>>
        BY <1>1, <3>4 DEF TaskStep, Ask, Poll, BeginNested, Grant, Refuse, RaceTimeout, GiveBack,
           QueryTimeout, Proceed, MethodThrows, Fail, CloseOuter, OuterClosed, Look, Report,
           taskVars
      <4> QED
        BY <4>1 DEF Unmoved
    <3> QED
      BY <3>2, <3>3, <3>4
  <2> QED
    BY <2>1, <2>2, <2>3, SessionsLeftAlone
<1>2. ASSUME NEW q \in flight, Execute(q) PROVE Atomic'
  <2>1. UNCHANGED <<kind, tries, timedOut>> /\ \A t \in Tasks : Unmoved(t)
    BY <1>2 DEF Execute, Unmoved
  <2>2. CASE Run(q) /\ q.step \in Recorded /\ executed' = executed \cup {q}
    BY <2>1, <2>2, AtomicRun
  <2>3. CASE Run(q) /\ q.step \notin Recorded /\ executed' = executed
    BY <2>1, <2>3, RunUnrecorded, SessionsLeftAlone DEF Atomic
  <2>4. CASE UNCHANGED <<inTransaction, uncommitted, durable, executed>>
    BY <2>1, <2>4, SessionsLeftAlone
  <2> QED
    BY <1>2, <2>2, <2>3, <2>4 DEF Execute, Recorded
<1>3. CASE Elsewhere \/ UNCHANGED vars
  <2>1. UNCHANGED <<kind, tries, inTransaction, uncommitted, durable, executed, timedOut>>
    BY <1>3, ElsewhereLeaves DEF vars, taskVars, Elsewhere, StateMoves, PoolReady, PoolDrained,
                                 LateRefuse, LateGrant
  <2>2. \A t \in Tasks : Unmoved(t)
    BY <2>1 DEF Unmoved
  <2> QED
    BY <2>1, <2>2, SessionsLeftAlone
<1> QED
  BY <1>1, <1>2, <1>3, NextIs

\* Nothing is open and nothing is durable at first.
LEMMA AtomicInit == Init => Atomic
BY DEF Init, Atomic, SessionInv, Follows, Wrapped

\* The sessions keep their invariant.
THEOREM SessionsInvariant == Spec => []Atomic
<1>1. TypeOK /\ CallInv /\ Atomic /\ [Next]_vars => Atomic'
  BY AtomicNext
<1> QED
  BY <1>1, AtomicInit, CallsInvariant, PTL DEF Spec

\* The documented atomicity, where it does hold: on one session that nobody else used,
\* the work of a call is durable if the call resolved and not if it rejected; with it
\* goes the work of an earlier attempt only if its rollback was not run.
THEOREM AtomicWhereAlone == Spec => []AtomicOnOneSession
<1>1. TypeOK /\ CommitTruth /\ Atomic => AtomicOnOneSession
  <2> SUFFICES ASSUME TypeOK, CommitTruth, Atomic, NEW t \in Tasks, NEW c \in Conns,
                      kind[t] \in Wrapped, Alone(t, c), NEW i \in 1..MaxTries
               PROVE  /\ Succeeded(t, i) => [task |-> t, try |-> i] \in durable
                      /\ outcome[t] = "rejected" \/ (Failed(t, i) /\ Ran(t, i, "rollback"))
                           => [task |-> t, try |-> i] \notin durable
    BY DEF AtomicOnOneSession, Alone
  <2>1. Follows(t, c) /\ tries[t] \in 1..MaxTries
    BY DEF Atomic, TypeOK
  <2>2. Succeeded(t, i) => Done(t, "commit") /\ i = tries[t]
    BY DEF CommitTruth, Succeeded, Done
  <2>3. outcome[t] = "rejected" => ~Done(t, "commit")
    BY <2>1 DEF CommitTruth, Failed, Done, Alone
  <2> QED
    BY <2>1, <2>2, <2>3 DEF Follows, Present
<1> QED
  BY <1>1, CallersToldTheTruth, CallsInvariant, SessionsInvariant, PTL

-----------------------------------------------------------------------------
(* The flag of the transaction manager                                     *)

\* A step of t that is no call of the transaction manager, or moves within a step of
\* one, changes nothing that the flag depends on.
LEMMA FlagLeftAlone ==
  ASSUME TypeOK, FlagInv, NEW t \in Tasks, Others(t),
         overlapped => overlapped', timedOut \subseteq timedOut', UNCHANGED <<active, executed>>,
         Begun' = Begun, Ended' = Ended,
         InManager(t)' => InManager(t) /\ at'[t] = at[t],
         InManager(t)' /\ phase[t] = "failed" => phase'[t] = "failed",
         \A S \in {{"begin"}, {"commit", "rollback"}} :
           (kind'[t] = "manager" /\ at'[t] \in S /\ phase'[t] = "ok")
             <=> (kind[t] = "manager" /\ at[t] \in S /\ phase[t] = "ok")
  PROVE  FlagInv'
<1>1. \A u \in Tasks \ {t} : InManager(u)' <=> InManager(u)
  BY DEF Others, InManager
<1>2. OneInManager => OneInManager'
  BY <1>1 DEF OneInManager
<1>3. ASSUME \A u \in Tasks : FlagOf(u) PROVE \A u \in Tasks : FlagOf(u)'
  <2>1. ASSUME NEW u \in Tasks \ {t} PROVE FlagOf(u)'
    BY <1>1, <1>3, <2>1 DEF FlagOf, Others
  <2>2. FlagOf(t)'
    BY <1>3 DEF FlagOf
  <2> QED
    BY <2>1, <2>2
<1>4. \A S \in {{"begin"}, {"commit", "rollback"}} : Answered(S)' <=> Answered(S)
  BY DEF Answered, Others
<1>5. Opened' <=> Opened
  BY <1>4 DEF Opened
<1> QED
  BY <1>2, <1>3, <1>5 DEF FlagInv

\* A call that is inside the transaction manager is the only one.
LEMMA OnlyOne ==
  ASSUME OneInManager, NEW t \in Tasks, InManager(t)
  PROVE  \A S \in {{"begin"}, {"commit", "rollback"}} :
           Answered(S) <=> at[t] \in S /\ phase[t] = "ok"
<1>1. \A u \in Tasks : kind[u] = "manager" /\ at[u] \in {"begin", "commit", "rollback"}
                         /\ phase[u] = "ok" => InManager(u)
  BY DEF InManager
<1>2. \A u \in Tasks : InManager(u) => u = t
  BY DEF OneInManager
<1>3. kind[t] = "manager"
  BY DEF InManager
<1> QED
  BY <1>1, <1>2, <1>3 DEF Answered

\* Nothing that a call has run is taken back or added by a step that runs nothing.
LEMMA HistoryKept ==
  ASSUME TypeOK, CallInv, UNCHANGED executed,
         \A u \in Tasks : kind'[u] = kind[u] \/ kind[u] = "none"
  PROVE  Begun' = Begun /\ Ended' = Ended
<1>1. \A q \in executed : kind[q.task] # "none" /\ q.task \in Tasks
  BY DEF CallInv, Behind, Steps, Recorded, Wrapped, TypeOK, Statement
<1>2. \A q \in executed : kind'[q.task] = kind[q.task]
  BY <1>1
<1> QED
  BY <1>2 DEF Begun, Ended

\* A call goes on from one of its steps: the flag follows the database.
LEMMA FlagProceed ==
  ASSUME TypeOK, CallInv, FlagInv, NEW t \in Tasks, Proceed(t)
  PROVE  FlagInv'
<1> USE DEF leaseVars, serverVars, historyVars
<1>1. /\ phase[t] = "ok" /\ at[t] \in Steps(kind[t]) \ {"end", "idle"}
      /\ kind[t] \in AllKinds \ {"none"}
  <2>1. phase[t] = "ok" /\ at[t] \notin {"idle", "end"}
    BY DEF Proceed, Settled, CallInv, Place
  <2> QED
    BY <2>1, HasBegun DEF CallInv
<1>2. /\ at'[t] = Successor(kind[t], at[t]) /\ phase'[t] = "ready" /\ Others(t)
      /\ UNCHANGED <<kind, executed, timedOut, overlapped>>
  BY <1>1, AfterIsSuccessor, Entered DEF Proceed, Others
<1>3. Begun' = Begun /\ Ended' = Ended
  BY <1>2, HistoryKept
<1>4. CASE kind[t] # "manager"
  BY <1>1, <1>2, <1>3, <1>4, FlagLeftAlone DEF Proceed, InManager
<1>5. CASE kind[t] = "manager"
  <2>1. /\ at[t] \in {"isolation", "begin", "work", "commit", "rollback"}
        /\ active' = ((active \/ at[t] = "begin") /\ at[t] \notin {"commit", "rollback"})
    BY <1>1, <1>5 DEF Proceed, Steps, Wrapped, Recorded
  <2>2. CASE at[t] = "work"
    <3>1. at'[t] = "commit" /\ UNCHANGED active
      BY <1>2, <1>5, <2>1, <2>2 DEF Successor, Transactional, TypeOK
    <3> QED
      BY <1>2, <1>3, <2>2, <3>1, FlagLeftAlone DEF InManager
  <2>3. CASE at[t] = "isolation"
    <3>1. at'[t] = "begin" /\ UNCHANGED active
      BY <1>2, <2>1, <2>3 DEF Successor, TypeOK
    <3>2. InManager(t) /\ \A u \in Tasks : InManager(u)' <=> InManager(u)
      BY <1>1, <1>2, <1>5, <2>3, <3>1 DEF InManager, Others
    <3>3. OneInManager => OneInManager'
      BY <3>2 DEF OneInManager
    <3>4. \A S \in {{"begin"}, {"commit", "rollback"}} : Answered(S)' <=> Answered(S)
      BY <1>2, <2>3, <3>1 DEF Answered, Others
    <3>5. (\A u \in Tasks : FlagOf(u)) => \A u \in Tasks : FlagOf(u)'
      BY <1>2, <2>3, <3>1, <3>2 DEF FlagOf, Others
    <3>6. Opened' <=> Opened
      BY <1>3, <3>1, <3>4 DEF Opened
    <3> QED
      BY <1>2, <1>3, <3>3, <3>5, <3>6 DEF FlagInv
  <2>4. CASE at[t] \in {"begin", "commit", "rollback"}
    <3>1. /\ InManager(t) /\ ~InManager(t)' /\ at'[t] \in {"work", "end"}
          /\ active' = (at[t] = "begin")
      <4>1. at'[t] \in {"work", "end"}
        BY <1>2, <2>4 DEF Successor
      <4>2. active' = (at[t] = "begin")
        BY <2>1, <2>4 DEF TypeOK
      <4> QED
        BY <1>1, <1>5, <2>4, <4>1, <4>2 DEF InManager
    <3>2. \A u \in Tasks \ {t} : InManager(u)' <=> InManager(u)
      BY <1>2 DEF InManager, Others
    <3>3. OneInManager => OneInManager' /\ \A u \in Tasks : ~InManager(u)'
      BY <3>1, <3>2 DEF OneInManager
    <3>4. ASSUME OneInManager PROVE Opened' <=> Opened
      <4>1. ~Answered({"begin"})' /\ ~Answered({"commit", "rollback"})'
        BY <3>3, <3>4 DEF Answered, InManager
      <4>2. /\ Answered({"begin"}) <=> at[t] = "begin"
            /\ Answered({"commit", "rollback"}) <=> at[t] \in {"commit", "rollback"}
        BY <1>1, <3>1, <3>4, OnlyOne
      <4> QED
        BY <2>4, <3>1, <4>1, <4>2 DEF Opened
    <3> QED
      BY <1>2, <1>3, <3>3, <3>4 DEF FlagInv, FlagOf
  <2> QED
    BY <2>1, <2>2, <2>3, <2>4
<1> QED
  BY <1>4, <1>5

\* A step has failed: a begin that fails resets a flag that is not set.
LEMMA FlagThrow ==
  ASSUME TypeOK, CallInv, FlagInv, NEW t \in Tasks, Fail(t) \/ MethodThrows(t)
  PROVE  FlagInv'
<1> USE DEF leaseVars, serverVars, historyVars
<1>1. /\ at[t] \in Steps(kind[t]) \ {"end", "idle"} /\ kind[t] \in AllKinds \ {"none"}
      /\ phase[t] = "failed" \/ (phase[t] = "ok" /\ at[t] = "work")
  <2>1. /\ phase[t] = "failed" \/ (phase[t] = "ok" /\ at[t] = "work")
        /\ at[t] \notin {"idle", "end"}
    BY DEF Fail, MethodThrows, Settled, CallInv, Place
  <2> QED
    BY <2>1, HasBegun DEF CallInv
<1>2. /\ at'[t] \in {"rollback", "close", "end"} /\ phase'[t] = "ready" /\ Others(t)
      /\ UNCHANGED <<kind, executed, timedOut, overlapped>>
  <2>1. OnError(kind[t], at[t]) \in {"rollback", "close", "end"}
    BY <1>1, WhenItThrows
  <2>2. Enter(t, OnError(kind[t], at[t]), at[t] # "details")
    BY DEF Fail, MethodThrows
  <2> QED
    BY <2>1, <2>2, Entered DEF Fail, MethodThrows, Others
<1>3. Begun' = Begun /\ Ended' = Ended
  BY <1>2, HistoryKept
<1>4. CASE UNCHANGED active
  BY <1>1, <1>2, <1>3, <1>4, FlagLeftAlone DEF InManager
<1>5. CASE active' # active
  <2>1. kind[t] = "manager" /\ at[t] \in {"isolation", "begin"} /\ active /\ phase[t] = "failed"
    BY <1>5 DEF Fail, MethodThrows, Settled, TypeOK
  <2>2. InManager(t) /\ ~FlagOf(t)
    BY <2>1 DEF InManager, FlagOf
  <2>3. OneInManager => OneInManager'
    BY <1>2 DEF OneInManager, InManager, Others
  <2> QED
    BY <1>2, <2>2, <2>3 DEF FlagInv
<1> QED
  BY <1>4, <1>5

\* A call asks for the connection of its next statement.  If it comes into the
\* transaction manager while another is in there, the two have overlapped.
LEMMA FlagAsk ==
  ASSUME TypeOK, CallInv, FlagInv, NEW t \in Tasks, Ask(t)
  PROVE  FlagInv'
<1> USE DEF leaseVars, serverVars
<1>1. /\ phase[t] = "ready" /\ phase'[t] \in {"failed", "asking", "polling"}
      /\ Forbidden(t) => phase'[t] = "failed"
      /\ Others(t) /\ UNCHANGED <<kind, at, executed, active, timedOut>>
  BY DEF Ask, Others, TypeOK
<1>2. Begun' = Begun /\ Ended' = Ended
  BY <1>1, HistoryKept
<1>3. overlapped => overlapped'
  BY DEF Ask, NoteOverlap
<1>4. CASE InManager(t)' => InManager(t)
  BY <1>1, <1>2, <1>3, <1>4, FlagLeftAlone
<1>5. CASE InManager(t)' /\ ~InManager(t)
  <2>1. kind[t] = "manager" /\ at[t] \in {"isolation", "commit", "rollback"}
    BY <1>1, <1>5 DEF InManager
  <2>2. \A u \in Tasks \ {t} : InManager(u)' <=> InManager(u)
    BY <1>1 DEF InManager, Others
  <2>3. ~overlapped' => \A u \in Tasks \ {t} : ~InManager(u)
    BY <2>1 DEF Ask, NoteOverlap
  <2>4. ~overlapped' => OneInManager'
    BY <2>2, <2>3 DEF OneInManager
  <2>5. ASSUME \A u \in Tasks : FlagOf(u), ~overlapped' PROVE \A u \in Tasks : FlagOf(u)'
    <3>1. at[t] = "isolation" => ~active
      BY <2>1 DEF Ask
    <3>2. at[t] \in {"commit", "rollback"} /\ phase'[t] # "failed" => active
      BY <1>1, <2>1 DEF Forbidden
    <3> QED
      BY <1>1, <2>1, <2>2, <2>3, <2>5, <3>1, <3>2 DEF FlagOf
  <2>6. \A S \in {{"begin"}, {"commit", "rollback"}} : Answered(S)' <=> Answered(S)
    BY <1>1 DEF Answered, Others
  <2>7. Opened' <=> Opened
    BY <1>1, <1>2, <2>6 DEF Opened
  <2> QED
    BY <1>1, <1>2, <1>3, <2>4, <2>5, <2>7 DEF FlagInv
<1> QED
  BY <1>4, <1>5

\* The other steps of a call do not touch the flag.
LEMMA FlagOther ==
  ASSUME TypeOK, CallInv, FlagInv, NEW t \in Tasks,
         \/ (\E k \in Kinds : Start(t, k)) \/ StartChecked(t) \/ Retry(t) \/ BeginNested(t)
         \/ (\E c \in Conns : Grant(t, c)) \/ Poll(t) \/ Refuse(t) \/ RaceTimeout(t)
         \/ GiveBack(t) \/ CloseOuter(t) \/ OuterClosed(t) \/ Look(t) \/ Report(t)
  PROVE  FlagInv'
<1> USE DEF leaseVars, serverVars, historyVars, taskVars
<1>1. Place(t)
  BY DEF CallInv
<1>2. UNCHANGED <<active, executed, timedOut>> /\ (overlapped => overlapped')
  <2>1. CASE BeginNested(t)
    BY <2>1 DEF BeginNested, NoteOverlap
  <2>2. CASE \E c \in Conns : Grant(t, c)
    BY <2>2 DEF Grant
  <2>3. CASE (\E k \in Kinds : Start(t, k)) \/ StartChecked(t)
    <3>1. UNCHANGED <<active, executed, timedOut, overlapped>>
      BY <2>3, Zenon DEF Start, StartChecked
    <3> QED
      BY <3>1
  <2>4. CASE Retry(t) \/ Poll(t) \/ Refuse(t) \/ RaceTimeout(t) \/ GiveBack(t)
    BY <2>4 DEF Retry, Poll, Refuse, RaceTimeout, GiveBack
  <2>5. CASE CloseOuter(t) \/ OuterClosed(t) \/ Look(t) \/ Report(t)
    BY <2>5 DEF CloseOuter, OuterClosed, Look, Report
  <2> QED
    BY <2>1, <2>2, <2>3, <2>4, <2>5
<1>3. CASE (\E k \in Kinds : Start(t, k)) \/ StartChecked(t)
  <2>1. kind[t] = "none" /\ at[t] = "idle"
    BY <1>1, <1>3 DEF Start, StartChecked, Place, Steps, TypeOK, AllKinds, Transactional,
                      Wrapped, Recorded
  <2>2. PICK k \in AllKinds \ {"none"} : kind' = [kind EXCEPT ![t] = k]
    BY <1>3, KindsAssumption DEF Start, StartChecked, AllKinds
  <2>3. \E s \in Step, bad \in BOOLEAN : Enter(t, s, bad) /\ (k = "manager" => s = "isolation")
    <3>1. ASSUME NEW j \in Kinds, Start(t, j)
          PROVE  Enter(t, Head(Program(j)), FALSE) /\ Head(Program(j)) \in Step
                 /\ (k = "manager" => Head(Program(j)) = "isolation")
      <4>1. k = j
        BY <2>2, <3>1 DEF Start, TypeOK
      <4>2. Program("manager") = <<"isolation", "begin", "work", "commit">>
        BY DEF Program, ManagerSteps, Wrapped
      <4>3. j = "manager" => Head(Program(j)) = "isolation"
        BY <4>2
      <4>4. Head(Program(j)) \in Step
        BY KindsAssumption, FirstStep, StepsAreSteps
      <4> QED
        BY <3>1, <4>1, <4>3, <4>4 DEF Start
    <3>2. CASE StartChecked(t)
      <4>1. k = "plain"
        BY <2>2, <3>2 DEF StartChecked, TypeOK
      <4> QED
        BY <3>2, <4>1 DEF StartChecked, Step
    <3> QED
      BY <1>3, <3>1, <3>2
  <2>4. /\ phase'[t] = "ready" /\ (kind'[t] = "manager" => at'[t] = "isolation")
        /\ Others(t)
    <3>1. UNCHANGED <<tries, lease, outer>>
      BY <1>3 DEF Start, StartChecked
    <3>2. kind'[t] = k /\ \A u \in Tasks \ {t} : kind'[u] = kind[u]
      BY <2>2 DEF TypeOK
    <3> QED
      BY <2>3, <3>1, <3>2, Entered DEF Others
  <2>5. Begun' = Begun /\ Ended' = Ended
    BY <1>2, <2>1, <2>4, HistoryKept DEF Others
  <2> QED
    BY <1>2, <2>1, <2>4, <2>5, FlagLeftAlone DEF InManager
<1>4. CASE Retry(t) \/ GiveBack(t)
  <2>1. /\ Others(t) /\ UNCHANGED <<kind, phase>>
        /\ at'[t] = at[t] \/ (kind[t] = "manager" =>
                                at'[t] = "isolation" /\ at[t] = "end" /\ phase[t] = "ready")
    <3>1. CASE Retry(t)
      <4>1. Program("manager") = <<"isolation", "begin", "work", "commit">>
        BY DEF Program, ManagerSteps, Wrapped
      <4>2. kind[t] = "manager" => Head(Program(kind[t])) = "isolation"
        BY <4>1
      <4>3. phase[t] = "ready" /\ at[t] = "end" /\ at'[t] = Head(Program(kind[t])) /\ Others(t)
            /\ UNCHANGED <<kind, phase>>
        BY <1>1, <3>1 DEF Retry, Place, Others, TypeOK
      <4> QED
        BY <4>2, <4>3
    <3>2. CASE GiveBack(t)
      BY <3>2 DEF GiveBack, Others, TypeOK
    <3> QED
      BY <1>4, <3>1, <3>2
  <2>2. Begun' = Begun /\ Ended' = Ended
    BY <1>2, <2>1, HistoryKept
  <2> QED
    BY <1>2, <2>1, <2>2, FlagLeftAlone DEF InManager
<1>5. CASE BeginNested(t)
  <2>1. /\ Others(t) /\ UNCHANGED kind /\ at'[t] = "work" /\ phase'[t] = "ready"
        /\ phase[t] = "ready"
    BY <1>5, Entered DEF BeginNested, Others
  <2>2. Begun' = Begun /\ Ended' = Ended
    BY <1>2, <2>1, HistoryKept
  <2> QED
    BY <1>2, <2>1, <2>2, FlagLeftAlone DEF InManager
<1>6. CASE (\E c \in Conns : Grant(t, c)) \/ Poll(t) \/ Refuse(t) \/ RaceTimeout(t)
  <2>1. /\ Others(t) /\ UNCHANGED <<kind, at>> /\ phase[t] \in {"polling", "asking"}
        /\ \/ phase'[t] \in {"asking", "pending", "failed"}
           \/ at[t] = "manage" /\ phase'[t] = "ok"
    BY <1>6 DEF Grant, Poll, Refuse, RaceTimeout, Others, TypeOK
  <2>2. Begun' = Begun /\ Ended' = Ended
    BY <1>2, <2>1, HistoryKept
  <2> QED
    BY <1>2, <2>1, <2>2, FlagLeftAlone DEF InManager
<1>7. CASE CloseOuter(t) \/ OuterClosed(t) \/ Look(t) \/ Report(t)
  <2>1. Others(t) /\ UNCHANGED <<kind, at>> /\ at[t] \in {"close", "look"}
    BY <1>7 DEF CloseOuter, OuterClosed, Look, Report, Others, TypeOK
  <2>2. Begun' = Begun /\ Ended' = Ended
    BY <1>2, <2>1, HistoryKept
  <2> QED
    BY <1>2, <2>1, <2>2, FlagLeftAlone DEF InManager
<1> QED
  BY <1>3, <1>4, <1>5, <1>6, <1>7

\* The database answers BEGIN, COMMIT or ROLLBACK of the transaction manager.
LEMMA FlagExecute ==
  ASSUME TypeOK, CallInv, FlagInv, NEW q \in flight, Execute(q)
  PROVE  FlagInv'
<1> USE DEF leaseVars
<1> DEFINE t == q.task
<1>1. t \in Tasks
  BY DEF TypeOK, Statement
<1>2. UNCHANGED <<kind, at, tries, outcome, lease, outer, active, timedOut, overlapped>>
  BY DEF Execute
<1>3. PICK a \in {"ok", "failed"} :
        /\ Answer(q, a)
        /\ executed' = IF a = "ok" /\ q.step \in Recorded THEN executed \cup {q} ELSE executed
  BY DEF Execute, Recorded
<1>4. /\ Awaited(q) /\ q.step \in Steps(kind[t])
      /\ \A u \in Tasks \ {t} : phase'[u] = phase[u]
      /\ phase'[t] = a \/ phase'[t] = phase[t]
      /\ timedOut = {} =>
           at[t] = q.step /\ q.try = tries[t] /\ phase[t] = "pending" /\ phase'[t] = a
      /\ phase'[t] # phase[t] => phase[t] = "pending" /\ at[t] = q.step
  <2>1. Awaited(q)
    BY DEF CallInv
  <2> QED
    BY <1>1, <1>3, <2>1 DEF Answer, Awaited, TypeOK
<1>5. Others(t)
  BY <1>2, <1>4 DEF Others
<1>6. OneInManager => OneInManager'
  <2>1. \A u \in Tasks : InManager(u)' => InManager(u)
    BY <1>2, <1>3, <1>4 DEF InManager
  <2> QED
    BY <2>1 DEF OneInManager
<1>7. ASSUME ~overlapped, timedOut = {}
      PROVE  /\ \A u \in Tasks : FlagOf(u)'
             /\ Cardinality(Begun') = Cardinality(Ended') + (IF Opened' THEN 1 ELSE 0)
  <2>1. /\ OneInManager /\ \A u \in Tasks : FlagOf(u)
        /\ Cardinality(Begun) = Cardinality(Ended) + (IF Opened THEN 1 ELSE 0)
    BY <1>7 DEF FlagInv
  <2>2. at[t] = q.step /\ phase[t] = "pending" /\ phase'[t] = a
    BY <1>4, <1>7
  <2>3. \A u \in Tasks : FlagOf(u)'
    BY <1>2, <1>4, <2>1, <2>2 DEF FlagOf, InManager
  <2>4. CASE kind[t] # "manager" \/ a = "failed" \/ at[t] \notin {"begin", "commit", "rollback"}
    <3>1. \A S \in {{"begin"}, {"commit", "rollback"}} : Answered(S)' <=> Answered(S)
      BY <1>2, <1>4, <2>2, <2>4 DEF Answered
    <3>2. Begun' = Begun /\ Ended' = Ended
      BY <1>2, <1>3, <2>2, <2>4 DEF Begun, Ended
    <3>3. Opened' <=> Opened
      BY <1>2, <3>1 DEF Opened
    <3> QED
      BY <2>1, <2>3, <3>2, <3>3
  <2>5. CASE kind[t] = "manager" /\ a = "ok" /\ at[t] \in {"begin", "commit", "rollback"}
    <3>1. InManager(t) /\ InManager(t)' /\ executed' = executed \cup {q}
      BY <1>2, <1>3, <2>2, <2>5 DEF InManager, Recorded
    <3>2. /\ Opened <=> active
          /\ Opened' <=> at[t] = "begin" \/ (active /\ at[t] \notin {"commit", "rollback"})
      <4>1. ~Answered({"begin"}) /\ ~Answered({"commit", "rollback"})
        BY <1>1, <2>1, <2>2, <3>1, OnlyOne
      <4>2. /\ Answered({"begin"})' <=> at[t] = "begin"
            /\ Answered({"commit", "rollback"})' <=> at[t] \in {"commit", "rollback"}
        BY <1>1, <1>2, <1>4, <2>2, <2>5, <4>1 DEF Answered
      <4> QED
        BY <1>2, <4>1, <4>2 DEF Opened
    <3>3. /\ IsFiniteSet(Begun) /\ IsFiniteSet(Ended)
          /\ Cardinality(Begun) \in Nat /\ Cardinality(Ended) \in Nat
      BY FS_Subset, FS_CardinalityType DEF FlagInv, Begun, Ended
    <3>4. q \notin executed
      <4>1. q.try = tries[t] /\ tries[t] \in Nat
        BY <1>1, <1>4, <1>7 DEF TypeOK
      <4> QED
        BY <1>7, <2>2, <2>5, <4>1 DEF CallInv, Behind
    <3>6. CASE at[t] = "begin"
      <4>1. ~active
        BY <1>1, <2>1, <3>1, <3>6 DEF FlagOf
      <4>2. Begun' = Begun \cup {q} /\ q \notin Begun /\ Ended' = Ended
        BY <1>2, <2>2, <2>5, <3>1, <3>4, <3>6 DEF Begun, Ended
      <4>3. Cardinality(Begun') = Cardinality(Begun) + 1
        BY <3>3, <4>2, FS_AddElement
      <4> QED
        BY <2>1, <2>3, <3>2, <3>3, <3>6, <4>1, <4>2, <4>3
    <3>7. CASE at[t] \in {"commit", "rollback"}
      <4>1. active
        BY <1>1, <2>1, <2>2, <3>1, <3>7 DEF FlagOf
      <4>2. Ended' = Ended \cup {q} /\ q \notin Ended /\ Begun' = Begun
        BY <1>2, <2>2, <2>5, <3>1, <3>4, <3>7 DEF Begun, Ended
      <4>3. Cardinality(Ended') = Cardinality(Ended) + 1
        BY <3>3, <4>2, FS_AddElement
      <4> QED
        BY <2>1, <2>3, <3>2, <3>3, <3>7, <4>1, <4>2, <4>3
    <3> QED
      BY <2>5, <3>6, <3>7
  <2> QED
    BY <1>3, <2>4, <2>5
<1>8. IsFiniteSet(executed')
  BY <1>3, FS_AddElement DEF FlagInv
<1> QED
  BY <1>2, <1>6, <1>7, <1>8 DEF FlagInv

\* Every step keeps it.
LEMMA FlagNext ==
  ASSUME TypeOK, CallInv, FlagInv, [Next]_vars
  PROVE  FlagInv'
<1>1. ASSUME NEW t \in Tasks, TaskStep(t) PROVE FlagInv'
  <2>1. CASE QueryTimeout(t)
    <3>1. timedOut' # {} /\ UNCHANGED <<kind, at, overlapped, executed>>
          /\ \A u \in Tasks : phase[u] = "ready" <=> phase'[u] = "ready"
      BY <2>1 DEF QueryTimeout, TypeOK, serverVars
    <3>2. OneInManager => OneInManager'
      BY <3>1 DEF OneInManager, InManager
    <3> QED
      BY <3>1, <3>2 DEF FlagInv
  <2> QED
    BY <1>1, <2>1, FlagProceed, FlagThrow, FlagAsk, FlagOther DEF TaskStep
<1>2. CASE Elsewhere \/ UNCHANGED vars
  <2>1. UNCHANGED <<kind, at, phase, overlapped, active, timedOut, executed>>
    BY <1>2, ElsewhereLeaves DEF vars, taskVars, serverVars, historyVars, Elsewhere, StateMoves,
       PoolReady, PoolDrained, LateRefuse, LateGrant
  <2> QED
    BY <2>1 DEF FlagInv, OneInManager, InManager, FlagOf, Opened, Answered, Begun,
                Ended
<1> QED
  BY <1>1, <1>2, FlagExecute, NextIs

\* Nobody has begun and nobody has ended.
LEMMA FlagInit == Init => FlagInv
<1> SUFFICES ASSUME Init PROVE FlagInv
  OBVIOUS
<1>1. executed = {} /\ Begun = {} /\ Ended = {} /\ ~Opened
  BY DEF Init, Begun, Ended, Opened, Answered
<1>2. \A t \in Tasks : ~InManager(t)
  BY DEF Init, InManager
<1> QED
  BY <1>1, <1>2, FS_EmptySet DEF FlagInv, OneInManager, FlagOf

\* The flag keeps its invariant.
THEOREM FlagInvariant == Spec => []FlagInv
<1>1. TypeOK /\ CallInv /\ FlagInv /\ [Next]_vars => FlagInv'
  BY FlagNext
<1> QED
  BY <1>1, FlagInit, CallsInvariant, PTL DEF Spec

\* Without overlap and time-outs the flag is set, whenever no call of the transaction
\* manager is under way, exactly if one more BEGIN has been run for it than COMMITs and
\* ROLLBACKs, on whatever sessions these were run.
THEOREM FlagTellsTheTruth == Spec => []FlagTruth
<1>1. FlagInv => FlagTruth
  <2> SUFFICES ASSUME FlagInv, ~overlapped, timedOut = {}, \A t \in Tasks : ~InManager(t)
               PROVE  active <=> Cardinality(Begun) > Cardinality(Ended)
    BY DEF FlagTruth
  <2>1. ~Answered({"begin"}) /\ ~Answered({"commit", "rollback"})
    BY DEF Answered, InManager
  <2>2. Cardinality(Begun) = Cardinality(Ended) + (IF active THEN 1 ELSE 0)
    BY <2>1 DEF FlagInv, Opened
  <2>3. Cardinality(Begun) \in Nat /\ Cardinality(Ended) \in Nat
    BY FS_Subset, FS_CardinalityType DEF FlagInv, Begun, Ended
  <2> QED
    BY <2>2, <2>3
<1> QED
  BY <1>1, FlagInvariant, PTL

-----------------------------------------------------------------------------
(* The connections                                                         *)

\* The requests that are with the pool: those whose call waits, and those whose timer
\* has gone off.
Asking == {r \in Request : r \in overdue \/ (phase[r.task] = "asking" /\ r = Current(r.task))}

\* What is had for a request: by its call while its step lasts (@Query and @Connection
\* keep theirs longer), or by nobody, for good.
HeldBy(r) ==
  IF r.try # tries[r.task] THEN NoConn
  ELSE IF r.step = "manage" THEN outer[r.task]
  ELSE IF r.step = at[r.task] THEN lease[r.task] ELSE NoConn
LostFor(r) == {q \in lost : RequestOf(q) = r}
Held(r) == IF LostFor(r) # {} THEN (CHOOSE q \in LostFor(r) : TRUE).conn ELSE HeldBy(r)
held == [r \in Request |-> Held(r)]

\* The pool as its clients see it: a client is one request of a call.
CL == INSTANCE ConnectionLease WITH Clients <- Request, asking <- Asking, held <- held

\* All that is known of a state.
AllInv == TypeOK /\ CallInv /\ LossInv

\* A connection that is lost is had for its request.
LEMMA LostIsHeld ==
  ASSUME AllInv, NEW q \in lost
  PROVE  Held(RequestOf(q)) = q.conn
BY DEF AllInv, LossInv, Held, LostFor

\* For the other requests it is the call that has a connection.
LEMMA NotLostIsHeldBy ==
  ASSUME NEW r, \A q \in lost : RequestOf(q) # r
  PROVE  Held(r) = HeldBy(r)
BY DEF Held, LostFor

\* A call has nothing for a request it is done with.
LEMMA GoneHoldsNothing ==
  ASSUME AllInv, NEW r \in Request, Gone(r)
  PROVE  HeldBy(r) = NoConn
<1>1. /\ r.task \in Tasks /\ Holding(r.task) /\ Place(r.task) /\ r.try \in Nat
      /\ tries[r.task] \in Nat /\ Rank(r.step) \in Nat
  BY DEF AllInv, CallInv, Request, TypeOK, Rank
<1> QED
  BY <1>1 DEF Gone, HeldBy, Holding, Place

\* What a request is of, and what a call has that comes to a step: nothing yet.
LEMMA HoldsNothingYet ==
  ASSUME AllInv, NEW t \in Tasks, phase[t] \in {"ready", "polling", "asking"},
         at[t] # "close"
  PROVE  /\ ~Gone(Current(t)) /\ Current(t) \notin overdue
         /\ \A q \in lost : RequestOf(q) # Current(t)
         /\ held[Current(t)] = NoConn
<1>1. /\ Current(t).task = t /\ Current(t).try = tries[t] /\ Current(t).step = at[t]
      /\ tries[t] \in Nat /\ Rank(at[t]) \in Nat /\ Current(t) \in Request
  BY CurrentTypes DEF Current, TypeOK, Rank, AllInv
<1>2. ~Gone(Current(t))
  BY <1>1 DEF Gone
<1>3. Current(t) \notin overdue /\ \A q \in lost : RequestOf(q) # Current(t)
  BY <1>2 DEF AllInv, LossInv
<1>4. HeldBy(Current(t)) = NoConn
  BY <1>1 DEF AllInv, CallInv, Holding, HeldBy
<1> QED
  BY <1>1, <1>2, <1>3, <1>4, NotLostIsHeldBy DEF held

\* A free connection is had for no request.
LEMMA FreeIsNotTaken ==
  ASSUME AllInv, NEW c \in Conns, Free(c)
  PROVE  c \notin CL!Taken
<1>1. ASSUME NEW r \in Request PROVE Held(r) # c
  <2>1. c # NoConn /\ r.task \in Tasks
    BY SessionsAssumption DEF NoConn, Request
  <2>2. CASE \E q \in lost : RequestOf(q) = r
    BY <2>2, LostIsHeld DEF Free
  <2>3. CASE \A q \in lost : RequestOf(q) # r
    BY <2>1, <2>3, NotLostIsHeldBy DEF Free, HeldBy
  <2> QED
    BY <2>2, <2>3
<1>2. \A r \in Request : held[r] # c
  BY <1>1 DEF held
<1> QED
  BY <1>2 DEF CL!Taken

\* A step that changes what is had for one request, or for none.
LEMMA OneChanges ==
  ASSUME NEW r \in Request, NEW c,
         Held(r)' = c, \A p \in Request : p # r => Held(p)' = Held(p)
  PROVE  held' = [held EXCEPT ![r] = c]
<1>1. held' = [p \in Request |-> Held(p)']
  BY DEF held
<1> QED
  BY <1>1 DEF held

\* The call that moves has nothing, or does not move far.
LEMMA HeldKept ==
  ASSUME NEW t \in Tasks, Others(t), UNCHANGED <<lost, lease, outer>>,
         \/ UNCHANGED <<at, tries>>
         \/ lease[t] = NoConn /\ (tries'[t] = tries[t] \/ outer[t] = NoConn)
  PROVE  held' = held
<1>1. ASSUME NEW r \in Request PROVE Held(r)' = Held(r)
  <2>1. HeldBy(r)' = HeldBy(r)
    <3>1. r.task \in Tasks
      BY DEF Request
    <3>2. CASE r.task = t
      BY <3>2 DEF HeldBy
    <3>3. CASE r.task # t
      BY <3>1, <3>3 DEF HeldBy, Others
    <3> QED
      BY <3>2, <3>3
  <2>2. LostFor(r)' = LostFor(r)
    BY DEF LostFor
  <2> QED
    BY <2>1, <2>2 DEF Held
<1> QED
  BY <1>1 DEF held

\* The requests of the other calls stay with the pool.
LEMMA AskingOthers ==
  ASSUME NEW t \in Tasks, Others(t), NEW r \in Request, r.task # t
  PROVE  (phase'[r.task] = "asking" /\ r = Current(r.task)')
           <=> (phase[r.task] = "asking" /\ r = Current(r.task))
<1>1. r.task \in Tasks
  BY DEF Request
<1> QED
  BY <1>1 DEF Others, Current

\* A call that does not wait for the pool, before or after.
LEMMA AskingKept ==
  ASSUME NEW t \in Tasks, Others(t), UNCHANGED overdue,
         phase[t] # "asking", phase'[t] # "asking"
  PROVE  Asking' = Asking
BY AskingOthers DEF Asking

\* What the pool promises, of one step.
Promised == [CL!Next]_(CL!leaseVars)

\* A call asks, or is left polling.
LEMMA AskPromised ==
  ASSUME AllInv, AllInv', NEW t \in Tasks, Ask(t) \/ Poll(t)
  PROVE  Promised
<1> USE DEF leaseVars, taskVars
<1>1. /\ Others(t) /\ UNCHANGED <<lost, lease, outer, at, tries, overdue>>
      /\ phase[t] \in {"ready", "polling"} /\ at[t] # "close"
  <2>1. Others(t)
    BY LeavesOthers DEF AllInv, TaskStep
  <2>2. phase[t] = "polling" => at[t] # "close"
    BY DEF AllInv, CallInv, Place
  <2> QED
    BY <2>1, <2>2 DEF Ask, Poll
<1>2. held' = held
  BY <1>1, HeldKept
<1>3. CASE phase'[t] # "asking"
  <2>1. Asking' = Asking
    BY <1>1, <1>3, AskingKept
  <2> QED
    BY <1>2, <2>1 DEF Promised, CL!leaseVars
<1>4. CASE phase'[t] = "asking"
  <2>1. PICK r \in Request : r = Current(t) /\ r.task = t /\ Current(t)' = r
    BY <1>1, CurrentTypes DEF AllInv, Current
  <2>2. held[r] = NoConn /\ r \notin overdue
    BY <1>1, <2>1, HoldsNothingYet
  <2>3. r \notin Asking
    BY <1>1, <2>1, <2>2 DEF Asking
  <2>4. ASSUME NEW p \in Request PROVE p \in Asking' <=> p \in Asking \cup {r}
    <3>1. CASE p.task = t
      BY <1>1, <1>4, <2>1, <3>1 DEF Asking
    <3>2. CASE p.task # t
      BY <1>1, <2>1, <3>2, AskingOthers DEF Asking
    <3> QED
      BY <3>1, <3>2
  <2>5. Asking' = Asking \cup {r}
    BY <2>4 DEF Asking
  <2>6. CL!Ask(r)
    BY <1>2, <2>2, <2>3, <2>5 DEF CL!Ask
  <2> QED
    BY <2>6 DEF Promised, CL!Next
<1> QED
  BY <1>3, <1>4

\* A request is settled: it was with the pool, and is no more.
LEMMA AskingSettled ==
  ASSUME AllInv, NEW t \in Tasks, Others(t), UNCHANGED <<overdue, at, tries>>,
         phase[t] = "asking", phase'[t] # "asking"
  PROVE  Asking' = Asking \ {Current(t)} /\ Current(t) \in Asking
<1>1. at[t] # "close" /\ Current(t) \in Request /\ Current(t).task = t
  BY CurrentTypes DEF AllInv, CallInv, Place, Current
<1>2. Current(t) \notin overdue
  BY <1>1, HoldsNothingYet
<1>3. ASSUME NEW p \in Request PROVE p \in Asking' <=> p \in Asking /\ p # Current(t)
  <2>1. CASE p.task = t
    BY <1>2, <2>1 DEF Asking
  <2>2. CASE p.task # t
    BY <1>1, <2>2, AskingOthers DEF Asking
  <2> QED
    BY <2>1, <2>2
<1>4. Asking' = Asking \ {Current(t)}
  BY <1>3 DEF Asking
<1> QED
  BY <1>1, <1>4 DEF Asking

\* A grant is of a connection nobody has, to a request that has none.
LEMMA GrantPromised ==
  ASSUME AllInv, AllInv', NEW t \in Tasks, NEW c \in Conns, Grant(t, c)
  PROVE  Promised
<1>1. /\ Others(t) /\ UNCHANGED <<at, tries, overdue>> /\ phase[t] = "asking"
      /\ phase'[t] # "asking" /\ Free(c) /\ at[t] # "close"
  <2>1. Others(t)
    BY LeavesOthers DEF AllInv, TaskStep
  <2>2. phase[t] = "asking" => at[t] # "close"
    BY DEF AllInv, CallInv, Place
  <2>3. phase[t] = "asking" /\ phase'[t] # "asking" /\ Free(c)
    BY DEF Grant, AllInv, TypeOK, FirstFree
  <2>4. UNCHANGED <<at, tries, overdue>>
    BY DEF Grant
  <2> QED
    BY <2>1, <2>2, <2>3, <2>4
<1>2. PICK r \in Request : /\ r = Current(t) /\ r.task = t /\ r.try = tries[t] /\ r.step = at[t]
  BY CurrentTypes DEF AllInv, Current
<1>3. /\ held[r] = NoConn /\ c \notin CL!Taken /\ Asking' = Asking \ {r}
      /\ \A q \in lost : RequestOf(q) # r
  BY <1>1, <1>2, HoldsNothingYet, FreeIsNotTaken, AskingSettled
<1>4. ASSUME NEW p \in Request, p # r, UNCHANGED lost,
             lease'[t] = lease[t] \/ at[t] # "manage", outer'[t] = outer[t] \/ at[t] = "manage",
             lease'[t] = lease[t] \/ outer'[t] = outer[t]
      PROVE  Held(p)' = Held(p)
  <2>1. HeldBy(p)' = HeldBy(p)
    <3>1. CASE p.task = t
      <4>1. p.try # tries[t] \/ p.step # at[t]
        BY <1>2, <1>4, <3>1 DEF Request
      <4> QED
        BY <1>1, <1>4, <3>1, <4>1 DEF HeldBy
    <3>2. CASE p.task # t
      BY <1>1, <3>2 DEF HeldBy, Others, Request
    <3> QED
      BY <3>1, <3>2
  <2> QED
    BY <1>4, <2>1 DEF Held, LostFor
<1>5. held' = [held EXCEPT ![r] = c]
  <2>1. CASE at[t] # "details"
    <3>1. UNCHANGED lost /\ \/ at[t] = "manage" /\ outer'[t] = c /\ UNCHANGED lease
                            \/ at[t] # "manage" /\ lease'[t] = c /\ UNCHANGED outer
      BY <2>1 DEF Grant, AllInv, TypeOK
    <3>2. Held(r)' = c
      <4>1. Held(r)' = HeldBy(r)'
        BY <1>3, <3>1 DEF Held, LostFor
      <4>2. HeldBy(r)' = c
        BY <1>1, <1>2, <3>1 DEF HeldBy
      <4> QED
        BY <4>1, <4>2
    <3>3. \A p \in Request : p # r => Held(p)' = Held(p)
      BY <1>4, <3>1
    <3> QED
      BY <3>2, <3>3, OneChanges
  <2>2. CASE at[t] = "details"
    <3>1. PICK q \in Statement : q = Given(r, c) /\ RequestOf(q) = r /\ q.conn = c
      BY <1>2, CurrentTypes DEF AllInv, Given, RequestOf, Current
    <3>2. lost' = lost \cup {q} /\ UNCHANGED <<lease, outer>>
      BY <1>2, <2>2, <3>1 DEF Grant
    <3>3. LostFor(r)' = {q}
      BY <1>3, <3>1, <3>2 DEF LostFor
    <3>4. Held(r)' = c
      BY <3>1, <3>3 DEF Held
    <3>5. ASSUME NEW p \in Request, p # r PROVE Held(p)' = Held(p)
      <4>1. LostFor(p)' = LostFor(p)
        BY <3>1, <3>2, <3>5 DEF LostFor
      <4>2. HeldBy(p)' = HeldBy(p)
        BY <1>1, <3>2 DEF HeldBy
      <4> QED
        BY <4>1, <4>2 DEF Held
    <3> QED
      BY <3>4, <3>5, OneChanges
  <2> QED
    BY <2>1, <2>2
<1>6. CL!Grant(r, c)
  BY <1>3, <1>5 DEF CL!Grant
<1> QED
  BY <1>6 DEF Promised, CL!Next

\* The pool turns a request away, or its timer goes off while it stays with the pool.
LEMMA RefusePromised ==
  ASSUME AllInv, AllInv', NEW t \in Tasks, Refuse(t) \/ RaceTimeout(t)
  PROVE  Promised
<1> USE DEF leaseVars
<1>1. /\ Others(t) /\ UNCHANGED <<lost, lease, outer, at, tries>>
      /\ phase[t] = "asking" /\ phase'[t] # "asking"
  <2>1. Others(t)
    BY LeavesOthers DEF AllInv, TaskStep
  <2> QED
    BY <2>1 DEF Refuse, RaceTimeout, AllInv, TypeOK
<1>2. held' = held
  BY <1>1, HeldKept
<1>3. CASE Refuse(t)
  <2>1. Asking' = Asking \ {Current(t)} /\ Current(t) \in Asking
    BY <1>1, <1>3, AskingSettled DEF Refuse
  <2>2. PICK S \in SUBSET Request : S = {Current(t)}
    BY CurrentTypes DEF AllInv
  <2>3. CL!TurnAway(S)
    BY <1>2, <2>1, <2>2 DEF CL!TurnAway
  <2> QED
    BY <2>3 DEF Promised, CL!Next
<1>4. CASE RaceTimeout(t)
  <2>1. overdue' = overdue \cup {Current(t)} /\ Current(t).task = t
    BY <1>4 DEF RaceTimeout, Current
  <2>2. ASSUME NEW p \in Request PROVE p \in Asking' <=> p \in Asking
    <3>1. CASE p.task = t
      BY <1>1, <2>1, <3>1 DEF Asking
    <3>2. CASE p.task # t
      BY <1>1, <2>1, <3>2, AskingOthers DEF Asking
    <3> QED
      BY <3>1, <3>2
  <2>3. Asking' = Asking
    BY <2>2 DEF Asking
  <2> QED
    BY <1>2, <2>3 DEF Promised, CL!leaseVars
<1> QED
  BY <1>3, <1>4

\* The pool settles a request nobody awaits.
LEMMA LatePromised ==
  ASSUME AllInv, NEW r \in overdue, LateRefuse(r) \/ \E c \in Conns : LateGrant(r, c)
  PROVE  Promised
<1> USE DEF leaseVars, taskVars
<1>1. /\ overdue' = overdue \ {r} /\ r \in Request /\ Gone(r)
      /\ UNCHANGED <<kind, at, phase, tries, outcome, lease, outer>>
  BY DEF LateRefuse, LateGrant, AllInv, TypeOK, LossInv
<1>2. r \in Asking /\ Asking' = Asking \ {r}
  <2>1. ~(phase[r.task] = "asking" /\ r = Current(r.task))
    BY <1>1, NotGone DEF AllInv, Request
  <2> QED
    BY <1>1, <2>1 DEF Asking, Current
<1>3. \A p : HeldBy(p)' = HeldBy(p)
  BY <1>1 DEF HeldBy
<1>4. CASE LateRefuse(r)
  <2>1. held' = held
    BY <1>3, <1>4 DEF held, Held, LostFor, LateRefuse
  <2>2. PICK S \in SUBSET Request : S = {r}
    BY <1>1
  <2>3. CL!TurnAway(S)
    BY <1>2, <2>1, <2>2 DEF CL!TurnAway
  <2> QED
    BY <2>3 DEF Promised, CL!Next
<1>5. ASSUME NEW c \in Conns, LateGrant(r, c) PROVE Promised
  <2>0. Given(r, c) \in Statement /\ RequestOf(Given(r, c)) = r /\ Given(r, c).conn = c
    BY <1>1 DEF Given, RequestOf, Request, Statement
  <2>1. PICK q \in Statement : q = Given(r, c) /\ RequestOf(q) = r /\ q.conn = c
    BY <2>0
  <2>2. lost' = lost \cup {q} /\ Free(c) /\ \A p \in lost : RequestOf(p) # r
    BY <1>5, <2>1 DEF LateGrant, FirstFree, AllInv, LossInv
  <2>3. held[r] = NoConn /\ c \notin CL!Taken
    BY <1>1, <2>2, FreeIsNotTaken, GoneHoldsNothing, NotLostIsHeldBy DEF held
  <2>4. LostFor(r)' = {q}
    BY <2>1, <2>2 DEF LostFor
  <2>5. Held(r)' = c
    BY <2>1, <2>4 DEF Held
  <2>6. ASSUME NEW p \in Request, p # r PROVE Held(p)' = Held(p)
    <3>1. LostFor(p)' = LostFor(p)
      BY <2>1, <2>2, <2>6 DEF LostFor
    <3> QED
      BY <1>3, <3>1 DEF Held
  <2>7. held' = [held EXCEPT ![r] = c]
    BY <1>1, <2>5, <2>6, OneChanges
  <2>8. CL!Grant(r, c)
    BY <1>2, <2>3, <2>7 DEF CL!Grant
  <2> QED
    BY <1>1, <2>8 DEF Promised, CL!Next
<1> QED
  BY <1>4, <1>5

\* The end of a statement, and of @Query and @Connection, returns the connection it has.
LEMMA GiveBackPromised ==
  ASSUME AllInv, AllInv', NEW t \in Tasks, GiveBack(t) \/ OuterClosed(t)
  PROVE  Promised
<1> USE DEF taskVars
<1>1. Others(t) /\ UNCHANGED <<lost, at, tries, overdue>> /\ Asking' = Asking
  <2>1. Others(t)
    BY LeavesOthers DEF AllInv, TaskStep
  <2>2. phase[t] # "asking" /\ phase'[t] # "asking" /\ UNCHANGED <<lost, at, tries, overdue>>
    BY DEF GiveBack, OuterClosed, AllInv, CallInv, Holding, TypeOK
  <2> QED
    BY <2>1, <2>2, AskingKept
<1>2. PICK r \in Request :
        /\ r.task = t /\ r.try = tries[t]
        /\ r.step = IF GiveBack(t) THEN at[t] ELSE "manage"
        /\ \A p \in Request : p.task = t /\ p.try = tries[t] /\ p.step = r.step => p = r
  <2> DEFINE s == IF GiveBack(t) THEN at[t] ELSE "manage"
             r == [task |-> t, try |-> tries[t], step |-> s]
  <2>1. s \in Step /\ tries[t] \in 1..MaxTries
    BY DEF AllInv, TypeOK, Step
  <2>2. r \in Request
    BY <2>1 DEF Request
  <2>3. \A p \in Request : p.task = t /\ p.try = tries[t] /\ p.step = s => p = r
    BY DEF Request
  <2> QED
    BY <2>2, <2>3
<1>3. ~Gone(r) /\ \A q \in lost : RequestOf(q) # r
  <2>1. tries[t] \in Nat /\ Rank(at[t]) \in Nat
    BY DEF AllInv, TypeOK, Rank
  <2>2. CASE GiveBack(t)
    BY <1>2, <2>1, <2>2 DEF GiveBack, Gone, AllInv, LossInv
  <2>3. CASE ~GiveBack(t)
    BY <1>2, <2>1, <2>3 DEF OuterClosed, Gone, AllInv, LossInv
  <2> QED
    BY <2>2, <2>3
<1>4. held[r] = HeldBy(r)
  BY <1>3, NotLostIsHeldBy DEF held
<1>5. ASSUME NEW p \in Request, p # r PROVE Held(p)' = Held(p)
  <2>1. HeldBy(p)' = HeldBy(p)
    <3>1. CASE p.task # t
      BY <1>1, <3>1 DEF HeldBy, Others, Request
    <3>2. CASE p.task = t
      <4>1. p.try # tries[t] \/ p.step # r.step
        BY <1>2, <1>5, <3>2
      <4>2. CASE GiveBack(t)
        BY <1>1, <1>2, <3>2, <4>1, <4>2 DEF HeldBy, GiveBack
      <4>3. CASE ~GiveBack(t)
        BY <1>1, <1>2, <3>2, <4>1, <4>3 DEF HeldBy, OuterClosed
      <4> QED
        BY <4>2, <4>3
    <3> QED
      BY <3>1, <3>2
  <2> QED
    BY <1>1, <2>1 DEF Held, LostFor
<1>6. Held(r)' = NoConn
  <2>1. Held(r)' = HeldBy(r)'
    BY <1>1, <1>3 DEF Held, LostFor
  <2>2. CASE GiveBack(t)
    <3>1. at[t] # "manage"
      BY <2>2 DEF GiveBack, AllInv, CallInv, Holding, Sent, Recorded
    <3> QED
      BY <1>1, <1>2, <2>1, <2>2, <3>1 DEF HeldBy, GiveBack, AllInv, TypeOK
  <2>3. CASE ~GiveBack(t)
    BY <1>1, <1>2, <2>1, <2>3 DEF HeldBy, OuterClosed, AllInv, TypeOK
  <2> QED
    BY <2>2, <2>3
<1>7. held' = [held EXCEPT ![r] = NoConn]
  BY <1>5, <1>6, OneChanges
<1>8. CASE held[r] # NoConn
  <2>1. CL!Return(r)
    BY <1>1, <1>7, <1>8 DEF CL!Return
  <2> QED
    BY <2>1 DEF Promised, CL!Next
<1>9. CASE held[r] = NoConn
  <2>1. held' = held
    BY <1>7, <1>9 DEF held
  <2> QED
    BY <1>1, <2>1 DEF Promised, CL!leaseVars
<1> QED
  BY <1>8, <1>9

\* A call that goes from one step to another has neither a lease nor a request.
LEMMA MovePromised ==
  ASSUME AllInv, AllInv', NEW t \in Tasks,
         \/ (\E k \in Kinds : Start(t, k)) \/ StartChecked(t) \/ Retry(t) \/ BeginNested(t)
         \/ Proceed(t) \/ MethodThrows(t) \/ Fail(t)
         \/ QueryTimeout(t) \/ CloseOuter(t) \/ Look(t) \/ Report(t)
  PROVE  Promised
<1> USE DEF leaseVars, taskVars
<1>1. Others(t)
  BY LeavesOthers DEF AllInv, TaskStep
<1>2. UNCHANGED <<lost, lease, outer, overdue>>
  BY Zenon DEF Start, StartChecked, Retry, BeginNested, Proceed, MethodThrows, Fail, QueryTimeout,
         CloseOuter, Look, Report
<1>3. CASE QueryTimeout(t) \/ CloseOuter(t) \/ Look(t) \/ Report(t)
  <2>1. UNCHANGED <<at, tries>> /\ phase[t] # "asking" /\ phase'[t] # "asking"
    BY <1>3 DEF QueryTimeout, CloseOuter, Look, Report, AllInv, TypeOK
  <2> QED
    BY <1>1, <1>2, <2>1, HeldKept, AskingKept DEF Promised, CL!leaseVars
<1>4. CASE Retry(t)
  <2>1. at[t] = "end" /\ UNCHANGED phase
    BY <1>4 DEF Retry
  <2>2. phase[t] = "ready" /\ lease[t] = NoConn /\ outer[t] = NoConn
    BY <2>1 DEF AllInv, CallInv, Place, Holding, Sent, Recorded
  <2> QED
    BY <1>1, <1>2, <2>1, <2>2, HeldKept, AskingKept DEF Promised, CL!leaseVars
<1>5. CASE (\E k \in Kinds : Start(t, k)) \/ StartChecked(t) \/ BeginNested(t)
           \/ Proceed(t) \/ MethodThrows(t) \/ Fail(t)
  <2>1. \E s : \E bad \in BOOLEAN : Enter(t, s, bad)
    <3>1. CASE (\E k \in Kinds : Start(t, k)) \/ StartChecked(t)
      BY <3>1 DEF Start, StartChecked
    <3>2. CASE BeginNested(t) \/ Proceed(t)
      BY <3>2 DEF BeginNested, Proceed
    <3>3. CASE MethodThrows(t) \/ Fail(t)
      BY <3>3 DEF MethodThrows, Fail
    <3> QED
      BY <1>5, <3>1, <3>2, <3>3
  <2>2. phase'[t] = "ready"
    BY <2>1, Entered DEF AllInv
  <2>3. tries' = tries
    BY Zenon, <1>5 DEF Start, StartChecked, BeginNested, Proceed, MethodThrows, Fail
  <2>4. phase[t] # "asking" /\ lease[t] = NoConn
    <3>1. CASE (\E k \in Kinds : Start(t, k)) \/ StartChecked(t)
      <4>1. at[t] = "idle"
        BY <3>1 DEF Start, StartChecked
      <4> QED
        BY <4>1 DEF AllInv, CallInv, Place, Holding
    <3>2. CASE BeginNested(t)
      BY <3>2 DEF BeginNested, AllInv, CallInv, Holding
    <3>3. CASE Proceed(t) \/ MethodThrows(t) \/ Fail(t)
      BY <3>3 DEF Proceed, MethodThrows, Fail, Settled
    <3> QED
      BY <1>5, <3>1, <3>2, <3>3
  <2> QED
    BY <1>1, <1>2, <2>2, <2>3, <2>4, HeldKept, AskingKept DEF Promised, CL!leaseVars
<1> QED
  BY <1>3, <1>4, <1>5

\* Every step does with the connections what the pool promises, or nothing.
LEMMA StepPromised ==
  ASSUME AllInv, AllInv', [Next]_vars PROVE Promised
<1>1. ASSUME NEW t \in Tasks, TaskStep(t) PROVE Promised
  <2>1. ASSUME NEW c \in Conns, Grant(t, c) PROVE Promised
    BY <2>1, GrantPromised
  <2>2. CASE Ask(t) \/ Poll(t)
    BY <2>2, AskPromised
  <2>3. CASE Refuse(t) \/ RaceTimeout(t)
    BY <2>3, RefusePromised
  <2>4. CASE GiveBack(t) \/ OuterClosed(t)
    BY <2>4, GiveBackPromised
  <2> QED
    BY <1>1, <2>1, <2>2, <2>3, <2>4, MovePromised DEF TaskStep
<1>2. ASSUME NEW q \in flight, Execute(q) PROVE Promised
  <2>1. UNCHANGED <<at, tries, lease, outer, lost, overdue>>
    BY <1>2 DEF Execute, leaseVars
  <2>2. \A u \in Tasks : phase'[u] = "asking" <=> phase[u] = "asking"
    <3>1. PICK a \in {"ok", "failed"} : Answer(q, a)
      BY <1>2 DEF Execute
    <3> QED
      BY <3>1 DEF Answer, AllInv, TypeOK
  <2>3. Asking' = Asking
    <3>1. \A r \in Request : r.task \in Tasks
      BY DEF Request
    <3> QED
      BY <2>1, <2>2, <3>1 DEF Asking, Current
  <2>4. held' = held
    BY <2>1 DEF held, Held, HeldBy, LostFor
  <2> QED
    BY <2>3, <2>4 DEF Promised, CL!leaseVars
<1>3. CASE StateMoves \/ PoolReady \/ PoolDrained \/ UNCHANGED vars
  <2>1. UNCHANGED <<phase, at, tries, lease, outer, lost, overdue>>
    BY <1>3 DEF StateMoves, PoolReady, PoolDrained, vars, taskVars, leaseVars
  <2> QED
    BY <2>1 DEF Promised, CL!leaseVars, Asking, Current, held, Held, HeldBy, LostFor
<1>4. ASSUME NEW r \in overdue, LateRefuse(r) PROVE Promised
  BY <1>4, LatePromised
<1>5. ASSUME NEW r \in overdue, NEW c \in Conns, LateGrant(r, c) PROVE Promised
  BY <1>5, LatePromised
<1> QED
  BY <1>1, <1>2, <1>3, <1>4, <1>5, NextIs DEF Elsewhere

\* At first nobody has a connection, and nobody asks for one.
LEMMA InitPromised == Init => CL!Init
<1> SUFFICES ASSUME Init PROVE Asking = {} /\ held = [r \in Request |-> NoConn]
  BY DEF CL!Init
<1>1. Asking = {}
  BY DEF Init, Asking, Request
<1>2. ASSUME NEW r \in Request PROVE Held(r) = NoConn
  BY <1>2 DEF Init, Held, HeldBy, LostFor, Request
<1> QED
  BY <1>1, <1>2 DEF held

\* The three invariants hold together.
LEMMA AllInvariant == Spec => []AllInv
<1>1. Init => LossInv
  BY DEF Init, LossInv
<1>2. AllInv <=> TypeOK /\ CallInv /\ LossInv
  BY DEF AllInv
<1> QED
  BY <1>1, <1>2, LossNext, CallsInvariant, PTL DEF Spec

\* Statements, @Query methods and health checks use the pool as it promises to be used: a
\* request of a call is asked for before it is granted, for a connection nobody has; what is
\* given back is what was granted; a refusal ends a request; and a request whose timer has
\* gone off stays asked for, until the pool refuses it or grants it for good.
THEOREM SessionsLease == Spec => CL!Spec
<1>1. AllInv /\ AllInv' /\ [Next]_vars => [CL!Next]_(CL!leaseVars)
  BY StepPromised DEF Promised
<1> QED
  BY <1>1, InitPromised, AllInvariant, PTL DEF Spec, CL!Spec

\* No two requests share a connection, whether their calls hold it or it is lost.
NobodyShares ==
  \A p, r \in Request : held[p] # NoConn /\ held[p] = held[r] => p = r

\* The promise of the pool keeps it.
LEMMA NobodySharesStep ==
  ASSUME NobodyShares, Promised PROVE NobodyShares'
<1>1. DOMAIN held = Request
  BY DEF held
<1>2. ASSUME NEW h \in Request, NEW c \in Conns, CL!Grant(h, c) PROVE NobodyShares'
  <2>1. held' = [held EXCEPT ![h] = c] /\ held[h] = NoConn /\ c # NoConn
        /\ \A i \in Request : held[i] # c
    BY <1>2, SessionsAssumption DEF CL!Grant, CL!Taken, NoConn
  <2>2. \A i \in Request : held'[i] = IF i = h THEN c ELSE held[i]
    BY <1>1, <2>1
  <2> QED
    BY <2>1, <2>2 DEF NobodyShares
<1>3. ASSUME NEW h \in Request, CL!Return(h) PROVE NobodyShares'
  <2>1. held' = [held EXCEPT ![h] = NoConn]
    BY <1>3 DEF CL!Return
  <2>2. \A i \in Request : held'[i] = IF i = h THEN NoConn ELSE held[i]
    BY <1>1, <2>1
  <2> QED
    BY <2>2 DEF NobodyShares
<1>4. ASSUME NEW h \in Request, NEW i \in Request, CL!HandOver(h, i) PROVE NobodyShares'
  <2>1. held' = [held EXCEPT ![h] = NoConn, ![i] = held[h]] /\ held[h] # NoConn
    BY <1>4 DEF CL!HandOver
  <2>2. \A j \in Request : held'[j] = IF j = i THEN held[h] ELSE IF j = h THEN NoConn ELSE held[j]
    BY <1>1, <2>1
  <2> QED
    BY <2>1, <2>2 DEF NobodyShares
<1>5. ASSUME held' = held PROVE NobodyShares'
  BY <1>5 DEF NobodyShares
<1>6. CASE CL!Next
  <2>1. ASSUME NEW h \in Request, CL!Ask(h) PROVE held' = held
    BY <2>1 DEF CL!Ask
  <2>2. ASSUME NEW S, CL!TurnAway(S) PROVE held' = held
    BY <2>2 DEF CL!TurnAway
  <2> QED
    BY Zenon, <1>2, <1>3, <1>4, <1>5, <1>6, <2>1, <2>2 DEF CL!Next
<1>7. CASE UNCHANGED CL!leaseVars
  BY <1>5, <1>7 DEF CL!leaseVars
<1> QED
  BY <1>6, <1>7 DEF Promised

\* A connection is in one place at a time, also while requests and statements time out, calls
\* are retried and connections are lost: no statement is sent on a connection that a method
\* holds, or that was granted to a request nobody awaits any more.
THEOREM ConnectionsNotShared == Spec => []NobodyShares
<1>1. Init => NobodyShares
  <2>1. CL!Init => NobodyShares
    BY DEF CL!Init, NobodyShares
  <2> QED
    BY <2>1, InitPromised
<1>2. AllInv /\ AllInv' /\ NobodyShares /\ [Next]_vars => NobodyShares'
  BY StepPromised, NobodySharesStep
<1> QED
  BY <1>1, <1>2, AllInvariant, PTL DEF Spec

=============================================================================
