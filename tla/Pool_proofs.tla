---------------------------- MODULE Pool_proofs ----------------------------
(***************************************************************************)
(* PoolInv, the inductive invariant of Pool, and what follows from it.  The *)
(* argument: whoever gives out a resource has tested its inUse flag, and the *)
(* flag is set for every listed resource a client holds; and at most one    *)
(* resource is free when the queue is served, because none was free while   *)
(* the queue was not empty.  The second half says what the steps mean to the *)
(* clients: the pool implements ConnectionLease, its queue is first come,   *)
(* first served, and what the clients hold stays accounted for and open.    *)
(***************************************************************************)
EXTENDS Pool, FiniteSetTheorems, SequenceTheorems, WellFoundedInduction, TLAPS

\* The pool the constructor leaves behind satisfies the invariant.
LEMMA InitInv == Init => PoolInv
<1> SUFFICES ASSUME Init PROVE PoolInv
  OBVIOUS
<1> USE PoolAssumption DEF Init
<1>1. initCreating \in BOOLEAN /\ (initCreating => toCreate > 0)
  OBVIOUS
<1>2. idleTimer \in BOOLEAN /\ draining \in BOOLEAN
  OBVIOUS
<1>3. /\ status \in [Clients -> Status]
      /\ lease \in [Clients -> Conns \cup {NoConn}]
  BY DEF Status, NoConn
<1>4. TypeOK
  BY <1>1, <1>2, <1>3 DEF TypeOK, DrainPhase, Conns
<1>5. ExclusiveLease /\ NoLostWakeup
  BY DEF ExclusiveLease, NoLostWakeup, Holds
<1>6. QueueMatchesStatus
  BY DEF QueueMatchesStatus, ToSet, IsInjective
<1>7. QED
  BY <1>1, <1>4, <1>5, <1>6 DEF PoolInv, LeaseMatchesStatus, Holds, NoConn

\* The list of resources is finite.
LEMMA ListFinite == ASSUME TypeOK PROVE IsFiniteSet(resources)
<1>1. IsFiniteSet(1..opened)
  BY FS_Interval DEF TypeOK
<1>2. QED
  BY <1>1, FS_Subset DEF TypeOK, Conns

\* The first of a list of one resource.
LEMMA NthOldestOfOne ==
  ASSUME NEW r \in Nat
  PROVE  NthOldest({r}, 1) = r
<1>1. {s \in {r} : s < r} = {}
  OBVIOUS
<1>2. Cardinality({s \in {r} : s < r}) = 1 - 1
  BY <1>1, FS_EmptySet
<1>3. QED
  BY <1>2 DEF NthOldest

\* The first free resource is a free one, if there is any.
LEMMA MinOfSet ==
  ASSUME NEW S \in SUBSET Nat, S # {}
  PROVE  Min(S) \in S
<1> DEFINE R == {p \in Nat \X Nat : p[1] < p[2]}
<1>1. IsWellFoundedOn(R, Nat)
  BY NatLessThanWellFounded DEF OpToRel
<1> HIDE DEF R
<1>2. PICK m \in S : \A n \in S : <<n, m>> \notin R
  BY <1>1, WFMin, Zenon
<1>3. ASSUME NEW n \in S PROVE m <= n
  <2>1. m \in Nat /\ n \in Nat
    OBVIOUS
  <2>2. n < m => <<n, m>> \in R
    BY <2>1 DEF R
  <2>3. ~(n < m)
    BY <1>2, <2>2
  <2>4. QED
    BY <2>1, <2>3
<1>4. QED
  BY <1>3 DEF Min

\* With an empty queue or no free resource nobody is served.
LEMMA ServedNone ==
  ASSUME waiting \in Seq(Clients), NEW free, IsFiniteSet(free),
         waiting = <<>> \/ free = {}
  PROVE  Served(free) = 0
<1>1. Len(waiting) \in Nat /\ Cardinality(free) \in Nat
  BY FS_CardinalityType
<1>2. CASE waiting = <<>>
  BY <1>1, <1>2 DEF Served
<1>3. CASE free = {}
  BY <1>1, <1>3, FS_EmptySet DEF Served
<1>4. QED
  BY <1>2, <1>3

\* With a queue and one free resource one client is served.
LEMMA ServedOne ==
  ASSUME NEW L \in Nat \ {0}, Len(waiting) = L,
         NEW free, Cardinality(free) = 1
  PROVE  Served(free) = 1
BY DEF Served

\* Serving nobody leaves the queue as it is.
LEMMA ShiftNone ==
  ASSUME waiting \in Seq(Clients)
  PROVE  Shift(0).left = waiting
<1>1. Shift(0).left = SubSeq(waiting, 0 + 1, Len(waiting))
  BY DEF Shift
<1>2. QED
  BY <1>1

\* Serving one client takes the head off the queue.
LEMMA ShiftOne ==
  ASSUME waiting \in Seq(Clients), waiting # <<>>
  PROVE  Shift(1).left = Tail(waiting) /\ Shift(1).served[1] = Head(waiting)
<1>1. /\ Shift(1).left = SubSeq(waiting, 1 + 1, Len(waiting))
      /\ Shift(1).served = SubSeq(waiting, 1, 1)
  BY DEF Shift
<1>2. Len(waiting) \in Nat /\ Len(waiting) >= 1
  OBVIOUS
<1>3. QED
  BY <1>1, <1>2


\* What checkWaitingClients() does when at most one resource is free while
\* somebody waits: nothing, or it hands that resource to the head of the queue.
LEMMA NobodyServed ==
  ASSUME TypeOK, NEW list, IsFiniteSet(list), NEW used,
         NEW st \in [Clients -> Status], NEW ls,
         ls = [c \in Clients |-> ls[c]],
         waiting = <<>> \/ list \ used = {},
         CheckWaitingClients(list, used, st, ls)
  PROVE  /\ inUse' = used /\ waiting' = waiting
         /\ status' = st /\ lease' = ls /\ destroying' = destroying
<1>1. PICK n : n = Served(list \ used)
  OBVIOUS
<1>2. n = 0
  BY <1>1, ServedNone, FS_Difference DEF TypeOK
<1>3. 1..n = {}
  BY <1>2
<1>4. waiting' = Shift(n).left
  BY <1>1 DEF CheckWaitingClients
<1>5. waiting' = waiting
  BY <1>2, <1>4, ShiftNone DEF TypeOK
<1>6. inUse' = used \cup {NthOldest(list \ used, k) : k \in 1..n}
  BY <1>1 DEF CheckWaitingClients
<1>7. destroying' = destroying \cup
        (IF OverMax(list) THEN {NthOldest(list \ used, k) : k \in 1..n} ELSE {})
  BY <1>1 DEF CheckWaitingClients
<1>8. status' = [c \in Clients |->
        IF \E k \in 1..n : Shift(n).served[k] = c THEN "leased" ELSE st[c]]
  BY <1>1 DEF CheckWaitingClients
<1>9. lease' = [c \in Clients |->
        IF \E k \in 1..n : Shift(n).served[k] = c
          THEN NthOldest(list \ used, CHOOSE k \in 1..n : Shift(n).served[k] = c)
          ELSE ls[c]]
  BY <1>1 DEF CheckWaitingClients
<1>10. inUse' = used /\ destroying' = destroying
  BY <1>3, <1>6, <1>7
<1>11. status' = st
  BY <1>3, <1>8
<1>12. lease' = ls
  BY <1>3, <1>9
<1>13. QED
  BY <1>5, <1>10, <1>11, <1>12

\* One resource is free: the head of the queue is served with it.
LEMMA HeadServed ==
  ASSUME TypeOK, NEW list, IsFiniteSet(list), NEW used, NEW r \in Nat,
         waiting # <<>>, list \ used = {r},
         NEW st \in [Clients -> Status], NEW ls,
         ls = [c \in Clients |-> ls[c]],
         CheckWaitingClients(list, used, st, ls)
  PROVE  /\ inUse' = used \cup {r} /\ waiting' = Tail(waiting)
         /\ status' = [st EXCEPT ![Head(waiting)] = "leased"]
         /\ lease' = [ls EXCEPT ![Head(waiting)] = r]
         /\ destroying' \in {destroying, destroying \cup {r}}
         /\ OverMax(list) \/ destroying' = destroying
<1>1. PICK n : n = Served(list \ used)
  OBVIOUS
<1>2. n = 1
  <2>1. PICK L : L = Len(waiting)
    OBVIOUS
  <2>2. L \in Nat \ {0}
    BY <2>1 DEF TypeOK
  <2>3. Cardinality(list \ used) = 1
    BY FS_Singleton
  <2>4. QED
    BY <1>1, <2>1, <2>2, <2>3, ServedOne
<1>3. 1..n = {1}
  BY <1>2
<1>4. waiting' = Shift(n).left
  BY <1>1 DEF CheckWaitingClients
<1>5. waiting' = Tail(waiting) /\ Shift(n).served[1] = Head(waiting)
  BY <1>2, <1>4, ShiftOne DEF TypeOK
<1>n. NthOldest(list \ used, 1) = r
  BY NthOldestOfOne
<1>6. inUse' = used \cup {NthOldest(list \ used, k) : k \in 1..n}
  BY <1>1 DEF CheckWaitingClients
<1>7. destroying' = destroying \cup
        (IF OverMax(list) THEN {NthOldest(list \ used, k) : k \in 1..n} ELSE {})
  BY <1>1 DEF CheckWaitingClients
<1>8. status' = [c \in Clients |->
        IF \E k \in 1..n : Shift(n).served[k] = c THEN "leased" ELSE st[c]]
  BY <1>1 DEF CheckWaitingClients
<1>9. lease' = [c \in Clients |->
        IF \E k \in 1..n : Shift(n).served[k] = c
          THEN NthOldest(list \ used, CHOOSE k \in 1..n : Shift(n).served[k] = c)
          ELSE ls[c]]
  BY <1>1 DEF CheckWaitingClients
<1>10. {NthOldest(list \ used, k) : k \in 1..n} = {r}
  BY <1>3, <1>n
<1>11. \A c : (\E k \in 1..n : Shift(n).served[k] = c) <=> c = Head(waiting)
  BY <1>3, <1>5
<1>12. (CHOOSE k \in 1..n : Shift(n).served[k] = Head(waiting)) = 1
  BY <1>3, <1>5
<1>13. inUse' = used \cup {r} /\ destroying' \in {destroying, destroying \cup {r}}
  BY <1>6, <1>7, <1>10
<1>14. status' = [st EXCEPT ![Head(waiting)] = "leased"]
  BY <1>8, <1>11
<1>15. lease' = [ls EXCEPT ![Head(waiting)] = r]
  BY <1>9, <1>11, <1>12, <1>n
<1>16. OverMax(list) \/ destroying' = destroying
  BY <1>7
<1>17. QED
  BY <1>5, <1>13, <1>14, <1>15, <1>16


-----------------------------------------------------------------------------
(* The queue: what the three ways of changing it do to its set of clients.  *)

\* The queue without its head.
LEMMA QueueTail ==
  ASSUME NEW S, NEW q \in Seq(S), q # <<>>, IsInjective(q)
  PROVE  /\ Tail(q) \in Seq(S) /\ Head(q) \in S
         /\ Head(q) \in ToSet(q)
         /\ ToSet(Tail(q)) = ToSet(q) \ {Head(q)}
         /\ IsInjective(Tail(q))
<1>1. PICK n \in Nat : n = Len(q) /\ DOMAIN q = 1..n /\ n >= 1
  OBVIOUS
<1>2. PICK t : t = Tail(q)
  OBVIOUS
<1>3. /\ t \in Seq(S) /\ DOMAIN t = 1..(n - 1)
      /\ \A i \in 1..(n - 1) : t[i] = q[i + 1]
  BY <1>1, <1>2
<1>4. q[1] = Head(q) /\ \A i \in 1..n : q[i] \in S
  BY <1>1
<1>5. IsInjective(t)
  <2> SUFFICES ASSUME NEW i \in 1..(n - 1), NEW j \in 1..(n - 1), t[i] = t[j]
               PROVE  i = j
    BY <1>3 DEF IsInjective
  <2>1. i + 1 \in 1..n /\ j + 1 \in 1..n
    BY <1>1
  <2>2. q[i + 1] = q[j + 1]
    BY <1>3
  <2>3. i + 1 = j + 1
    BY <1>1, <2>1, <2>2 DEF IsInjective
  <2>4. QED
    BY <1>1, <2>3
<1>6. ASSUME NEW x \in ToSet(t) PROVE x \in ToSet(q) \ {Head(q)}
  <2>1. PICK i \in 1..(n - 1) : x = q[i + 1]
    BY <1>3, <1>6 DEF ToSet
  <2>2. i + 1 \in 1..n /\ 1 \in 1..n /\ i + 1 # 1
    BY <1>1
  <2>3. q[i + 1] # q[1]
    BY <1>1, <2>2 DEF IsInjective
  <2>4. QED
    BY <1>1, <1>4, <2>1, <2>2, <2>3 DEF ToSet
<1>7. ASSUME NEW x \in ToSet(q) \ {Head(q)} PROVE x \in ToSet(t)
  <2>1. PICK i \in 1..n : q[i] = x /\ i # 1
    BY <1>1, <1>4, <1>7 DEF ToSet
  <2>2. i - 1 \in 1..(n - 1) /\ t[i - 1] = x
    BY <1>1, <1>3, <2>1
  <2>3. QED
    BY <1>3, <2>2 DEF ToSet
<1>8. ToSet(t) = ToSet(q) \ {Head(q)}
  BY <1>6, <1>7
<1>9. Head(q) \in ToSet(q) /\ Head(q) \in S
  <2>1. 1 \in 1..n
    BY <1>1
  <2>2. QED
    BY <1>1, <1>4, <2>1 DEF ToSet
<1>10. QED
  BY <1>2, <1>3, <1>5, <1>8, <1>9

\* The queue with a new client at its end.
LEMMA QueueAppend ==
  ASSUME NEW S, NEW q \in Seq(S), NEW c \in S, c \notin ToSet(q), IsInjective(q)
  PROVE  /\ Append(q, c) \in Seq(S)
         /\ ToSet(Append(q, c)) = ToSet(q) \cup {c}
         /\ IsInjective(Append(q, c))
<1>1. PICK n \in Nat : n = Len(q) /\ DOMAIN q = 1..n
  OBVIOUS
<1>2. PICK t : t = Append(q, c)
  OBVIOUS
<1>3. /\ t \in Seq(S) /\ DOMAIN t = 1..(n + 1)
      /\ \A i \in 1..n : t[i] = q[i]
      /\ t[n + 1] = c
  <2>1. t \in Seq(S) /\ Len(t) = n + 1
    BY <1>1, <1>2
  <2>2. DOMAIN t = 1..(n + 1)
    BY <2>1
  <2>3. \A i \in 1..(n + 1) : t[i] = IF i = n + 1 THEN c ELSE q[i]
    BY <1>1, <1>2, <2>1, <2>2
  <2>4. QED
    BY <1>1, <2>1, <2>2, <2>3
<1>4. \A i \in 1..(n + 1) : i \in 1..n \/ i = n + 1
  BY <1>1
<1>5. IsInjective(t)
  BY <1>1, <1>3, <1>4 DEF IsInjective, ToSet
<1>6. \A x : x \in ToSet(t) <=> x \in ToSet(q) \/ x = c
  BY <1>1, <1>3, <1>4 DEF ToSet
<1>7. QED
  BY <1>2, <1>3, <1>5, <1>6

\* The queue without the client whose timer went off.
LEMMA QueueRemoveAt ==
  ASSUME NEW S, NEW q \in Seq(S), NEW k \in DOMAIN q, IsInjective(q)
  PROVE  /\ RemoveAt(q, k) \in Seq(S)
         /\ ToSet(RemoveAt(q, k)) = ToSet(q) \ {q[k]}
         /\ IsInjective(RemoveAt(q, k))
<1>1. PICK n \in Nat : n = Len(q) /\ DOMAIN q = 1..n /\ k \in 1..n
  OBVIOUS
<1>2. PICK t : t = RemoveAt(q, k)
  OBVIOUS
<1>3. PICK a : a = SubSeq(q, 1, k - 1)
  OBVIOUS
<1>4. PICK b : b = SubSeq(q, k + 1, n)
  OBVIOUS
<1>5. /\ a \in Seq(S) /\ Len(a) = k - 1
      /\ \A i \in 1..(k - 1) : a[i] = q[i]
  BY <1>1, <1>3
<1>6. /\ b \in Seq(S) /\ Len(b) = n - k
      /\ \A i \in 1..(n - k) : b[i] = q[i + k]
  BY <1>1, <1>4
<1>7. t = a \o b
  BY <1>1, <1>2, <1>3, <1>4 DEF RemoveAt
<1>8. t \in Seq(S) /\ Len(t) = n - 1
  BY <1>1, <1>5, <1>6, <1>7
<1>9. \A i \in 1..(n - 1) : t[i] = IF i < k THEN q[i] ELSE q[i + 1]
  <2>1. \A i \in 1..(Len(a) + Len(b)) :
          (a \o b)[i] = IF i <= Len(a) THEN a[i] ELSE b[i - Len(a)]
    BY Zenon, <1>5, <1>6, ConcatProperties
  <2>2. \A i \in 1..((k - 1) + (n - k)) :
          t[i] = IF i <= k - 1 THEN a[i] ELSE b[i - (k - 1)]
    BY Zenon, <1>5, <1>6, <1>7, <2>1
  <2> TAKE i \in 1..(n - 1)
  <2>3. t[i] = IF i <= k - 1 THEN a[i] ELSE b[i - (k - 1)]
    BY <1>1, <2>2
  <2>4. CASE i < k
    <3>1. i \in 1..(k - 1) /\ i <= k - 1
      BY <1>1, <2>4
    <3> QED
      BY <1>5, <2>3, <2>4, <3>1
  <2>5. CASE ~(i < k)
    <3>1. i - (k - 1) \in 1..(n - k) /\ (i - (k - 1)) + k = i + 1 /\ ~(i <= k - 1)
      BY <1>1, <2>5
    <3>2. b[i - (k - 1)] = q[(i - (k - 1)) + k]
      BY Zenon, <1>6, <3>1
    <3> QED
      BY <2>3, <2>5, <3>1, <3>2
  <2>6. QED
    BY <2>4, <2>5
<1>10. DOMAIN t = 1..(n - 1)
  BY <1>8
<1>11. IsInjective(t)
  BY <1>1, <1>9, <1>10 DEF IsInjective
<1>12. \A x \in ToSet(t) : x \in ToSet(q) \ {q[k]}
  BY <1>1, <1>9, <1>10 DEF ToSet, IsInjective
<1>13. ASSUME NEW x \in ToSet(q) \ {q[k]} PROVE x \in ToSet(t)
  <2>1. PICK i \in 1..n : q[i] = x /\ i # k
    BY <1>1, <1>13 DEF ToSet
  <2>2. CASE i < k
    <3>1. i \in 1..(n - 1) /\ t[i] = x
      BY <1>1, <1>9, <2>1, <2>2
    <3>2. QED
      BY <1>10, <3>1 DEF ToSet
  <2>3. CASE i > k
    <3>1. i - 1 \in 1..(n - 1) /\ t[i - 1] = x
      BY <1>1, <1>9, <2>1, <2>3
    <3>2. QED
      BY <1>10, <3>1 DEF ToSet
  <2>4. QED
    BY <1>1, <2>1, <2>2, <2>3
<1>14. QED
  BY <1>2, <1>8, <1>11, <1>12, <1>13

-----------------------------------------------------------------------------
(* The invariant.                                                          *)

\* A caller of checkWaitingClients(): N is the new `opened', and `list', `used',
\* `st' and `ls' are what it has made of the list, the flags, the clients' status
\* and their leases.  While somebody waits it has freed no resource but r.
ReadyToServe(N, list, used, st, ls, r) ==
  /\ N \in Nat /\ r \in Nat /\ opened <= N
  /\ list \in SUBSET (1..N)
  /\ used \in SUBSET list
  /\ st \in [Clients -> Status]
  /\ ls \in [Clients -> (1..N) \cup {NoConn}]
  /\ waiting # <<>> => list \ used \subseteq {r}
  /\ \A c \in Clients : st[c] = "waiting" <=> status[c] = "waiting"
  /\ \A c \in Clients : ls[c] # NoConn <=> st[c] \in {"leased", "validating"}
  /\ \A c, d \in Clients : c # d /\ ls[c] # NoConn => ls[c] # ls[d]
  /\ \A c \in Clients : ls[c] \in list => ls[c] \in used

\* One hand-over keeps what the invariant says of leases and of the queue.
LEMMA CheckWaitingKeeps ==
  ASSUME PoolInv, NEW N, NEW list, NEW used, NEW st, NEW ls, NEW r,
         ReadyToServe(N, list, used, st, ls, r),
         opened' = N, resources' = list,
         CheckWaitingClients(list, used, st, ls)
  PROVE  /\ waiting' \in Seq(Clients) /\ status' \in [Clients -> Status]
         /\ lease' \in [Clients -> (1..N) \cup {NoConn}]
         /\ destroying' \in SUBSET (1..N) /\ inUse' \subseteq resources'
         /\ LeaseMatchesStatus' /\ ExclusiveLease'
         /\ NoLostWakeup' /\ QueueMatchesStatus'
<1> USE DEF ReadyToServe
<1>0. TypeOK /\ QueueMatchesStatus
  BY DEF PoolInv
<1>1. IsFiniteSet(list)
  <2>1. IsFiniteSet(1..N)
    BY FS_Interval
  <2>2. QED
    BY <2>1, FS_Subset
<1>2. destroying \subseteq 1..N
  BY <1>0 DEF TypeOK, Conns
<1>3. CASE waiting = <<>> \/ list \ used = {}
  <2>1. /\ inUse' = used /\ waiting' = waiting
        /\ status' = st /\ lease' = ls /\ destroying' = destroying
    BY <1>0, <1>1, <1>3, NobodyServed
  <2>2. LeaseMatchesStatus' /\ ExclusiveLease'
    BY <2>1 DEF LeaseMatchesStatus, ExclusiveLease, Holds
  <2>3. NoLostWakeup'
    BY <1>3, <2>1 DEF NoLostWakeup, Free
  <2>4. QueueMatchesStatus'
    BY <1>0, <2>1 DEF QueueMatchesStatus
  <2>5. QED
    BY <1>0, <1>2, <2>1, <2>2, <2>3, <2>4 DEF TypeOK
<1>4. CASE waiting # <<>> /\ list \ used # {}
  <2>0. PICK h : h = Head(waiting)
    OBVIOUS
  <2>1. list \ used = {r} /\ r \in 1..N
    BY <1>4
  <2>2. /\ inUse' = used \cup {r} /\ waiting' = Tail(waiting)
        /\ status' = [st EXCEPT ![h] = "leased"]
        /\ lease' = [ls EXCEPT ![h] = r]
        /\ destroying' \in {destroying, destroying \cup {r}}
    <3>1. ls = [c \in Clients |-> ls[c]]
      OBVIOUS
    <3>2. waiting # <<>> /\ list \ used = {r}
      BY <1>4, <2>1
    <3>3. /\ inUse' = used \cup {r} /\ waiting' = Tail(waiting)
          /\ status' = [st EXCEPT ![Head(waiting)] = "leased"]
          /\ lease' = [ls EXCEPT ![Head(waiting)] = r]
          /\ destroying' \in {destroying, destroying \cup {r}}
          /\ OverMax(list) \/ destroying' = destroying
      BY <1>0, <1>1, <2>1, <3>1, <3>2, HeadServed, Zenon
    <3>4. QED
      BY <2>0, <3>3
  <2>3. /\ Tail(waiting) \in Seq(Clients) /\ h \in Clients
        /\ h \in ToSet(waiting)
        /\ ToSet(Tail(waiting)) = ToSet(waiting) \ {h}
        /\ IsInjective(Tail(waiting))
    BY <1>0, <1>4, <2>0, QueueTail DEF TypeOK, QueueMatchesStatus
  <2>4. st[h] = "waiting" /\ ls[h] = NoConn
    BY <1>0, <2>3 DEF QueueMatchesStatus
  <2>5. r # NoConn /\ \A c \in Clients : ls[c] # r
    BY <2>1 DEF NoConn
  <2>6. /\ status' \in [Clients -> Status]
        /\ lease' \in [Clients -> (1..N) \cup {NoConn}]
    BY <2>1, <2>2 DEF Status
  <2>7. LeaseMatchesStatus'
    BY <2>2, <2>4, <2>5 DEF LeaseMatchesStatus, Holds
  <2>8. ExclusiveLease'
    <3>1. ASSUME NEW c \in Clients, NEW d \in Clients, c # d, lease'[c] # NoConn
          PROVE  lease'[c] # lease'[d]
      BY <2>2, <2>5, <3>1
    <3>2. ASSUME NEW c \in Clients, lease'[c] \in resources'
          PROVE  lease'[c] \in inUse'
      BY <2>2, <3>2
    <3>3. QED
      BY <3>1, <3>2 DEF ExclusiveLease, Holds
  <2>9. NoLostWakeup'
    BY <2>1, <2>2 DEF NoLostWakeup, Free
  <2>10. QueueMatchesStatus'
    <3>1. ASSUME NEW c \in Clients
          PROVE  status'[c] = "waiting" <=> c \in ToSet(waiting')
      <4>1. status'[c] = "waiting" <=> (c # h /\ st[c] = "waiting")
        BY <2>2
      <4>2. c \in ToSet(waiting') <=> (c # h /\ c \in ToSet(waiting))
        BY <2>2, <2>3
      <4>3. QED
        BY <1>0, <4>1, <4>2 DEF QueueMatchesStatus
    <3>2. QED
      BY <2>2, <2>3, <3>1 DEF QueueMatchesStatus
  <2>11. QED
    <3>1. destroying' \in SUBSET (1..N) /\ inUse' \subseteq resources'
      BY <1>2, <2>1, <2>2
    <3>2. waiting' \in Seq(Clients)
      BY <2>2, <2>3
    <3>3. QED
      BY <2>6, <2>7, <2>8, <2>9, <2>10, <3>1, <3>2
<1>5. QED
  BY <1>3, <1>4


\* A step that leaves the pool and the clients alone.
LEMMA ClientsUntouched ==
  ASSUME PoolInv, UNCHANGED <<poolVars, clientVars>>
  PROVE  /\ inUse' \subseteq resources'
         /\ LeaseMatchesStatus' /\ ExclusiveLease'
         /\ NoLostWakeup' /\ QueueMatchesStatus'
<1>1. /\ resources' = resources /\ inUse' = inUse
      /\ waiting' = waiting /\ status' = status /\ lease' = lease
  BY DEF poolVars, clientVars
<1>2. LeaseMatchesStatus' /\ ExclusiveLease'
  BY <1>1 DEF PoolInv, LeaseMatchesStatus, ExclusiveLease, Holds
<1>3. NoLostWakeup' /\ QueueMatchesStatus'
  BY <1>1 DEF PoolInv, NoLostWakeup, Free, QueueMatchesStatus
<1>4. QED
  BY <1>1, <1>2, <1>3 DEF PoolInv

\* The next iteration of initialize() keeps the invariant.
LEMMA InitializeNextInv ==
  ASSUME PoolInv, InitializeNext
  PROVE  PoolInv'
<1>1. UNCHANGED <<poolVars, unvalidated, timerVars, clientVars, dbVars>>
  BY DEF InitializeNext
<1>2. /\ toCreate' \in 0..MinPoolSize /\ initCreating' \in BOOLEAN
      /\ initCreating' => toCreate' > 0
  <2>1. toCreate \in 1..MinPoolSize /\ initCreating \in BOOLEAN
    BY PoolAssumption DEF InitializeNext, PoolInv, TypeOK
  <2>2. CASE toCreate' = toCreate - 1 /\ UNCHANGED initCreating
    <3>1. ~initCreating'
      BY <2>2, Zenon DEF InitializeNext
    <3>2. toCreate' \in 0..MinPoolSize
      BY <2>1, <2>2, PoolAssumption
    <3>3. QED
      BY <2>1, <2>2, <3>1, <3>2
  <2>3. CASE initCreating' = TRUE /\ UNCHANGED toCreate
    BY <2>1, <2>3, PoolAssumption
  <2>4. QED
    BY <2>2, <2>3 DEF InitializeNext
<1>3. TypeOK'
  BY <1>1, <1>2 DEF PoolInv, TypeOK, Conns, poolVars, timerVars, clientVars, dbVars
<1>4. QED
  BY <1>1, <1>2, <1>3, ClientsUntouched DEF PoolInv, dbVars

\* So does a step that changes nothing.
LEMMA StutterInv ==
  ASSUME PoolInv, UNCHANGED vars
  PROVE  PoolInv'
<1>1. TypeOK'
  BY DEF PoolInv, TypeOK, Conns, vars, poolVars, timerVars, initVars, clientVars, dbVars
<1>2. QED
  BY <1>1, ClientsUntouched DEF PoolInv, vars, dbVars, initVars

\* So does the idle check.
LEMMA CheckIdleResourcesInv ==
  ASSUME PoolInv, CheckIdleResources
  PROVE  PoolInv'
<1>1. UNCHANGED <<poolVars, unvalidated, timerVars, initVars, clientVars, opened, open,
                 closing>>
  BY DEF CheckIdleResources
<1>2. destroying' \subseteq Conns
  BY DEF CheckIdleResources, PoolInv, TypeOK, Free
<1>3. TypeOK'
  BY <1>1, <1>2 DEF PoolInv, TypeOK, Conns, poolVars, timerVars, initVars, clientVars
<1>4. QED
  BY <1>1, <1>3, ClientsUntouched DEF PoolInv, initVars

\* So does the end of a close(), of destroy() or of clear().
LEMMA CloseStepInv ==
  ASSUME PoolInv, NEW r \in Conns, CloseStep(r)
  PROVE  PoolInv'
<1>1. CASE DestroyOk(r)
  <2>1. /\ UNCHANGED <<unvalidated, timerVars, initVars, clientVars, opened, closing>>
        /\ destroying' = destroying \ {r} /\ open' = open \ {r}
        /\ resources' = resources \ {r} /\ inUse' = inUse \ {r}
    BY <1>1 DEF DestroyOk
  <2>2. TypeOK'
    BY <2>1 DEF PoolInv, TypeOK, Conns, timerVars, initVars, clientVars
  <2>3. waiting' = waiting /\ status' = status /\ lease' = lease
    BY <2>1 DEF clientVars
  <2>4. LeaseMatchesStatus' /\ ExclusiveLease'
    BY <2>1, <2>3 DEF PoolInv, LeaseMatchesStatus, ExclusiveLease, Holds
  <2>5. NoLostWakeup' /\ QueueMatchesStatus'
    BY <2>1, <2>3 DEF PoolInv, NoLostWakeup, Free, QueueMatchesStatus
  <2>6. QED
    BY <2>1, <2>2, <2>4, <2>5 DEF PoolInv, initVars
<1>2. CASE DestroyFail(r)
  <2>1. /\ UNCHANGED <<poolVars, unvalidated, timerVars, initVars, clientVars, opened,
                       open, closing>>
        /\ destroying' = destroying \ {r}
    BY <1>2 DEF DestroyFail
  <2>2. TypeOK'
    BY <2>1 DEF PoolInv, TypeOK, Conns, poolVars, timerVars, initVars, clientVars
  <2>3. QED
    BY <2>1, <2>2, ClientsUntouched DEF PoolInv, initVars
<1>3. CASE CloseOk(r)
  <2>1. /\ UNCHANGED <<poolVars, unvalidated, timerVars, initVars, clientVars, opened,
                       destroying>>
        /\ closing' = closing \ {r} /\ open' = open \ {r}
    BY <1>3 DEF CloseOk
  <2>2. TypeOK'
    BY <2>1 DEF PoolInv, TypeOK, Conns, poolVars, timerVars, initVars, clientVars
  <2>3. QED
    BY <2>1, <2>2, ClientsUntouched DEF PoolInv, initVars
<1>4. CASE CloseFail(r)
  <2>1. /\ UNCHANGED <<poolVars, unvalidated, draining, idleTimer, initVars, clientVars, opened,
                       open, destroying>>
        /\ closing' = closing \ {r} /\ drainPhase' = "failed"
    BY <1>4 DEF CloseFail
  <2>2. TypeOK'
    BY <2>1 DEF PoolInv, TypeOK, Conns, DrainPhase, poolVars, initVars, clientVars
  <2>3. QED
    BY <2>1, <2>2, ClientsUntouched DEF PoolInv, initVars
<1>5. QED
  BY <1>1, <1>2, <1>3, <1>4 DEF CloseStep

\* So does the start of drain() and of clear().
LEMMA BeginInv ==
  ASSUME PoolInv, BeginDrain \/ BeginClear
  PROVE  PoolInv'
<1>1. /\ UNCHANGED <<poolVars, unvalidated, idleTimer, initVars, clientVars, opened, open,
                     destroying>>
      /\ closing' = closing \cup resources /\ drainPhase' \in DrainPhase
      /\ draining' \in BOOLEAN
  BY DEF BeginDrain, BeginClear, DrainPhase, PoolInv, TypeOK
<1>2. TypeOK'
  BY <1>1 DEF PoolInv, TypeOK, Conns, poolVars, initVars, clientVars
<1>3. QED
  BY <1>1, <1>2, ClientsUntouched DEF PoolInv, initVars

\* So does the end of clear().
LEMMA ClearedInv ==
  ASSUME PoolInv, Cleared
  PROVE  PoolInv'
<1>1. /\ UNCHANGED <<unvalidated, draining, initVars, lease, dbVars>>
      /\ resources' = {} /\ inUse' = {} /\ waiting' = <<>>
      /\ idleTimer' = FALSE /\ drainPhase' \in DrainPhase
      /\ status' = [c \in Clients |->
                      IF status[c] = "waiting" THEN "rejected" ELSE status[c]]
  BY DEF Cleared, DrainPhase
<1>2. TypeOK'
  <2>1. status' \in [Clients -> Status]
    BY <1>1 DEF PoolInv, TypeOK, Status
  <2>2. waiting' \in Seq(Clients)
    BY <1>1
  <2>3. UNCHANGED <<unvalidated, opened, open, destroying, closing, draining, toCreate,
                    initCreating, lease>>
    BY <1>1 DEF initVars, dbVars
  <2>4. QED
    BY <1>1, <2>1, <2>2, <2>3 DEF PoolInv, TypeOK, Conns
<1>3. LeaseMatchesStatus' /\ ExclusiveLease'
  BY <1>1 DEF PoolInv, TypeOK, LeaseMatchesStatus, ExclusiveLease, Holds
<1>4. NoLostWakeup'
  BY <1>1 DEF NoLostWakeup
<1>5. QueueMatchesStatus'
  <2>1. ToSet(waiting') = {} /\ IsInjective(waiting')
    BY <1>1 DEF ToSet, IsInjective
  <2>2. QED
    BY <1>1, <2>1 DEF QueueMatchesStatus
<1>6. QED
  BY <1>1, <1>2, <1>3, <1>4, <1>5 DEF PoolInv, initVars, dbVars


\* The parts of the invariant that speak of clients and of the queue.
ClientInv ==
  /\ inUse \subseteq resources
  /\ status \in [Clients -> Status]
  /\ lease \in [Clients -> Conns \cup {NoConn}]
  /\ waiting \in Seq(Clients)
  /\ LeaseMatchesStatus
  /\ ExclusiveLease
  /\ NoLostWakeup
  /\ QueueMatchesStatus

\* A free resource is taken by a client that neither waits nor holds one.
LEMMA TakeKeeps ==
  ASSUME PoolInv, NEW c \in Clients, NEW r \in Free,
         status[c] \notin {"waiting", "leased", "validating"},
         Take(c, r), UNCHANGED <<resources, waiting, opened>>
  PROVE  ClientInv'
<1>1. /\ inUse' = inUse \cup {r} /\ lease' = [lease EXCEPT ![c] = r]
      /\ status' = [status EXCEPT ![c] = "leased"]
      /\ resources' = resources /\ waiting' = waiting /\ opened' = opened
  BY DEF Take
<1>2. /\ r \in resources /\ r \notin inUse /\ r \in 1..opened
      /\ status \in [Clients -> Status]
      /\ lease \in [Clients -> (1..opened) \cup {NoConn}]
  BY DEF PoolInv, TypeOK, Conns, Free
<1>3. r # NoConn /\ lease[c] = NoConn /\ \A d \in Clients : lease[d] # r
  BY <1>2 DEF PoolInv, LeaseMatchesStatus, ExclusiveLease, Holds, NoConn
<1>4. /\ status' \in [Clients -> Status]
      /\ lease' \in [Clients -> (1..opened) \cup {NoConn}]
  BY <1>1, <1>2 DEF Status
<1>5. LeaseMatchesStatus'
  BY <1>1, <1>2, <1>3 DEF PoolInv, LeaseMatchesStatus, Holds
<1>6. ExclusiveLease'
  BY <1>1, <1>2, <1>3 DEF PoolInv, ExclusiveLease, Holds
<1>7. NoLostWakeup'
  BY <1>1 DEF PoolInv, NoLostWakeup, Free
<1>8. QueueMatchesStatus'
  BY <1>1, <1>2 DEF PoolInv, QueueMatchesStatus
<1>9. inUse' \subseteq resources' /\ waiting' \in Seq(Clients)
  BY <1>1, <1>2 DEF PoolInv, TypeOK
<1>10. lease' \in [Clients -> Conns' \cup {NoConn}]
  BY <1>1, <1>4 DEF Conns
<1>11. QED
  BY <1>4, <1>5, <1>6, <1>7, <1>8, <1>9, <1>10 DEF ClientInv

\* A client changes its status, without touching the queue or any lease.
LEMMA StatusKeeps ==
  ASSUME PoolInv, NEW c \in Clients, NEW s \in Status \ {"waiting"},
         status[c] # "waiting",
         s \in {"leased", "validating"} <=> status[c] \in {"leased", "validating"},
         status' = [status EXCEPT ![c] = s],
         UNCHANGED <<resources, inUse, waiting, lease, opened>>
  PROVE  ClientInv'
<1>1. status' \in [Clients -> Status]
  BY DEF PoolInv, TypeOK
<1>2. LeaseMatchesStatus' /\ ExclusiveLease'
  BY DEF PoolInv, TypeOK, LeaseMatchesStatus, ExclusiveLease, Holds
<1>3. NoLostWakeup' /\ QueueMatchesStatus'
  BY DEF PoolInv, TypeOK, NoLostWakeup, Free, QueueMatchesStatus
<1>4. QED
  BY <1>1, <1>2, <1>3 DEF PoolInv, TypeOK, ClientInv, Conns

\* A client gives up its connection, which stays flagged if it is listed.
LEMMA GiveUpKeeps ==
  ASSUME PoolInv, NEW c \in Clients, status[c] \in {"leased", "validating"},
         GiveUp(c), UNCHANGED <<resources, inUse, waiting, opened>>
  PROVE  ClientInv'
<1>1. /\ lease' = [lease EXCEPT ![c] = NoConn]
      /\ status' = [status EXCEPT ![c] = "idle"]
  BY DEF GiveUp
<1>2. /\ status' \in [Clients -> Status]
      /\ lease' \in [Clients -> Conns \cup {NoConn}]
  BY <1>1 DEF PoolInv, TypeOK, Status
<1>3. LeaseMatchesStatus'
  BY <1>1 DEF PoolInv, TypeOK, LeaseMatchesStatus, Holds
<1>4. NoConn \notin resources
  BY DEF PoolInv, TypeOK, Conns, NoConn
<1>5. ExclusiveLease'
  BY <1>1, <1>4 DEF PoolInv, TypeOK, ExclusiveLease, Holds
<1>6. NoLostWakeup' /\ QueueMatchesStatus'
  BY <1>1 DEF PoolInv, TypeOK, NoLostWakeup, Free, QueueMatchesStatus
<1>7. QED
  BY <1>2, <1>3, <1>5, <1>6 DEF PoolInv, TypeOK, ClientInv, Conns

\* So does acquire().
LEMMA AcquireInv ==
  ASSUME PoolInv, NEW c \in Clients, Acquire(c)
  PROVE  PoolInv'
<1>1. /\ UNCHANGED <<resources, unvalidated, timerVars, initVars, dbVars>>
      /\ status[c] \in {"idle", "rejected"}
  BY DEF Acquire
<1>2. UNCHANGED <<unvalidated, opened, open, destroying, closing, draining, idleTimer,
                  drainPhase, toCreate, initCreating>>
  BY <1>1 DEF timerVars, initVars, dbVars
<1> SUFFICES ClientInv'
  BY <1>1, <1>2 DEF PoolInv, TypeOK, ClientInv, Conns
<1>3. CASE \E s \in {"creating", "rejected"} :
             /\ status' = [status EXCEPT ![c] = s]
             /\ UNCHANGED <<inUse, lease, waiting>>
  <2>1. PICK s \in {"creating", "rejected"} :
          status' = [status EXCEPT ![c] = s]
    BY <1>3
  <2>2. /\ s \in Status \ {"waiting"} /\ status[c] # "waiting"
        /\ s \in {"leased", "validating"} <=> status[c] \in {"leased", "validating"}
    BY <1>1, <2>1 DEF Status
  <2>3. UNCHANGED <<resources, inUse, waiting, lease, opened>>
    BY <1>1, <1>2, <1>3
  <2>4. QED
    BY <2>1, <2>2, <2>3, StatusKeeps, Zenon
<1>4. CASE Free # {} /\ Take(c, Min(Free)) /\ UNCHANGED waiting
  <2>1. Min(Free) \in Free
    <3>1. Free \in SUBSET Nat
      BY DEF PoolInv, TypeOK, Free, Conns
    <3>2. QED
      BY <1>4, <3>1, MinOfSet, Zenon
  <2>2. status[c] \notin {"waiting", "leased", "validating"}
    BY <1>1
  <2>3. QED
    <3>1. UNCHANGED <<resources, waiting, opened>>
      BY <1>1, <1>2, <1>4
    <3>2. PICK r \in Free : Take(c, r)
      BY <1>4, <2>1
    <3>3. QED
      BY <2>2, <3>1, <3>2, TakeKeeps, Zenon
<1>5. CASE /\ Free = {}
           /\ waiting' = Append(waiting, c)
           /\ status' = [status EXCEPT ![c] = "waiting"]
           /\ UNCHANGED <<inUse, lease>>
  <2>1. /\ waiting \in Seq(Clients) /\ IsInjective(waiting)
        /\ c \notin ToSet(waiting)
    BY <1>1 DEF PoolInv, TypeOK, QueueMatchesStatus
  <2>2. /\ waiting' \in Seq(Clients) /\ IsInjective(waiting')
        /\ ToSet(waiting') = ToSet(waiting) \cup {c}
    BY <1>5, <2>1, QueueAppend
  <2>3. status' \in [Clients -> Status]
    BY <1>5 DEF PoolInv, TypeOK, Status
  <2>4. LeaseMatchesStatus' /\ ExclusiveLease'
    BY <1>1, <1>5 DEF PoolInv, TypeOK, LeaseMatchesStatus, ExclusiveLease, Holds
  <2>5. NoLostWakeup'
    BY <1>1, <1>5 DEF NoLostWakeup, Free
  <2>6. QueueMatchesStatus'
    BY <1>5, <2>2 DEF PoolInv, TypeOK, QueueMatchesStatus
  <2>7. QED
    BY <1>1, <1>2, <1>5, <2>2, <2>3, <2>4, <2>5, <2>6
       DEF PoolInv, TypeOK, ClientInv, Conns
<1>6. QED
  BY <1>3, <1>4, <1>5 DEF Acquire

\* So does the .then callback of acquire().
LEMMA CreatedInv ==
  ASSUME PoolInv, NEW c \in Clients, Created(c)
  PROVE  PoolInv'
<1>1. /\ UNCHANGED <<resources, waiting, unvalidated, timerVars, initVars, dbVars>>
      /\ status[c] = "created"
  BY DEF Created
<1>2. UNCHANGED <<unvalidated, opened, open, destroying, closing, draining, idleTimer,
                  drainPhase, toCreate, initCreating>>
  BY <1>1 DEF timerVars, initVars, dbVars
<1> SUFFICES ClientInv'
  BY <1>1, <1>2 DEF PoolInv, TypeOK, ClientInv, Conns
<1>3. CASE Free # {} /\ Take(c, Min(Free))
  <2>1. Free \in SUBSET Nat
    BY DEF PoolInv, TypeOK, Free, Conns
  <2>2. Min(Free) \in Free
    BY <1>3, <2>1, MinOfSet, Zenon
  <2>3. PICK r \in Free : Take(c, r)
    BY <1>3, <2>2
  <2>4. status[c] \notin {"waiting", "leased", "validating"}
    BY <1>1
  <2>5. UNCHANGED <<resources, waiting, opened>>
    BY <1>1, <1>2
  <2>6. QED
    BY <2>3, <2>4, <2>5, TakeKeeps, Zenon
<1>4. CASE /\ status' = [status EXCEPT ![c] = "rejected"]
           /\ UNCHANGED <<inUse, lease>>
  <2>1. PICK s : s = "rejected"
    OBVIOUS
  <2>2. /\ s \in Status \ {"waiting"} /\ status[c] # "waiting"
        /\ s \in {"leased", "validating"} <=> status[c] \in {"leased", "validating"}
        /\ status' = [status EXCEPT ![c] = s]
    BY <1>1, <1>4, <2>1 DEF Status
  <2>3. UNCHANGED <<resources, inUse, waiting, lease, opened>>
    BY <1>1, <1>2, <1>4
  <2>4. QED
    BY <2>2, <2>3, StatusKeeps, Zenon
<1>5. QED
  BY <1>3, <1>4 DEF Created

\* So does the acquire timer.
LEMMA AcquireTimeoutInv ==
  ASSUME PoolInv, NEW c \in Clients, AcquireTimeout(c)
  PROVE  PoolInv'
<1>1. PICK i \in DOMAIN waiting : waiting[i] = c /\ waiting' = RemoveAt(waiting, i)
  BY DEF AcquireTimeout
<1>2. /\ UNCHANGED <<poolVars, unvalidated, timerVars, initVars, lease, dbVars>>
      /\ status' = [status EXCEPT ![c] = "rejected"]
  BY DEF AcquireTimeout
<1>3. UNCHANGED <<resources, inUse, unvalidated, opened, open, destroying, closing, draining,
                  idleTimer, drainPhase, toCreate, initCreating>>
  BY <1>2 DEF poolVars, timerVars, initVars, dbVars
<1>4. /\ waiting' \in Seq(Clients) /\ IsInjective(waiting')
      /\ ToSet(waiting') = ToSet(waiting) \ {c}
  BY <1>1, QueueRemoveAt DEF PoolInv, TypeOK, QueueMatchesStatus
<1>5. status[c] = "waiting" /\ waiting # <<>>
  <2>1. c \in ToSet(waiting)
    BY <1>1 DEF ToSet
  <2>2. waiting # <<>>
    BY <1>1
  <2>3. QED
    BY <2>1, <2>2 DEF PoolInv, QueueMatchesStatus
<1>6. status' \in [Clients -> Status]
  BY <1>2 DEF PoolInv, TypeOK, Status
<1>7. TypeOK'
  BY <1>2, <1>3, <1>4, <1>6 DEF PoolInv, TypeOK, Conns
<1>8. LeaseMatchesStatus' /\ ExclusiveLease'
  BY <1>2, <1>3, <1>5
     DEF PoolInv, TypeOK, LeaseMatchesStatus, ExclusiveLease, Holds
<1>9. NoLostWakeup'
  BY <1>3, <1>5 DEF PoolInv, NoLostWakeup, Free
<1>10. QueueMatchesStatus'
  BY <1>2, <1>4 DEF PoolInv, TypeOK, QueueMatchesStatus
<1>11. QED
  BY <1>3, <1>7, <1>8, <1>9, <1>10 DEF PoolInv

\* What createResource() leaves to its caller when it returns.
LEMMA CreateReturnsKeeps ==
  ASSUME PoolInv, NEW k \in Creators, CreateReturns(k)
  PROVE  /\ toCreate' \in 0..MinPoolSize /\ initCreating' \in BOOLEAN
         /\ initCreating' => toCreate' > 0
<1>1. CASE k = Initializer
  <2>1. initCreating
    BY <1>1, ClientsAssumption DEF Creators, Initializer
  <2>2. toCreate \in 1..MinPoolSize
    BY <2>1, PoolAssumption DEF PoolInv, TypeOK
  <2>3. initCreating' = FALSE /\ toCreate' = toCreate - 1
    BY <1>1 DEF CreateReturns
  <2>4. toCreate' \in 0..MinPoolSize
    BY <2>2, <2>3, PoolAssumption
  <2>5. initCreating' \in BOOLEAN /\ ~initCreating'
    BY <2>3, Zenon
  <2>6. QED
    BY <2>4, <2>5
<1>2. CASE k # Initializer
  BY <1>2 DEF CreateReturns, initVars, PoolInv, TypeOK
<1>3. QED
  BY <1>1, <1>2

\* createResource() moves its caller, and no other client, out of "creating".
LEMMA AfterCreateKeeps ==
  ASSUME PoolInv, NEW k \in Creators
  PROVE  /\ AfterCreate(k, status) \in [Clients -> Status]
         /\ \A c \in Clients :
              \/ AfterCreate(k, status)[c] = status[c]
              \/ status[c] = "creating" /\ AfterCreate(k, status)[c] = "created"
<1>1. k = Initializer \/ (k \in Clients /\ status[k] = "creating")
  BY DEF Creators
<1>2. CASE k = Initializer
  BY <1>2 DEF AfterCreate, PoolInv, TypeOK
<1>3. CASE k # Initializer
  BY <1>1, <1>3 DEF AfterCreate, PoolInv, TypeOK, Status
<1>4. QED
  BY <1>2, <1>3

\* A failed creation keeps the invariant.
LEMMA OpenFailInv ==
  ASSUME PoolInv, NEW k, OpenFail(k)
  PROVE  PoolInv'
<1>1. /\ k \in Creators /\ CreateReturns(k)
      /\ status' = AfterCreate(k, status)
      /\ UNCHANGED <<poolVars, unvalidated, timerVars, waiting, lease, dbVars>>
  BY DEF OpenFail
<1>2. UNCHANGED <<resources, inUse, unvalidated, opened, open, destroying, closing, draining,
                  idleTimer, drainPhase>>
  BY <1>1 DEF poolVars, timerVars, dbVars
<1>3. /\ toCreate' \in 0..MinPoolSize /\ initCreating' \in BOOLEAN
      /\ initCreating' => toCreate' > 0
  BY <1>1, CreateReturnsKeeps
<1>4. /\ status' \in [Clients -> Status]
      /\ \A c \in Clients : \/ status'[c] = status[c]
                            \/ status[c] = "creating" /\ status'[c] = "created"
  BY <1>1, AfterCreateKeeps
<1>5. TypeOK'
  BY <1>1, <1>2, <1>3, <1>4 DEF PoolInv, TypeOK, Conns
<1>6. LeaseMatchesStatus' /\ ExclusiveLease'
  BY <1>1, <1>2, <1>4 DEF PoolInv, LeaseMatchesStatus, ExclusiveLease, Holds
<1>7. NoLostWakeup' /\ QueueMatchesStatus'
  BY <1>1, <1>2, <1>4 DEF PoolInv, NoLostWakeup, Free, QueueMatchesStatus
<1>8. QED
  BY <1>2, <1>3, <1>5, <1>6, <1>7 DEF PoolInv

\* The new connection r is the only one that can be free under a queue.
LEMMA OpenOkReady ==
  ASSUME PoolInv, NEW k \in Creators, opened < MaxOpens,
         NEW r, r = opened + 1, NEW st, st = AfterCreate(k, status),
         NEW list, list = resources \cup {r}
  PROVE  ReadyToServe(r, list, inUse, st, lease, r)
<1>1. opened \in Nat /\ r \in Nat /\ opened <= r
  BY DEF PoolInv, TypeOK
<1>2. Conns \subseteq 1..r /\ r \in 1..r /\ r \notin Conns
  BY <1>1 DEF Conns
<1>3. /\ list \in SUBSET (1..r) /\ inUse \in SUBSET list
      /\ lease \in [Clients -> (1..r) \cup {NoConn}]
  BY <1>2 DEF PoolInv, TypeOK
<1>4. /\ st \in [Clients -> Status]
      /\ \A c \in Clients : \/ st[c] = status[c]
                            \/ status[c] = "creating" /\ st[c] = "created"
  BY AfterCreateKeeps
<1>5. waiting # <<>> => list \ inUse \subseteq {r}
  BY DEF PoolInv, NoLostWakeup, Free
<1>6. \A c \in Clients : st[c] = "waiting" <=> status[c] = "waiting"
  BY <1>4
<1>7. \A c \in Clients : lease[c] # NoConn <=> st[c] \in {"leased", "validating"}
  BY <1>4 DEF PoolInv, LeaseMatchesStatus, Holds
<1>8. \A c, d \in Clients : c # d /\ lease[c] # NoConn => lease[c] # lease[d]
  BY DEF PoolInv, ExclusiveLease, Holds
<1>9. \A c \in Clients : lease[c] \in list => lease[c] \in inUse
  <2>1. NoConn # r
    BY <1>2 DEF NoConn
  <2>2. \A c \in Clients : lease[c] # r
    BY <1>2, <2>1 DEF PoolInv, TypeOK
  <2>3. QED
    BY <2>2 DEF PoolInv, ExclusiveLease
<1>10. QED
  BY <1>1, <1>3, <1>4, <1>5, <1>6, <1>7, <1>8, <1>9 DEF ReadyToServe

\* So does a connection that was opened.
LEMMA OpenOkInv ==
  ASSUME PoolInv, NEW k, OpenOk(k)
  PROVE  PoolInv'
<1>1. PICK r : r = opened + 1
  OBVIOUS
<1>2. PICK st : st = AfterCreate(k, status)
  OBVIOUS
<1>3. PICK list : list = resources \cup {r}
  OBVIOUS
<1>4. /\ k \in Creators /\ CreateReturns(k)
      /\ opened < MaxOpens /\ opened' = r
      /\ open' = open \cup {r} /\ resources' = list
      /\ CheckWaitingClients(list, inUse, st, lease)
      /\ UNCHANGED <<unvalidated, timerVars, closing>>
  BY <1>1, <1>2, <1>3 DEF OpenOk
<1>5. ReadyToServe(r, list, inUse, st, lease, r)
  BY <1>1, <1>2, <1>3, <1>4, OpenOkReady
<1>6. /\ waiting' \in Seq(Clients) /\ status' \in [Clients -> Status]
      /\ lease' \in [Clients -> (1..r) \cup {NoConn}]
      /\ destroying' \in SUBSET (1..r) /\ inUse' \subseteq resources'
      /\ LeaseMatchesStatus' /\ ExclusiveLease'
      /\ NoLostWakeup' /\ QueueMatchesStatus'
  BY <1>4, <1>5, CheckWaitingKeeps, Zenon
<1>7. /\ toCreate' \in 0..MinPoolSize /\ initCreating' \in BOOLEAN
      /\ initCreating' => toCreate' > 0
  BY <1>4, CreateReturnsKeeps
<1>8. /\ r \in Nat /\ r <= MaxOpens
      /\ Conns \subseteq 1..r /\ r \in 1..r /\ list \subseteq 1..r
  BY <1>1, <1>4, <1>5, PoolAssumption DEF PoolInv, TypeOK, Conns, ReadyToServe
<1>9. /\ UNCHANGED <<unvalidated, draining, idleTimer, drainPhase, closing>>
      /\ Conns' = 1..r
  BY <1>4 DEF timerVars, Conns
<1>10. TypeOK'
  BY <1>4, <1>6, <1>7, <1>8, <1>9 DEF PoolInv, TypeOK
<1>11. QED
  BY <1>4, <1>6, <1>7, <1>8, <1>10 DEF PoolInv

\* The end of release(), wherever it is reached: the connection given back is
\* the only one that can be free under a queue.
LEMMA PutBackReady ==
  ASSUME PoolInv, NEW c \in Clients, status[c] \in {"leased", "validating"},
         NEW r, r = lease[c], NEW used, used = inUse \ {r},
         NEW st, st = [status EXCEPT ![c] = "idle"],
         NEW ls, ls = [lease EXCEPT ![c] = NoConn]
  PROVE  ReadyToServe(opened, resources, used, st, ls, r)
<1>1. /\ opened \in Nat /\ opened <= opened /\ r \in Nat /\ NoConn \notin resources
      /\ r # NoConn
  BY DEF PoolInv, TypeOK, Conns, NoConn, LeaseMatchesStatus, Holds
<1>2. /\ resources \in SUBSET (1..opened) /\ used \in SUBSET resources
      /\ st \in [Clients -> Status]
      /\ ls \in [Clients -> (1..opened) \cup {NoConn}]
  BY DEF PoolInv, TypeOK, Conns, Status
<1>3. waiting # <<>> => resources \ used \subseteq {r}
  BY DEF PoolInv, NoLostWakeup, Free
<1>4. \A d \in Clients : st[d] = "waiting" <=> status[d] = "waiting"
  BY DEF PoolInv, TypeOK
<1>5. \A d \in Clients : ls[d] # NoConn <=> st[d] \in {"leased", "validating"}
  BY DEF PoolInv, TypeOK, LeaseMatchesStatus, Holds
<1>6. \A d, e \in Clients : d # e /\ ls[d] # NoConn => ls[d] # ls[e]
  BY DEF PoolInv, TypeOK, ExclusiveLease, Holds
<1>7. \A d \in Clients : ls[d] \in resources => ls[d] \in used
  BY <1>1 DEF PoolInv, TypeOK, ExclusiveLease, Holds
<1>8. QED
  BY <1>1, <1>2, <1>3, <1>4, <1>5, <1>6, <1>7 DEF ReadyToServe

\* So does the end of release(), in what it changes.
LEMMA PutBackKeeps ==
  ASSUME PoolInv, NEW c \in Clients, status[c] \in {"leased", "validating"},
         PutBack(c), UNCHANGED <<resources, opened>>
  PROVE  ClientInv' /\ destroying' \in SUBSET (1..opened)
<1>1. PICK r : r = lease[c]
  OBVIOUS
<1>2. PICK used : used = inUse \ {r}
  OBVIOUS
<1>3. PICK st : st = [status EXCEPT ![c] = "idle"]
  OBVIOUS
<1>4. PICK ls : ls = [lease EXCEPT ![c] = NoConn]
  OBVIOUS
<1>5. /\ CheckWaitingClients(resources, used, st, ls)
      /\ resources' = resources /\ opened' = opened
  BY <1>1, <1>2, <1>3, <1>4 DEF PutBack
<1>6. ReadyToServe(opened, resources, used, st, ls, r)
  BY <1>1, <1>2, <1>3, <1>4, PutBackReady
<1>7. /\ waiting' \in Seq(Clients) /\ status' \in [Clients -> Status]
      /\ lease' \in [Clients -> (1..opened) \cup {NoConn}]
      /\ destroying' \in SUBSET (1..opened) /\ inUse' \subseteq resources'
      /\ LeaseMatchesStatus' /\ ExclusiveLease'
      /\ NoLostWakeup' /\ QueueMatchesStatus'
  BY <1>5, <1>6, CheckWaitingKeeps, Zenon
<1>8. QED
  BY <1>5, <1>7 DEF ClientInv, Conns

\* So do release() and the answer of the validation function.
LEMMA ReleaseInv ==
  ASSUME PoolInv, NEW c \in Clients, Release(c) \/ Validated(c)
  PROVE  PoolInv'
<1>1. /\ UNCHANGED <<resources, timerVars, initVars, opened, open, closing>>
      /\ status[c] \in {"leased", "validating"}
  BY DEF Release, Validated
<1>2. UNCHANGED <<draining, idleTimer, drainPhase, toCreate, initCreating>>
  BY <1>1 DEF timerVars, initVars
<1>3. lease[c] \in 1..opened
  BY <1>1 DEF PoolInv, TypeOK, LeaseMatchesStatus, Holds, Conns
<1>8. unvalidated' \in {unvalidated, unvalidated \cup {lease[c]}}
  BY DEF Release, Validated
<1> SUFFICES ClientInv' /\ destroying' \in SUBSET (1..opened)
  <2>1. unvalidated' \subseteq 1..opened
    BY <1>3, <1>8 DEF PoolInv, TypeOK, Conns
  <2> QED
    BY <1>1, <1>2, <2>1 DEF PoolInv, TypeOK, ClientInv, Conns
<1>4. CASE PutBack(c)
  <2>1. UNCHANGED <<resources, opened>>
    BY <1>1
  <2>2. QED
    BY <1>1, <1>4, <2>1, PutBackKeeps, Zenon
<1>5. CASE /\ GiveUp(c) /\ UNCHANGED <<inUse, waiting>>
           /\ destroying' \in {destroying, destroying \cup {lease[c]}}
  <2>1. UNCHANGED <<resources, inUse, waiting, opened>>
    BY <1>1, <1>5
  <2>2. ClientInv'
    BY <1>1, <1>5, <2>1, GiveUpKeeps, Zenon
  <2>3. QED
    BY <1>3, <1>5, <2>2 DEF PoolInv, TypeOK, Conns
<1>6. CASE /\ status' = [status EXCEPT ![c] = "validating"]
           /\ UNCHANGED <<inUse, waiting, lease, destroying>>
  <2>1. PICK s : s = "validating"
    OBVIOUS
  <2>2. /\ s \in Status \ {"waiting"} /\ status[c] # "waiting"
        /\ s \in {"leased", "validating"} <=> status[c] \in {"leased", "validating"}
        /\ status' = [status EXCEPT ![c] = s]
    BY <1>1, <1>6, <2>1 DEF Status
  <2>3. UNCHANGED <<resources, inUse, waiting, lease, opened>>
    BY <1>1, <1>6
  <2>4. ClientInv'
    BY <2>2, <2>3, StatusKeeps, Zenon
  <2>5. QED
    BY <1>6, <2>4 DEF PoolInv, TypeOK, Conns
<1>7. QED
  BY <1>4, <1>5, <1>6 DEF Release, Validated

\* Every step of the pool keeps the invariant.
LEMMA NextInv ==
  ASSUME PoolInv, [Next]_vars
  PROVE  PoolInv'
<1>1. CASE InitializeNext
  BY <1>1, InitializeNextInv
<1>2. CASE \E c \in Clients : ClientStep(c)
  BY <1>2, AcquireInv, CreatedInv, AcquireTimeoutInv, ReleaseInv DEF ClientStep
<1>3. CASE \E k \in Clients \cup {Initializer} : CreateStep(k)
  BY <1>3, OpenOkInv, OpenFailInv DEF CreateStep
<1>4. CASE CheckIdleResources
  BY <1>4, CheckIdleResourcesInv
<1>5. CASE \E r \in Conns : CloseStep(r)
  BY <1>5, CloseStepInv
<1>6. CASE BeginDrain \/ BeginClear
  BY <1>6, BeginInv
<1>7. CASE Cleared
  BY <1>7, ClearedInv
<1>8. CASE UNCHANGED vars
  BY <1>8, StutterInv
<1>9. QED
  BY <1>1, <1>2, <1>3, <1>4, <1>5, <1>6, <1>7, <1>8 DEF Next

\* The invariant holds whatever the options, the number of clients and the
\* interleaving of creations, releases, validations, idle checks and drains.
THEOREM PoolInvariant == Spec => []PoolInv
<1>1. PoolInv /\ [Next]_vars => PoolInv'
  BY NextInv
<1>2. QED
  BY <1>1, InitInv, PTL DEF Spec

\* No two clients ever hold the same connection, and a listed connection that a
\* client holds is flagged in use.
THEOREM LeasesExclusive == Spec => []ExclusiveLease
<1>1. PoolInv => ExclusiveLease
  BY DEF PoolInv
<1>2. QED
  BY <1>1, PoolInvariant, PTL

\* No wake-up is lost: nobody waits in the queue while a listed resource is free.
THEOREM WakeupsKept == Spec => []NoLostWakeup
<1>1. PoolInv => NoLostWakeup
  BY DEF PoolInv
<1>2. QED
  BY <1>1, PoolInvariant, PTL

-----------------------------------------------------------------------------
(* What the steps mean to the clients                                      *)

\* The two outcomes of a hand-over, as its clients see them.
LEMMA CheckWaitingEffect ==
  ASSUME PoolInv, NEW N, NEW list, NEW used, NEW st, NEW ls, NEW r,
         ReadyToServe(N, list, used, st, ls, r),
         CheckWaitingClients(list, used, st, ls)
  PROVE  \/ waiting' = waiting /\ status' = st /\ lease' = ls
         \/ /\ waiting # <<>> /\ list \ used = {r}
            /\ Head(waiting) \in Clients /\ status[Head(waiting)] = "waiting"
            /\ waiting' = Tail(waiting)
            /\ status' = [st EXCEPT ![Head(waiting)] = "leased"]
            /\ lease' = [ls EXCEPT ![Head(waiting)] = r]
<1> USE DEF ReadyToServe
<1>1. TypeOK /\ QueueMatchesStatus
  BY DEF PoolInv
<1>2. IsFiniteSet(list)
  <2>1. IsFiniteSet(1..N)
    BY FS_Interval
  <2>2. QED
    BY <2>1, FS_Subset
<1>3. ls = [c \in Clients |-> ls[c]]
  OBVIOUS
<1>4. CASE waiting = <<>> \/ list \ used = {}
  BY <1>1, <1>2, <1>3, <1>4, NobodyServed
<1>5. CASE waiting # <<>> /\ list \ used # {}
  <2>1. list \ used = {r} /\ r \in Nat /\ waiting # <<>>
    BY <1>5
  <2>2. /\ waiting' = Tail(waiting)
        /\ status' = [st EXCEPT ![Head(waiting)] = "leased"]
        /\ lease' = [ls EXCEPT ![Head(waiting)] = r]
    <3>1. st \in [Clients -> Status]
      OBVIOUS
    <3>2. /\ inUse' = used \cup {r} /\ waiting' = Tail(waiting)
          /\ status' = [st EXCEPT ![Head(waiting)] = "leased"]
          /\ lease' = [ls EXCEPT ![Head(waiting)] = r]
          /\ destroying' \in {destroying, destroying \cup {r}}
          /\ OverMax(list) \/ destroying' = destroying
      BY <1>1, <1>2, <1>3, <2>1, <3>1, HeadServed, Zenon
    <3>3. QED
      BY <3>2
  <2>3. Head(waiting) \in Clients /\ Head(waiting) \in ToSet(waiting)
    BY <1>1, <2>1, QueueTail DEF TypeOK, QueueMatchesStatus
  <2>4. QED
    BY <1>1, <2>1, <2>2, <2>3 DEF QueueMatchesStatus
<1>6. QED
  BY <1>4, <1>5

\* A new connection: createResource() returns to k and the queue is served.
LEMMA OpenOkEffect ==
  ASSUME PoolInv, NEW k, OpenOk(k)
  PROVE  \/ /\ waiting' = waiting /\ lease' = lease
            /\ status' = AfterCreate(k, status)
         \/ /\ waiting # <<>> /\ opened + 1 \in 1..MaxOpens
            /\ Head(waiting) \in Clients /\ status[Head(waiting)] = "waiting"
            /\ waiting' = Tail(waiting)
            /\ status' = [AfterCreate(k, status) EXCEPT ![Head(waiting)] = "leased"]
            /\ lease' = [lease EXCEPT ![Head(waiting)] = opened + 1]
<1>1. PICK r : r = opened + 1
  OBVIOUS
<1>2. PICK st : st = AfterCreate(k, status)
  OBVIOUS
<1>3. PICK list : list = resources \cup {r}
  OBVIOUS
<1>4. /\ k \in Creators /\ opened < MaxOpens
      /\ CheckWaitingClients(list, inUse, st, lease)
  BY <1>1, <1>2, <1>3 DEF OpenOk
<1>5. ReadyToServe(r, list, inUse, st, lease, r)
  BY <1>1, <1>2, <1>3, <1>4, OpenOkReady
<1>6. r \in 1..MaxOpens
  BY <1>1, <1>4, PoolAssumption DEF PoolInv, TypeOK
<1>7. QED
  BY <1>1, <1>2, <1>4, <1>5, <1>6, CheckWaitingEffect

\* release() hands its connection to the head of the queue, or nobody waits.
LEMMA PutBackEffect ==
  ASSUME PoolInv, NEW c \in Clients, status[c] \in {"leased", "validating"},
         PutBack(c)
  PROVE  \/ /\ waiting' = waiting
            /\ status' = [status EXCEPT ![c] = "idle"]
            /\ lease' = [lease EXCEPT ![c] = NoConn]
         \/ /\ waiting # <<>>
            /\ Head(waiting) \in Clients /\ status[Head(waiting)] = "waiting"
            /\ waiting' = Tail(waiting)
            /\ status' = [status EXCEPT ![c] = "idle", ![Head(waiting)] = "leased"]
            /\ lease' = [lease EXCEPT ![c] = NoConn, ![Head(waiting)] = lease[c]]
<1>1. PICK r : r = lease[c]
  OBVIOUS
<1>2. PICK used : used = inUse \ {r}
  OBVIOUS
<1>3. PICK st : st = [status EXCEPT ![c] = "idle"]
  OBVIOUS
<1>4. PICK ls : ls = [lease EXCEPT ![c] = NoConn]
  OBVIOUS
<1>5. CheckWaitingClients(resources, used, st, ls)
  BY <1>1, <1>2, <1>3, <1>4 DEF PutBack
<1>6. ReadyToServe(opened, resources, used, st, ls, r)
  BY <1>1, <1>2, <1>3, <1>4, PutBackReady
<1>7. \/ waiting' = waiting /\ status' = st /\ lease' = ls
      \/ /\ waiting # <<>>
         /\ Head(waiting) \in Clients /\ status[Head(waiting)] = "waiting"
         /\ waiting' = Tail(waiting)
         /\ status' = [st EXCEPT ![Head(waiting)] = "leased"]
         /\ lease' = [ls EXCEPT ![Head(waiting)] = r]
  BY <1>5, <1>6, CheckWaitingEffect
<1>8. QED
  BY <1>1, <1>3, <1>4, <1>7

-----------------------------------------------------------------------------
(* Each kind of step, as the lease service sees it.                        *)

\* The pool starts as the lease service does.
LEMMA LeaseInit == Init => Lease!Init
<1> SUFFICES ASSUME Init PROVE Asking = {} /\ lease = [c \in Clients |-> NoConn]
  BY DEF Lease!Init
<1>1. QED
  BY DEF Init, Asking, Pending

\* A free resource is granted to a client that holds none.
LEMMA LeaseTake ==
  ASSUME PoolInv, NEW c \in Clients, status[c] \in {"idle", "rejected", "created"},
         lease[c] = NoConn, Free # {}, Take(c, Min(Free))
  PROVE  Lease!Next
<1>1. PICK r : r = Min(Free)
  OBVIOUS
<1>2. r \in Free
  <2>1. Free \in SUBSET Nat
    BY DEF PoolInv, TypeOK, Free, Conns
  <2>2. QED
    BY <1>1, <2>1, MinOfSet, Zenon
<1>3. r \in 1..MaxOpens
  BY <1>2, PoolAssumption DEF PoolInv, TypeOK, Free, Conns
<1>4. r \notin Lease!Taken
  BY <1>2 DEF Lease!Taken, PoolInv, ExclusiveLease, Free
<1>5. /\ lease' = [lease EXCEPT ![c] = r]
      /\ status' = [status EXCEPT ![c] = "leased"]
  BY <1>1 DEF Take
<1>6. Asking' = Asking \ {c}
  BY <1>5 DEF PoolInv, TypeOK, Asking, Pending
<1>7. Lease!Grant(c, r)
  BY <1>4, <1>5, <1>6 DEF Lease!Grant
<1>8. QED
  BY <1>3, <1>7 DEF Lease!Next

\* A pending acquire() is refused.
LEMMA LeaseTurnAway ==
  ASSUME PoolInv, NEW c \in Asking,
         status' = [status EXCEPT ![c] = "rejected"], UNCHANGED lease
  PROVE  Lease!Next
<1>1. {c} \in SUBSET Clients /\ {c} \subseteq Asking
  BY DEF Asking
<1>2. Asking' = Asking \ {c}
  BY DEF PoolInv, TypeOK, Asking, Pending
<1>3. Lease!TurnAway({c})
  BY <1>1, <1>2 DEF Lease!TurnAway
<1>4. QED
  BY <1>1, <1>3 DEF Lease!Next

\* acquire() asks, is granted at once, or is refused without having asked.
LEMMA LeaseAcquire ==
  ASSUME PoolInv, NEW c \in Clients, Acquire(c)
  PROVE  Lease!Next \/ UNCHANGED Lease!leaseVars
<1>1. /\ status[c] \in {"idle", "rejected"} /\ c \notin Asking
      /\ lease[c] = NoConn /\ status \in [Clients -> Status]
  BY DEF Acquire, PoolInv, TypeOK, LeaseMatchesStatus, Holds, Asking, Pending
<1>2. CASE status' = [status EXCEPT ![c] = "rejected"] /\ UNCHANGED lease
  <2>1. Asking' = Asking
    BY <1>1, <1>2 DEF Asking, Pending
  <2>2. QED
    BY <1>2, <2>1 DEF Lease!leaseVars
<1>3. CASE /\ UNCHANGED lease
           /\ \E s \in {"creating", "waiting"} : status' = [status EXCEPT ![c] = s]
  <2>1. Asking' = Asking \cup {c}
    BY <1>1, <1>3 DEF Asking, Pending
  <2>2. Lease!Ask(c)
    BY <1>1, <1>3, <2>1 DEF Lease!Ask
  <2>3. QED
    BY <2>2 DEF Lease!Next
<1>4. CASE Free # {} /\ Take(c, Min(Free))
  BY <1>1, <1>4, LeaseTake
<1>5. QED
  BY <1>2, <1>3, <1>4 DEF Acquire

\* The .then callback of acquire() is a grant or a refusal.
LEMMA LeaseCreated ==
  ASSUME PoolInv, NEW c \in Clients, Created(c)
  PROVE  Lease!Next \/ UNCHANGED Lease!leaseVars
<1>1. /\ status[c] = "created" /\ c \in Asking
      /\ lease[c] = NoConn /\ status \in [Clients -> Status]
  BY DEF Created, PoolInv, TypeOK, LeaseMatchesStatus, Holds, Asking, Pending
<1>2. CASE status' = [status EXCEPT ![c] = "rejected"] /\ UNCHANGED lease
  BY <1>1, <1>2, LeaseTurnAway
<1>3. CASE Free # {} /\ Take(c, Min(Free))
  BY <1>1, <1>3, LeaseTake
<1>4. QED
  BY <1>2, <1>3 DEF Created

\* The acquire timer is a refusal.
LEMMA LeaseAcquireTimeout ==
  ASSUME PoolInv, NEW c \in Clients, AcquireTimeout(c)
  PROVE  Lease!Next \/ UNCHANGED Lease!leaseVars
<1>1. c \in Asking
  BY DEF AcquireTimeout, ToSet, PoolInv, QueueMatchesStatus, Asking, Pending
<1>2. status' = [status EXCEPT ![c] = "rejected"] /\ UNCHANGED lease
  BY DEF AcquireTimeout
<1>3. QED
  BY <1>1, <1>2, LeaseTurnAway

\* A release is a return, a hand-over, or, until it is validated, nothing.
LEMMA LeaseRelease ==
  ASSUME PoolInv, NEW c \in Clients, Release(c) \/ Validated(c)
  PROVE  Lease!Next \/ UNCHANGED Lease!leaseVars
<1>1. /\ status[c] \in {"leased", "validating"} /\ c \notin Asking
      /\ lease[c] # NoConn
      /\ status \in [Clients -> Status] /\ DOMAIN lease = Clients
  BY DEF Release, Validated, PoolInv, TypeOK, LeaseMatchesStatus, Holds, Asking, Pending
<1>2. CASE /\ status' = [status EXCEPT ![c] = "idle"]
           /\ lease' = [lease EXCEPT ![c] = NoConn]
  <2>1. Asking' = Asking
    BY <1>1, <1>2 DEF Asking, Pending
  <2>2. Lease!Return(c)
    BY <1>1, <1>2, <2>1 DEF Lease!Return
  <2>3. QED
    BY <2>2 DEF Lease!Next
<1>3. CASE PutBack(c) /\ waiting # <<>> /\ waiting' = Tail(waiting)
  <2>1. PICK h \in Clients :
          /\ status[h] = "waiting"
          /\ status' = [status EXCEPT ![c] = "idle", ![h] = "leased"]
          /\ lease' = [lease EXCEPT ![c] = NoConn, ![h] = lease[c]]
    BY <1>1, <1>3, PutBackEffect
  <2>2. h \in Asking /\ Asking' = Asking \ {h}
    BY <1>1, <2>1 DEF Asking, Pending
  <2>3. Lease!HandOver(c, h)
    BY <1>1, <2>1, <2>2 DEF Lease!HandOver
  <2>4. QED
    BY <2>3 DEF Lease!Next
<1>4. CASE status' = [status EXCEPT ![c] = "validating"] /\ UNCHANGED lease
  <2>1. Asking' = Asking
    BY <1>1, <1>4 DEF Asking, Pending
  <2>2. QED
    BY <1>4, <2>1 DEF Lease!leaseVars
<1>5. CASE PutBack(c)
  BY <1>1, <1>2, <1>3, <1>5, PutBackEffect
<1>6. QED
  BY <1>2, <1>4, <1>5 DEF Release, Validated, GiveUp

\* A new connection is a grant to the head of the queue, or nothing.
LEMMA LeaseOpen ==
  ASSUME PoolInv, NEW k, CreateStep(k)
  PROVE  Lease!Next \/ UNCHANGED Lease!leaseVars
<1>1. PICK st : st = AfterCreate(k, status)
  OBVIOUS
<1>2. /\ st \in [Clients -> Status]
      /\ \A c \in Clients : \/ st[c] = status[c]
                            \/ status[c] = "creating" /\ st[c] = "created"
  BY <1>1, AfterCreateKeeps DEF CreateStep, OpenOk, OpenFail
<1>3. CASE status' = st /\ lease' = lease
  <2>1. Asking' = Asking
    BY <1>2, <1>3 DEF Asking, Pending
  <2>2. QED
    BY <1>3, <2>1 DEF Lease!leaseVars
<1>4. CASE \E h \in Clients : /\ status[h] = "waiting"
                              /\ status' = [st EXCEPT ![h] = "leased"]
                              /\ lease' = [lease EXCEPT ![h] = opened + 1]
                              /\ opened + 1 \in 1..MaxOpens
  <2>1. PICK h \in Clients : /\ status[h] = "waiting"
                             /\ status' = [st EXCEPT ![h] = "leased"]
                             /\ lease' = [lease EXCEPT ![h] = opened + 1]
                             /\ opened + 1 \in 1..MaxOpens
    BY <1>4
  <2>2. Asking' = Asking \ {h}
    BY <1>2, <2>1 DEF Asking, Pending
  <2>3. lease[h] = NoConn
    BY <2>1 DEF PoolInv, LeaseMatchesStatus, Holds
  <2>4. opened + 1 \notin Lease!Taken
    BY DEF Lease!Taken, PoolInv, TypeOK, Conns, NoConn
  <2>5. Lease!Grant(h, opened + 1)
    BY <2>1, <2>2, <2>3, <2>4 DEF Lease!Grant
  <2>6. QED
    BY <2>1, <2>5 DEF Lease!Next
<1>5. CASE OpenOk(k)
  BY <1>1, <1>3, <1>4, <1>5, OpenOkEffect
<1>6. CASE OpenFail(k)
  BY <1>1, <1>3, <1>6 DEF OpenFail
<1>7. QED
  BY <1>5, <1>6 DEF CreateStep

\* A cleared pool refuses everyone in the queue.
LEMMA LeaseCleared ==
  ASSUME PoolInv, Cleared
  PROVE  Lease!Next \/ UNCHANGED Lease!leaseVars
<1>1. PICK S : S = {c \in Clients : status[c] = "waiting"}
  OBVIOUS
<1>2. S \subseteq Asking /\ Asking' = Asking \ S
  BY <1>1 DEF Cleared, Asking, Pending
<1>3. Lease!TurnAway(S)
  BY <1>2 DEF Lease!TurnAway, Cleared
<1>4. S \in SUBSET Clients
  BY <1>1
<1>5. QED
  BY <1>3, <1>4 DEF Lease!Next

\* A step that changes no client is none of the lease service.
LEMMA LeaseStutter ==
  ASSUME UNCHANGED <<status, lease>>
  PROVE  UNCHANGED Lease!leaseVars
BY DEF Asking, Pending, Lease!leaseVars

\* Every step of the pool is a step of the lease service or none.
LEMMA LeaseNext ==
  ASSUME PoolInv, [Next]_vars
  PROVE  Lease!Next \/ UNCHANGED Lease!leaseVars
<1>1. CASE InitializeNext
  BY <1>1, LeaseStutter DEF InitializeNext, clientVars
<1>2. CASE \E c \in Clients : ClientStep(c)
  BY <1>2, LeaseAcquire, LeaseCreated, LeaseAcquireTimeout, LeaseRelease DEF ClientStep
<1>3. CASE \E k \in Clients \cup {Initializer} : CreateStep(k)
  BY <1>3, LeaseOpen
<1>4. CASE CheckIdleResources
  BY <1>4, LeaseStutter DEF CheckIdleResources, clientVars
<1>5. CASE \E r \in Conns : CloseStep(r)
  BY <1>5, LeaseStutter
     DEF CloseStep, DestroyOk, DestroyFail, CloseOk, CloseFail, clientVars
<1>6. CASE BeginDrain \/ BeginClear
  BY <1>6, LeaseStutter DEF BeginDrain, BeginClear, clientVars
<1>7. CASE Cleared
  BY <1>7, LeaseCleared
<1>8. CASE UNCHANGED vars
  BY <1>8, LeaseStutter DEF vars, clientVars
<1>9. QED
  BY <1>1, <1>2, <1>3, <1>4, <1>5, <1>6, <1>7, <1>8 DEF Next

\* The pool keeps the promise of ConnectionLease: whatever races creations,
\* releases, time-outs, idle checks and drains run, a connection passes to a
\* second client only by being given back.
THEOREM PoolImplementsLease == Spec => ImplementsLease
<1>1. PoolInv /\ [Next]_vars => [Lease!Next]_(Lease!leaseVars)
  BY LeaseNext
<1>2. QED
  BY <1>1, LeaseInit, PoolInvariant, PTL DEF Spec, ImplementsLease, Lease!Spec

-----------------------------------------------------------------------------
(* The order of service.                                                   *)

\* Only the head of the queue passes from waiting to leased.
LEMMA OnlyHeadServed ==
  ASSUME PoolInv, [Next]_vars, NEW c \in Clients,
         status[c] = "waiting", status'[c] = "leased"
  PROVE  waiting # <<>> /\ c = Head(waiting)
<1>1. status \in [Clients -> Status]
  BY DEF PoolInv, TypeOK
<1>2. ASSUME NEW d \in Clients, Acquire(d) \/ Created(d) \/ AcquireTimeout(d)
      PROVE  FALSE
  <2>1. PICK s : /\ status' = [status EXCEPT ![d] = s]
                 /\ s = "leased" => status[d] # "waiting"
    BY <1>2 DEF Acquire, Created, AcquireTimeout, Take
  <2>2. QED
    BY <1>1, <2>1
<1>3. ASSUME NEW d \in Clients, Release(d) \/ Validated(d)
      PROVE  waiting # <<>> /\ c = Head(waiting)
  <2>1. status[d] \in {"leased", "validating"}
    BY <1>3 DEF Release, Validated
  <2>2. CASE PutBack(d)
    BY <1>1, <2>1, <2>2, PutBackEffect
  <2>3. CASE \E s \in {"idle", "validating"} : status' = [status EXCEPT ![d] = s]
    BY <1>1, <2>3
  <2>4. QED
    BY <1>3, <2>2, <2>3 DEF Release, Validated, GiveUp
<1>4. ASSUME NEW k, CreateStep(k)
      PROVE  waiting # <<>> /\ c = Head(waiting)
  <2>1. PICK st : st = AfterCreate(k, status)
    OBVIOUS
  <2>2. st \in [Clients -> Status] /\ st[c] = "waiting"
    BY <1>4, <2>1, AfterCreateKeeps DEF CreateStep, OpenOk, OpenFail
  <2>3. CASE status' = st
    BY <2>2, <2>3
  <2>4. CASE waiting # <<>> /\ status' = [st EXCEPT ![Head(waiting)] = "leased"]
    BY <2>2, <2>4
  <2>5. QED
    BY <1>4, <2>1, <2>3, <2>4, OpenOkEffect DEF CreateStep, OpenFail
<1>5. CASE Cleared
  BY <1>1, <1>5 DEF Cleared
<1>6. CASE UNCHANGED status
  BY <1>6
<1>7. QED
  BY <1>2, <1>3, <1>4, <1>5, <1>6
     DEF Next, ClientStep, InitializeNext, CheckIdleResources, CloseStep, DestroyOk,
         DestroyFail, CloseOk, CloseFail, BeginDrain, BeginClear, clientVars, vars

\* First come, first served: no client is handed a connection while one that
\* queued before it goes on waiting.
THEOREM PoolServesInOrder == Spec => ServedInOrder
<1>1. ASSUME PoolInv, [Next]_vars, NEW i \in DOMAIN waiting, NEW j \in DOMAIN waiting,
             i < j, status'[waiting[j]] = "leased"
      PROVE  FALSE
  <2>1. PICK n \in Nat : n = Len(waiting) /\ DOMAIN waiting = 1..n
    BY <1>1 DEF PoolInv, TypeOK
  <2>2. waiting[j] \in Clients /\ status[waiting[j]] = "waiting"
    BY <1>1, <2>1 DEF PoolInv, TypeOK, QueueMatchesStatus, ToSet
  <2>3. waiting[j] = Head(waiting)
    BY <1>1, <2>2, OnlyHeadServed
  <2>4. 1 \in 1..n /\ Head(waiting) = waiting[1]
    BY <1>1, <2>1 DEF PoolInv, TypeOK
  <2>5. j = 1
    BY <1>1, <2>1, <2>3, <2>4 DEF PoolInv, QueueMatchesStatus, IsInjective
  <2>6. QED
    BY <1>1, <2>1, <2>5
<1>2. PoolInv /\ [Next]_vars =>
        [\A i, j \in DOMAIN waiting :
           i < j /\ status'[waiting[j]] = "leased" => status'[waiting[i]] # "waiting"]_vars
  BY <1>1
<1>3. QED
  BY <1>2, PoolInvariant, PTL DEF Spec, ServedInOrder

-----------------------------------------------------------------------------
(* What the clients hold stays accounted for and open.                      *)

\* While the pool is not drained, has no idle check and lists no surplus, every
\* free connection and every connection a client holds is open and on no path
\* to its close().
Calm == ~draining /\ ~HasIdleCheck /\ opened <= MaxPoolSize

KeptOpen ==
  /\ closing = {} /\ drainPhase = "none" /\ ~idleTimer
  /\ Free \subseteq open \ destroying
  /\ \A c \in Clients : Holds(c) => lease[c] \in open \ destroying

CapacityInv == CapacityAccounted /\ (Calm => KeptOpen)

\* The two outcomes of a hand-over, as the connections see them: r goes from a
\* free place to a client that held nothing, and is destroyed only if the list
\* is over maxPoolSize.
LEMMA HandOver ==
  ASSUME PoolInv, NEW N, NEW list, NEW used, NEW st, NEW ls, NEW r,
         ReadyToServe(N, list, used, st, ls, r),
         CheckWaitingClients(list, used, st, ls)
  PROVE  \/ inUse' = used /\ lease' = ls /\ destroying' = destroying
         \/ /\ list \ used = {r} /\ inUse' = used \cup {r}
            /\ \E h \in Clients : ls[h] = NoConn /\ lease' = [ls EXCEPT ![h] = r]
            /\ destroying \subseteq destroying'
            /\ OverMax(list) \/ destroying' = destroying
<1> USE DEF ReadyToServe
<1>1. TypeOK /\ QueueMatchesStatus
  BY DEF PoolInv
<1>2. IsFiniteSet(list)
  <2>1. IsFiniteSet(1..N)
    BY FS_Interval
  <2>2. QED
    BY <2>1, FS_Subset
<1>3. ls = [c \in Clients |-> ls[c]]
  OBVIOUS
<1>4. CASE waiting = <<>> \/ list \ used = {}
  BY <1>1, <1>2, <1>3, <1>4, NobodyServed
<1>5. CASE waiting # <<>> /\ list \ used # {}
  <2>1. list \ used = {r} /\ r \in Nat /\ waiting # <<>>
    BY <1>5
  <2>2. /\ inUse' = used \cup {r} /\ waiting' = Tail(waiting)
        /\ status' = [st EXCEPT ![Head(waiting)] = "leased"]
        /\ lease' = [ls EXCEPT ![Head(waiting)] = r]
        /\ destroying' \in {destroying, destroying \cup {r}}
        /\ OverMax(list) \/ destroying' = destroying
    <3>1. st \in [Clients -> Status]
      OBVIOUS
    <3>2. QED
      BY <1>1, <1>2, <1>3, <2>1, <3>1, HeadServed, Zenon
  <2>3. Head(waiting) \in Clients /\ Head(waiting) \in ToSet(waiting)
    BY <1>1, <2>1, QueueTail DEF TypeOK, QueueMatchesStatus
  <2>4. ls[Head(waiting)] = NoConn
    BY <1>1, <2>3 DEF QueueMatchesStatus
  <2>5. destroying \subseteq destroying'
    BY <2>2
  <2>6. QED
    BY <2>1, <2>2, <2>3, <2>4, <2>5
<1>6. QED
  BY <1>4, <1>5

\* A list of connections among the first maxPoolSize is not over maxPoolSize.
LEMMA NotOverMax ==
  ASSUME NEW n \in Nat, n <= MaxPoolSize, NEW list \in SUBSET (1..n)
  PROVE  ~OverMax(list)
<1>1. IsFiniteSet(1..n) /\ Cardinality(1..n) = n
  BY FS_Interval
<1>2. Cardinality(list) <= n /\ Cardinality(list) \in Nat
  BY <1>1, FS_Subset, FS_CardinalityType
<1>3. QED
  BY <1>2, PoolAssumption DEF OverMax

\* The pool the constructor leaves behind.
LEMMA CapacityInit == Init => CapacityInv
<1> SUFFICES ASSUME Init PROVE CapacityInv
  OBVIOUS
<1>1. CapacityAccounted
  BY DEF Init, CapacityAccounted
<1>2. Calm => KeptOpen
  BY DEF Init, Calm, KeptOpen, Free, Holds, NoConn
<1>3. QED
  BY <1>1, <1>2 DEF CapacityInv

\* A step that leaves the list, its flags and the clients alone, destroys only
\* free connections and keeps the rest open.
LEMMA CapacityUntouched ==
  ASSUME PoolInv, CapacityInv,
         UNCHANGED <<resources, inUse, lease, opened, destroying, open, unvalidated>>,
         \/ UNCHANGED <<timerVars, closing>>
         \/ draining'
  PROVE  CapacityInv'
<1>1. CapacityAccounted'
  BY DEF CapacityInv, CapacityAccounted
<1>2. Calm' => Calm /\ UNCHANGED <<timerVars, closing>>
  BY DEF Calm, timerVars
<1>3. Calm' => KeptOpen'
  BY <1>2 DEF CapacityInv, KeptOpen, Free, Holds, timerVars
<1>4. QED
  BY <1>1, <1>3 DEF CapacityInv

\* A free connection is taken: it was open and stays so.
LEMMA CapacityTake ==
  ASSUME PoolInv, CapacityInv, NEW c \in Clients, Free # {},
         lease[c] = NoConn, Take(c, Min(Free)),
         UNCHANGED <<resources, unvalidated, timerVars, dbVars>>
  PROVE  CapacityInv'
<1>1. PICK r : r = Min(Free)
  OBVIOUS
<1>2. r \in Free
  <2>1. Free \in SUBSET Nat
    BY DEF PoolInv, TypeOK, Free, Conns
  <2>2. QED
    BY <1>1, <2>1, MinOfSet, Zenon
<1>3. inUse' = inUse \cup {r} /\ lease' = [lease EXCEPT ![c] = r]
  BY <1>1 DEF Take
<1>4. lease \in [Clients -> Conns \cup {NoConn}] /\ NoConn \notin resources
  BY DEF PoolInv, TypeOK, Conns, NoConn
<1>5. UNCHANGED <<resources, unvalidated, draining, idleTimer, drainPhase, opened, open,
                  destroying, closing>>
  BY DEF timerVars, dbVars
<1>6. CapacityAccounted'
  BY <1>3, <1>4, <1>5 DEF CapacityInv, CapacityAccounted
<1>7. Calm' => KeptOpen'
  BY <1>2, <1>3, <1>4, <1>5 DEF CapacityInv, Calm, KeptOpen, Free, Holds
<1>8. QED
  BY <1>6, <1>7 DEF CapacityInv

\* A new connection is listed, free or handed to the head of the queue; it is
\* not destroyed as a surplus one while no more than maxPoolSize were opened.
LEMMA CapacityOpenOk ==
  ASSUME PoolInv, CapacityInv, NEW k, OpenOk(k)
  PROVE  CapacityInv'
<1>1. PICK r : r = opened + 1
  OBVIOUS
<1>2. PICK st : st = AfterCreate(k, status)
  OBVIOUS
<1>3. PICK list : list = resources \cup {r}
  OBVIOUS
<1>4. /\ k \in Creators /\ opened < MaxOpens /\ opened' = r
      /\ open' = open \cup {r} /\ resources' = list
      /\ CheckWaitingClients(list, inUse, st, lease)
      /\ UNCHANGED <<unvalidated, draining, idleTimer, drainPhase, closing>>
  BY <1>1, <1>2, <1>3 DEF OpenOk, timerVars
<1>5. ReadyToServe(r, list, inUse, st, lease, r)
  BY <1>1, <1>2, <1>3, <1>4, OpenOkReady
<1>6. \/ inUse' = inUse /\ lease' = lease /\ destroying' = destroying
      \/ /\ list \ inUse = {r} /\ inUse' = inUse \cup {r}
         /\ \E h \in Clients : lease[h] = NoConn /\ lease' = [lease EXCEPT ![h] = r]
         /\ destroying \subseteq destroying'
         /\ OverMax(list) \/ destroying' = destroying
  BY <1>4, <1>5, HandOver
<1>7. /\ r \in Nat /\ opened \in Nat /\ opened <= r
      /\ destroying \in SUBSET Conns /\ r \notin Conns /\ NoConn \notin list
      /\ inUse \subseteq resources /\ r # NoConn
      /\ lease \in [Clients -> Conns \cup {NoConn}]
      /\ list \in SUBSET (1..r)
  BY <1>1, <1>3, <1>5 DEF PoolInv, TypeOK, Conns, NoConn, ReadyToServe
<1>8. CapacityAccounted'
  <2>1. ASSUME NEW s \in resources' \cap inUse', ~CloseMayFail
        PROVE  s \in destroying' \cup unvalidated' \/ \E c \in Clients : lease'[c] = s
    <3>1. CASE s \in inUse
      <4>1. s \in resources \cap inUse /\ s # NoConn
        BY <1>3, <1>4, <1>7, <2>1, <3>1
      <4>2. s \in destroying \cup unvalidated \/ \E c \in Clients : lease[c] = s
        BY <2>1, <4>1 DEF CapacityInv, CapacityAccounted
      <4>3. QED
        BY <1>4, <1>6, <1>7, <4>1, <4>2
    <3>2. CASE s \notin inUse
      BY <1>6, <1>7, <2>1, <3>2
    <3>3. QED
      BY <3>1, <3>2
  <2>2. QED
    BY <2>1 DEF CapacityAccounted
<1>9. Calm' => KeptOpen'
  <2> SUFFICES ASSUME Calm' PROVE KeptOpen'
    OBVIOUS
  <2>1. Calm /\ KeptOpen /\ r <= MaxPoolSize
    BY <1>4, <1>7, PoolAssumption DEF Calm, CapacityInv
  <2>2. destroying' = destroying
    <3>1. ~OverMax(list)
      BY <1>7, <2>1, NotOverMax
    <3>2. QED
      BY <1>6, <3>1
  <2>3. Free' \subseteq open' \ destroying'
    <3>1. Free' \subseteq Free \cup {r}
      BY <1>3, <1>4, <1>6 DEF Free
    <3>2. QED
      BY <1>4, <1>7, <2>1, <2>2, <3>1 DEF KeptOpen
  <2>4. ASSUME NEW c \in Clients, lease'[c] # NoConn
        PROVE  lease'[c] \in open' \ destroying'
    <3>1. lease'[c] = lease[c] \/ lease'[c] = r
      BY <1>6, <1>7
    <3>2. QED
      BY <1>4, <1>7, <2>1, <2>2, <2>4, <3>1 DEF KeptOpen, Holds
  <2>5. QED
    BY <1>4, <2>1, <2>3, <2>4 DEF KeptOpen, Holds
<1>10. QED
  BY <1>8, <1>9 DEF CapacityInv

\* A connection given back is free or handed on, and stays open.
LEMMA CapacityPutBack ==
  ASSUME PoolInv, CapacityInv, NEW c \in Clients,
         status[c] \in {"leased", "validating"}, PutBack(c),
         UNCHANGED <<resources, unvalidated, timerVars, opened, open, closing>>
  PROVE  CapacityInv'
<1>1. PICK r : r = lease[c]
  OBVIOUS
<1>2. PICK used : used = inUse \ {r}
  OBVIOUS
<1>3. PICK st : st = [status EXCEPT ![c] = "idle"]
  OBVIOUS
<1>4. PICK ls : ls = [lease EXCEPT ![c] = NoConn]
  OBVIOUS
<1>5. CheckWaitingClients(resources, used, st, ls)
  BY <1>1, <1>2, <1>3, <1>4 DEF PutBack
<1>6. ReadyToServe(opened, resources, used, st, ls, r)
  BY <1>1, <1>2, <1>3, <1>4, PutBackReady
<1>7. \/ inUse' = used /\ lease' = ls /\ destroying' = destroying
      \/ /\ resources \ used = {r} /\ inUse' = used \cup {r}
         /\ \E h \in Clients : ls[h] = NoConn /\ lease' = [ls EXCEPT ![h] = r]
         /\ destroying \subseteq destroying'
         /\ OverMax(resources) \/ destroying' = destroying
  BY <1>5, <1>6, HandOver
<1>8. /\ lease \in [Clients -> Conns \cup {NoConn}] /\ NoConn \notin resources
      /\ r # NoConn /\ opened \in Nat /\ resources \in SUBSET (1..opened)
  BY <1>1 DEF PoolInv, TypeOK, Conns, NoConn, LeaseMatchesStatus, Holds
<1>9. UNCHANGED <<resources, unvalidated, draining, idleTimer, drainPhase, opened, open,
                  closing>>
  BY DEF timerVars
<1>10. CapacityAccounted'
  <2>1. ASSUME NEW s \in resources' \cap inUse', ~CloseMayFail
        PROVE  s \in destroying' \cup unvalidated' \/ \E d \in Clients : lease'[d] = s
    <3>1. CASE s # r
      <4>1. s \in resources \cap inUse /\ s # NoConn
        BY <1>2, <1>7, <1>8, <1>9, <2>1, <3>1
      <4>2. s \in destroying \cup unvalidated \/ \E d \in Clients : lease[d] = s
        BY <2>1, <4>1 DEF CapacityInv, CapacityAccounted
      <4>3. s \in destroying \cup unvalidated \/ \E d \in Clients : ls[d] = s
        BY <1>1, <1>4, <1>8, <3>1, <4>2
      <4>4. QED
        BY <1>4, <1>7, <1>8, <4>1, <4>3
    <3>2. CASE s = r
      BY <1>2, <1>4, <1>7, <1>8, <2>1, <3>2
    <3>3. QED
      BY <3>1, <3>2
  <2>2. QED
    BY <2>1 DEF CapacityAccounted
<1>11. Calm' => KeptOpen'
  <2> SUFFICES ASSUME Calm' PROVE KeptOpen'
    OBVIOUS
  <2>1. Calm /\ KeptOpen
    BY <1>9 DEF Calm, CapacityInv
  <2>2. destroying' = destroying
    <3>1. ~OverMax(resources)
      BY <1>8, <2>1, NotOverMax DEF Calm
    <3>2. QED
      BY <1>7, <3>1
  <2>3. r \in open \ destroying
    BY <1>1, <1>8, <2>1 DEF KeptOpen, Holds
  <2>4. Free' \subseteq open' \ destroying'
    <3>1. Free' \subseteq Free \cup {r}
      BY <1>2, <1>7, <1>9 DEF Free
    <3>2. QED
      BY <1>9, <2>1, <2>2, <2>3, <3>1 DEF KeptOpen
  <2>5. ASSUME NEW d \in Clients, lease'[d] # NoConn
        PROVE  lease'[d] \in open' \ destroying'
    <3>1. lease'[d] = lease[d] \/ lease'[d] = r
      BY <1>4, <1>7, <1>8, <2>5
    <3>2. QED
      BY <1>9, <2>1, <2>2, <2>3, <2>5, <3>1 DEF KeptOpen, Holds
  <2>6. QED
    BY <1>9, <2>1, <2>4, <2>5 DEF KeptOpen, Holds
<1>12. QED
  BY <1>10, <1>11 DEF CapacityInv

\* A connection that is not put back: its close() begins, its validation rejected,
\* or it is no longer listed.  Nobody else holds it, and it is not free.
LEMMA CapacityGiveUp ==
  ASSUME PoolInv, CapacityInv, NEW c \in Clients,
         status[c] \in {"leased", "validating"}, GiveUp(c),
         \/ destroying' = destroying \cup {lease[c]} /\ unvalidated' = unvalidated
         \/ unvalidated' = unvalidated \cup {lease[c]} /\ destroying' = destroying
         \/ /\ lease[c] \notin resources
            /\ destroying' = destroying /\ unvalidated' = unvalidated,
         UNCHANGED <<resources, inUse, timerVars, opened, open, closing>>
  PROVE  CapacityInv'
<1>1. lease' = [lease EXCEPT ![c] = NoConn]
  BY DEF GiveUp
<1>2. /\ lease \in [Clients -> Conns \cup {NoConn}] /\ NoConn \notin resources
      /\ lease[c] # NoConn
  BY DEF PoolInv, TypeOK, Conns, NoConn, LeaseMatchesStatus, Holds
<1>3. UNCHANGED <<draining, idleTimer, drainPhase>>
  BY DEF timerVars
<1>4. CapacityAccounted'
  <2>1. ASSUME NEW s \in resources \cap inUse, ~CloseMayFail
        PROVE  s \in destroying' \cup unvalidated' \/ \E d \in Clients : lease'[d] = s
    <3>1. s \in destroying \cup unvalidated \/ \E d \in Clients : lease[d] = s
      BY <2>1 DEF CapacityInv, CapacityAccounted
    <3>2. QED
      BY <1>1, <1>2, <2>1, <3>1
  <2>2. QED
    BY <2>1 DEF CapacityAccounted
<1>5. Calm' => KeptOpen'
  <2> SUFFICES ASSUME Calm' PROVE KeptOpen'
    OBVIOUS
  <2>1. Calm /\ KeptOpen
    BY <1>3 DEF Calm, CapacityInv
  <2>2. lease[c] \notin Free /\ \A d \in Clients \ {c} : lease[d] # lease[c]
    BY <1>2 DEF PoolInv, ExclusiveLease, Holds, Free
  <2>3. QED
    BY <1>1, <1>2, <1>3, <2>1, <2>2 DEF KeptOpen, Free, Holds
<1>6. QED
  BY <1>4, <1>5 DEF CapacityInv

\* Every step of a client.
LEMMA CapacityClientStep ==
  ASSUME PoolInv, CapacityInv, NEW c \in Clients, ClientStep(c)
  PROVE  CapacityInv'
<1>1. CASE UNCHANGED <<resources, inUse, unvalidated, lease, timerVars, dbVars>>
  BY <1>1, CapacityUntouched DEF dbVars
<1>2. CASE /\ status[c] \in {"idle", "rejected", "created"}
           /\ Free # {} /\ Take(c, Min(Free))
           /\ UNCHANGED <<resources, unvalidated, timerVars, dbVars>>
  <2>1. lease[c] = NoConn
    BY <1>2 DEF PoolInv, LeaseMatchesStatus, Holds
  <2>2. QED
    BY <1>2, <2>1, CapacityTake
<1>3. CASE /\ status[c] \in {"leased", "validating"} /\ PutBack(c)
           /\ UNCHANGED <<resources, unvalidated, timerVars, opened, open, closing>>
  BY <1>3, CapacityPutBack
<1>4. CASE /\ status[c] \in {"leased", "validating"} /\ GiveUp(c)
           /\ \/ destroying' = destroying \cup {lease[c]} /\ unvalidated' = unvalidated
              \/ unvalidated' = unvalidated \cup {lease[c]} /\ destroying' = destroying
              \/ /\ lease[c] \notin resources
                 /\ destroying' = destroying /\ unvalidated' = unvalidated
           /\ UNCHANGED <<resources, inUse, timerVars, opened, open, closing>>
  BY <1>4, CapacityGiveUp
<1>5. CASE Acquire(c)
  BY <1>1, <1>2, <1>5 DEF Acquire
<1>6. CASE Created(c)
  BY <1>1, <1>2, <1>6 DEF Created
<1>7. CASE AcquireTimeout(c)
  BY <1>1, <1>7 DEF AcquireTimeout, poolVars
<1>8. CASE Release(c)
  BY <1>1, <1>3, <1>4, <1>8 DEF Release, dbVars
<1>9. CASE Validated(c)
  BY <1>3, <1>4, <1>9 DEF Validated
<1>10. QED
  BY <1>5, <1>6, <1>7, <1>8, <1>9 DEF ClientStep

\* Every end of a close(): only destroy() can end while the pool is calm, and it
\* ends for a connection nobody holds.
LEMMA CapacityCloseStep ==
  ASSUME PoolInv, CapacityInv, NEW r \in Conns, CloseStep(r)
  PROVE  CapacityInv'
<1>1. CASE DestroyOk(r)
  <2>1. /\ r \in destroying /\ destroying' = destroying \ {r} /\ open' = open \ {r}
        /\ resources' = resources \ {r} /\ inUse' = inUse \ {r}
        /\ UNCHANGED <<unvalidated, draining, idleTimer, drainPhase, lease, opened, closing>>
    BY <1>1 DEF DestroyOk, timerVars, clientVars
  <2>2. CapacityAccounted'
    BY <2>1 DEF CapacityInv, CapacityAccounted
  <2>3. Calm' => KeptOpen'
    BY <2>1 DEF CapacityInv, Calm, KeptOpen, Free, Holds
  <2>4. QED
    BY <2>2, <2>3 DEF CapacityInv
<1>2. CASE DestroyFail(r)
  <2>1. /\ CloseMayFail /\ destroying' = destroying \ {r}
        /\ UNCHANGED <<resources, inUse, draining, idleTimer, drainPhase, lease, opened,
                       open, closing>>
    BY <1>2 DEF DestroyFail, poolVars, timerVars, clientVars
  <2>2. CapacityAccounted'
    BY <2>1 DEF CapacityAccounted
  <2>3. Calm' => KeptOpen'
    BY <2>1 DEF CapacityInv, Calm, KeptOpen, Free, Holds
  <2>4. QED
    BY <2>2, <2>3 DEF CapacityInv
<1>3. CASE CloseOk(r) \/ CloseFail(r)
  <2>1. /\ r \in closing
        /\ UNCHANGED <<resources, inUse, unvalidated, draining, lease, opened, destroying>>
    BY <1>3 DEF CloseOk, CloseFail, poolVars, timerVars, clientVars
  <2>2. CapacityAccounted'
    BY <2>1 DEF CapacityInv, CapacityAccounted
  <2>3. ~Calm'
    BY <2>1 DEF CapacityInv, Calm, KeptOpen
  <2>4. QED
    BY <2>2, <2>3 DEF CapacityInv
<1>4. QED
  BY <1>1, <1>2, <1>3 DEF CloseStep

\* Every step of the pool.
LEMMA CapacityNext ==
  ASSUME PoolInv, CapacityInv, [Next]_vars
  PROVE  CapacityInv'
<1>1. CASE InitializeNext \/ UNCHANGED vars
  BY <1>1, CapacityUntouched
     DEF InitializeNext, vars, poolVars, timerVars, clientVars, dbVars
<1>2. CASE \E c \in Clients : ClientStep(c)
  BY <1>2, CapacityClientStep
<1>3. CASE \E k \in Clients \cup {Initializer} : CreateStep(k)
  <2>1. PICK k : OpenOk(k) \/ OpenFail(k)
    BY <1>3 DEF CreateStep
  <2>2. CASE OpenOk(k)
    BY <2>2, CapacityOpenOk
  <2>3. CASE OpenFail(k)
    BY <2>3, CapacityUntouched DEF OpenFail, poolVars, dbVars
  <2>4. QED
    BY <2>1, <2>2, <2>3
<1>4. CASE CheckIdleResources
  <2>1. /\ idleTimer /\ destroying \subseteq destroying'
        /\ UNCHANGED <<resources, inUse, unvalidated, lease, draining, idleTimer, opened>>
    BY <1>4 DEF CheckIdleResources, poolVars, timerVars, clientVars
  <2>2. CapacityAccounted'
    BY <2>1 DEF CapacityInv, CapacityAccounted
  <2>3. ~Calm'
    BY <2>1 DEF CapacityInv, Calm, KeptOpen
  <2>4. QED
    BY <2>2, <2>3 DEF CapacityInv
<1>5. CASE \E r \in Conns : CloseStep(r)
  BY <1>5, CapacityCloseStep
<1>6. CASE BeginDrain
  BY <1>6, CapacityUntouched DEF BeginDrain, poolVars, clientVars
<1>7. CASE BeginClear
  <2>1. /\ drainPhase = "drained"
        /\ UNCHANGED <<resources, inUse, unvalidated, lease, draining, opened, destroying>>
    BY <1>7 DEF BeginClear, poolVars, clientVars
  <2>2. CapacityAccounted'
    BY <2>1 DEF CapacityInv, CapacityAccounted
  <2>3. ~Calm'
    BY <2>1 DEF CapacityInv, Calm, KeptOpen
  <2>4. QED
    BY <2>2, <2>3 DEF CapacityInv
<1>8. CASE Cleared
  <2>1. /\ drainPhase \in {"draining", "clearing"} /\ resources' = {}
        /\ UNCHANGED <<draining, opened>>
    BY <1>8 DEF Cleared, dbVars
  <2>2. CapacityAccounted'
    BY <2>1 DEF CapacityAccounted
  <2>3. ~Calm'
    BY <2>1 DEF CapacityInv, Calm, KeptOpen
  <2>4. QED
    BY <2>2, <2>3 DEF CapacityInv
<1>9. QED
  BY <1>1, <1>2, <1>3, <1>4, <1>5, <1>6, <1>7, <1>8 DEF Next

\* Both are invariants of the pool, with PoolInv.
LEMMA CapacityInvariant == Spec => []CapacityInv
<1>1. PoolInv /\ CapacityInv /\ [Next]_vars => CapacityInv'
  BY CapacityNext
<1>2. QED
  BY <1>1, CapacityInit, PoolInvariant, PTL DEF Spec

\* Capacity is lost to a close() that fails or a validation that rejects, and in no
\* other way: unless a close() may fail, a listed connection that is flagged in use
\* is held by a client, on its way out, or one whose validation rejected.
THEOREM NoCapacityLeaks == Spec => []CapacityAccounted
<1>1. CapacityInv => CapacityAccounted
  BY DEF CapacityInv
<1>2. QED
  BY <1>1, CapacityInvariant, PTL

\* A client keeps a live connection until it gives it up, while the pool is not
\* drained, has no idle check and opened no surplus connection.
THEOREM LeasesStayOpen == Spec => []LeasedStaysOpen
<1>1. PoolInv /\ CapacityInv => LeasedStaysOpen
  BY DEF CapacityInv, Calm, KeptOpen, LeasedStaysOpen, PoolInv, LeaseMatchesStatus
<1>2. QED
  BY <1>1, PoolInvariant, CapacityInvariant, PTL

=============================================================================
