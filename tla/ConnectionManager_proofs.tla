---------------------- MODULE ConnectionManager_proofs ----------------------
(***************************************************************************)
(* The connection manager and the client, with the pool manager they share: *)
(* their lists of active connections match the callers, their state can be  *)
(* left again, and what they do to the pool manager is what it specifies,   *)
(* for any number of calls, owners, pools and connections.                  *)
(***************************************************************************)
EXTENDS ConnectionManager, FiniteSetTheorems, SequenceTheorems, FunctionTheorems,
        WellFoundedInduction, TLAPS

-----------------------------------------------------------------------------
(* The steps of the pool manager                                           *)

\* A step of the connection manager or the client is a step of the pool manager
\* or leaves it alone.
LEMMA ManagerStep ==
  ASSUME [Next]_vars PROVE [PM!Next]_(PM!vars)
<1> USE DEF PM!Next, PM!CallStep, PM!OwnerStep
<1>1. CASE PoolStep
  BY Zenon, <1>1 DEF PoolStep
<1>2. ASSUME NEW k \in Calls, CallStep(k)
      PROVE PM!GetConnection(k) \/ PM!CloseConnection(k) \/ UNCHANGED managerVars
  BY Zenon, <1>2 DEF CallStep, GetConnection, GetConnectionFromPool,
    ClientGetConnection, RejectAtOnce, Rejected, Poll, Reconnect, WakeUp, Acquired,
    ClientAcquired, Failed,
    ReconnectFailed, CloseConnection, ClientCloseConnection, Closed, ClientClosed,
    AskPoolOrPoll, AskPool
<1>3. ASSUME NEW o \in Owners, OwnerStep(o)
      PROVE PM!StartInit(o) \/ PM!DrainPool(o) \/ UNCHANGED managerVars
  BY Zenon, <1>3
  DEF OwnerStep, InitModule, ClientInit, Disconnect, Destroy, DrainDone, DrainFailed
<1>4. ManagerInit \/ UNCHANGED vars => UNCHANGED managerVars
  BY Zenon DEF ManagerInit, vars
<1>5. UNCHANGED managerVars => UNCHANGED PM!vars
  BY
  DEF managerVars, PM!vars, PM!flagVars, PM!poolVars, PM!callVars, PM!lostVars, PM!ownerVars
<1> QED
  BY Zenon, <1>1, <1>2, <1>3, <1>4, <1>5 DEF Next

-----------------------------------------------------------------------------
(* The lists of active connections                                         *)

\* The places of a connection on a list.
Places(list, r) == {i \in DOMAIN list : list[i] = r}

\* They are finitely many, and their number is what Entries counts.
LEMMA PlacesFinite ==
  ASSUME NEW S, NEW list \in Seq(S), NEW r
  PROVE  /\ IsFiniteSet(Places(list, r))
         /\ Entries(list, r) = Cardinality(Places(list, r))
         /\ Entries(list, r) \in Nat
<1>1. DOMAIN list = 1..Len(list) /\ Len(list) \in Nat
  BY LenProperties
<1>2. IsFiniteSet(1..Len(list))
  BY <1>1, FS_Interval
<1>3. IsFiniteSet(Places(list, r))
  BY <1>1, <1>2, FS_Subset DEF Places
<1>4. Entries(list, r) = Cardinality(Places(list, r))
  BY DEF Entries, Places
<1> QED
  BY <1>3, <1>4, FS_CardinalityType

\* A list of one more connection has one more entry for it and no other change.
LEMMA EntriesAppend ==
  ASSUME NEW S, NEW list \in Seq(S), NEW x \in S, NEW r
  PROVE  /\ Append(list, x) \in Seq(S)
         /\ Entries(Append(list, x), r) =
              Entries(list, r) + (IF x = r THEN 1 ELSE 0)
<1> DEFINE n == Len(list)
           new == Append(list, x)
<1>1. /\ n \in Nat /\ DOMAIN list = 1..n
      /\ new \in Seq(S) /\ Len(new) = n + 1 /\ DOMAIN new = 1..(n + 1)
      /\ \A i \in 1..n : new[i] = list[i]
      /\ new[n + 1] = x
  BY LenProperties, AppendProperties
<1>2. Places(new, r) = IF x = r THEN Places(list, r) \cup {n + 1} ELSE Places(list, r)
  <2> HIDE DEF n, new
  <2>1. 1..(n + 1) = 1..n \cup {n + 1} /\ n + 1 \notin 1..n
    BY <1>1
  <2> QED
    BY <1>1, <2>1 DEF Places
<1>3. n + 1 \notin Places(list, r)
  BY <1>1 DEF Places
<1>4. Entries(list, r) \in Nat /\ IsFiniteSet(Places(list, r))
  BY PlacesFinite
<1>5. Cardinality(Places(list, r) \cup {n + 1}) = Cardinality(Places(list, r)) + 1
  BY <1>3, <1>4, FS_AddElement
<1>6. Entries(new, r) = Cardinality(Places(new, r)) /\ Entries(list,
  r) = Cardinality(Places(list, r))
  BY <1>1, PlacesFinite
<1> QED
  BY <1>1, <1>2, <1>4, <1>5, <1>6

\* A connection on a list has a first place on it, and that is the one Without
\* takes away.
LEMMA FirstPlace ==
  ASSUME NEW S, NEW list \in Seq(S), NEW x, Entries(list, x) # 0
  PROVE  \E p \in Places(list, x) : Without(list, x) = RemoveAt(list, p)
<1>1. DOMAIN list = 1..Len(list) /\ Len(list) \in Nat
  BY LenProperties
<1>2. Places(list, x) # {}
  BY PlacesFinite, FS_EmptySet
<1> DEFINE R == {p \in Nat \X Nat : p[1] < p[2]}
<1>3. IsWellFoundedOn(R, Nat)
  BY NatLessThanWellFounded DEF OpToRel
<1>4. Places(list, x) \subseteq Nat
  BY <1>1 DEF Places
<1>5. PICK m \in Places(list, x) : \A n \in Places(list, x) : <<n, m>> \notin R
  <2> HIDE DEF R
  <2> QED
    BY Zenon, <1>2, <1>3, <1>4, WFMin
<1>6. \A n \in Places(list, x) : ~(n < m)
  BY <1>4, <1>5
<1>7. \E i \in DOMAIN list : list[i] = x /\ \A j \in 1..(i - 1) : list[j] # x
  <2>1. m \in 1..Len(list) /\ list[m] = x
    BY <1>1 DEF Places
  <2>2. \A j \in 1..(m - 1) : list[j] # x
    BY <1>1, <1>6, <2>1 DEF Places
  <2> QED
    BY <1>1, <2>1, <2>2
<1>8. x \in ToSet(list)
  BY <1>7 DEF ToSet
<1> DEFINE first == CHOOSE i \in DOMAIN list : list[i] = x /\ \A j \in 1..(i - 1) : list[j] # x
<1>9. first \in Places(list, x)
  BY Zenon, <1>7 DEF Places
<1>10. Without(list, x) = RemoveAt(list, first)
  BY Zenon, <1>8 DEF Without
<1> QED
  BY Zenon, <1>9, <1>10

\* Taking away a connection that is on the list leaves one entry less for it and
\* no other change.
LEMMA EntriesWithout ==
  ASSUME NEW S, NEW list \in Seq(S), NEW x, Entries(list, x) # 0, NEW r
  PROVE  /\ Without(list, x) \in Seq(S)
         /\ Entries(Without(list, x), r) =
              Entries(list, r) - (IF x = r THEN 1 ELSE 0)
<1>1. PICK p \in Places(list, x) : Without(list, x) = RemoveAt(list, p)
  BY Zenon, FirstPlace
<1> DEFINE n == Len(list)
           a == SubSeq(list, 1, p - 1)
           b == SubSeq(list, p + 1, n)
           new == a \o b
<1>2. n \in Nat /\ DOMAIN list = 1..n /\ \A i \in 1..n : list[i] \in S
  BY LenProperties, ElementOfSeq
<1>3. p \in 1..n /\ list[p] = x
  BY <1>2 DEF Places
<1>4. /\ a \in Seq(S) /\ Len(a) = p - 1
      /\ \A i \in 1..(p - 1) : a[i] = list[i]
  <2>1. \A i \in 1..(p - 1) : list[i] \in S
    BY <1>2, <1>3
  <2> QED
    BY <1>3, <2>1, SubSeqProperties
<1>5. /\ b \in Seq(S) /\ Len(b) = n - p
      /\ \A i \in 1..(n - p) : b[i] = list[p + i]
  <2>1. \A i \in (p + 1)..n : list[i] \in S
    BY <1>2, <1>3
  <2>2. p + 1 \in Int /\ n \in Int
    BY <1>2, <1>3
  <2>3. /\ b \in Seq(S)
        /\ Len(b) = IF p + 1 <= n THEN n - (p + 1) + 1 ELSE 0
        /\ \A i \in 1..(n - (p + 1) + 1) : b[i] = list[p + 1 + i - 1]
    BY <2>1, <2>2, SubSeqProperties
  <2> HIDE DEF b
  <2>4. Len(b) = n - p
    <3> HIDE DEF n
    <3>1. p \in Int /\ n \in Int /\ p <= n
      BY <1>2, <1>3
    <3> QED
      BY <2>3, <3>1
  <2>5. ASSUME NEW i \in 1..(n - p) PROVE b[i] = list[p + i]
    <3>1. n - (p + 1) + 1 = n - p /\ p + 1 + i - 1 = p + i
      BY <1>2, <1>3
    <3> QED
      BY <2>3, <3>1
  <2> QED
    BY <2>3, <2>4, <2>5
<1>6. /\ new \in Seq(S) /\ Len(new) = n - 1 /\ DOMAIN new = 1..(n - 1)
      /\ \A i \in 1..(n - 1) : new[i] = IF i < p THEN list[i] ELSE list[i + 1]
  <2> HIDE DEF a, b
  <2>1. /\ new \in Seq(S) /\ Len(new) = Len(a) + Len(b)
        /\ \A i \in 1..(Len(a) + Len(b)) :
             new[i] = IF i <= Len(a) THEN a[i] ELSE b[i - Len(a)]
    BY <1>4, <1>5, ConcatProperties
  <2>2. DOMAIN new = 1..Len(new)
    BY <2>1, LenProperties
  <2> HIDE DEF new
  <2>3. Len(new) = n - 1
    BY <1>2, <1>3, <1>4, <1>5, <2>1
  <2>4. ASSUME NEW i \in 1..(n - 1)
        PROVE  new[i] = IF i < p THEN list[i] ELSE list[i + 1]
    <3>1. new[i] = IF i <= Len(a) THEN a[i] ELSE b[i - Len(a)]
      BY <1>2, <1>3, <1>4, <1>5, <2>1, <2>4
    <3>2. CASE i < p
      BY <1>3, <1>4, <2>4, <3>1, <3>2
    <3>3. CASE ~(i < p)
      <4>1. i - (p - 1) \in 1..(n - p) /\ p + (i - (p - 1)) = i + 1
        BY <1>2, <1>3, <2>4, <3>3
      <4>2. new[i] = b[i - (p - 1)]
        BY <1>3, <1>4, <2>4, <3>1, <3>3
      <4>3. b[i - (p - 1)] = list[p + (i - (p - 1))]
        BY <1>5, <4>1
      <4> QED
        BY <3>3, <4>1, <4>2, <4>3
    <3> QED
      BY <3>2, <3>3
  <2> QED
    BY <2>1, <2>2, <2>3, <2>4
<1>7. Without(list, x) = new
  BY <1>1 DEF RemoveAt
<1> HIDE DEF new
<1> DEFINE old == Places(list, r) \ {p}
           f == [i \in old |-> IF i < p THEN i ELSE i - 1]
<1>8. ExistsBijection(old, Places(new, r))
  <2>1. f \in [old -> Places(new, r)]
    <3>1. ASSUME NEW i \in old PROVE (IF i < p THEN i ELSE i - 1) \in Places(new, r)
      <4>1. i \in 1..n /\ list[i] = r /\ i # p
        BY <1>2, <3>1 DEF Places
      <4> QED
        BY <1>2, <1>3, <1>6, <4>1 DEF Places
    <3> QED
      BY <3>1
  <2>2. \A i, j \in old : f[i] = f[j] => i = j
    <3>1. old \subseteq 1..n /\ p \notin old
      BY <1>2 DEF Places
    <3> QED
      BY <1>2, <1>3, <3>1
  <2>3. ASSUME NEW j \in Places(new, r) PROVE \E i \in old : f[i] = j
    <3>1. j \in 1..(n - 1) /\ new[j] = r
      BY <1>6 DEF Places
    <3>2. CASE j < p
      <4>1. j \in old
        BY <1>2, <1>3, <1>6, <3>1, <3>2 DEF Places
      <4> QED
        BY <3>2, <4>1
    <3>3. CASE ~(j < p)
      <4>1. j + 1 \in old
        BY <1>2, <1>3, <1>6, <3>1, <3>3 DEF Places
      <4>2. ~(j + 1 < p) /\ (j + 1) - 1 = j
        BY <1>3, <3>1, <3>3
      <4>3. f[j + 1] = IF j + 1 < p THEN j + 1 ELSE (j + 1) - 1
        BY Zenon, <4>1
      <4>4. f[j + 1] = j
        <5> HIDE DEF f, old
        <5> QED
          BY <4>2, <4>3
      <4> QED
        BY Zenon, <4>1, <4>4
    <3> QED
      BY <3>2, <3>3
  <2> HIDE DEF old, f
  <2> QED
    BY <2>1, <2>2, <2>3, Fun_IsBij DEF ExistsBijection
<1>9. IsFiniteSet(Places(list, r)) /\ IsFiniteSet(old)
  BY PlacesFinite, FS_RemoveElement
<1>10. Cardinality(Places(new, r)) = Cardinality(old)
  BY <1>8, <1>9, FS_Bijection
<1>11. /\ Entries(list, r) = Cardinality(Places(list, r))
       /\ Entries(new, r) = Cardinality(Places(new, r))
       /\ Entries(list, r) \in Nat
  BY <1>6, PlacesFinite
<1>12. p \in Places(list, r) <=> x = r
  BY <1>2, <1>3 DEF Places
<1>13. Cardinality(old) = IF p \in Places(list, r) THEN Cardinality(Places(list, r)) - 1
                          ELSE Cardinality(Places(list, r))
  BY <1>9, FS_RemoveElement, PlacesFinite
<1> QED
  BY <1>6, <1>7, <1>10, <1>11, <1>12, <1>13

\* The empty list has no entries, and any other has one for some connection.
LEMMA EntriesOfEmpty ==
  ASSUME NEW S, NEW list \in Seq(S)
  PROVE  /\ \A r : Entries(<<>>, r) = 0
         /\ list # <<>> => \E r \in S : Entries(list, r) # 0
<1>1. ASSUME NEW r PROVE Entries(<<>>, r) = 0
  <2>1. {i \in DOMAIN <<>> : <<>>[i] = r} = {}
    OBVIOUS
  <2> QED
    BY <2>1, FS_EmptySet DEF Entries
<1>2. ASSUME list # <<>> PROVE \E r \in S : Entries(list, r) # 0
  <2>1. Len(list) \in Nat /\ Len(list) # 0 /\ DOMAIN list = 1..Len(list)
    BY <1>2, LenProperties, EmptySeq
  <2>2. 1 \in 1..Len(list) /\ list[1] \in S
    BY <2>1, ElementOfSeq
  <2>3. 1 \in Places(list, list[1])
    BY <2>1, <2>2 DEF Places
  <2>4. IsFiniteSet(Places(list, list[1])) /\ Entries(list,
    list[1]) = Cardinality(Places(list, list[1]))
    BY PlacesFinite
  <2>5. Entries(list, list[1]) # 0
    BY <2>3, <2>4, FS_EmptySet
  <2> QED
    BY <2>2, <2>5
<1> QED
  BY <1>1, <1>2

-----------------------------------------------------------------------------
(* The callers that have a connection                                      *)

\* A call that has a connection, or is giving it back.
Active(k) == step[k] \in {"holding", "closing", "leaked"}

\* The callers Users counts.
UserSet(routes, r) == {k \in Calls : route[k] \in routes /\ Active(k) /\ mine[k] = r}

\* What a step leaves of another call.
Alike(k) == step'[k] = step[k] /\ route'[k] = route[k] /\ mine'[k] = mine[k]

\* A call that has the same connection before and after a step, or none.
SameUser(k) ==
  \/ Alike(k)
  \/ ~Active(k) /\ ~Active(k)'
  \/ Active(k) /\ Active(k)' /\ route'[k] = route[k] /\ mine'[k] = mine[k]

\* They are finitely many, before and after a step.
LEMMA UsersFinite ==
  ASSUME NEW routes, NEW r
  PROVE  /\ IsFiniteSet(UserSet(routes, r))
         /\ Users(routes, r) = Cardinality(UserSet(routes, r))
         /\ Users(routes, r) \in Nat
         /\ IsFiniteSet(UserSet(routes, r)')
         /\ Users(routes, r)' = Cardinality(UserSet(routes, r)')
<1>1. UserSet(routes, r) \subseteq Calls /\ UserSet(routes, r)' \subseteq Calls
  BY DEF UserSet
<1>2. IsFiniteSet(UserSet(routes, r)) /\ IsFiniteSet(UserSet(routes, r)')
  BY <1>1, ConnectionsAssumption, FS_Subset
<1>3. Users(routes, r) = Cardinality(UserSet(routes, r))
  BY DEF Users, UserSet, Active
<1>4. Users(routes, r)' = Cardinality(UserSet(routes, r)')
  BY DEF Users, UserSet, Active
<1> QED
  BY <1>2, <1>3, <1>4, FS_CardinalityType

\* A call that had no connection and has none is not counted, and one that keeps
\* its connection is counted as before.
LEMMA UsersKept ==
  ASSUME \A j \in Calls : SameUser(j),
         NEW routes, NEW r
  PROVE  Users(routes, r)' = Users(routes, r)
<1>1. UserSet(routes, r)' = UserSet(routes, r)
  BY DEF UserSet, Active, Alike, SameUser
<1> QED
  BY <1>1, UsersFinite

\* A call that has got a connection is one user more of it.
LEMMA UsersOneMore ==
  ASSUME NEW k \in Calls, \A j \in Calls \ {k} : Alike(j),
         ~Active(k), Active(k)', NEW routes, NEW r
  PROVE  Users(routes, r)' =
           Users(routes, r) + (IF route'[k] \in routes /\ mine'[k] = r THEN 1 ELSE 0)
<1>1. k \notin UserSet(routes, r)
  BY DEF UserSet
<1>2. UserSet(routes, r)' = IF route'[k] \in routes /\ mine'[k] = r
                              THEN UserSet(routes, r) \cup {k} ELSE UserSet(routes, r)
  BY DEF UserSet, Active, Alike
<1>3. Cardinality(UserSet(routes, r) \cup {k}) = Cardinality(UserSet(routes, r)) + 1
  BY <1>1, UsersFinite, FS_AddElement
<1>4. CASE route'[k] \in routes /\ mine'[k] = r
  BY <1>2, <1>3, <1>4, UsersFinite
<1>5. CASE ~(route'[k] \in routes /\ mine'[k] = r)
  BY <1>2, <1>5, UsersFinite
<1> QED
  BY <1>4, <1>5

\* A call that is done with its connection is one user less of it.
LEMMA UsersOneLess ==
  ASSUME NEW k \in Calls, \A j \in Calls \ {k} : Alike(j),
         Active(k), ~Active(k)', NEW routes, NEW r
  PROVE  Users(routes, r)' =
           Users(routes, r) - (IF route[k] \in routes /\ mine[k] = r THEN 1 ELSE 0)
<1>1. k \in UserSet(routes, r) <=> route[k] \in routes /\ mine[k] = r
  BY DEF UserSet
<1>2. UserSet(routes, r)' = UserSet(routes, r) \ {k}
  BY DEF UserSet, Active, Alike
<1>3. Cardinality(UserSet(routes, r) \ {k}) =
        IF k \in UserSet(routes, r) THEN Cardinality(UserSet(routes, r)) - 1
        ELSE Cardinality(UserSet(routes, r))
  BY UsersFinite, FS_RemoveElement
<1>4. CASE route[k] \in routes /\ mine[k] = r
  BY <1>1, <1>2, <1>3, <1>4, UsersFinite
<1>5. CASE ~(route[k] \in routes /\ mine[k] = r)
  BY <1>1, <1>2, <1>3, <1>5, UsersFinite
<1> QED
  BY <1>4, <1>5

\* A connection somebody uses has users, and one with users is used by somebody.
LEMMA UsersExist ==
  ASSUME NEW routes, NEW r
  PROVE  Users(routes, r) # 0 <=>
           \E k \in Calls : route[k] \in routes /\ Active(k) /\ mine[k] = r
<1>1. Users(routes, r) # 0 <=> UserSet(routes, r) # {}
  BY UsersFinite, FS_EmptySet
<1> QED
  BY <1>1 DEF UserSet

-----------------------------------------------------------------------------
(* The pool manager's part, whoever calls it in whatever order             *)

\* this.pool is the newest pool; what is drained, asked for or held belongs to
\* pools that exist, and who has won the race holds a connection.
PoolPart ==
  /\ PM!TypeOK
  /\ pool = created
  /\ poolInitialized => created # 0
  /\ \A o \in Owners : owner[o] \in {"draining", "clearing"} => target[o] \in 1..created
  /\ \A k \in Calls : race[k] = "won" <=> held[k] # PM!NoConn
  /\ \A k \in Calls : held[k] # PM!NoConn => created # 0
  /\ \A k \in asking : wants[k] \in 1..created /\ race[k] # "won"

\* A connection is not the connection a caller without one has.
LEMMA ConnsProper == PM!NoConn \notin PM!Conns
BY DEF PM!NoConn, PM!Conns, PM!Pools, PM!NoPool

\* At first there is no pool and nobody asks.
LEMMA PoolPartInit == PM!Init => PoolPart
<1>1. SUFFICES ASSUME PM!Init PROVE PoolPart
  OBVIOUS
<1> USE DEF PM!NoPool
<1>2. /\ poolInitialized = FALSE /\ pool = 0 /\ created = 0
      /\ drained = {} /\ cleared = {} /\ asking = {} /\ abandoned = {} /\ stranded = {}
      /\ wants = [k \in Calls |-> 0] /\ race = [k \in Calls |-> "over"]
      /\ held = [k \in Calls |-> PM!NoConn]
      /\ owner = [o \in Owners |-> "done"] /\ target = [o \in Owners |-> 0]
  BY Zenon, <1>1 DEF PM!Init, PM!Lease!Init
<1>3. 0 \in 0..MaxPools
  BY ConnectionsAssumption
<1>4. PM!TypeOK
  <2>1. held \in [Calls -> PM!Conns \cup {PM!NoConn}]
    BY <1>2
  <2>2. race \in [Calls -> PM!Race] /\ owner \in [Owners -> PM!Phase]
    BY <1>2 DEF PM!Race, PM!Phase
  <2>3. wants \in [Calls -> 0..MaxPools] /\ target \in [Owners -> 0..MaxPools]
    BY <1>2, <1>3
  <2>4. created \in 0..MaxPools /\ pool \in 0..created
    BY <1>2, <1>3
  <2>5. /\ poolInitialized \in BOOLEAN
        /\ drained \subseteq 1..created /\ cleared \subseteq 1..created
        /\ asking \subseteq Calls /\ abandoned \subseteq PM!Conns
        /\ stranded \subseteq PM!Conns
    BY <1>2
  <2> QED
    BY Zenon, <2>1, <2>2, <2>3, <2>4, <2>5 DEF PM!TypeOK
<1> QED
  BY <1>2, <1>4 DEF PoolPart

\* The steps of a call keep it.
LEMMA PoolPartCall ==
  ASSUME PoolPart, NEW k \in Calls, PM!CallStep(k)
  PROVE  PoolPart'
<1> USE DEF PM!NoPool
<1>1. 0 \in 0..MaxPools /\ pool \in 0..MaxPools
  BY ConnectionsAssumption DEF PoolPart, PM!TypeOK
<1>2. CASE PM!GetConnection(k)
  <2>1. /\ UNCHANGED <<PM!flagVars, PM!poolVars, PM!lostVars, PM!ownerVars, held>>
        /\ race[k] = "over"
        /\ \/ /\ poolInitialized
              /\ asking' = asking \cup {k}
              /\ wants' = [wants EXCEPT ![k] = pool]
              /\ race' = [race EXCEPT ![k] = "racing"]
           \/ race' = [race EXCEPT ![k] = "over"] /\ UNCHANGED <<asking, wants>>
    BY Zenon, <1>2 DEF PM!GetConnection, PM!Lease!Ask
  <2>2. PM!TypeOK'
    BY <1>1, <2>1
    DEF PoolPart, PM!TypeOK, PM!Race, PM!flagVars, PM!poolVars, PM!lostVars, PM!ownerVars
  <2>3. poolInitialized => pool \in 1..created
    BY ConnectionsAssumption DEF PoolPart, PM!TypeOK
  <2> QED
    BY <2>1, <2>2, <2>3
    DEF PoolPart, PM!TypeOK, PM!flagVars, PM!poolVars, PM!lostVars, PM!ownerVars
<1>3. ASSUME NEW r \in PM!Conns, PM!Grant(k, r) PROVE PoolPart'
  <2>1. /\ UNCHANGED <<PM!flagVars, PM!poolVars, stranded, PM!ownerVars>>
        /\ k \in asking
        /\ asking' = asking \ {k}
        /\ wants' = [wants EXCEPT ![k] = 0]
        /\ \/ /\ held' = [held EXCEPT ![k] = r]
              /\ race' = [race EXCEPT ![k] = "won"]
              /\ UNCHANGED abandoned
           \/ abandoned' = abandoned \cup {r} /\ UNCHANGED <<held, race>>
    BY Zenon, <1>3 DEF PM!Grant, PM!Lease!Grant
  <2>2. PM!TypeOK'
    BY <1>1, <2>1 DEF PoolPart, PM!TypeOK, PM!Race, PM!flagVars, PM!poolVars, PM!ownerVars
  <2>3. created # 0 /\ r # PM!NoConn
    BY <2>1, ConnsProper DEF PoolPart, PM!TypeOK
  <2> QED
    BY <2>1, <2>2, <2>3 DEF PoolPart, PM!TypeOK, PM!flagVars, PM!poolVars, PM!ownerVars
<1>4. CASE PM!Refuse(k) \/ PM!RaceTimeout(k)
  <2>1. /\ UNCHANGED <<PM!flagVars, PM!poolVars, PM!lostVars, PM!ownerVars, held>>
        /\ \/ wants' = [wants EXCEPT ![k] = 0] /\ asking' = asking \ {k} /\ k \in asking
           \/ wants' = wants /\ asking' = asking /\ race[k] = "racing"
        /\ race' = [race EXCEPT ![k] = "over"]
    BY <1>4 DEF PM!Refuse, PM!RaceTimeout, PM!Lease!TurnAway
  <2>2. PM!TypeOK'
    BY <1>1, <2>1
    DEF PoolPart, PM!TypeOK, PM!Race, PM!flagVars, PM!poolVars, PM!lostVars, PM!ownerVars
  <2>3. held[k] = PM!NoConn
    BY <2>1 DEF PoolPart, PM!TypeOK
  <2> QED
    BY <2>1, <2>2, <2>3
    DEF PoolPart, PM!TypeOK, PM!flagVars, PM!poolVars, PM!lostVars, PM!ownerVars
<1>5. CASE PM!CloseConnection(k)
  <2>1. /\ UNCHANGED <<PM!flagVars, PM!poolVars, wants, asking, abandoned, PM!ownerVars>>
        /\ held[k] # PM!NoConn
        /\ held' = [held EXCEPT ![k] = PM!NoConn]
        /\ race' = [race EXCEPT ![k] = "over"]
        /\ stranded' \in {stranded, stranded \cup {held[k]}}
    BY Zenon, <1>5 DEF PM!CloseConnection, PM!Lease!Return
  <2>2. PM!TypeOK'
    BY <1>1, <2>1 DEF PoolPart, PM!TypeOK, PM!Race, PM!flagVars, PM!poolVars, PM!ownerVars
  <2> QED
    BY <2>1, <2>2 DEF PoolPart, PM!TypeOK, PM!flagVars, PM!poolVars, PM!ownerVars
<1> QED
  BY Zenon, <1>2, <1>3, <1>4, <1>5 DEF PM!CallStep

\* The steps of an owner keep it.
LEMMA PoolPartOwner ==
  ASSUME PoolPart, NEW o \in Owners, PM!OwnerStep(o)
  PROVE  PoolPart'
<1> USE DEF PM!NoPool, PM!flagVars, PM!poolVars, PM!callVars, PM!lostVars, PM!ownerVars
<1>1. created \in Nat /\ pool \in 0..MaxPools /\ 0 \in 0..MaxPools
  BY ConnectionsAssumption DEF PoolPart, PM!TypeOK
<1>2. CASE PM!StartInit(o)
  <2>1. PICK v \in PM!Phase : v \notin {"draining",
    "clearing"} /\ owner' = [owner EXCEPT ![o] = v]
    BY <1>2 DEF PM!StartInit, PM!Phase
  <2>2. PM!TypeOK'
    BY <1>2, <2>1 DEF PM!StartInit, PoolPart, PM!TypeOK
  <2> QED
    BY <1>2, <2>1, <2>2 DEF PM!StartInit, PoolPart, PM!TypeOK
<1>3. CASE PM!FinishInit(o)
  <2>1. /\ created + 1 \in 0..MaxPools /\ created + 1 # 0
        /\ 1..created \subseteq 1..(created + 1) /\ created + 1 \in 0..(created + 1)
    BY <1>1, <1>3, ConnectionsAssumption DEF PM!FinishInit
  <2>2. PM!TypeOK'
    BY <1>3, <2>1 DEF PM!FinishInit, PoolPart, PM!TypeOK, PM!Phase
  <2> QED
    BY <1>3, <2>1, <2>2 DEF PM!FinishInit, PoolPart, PM!TypeOK
<1>4. CASE PM!DrainPool(o)
  <2>1. pool # 0 => pool \in 1..created
    BY DEF PoolPart, PM!TypeOK
  <2>2. PM!TypeOK'
    BY <1>1, <1>4, <2>1 DEF PM!DrainPool, PoolPart, PM!TypeOK, PM!Phase
  <2> QED
    BY <1>4, <2>1, <2>2 DEF PM!DrainPool, PoolPart, PM!TypeOK
<1>5. CASE PM!Drained(o) \/ PM!Cleared(o) \/ PM!DrainFailed(o)
  <2>1. target[o] \in 1..created
    BY <1>5 DEF PM!Drained, PM!Cleared, PM!DrainFailed, PoolPart
  <2>2. pool \in 1..created
    BY <1>1, <2>1 DEF PoolPart
  <2>3. /\ UNCHANGED <<PM!callVars, PM!lostVars, pool, created, drained>>
        /\ cleared' \in {cleared, cleared \cup {target[o]}}
        /\ \E v \in PM!Phase, t \in 0..MaxPools :
             /\ v \in {"draining", "clearing"} => t \in 1..created
             /\ owner' = [owner EXCEPT ![o] = v]
             /\ target' = [target EXCEPT ![o] = t]
        /\ poolInitialized' \in {poolInitialized, FALSE}
    <3>1. CASE PM!Drained(o)
      BY <1>1, <2>2, <3>1 DEF PM!Drained, PM!Phase
    <3>2. CASE PM!Cleared(o)
      BY <1>1, <3>2 DEF PM!Cleared, PM!Phase
    <3>3. CASE PM!DrainFailed(o)
      BY <1>1, <3>3 DEF PM!DrainFailed, PM!Phase
    <3> QED
      BY <1>5, <3>1, <3>2, <3>3
  <2>4. PM!TypeOK'
    BY <2>1, <2>3 DEF PoolPart, PM!TypeOK
  <2> QED
    BY <2>3, <2>4 DEF PoolPart, PM!TypeOK
<1> QED
  BY Zenon, <1>2, <1>3, <1>4, <1>5 DEF PM!OwnerStep

\* So every step keeps it.
LEMMA PoolPartStep ==
  ASSUME PoolPart, [Next]_vars PROVE PoolPart'
<1>1. CASE UNCHANGED PM!vars
  BY <1>1 DEF PM!vars, PM!flagVars, PM!poolVars, PM!callVars, PM!lostVars, PM!ownerVars,
              PoolPart, PM!TypeOK
<1>2. CASE PM!Next
  BY Zenon, <1>2, PoolPartCall, PoolPartOwner DEF PM!Next
<1> QED
  BY Zenon, <1>1, <1>2, ManagerStep

-----------------------------------------------------------------------------
(* The connection state                                                    *)

\* setState() ends in the state asked for or stays where it is, and the states
\* of a drain are never reached.
LEMMA MovedWhere ==
  ASSUME NEW from, NEW to
  PROVE  Moved(from, to) = from \/ Moved(from, to) = to
BY DEF Moved

\* What setState() does with the states asked for by the operations that the
\* way out of a transient state and the outcome of a failure depend on.
LEMMA MovedFacts ==
  ASSUME NEW from \in State
  PROVE  /\ Moved(from, "POOL_DRAINING") = from
         /\ Moved(from, "POOL_DRAINED") = from
         /\ Moved(from, "ERROR") \notin {"CONNECTED", "DISCONNECTED"}
         /\ from = "AUTHENTICATING" => Moved(from, "CONNECTED") = "CONNECTED"
         /\ from = "DISCONNECTING" => Moved(from, "DISCONNECTED") = "DISCONNECTED"
         /\ Moved(from, "DISCONNECTING") = "DISCONNECTING" => from \in {"CONNECTED", "DISCONNECTING"}
BY DEF Moved, IsValidTransition, ValidTransitions, State

\* Every step leaves a state that can be reached.
LEMMA StateReached ==
  ASSUME connectionState \in State, [Next]_vars
  PROVE  connectionState' \in State
<1> DEFINE Asked == State \cup {"POOL_DRAINING", "POOL_DRAINED"}
<1>1. ASSUME NEW from \in State, NEW to \in Asked PROVE Moved(from, to) \in State
  BY <1>1, MovedWhere, MovedFacts
<1>2. \/ connectionState' = connectionState
      \/ \E to \in Asked : connectionState' = Moved(connectionState, to)
      \/ \E to, then \in Asked : connectionState' = Moved(Moved(connectionState, to), then)
  <2> USE DEF SetState
  <2>0. {"DISCONNECTED", "INITIALIZING", "CONNECTING", "AUTHENTICATING", "CONNECTED",
         "DISCONNECTING", "ERROR", "RECONNECTING", "POOL_DRAINING", "POOL_DRAINED"} = Asked
    BY DEF State
  <2> HIDE DEF Asked
  <2>1. CASE PoolStep
    BY <2>1 DEF PoolStep
  <2>2. ASSUME NEW k \in Calls, CallStep(k)
        PROVE  \/ connectionState' = connectionState
               \/ \E to \in Asked : connectionState' = Moved(connectionState, to)
    BY <2>0, <2>2 DEF CallStep, GetConnection, GetConnectionFromPool,
      ClientGetConnection, RejectAtOnce, Rejected, Poll, Reconnect, WakeUp, Acquired,
    ClientAcquired, Failed,
      ReconnectFailed, CloseConnection, ClientCloseConnection, Closed, ClientClosed
  <2>3. CASE \E o \in Owners : OwnerStep(o)
    BY <2>0, <2>3
    DEF OwnerStep, InitModule, ClientInit, Disconnect, Destroy, DrainDone, DrainFailed
  <2>4. CASE ManagerInit
    BY <2>0, <2>4 DEF ManagerInit
  <2>5. CASE UNCHANGED vars
    BY <2>5 DEF vars
  <2> QED
    BY Zenon, <2>1, <2>2, <2>3, <2>4, <2>5 DEF Next
<1> QED
  BY <1>1, <1>2

-----------------------------------------------------------------------------
(* What a step of a call does to the lists and to the calls                *)

\* A call that has no connection before the step and none after it.
Quiet(k) == ~Active(k) /\ ~Active(k)' /\ UNCHANGED listVars

\* A call that has a connection, and keeps it.
Keeps(k) ==
  /\ Active(k) /\ Active(k)' /\ route'[k] = route[k] /\ mine'[k] = mine[k]
  /\ UNCHANGED listVars

\* A call that is handed the connection it has won, which is put on the list of
\* its route.
Gains(k) ==
  /\ ~Active(k) /\ Active(k)' /\ route'[k] = route[k]
  /\ mine'[k] = held[k] /\ race[k] = "won"
  /\ \/ /\ route[k] \in ManagerRoutes
        /\ managerList' = Append(managerList, held[k]) /\ UNCHANGED clientList
     \/ /\ route[k] \in ClientRoutes
        /\ clientList' = Append(clientList, held[k]) /\ UNCHANGED managerList

\* A call that is done with its connection, which is taken from the list.
Gives(k) ==
  /\ Active(k) /\ ~Active(k)'
  /\ \/ /\ route[k] \in ManagerRoutes
        /\ managerList' = Without(managerList, mine[k]) /\ UNCHANGED clientList
     \/ /\ route[k] \in ClientRoutes
        /\ clientList' = Without(clientList, mine[k]) /\ UNCHANGED managerList

\* A step of a call touches no other call, and is one of the four.
LEMMA CallShape ==
  ASSUME TypeOK, NEW k \in Calls, CallStep(k)
  PROVE  /\ \A j \in Calls \ {k} : Alike(j)
         /\ Quiet(k) \/ Keeps(k) \/ Gains(k) \/ Gives(k)
         /\ UNCHANGED job
<1> USE DEF TypeOK, Active, Alike, Leave, Enter, Won, Lost, AskPool, AskPoolOrPoll, RejectAtOnce
<1>1. CASE GetConnection(k) \/ GetConnectionFromPool(k) \/ ClientGetConnection(k)
  BY <1>1 DEF GetConnection, GetConnectionFromPool, ClientGetConnection, Quiet
<1>2. CASE Rejected(k) \/ Poll(k) \/ Reconnect(k) \/ WakeUp(k)
  BY <1>2 DEF Rejected, Poll, Reconnect, WakeUp, Quiet
<1>3. CASE Failed(k)
  BY <1>3 DEF Failed, Quiet
<1>4. CASE ReconnectFailed(k)
  BY <1>4 DEF ReconnectFailed, Quiet
<1>5. CASE Acquired(k)
  BY <1>5 DEF Acquired, Gains
<1>6. CASE ClientAcquired(k)
  BY <1>6 DEF ClientAcquired, Gains
<1>7. CASE CloseConnection(k)
  BY <1>7 DEF CloseConnection, Keeps
<1>8. CASE ClientCloseConnection(k)
  BY <1>8 DEF ClientCloseConnection, Keeps
<1>9. CASE Closed(k)
  BY <1>9 DEF Closed, Gives
<1>10. CASE ClientClosed(k)
  BY <1>10 DEF ClientClosed, Gives
<1> QED
  BY Zenon, <1>1, <1>2, <1>3, <1>4, <1>5, <1>6, <1>7, <1>8, <1>9, <1>10 DEF CallStep

\* A step of anybody else touches neither the calls nor the lists.
LEMMA OtherShape ==
  ASSUME [Next]_vars, ~(\E k \in Calls : CallStep(k))
  PROVE  UNCHANGED <<listVars, attempts, stepVars>>
BY Zenon DEF Next, vars, PoolStep, OwnerStep, InitModule, ClientInit, Disconnect, Destroy,
  DrainDone, DrainFailed, ManagerInit, Start

-----------------------------------------------------------------------------
(* The lists match the callers                                             *)

\* What makes it inductive: the manager's part, and that who has a connection
\* works with a proper one.
UsersProper == \A k \in Calls : Active(k) => mine[k] \in PM!Conns

ListInv ==
  /\ TypeOK
  /\ PoolPart
  /\ UsersProper
  /\ ActiveMatchesUsers

\* A caller with a connection finds it on the list of its route.
LEMMA OnTheList ==
  ASSUME ListInv, NEW k \in Calls, Active(k)
  PROVE  /\ mine[k] \in PM!Conns
         /\ route[k] \in ManagerRoutes => Entries(managerList, mine[k]) # 0
         /\ route[k] \in ClientRoutes => Entries(clientList, mine[k]) # 0
<1>1. mine[k] \in PM!Conns
  BY DEF ListInv, UsersProper
<1>2. route[k] \in ManagerRoutes => Users(ManagerRoutes, mine[k]) # 0
  BY UsersExist
<1>3. route[k] \in ClientRoutes => Users(ClientRoutes, mine[k]) # 0
  BY UsersExist
<1> QED
  BY <1>1, <1>2, <1>3 DEF ListInv, ActiveMatchesUsers

\* What the variables of the connection manager, the client and their callers
\* range over is kept.
LEMMA CallTypes ==
  ASSUME ListInv, [Next]_vars
  PROVE  /\ attempts' \in 0..(MaxReconnectAttempts + 1)
         /\ step' \in [Calls -> Step]
         /\ route' \in [Calls -> Route]
         /\ mine' \in [Calls -> PM!Conns \cup {PM!NoConn}]
         /\ job' \in [Owners -> Job]
<1> USE DEF ListInv, TypeOK, Step, Route, Job
<1>1. ASSUME NEW k \in Calls, CallStep(k)
      PROVE  /\ attempts' \in 0..(MaxReconnectAttempts + 1)
             /\ step' \in [Calls -> Step]
             /\ route' \in [Calls -> Route]
             /\ mine' \in [Calls -> PM!Conns \cup {PM!NoConn}]
             /\ job' = job
  <2> USE DEF Leave, Enter, Won, Lost, AskPool, AskPoolOrPoll, RejectAtOnce
  <2>1. CASE GetConnection(k) \/ GetConnectionFromPool(k) \/ ClientGetConnection(k)
    BY <2>1 DEF GetConnection, GetConnectionFromPool, ClientGetConnection, RejectAtOnce
  <2>2. CASE Rejected(k) \/ Poll(k) \/ Reconnect(k) \/ WakeUp(k)
    BY <2>2 DEF Rejected, Poll, Reconnect, WakeUp
  <2>3. CASE Failed(k)
    BY <2>3 DEF Failed
  <2>4. CASE ReconnectFailed(k)
    <3>1. attempts' \in 0..(MaxReconnectAttempts + 1)
      BY <2>4, ConnectionsAssumption DEF ReconnectFailed
    <3> QED
      BY <2>4, <3>1 DEF ReconnectFailed
  <2>5. held[k] \in PM!Conns \cup {PM!NoConn}
    BY DEF PM!TypeOK
  <2>6. CASE Acquired(k) \/ ClientAcquired(k)
    BY <2>5, <2>6 DEF Acquired, ClientAcquired
  <2>7. CASE CloseConnection(k) \/ ClientCloseConnection(k)
    BY <2>7 DEF CloseConnection, ClientCloseConnection
  <2>8. CASE Closed(k) \/ ClientClosed(k)
    BY <2>8 DEF Closed, ClientClosed
  <2> QED
    BY Zenon, <1>1, <2>1, <2>2, <2>3, <2>4, <2>6, <2>7, <2>8 DEF CallStep
<1>2. ASSUME NEW o \in Owners, OwnerStep(o) PROVE job' \in [Owners -> Job]
  BY <1>2
  DEF OwnerStep, InitModule, ClientInit, Disconnect, Destroy, DrainDone, DrainFailed, Start
<1>3. PoolStep \/ ManagerInit \/ UNCHANGED vars => job' = job
  BY Zenon DEF PoolStep, ManagerInit, vars
<1>4. job' \in [Owners -> Job]
  BY <1>1, <1>2, <1>3 DEF Next
<1>5. CASE \E k \in Calls : CallStep(k)
  BY Zenon, <1>1, <1>4, <1>5
<1>6. CASE ~(\E k \in Calls : CallStep(k))
  BY <1>4, <1>6, OtherShape DEF stepVars
<1> QED
  BY <1>5, <1>6

\* The lists hold connections and go on matching the callers, whose connections
\* stay proper.
LEMMA ListsStep ==
  ASSUME ListInv, [Next]_vars
  PROVE  /\ managerList' \in Seq(PM!Conns) /\ clientList' \in Seq(PM!Conns)
         /\ UsersProper'
         /\ ActiveMatchesUsers'
<1> DEFINE Goal == /\ managerList' \in Seq(PM!Conns) /\ clientList' \in Seq(PM!Conns)
                   /\ UsersProper'
                   /\ ActiveMatchesUsers'
<1>1. /\ managerList \in Seq(PM!Conns) /\ clientList \in Seq(PM!Conns)
      /\ UsersProper
      /\ \A r \in PM!Conns : /\ Entries(managerList, r) = Users(ManagerRoutes, r)
                             /\ Entries(clientList, r) = Users(ClientRoutes, r)
  BY DEF ListInv, TypeOK, ActiveMatchesUsers
<1>2. ASSUME UNCHANGED listVars, \A j \in Calls : SameUser(j) PROVE Goal
  <2>1. \A routes, r : Users(routes, r)' = Users(routes, r)
    BY Zenon, <1>2, UsersKept
  <2>2. managerList' = managerList /\ clientList' = clientList
    BY <1>2 DEF listVars
  <2>3. UsersProper'
    BY <1>1, <1>2 DEF UsersProper, SameUser, Alike, Active
  <2>4. ASSUME NEW r \in PM!Conns
        PROVE  /\ Entries(managerList', r) = Users(ManagerRoutes, r)'
               /\ Entries(clientList', r) = Users(ClientRoutes, r)'
    BY <1>1, <2>1, <2>2
  <2>5. ActiveMatchesUsers'
    BY <2>4 DEF ActiveMatchesUsers, Entries
  <2> QED
    BY Zenon, <1>1, <2>2, <2>3, <2>5
<1>3. ASSUME NEW k \in Calls, \A j \in Calls \ {k} : Alike(j), Gains(k) PROVE Goal
  <2>1. held[k] \in PM!Conns /\ mine'[k] = held[k] /\ route'[k] = route[k]
    BY <1>3 DEF Gains, ListInv, PoolPart, PM!TypeOK
  <2>2. \A routes, r : Users(routes, r)' =
          Users(routes, r) + (IF route'[k] \in routes /\ mine'[k] = r THEN 1 ELSE 0)
    BY Zenon, <1>3, UsersOneMore DEF Gains
  <2>3. UsersProper'
    BY <1>1, <1>3, <2>1 DEF UsersProper, Alike, Active
  <2>4. route[k] \in ManagerRoutes => route[k] \notin ClientRoutes
    BY DEF ManagerRoutes, ClientRoutes
  <2>5. CASE route[k] \in ManagerRoutes
    <3>1. managerList' = Append(managerList, held[k]) /\ clientList' = clientList
      BY <1>3, <2>4, <2>5 DEF Gains
    <3>2. /\ managerList' \in Seq(PM!Conns)
          /\ \A r : Entries(managerList', r) =
                      Entries(managerList, r) + (IF held[k] = r THEN 1 ELSE 0)
      BY <1>1, <2>1, <3>1, EntriesAppend
    <3>3. ASSUME NEW r \in PM!Conns
          PROVE  /\ Entries(managerList', r) = Users(ManagerRoutes, r)'
                 /\ Entries(clientList', r) = Users(ClientRoutes, r)'
      <4>1. Users(ManagerRoutes, r)' = Users(ManagerRoutes,
        r) + (IF held[k] = r THEN 1 ELSE 0)
        BY <2>1, <2>2, <2>5
      <4>2. Users(ClientRoutes, r)' = Users(ClientRoutes, r)
        BY <2>1, <2>2, <2>4, <2>5, UsersFinite
      <4> QED
        BY <1>1, <3>1, <3>2, <4>1, <4>2
    <3>4. ActiveMatchesUsers'
      BY <3>3 DEF ActiveMatchesUsers, Entries
    <3> QED
      BY Zenon, <1>1, <2>3, <3>1, <3>2, <3>4
  <2>6. CASE route[k] \in ClientRoutes
    <3>1. clientList' = Append(clientList, held[k]) /\ managerList' = managerList
      BY <1>3, <2>4, <2>6 DEF Gains
    <3>2. /\ clientList' \in Seq(PM!Conns)
          /\ \A r : Entries(clientList', r) =
                      Entries(clientList, r) + (IF held[k] = r THEN 1 ELSE 0)
      BY <1>1, <2>1, <3>1, EntriesAppend
    <3>3. ASSUME NEW r \in PM!Conns
          PROVE  /\ Entries(managerList', r) = Users(ManagerRoutes, r)'
                 /\ Entries(clientList', r) = Users(ClientRoutes, r)'
      <4>1. Users(ClientRoutes, r)' = Users(ClientRoutes,
        r) + (IF held[k] = r THEN 1 ELSE 0)
        BY <2>1, <2>2, <2>6
      <4>2. Users(ManagerRoutes, r)' = Users(ManagerRoutes, r)
        BY <2>1, <2>2, <2>4, <2>6, UsersFinite
      <4> QED
        BY <1>1, <3>1, <3>2, <4>1, <4>2
    <3>4. ActiveMatchesUsers'
      BY <3>3 DEF ActiveMatchesUsers, Entries
    <3> QED
      BY Zenon, <1>1, <2>3, <3>1, <3>2, <3>4
  <2> QED
    BY <1>3, <2>5, <2>6 DEF Gains
<1>4. ASSUME NEW k \in Calls, \A j \in Calls \ {k} : Alike(j), Gives(k) PROVE Goal
  <2>1. /\ mine[k] \in PM!Conns
        /\ route[k] \in ManagerRoutes => Entries(managerList, mine[k]) # 0
        /\ route[k] \in ClientRoutes => Entries(clientList, mine[k]) # 0
    BY Zenon, <1>4, OnTheList DEF Gives
  <2>2. \A routes, r : Users(routes, r)' =
          Users(routes, r) - (IF route[k] \in routes /\ mine[k] = r THEN 1 ELSE 0)
    BY Zenon, <1>4, UsersOneLess DEF Gives
  <2>3. UsersProper'
    BY <1>1, <1>4 DEF UsersProper, Alike, Active, Gives
  <2>4. route[k] \in ManagerRoutes => route[k] \notin ClientRoutes
    BY DEF ManagerRoutes, ClientRoutes
  <2>5. CASE route[k] \in ManagerRoutes
    <3>1. managerList' = Without(managerList, mine[k]) /\ clientList' = clientList
      BY <1>4, <2>4, <2>5 DEF Gives
    <3>2. /\ managerList' \in Seq(PM!Conns)
          /\ \A r : Entries(managerList', r) =
                      Entries(managerList, r) - (IF mine[k] = r THEN 1 ELSE 0)
      BY <1>1, <2>1, <2>5, <3>1, EntriesWithout
    <3>3. ASSUME NEW r \in PM!Conns
          PROVE  /\ Entries(managerList', r) = Users(ManagerRoutes, r)'
                 /\ Entries(clientList', r) = Users(ClientRoutes, r)'
      <4>1. Users(ManagerRoutes, r)' = Users(ManagerRoutes,
        r) - (IF mine[k] = r THEN 1 ELSE 0)
        BY <2>2, <2>5
      <4>2. Users(ClientRoutes, r)' = Users(ClientRoutes, r)
        BY <2>2, <2>4, <2>5, UsersFinite
      <4> QED
        BY <1>1, <3>1, <3>2, <4>1, <4>2
    <3>4. ActiveMatchesUsers'
      BY <3>3 DEF ActiveMatchesUsers, Entries
    <3> QED
      BY Zenon, <1>1, <2>3, <3>1, <3>2, <3>4
  <2>6. CASE route[k] \in ClientRoutes
    <3>1. clientList' = Without(clientList, mine[k]) /\ managerList' = managerList
      BY <1>4, <2>4, <2>6 DEF Gives
    <3>2. /\ clientList' \in Seq(PM!Conns)
          /\ \A r : Entries(clientList', r) =
                      Entries(clientList, r) - (IF mine[k] = r THEN 1 ELSE 0)
      BY <1>1, <2>1, <2>6, <3>1, EntriesWithout
    <3>3. ASSUME NEW r \in PM!Conns
          PROVE  /\ Entries(managerList', r) = Users(ManagerRoutes, r)'
                 /\ Entries(clientList', r) = Users(ClientRoutes, r)'
      <4>1. Users(ClientRoutes, r)' = Users(ClientRoutes,
        r) - (IF mine[k] = r THEN 1 ELSE 0)
        BY <2>2, <2>6
      <4>2. Users(ManagerRoutes, r)' = Users(ManagerRoutes, r)
        BY <2>2, <2>4, <2>6, UsersFinite
      <4> QED
        BY <1>1, <3>1, <3>2, <4>1, <4>2
    <3>4. ActiveMatchesUsers'
      BY <3>3 DEF ActiveMatchesUsers, Entries
    <3> QED
      BY Zenon, <1>1, <2>3, <3>1, <3>2, <3>4
  <2> QED
    BY <1>4, <2>5, <2>6 DEF Gives
<1>5. ASSUME NEW k \in Calls, CallStep(k) PROVE Goal
  <2>1. /\ \A j \in Calls \ {k} : Alike(j)
        /\ Quiet(k) \/ Keeps(k) \/ Gains(k) \/ Gives(k)
    BY Zenon, <1>5, CallShape DEF ListInv
  <2>2. CASE Quiet(k) \/ Keeps(k)
    <3>1. UNCHANGED listVars /\ SameUser(k)
      BY Zenon, <2>2 DEF Quiet, Keeps, SameUser
    <3>2. \A j \in Calls : SameUser(j)
      BY Zenon, <2>1, <3>1 DEF SameUser
    <3> QED
      BY Zenon, <1>2, <3>1, <3>2
  <2> QED
    BY Zenon, <1>3, <1>4, <2>1, <2>2
<1>6. CASE ~(\E k \in Calls : CallStep(k))
  <2>1. UNCHANGED listVars /\ \A j \in Calls : SameUser(j)
    BY <1>6, OtherShape DEF stepVars, Alike, SameUser
  <2> QED
    BY Zenon, <1>2, <2>1
<1> QED
  BY <1>5, <1>6

\* Every step keeps the invariant.
LEMMA ListInvStep ==
  ASSUME ListInv, [Next]_vars PROVE ListInv'
<1>1. PoolPart'
  BY PoolPartStep DEF ListInv
<1>2. connectionState' \in State
  BY StateReached DEF ListInv, TypeOK
<1> QED
  BY Zenon, <1>1, <1>2, CallTypes, ListsStep DEF ListInv, TypeOK, PoolPart

\* It holds at first: the lists are empty and nobody has a connection.
LEMMA ListInvInit == Init => ListInv
<1>1. SUFFICES ASSUME Init PROVE ListInv
  OBVIOUS
<1>2. PoolPart
  BY <1>1, PoolPartInit DEF Init
<1>3. managerList = <<>> /\ clientList = <<>> /\ <<>> \in Seq(PM!Conns)
  BY <1>1 DEF Init
<1>4. TypeOK
  <2>1. PM!TypeOK
    BY <1>2 DEF PoolPart
  <2>2. attempts \in 0..(MaxReconnectAttempts + 1) /\ connectionState \in State
    BY <1>1, ConnectionsAssumption DEF Init, State
  <2>3. step \in [Calls -> Step] /\ route \in [Calls -> Route] /\ job \in [Owners -> Job]
    BY <1>1 DEF Init, Step, Route, Job
  <2>4. mine \in [Calls -> PM!Conns \cup {PM!NoConn}]
    BY <1>1 DEF Init
  <2> QED
    BY Zenon, <1>3, <2>1, <2>2, <2>3, <2>4 DEF TypeOK
<1>5. \A k \in Calls : ~Active(k)
  BY <1>1 DEF Init, Active
<1>6. \A routes, r : Users(routes, r) = 0
  BY Zenon, <1>5, UsersExist
<1>7. \A r : Entries(managerList, r) = 0 /\ Entries(clientList, r) = 0
  BY <1>3, EntriesOfEmpty
<1> QED
  BY <1>2, <1>4, <1>5, <1>6, <1>7 DEF ListInv, UsersProper, ActiveMatchesUsers

\* The invariant of the connection manager and the client, for any number of
\* calls and owners, however they overlap.
THEOREM ListInvariant == Spec => []ListInv
<1> QED
  BY ListInvInit, ListInvStep, PTL DEF Spec

\* Each list of active connections has one entry for every caller that has the
\* connection or is giving it back.
THEOREM ListsMatchCallers == Spec => []ActiveMatchesUsers
<1>1. ListInv => ActiveMatchesUsers
  BY DEF ListInv
<1> QED
  BY <1>1, ListInvariant, PTL

\* Both lists hold nothing but connections of the pools, and every variable has
\* its type.
THEOREM ConnectionsTyped == Spec => []ConnectionInv
<1>1. ListInv => ConnectionInv
  BY DEF ListInv, ConnectionInv
<1> QED
  BY <1>1, ListInvariant, PTL

-----------------------------------------------------------------------------
(* The way out of a transient state                                        *)

\* Who has a connection, or finds the state CONNECTED or DISCONNECTING, has been
\* served by a pool.
ServedByPool ==
  /\ \A k \in Calls : Active(k) => created # 0
  /\ connectionState \in {"CONNECTED", "DISCONNECTING"} => created # 0

\* Only the connection of a retry is forgotten.
OnlyRetriesLeak == \A k \in Calls : step[k] = "leaked" => route[k] = "retry"

\* AUTHENTICATING lasts no longer than an init().
Authenticated ==
  connectionState = "AUTHENTICATING" => \E o \in Owners : job[o] = "init"

\* A caller of the connection manager that has yet to close its connection.
Closer(k) == route[k] \in ManagerRoutes /\ step[k] \in {"holding", "closing"}

\* A disconnect() whose drain has not failed.
Disconnecting(o) == job[o] = "disconnect" /\ owner[o] # "failed"

\* DISCONNECTING lasts no longer than one of the two.
Disconnected ==
  connectionState = "DISCONNECTING" /\ ~DrainMayFail =>
    (\E k \in Calls : Closer(k)) \/ (\E o \in Owners : Disconnecting(o))

WayOutInv ==
  /\ ListInv
  /\ ServedByPool
  /\ OnlyRetriesLeak
  /\ Authenticated
  /\ Disconnected

\* A pool that was created stays created.
LEMMA CreatedStays ==
  ASSUME ListInv, [Next]_vars, created # 0 PROVE created' # 0
<1>1. created \in Nat
  BY ConnectionsAssumption DEF ListInv, TypeOK, PM!TypeOK
<1>2. created' = created \/ created' = created + 1
  <2>1. CASE UNCHANGED PM!vars
    BY <2>1 DEF PM!vars, PM!flagVars
  <2>2. CASE PM!Next
    BY <2>2 DEF PM!Next, PM!CallStep, PM!OwnerStep, PM!GetConnection, PM!Grant, PM!Refuse,
      PM!RaceTimeout, PM!CloseConnection, PM!StartInit, PM!FinishInit, PM!DrainPool,
      PM!Drained, PM!Cleared, PM!DrainFailed, PM!flagVars
  <2> QED
    BY Zenon, <2>1, <2>2, ManagerStep
<1> QED
  BY <1>1, <1>2

\* Who wins a race is served by a pool, and so is who closes a connection.
LEMMA ServedByPoolStep ==
  ASSUME WayOutInv, [Next]_vars PROVE ServedByPool'
<1>1. ListInv /\ ServedByPool
  BY DEF WayOutInv
<1>2. \A k \in Calls : race[k] = "won" => created # 0
  BY <1>1 DEF ListInv, PoolPart
<1>3. poolInitialized => created # 0
  BY <1>1 DEF ListInv, PoolPart
<1>4. created # 0 => created' # 0
  BY <1>1, CreatedStays
<1>5. ASSUME NEW k \in Calls, Active(k)' PROVE created' # 0
  <2>1. CASE Active(k)
    BY <1>1, <1>4, <2>1 DEF ServedByPool
  <2>2. CASE ~Active(k)
    <3>1. PICK j \in Calls : CallStep(j)
      BY <1>5, <2>2, OtherShape DEF stepVars, Active
    <3>2. /\ \A i \in Calls \ {j} : Alike(i)
          /\ Quiet(j) \/ Keeps(j) \/ Gains(j) \/ Gives(j)
      BY Zenon, <1>1, <3>1, CallShape DEF ListInv
    <3>3. j = k
      BY <1>5, <2>2, <3>2 DEF Alike, Active
    <3>4. Gains(k)
      BY <1>5, <2>2, <3>2, <3>3 DEF Quiet, Keeps, Gives
    <3> QED
      BY <1>2, <1>4, <3>4 DEF Gains
  <2> QED
    BY <2>1, <2>2
<1>6. ASSUME connectionState' \in {"CONNECTED", "DISCONNECTING"} PROVE created # 0
  <2>1. CASE connectionState \in {"CONNECTED", "DISCONNECTING"}
    BY <1>1, <2>1 DEF ServedByPool
  <2>2. CASE connectionState \notin {"CONNECTED", "DISCONNECTING"}
    <3> USE DEF SetState
    <3>1. connectionState \in State
      BY <1>1 DEF ListInv, TypeOK
    <3>2. Moved(connectionState, "DISCONNECTING") # "DISCONNECTING"
      BY <2>2, <3>1, MovedFacts
    <3>3. CASE PoolStep \/ UNCHANGED vars
      BY <1>6, <2>2, <3>3 DEF PoolStep, vars
    <3>4. ASSUME NEW k \in Calls, CallStep(k) PROVE created # 0
      <4>1. CASE Acquired(k)
        BY <1>2, <4>1 DEF Acquired, Won
      <4>2. CASE Closed(k) \/ ClientClosed(k)
        BY <1>1, <4>2 DEF Closed, ClientClosed, ServedByPool, Active
      <4>3. CASE CloseConnection(k)
        BY <1>6, <2>2, <3>2, <4>3, MovedWhere DEF CloseConnection
      <4>4. CASE GetConnection(k) \/ GetConnectionFromPool(k) \/ ClientGetConnection(k)
        BY <1>6, <2>2, <4>4, MovedWhere
        DEF GetConnection, GetConnectionFromPool, ClientGetConnection, RejectAtOnce
      <4>5. CASE Rejected(k) \/ Poll(k) \/ Reconnect(k) \/ WakeUp(k)
        BY <1>6, <2>2, <4>5, MovedWhere DEF Rejected, Poll, Reconnect, WakeUp
      <4>6. CASE ClientAcquired(k) \/ Failed(k) \/ ReconnectFailed(k) \/ ClientCloseConnection(k)
        BY <1>6, <2>2, <4>6, MovedWhere
        DEF ClientAcquired, Failed, ReconnectFailed, ClientCloseConnection
      <4> QED
        BY Zenon, <3>4, <4>1, <4>2, <4>3, <4>4, <4>5, <4>6 DEF CallStep
    <3>5. ASSUME NEW o \in Owners, OwnerStep(o) PROVE created # 0
      <4>1. CASE ClientInit(o)
        BY <1>3, <4>1 DEF ClientInit
      <4>2. CASE Disconnect(o)
        BY <1>6, <2>2, <3>2, <4>2, MovedWhere DEF Disconnect
      <4>3. CASE InitModule(o)
        BY <1>6, <2>2, <4>3, MovedWhere DEF InitModule
      <4>4. CASE Destroy(o)
        BY <1>6, <2>2, <4>4, MovedWhere DEF Destroy
      <4>5. CASE DrainDone(o)
        BY <1>6, <2>2, <4>5, MovedWhere DEF DrainDone
      <4>6. CASE DrainFailed(o)
        BY <1>6, <2>2, <4>6, MovedWhere DEF DrainFailed
      <4> QED
        BY Zenon, <3>5, <4>1, <4>2, <4>3, <4>4, <4>5, <4>6 DEF OwnerStep
    <3>6. CASE ManagerInit
      <4>1. CASE poolInitialized
        BY <1>3, <4>1
      <4>2. CASE ~poolInitialized
        BY <1>6, <2>2, <3>6, <4>2, MovedWhere DEF ManagerInit
      <4> QED
        BY <4>1, <4>2
    <3> QED
      BY <3>3, <3>4, <3>5, <3>6 DEF Next
  <2> QED
    BY <2>1, <2>2
<1> QED
  BY <1>4, <1>5, <1>6 DEF ServedByPool

\* A connection is forgotten by the client, on the way of a retry.
LEMMA OnlyRetriesLeakStep ==
  ASSUME WayOutInv, [Next]_vars PROVE OnlyRetriesLeak'
<1>1. ListInv /\ OnlyRetriesLeak
  BY DEF WayOutInv
<1>2. ASSUME NEW j \in Calls, CallStep(j) PROVE OnlyRetriesLeak'
  <2>1. \A i \in Calls \ {j} : Alike(i)
    BY Zenon, <1>1, <1>2, CallShape DEF ListInv
  <2>2. step'[j] = "leaked" => route'[j] = "retry"
    <3> USE <1>1 DEF ListInv, TypeOK, Leave, Enter, AskPool, AskPoolOrPoll, RejectAtOnce
    <3>1. CASE GetConnection(j) \/ GetConnectionFromPool(j) \/ ClientGetConnection(j)
      BY <3>1 DEF GetConnection, GetConnectionFromPool, ClientGetConnection, RejectAtOnce
    <3>2. CASE Rejected(j) \/ Poll(j) \/ Reconnect(j) \/ WakeUp(j)
      BY <3>2 DEF Rejected, Poll, Reconnect, WakeUp
    <3>3. CASE Acquired(j) \/ ClientAcquired(j)
      BY <3>3 DEF Acquired, ClientAcquired
    <3>4. CASE Failed(j) \/ ReconnectFailed(j)
      BY <3>4 DEF Failed, ReconnectFailed
    <3>5. CASE CloseConnection(j) \/ ClientCloseConnection(j)
      BY <3>5 DEF CloseConnection, ClientCloseConnection
    <3>6. CASE Closed(j) \/ ClientClosed(j)
      BY <3>6 DEF Closed, ClientClosed
    <3> QED
      BY Zenon, <1>2, <3>1, <3>2, <3>3, <3>4, <3>5, <3>6 DEF CallStep
  <2> QED
    BY <1>1, <2>1, <2>2 DEF OnlyRetriesLeak, Alike
<1>3. CASE ~(\E k \in Calls : CallStep(k))
  BY <1>1, <1>3, OtherShape DEF OnlyRetriesLeak, stepVars
<1> QED
  BY <1>2, <1>3

\* The init() that asked for AUTHENTICATING ends in CONNECTED.
LEMMA AuthenticatedStep ==
  ASSUME WayOutInv, [Next]_vars PROVE Authenticated'
<1>1. SUFFICES ASSUME connectionState' = "AUTHENTICATING"
               PROVE  \E o \in Owners : job'[o] = "init"
  BY DEF Authenticated
<1>2. connectionState \in State /\ job \in [Owners -> Job] /\ Authenticated
  BY DEF WayOutInv, ListInv, TypeOK
<1> USE DEF SetState
<1>3. ASSUME NEW o \in Owners, InitModule(o) PROVE job'[o] = "init"
  BY <1>2, <1>3 DEF InitModule, Start
<1>4. ASSUME ~(\E o \in Owners : InitModule(o)) PROVE connectionState = "AUTHENTICATING"
  <2>1. CASE PoolStep \/ UNCHANGED vars
    BY <1>1, <2>1 DEF PoolStep, vars
  <2>2. ASSUME NEW k \in Calls, CallStep(k) PROVE connectionState = "AUTHENTICATING"
    <3>1. CASE GetConnection(k) \/ GetConnectionFromPool(k) \/ ClientGetConnection(k)
      BY <1>1, <3>1, MovedWhere
      DEF GetConnection, GetConnectionFromPool, ClientGetConnection, RejectAtOnce
    <3>2. CASE Rejected(k) \/ Poll(k) \/ Reconnect(k) \/ WakeUp(k)
      BY <1>1, <3>2, MovedWhere DEF Rejected, Poll, Reconnect, WakeUp
    <3>3. CASE Acquired(k) \/ ClientAcquired(k) \/ Failed(k) \/ ReconnectFailed(k)
      BY <1>1, <3>3, MovedWhere DEF Acquired, ClientAcquired, Failed, ReconnectFailed
    <3>4. CASE CloseConnection(k) \/ ClientCloseConnection(k) \/ Closed(k) \/ ClientClosed(k)
      BY <1>1, <3>4, MovedWhere
      DEF CloseConnection, ClientCloseConnection, Closed, ClientClosed
    <3> QED
      BY Zenon, <2>2, <3>1, <3>2, <3>3, <3>4 DEF CallStep
  <2>3. ASSUME NEW o \in Owners, OwnerStep(o) PROVE connectionState = "AUTHENTICATING"
    <3>1. CASE ClientInit(o) \/ Disconnect(o) \/ Destroy(o)
      BY <1>1, <3>1, MovedWhere DEF ClientInit, Disconnect, Destroy
    <3>2. CASE DrainDone(o)
      BY <1>1, <3>2, MovedWhere DEF DrainDone
    <3>3. CASE DrainFailed(o)
      BY <1>1, <3>3, MovedWhere DEF DrainFailed
    <3> QED
      BY Zenon, <1>4, <2>3, <3>1, <3>2, <3>3 DEF OwnerStep
  <2>4. CASE ManagerInit
    BY <1>1, <2>4, MovedWhere DEF ManagerInit
  <2> QED
    BY <2>1, <2>2, <2>3, <2>4 DEF Next
<1>5. ASSUME ~(\E o \in Owners : InitModule(o)) PROVE \E o \in Owners : job'[o] = "init"
  <2>1. PICK o \in Owners : job[o] = "init"
    BY <1>2, <1>4, <1>5 DEF Authenticated
  <2>2. ~ClientInit(o)
    BY <1>1, <1>2, <1>4, <1>5, MovedFacts DEF ClientInit
  <2>3. job'[o] = "init"
    <3>1. CASE PoolStep \/ UNCHANGED vars \/ ManagerInit
      BY <2>1, <3>1 DEF PoolStep, vars, ManagerInit
    <3>2. CASE \E k \in Calls : CallStep(k)
      BY <2>1, <3>2, CallShape DEF WayOutInv, ListInv
    <3>3. ASSUME NEW p \in Owners, OwnerStep(p) PROVE job'[o] = "init"
      BY <1>2, <1>5, <2>1, <2>2, <3>3 DEF OwnerStep, ClientInit, Disconnect, Destroy,
        DrainDone, DrainFailed, Start, DrainingJob
    <3> QED
      BY <3>1, <3>2, <3>3 DEF Next
  <2> QED
    BY <2>3
<1> QED
  BY <1>3, <1>5

\* What a step leaves of a disconnect(): a drain fails only where it may, and the
\* operation ends in DISCONNECTED.
LEMMA DisconnectingStays ==
  ASSUME WayOutInv, [Next]_vars, ~DrainMayFail, NEW o \in Owners, Disconnecting(o),
         connectionState = "DISCONNECTING", connectionState' = "DISCONNECTING"
  PROVE  Disconnecting(o)'
<1>1. /\ job \in [Owners -> Job] /\ owner \in [Owners -> PM!Phase]
      /\ connectionState \in State
  BY DEF WayOutInv, ListInv, TypeOK, PM!TypeOK
<1>2. job[o] = "disconnect" /\ owner[o] # "failed"
  BY DEF Disconnecting
<1> USE DEF SetState, PM!Phase
<1>3. CASE PoolStep
  <2>1. job' = job
    BY <1>3 DEF PoolStep
  <2>2. \/ owner' = owner
        \/ \E p \in Owners : PM!FinishInit(p) \/ PM!Drained(p) \/ PM!Cleared(p) \/ PM!DrainFailed(p)
    BY Zenon, <1>3 DEF PoolStep, PM!Grant, PM!Refuse, PM!RaceTimeout, PM!ownerVars
  <2>3. owner'[o] # "failed"
    BY <1>1, <1>2, <2>2 DEF PM!FinishInit, PM!Drained, PM!Cleared, PM!DrainFailed
  <2> QED
    BY <1>2, <2>1, <2>3 DEF Disconnecting
<1>4. ASSUME NEW k \in Calls, CallStep(k) PROVE Disconnecting(o)'
  <2>1. job' = job
    BY <1>4, CallShape DEF WayOutInv, ListInv
  <2>2. PM!GetConnection(k) \/ PM!CloseConnection(k) \/ UNCHANGED managerVars
    BY Zenon, <1>4 DEF CallStep, GetConnection, GetConnectionFromPool,
      ClientGetConnection, RejectAtOnce, Rejected, Poll, Reconnect, WakeUp, Acquired,
    ClientAcquired, Failed,
      ReconnectFailed, CloseConnection, ClientCloseConnection, Closed, ClientClosed,
      AskPoolOrPoll, AskPool
  <2>3. owner' = owner
    BY Zenon, <2>2 DEF PM!GetConnection, PM!CloseConnection, PM!ownerVars, managerVars
  <2> QED
    BY <1>2, <2>1, <2>3 DEF Disconnecting
<1>5. ASSUME NEW p \in Owners, OwnerStep(p) PROVE Disconnecting(o)'
  <2>1. CASE p = o
    <3>1. ~(InitModule(o) \/ ClientInit(o) \/ Disconnect(o) \/ Destroy(o))
      BY <1>2 DEF InitModule, ClientInit, Disconnect, Destroy, Start
    <3>2. ~DrainFailed(o)
      BY <1>2 DEF DrainFailed
    <3>3. ~DrainDone(o)
      BY <1>1, <1>2, MovedFacts DEF DrainDone
    <3> QED
      BY Zenon, <1>5, <2>1, <3>1, <3>2, <3>3 DEF OwnerStep
  <2>2. CASE p # o
    <3>1. job'[o] = job[o]
      BY <1>1, <1>5, <2>2 DEF OwnerStep, InitModule, ClientInit, Disconnect, Destroy,
        DrainDone, DrainFailed, Start
    <3>2. \/ owner' = owner \/ PM!StartInit(p) \/ PM!DrainPool(p)
      BY Zenon, <1>5 DEF OwnerStep, InitModule, ClientInit, Disconnect, Destroy,
        DrainDone, DrainFailed, managerVars
    <3>3. owner'[o] = owner[o]
      BY <1>1, <2>2, <3>2 DEF PM!StartInit, PM!DrainPool
    <3> QED
      BY <1>2, <3>1, <3>3 DEF Disconnecting
  <2> QED
    BY <2>1, <2>2
<1>6. CASE ManagerInit \/ UNCHANGED vars
  BY <1>2, <1>6 DEF ManagerInit, vars, managerVars, Disconnecting
<1> QED
  BY <1>3, <1>4, <1>5, <1>6 DEF Next

\* What a step leaves of a caller that has yet to close its connection: it is
\* still there, or was the last and ended the state, or there is another.
LEMMA CloserStays ==
  ASSUME WayOutInv, [Next]_vars, NEW k \in Calls, Closer(k),
         connectionState = "DISCONNECTING", connectionState' = "DISCONNECTING"
  PROVE  \E j \in Calls : Closer(j)'
<1>1. ListInv /\ ListInv' /\ OnlyRetriesLeak'
  BY ListInvStep, OnlyRetriesLeakStep DEF WayOutInv
<1>2. CASE ~(\E j \in Calls : CallStep(j))
  BY <1>2, OtherShape DEF Closer, stepVars
<1>3. ASSUME NEW j \in Calls, CallStep(j), j # k PROVE Closer(k)'
  <2>1. Alike(k)
    BY <1>1, <1>3, CallShape DEF ListInv
  <2> QED
    BY <2>1 DEF Alike, Closer
<1>4. CASE Closed(k)
  <2>1. managerList' # <<>>
    BY <1>1, <1>4, MovedFacts DEF Closed, SetState, ListInv, TypeOK
  <2>2. managerList' \in Seq(PM!Conns)
    BY <1>1 DEF ListInv, TypeOK
  <2>3. PICK r \in PM!Conns : Entries(managerList', r) # 0
    BY <2>1, <2>2, EntriesOfEmpty
  <2>4. Users(ManagerRoutes, r)' # 0
    BY <1>1, <2>3 DEF ListInv, ActiveMatchesUsers, Entries
  <2>5. PICK j \in Calls : route'[j] \in ManagerRoutes /\ Active(j)'
    <3>1. UserSet(ManagerRoutes, r)' # {}
      BY <2>4, UsersFinite, FS_EmptySet
    <3> QED
      BY <3>1 DEF UserSet
  <2>6. step'[j] # "leaked"
    BY <1>1, <2>5 DEF OnlyRetriesLeak, ManagerRoutes
  <2> QED
    BY <2>5, <2>6 DEF Closer, Active
<1>5. ASSUME CallStep(k), ~Closed(k) PROVE Closer(k)'
  <2> USE DEF Closer, ManagerRoutes, ClientRoutes
  <2>1. CloseConnection(k)
    <3>1. ~(GetConnection(k) \/ GetConnectionFromPool(k) \/ ClientGetConnection(k) \/ Reconnect(k))
      BY DEF GetConnection, GetConnectionFromPool, ClientGetConnection, Reconnect, Enter
    <3>2. ~(Rejected(k) \/ Poll(k) \/ WakeUp(k) \/ Acquired(k) \/ ClientAcquired(k)
            \/ Failed(k) \/ ReconnectFailed(k))
      BY DEF Rejected, Poll, WakeUp, Acquired, ClientAcquired, Failed, ReconnectFailed,
        Won, Lost
    <3>3. ~(ClientCloseConnection(k) \/ ClientClosed(k))
      BY DEF ClientCloseConnection, ClientClosed
    <3> QED
      BY Zenon, <1>5, <3>1, <3>2, <3>3 DEF CallStep
  <2>2. step \in [Calls -> Step]
    BY <1>1 DEF ListInv, TypeOK
  <2> QED
    BY <2>1, <2>2 DEF CloseConnection
<1> QED
  BY <1>2, <1>3, <1>4, <1>5

\* DISCONNECTING is entered by a caller that closes or by a disconnect() that
\* found a pool to drain.
LEMMA DisconnectedStep ==
  ASSUME WayOutInv, [Next]_vars PROVE Disconnected'
<1>1. SUFFICES ASSUME connectionState' = "DISCONNECTING", ~DrainMayFail
               PROVE  (\E k \in Calls : Closer(k)') \/ (\E o \in Owners : Disconnecting(o)')
  BY Zenon DEF Disconnected
<1>2. /\ connectionState \in State /\ job \in [Owners -> Job]
      /\ owner \in [Owners -> PM!Phase] /\ step \in [Calls -> Step]
  BY DEF WayOutInv, ListInv, TypeOK, PM!TypeOK
<1>3. CASE connectionState = "DISCONNECTING"
  BY Zenon, <1>1, <1>3, DisconnectingStays, CloserStays DEF WayOutInv, Disconnected
<1>4. CASE connectionState # "DISCONNECTING"
  <2> USE DEF SetState
  <2>1. CASE PoolStep \/ UNCHANGED vars
    BY <1>1, <1>4, <2>1 DEF PoolStep, vars
  <2>2. ASSUME NEW k \in Calls, CallStep(k) PROVE Closer(k)'
    <3>1. CASE CloseConnection(k)
      BY <1>2, <3>1 DEF CloseConnection, Closer
    <3>2. CASE GetConnection(k) \/ GetConnectionFromPool(k) \/ ClientGetConnection(k)
      BY <1>1, <1>4, <3>2, MovedWhere
      DEF GetConnection, GetConnectionFromPool, ClientGetConnection, RejectAtOnce
    <3>3. CASE Rejected(k) \/ Poll(k) \/ Reconnect(k) \/ WakeUp(k)
      BY <1>1, <1>4, <3>3, MovedWhere DEF Rejected, Poll, Reconnect, WakeUp
    <3>4. CASE Acquired(k) \/ ClientAcquired(k) \/ Failed(k) \/ ReconnectFailed(k)
      BY <1>1, <1>4, <3>4, MovedWhere DEF Acquired, ClientAcquired, Failed, ReconnectFailed
    <3>5. CASE ClientCloseConnection(k) \/ Closed(k) \/ ClientClosed(k)
      BY <1>1, <1>4, <3>5, MovedWhere DEF ClientCloseConnection, Closed, ClientClosed
    <3> QED
      BY Zenon, <2>2, <3>1, <3>2, <3>3, <3>4, <3>5 DEF CallStep
  <2>3. ASSUME NEW o \in Owners, OwnerStep(o) PROVE Disconnecting(o)'
    <3>1. CASE Disconnect(o)
      <4>1. connectionState = "CONNECTED"
        BY <1>1, <1>2, <1>4, <3>1, MovedFacts DEF Disconnect
      <4>2. pool # 0
        BY <4>1 DEF WayOutInv, ServedByPool, ListInv, PoolPart
      <4>3. owner'[o] = "draining"
        BY <1>2, <3>1, <4>2 DEF Disconnect, PM!DrainPool, PM!NoPool
      <4>4. job'[o] = "disconnect"
        BY <1>2, <3>1 DEF Disconnect, Start
      <4> QED
        BY <4>3, <4>4 DEF Disconnecting
    <3>2. CASE InitModule(o) \/ ClientInit(o) \/ Destroy(o)
      BY <1>1, <1>4, <3>2, MovedWhere DEF InitModule, ClientInit, Destroy
    <3>3. CASE DrainDone(o)
      BY <1>1, <1>4, <3>3, MovedWhere DEF DrainDone
    <3>4. CASE DrainFailed(o)
      BY <1>1, <1>4, <3>4, MovedWhere DEF DrainFailed
    <3> QED
      BY Zenon, <2>3, <3>1, <3>2, <3>3, <3>4 DEF OwnerStep
  <2>4. CASE ManagerInit
    BY <1>1, <1>4, <2>4, MovedWhere DEF ManagerInit
  <2> QED
    BY Zenon, <2>1, <2>2, <2>3, <2>4 DEF Next
<1> QED
  BY <1>3, <1>4

\* Every step keeps the invariant, and the first state has it.
LEMMA WayOutInvStep ==
  ASSUME WayOutInv, [Next]_vars PROVE WayOutInv'
<1>1. ListInv'
  BY ListInvStep DEF WayOutInv
<1> QED
  BY Zenon, <1>1, ServedByPoolStep, OnlyRetriesLeakStep, AuthenticatedStep, DisconnectedStep
  DEF WayOutInv

LEMMA WayOutInvInit == Init => WayOutInv
<1>1. SUFFICES ASSUME Init PROVE WayOutInv
  OBVIOUS
<1>2. connectionState = "DISCONNECTED" /\ \A k \in Calls : step[k] = "idle"
  BY <1>1 DEF Init
<1> QED
  BY <1>1, <1>2, ListInvInit
  DEF WayOutInv, ServedByPool, OnlyRetriesLeak, Authenticated, Disconnected, Active

\* AUTHENTICATING lasts no longer than an init(), and DISCONNECTING no longer than
\* a drain or until the last caller has closed its connection.
THEOREM WayOutOfTransientStates == Spec => []TransientStateHasWayOut
<1>1. WayOutInv => TransientStateHasWayOut
  BY Zenon
  DEF WayOutInv, Authenticated, Disconnected, Closer, Disconnecting, TransientStateHasWayOut
<1> QED
  BY <1>1, WayOutInvInit, WayOutInvStep, PTL DEF Spec

-----------------------------------------------------------------------------
(* What a failure leaves, and what the pool manager sees                   *)

\* A getConnection() whose acquisition the pool manager rejected, and a disconnect()
\* that failed to drain, leave neither CONNECTED nor DISCONNECTED.
THEOREM FailuresShow == Spec => FailureShows
<1> DEFINE Refused ==
      \/ \E k \in Calls : step[k] = "waiting" /\ step'[k] \in {"idle", "sleeping"}
                          /\ route[k] # "fromPool"
      \/ \E o \in Owners : job[o] = "disconnect" /\ job'[o] = "none" /\ owner[o] = "failed"
<1>1. ASSUME TypeOK, [Next]_vars, Refused
      PROVE  connectionState' \notin {"CONNECTED", "DISCONNECTED"}
  <2>1. connectionState \in State /\ step \in [Calls -> Step] /\ job \in [Owners -> Job]
    BY <1>1 DEF TypeOK
  <2>2. Moved(connectionState, "ERROR") \notin {"CONNECTED", "DISCONNECTED"}
    BY <2>1, MovedFacts
  <2>3. ASSUME NEW k \in Calls, step[k] = "waiting", step'[k] \in {"idle", "sleeping"},
               route[k] # "fromPool"
        PROVE  connectionState' = Moved(connectionState, "ERROR")
    <3>1. PICK j \in Calls : CallStep(j)
      BY <1>1, <2>3, OtherShape DEF stepVars
    <3>2. j = k
      BY <1>1, <2>3, <3>1, CallShape DEF Alike
    <3>3. Failed(k) \/ ReconnectFailed(k)
      <4>1. ~(GetConnection(k) \/ GetConnectionFromPool(k) \/ ClientGetConnection(k) \/ Reconnect(k))
        BY <2>3
        DEF GetConnection, GetConnectionFromPool, ClientGetConnection, Reconnect, Enter
      <4>2. ~(Rejected(k) \/ Poll(k) \/ WakeUp(k) \/ Closed(k) \/ ClientClosed(k)
              \/ CloseConnection(k) \/ ClientCloseConnection(k))
        BY <2>3
        DEF Rejected, Poll, WakeUp, Closed, ClientClosed, CloseConnection, ClientCloseConnection
      <4>3. ~(Acquired(k) \/ ClientAcquired(k))
        BY <2>1, <2>3 DEF Acquired, ClientAcquired
      <4> QED
        BY Zenon, <3>1, <3>2, <4>1, <4>2, <4>3 DEF CallStep
    <3> QED
      BY <2>3, <3>3 DEF Failed, ReconnectFailed, SetState
  <2>4. ASSUME NEW o \in Owners, job[o] = "disconnect", job'[o] = "none",
    owner[o] = "failed"
        PROVE  connectionState' = Moved(connectionState, "ERROR")
    <3>1. ~(\E k \in Calls : CallStep(k))
      BY <1>1, <2>4, CallShape
    <3>2. ~(PoolStep \/ ManagerInit \/ UNCHANGED vars)
      BY <2>4 DEF PoolStep, ManagerInit, vars
    <3>3. PICK p \in Owners : OwnerStep(p)
      BY <1>1, <3>1, <3>2 DEF Next
    <3>4. p = o
      BY <2>1, <2>4, <3>3 DEF OwnerStep, InitModule, ClientInit, Disconnect, Destroy,
        DrainDone, DrainFailed, Start
    <3>5. DrainFailed(o)
      BY <2>4, <3>3, <3>4 DEF OwnerStep, InitModule, ClientInit, Disconnect, Destroy,
        DrainDone, Start
    <3> QED
      BY <2>4, <3>5 DEF DrainFailed, SetState
  <2> QED
    BY <1>1, <2>2, <2>3, <2>4
<1>2. ListInv => TypeOK
  BY DEF ListInv
<1>3. ASSUME ListInv, [Next]_vars
      PROVE  [Refused => connectionState' \notin {"CONNECTED", "DISCONNECTED"}]_vars
  BY Zenon, <1>1, <1>2, <1>3
<1> QED
  BY <1>3, ListInvariant, PTL DEF Spec, FailureShows

\* Whatever the connection manager and the client do, the pool manager is used as
\* its own specification says.
THEOREM ImplementsPoolManager == Spec => PM!Spec
<1>1. Init => PM!Init
  BY DEF Init
<1>2. [Next]_vars => [PM!Next]_(PM!vars)
  BY ManagerStep
<1> QED
  BY <1>1, <1>2, PTL DEF Spec, PM!Spec

-----------------------------------------------------------------------------
(* What the pool manager keeps                                             *)

\* The proofs about the pool manager, for the manager these two objects share.
PMP == INSTANCE PoolManager_proofs

USE DEF PM!flagVars, PMP!flagVars, PM!poolVars, PMP!poolVars, PM!callVars, PMP!callVars,
  PM!lostVars, PMP!lostVars, PM!ownerVars, PMP!ownerVars, PM!NoPool, PMP!NoPool,
  PM!NoConn, PMP!NoConn, PM!Home, PMP!Home

\* They are about the same calls,
LEMMA SameCalls == ASSUME NEW k PROVE PM!CallStep(k) <=> PMP!CallStep(k)
<1>1. PM!GetConnection(k) <=> PMP!GetConnection(k)
  BY Zenon DEF PM!GetConnection, PMP!GetConnection, PM!Lease!Ask, PMP!Lease!Ask
<1>2. \A r : PM!Grant(k, r) <=> PMP!Grant(k, r)
  BY Zenon DEF PM!Grant, PMP!Grant, PM!Lease!Grant, PMP!Lease!Grant, PM!Lease!Taken,
    PMP!Lease!Taken
<1>3. PM!Refuse(k) <=> PMP!Refuse(k)
  BY Zenon DEF PM!Refuse, PMP!Refuse, PM!Lease!TurnAway, PMP!Lease!TurnAway
<1>4. PM!RaceTimeout(k) <=> PMP!RaceTimeout(k)
  BY Zenon DEF PM!RaceTimeout, PMP!RaceTimeout
<1>5. PM!CloseConnection(k) <=> PMP!CloseConnection(k)
  BY Zenon DEF PM!CloseConnection, PMP!CloseConnection, PM!Lease!Return, PMP!Lease!Return
<1>6. PM!Conns = PMP!Conns
  BY Zenon DEF PM!Conns, PMP!Conns, PM!Pools, PMP!Pools
<1> QED
  BY Zenon, <1>1, <1>2, <1>3, <1>4, <1>5, <1>6 DEF PM!CallStep, PMP!CallStep

\* the same init() and drainPool(),
LEMMA SameOwners == ASSUME NEW o PROVE PM!OwnerStep(o) <=> PMP!OwnerStep(o)
BY Zenon
DEF PM!OwnerStep, PMP!OwnerStep, PM!StartInit, PMP!StartInit, PM!Ready, PMP!Ready,
    PM!FinishInit, PMP!FinishInit, PM!DrainPool, PMP!DrainPool, PM!Drained, PMP!Drained,
    PM!Cleared, PMP!Cleared, PM!DrainFailed, PMP!DrainFailed

\* and so the same steps,
LEMMA SameNext == [PM!Next]_(PM!vars) <=> [PMP!Next]_(PMP!vars)
BY Zenon, SameCalls, SameOwners DEF PM!Next, PMP!Next, PM!vars, PMP!vars

\* from the same first state.
LEMMA SameInit == PM!Init <=> PMP!Init
BY Zenon DEF PM!Init, PMP!Init, PM!Lease!Init, PMP!Lease!Init

\* As long as init(), disconnect() and destroy() calls do not overlap, the client and
\* the connection manager never leave a pool behind that still serves requests: there is
\* at most one live pool, and the pool manager they share has it.
THEOREM OnePoolForBoth == ASSUME PM!SingleOwner PROVE Spec => []PM!OneLivePool
<1>1. PMP!SingleOwner
  BY Zenon DEF PM!SingleOwner, PMP!SingleOwner
<1>2. Init => PMP!ManagerInv
  BY Zenon, SameInit, PMP!InitInv, ConnectionsAssumption DEF Init
<1>3. PMP!ManagerInv /\ [Next]_vars => PMP!ManagerInv'
  BY Zenon, <1>1, ManagerStep, SameNext, PMP!NextInv, ConnectionsAssumption
<1>4. PMP!ManagerInv => PM!OneLivePool
  BY Zenon DEF PMP!ManagerInv, PMP!OneLivePool, PM!OneLivePool, PM!Live, PMP!Live
<1> QED
  BY <1>2, <1>3, <1>4, PTL DEF Spec

-----------------------------------------------------------------------------
(* The connection a caller works with                                      *)

\* A caller that works with a connection, or has leaked it.
HoldsOne(k) == step[k] \in {"holding", "leaked"}

\* No two callers work with one connection, however many requests, retries, init()s and
\* drains overlap, and none works with a connection that its pool may grant again.
HoldersApart ==
  \A k \in Calls : HoldsOne(k) =>
    /\ mine[k] \notin abandoned \cup stranded
    /\ \A j \in Calls : HoldsOne(j) /\ mine[j] = mine[k] => j = k

\* What makes it inductive: the connection a caller works with is the one it won the
\* race for, and it has not given it back.
MineInv == \A k \in Calls : HoldsOne(k) => race[k] = "won" /\ mine[k] = held[k]

\* A step of the pool manager in which caller k gives nothing back.
Spares(k) ==
  \/ \E j \in Calls : \/ PM!GetConnection(j) \/ PM!Refuse(j) \/ PM!RaceTimeout(j)
                      \/ \E r \in PM!Conns : PM!Grant(j, r)
                      \/ j # k /\ PM!CloseConnection(j)
  \/ \E o \in Owners : PM!OwnerStep(o)
  \/ UNCHANGED managerVars

\* It leaves the caller the connection it has.
LEMMA MineKept ==
  ASSUME PMP!HolderInv, NEW k \in Calls, race[k] = "won", Spares(k)
  PROVE  race'[k] = "won" /\ held'[k] = held[k]
<1>1. /\ held[k] # PM!NoConn /\ k \notin asking
      /\ race \in [Calls -> PMP!Race] /\ held \in [Calls -> PMP!Conns \cup {PM!NoConn}]
  BY DEF PMP!HolderInv
<1>2. ASSUME NEW j \in Calls, PM!GetConnection(j) PROVE race'[k] = "won" /\ held' = held
  <2>1. held' = held /\ race[j] = "over"
    BY Zenon, <1>2 DEF PM!GetConnection, PM!Lease!Ask
  <2>2. race' = [race EXCEPT ![j] = "racing"] \/ race' = [race EXCEPT ![j] = "over"]
    BY Zenon, <1>2 DEF PM!GetConnection
  <2> QED
    BY <1>1, <2>1, <2>2
<1>3. ASSUME NEW j \in Calls, NEW r \in PM!Conns, PM!Grant(j, r)
      PROVE  race'[k] = "won" /\ held'[k] = held[k]
  <2>1. CASE race[j] = "racing"
    <3>1. held' = [held EXCEPT ![j] = r] /\ race' = [race EXCEPT ![j] = "won"]
      BY Zenon, <1>3, <2>1 DEF PM!Grant, PM!Lease!Grant
    <3> QED
      BY <1>1, <2>1, <3>1
  <2>2. CASE race[j] # "racing"
    BY Zenon, <1>3, <2>2 DEF PM!Grant
  <2> QED
    BY <2>1, <2>2
<1>4. ASSUME NEW j \in Calls, PM!Refuse(j) \/ PM!RaceTimeout(j)
      PROVE  race'[k] = "won" /\ held' = held
  <2>1. /\ held' = held /\ race' = [race EXCEPT ![j] = "over"]
        /\ j \in asking \/ race[j] = "racing"
    BY Zenon, <1>4 DEF PM!Refuse, PM!RaceTimeout, PM!Lease!TurnAway
  <2> QED
    BY <1>1, <2>1
<1>5. ASSUME NEW j \in Calls, j # k, PM!CloseConnection(j)
      PROVE  race'[k] = "won" /\ held'[k] = held[k]
  <2>1. held' = [held EXCEPT ![j] = PM!NoConn] /\ race' = [race EXCEPT ![j] = "over"]
    BY Zenon, <1>5 DEF PM!CloseConnection, PM!Lease!Return
  <2> QED
    BY <1>1, <1>5, <2>1
<1>6. ASSUME NEW o \in Owners, PM!OwnerStep(o) PROVE race' = race /\ held' = held
  BY Zenon, <1>6 DEF PM!OwnerStep, PM!StartInit, PM!FinishInit, PM!DrainPool, PM!Drained,
    PM!Cleared, PM!DrainFailed
<1>7. UNCHANGED managerVars => race' = race /\ held' = held
  BY Zenon DEF managerVars
<1> QED
  BY Zenon, <1>2, <1>3, <1>4, <1>5, <1>6, <1>7 DEF Spares

\* A caller comes to work with a connection when it has won the race for it, and its own
\* next step gives it back.
LEMMA TakesOver ==
  ASSUME TypeOK, NEW k \in Calls, CallStep(k), HoldsOne(k)'
  PROVE  race[k] = "won" /\ mine'[k] = held[k] /\ UNCHANGED managerVars
<1> USE DEF TypeOK, HoldsOne, Leave, Enter, Won, Lost, AskPool, AskPoolOrPoll, RejectAtOnce
<1>1. ~GetConnection(k) /\ ~GetConnectionFromPool(k) /\ ~ClientGetConnection(k)
  BY DEF GetConnection, GetConnectionFromPool, ClientGetConnection, RejectAtOnce
<1>2. ~Rejected(k) /\ ~Poll(k) /\ ~Reconnect(k) /\ ~WakeUp(k)
  BY DEF Rejected, Poll, Reconnect, WakeUp
<1>3. ~Failed(k) /\ ~Closed(k) /\ ~ClientClosed(k)
  BY DEF Failed, Closed, ClientClosed
<1>4. ~ReconnectFailed(k)
  BY DEF ReconnectFailed
<1>5. ~CloseConnection(k) /\ ~ClientCloseConnection(k)
  BY DEF CloseConnection, ClientCloseConnection
<1>6. CASE Acquired(k)
  BY <1>6 DEF Acquired
<1>7. CASE ClientAcquired(k)
  BY <1>7 DEF ClientAcquired
<1> QED
  BY Zenon, <1>1, <1>2, <1>3, <1>4, <1>5, <1>6, <1>7 DEF CallStep

\* Every step keeps it.
LEMMA MineStep ==
  ASSUME TypeOK, PMP!HolderInv, MineInv, [Next]_vars PROVE MineInv'
<1> SUFFICES ASSUME NEW k \in Calls, HoldsOne(k)'
             PROVE  race'[k] = "won" /\ mine'[k] = held'[k]
  BY Zenon DEF MineInv
<1>1. CASE CallStep(k)
  <2>1. race' = race /\ held' = held
    BY Zenon, <1>1, TakesOver DEF managerVars
  <2>2. race[k] = "won" /\ mine'[k] = held[k]
    BY Zenon, <1>1, TakesOver
  <2> QED
    BY <2>1, <2>2
<1>2. CASE ~CallStep(k)
  <2>1. Alike(k)
    <3>1. ASSUME NEW j \in Calls \ {k}, CallStep(j) PROVE Alike(k)
      BY Zenon, <3>1, CallShape
    <3>2. CASE \E j \in Calls : CallStep(j)
      BY Zenon, <1>2, <3>1, <3>2
    <3>3. CASE ~(\E j \in Calls : CallStep(j))
      BY Zenon, <3>3, OtherShape DEF stepVars, Alike
    <3> QED
      BY <3>2, <3>3
  <2>2. race[k] = "won" /\ mine[k] = held[k]
    BY <2>1 DEF MineInv, HoldsOne, Alike
  <2>3. Spares(k)
    <3>1. ASSUME NEW j \in Calls, CallStep(j)
          PROVE PM!GetConnection(j) \/ PM!CloseConnection(j) \/ UNCHANGED managerVars
      BY Zenon, <3>1 DEF CallStep, GetConnection, GetConnectionFromPool,
        ClientGetConnection, RejectAtOnce, Rejected, Poll, Reconnect, WakeUp, Acquired,
    ClientAcquired, Failed,
        ReconnectFailed, CloseConnection, ClientCloseConnection, Closed, ClientClosed,
        AskPoolOrPoll, AskPool
    <3>2. ASSUME NEW j \in Calls, CallStep(j) PROVE Spares(k)
      BY Zenon, <1>2, <3>1, <3>2 DEF Spares
    <3>3. ASSUME NEW o \in Owners, OwnerStep(o)
          PROVE PM!OwnerStep(o) \/ UNCHANGED managerVars
      BY Zenon, <3>3 DEF OwnerStep, InitModule, ClientInit, Disconnect, Destroy, DrainDone,
        DrainFailed, PM!OwnerStep
    <3>4. PoolStep => Spares(k)
      BY Zenon DEF PoolStep, Spares, PM!OwnerStep
    <3>5. ManagerInit \/ UNCHANGED vars => UNCHANGED managerVars
      BY Zenon DEF ManagerInit, vars
    <3> QED
      BY Zenon, <3>2, <3>3, <3>4, <3>5 DEF Next, Spares
  <2> QED
    BY <2>1, <2>2, <2>3, MineKept DEF Alike
<1> QED
  BY <1>1, <1>2

\* One connection, one caller at a time: what the callers of the client and of the
\* connection manager work with is never shared, although each of the two keeps a list of
\* its own and knows nothing of the other's.
THEOREM CallersApart == Spec => []HoldersApart
<1>1. Init => PMP!HolderInv /\ MineInv
  <2>1. Init => MineInv
    BY DEF Init, MineInv, HoldsOne
  <2>2. PMP!Init => PMP!HolderInv
    BY DEF PMP!Init, PMP!Lease!Init, PMP!HolderInv, PMP!OneHolder, PMP!Race
  <2> QED
    BY Zenon, <2>1, <2>2, SameInit DEF Init
<1>2. PMP!HolderInv /\ [Next]_vars => PMP!HolderInv'
  BY Zenon, ManagerStep, SameNext, PMP!HolderStep, ConnectionsAssumption
<1>3. TypeOK /\ PMP!HolderInv /\ MineInv /\ [Next]_vars => MineInv'
  BY Zenon, MineStep
<1>4. ListInv => TypeOK
  BY DEF ListInv
<1>5. PMP!HolderInv /\ MineInv => HoldersApart
  <2> SUFFICES ASSUME PMP!HolderInv, MineInv PROVE HoldersApart
    OBVIOUS
  <2>1. \A k \in Calls : held[k] # PM!NoConn =>
          /\ held[k] \notin abandoned \cup stranded
          /\ \A j \in Calls : held[j] = held[k] => j = k
    BY Zenon DEF PMP!HolderInv, PMP!OneHolder
  <2>2. \A k \in Calls : HoldsOne(k) => held[k] # PM!NoConn /\ mine[k] = held[k]
    BY Zenon DEF PMP!HolderInv, MineInv
  <2> QED
    BY <2>1, <2>2 DEF HoldersApart
<1> QED
  BY <1>1, <1>2, <1>3, <1>4, <1>5, ListInvariant, PTL DEF Spec

=============================================================================
