------------------------- MODULE PoolManager_proofs -------------------------
(***************************************************************************)
(* The pool manager keeps its invariant, for any number of calls, pools and *)
(* connections, as long as init() and drainPool() calls do not overlap.     *)
(***************************************************************************)
EXTENDS PoolManager, TLAPS

USE DEF NoPool, NoConn, Home

\* The conjuncts about the callers, and those about the pools and the owners.
CallPart ==
  /\ \A k \in asking : wants[k] \in 1..created /\ held[k] = NoConn
  /\ \A k \in Calls : held[k] # NoConn => Home(held[k]) \in 1..created
  /\ \A k \in Calls : race[k] = "won" <=> held[k] # NoConn
  /\ StrandedOnlyInCleared

OwnerPart ==
  /\ pool = created
  /\ poolInitialized => pool # NoPool
  /\ \A o \in Owners : owner[o] \in {"draining", "clearing"} =>
                        target[o] = pool /\ pool # NoPool
  /\ \A o \in Owners : owner[o] = "authenticating" => ~poolInitialized
  /\ OneLivePool

\* The invariant, cut into what calls change and what owners change.
LEMMA Parts == ManagerInv <=> TypeOK /\ CallPart /\ OwnerPart
BY Zenon DEF ManagerInv, CallPart, OwnerPart

\* The first state: no pool, no call, nobody busy.
LEMMA InitInv == Init => ManagerInv
<1>1. SUFFICES ASSUME Init PROVE TypeOK /\ CallPart /\ OwnerPart
  BY <1>1, Parts
<1>2. TypeOK
  <2>1. /\ created \in 0..MaxPools /\ pool \in 0..created
        /\ wants \in [Calls -> 0..MaxPools] /\ target \in [Owners -> 0..MaxPools]
    BY <1>1, PoolManagerAssumption DEF Init
  <2>2. held \in [Calls -> Conns \cup {NoConn}]
    BY <1>1 DEF Init, Lease!Init
  <2>3. race \in [Calls -> Race] /\ owner \in [Owners -> Phase]
    BY <1>1 DEF Init, Race, Phase
  <2> QED
    BY <1>1, <2>1, <2>2, <2>3 DEF Init, TypeOK, Lease!Init
<1>3. CallPart
  BY <1>1 DEF Init, CallPart, Lease!Init, StrandedOnlyInCleared
<1>4. OwnerPart
  BY <1>1 DEF Init, OwnerPart, OneLivePool, Live
<1> QED
  BY <1>2, <1>3, <1>4

\* What the calls do leaves the pools and the owners as they are.
LEMMA OwnerPartKept ==
  ASSUME OwnerPart, UNCHANGED <<flagVars, poolVars, ownerVars>>
  PROVE  OwnerPart'
BY DEF OwnerPart, flagVars, poolVars, ownerVars, OneLivePool, Live

\* What the owners do to the pools takes nothing from the calls: pools are only
\* added and only cleared.
LEMMA CallPartKept ==
  ASSUME TypeOK, TypeOK', CallPart, UNCHANGED <<callVars, lostVars>>,
         created <= created', cleared \subseteq cleared'
  PROVE  CallPart'
<1>1. created \in Nat /\ created' \in Nat
  BY PoolManagerAssumption DEF TypeOK
<1>2. 1..created \subseteq 1..created'
  BY <1>1
<1> QED
  BY <1>2 DEF CallPart, callVars, lostVars, StrandedOnlyInCleared

\* A step of call k that touches no other call and leaves k itself consistent.
StepOfCall(k) ==
  /\ UNCHANGED <<created, cleared>>
  /\ asking' \subseteq asking \cup {k}
  /\ \A j \in Calls \ {k} :
       wants'[j] = wants[j] /\ held'[j] = held[j] /\ race'[j] = race[j]
  /\ k \in asking' => wants'[k] \in 1..created /\ held'[k] = NoConn
  /\ held'[k] # NoConn => Home(held'[k]) \in 1..created
  /\ race'[k] = "won" <=> held'[k] # NoConn

\* A step of one call keeps the calls' part, if it does so for that call.
LEMMA CallPartStep ==
  ASSUME TypeOK, CallPart, NEW k \in Calls, StepOfCall(k), StrandedOnlyInCleared'
  PROVE  CallPart'
<1> USE DEF StepOfCall
<1>1. asking \subseteq Calls
  BY DEF TypeOK
<1>2. \A j \in asking' : wants'[j] \in 1..created' /\ held'[j] = NoConn
  <2> TAKE j \in asking'
  <2>1. CASE j = k
    BY <2>1
  <2>2. CASE j # k
    BY <1>1, <2>2 DEF CallPart
  <2> QED
    BY <2>1, <2>2
<1>3. \A j \in Calls : held'[j] # NoConn => Home(held'[j]) \in 1..created'
  <2> TAKE j \in Calls
  <2>1. CASE j = k
    BY <2>1
  <2>2. CASE j # k
    BY <2>2 DEF CallPart
  <2> QED
    BY <2>1, <2>2
<1>4. \A j \in Calls : race'[j] = "won" <=> held'[j] # NoConn
  <2> TAKE j \in Calls
  <2>1. CASE j = k
    BY <2>1
  <2>2. CASE j # k
    BY <2>2 DEF CallPart
  <2> QED
    BY <2>1, <2>2
<1> QED
  BY Zenon, <1>2, <1>3, <1>4 DEF CallPart

-----------------------------------------------------------------------------

\* getConnection(): a request is made to the present pool, or nothing is.
LEMMA GetConnectionInv ==
  ASSUME ManagerInv, NEW k \in Calls, GetConnection(k)
  PROVE  ManagerInv'
<1>1. TypeOK /\ CallPart /\ OwnerPart
  BY Parts
<1>2. OwnerPart'
  BY <1>1, OwnerPartKept DEF GetConnection
<1>3. /\ UNCHANGED <<flagVars, poolVars, lostVars, ownerVars, held>>
      /\ race[k] = "over"
      /\ \/ /\ poolInitialized
            /\ asking' = asking \cup {k}
            /\ wants' = [wants EXCEPT ![k] = pool]
            /\ race' = [race EXCEPT ![k] = "racing"]
            /\ held[k] = NoConn
         \/ race' = [race EXCEPT ![k] = "over"] /\ UNCHANGED <<asking, wants>>
  BY Zenon DEF GetConnection, Lease!Ask
<1>4. poolInitialized => pool \in 1..created /\ pool \in 0..MaxPools
  BY <1>1, PoolManagerAssumption DEF TypeOK, OwnerPart
<1>5. TypeOK'
  BY <1>1, <1>3, <1>4 DEF TypeOK, Race, flagVars, poolVars, lostVars, ownerVars
<1>6. CallPart'
  <2>1. held[k] = NoConn
    BY <1>1, <1>3 DEF CallPart
  <2>2. k \in asking' => wants'[k] \in 1..created
    BY <1>1, <1>3, <1>4 DEF TypeOK, CallPart
  <2>3. race'[k] # "won"
    BY <1>1, <1>3 DEF TypeOK
  <2>4. \A j \in Calls \ {k} : wants'[j] = wants[j] /\ race'[j] = race[j]
    BY <1>1, <1>3 DEF TypeOK
  <2>5. StrandedOnlyInCleared'
    BY <1>1, <1>3 DEF CallPart, StrandedOnlyInCleared, lostVars, poolVars
  <2>6. StepOfCall(k)
    BY <1>1, <1>3, <2>1, <2>2, <2>3, <2>4 DEF StepOfCall, flagVars, poolVars
  <2> QED
    BY Zenon, <1>1, <2>5, <2>6, CallPartStep
<1> QED
  BY Zenon, <1>2, <1>5, <1>6 DEF ManagerInv, CallPart, OwnerPart

\* A grant: the connection is one of the pool that was asked.
LEMMA GrantInv ==
  ASSUME ManagerInv, NEW k \in Calls, NEW r \in Conns, Grant(k, r)
  PROVE  ManagerInv'
<1>1. TypeOK /\ CallPart /\ OwnerPart
  BY Parts
<1>2. OwnerPart'
  BY <1>1, OwnerPartKept DEF Grant
<1>3. /\ UNCHANGED <<flagVars, poolVars, stranded, ownerVars>>
      /\ k \in asking /\ Home(r) = wants[k]
      /\ asking' = asking \ {k}
      /\ wants' = [wants EXCEPT ![k] = NoPool]
      /\ \/ /\ held' = [held EXCEPT ![k] = r]
            /\ race' = [race EXCEPT ![k] = "won"]
            /\ UNCHANGED abandoned
         \/ abandoned' = abandoned \cup {r} /\ UNCHANGED <<held, race>>
  BY Zenon DEF Grant, Lease!Grant
<1>4. Home(r) \in 1..created /\ r # NoConn /\ 0 \in 0..MaxPools
  BY <1>1, <1>3, PoolManagerAssumption DEF CallPart, Conns, Pools
<1>5. TypeOK'
  BY <1>1, <1>3, <1>4 DEF TypeOK, Race, flagVars, poolVars, ownerVars
<1>6. CallPart'
  <2>1. held[k] = NoConn
    BY <1>1, <1>3 DEF CallPart
  <2>2. race'[k] = "won" <=> held'[k] # NoConn
    BY <1>1, <1>3, <1>4, <2>1 DEF TypeOK, CallPart
  <2>3. held'[k] # NoConn => Home(held'[k]) \in 1..created
    BY <1>1, <1>3, <1>4 DEF TypeOK, CallPart
  <2>4. \A j \in Calls \ {k} :
          wants'[j] = wants[j] /\ held'[j] = held[j] /\ race'[j] = race[j]
    BY <1>1, <1>3 DEF TypeOK
  <2>5. StrandedOnlyInCleared'
    BY <1>1, <1>3 DEF CallPart, StrandedOnlyInCleared, poolVars
  <2>6. asking' \subseteq asking \cup {k} /\ k \notin asking'
    BY <1>3
  <2>7. StepOfCall(k)
    BY <1>1, <1>3, <2>2, <2>3, <2>4, <2>6 DEF StepOfCall, flagVars, poolVars
  <2> QED
    BY Zenon, <1>1, <2>5, <2>7, CallPartStep
<1> QED
  BY Zenon, <1>2, <1>5, <1>6 DEF ManagerInv, CallPart, OwnerPart

\* A refusal and the timer: the race is over and nothing is handed out.
LEMMA RefuseInv ==
  ASSUME ManagerInv, NEW k \in Calls, Refuse(k) \/ RaceTimeout(k)
  PROVE  ManagerInv'
<1>1. TypeOK /\ CallPart /\ OwnerPart
  BY Parts
<1>2. OwnerPart'
  BY <1>1, OwnerPartKept DEF Refuse, RaceTimeout
<1>3. /\ UNCHANGED <<flagVars, poolVars, lostVars, ownerVars, held>>
      /\ asking' \subseteq asking
      /\ \/ wants' = [wants EXCEPT ![k] = NoPool] /\ asking' = asking \ {k}
         \/ wants' = wants
      /\ race' = [race EXCEPT ![k] = "over"]
  BY DEF Refuse, RaceTimeout, Lease!TurnAway
<1>4. held[k] = NoConn /\ 0 \in 0..MaxPools
  BY <1>1, PoolManagerAssumption DEF CallPart, Refuse, RaceTimeout
<1>5. TypeOK'
  BY <1>1, <1>3, <1>4 DEF TypeOK, Race, flagVars, poolVars, lostVars, ownerVars
<1>6. CallPart'
  <2>1. k \in asking' => wants'[k] \in 1..created
    BY <1>1, <1>3 DEF TypeOK, CallPart
  <2>2. race'[k] # "won"
    BY <1>1, <1>3 DEF TypeOK
  <2>3. \A j \in Calls \ {k} : wants'[j] = wants[j] /\ race'[j] = race[j]
    BY <1>1, <1>3 DEF TypeOK
  <2>4. StrandedOnlyInCleared'
    BY <1>1, <1>3 DEF CallPart, StrandedOnlyInCleared, lostVars, poolVars
  <2>5. StepOfCall(k)
    BY <1>1, <1>3, <1>4, <2>1, <2>2, <2>3 DEF StepOfCall, flagVars, poolVars
  <2> QED
    BY Zenon, <1>1, <2>4, <2>5, CallPartStep
<1> QED
  BY Zenon, <1>2, <1>5, <1>6 DEF ManagerInv, CallPart, OwnerPart

\* closeConnection(): the release goes to the pool of the connection, or that
\* pool is no longer live.
LEMMA CloseConnectionInv ==
  ASSUME ManagerInv, NEW k \in Calls, CloseConnection(k)
  PROVE  ManagerInv'
<1>1. TypeOK /\ CallPart /\ OwnerPart
  BY Parts
<1>2. OwnerPart'
  BY <1>1, OwnerPartKept DEF CloseConnection
<1>3. /\ UNCHANGED <<flagVars, poolVars, wants, asking, abandoned, ownerVars>>
      /\ held[k] # NoConn
      /\ held' = [held EXCEPT ![k] = NoConn]
      /\ race' = [race EXCEPT ![k] = "over"]
      /\ stranded' = IF poolInitialized /\ Home(held[k]) = pool
                       THEN stranded ELSE stranded \cup {held[k]}
  BY Zenon DEF CloseConnection, Lease!Return
<1>4. ~(poolInitialized /\ Home(held[k]) = pool) => Home(held[k]) \in cleared
  BY <1>1, <1>3 DEF CallPart, OwnerPart, OneLivePool, Live
<1>5. TypeOK'
  BY <1>1, <1>3 DEF TypeOK, Race, flagVars, poolVars, ownerVars
<1>6. CallPart'
  <2>1. held'[k] = NoConn /\ race'[k] # "won"
    BY <1>1, <1>3 DEF TypeOK
  <2>2. k \in asking => wants[k] \in 1..created
    BY <1>1 DEF CallPart
  <2>3. \A j \in Calls \ {k} : held'[j] = held[j] /\ race'[j] = race[j]
    BY <1>1, <1>3 DEF TypeOK
  <2>4. StrandedOnlyInCleared'
    BY <1>1, <1>3, <1>4 DEF CallPart, StrandedOnlyInCleared, poolVars
  <2>5. StepOfCall(k)
    BY <1>1, <1>3, <2>1, <2>2, <2>3 DEF StepOfCall, flagVars, poolVars
  <2> QED
    BY Zenon, <1>1, <2>4, <2>5, CallPartStep
<1> QED
  BY Zenon, <1>2, <1>5, <1>6 DEF ManagerInv, CallPart, OwnerPart

-----------------------------------------------------------------------------

\* init(): it authenticates only if there is no pool, and then creates one.
LEMMA InitStepInv ==
  ASSUME ManagerInv, SingleOwner, NEW o \in Owners, StartInit(o) \/ FinishInit(o)
  PROVE  ManagerInv'
<1>1. TypeOK /\ CallPart /\ OwnerPart
  BY Parts
<1>2. \A p \in Owners : p = o
  BY DEF SingleOwner
<1>3. CASE StartInit(o)
  <2>1. TypeOK'
    BY <1>1, <1>3 DEF StartInit, TypeOK, Phase, flagVars, poolVars, callVars, lostVars
  <2>2. OwnerPart'
    BY <1>1, <1>2, <1>3
    DEF StartInit, TypeOK, OwnerPart, OneLivePool, Live, flagVars, poolVars
  <2>3. CallPart'
    BY <1>1, <1>3, <2>1, CallPartKept, PoolManagerAssumption
    DEF StartInit, flagVars, poolVars, TypeOK
  <2> QED
    BY Zenon, <2>1, <2>2, <2>3 DEF ManagerInv, CallPart, OwnerPart
<1>4. CASE FinishInit(o)
  <2>1. created \in Nat /\ created + 1 \in 0..MaxPools /\ 1..created \subseteq 1..(created + 1)
    BY <1>1, <1>4, PoolManagerAssumption DEF FinishInit, TypeOK
  <2>2. TypeOK'
    BY <1>1, <1>4, <2>1 DEF FinishInit, TypeOK, Phase, poolVars, callVars, lostVars
  <2>3. OwnerPart'
    <3>1. Live = {}
      BY <1>1, <1>4 DEF FinishInit, OwnerPart, OneLivePool
    <3>2. Live' \subseteq {pool'}
      BY <1>4, <2>1, <3>1 DEF FinishInit, Live, poolVars
    <3>3. owner'[o] = "done"
      BY <1>1, <1>4 DEF FinishInit, TypeOK
    <3> QED
      BY <1>2, <1>4, <2>1, <3>2, <3>3 DEF FinishInit, OwnerPart, OneLivePool
  <2>4. CallPart'
    BY <1>1, <1>4, <2>1, <2>2, CallPartKept DEF FinishInit, poolVars
  <2> QED
    BY Zenon, <2>2, <2>3, <2>4 DEF ManagerInv, CallPart, OwnerPart
<1> QED
  BY <1>3, <1>4

\* drainPool(): the pool it began with is still the manager's when it ends.
LEMMA DrainStepInv ==
  ASSUME ManagerInv, SingleOwner, NEW o \in Owners,
         DrainPool(o) \/ Drained(o) \/ Cleared(o) \/ DrainFailed(o)
  PROVE  ManagerInv'
<1>1. TypeOK /\ CallPart /\ OwnerPart
  BY Parts
<1>2. \A p \in Owners : p = o
  BY DEF SingleOwner
<1>3. /\ UNCHANGED <<pool, created, callVars, lostVars>>
      /\ cleared \subseteq cleared'
  BY DEF DrainPool, Drained, Cleared, DrainFailed, flagVars, poolVars
<1>4. /\ pool \in 0..MaxPools /\ 0 \in 0..MaxPools
      /\ pool # NoPool => pool \in 1..created
  BY <1>1, PoolManagerAssumption DEF TypeOK
<1>5. owner[o] \in {"draining", "clearing"} => target[o] \in 1..created
  BY <1>1, <1>4 DEF OwnerPart
<1>6. TypeOK'
  <2>1. /\ poolInitialized' \in BOOLEAN
        /\ drained' \subseteq 1..created /\ cleared' \subseteq 1..created
    <3>1. drained' \subseteq drained \cup (1..created)
      BY <1>4 DEF DrainPool, Drained, Cleared, DrainFailed, poolVars
    <3>2. cleared' \subseteq cleared \cup (1..created)
      BY <1>5 DEF DrainPool, Drained, Cleared, DrainFailed, poolVars
    <3>3. poolInitialized' \in {poolInitialized, FALSE}
      BY Zenon DEF DrainPool, Drained, Cleared, DrainFailed, flagVars
    <3> QED
      BY <1>1, <3>1, <3>2, <3>3 DEF TypeOK
  <2>2. owner' \in [Owners -> Phase] /\ target' \in [Owners -> 0..MaxPools]
    <3>1. \/ owner' = owner
          \/ \E v \in Phase : owner' = [owner EXCEPT ![o] = v]
      BY DEF DrainPool, Drained, Cleared, DrainFailed, Phase
    <3>2. \/ target' = target
          \/ \E v \in 0..MaxPools : target' = [target EXCEPT ![o] = v]
      BY <1>4 DEF DrainPool, Drained, Cleared, DrainFailed
    <3> QED
      BY <1>1, <3>1, <3>2 DEF TypeOK
  <2> QED
    BY <1>1, <1>3, <2>1, <2>2 DEF TypeOK, callVars, lostVars
<1>7. OwnerPart'
  <2> USE DEF TypeOK, OwnerPart, OneLivePool, Live, flagVars, poolVars
  <2>1. CASE DrainPool(o)
    BY <1>1, <1>2, <1>3, <1>4, <2>1 DEF DrainPool
  <2>2. CASE Drained(o)
    BY <1>1, <1>2, <1>3, <1>4, <2>2 DEF Drained
  <2>3. CASE Cleared(o)
    BY <1>1, <1>2, <1>3, <1>4, <2>3 DEF Cleared
  <2>4. CASE DrainFailed(o)
    BY <1>1, <1>2, <1>3, <1>4, <2>4 DEF DrainFailed
  <2> QED
    BY <2>1, <2>2, <2>3, <2>4
<1>8. CallPart'
  <2>1. created <= created'
    BY <1>1, <1>3, PoolManagerAssumption DEF TypeOK
  <2>2. UNCHANGED <<created, callVars, lostVars>> /\ cleared \subseteq cleared'
    BY <1>3
  <2> QED
    BY <1>1, <1>6, <2>1, <2>2, CallPartKept
<1> QED
  BY Zenon, <1>6, <1>7, <1>8 DEF ManagerInv, CallPart, OwnerPart

-----------------------------------------------------------------------------

\* Every step of the manager keeps the invariant.
LEMMA NextInv ==
  ASSUME ManagerInv, SingleOwner, [Next]_vars
  PROVE  ManagerInv'
<1>1. CASE \E k \in Calls : CallStep(k)
  BY <1>1, GetConnectionInv, GrantInv, RefuseInv, CloseConnectionInv DEF CallStep
<1>2. CASE \E o \in Owners : OwnerStep(o)
  BY <1>2, InitStepInv, DrainStepInv DEF OwnerStep
<1>3. CASE UNCHANGED vars
  BY <1>3
  DEF vars, flagVars, poolVars, callVars, lostVars, ownerVars, ManagerInv, TypeOK,
      StrandedOnlyInCleared, OneLivePool, Live
<1> QED
  BY <1>1, <1>2, <1>3 DEF Next

\* The manager's invariant, if its owners take turns.
THEOREM ManagerInvariant == ASSUME SingleOwner PROVE Spec => []ManagerInv
<1>1. Init => ManagerInv
  BY InitInv
<1>2. ManagerInv /\ [Next]_vars => ManagerInv'
  BY NextInv
<1> QED
  BY <1>1, <1>2, PTL DEF Spec

\* A release is dropped only when the pool of the connection is gone.
THEOREM ReleasesReachTheirPool ==
  ASSUME SingleOwner PROVE Spec => []StrandedOnlyInCleared
<1>1. ManagerInv => StrandedOnlyInCleared
  BY DEF ManagerInv
<1> QED
  BY <1>1, ManagerInvariant, PTL

\* There is at most one live pool, and the manager knows it.
THEOREM PoolNeverForgotten == ASSUME SingleOwner PROVE Spec => []OneLivePool
<1>1. ManagerInv => OneLivePool
  BY DEF ManagerInv
<1> QED
  BY <1>1, ManagerInvariant, PTL

-----------------------------------------------------------------------------
(* However many init() and drainPool() calls overlap                       *)

\* What a call changes of the connections in use is what the pools promise it:
\* a request, a grant, a return, or, when the race was lost before the grant, a
\* request that is turned away.
LEMMA CallImplementsLease ==
  ASSUME NEW k \in Calls, CallStep(k) PROVE [Lease!Next]_(Lease!leaseVars)
<1> USE DEF Lease!leaseVars
<1>1. CASE GetConnection(k)
  <2>1. Lease!Ask(k) \/ UNCHANGED <<asking, held>>
    BY Zenon, <1>1 DEF GetConnection
  <2> QED
    BY Zenon, <2>1 DEF Lease!Next
<1>2. ASSUME NEW r \in Conns, Grant(k, r) PROVE Lease!Grant(k, r) \/ Lease!TurnAway({k})
  BY Zenon, <1>2 DEF Grant, Lease!TurnAway
<1>3. Refuse(k) => Lease!TurnAway({k})
  BY Zenon DEF Refuse
<1>4. RaceTimeout(k) => UNCHANGED <<asking, held>>
  BY Zenon DEF RaceTimeout
<1>5. CloseConnection(k) => Lease!Return(k)
  BY Zenon DEF CloseConnection
<1>6. {k} \in SUBSET Calls
  OBVIOUS
<1> QED
  BY Zenon, <1>1, <1>2, <1>3, <1>4, <1>5, <1>6 DEF CallStep, Lease!Next

\* The manager passes the pools' promise on to its callers, whatever init() and
\* drainPool() do meanwhile and whichever pool serves them: a connection is handed
\* to one caller at a time and comes back from the caller that has it.
THEOREM ManagerLeases == Spec => Lease!Spec
<1>1. Init => Lease!Init
  BY Zenon DEF Init
<1>2. [Next]_vars => [Lease!Next]_(Lease!leaseVars)
  <2>1. ASSUME NEW o \in Owners, OwnerStep(o) PROVE UNCHANGED Lease!leaseVars
    BY Zenon, <2>1 DEF OwnerStep, StartInit, FinishInit, DrainPool, Drained, Cleared,
      DrainFailed, callVars, Lease!leaseVars
  <2>2. UNCHANGED vars => UNCHANGED Lease!leaseVars
    BY Zenon DEF vars, callVars, Lease!leaseVars
  <2> QED
    BY Zenon, <2>1, <2>2, CallImplementsLease DEF Next
<1> QED
  BY <1>1, <1>2, PTL DEF Spec, Lease!Spec

\* A connection a caller holds was neither granted to a request nobody waits for
\* any more, nor lost on its way back, and no other caller holds it.
OneHolder ==
  \A k \in Calls : held[k] # NoConn =>
    /\ held[k] \notin abandoned \cup stranded
    /\ \A j \in Calls : held[j] = held[k] => j = k

\* What makes it inductive: who asks holds nothing, and who has won its race, and
\* nobody else, holds a connection.
HolderInv ==
  /\ asking \subseteq Calls
  /\ held \in [Calls -> Conns \cup {NoConn}]
  /\ race \in [Calls -> Race]
  /\ \A k \in Calls : race[k] = "won" <=> held[k] # NoConn
  /\ \A k \in asking : held[k] = NoConn
  /\ OneHolder

\* A request: who makes it holds nothing.
LEMMA GetConnectionHolders ==
  ASSUME HolderInv, NEW k \in Calls, GetConnection(k) PROVE HolderInv'
<1>1. /\ held' = held /\ abandoned' = abandoned /\ stranded' = stranded
      /\ \/ asking' = asking \cup {k} /\ race' = [race EXCEPT ![k] = "racing"]
         \/ asking' = asking /\ race' = [race EXCEPT ![k] = "over"]
      /\ race[k] = "over"
  BY Zenon DEF GetConnection, Lease!Ask, lostVars
<1>2. held[k] = NoConn
  BY <1>1 DEF HolderInv
<1> QED
  BY <1>1, <1>2 DEF HolderInv, OneHolder, Race

\* A grant: the connection is nobody's, and the caller's that waits for it, or
\* nobody's for ever.
LEMMA GrantHolders ==
  ASSUME HolderInv, NEW k \in Calls, NEW r \in Conns, Grant(k, r) PROVE HolderInv'
<1>1. /\ k \in asking /\ asking' = asking \ {k} /\ stranded' = stranded
      /\ r \notin abandoned \cup stranded
      /\ r \notin Lease!Taken
  BY Zenon DEF Grant, Lease!Grant
<1>2. r # NoConn
  BY DEF Conns, Pools
<1>3. \A j \in Calls : held[j] # r
  BY <1>1, <1>2 DEF Lease!Taken
<1>4. CASE race[k] = "racing"
  <2>1. /\ held' = [held EXCEPT ![k] = r] /\ race' = [race EXCEPT ![k] = "won"]
        /\ abandoned' = abandoned
    BY Zenon, <1>4 DEF Grant, Lease!Grant
  <2> QED
    BY <1>1, <1>2, <1>3, <2>1 DEF HolderInv, OneHolder, Race
<1>5. CASE race[k] # "racing"
  <2>1. held' = held /\ race' = race /\ abandoned' = abandoned \cup {r}
    BY Zenon, <1>5 DEF Grant
  <2> QED
    BY <1>1, <1>3, <2>1 DEF HolderInv, OneHolder
<1> QED
  BY <1>4, <1>5

\* A return: nobody else had the connection, so nobody has it when it goes back
\* or is lost.
LEMMA CloseConnectionHolders ==
  ASSUME HolderInv, NEW k \in Calls, CloseConnection(k) PROVE HolderInv'
<1>1. /\ held[k] # NoConn /\ held' = [held EXCEPT ![k] = NoConn]
      /\ asking' = asking /\ race' = [race EXCEPT ![k] = "over"]
      /\ abandoned' = abandoned /\ stranded' \subseteq stranded \cup {held[k]}
  BY Zenon DEF CloseConnection, Lease!Return
<1> QED
  BY <1>1 DEF HolderInv, OneHolder, Race

\* Every step keeps it.
LEMMA HolderStep == ASSUME HolderInv, [Next]_vars PROVE HolderInv'
<1>1. ASSUME NEW k \in Calls, Refuse(k) PROVE HolderInv'
  <2>1. /\ k \in asking /\ asking' = asking \ {k} /\ held' = held
        /\ race' = [race EXCEPT ![k] = "over"]
        /\ abandoned' = abandoned /\ stranded' = stranded
    BY Zenon, <1>1 DEF Refuse, Lease!TurnAway, lostVars
  <2> QED
    BY <2>1 DEF HolderInv, OneHolder, Race
<1>2. ASSUME NEW k \in Calls, RaceTimeout(k) PROVE HolderInv'
  <2>1. /\ race[k] = "racing" /\ asking' = asking /\ held' = held
        /\ race' = [race EXCEPT ![k] = "over"]
        /\ abandoned' = abandoned /\ stranded' = stranded
    BY Zenon, <1>2 DEF RaceTimeout, lostVars
  <2> QED
    BY <2>1 DEF HolderInv, OneHolder, Race
<1>3. ASSUME UNCHANGED <<callVars, lostVars>> PROVE HolderInv'
  BY <1>3 DEF callVars, lostVars, HolderInv, OneHolder
<1>4. ASSUME NEW o \in Owners, OwnerStep(o) PROVE UNCHANGED <<callVars, lostVars>>
  BY Zenon, <1>4
  DEF OwnerStep, StartInit, FinishInit, DrainPool, Drained, Cleared, DrainFailed
<1>5. UNCHANGED vars => UNCHANGED <<callVars, lostVars>>
  BY Zenon DEF vars
<1> QED
  BY Zenon, <1>1, <1>2, <1>3, <1>4, <1>5, GetConnectionHolders, GrantHolders,
     CloseConnectionHolders DEF Next, CallStep

\* A connection has at most one holder, and is not lost while it has one, also
\* while several init() and drainPool() calls overlap and pools come and go.
THEOREM OneHolderEach == Spec => [](HolderInv /\ OneHolder)
<1>1. Init => HolderInv
  BY DEF Init, Lease!Init, HolderInv, OneHolder, Race
<1>2. HolderInv => OneHolder
  BY DEF HolderInv
<1> QED
  BY <1>1, <1>2, HolderStep, PTL DEF Spec

=============================================================================
