---------------------------- MODULE PoolManager ----------------------------
(***************************************************************************)
(* The pool manager, src/src/db/pool.manager.ts: it creates the pool, hands *)
(* its connections out against a timer, and drains it; after a drain a new *)
(* init() creates a new pool.                                              *)
(*                                                                         *)
(* The pools are numbered in the order of their creation; each of them is  *)
(* the service of ConnectionLease, which module Pool implements.  A call is *)
(* one getConnection() with the connection it may win, an owner one        *)
(* init() or drainPool().  A connection is named <<its pool, its number>>. *)
(***************************************************************************)
EXTENDS Naturals

CONSTANTS
  Calls,         \* slots for getConnection() calls
  Owners,        \* slots for init() and drainPool() calls
  MaxPools,      \* bound: how many pools are ever created
  PoolConns,     \* bound: how many connections a pool opens
  DrainMayFail   \* a close() of a drain may reject

ASSUME PoolManagerAssumption ==
  /\ MaxPools \in Nat
  /\ PoolConns \in Nat
  /\ DrainMayFail \in BOOLEAN

VARIABLES
  poolInitialized,  \* this.poolInitialized
  pool,             \* this.pool, 0 while it is undefined
  created,          \* how many pools were created
  drained,          \* the pools whose drain() was called
  cleared,          \* the pools whose clear() has completed
  asking,           \* the calls whose pool.acquire() is pending
  wants,            \* the pool each call asks
  held,             \* the connection each caller was handed
  race,             \* the Promise.race of each call: it runs, it was won, or it
                    \* is over (lost, given back, never started)
  abandoned,        \* connections granted to an acquire() nobody awaits
  stranded,         \* connections whose release never reached their pool
  owner,            \* where each owner's init() or drainPool() stands; "done"
                    \* also before the first
  target            \* the pool an owner's drain() or clear() works on

flagVars   == <<poolInitialized, pool, created>>
poolVars   == <<drained, cleared>>
callVars   == <<asking, wants, held, race>>
lostVars   == <<abandoned, stranded>>
ownerVars  == <<owner, target>>
vars == <<flagVars, poolVars, callVars, lostVars, ownerVars>>

NoPool == 0
NoConn == <<NoPool, 0>>
Pools  == 1..MaxPools
Conns  == Pools \X (1..PoolConns)
Home(r) == r[1]

Race  == {"over", "racing", "won"}
Phase == {"authenticating", "draining", "clearing", "done", "failed"}

\* What each variable ranges over.
TypeOK ==
  /\ poolInitialized \in BOOLEAN
  /\ created \in 0..MaxPools
  /\ pool \in 0..created
  /\ drained \subseteq 1..created
  /\ cleared \subseteq 1..created
  /\ asking \subseteq Calls
  /\ wants \in [Calls -> 0..MaxPools]
  /\ held \in [Calls -> Conns \cup {NoConn}]
  /\ race \in [Calls -> Race]
  /\ abandoned \subseteq Conns
  /\ stranded \subseteq Conns
  /\ owner \in [Owners -> Phase]
  /\ target \in [Owners -> 0..MaxPools]

\* The pools' promise to the manager.
Lease == INSTANCE ConnectionLease WITH Clients <- Calls

Init ==
  /\ poolInitialized = FALSE /\ pool = NoPool /\ created = 0
  /\ drained = {} /\ cleared = {}
  /\ Lease!Init
  /\ wants = [k \in Calls |-> NoPool]
  /\ race = [k \in Calls |-> "over"]
  /\ abandoned = {} /\ stranded = {}
  /\ owner = [o \in Owners |-> "done"]
  /\ target = [o \in Owners |-> NoPool]

-----------------------------------------------------------------------------
(* init                                                                    *)

Ready(o) == owner[o] \in {"done", "failed"}
Busy(o)  == ~Ready(o)

Authenticating == {o \in Owners : owner[o] = "authenticating"}

StartInitMutant(o) ==
  /\ Ready(o)
  /\ created < MaxPools
  /\ owner' = [owner EXCEPT ![o] = "authenticating"]
  /\ UNCHANGED <<flagVars, poolVars, callVars, lostVars, target>>

\* init() of an initialized manager returns at once; otherwise it awaits the
\* authentication.
StartInit(o) ==
  /\ Ready(o)
  /\ created < MaxPools
  /\ owner' = [owner EXCEPT ![o] =
                 IF poolInitialized THEN "done" ELSE "authenticating"]
  /\ UNCHANGED <<flagVars, poolVars, callVars, lostVars, target>>

\* The authentication is done: a pool is created, whatever happened meanwhile.
FinishInit(o) ==
  /\ owner[o] = "authenticating"
  /\ created < MaxPools
  /\ created' = created + 1
  /\ pool' = created + 1
  /\ poolInitialized' = TRUE
  /\ owner' = [owner EXCEPT ![o] = "done"]
  /\ UNCHANGED <<poolVars, callVars, lostVars, target>>

-----------------------------------------------------------------------------
(* getConnection and closeConnection                                       *)

\* getConnection() starts the race between pool.acquire() and a timer, unless
\* the manager or the pool turns it away at once.
GetConnection(k) ==
  /\ race[k] = "over"
  /\ k \notin asking
  /\ IF poolInitialized /\ pool \notin drained
       THEN /\ Lease!Ask(k)
            /\ wants' = [wants EXCEPT ![k] = pool]
            /\ race' = [race EXCEPT ![k] = "racing"]
       ELSE /\ race' = [race EXCEPT ![k] = "over"]
            /\ UNCHANGED <<asking, held, wants>>
  /\ UNCHANGED <<flagVars, poolVars, lostVars, ownerVars>>

\* The pool grants the request: the race is won, or was lost before.
Grant(k, r) ==
  /\ k \in asking
  /\ Home(r) = wants[k]
  /\ wants' = [wants EXCEPT ![k] = NoPool]
  /\ r \notin abandoned \cup stranded
  /\ IF race[k] = "racing"
       THEN /\ Lease!Grant(k, r)
            /\ race' = [race EXCEPT ![k] = "won"]
            /\ UNCHANGED abandoned
       ELSE /\ r \notin Lease!Taken
            /\ asking' = asking \ {k}
            /\ abandoned' = abandoned \cup {r}
            /\ UNCHANGED <<held, race>>
  /\ UNCHANGED <<flagVars, poolVars, stranded, ownerVars>>

\* The pool rejects the request: its timer, a full queue, a failed creation, or
\* a clear().
Refuse(k) ==
  /\ k \in asking
  /\ Lease!TurnAway({k})
  /\ wants' = [wants EXCEPT ![k] = NoPool]
  /\ race' = [race EXCEPT ![k] = "over"]
  /\ UNCHANGED <<flagVars, poolVars, lostVars, ownerVars>>

\* The manager's own timer goes off first; the request stays with the pool.
RaceTimeout(k) ==
  /\ race[k] = "racing"
  /\ race' = [race EXCEPT ![k] = "over"]
  /\ UNCHANGED <<flagVars, poolVars, asking, wants, held, lostVars, ownerVars>>

\* closeConnection() and releaseConnection() go to the manager's present pool,
\* and nowhere when it has none.  init() gives its pools neither a validation
\* function nor an idle check, so the release() of one of them does not reject.
CloseConnection(k) ==
  /\ race[k] = "won"
  /\ Lease!Return(k)
  /\ race' = [race EXCEPT ![k] = "over"]
  /\ stranded' = IF poolInitialized /\ Home(held[k]) = pool
                   THEN stranded ELSE stranded \cup {held[k]}
  /\ UNCHANGED <<flagVars, poolVars, wants, abandoned, ownerVars>>

-----------------------------------------------------------------------------
(* drainPool                                                               *)

DrainPoolMutant(o) ==
  /\ Ready(o)
  /\ pool # NoPool
  /\ poolInitialized' = FALSE
  /\ owner' = [owner EXCEPT ![o] = "draining"]
  /\ drained' = drained \cup {pool}
  /\ target' = [target EXCEPT ![o] = pool]
  /\ UNCHANGED <<pool, created, cleared, callVars, lostVars>>

\* drainPool() calls drain() of the pool, and throws if there never was one.
DrainPool(o) ==
  /\ Ready(o)
  /\ IF pool = NoPool
       THEN owner' = [owner EXCEPT ![o] = "failed"]
              /\ UNCHANGED <<drained, target>>
       ELSE /\ owner' = [owner EXCEPT ![o] = "draining"]
            /\ drained' = drained \cup {pool}
            /\ target' = [target EXCEPT ![o] = pool]
  /\ UNCHANGED <<flagVars, cleared, callVars, lostVars>>

\* drain() is done: clear() is called on the pool the manager has by then.
Drained(o) ==
  /\ owner[o] = "draining"
  /\ owner' = [owner EXCEPT ![o] = "clearing"]
  /\ cleared' = cleared \cup {target[o]}
  /\ target' = [target EXCEPT ![o] = pool]
  /\ UNCHANGED <<flagVars, drained, callVars, lostVars>>

\* clear() is done: the manager has no pool any more.
Cleared(o) ==
  /\ owner[o] = "clearing"
  /\ owner' = [owner EXCEPT ![o] = "done"]
  /\ cleared' = cleared \cup {target[o]}
  /\ target' = [target EXCEPT ![o] = NoPool]
  /\ poolInitialized' = FALSE
  /\ UNCHANGED <<pool, created, drained, callVars, lostVars>>

\* A close() rejects: the error is rethrown and the flag stays set.
DrainFailed(o) ==
  /\ DrainMayFail
  /\ owner[o] \in {"draining", "clearing"}
  /\ owner' = [owner EXCEPT ![o] = "failed"]
  /\ target' = [target EXCEPT ![o] = NoPool]
  /\ UNCHANGED <<flagVars, poolVars, callVars, lostVars>>

-----------------------------------------------------------------------------

CallStep(k) ==
  \/ GetConnection(k)
  \/ \E r \in Conns : Grant(k, r)
  \/ Refuse(k)
  \/ RaceTimeout(k)
  \/ CloseConnection(k)

OwnerStep(o) ==
  \/ StartInit(o)
  \/ FinishInit(o)
  \/ DrainPool(o)
  \/ Drained(o)
  \/ Cleared(o)
  \/ DrainFailed(o)

Next ==
  \/ \E k \in Calls : CallStep(k)
  \/ \E o \in Owners : OwnerStep(o)

Spec == Init /\ [][Next]_vars

-----------------------------------------------------------------------------
(* Safety, when init() and drainPool() calls do not overlap.                *)

SingleOwner == \A o, p \in Owners : o = p

\* The pools somebody could still get a connection from.
Live == (1..created) \ cleared

\* A release is dropped only when its pool is gone: as long as a pool is live,
\* closeConnection() finds it, although it goes to whatever this.pool is then
\* and nowhere while poolInitialized is unset.  So the one way to lose a
\* connection of a live pool is to be granted after the race is lost.
StrandedOnlyInCleared == \A r \in stranded : Home(r) \in cleared

\* There is never a second live pool, and a live pool is always one the manager
\* says it has, also after a drain that failed and while an init() awaits: no pool
\* goes on serving requests that nobody can drain or give a connection back to.
OneLivePool ==
  /\ Live \subseteq {pool}
  /\ Live # {} => poolInitialized

\* What makes them inductive: this.pool is the newest pool, if any; a drain works on it
\* to its end, an init() that awaits found no pool, and requests and connections
\* belong to pools that exist.
ManagerInv ==
  /\ TypeOK
  /\ pool = created
  /\ poolInitialized => pool # NoPool
  /\ \A o \in Owners : owner[o] \in {"draining", "clearing"} =>
                        target[o] = pool /\ pool # NoPool
  /\ \A o \in Owners : owner[o] = "authenticating" => ~poolInitialized
  /\ \A k \in asking : wants[k] \in 1..created /\ held[k] = NoConn
  /\ \A k \in Calls : held[k] # NoConn => Home(held[k]) \in 1..created
  /\ \A k \in Calls : race[k] = "won" <=> held[k] # NoConn
  /\ StrandedOnlyInCleared
  /\ OneLivePool

=============================================================================
