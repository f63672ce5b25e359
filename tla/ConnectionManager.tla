------------------------- MODULE ConnectionManager -------------------------
(***************************************************************************)
(* The connection manager, src/src/db/connection-manager.ts, and the part  *)
(* of the client, src/src/db/client.ts, that gets, closes and drains        *)
(* connections: two objects that share one connection state and one pool   *)
(* manager, each with its own list of active connections.                  *)
(*                                                                         *)
(* Every step that calls the pool manager is a step of PoolManager; the    *)
(* code after the await is a step of its own, because anything may happen   *)
(* in between.  A call goes from getConnection() to the end of             *)
(* closeConnection(), on the route it entered by.                          *)
(***************************************************************************)
EXTENDS Naturals, FiniteSets, SequencesExt, ConnectionStates

CONSTANTS Calls, Owners, MaxPools, PoolConns, DrainMayFail,
  MaxReconnectAttempts   \* config.retry.maxReconnectAttempts

ASSUME ConnectionsAssumption ==
  /\ IsFiniteSet(Calls)
  /\ MaxPools \in Nat /\ PoolConns \in Nat
  /\ DrainMayFail \in BOOLEAN
  /\ MaxReconnectAttempts \in Nat

VARIABLES
  poolInitialized, pool, created, drained, cleared, asking, wants, held, race,
  abandoned, stranded, owner, target,   \* the pool manager
  connectionState,   \* state.connectionState
  managerList,       \* ConnectionManager.activeConnections
  clientList,        \* Client.activeConnectionsList
  attempts,          \* Client.currentReconnectAttempts
  step,              \* where each call stands
  route,             \* the operation a call entered by
  mine,              \* the connection a call works with
  job                \* the operation an owner runs

PM == INSTANCE PoolManager

managerVars == <<poolInitialized, pool, created, drained, cleared, asking, wants,
                 held, race, abandoned, stranded, owner, target>>
listVars  == <<managerList, clientList>>
stepVars  == <<step, route, mine>>
vars == <<managerVars, connectionState, listVars, attempts, stepVars, job>>

State == {"DISCONNECTED", "INITIALIZING", "CONNECTING", "AUTHENTICATING",
          "CONNECTED", "DISCONNECTING", "ERROR", "RECONNECTING"}
Step  == {"idle", "polling", "waiting", "rejected", "holding", "closing", "sleeping",
          "leaked"}
Route == {"none", "manager", "fromPool", "client", "reconnect", "retry"}
Job   == {"none", "init", "disconnect", "destroy"}

ManagerRoutes == {"manager", "fromPool"}
ClientRoutes  == Route \ ManagerRoutes

\* What each variable ranges over; POOL_DRAINING, POOL_DRAINED and AUTH_FAILED
\* are asked for but never reached.
TypeOK ==
  /\ PM!TypeOK
  /\ connectionState \in State
  /\ managerList \in Seq(PM!Conns)
  /\ clientList \in Seq(PM!Conns)
  /\ attempts \in 0..(MaxReconnectAttempts + 1)
  /\ step \in [Calls -> Step]
  /\ route \in [Calls -> Route]
  /\ mine \in [Calls -> PM!Conns \cup {PM!NoConn}]
  /\ job \in [Owners -> Job]

Init ==
  /\ PM!Init
  /\ connectionState = "DISCONNECTED"
  /\ managerList = <<>> /\ clientList = <<>>
  /\ attempts = 0
  /\ step = [k \in Calls |-> "idle"]
  /\ route = [k \in Calls |-> "none"]
  /\ mine = [k \in Calls |-> PM!NoConn]
  /\ job = [o \in Owners |-> "none"]

-----------------------------------------------------------------------------
(* setState                                                                *)

SetState(to) == connectionState' = Moved(connectionState, to)

-----------------------------------------------------------------------------
(* getConnection, on its different routes                                  *)

Enter(k, r) ==
  /\ step[k] = "idle"
  /\ route' = [route EXCEPT ![k] = r]

\* The call has ended: its slot is as new.
Leave(k) ==
  /\ step' = [step EXCEPT ![k] = "idle"]
  /\ route' = [route EXCEPT ![k] = "none"]
  /\ mine' = [mine EXCEPT ![k] = PM!NoConn]

\* The call to PoolManager.getConnection().
AskPool(k) ==
  /\ PM!GetConnection(k)
  /\ step' = [step EXCEPT ![k] = "waiting"]

\* The call throws before it has asked for anything: the connection state and the
\* pool stay as they are.
RejectAtOnce(k) ==
  /\ step' = [step EXCEPT ![k] = "rejected"]
  /\ UNCHANGED <<managerVars, connectionState>>

\* ConnectionManager.getConnection().
GetConnection(k) ==
  /\ Enter(k, "manager")
  /\ IF poolInitialized
       THEN /\ IF connectionState \in {"CONNECTED", "AUTHENTICATING"}
                 THEN UNCHANGED connectionState
                 ELSE SetState("CONNECTING")
            /\ AskPool(k)
       ELSE RejectAtOnce(k)
  /\ UNCHANGED <<listVars, attempts, mine, job>>

\* ConnectionManager.getConnectionFromPool().
GetConnectionFromPool(k) ==
  /\ Enter(k, "fromPool")
  /\ IF poolInitialized /\ connectionState = "CONNECTED"
       THEN SetState("INITIALIZING") /\ AskPool(k)
       ELSE RejectAtOnce(k)
  /\ UNCHANGED <<listVars, attempts, mine, job>>

\* The caller has the error.
Rejected(k) ==
  /\ step[k] = "rejected"
  /\ Leave(k)
  /\ UNCHANGED <<managerVars, connectionState, listVars, attempts, job>>

\* Client.getConnection() polls until the pool is initialized.
AskPoolOrPoll(k) ==
  IF poolInitialized
    THEN AskPool(k)
    ELSE step' = [step EXCEPT ![k] = "polling"] /\ UNCHANGED managerVars

ClientGetConnection(k) ==
  /\ Enter(k, "client")
  /\ AskPoolOrPoll(k)
  /\ UNCHANGED <<connectionState, listVars, attempts, mine, job>>

Poll(k) ==
  /\ step[k] = "polling"
  /\ poolInitialized
  /\ AskPool(k)
  /\ UNCHANGED <<connectionState, listVars, attempts, route, mine, job>>

\* reconnect(), which every executePreparedStatement() and batchUpdate() calls,
\* because nothing ever sets this.connection.
Reconnect(k) ==
  /\ connectionState \notin {"CONNECTED", "RECONNECTING"}
  /\ Enter(k, "reconnect")
  /\ SetState("RECONNECTING")
  /\ AskPoolOrPoll(k)
  /\ UNCHANGED <<listVars, attempts, mine, job>>

\* handleConnectionError() has slept and tries again.
WakeUp(k) ==
  /\ step[k] = "sleeping"
  /\ route' = [route EXCEPT ![k] = "retry"]
  /\ AskPoolOrPoll(k)
  /\ UNCHANGED <<connectionState, listVars, attempts, mine, job>>

Won(k)  == step[k] = "waiting" /\ race[k] = "won"
Lost(k) == step[k] = "waiting" /\ race[k] = "over"

\* The pool manager has answered the connection manager with a connection.
Acquired(k) ==
  /\ Won(k) /\ route[k] \in ManagerRoutes
  /\ managerList' = Append(managerList, held[k])
  /\ mine' = [mine EXCEPT ![k] = held[k]]
  /\ step' = [step EXCEPT ![k] = "holding"]
  /\ IF route[k] = "fromPool"
       THEN SetState("CONNECTED") ELSE UNCHANGED connectionState
  /\ UNCHANGED <<managerVars, clientList, attempts, route, job>>

\* It has answered the client.  The connection of a retry is put on the list and
\* forgotten, and reconnect() ends in ERROR.
ClientAcquired(k) ==
  /\ Won(k) /\ route[k] \in ClientRoutes
  /\ clientList' = Append(clientList, held[k])
  /\ mine' = [mine EXCEPT ![k] = held[k]]
  /\ IF route[k] = "retry"
       THEN SetState("ERROR") /\ step' = [step EXCEPT ![k] = "leaked"]
       ELSE step' = [step EXCEPT ![k] = "holding"] /\ UNCHANGED connectionState
  /\ UNCHANGED <<managerVars, managerList, attempts, route, job>>

SilentFailureMutant(k) ==
  /\ Lost(k) /\ route[k] # "reconnect"
  /\ Leave(k)
  /\ UNCHANGED <<managerVars, connectionState, listVars, attempts, job>>

\* The pool manager has rejected the call.
Failed(k) ==
  /\ Lost(k) /\ route[k] # "reconnect"
  /\ IF route[k] = "fromPool" THEN UNCHANGED connectionState ELSE SetState("ERROR")
  /\ Leave(k)
  /\ UNCHANGED <<managerVars, listVars, attempts, job>>

\* It has rejected the call of a reconnect(): handleConnectionError() counts, and
\* sleeps or gives up.  The counter is never reset.
ReconnectFailed(k) ==
  /\ Lost(k) /\ route[k] = "reconnect"
  /\ SetState("ERROR")
  /\ attempts' = IF attempts <= MaxReconnectAttempts THEN attempts + 1 ELSE attempts
  /\ IF attempts' > MaxReconnectAttempts
       THEN Leave(k)
       ELSE step' = [step EXCEPT ![k] = "sleeping"] /\ UNCHANGED <<route, mine>>
  /\ UNCHANGED <<managerVars, listVars, job>>

-----------------------------------------------------------------------------
(* closeConnection                                                         *)

\* ConnectionManager.closeConnection(), up to its await.
CloseConnection(k) ==
  /\ step[k] = "holding" /\ route[k] \in ManagerRoutes
  /\ SetState("DISCONNECTING")
  /\ PM!CloseConnection(k)
  /\ step' = [step EXCEPT ![k] = "closing"]
  /\ UNCHANGED <<listVars, attempts, route, mine, job>>

\* Client.closeConnection(), up to its await.
ClientCloseConnection(k) ==
  /\ step[k] = "holding" /\ route[k] \in ClientRoutes
  /\ PM!CloseConnection(k)
  /\ step' = [step EXCEPT ![k] = "closing"]
  /\ UNCHANGED <<connectionState, listVars, attempts, route, mine, job>>

WithoutMutant(list, r) == SelectSeq(list, LAMBDA s : s # r)

\* indexOf and splice.  By now the connection may be a second time on the list,
\* for the call it was handed to.
Without(list, r) ==
  IF r \in ToSet(list)
    THEN RemoveAt(list, CHOOSE i \in DOMAIN list :
                          list[i] = r /\ \A j \in 1..(i - 1) : list[j] # r)
    ELSE list

\* The rest of ConnectionManager.closeConnection().
Closed(k) ==
  /\ step[k] = "closing" /\ route[k] \in ManagerRoutes
  /\ managerList' = Without(managerList, mine[k])
  /\ SetState(IF managerList' = <<>> THEN "DISCONNECTED" ELSE "CONNECTED")
  /\ Leave(k)
  /\ UNCHANGED <<managerVars, clientList, attempts, job>>

\* The rest of Client.closeConnection(), and of the reconnect() that called it.
ClientClosed(k) ==
  /\ step[k] = "closing" /\ route[k] \in ClientRoutes
  /\ clientList' = Without(clientList, mine[k])
  /\ IF route[k] = "reconnect" THEN SetState("CONNECTED") ELSE UNCHANGED connectionState
  /\ Leave(k)
  /\ UNCHANGED <<managerVars, managerList, attempts, job>>

-----------------------------------------------------------------------------
(* The life of the pool                                                    *)

Start(o, j) ==
  /\ job[o] = "none"
  /\ job' = [job EXCEPT ![o] = j]
  /\ UNCHANGED <<listVars, attempts, stepVars>>

\* Db2Module.init() starts PoolManager.init(), which authenticates first.
InitModule(o) ==
  /\ Start(o, "init")
  /\ PM!StartInit(o)
  /\ IF poolInitialized \/ connectionState = "CONNECTED"
       THEN UNCHANGED connectionState
       ELSE SetState("AUTHENTICATING")

\* PoolManager.init() is done and Client.init() finds the pool.
ClientInit(o) ==
  /\ job[o] = "init" /\ PM!Ready(o)
  /\ poolInitialized
  /\ SetState("CONNECTED")
  /\ job' = [job EXCEPT ![o] = "none"]
  /\ UNCHANGED <<managerVars, listVars, attempts, stepVars>>

\* ConnectionManager.init(), a synchronous check of the flag.
ManagerInit ==
  /\ connectionState' = Moved(Moved(connectionState, "INITIALIZING"),
                              IF poolInitialized THEN "CONNECTED" ELSE "ERROR")
  /\ UNCHANGED <<managerVars, listVars, attempts, stepVars, job>>

\* ConnectionManager.disconnect(), or drainPool(), which does the same.
Disconnect(o) ==
  /\ connectionState # "DISCONNECTED"
  /\ Start(o, "disconnect")
  /\ SetState("DISCONNECTING")
  /\ PM!DrainPool(o)

\* Client.destroy(), up to the await in drainPool().
Destroy(o) ==
  /\ Start(o, "destroy")
  /\ SetState("POOL_DRAINING")
  /\ PM!DrainPool(o)

DrainingJob(o) == job[o] \in {"disconnect", "destroy"} /\ PM!Ready(o)

DisconnectedEarlyMutant(o) ==
  /\ DrainingJob(o) /\ owner[o] = "done"
  /\ job' = [job EXCEPT ![o] = "none"]
  /\ UNCHANGED <<managerVars, connectionState, listVars, attempts, stepVars>>

\* PoolManager.drainPool() has succeeded.
DrainDone(o) ==
  /\ DrainingJob(o) /\ owner[o] = "done"
  /\ job' = [job EXCEPT ![o] = "none"]
  /\ IF job[o] = "destroy"
       THEN connectionState' = Moved(Moved(connectionState, "POOL_DRAINED"), "DISCONNECTED")
       ELSE SetState("DISCONNECTED")
  /\ UNCHANGED <<managerVars, listVars, attempts, stepVars>>

\* It has failed; the client swallows the error and goes on.
DrainFailed(o) ==
  /\ DrainingJob(o) /\ owner[o] = "failed"
  /\ job' = [job EXCEPT ![o] = "none"]
  /\ IF job[o] = "destroy"
       THEN connectionState' = Moved(Moved(connectionState, "ERROR"), "DISCONNECTED")
       ELSE SetState("ERROR")
  /\ UNCHANGED <<managerVars, listVars, attempts, stepVars>>

-----------------------------------------------------------------------------

\* A step of the pools or inside the pool manager.
PoolStep ==
  /\ \/ \E k \in Calls, r \in PM!Conns : PM!Grant(k, r)
     \/ \E k \in Calls : PM!Refuse(k) \/ PM!RaceTimeout(k)
     \/ \E o \in Owners : \/ PM!FinishInit(o) \/ PM!Drained(o)
                          \/ PM!Cleared(o) \/ PM!DrainFailed(o)
  /\ UNCHANGED <<connectionState, listVars, attempts, stepVars, job>>

CallStep(k) ==
  \/ GetConnection(k)
  \/ GetConnectionFromPool(k)
  \/ ClientGetConnection(k)
  \/ Rejected(k)
  \/ Poll(k)
  \/ Reconnect(k)
  \/ WakeUp(k)
  \/ Acquired(k)
  \/ ClientAcquired(k)
  \/ Failed(k)
  \/ ReconnectFailed(k)
  \/ CloseConnection(k)
  \/ ClientCloseConnection(k)
  \/ Closed(k)
  \/ ClientClosed(k)

OwnerStep(o) ==
  \/ InitModule(o)
  \/ ClientInit(o)
  \/ Disconnect(o)
  \/ Destroy(o)
  \/ DrainDone(o)
  \/ DrainFailed(o)

Next ==
  \/ PoolStep
  \/ \E k \in Calls : CallStep(k)
  \/ \E o \in Owners : OwnerStep(o)
  \/ ManagerInit

Spec == Init /\ [][Next]_vars

-----------------------------------------------------------------------------
(* Safety                                                                  *)

Entries(list, r) == Cardinality({i \in DOMAIN list : list[i] = r})

Users(routes, r) ==
  Cardinality({k \in Calls : /\ route[k] \in routes
                             /\ step[k] \in {"holding", "closing", "leaked"}
                             /\ mine[k] = r})

\* Each list of active connections has one entry for every caller that has the
\* connection or is giving it back, also while a connection that was handed on
\* at once is on the list twice, and after a drain.
ActiveMatchesUsers ==
  \A r \in PM!Conns :
    /\ Entries(managerList, r) = Users(ManagerRoutes, r)
    /\ Entries(clientList, r) = Users(ClientRoutes, r)

\* Both lists hold nothing but connections of the pools, and what they should.
ConnectionInv == TypeOK /\ ActiveMatchesUsers

\* Two states refuse the transitions that getConnection() and most operations
\* ask for, so somebody must be left to end them: AUTHENTICATING lasts no longer
\* than an init(), and DISCONNECTING no longer than a drain or until the last
\* caller has closed its connection (a drain that fails cannot leave it).
TransientStateHasWayOut ==
  /\ connectionState = "AUTHENTICATING" => \E o \in Owners : job[o] = "init"
  /\ connectionState = "DISCONNECTING" /\ ~DrainMayFail =>
       \/ \E k \in Calls : route[k] \in ManagerRoutes /\ step[k] \in {"holding", "closing"}
       \/ \E o \in Owners : job[o] = "disconnect"

\* A failure of the pool is never covered up: when the pool manager has rejected
\* the acquisition of a getConnection(), or a disconnect() has failed to drain, the
\* state is neither CONNECTED, which lets a transaction begin, nor DISCONNECTED,
\* whatever the other operations have made of it meanwhile.  It says nothing of
\* getConnectionFromPool(), and nothing of a call rejected at once because there is
\* no pool, which leaves the state alone: CONNECTED, after a destroy().
FailureShows ==
  [][\/ \E k \in Calls : step[k] = "waiting" /\ step'[k] \in {"idle", "sleeping"}
                          /\ route[k] # "fromPool"
     \/ \E o \in Owners : job[o] = "disconnect" /\ job'[o] = "none" /\ owner[o] = "failed"
     => connectionState' \notin {"CONNECTED", "DISCONNECTED"}]_vars

\* "Disconnects from the DB2 pool by draining the pool manager. Sets the
\* connection state to DISCONNECTED upon successful disconnection."
\* (connection-manager.ts)
DisconnectDisconnects ==
  [][\A o \in Owners :
       job[o] = "disconnect" /\ owner[o] = "done" /\ job'[o] = "none"
         => connectionState' = "DISCONNECTED"]_vars

=============================================================================
