------------------------------- MODULE Pool -------------------------------
(***************************************************************************)
(* The connection pool, src/src/db/pool.ts, with the driver calls its      *)
(* factory makes, src/src/db/factory.ts.                                   *)
(*                                                                         *)
(* The pool runs on one JavaScript thread, so a step is one synchronous    *)
(* stretch of code: it starts at a call, a resumed await, a .then callback *)
(* or a timer, and ends at the next await or return.  A client is one      *)
(* outstanding acquire() call and the lease it may win; the caller of the  *)
(* library returns the connection it was handed, once.                     *)
(*                                                                         *)
(* A connection is named by the order in which it was pushed on the        *)
(* resource list.  The list is only appended to and filtered, so list      *)
(* order is numeric order and "the first resource that ..." is a minimum.  *)
(***************************************************************************)
EXTENDS Naturals, FiniteSets, SequencesExt

CONSTANTS
  Clients,             \* slots for outstanding acquire() calls
  MaxPoolSize,         \* options.maxPoolSize
  MinPoolSize,         \* options.minPoolSize
  MaxWaitingClients,   \* options.maxWaitingClients; 0 means "no limit"
  HasValidation,       \* options.validationFunction is set
  HasIdleCheck,        \* options.idleCheckIntervalMillis is set
  CloseMayFail,        \* connection.close() may reject
  MaxOpens             \* bound: how many connections the database ever opens

ASSUME PoolAssumption ==
  /\ MaxPoolSize \in Nat \ {0}
  /\ MinPoolSize \in Nat
  /\ MaxWaitingClients \in Nat
  /\ HasValidation \in BOOLEAN
  /\ HasIdleCheck \in BOOLEAN
  /\ CloseMayFail \in BOOLEAN
  /\ MaxOpens \in Nat

ASSUME ClientsAssumption == "initialize" \notin Clients

VARIABLES
  resources,    \* this.resources: the connections on the pool's list
  inUse,        \* the resources whose inUse flag is set
  unvalidated,  \* history: the resources whose validation function rejected
  waiting,      \* this.waitingClients, oldest first
  draining,     \* this.draining
  idleTimer,    \* this.idleCheckInterval is running
  toCreate,     \* iterations initialize() has left
  initCreating, \* initialize() awaits a createResource()
  status,       \* where each client's acquire/release cycle stands
  lease,        \* the connection a client was handed, NoConn if none
  opened,       \* how many connections were ever opened
  open,         \* the connections the database still has open
  destroying,   \* connections whose destroy() awaits connection.close()
  closing,      \* connections whose close() a clear() awaits
  drainPhase    \* where drain(); clear() of PoolManager.drainPool stands

poolVars   == <<resources, inUse>>
timerVars  == <<draining, idleTimer, drainPhase>>
initVars   == <<toCreate, initCreating>>
clientVars == <<waiting, status, lease>>
dbVars     == <<opened, open, destroying, closing>>
vars == <<poolVars, unvalidated, timerVars, initVars, clientVars, dbVars>>

NoConn == 0
Conns  == 1..opened
Free   == resources \ inUse
Initializer == "initialize"

Status == {"idle", "creating", "created", "waiting", "leased", "validating",
           "rejected"}
DrainPhase == {"none", "draining", "drained", "clearing", "cleared", "failed"}

\* What each variable ranges over.
TypeOK ==
  /\ opened \in Nat
  /\ resources \subseteq Conns
  /\ inUse \subseteq Conns
  /\ unvalidated \subseteq Conns
  /\ open \subseteq Conns
  /\ destroying \subseteq Conns
  /\ closing \subseteq Conns
  /\ waiting \in Seq(Clients)
  /\ draining \in BOOLEAN
  /\ idleTimer \in BOOLEAN
  /\ toCreate \in 0..MinPoolSize
  /\ initCreating \in BOOLEAN
  /\ status \in [Clients -> Status]
  /\ lease \in [Clients -> Conns \cup {NoConn}]
  /\ drainPhase \in DrainPhase

\* The constructor calls initialize(), which runs up to its first await.
Init ==
  /\ resources = {} /\ inUse = {} /\ unvalidated = {}
  /\ waiting = <<>>
  /\ draining = FALSE /\ idleTimer = HasIdleCheck /\ drainPhase = "none"
  /\ toCreate = MinPoolSize
  /\ initCreating \in BOOLEAN /\ (initCreating <=> MinPoolSize > 0)
  /\ status = [c \in Clients |-> "idle"]
  /\ lease = [c \in Clients |-> NoConn]
  /\ opened = 0 /\ open = {} /\ destroying = {} /\ closing = {}

-----------------------------------------------------------------------------
(* checkWaitingClients.  The definitions named ...Mutant are slips a        *)
(* maintainer could make; each one is shown to break a property.            *)

\* The n-th entry of a list of resources: the one that n-1 others precede.
NthOldest(S, n) == CHOOSE r \in S : Cardinality({s \in S : s < r}) = n - 1

\* How many waiting clients the free resources of a list can serve.
Served(free) ==
  IF Cardinality(free) < Len(waiting) THEN Cardinality(free) ELSE Len(waiting)

\* The first n clients of the queue and the queue without them.
PopMutant(n) ==
  [served |-> SubSeq(waiting, Len(waiting) - n + 1, Len(waiting)),
   left   |-> SubSeq(waiting, 1, Len(waiting) - n)]

Shift(n) ==
  [served |-> SubSeq(waiting, 1, n),
   left   |-> SubSeq(waiting, n + 1, Len(waiting))]

OverMaxMutant(list) == Cardinality(list) >= MaxPoolSize

OverMax(list) == Cardinality(list) > MaxPoolSize

\* The loop over the list pairs the free resources, in list order, with the
\* waiting clients, in queue order.  A resource handed out while the list is
\* over maxPoolSize is destroyed there and then.  `list' and `used' are the
\* resources and their inUse flags as the loop starts; `st' and `ls' the
\* clients' status and leases.
CheckWaitingClients(list, used, st, ls) ==
  LET free  == list \ used
      n     == Served(free)
      queue == Shift(n)
      given == {NthOldest(free, k) : k \in 1..n}
      Turn(c) == CHOOSE k \in 1..n : queue.served[k] = c
      IsServed(c) == \E k \in 1..n : queue.served[k] = c
  IN  /\ inUse' = used \cup given
      /\ waiting' = queue.left
      /\ status' = [c \in Clients |-> IF IsServed(c) THEN "leased" ELSE st[c]]
      /\ lease' = [c \in Clients |->
                     IF IsServed(c) THEN NthOldest(free, Turn(c)) ELSE ls[c]]
      /\ destroying' = destroying \cup (IF OverMax(list) THEN given ELSE {})

-----------------------------------------------------------------------------
(* initialize and createResource                                           *)

\* initialize() starts its next createResource(), which returns at once when
\* the list is full.
InitializeNext ==
  /\ toCreate > 0 /\ ~initCreating
  /\ IF Cardinality(resources) >= MaxPoolSize
       THEN toCreate' = toCreate - 1 /\ UNCHANGED initCreating
       ELSE initCreating' = TRUE /\ UNCHANGED toCreate
  /\ UNCHANGED <<poolVars, unvalidated, timerVars, clientVars, dbVars>>

\* The calls of createResource() that await factory.create().
Creators ==
  {c \in Clients : status[c] = "creating"} \cup
    (IF initCreating THEN {Initializer} ELSE {})

\* createResource() returns to its caller k: the acquire() whose .then callback
\* is now queued, or the loop of initialize().
AfterCreate(k, st) ==
  IF k = Initializer THEN st ELSE [st EXCEPT ![k] = "created"]

CreateReturns(k) ==
  IF k = Initializer
    THEN initCreating' = FALSE /\ toCreate' = toCreate - 1
    ELSE UNCHANGED initVars

\* ibm_db.open() succeeds: the connection is pushed, whatever the list has
\* become since the size was checked and whether or not the pool is draining.
OpenOk(k) ==
  LET r == opened + 1 IN
  /\ k \in Creators
  /\ opened < MaxOpens
  /\ opened' = r
  /\ open' = open \cup {r}
  /\ resources' = resources \cup {r}
  /\ CheckWaitingClients(resources \cup {r}, inUse, AfterCreate(k, status), lease)
  /\ CreateReturns(k)
  /\ UNCHANGED <<unvalidated, timerVars, closing>>

\* ibm_db.open() fails: createResource() swallows the error.
OpenFail(k) ==
  /\ k \in Creators
  /\ status' = AfterCreate(k, status)
  /\ CreateReturns(k)
  /\ UNCHANGED <<poolVars, unvalidated, timerVars, waiting, lease, dbVars>>

-----------------------------------------------------------------------------
(* acquire                                                                 *)

TakeMutant(c, r) ==
  /\ lease' = [lease EXCEPT ![c] = r]
  /\ status' = [status EXCEPT ![c] = "leased"]
  /\ UNCHANGED inUse

Take(c, r) ==
  /\ inUse' = inUse \cup {r}
  /\ lease' = [lease EXCEPT ![c] = r]
  /\ status' = [status EXCEPT ![c] = "leased"]

QueueHasRoom ==
  MaxWaitingClients = 0 \/ Len(waiting) < MaxWaitingClients

\* acquire(), up to the point where its promise settles or it has to wait.
Acquire(c) ==
  /\ status[c] \in {"idle", "rejected"}
  /\ IF draining
       THEN status' = [status EXCEPT ![c] = "rejected"]
              /\ UNCHANGED <<inUse, lease, waiting>>
     ELSE IF Free # {}
       THEN Take(c, Min(Free)) /\ UNCHANGED waiting
     ELSE IF Cardinality(resources) < MaxPoolSize
       THEN status' = [status EXCEPT ![c] = "creating"]
              /\ UNCHANGED <<inUse, lease, waiting>>
     ELSE IF QueueHasRoom
       THEN /\ waiting' = Append(waiting, c)
            /\ status' = [status EXCEPT ![c] = "waiting"]
            /\ UNCHANGED <<inUse, lease>>
     ELSE status' = [status EXCEPT ![c] = "rejected"]
            /\ UNCHANGED <<inUse, lease, waiting>>
  /\ UNCHANGED <<resources, unvalidated, timerVars, initVars, dbVars>>

\* The .then callback of acquire(): by now any resource may be the first free
\* one, or none.
Created(c) ==
  /\ status[c] = "created"
  /\ IF Free # {}
       THEN Take(c, Min(Free))
       ELSE status' = [status EXCEPT ![c] = "rejected"]
              /\ UNCHANGED <<inUse, lease>>
  /\ UNCHANGED <<resources, waiting, unvalidated, timerVars, initVars, dbVars>>

AcquireTimeoutMutant(c) ==
  /\ c \in ToSet(waiting)
  /\ status' = [status EXCEPT ![c] = "rejected"]
  /\ UNCHANGED <<poolVars, unvalidated, timerVars, initVars, waiting, lease, dbVars>>

\* The acquire timer of a client that still waits.
AcquireTimeout(c) ==
  /\ \E i \in DOMAIN waiting : waiting[i] = c /\ waiting' = RemoveAt(waiting, i)
  /\ status' = [status EXCEPT ![c] = "rejected"]
  /\ UNCHANGED <<poolVars, unvalidated, timerVars, initVars, lease, dbVars>>

-----------------------------------------------------------------------------
(* release                                                                 *)

GiveUp(c) ==
  /\ lease' = [lease EXCEPT ![c] = NoConn]
  /\ status' = [status EXCEPT ![c] = "idle"]

PutBackMutant(c) ==
  /\ inUse' = inUse \ {lease[c]}
  /\ GiveUp(c)
  /\ UNCHANGED <<waiting, destroying>>

\* The end of release(): the flag is cleared and the queue served.
PutBack(c) ==
  CheckWaitingClients(resources, inUse \ {lease[c]},
                      [status EXCEPT ![c] = "idle"],
                      [lease EXCEPT ![c] = NoConn])

\* release() of a leased connection, up to its validation or its end.
Release(c) ==
  /\ status[c] = "leased"
  /\ IF draining
       THEN /\ destroying' = destroying \cup {lease[c]}
            /\ GiveUp(c)
            /\ UNCHANGED <<inUse, waiting>>
     ELSE IF lease[c] \notin resources
       THEN GiveUp(c) /\ UNCHANGED <<inUse, waiting, destroying>>
     ELSE IF HasValidation
       THEN /\ status' = [status EXCEPT ![c] = "validating"]
            /\ UNCHANGED <<inUse, waiting, lease, destroying>>
     ELSE PutBack(c)
  /\ UNCHANGED <<resources, unvalidated, timerVars, initVars, opened, open, closing>>

ValidatedMutant(c) ==
  /\ status[c] = "validating"
  /\ \/ PutBack(c) /\ UNCHANGED unvalidated
     \/ GiveUp(c) /\ UNCHANGED <<inUse, waiting, destroying, unvalidated>>
     \/ /\ unvalidated' = unvalidated \cup {lease[c]}
        /\ GiveUp(c)
        /\ UNCHANGED <<inUse, waiting, destroying>>
  /\ UNCHANGED <<resources, timerVars, initVars, opened, open, closing>>

\* The validation function answers: valid, not valid, or it rejects.  Then so does
\* release(), and the resource stays listed and in use for good.  Neither
\* `draining' nor the list is looked at again.
Validated(c) ==
  /\ status[c] = "validating"
  /\ \/ PutBack(c) /\ UNCHANGED unvalidated
     \/ /\ destroying' = destroying \cup {lease[c]}
        /\ GiveUp(c)
        /\ UNCHANGED <<inUse, waiting, unvalidated>>
     \/ /\ unvalidated' = unvalidated \cup {lease[c]}
        /\ GiveUp(c)
        /\ UNCHANGED <<inUse, waiting, destroying>>
  /\ UNCHANGED <<resources, timerVars, initVars, opened, open, closing>>

-----------------------------------------------------------------------------
(* destroy and checkIdleResources                                          *)

\* The idle timer: any set of free resources may have expired.  They stay on
\* the list, free, while their close() is awaited.
CheckIdleResources ==
  /\ idleTimer
  /\ \E expired \in SUBSET Free \ {{}} : destroying' = destroying \cup expired
  /\ UNCHANGED <<poolVars, unvalidated, timerVars, initVars, clientVars, opened, open,
                 closing>>

\* close() succeeds: the resource leaves the list, whoever holds it.
DestroyOk(r) ==
  /\ r \in destroying
  /\ destroying' = destroying \ {r}
  /\ open' = open \ {r}
  /\ resources' = resources \ {r}
  /\ inUse' = inUse \ {r}
  /\ UNCHANGED <<unvalidated, timerVars, initVars, clientVars, opened, closing>>

\* close() rejects: the error is reported and the resource stays as it was.
DestroyFail(r) ==
  /\ CloseMayFail
  /\ r \in destroying
  /\ destroying' = destroying \ {r}
  /\ UNCHANGED <<poolVars, unvalidated, timerVars, initVars, clientVars, opened, open,
                 closing>>

-----------------------------------------------------------------------------
(* drain and clear                                                         *)

\* drain() raises the flag and clear() starts to close every listed resource.
BeginDrain ==
  /\ drainPhase \in {"none", "failed"}
  /\ draining' = TRUE
  /\ drainPhase' = "draining"
  /\ closing' = closing \cup resources
  /\ UNCHANGED <<poolVars, unvalidated, idleTimer, initVars, clientVars, opened, open,
                 destroying>>

\* The second clear() that PoolManager.drainPool makes.
BeginClear ==
  /\ drainPhase = "drained"
  /\ drainPhase' = "clearing"
  /\ closing' = closing \cup resources
  /\ UNCHANGED <<poolVars, unvalidated, draining, idleTimer, initVars, clientVars, opened,
                 open, destroying>>

CloseOk(r) ==
  /\ r \in closing
  /\ closing' = closing \ {r}
  /\ open' = open \ {r}
  /\ UNCHANGED <<poolVars, unvalidated, timerVars, initVars, clientVars, opened, destroying>>

\* One close() that rejects makes the whole clear() reject: the list and the
\* queue are kept and `draining' stays set.
CloseFail(r) ==
  /\ CloseMayFail
  /\ r \in closing
  /\ closing' = closing \ {r}
  /\ drainPhase' = "failed"
  /\ UNCHANGED <<poolVars, unvalidated, draining, idleTimer, initVars, clientVars, opened,
                 open, destroying>>

ClearedForgetsMutant ==
  /\ drainPhase \in {"draining", "clearing"}
  /\ closing = {}
  /\ drainPhase' = IF drainPhase = "draining" THEN "drained" ELSE "cleared"
  /\ idleTimer' = FALSE
  /\ resources' = {} /\ inUse' = {} /\ waiting' = <<>>
  /\ UNCHANGED <<unvalidated, draining, initVars, status, lease, dbVars>>

ClearedWhenUnusedMutant ==
  /\ drainPhase \in {"draining", "clearing"}
  /\ closing = {} /\ inUse = {}
  /\ drainPhase' = IF drainPhase = "draining" THEN "drained" ELSE "cleared"
  /\ idleTimer' = FALSE
  /\ resources' = {} /\ inUse' = {} /\ waiting' = <<>>
  /\ status' = [c \in Clients |->
                  IF status[c] = "waiting" THEN "rejected" ELSE status[c]]
  /\ UNCHANGED <<unvalidated, draining, initVars, lease, dbVars>>

\* Every close() of a clear() is done: the list is dropped, with what was pushed
\* on it meanwhile, and every waiting client is rejected.
Cleared ==
  /\ drainPhase \in {"draining", "clearing"}
  /\ closing = {}
  /\ drainPhase' = IF drainPhase = "draining" THEN "drained" ELSE "cleared"
  /\ idleTimer' = FALSE
  /\ resources' = {}
  /\ inUse' = {}
  /\ waiting' = <<>>
  /\ status' = [c \in Clients |->
                  IF status[c] = "waiting" THEN "rejected" ELSE status[c]]
  /\ UNCHANGED <<unvalidated, draining, initVars, lease, dbVars>>

-----------------------------------------------------------------------------

ClientStep(c) ==
  \/ Acquire(c)
  \/ Created(c)
  \/ AcquireTimeout(c)
  \/ Release(c)
  \/ Validated(c)

CreateStep(k) == OpenOk(k) \/ OpenFail(k)

CloseStep(r) ==
  \/ DestroyOk(r)
  \/ DestroyFail(r)
  \/ CloseOk(r)
  \/ CloseFail(r)

Next ==
  \/ InitializeNext
  \/ \E c \in Clients : ClientStep(c)
  \/ \E k \in Clients \cup {Initializer} : CreateStep(k)
  \/ CheckIdleResources
  \/ \E r \in Conns : CloseStep(r)
  \/ BeginDrain
  \/ BeginClear
  \/ Cleared

Spec == Init /\ [][Next]_vars

-----------------------------------------------------------------------------
(* Fairness.  Node runs a queued callback, the driver answers every open(),  *)
(* close() and validation query it was sent, and a running iteration of      *)
(* initialize() continues.  Nothing obliges a client to acquire or release,  *)
(* the owner to drain, or the idle timer to find something expired.          *)

FairSpec ==
  /\ Spec
  /\ WF_vars(InitializeNext)
  /\ WF_vars(Cleared)
  /\ WF_vars(BeginClear)
  /\ \A k \in Clients \cup {Initializer} : WF_vars(CreateStep(k))
  /\ \A c \in Clients : WF_vars(Created(c)) /\ WF_vars(Validated(c))
  /\ \A r \in 1..MaxOpens :
       /\ WF_vars(DestroyOk(r) \/ DestroyFail(r))
       /\ WF_vars(CloseOk(r) \/ CloseFail(r))

-----------------------------------------------------------------------------
(* Safety                                                                  *)

Holds(c) == lease[c] # NoConn

Pending(c) == status[c] \in {"creating", "created", "waiting"}
Asking == {c \in Clients : Pending(c)}

\* No two clients are ever handed the same connection, and a connection a
\* client holds is flagged in use for as long as it is on the list: the inUse
\* flags that acquire(), createResource().then and checkWaitingClients() test
\* and set are a lock, although none of them looks at who holds what.
ExclusiveLease ==
  /\ \A c, d \in Clients : c # d /\ Holds(c) => lease[c] # lease[d]
  /\ \A c \in Clients : lease[c] \in resources => lease[c] \in inUse

\* No wake-up is lost: while a client waits in the queue no resource on the
\* list is free, so whoever makes one free (release, a validation, a new
\* connection) has served the queue in the same step, also during a drain.
NoLostWakeup == waiting # <<>> => Free = {}

\* The clients in the queue are those whose acquire() is pending on it, each
\* once: the timer, the hand-over and clear() each settle a client and remove
\* it together, so none settles twice and none is forgotten.
QueueMatchesStatus ==
  /\ \A c \in Clients : status[c] = "waiting" <=> c \in ToSet(waiting)
  /\ IsInjective(waiting)

\* A client holds a connection exactly from its grant to its release.
LeaseMatchesStatus ==
  \A c \in Clients : Holds(c) <=> status[c] \in {"leased", "validating"}

\* Capacity is lost in two ways only, by a close() that fails and by a validation
\* function that rejects: unless a close() may fail, a listed resource that is
\* flagged in use is held by a client (or being validated for one), its close() is
\* under way, or its validation rejected.
CapacityAccounted ==
  CloseMayFail \/ \A r \in resources \cap inUse :
                     \/ r \in destroying \cup unvalidated
                     \/ \E c \in Clients : lease[c] = r

\* A client keeps a live connection until it gives it up, unless the pool is
\* drained, the idle check runs (it destroys free resources that acquire() can
\* still hand out), or more connections than maxPoolSize were opened (a surplus
\* one is destroyed as it is handed over).
LeasedStaysOpen ==
  ~draining /\ ~HasIdleCheck /\ opened <= MaxPoolSize
    => \A c \in Clients : status[c] = "leased" => lease[c] \in open \ destroying

\* The queue is first come, first served: no client is handed a connection
\* while one that queued before it goes on waiting.
ServedInOrder ==
  [][\A i, j \in DOMAIN waiting :
       i < j /\ status'[waiting[j]] = "leased" => status'[waiting[i]] # "waiting"]_vars

\* "Maximum number of connections" (pool-options.interface.ts): the pool never
\* lists more than maxPoolSize connections.
PoolSizeBounded == Cardinality(resources) <= MaxPoolSize

\* "Drain the connection pool and release all resources" (connection-manager.ts):
\* once drainPool() has succeeded, no client holds anything and no call to the
\* driver is under way, the database has no connection of the pool left open.
DrainReleasesAll ==
  ( /\ drainPhase = "cleared"
    /\ Creators = {} /\ destroying = {}
    /\ \A c \in Clients : status[c] \in {"idle", "rejected"} )
  => open = {}

\* The pool keeps the promise of ConnectionLease.  A client asks from acquire()
\* until its promise settles; the connection it gave up but whose validation is
\* still awaited counts as held.
Lease == INSTANCE ConnectionLease
           WITH asking <- Asking,
                held   <- lease,
                Conns  <- 1..MaxOpens

\* Every step of the pool is a step of the lease service: no connection passes
\* to a second client but by being returned, a grant goes to one client, and a
\* client keeps its connection until it gives it up itself.
ImplementsLease == Lease!Spec

\* Together they are inductive: a lease is a flag set on a listed resource, so
\* whoever tests the flag tests the leases; the hand-over pairs one resource
\* with one client, because no resource was free while the queue was not empty.
PoolInv ==
  /\ TypeOK
  /\ opened <= MaxOpens
  /\ inUse \subseteq resources
  /\ initCreating => toCreate > 0
  /\ LeaseMatchesStatus
  /\ ExclusiveLease
  /\ NoLostWakeup
  /\ QueueMatchesStatus

-----------------------------------------------------------------------------
(* Liveness                                                                *)

\* Every acquire() settles, also when its queue is dropped by a drain or the
\* drain fails half-way, provided its own timer goes off.
AcquireSettles ==
  (\A c \in Clients : WF_vars(AcquireTimeout(c)))
    => \A c \in Clients : Pending(c) ~> ~Pending(c)

\* If the clients give their connections back, the hand-over alone, without any
\* timer, gets every waiting client off the queue of a pool that is not drained,
\* neither destroys idle resources nor validates, and has not opened more than
\* maxPoolSize connections.  (Once it has, every hand-over destroys what it hands
\* out until the list shrinks, which can empty the list under a full queue.)
ServedIfReleased ==
  (\A c \in Clients : WF_vars(Release(c))) /\ ~HasIdleCheck /\ ~HasValidation
    => \A c \in Clients :
         status[c] = "waiting" ~>
           status[c] # "waiting" \/ draining \/ opened > MaxPoolSize

\* drain(); clear() ends, done or failed, however long the clients keep their
\* connections and whatever creations or destroys are under way.
DrainSettles == draining ~> drainPhase \in {"cleared", "failed"}

=============================================================================
