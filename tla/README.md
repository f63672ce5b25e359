# A TLA+ development of nestjsdb2

`nestjsdb2` is a TypeScript library that gives a NestJS application pooled
connections, a client, transactions and an ORM for DB2. It runs on Node's single
thread, on top of the `ibm_db` driver. Nothing in it is parallel, but nearly every
operation awaits the driver, a timer or another object, and whatever is called in
the meantime runs in between. The repository's tests do not reach these
interleavings; this development is about them.

The modules follow the source, file by file and function by function.
`PROJECT.json` names the lines behind every definition, the property that goes with
every hazard, and the known disagreements between the code and its comments.

## The system

| Component | Source (under `src/src/`) | State | Operations |
| --- | --- | --- | --- |
| Pool | `db/pool.ts`, `db/factory.ts` | the list of resources with their `inUse` flags, the queue of waiting clients, `draining`, the idle timer | initialize, acquire, release, idle check, destroy, drain, clear |
| PoolManager | `db/pool.manager.ts` | `pool`, `poolInitialized` | init, getConnection (against a 10 s timer), closeConnection, releaseConnection, drainPool |
| ConnectionManager | `db/connection-manager.ts` | the connection state, a list of active connections | setState with its table of transitions, getConnection, getConnectionFromPool, closeConnection, disconnect, drainPool |
| Client | `db/client.ts` | its own list of active connections, reconnect attempts, recent errors | init, destroy, getConnection, closeConnection, reconnect, query, transactions, health |
| TransactionManager | `db/transaction-manager.ts` | `transactionActive`, `isolationLevel` | begin, commit, rollback, setIsolationLevel, retry and time-out wrappers |
| Decorators | `decorators/` | none of their own | @Query, @Transaction, @Connection, retry, connection state, logging, caching, validation |
| Db2Module | `db/db2.module.ts` | the singleton, the model registry | forRoot, forRootAsync, forFeature, init, migrations |
| Authentication | `auth/` | the strategy; the LDAP client's socket and buffer | authenticate, getConnectionString; bind, handleData |
| ConfigManager, QueryBuilder | `db/` | the configuration; the clauses so far | defaults; where, join, build |
| ORM | `orm/` | the metadata of each entity, the models | setEntity, add and remove columns, keys and constraints, validate, finalize |
| Others | `services/`, `indicators/`, `validation/`, `utils/`, `enums/`, `errors/` | none that decides anything | migrations, health, logging |

How they interact:

* `Db2Module.init()` awaits `PoolManager.init()`, which awaits the authentication
  and then creates the pool, and then `Client.init()`, which polls for the pool.
* The application gets connections by two doors: `ConnectionManager` and `Client`.
  Both call the same `PoolManager`, both write the one connection state (the
  client through `setState()`), and each keeps a list of its own.
* `PoolManager` hands requests to the `Pool` it has at the moment. After a drain
  and another `init()` that is a new pool, while callers may still hold
  connections of the old one and old requests may still be pending.
* The pool calls the driver to open and close connections and goes on when the
  driver answers.
* `TransactionManager`, `Client.beginTransaction` and the decorators are built on
  `Client.query`, which gets and closes a connection for every statement.

What is hard, and what must be true of each part:

* **Pool.** The size of the list is tested before an await and the list changed
  after it; `acquire()` looks for its resource in a callback, after the queue may
  have been served; a destroyed resource stays listed until `close()` answers;
  `release()` awaits a validation, which may reject; one failing `close()` stops a drain
  half-way.
  A connection must belong to one client at a time, no client may wait while a
  resource is free, the queue is served in order, every `acquire()` settles, and
  a drain ends.
* **PoolManager.** A request outlives its race with the timer; `this.pool` and the
  flag change while a drain or an `init()` awaits. Releases must reach the pool of
  their connection, and no pool may go on working that the manager does not have.
* **ConnectionManager and Client.** Every operation asks for a transition of one
  shared state, and a transition that is not in the table is dropped with a log
  line. The lists must match the callers, a transient state must have somebody
  left to end it, a failure must not look healthy.
* **Transactions and queries.** A statement outlives the lease of its connection, and
  runs on after its timer; begin, statements and commit may use different sessions;
  a flag is tested before an await and set after it; `@Query` asks for a second
  connection while it holds one; a retry begins a whole method again. What a caller is
  told of a transaction must be true, a call that ends must have returned its
  connections, and the flag of the transaction manager must agree with what was run.
* **ORM.** The handlers and the models of one Schema share its current entity; calls
  resume behind an await; options overwrite what an entry says, its property included;
  four lists must agree after any sequence of additions and removals; a builder's values
  must follow its placeholders.
* **Life cycle and authentication.** A singleton is tested before an await and set
  after it; the LDAP client is kept in a field that overlapping calls share; its
  answer comes in fragments. What is returned must be ready, it must be returned or
  refused, and no pool may open for somebody nobody vouched for.

## The modules

    ConnectionLease        what a pool promises: ask, grant, return, hand over, refuse
       ^   ^
       |   +-- Pool        db/pool.ts, db/factory.ts; implements ConnectionLease
       |         Pool_proofs, MCPool
       |
       +------ PoolManager db/pool.manager.ts; its pools are ConnectionLease services
                 PoolManager_proofs, MCPoolManager
                 ^
                 +-- ConnectionManager   db/connection-manager.ts and the connection
                       part of db/client.ts, over PoolManager;
                       ConnectionManager_proofs, MCConnectionManager
    ConnectionStates       the table of transitions of db/connection-manager.ts
       ^      ^
       |      +-- ConnectionManager (above)
       +--------- Authentication   auth/ and PoolManager.init() around it
                    EXTENDS LdapClient   auth/ldap.client.ts, auth/ber-encoder.ts
                    ^
                    +-- Db2Module  db/db2.module.ts, services/; Ldap_proofs and
                          Startup_proofs, MCStartup

    Sessions               queries and transactions: db/client.ts,
                             db/transaction-manager.ts, decorators/;
                             Sessions_proofs, MCSessions

    Metadata               orm/metadata, orm/decorators
       ^
       +-- SchemaHandlers  orm/schema-handlers, and the validation of orm/schema.ts
             ^
             +-- Schema    orm/schema.ts; Schema_proofs
                   ^
    QueryBuilder   |       db/query-builder.ts
       ^           |
       +---------- Models  orm/model.ts, orm/model-registry.ts; Models_proofs, MCOrm

An action is one synchronous stretch of code: it starts where a function is called
or an await, a `.then` callback or a timer resumes, and ends at the next await or
return. Any other action may come in between, as any other callback may run.

### Pool

| Code | Model |
| --- | --- |
| `resources` and each `inUse` | `resources`, `inUse`: sets of connection numbers |
| `waitingClients` | `waiting`, a sequence of clients |
| `draining`, `idleCheckInterval` | `draining`, `idleTimer` |
| one `acquire()` call, its promise and what its caller does | a client with `status` and `lease` |
| `initialize()` between its awaits | `toCreate`, `initCreating` |
| `ibm_db.open()`, `close()` under way | `status = "creating"`, `destroying`, `closing` |
| what the database has open | `opened`, `open` |
| a `release()` whose validation function rejected | `unvalidated`, history: the resource stays listed and in use |
| `drain()` then `clear()`, from `PoolManager.drainPool` | `drainPhase`, BeginDrain, BeginClear, Cleared |

A connection is named by the order in which it was pushed on the list. The list is
only appended to and filtered, so list order is numeric order and the list is kept
as a set; the loop of `checkWaitingClients()` is the operator CheckWaitingClients.
A client is a slot: when its call has settled and its connection is returned it may
call again. Callers return the connection they were handed, once; a caller that
returns a connection twice is outside the model. Several `destroy()` calls of one
connection are one entry of `destroying`, since the first answer removes the
resource. A drain that is repeated after a failure adopts the `close()` calls left
from the first; two drains at once are outside the model. Times are left out: a
timer may go off at any moment, and any set of free resources may have expired.

### PoolManager

The pools are numbered as they are created. Towards the manager each of them is a
service of ConnectionLease: Grant and Refuse may come at any time, in any order, for any
pending request, which is more than Pool does, so what is shown here does not depend on
how the pool works. `asking` and `held` are the state of the lease services; `wants` is
the pool a request was made to; `race` is the state of the `Promise.race` of a call. A
connection granted after the race is lost goes to `abandoned`; one whose release found
no pool, or another pool, goes to `stranded`. An owner is one `init()` or `drainPool()`
call: StartInit and FinishInit, DrainPool, Drained, Cleared and DrainFailed are the
stretches between their awaits, with `target` the pool that `drain()` or `clear()` was
called on.

A slot whose request was abandoned cannot make another call until the pool answers
that request, so the number of slots bounds the live requests, abandoned included.

### ConnectionManager

`PM == INSTANCE PoolManager` shares its variables. The steps inside the manager and
its pools are PoolStep; a caller's step conjoins one PoolManager action with what
the caller does around it (AskPool is the call to `PoolManager.getConnection()`),
and the code after the await is an action of its own (Acquired, Failed, Closed ...).
While there is no pool the client polls, and the connection manager turns a call away:
`getConnection()` without touching the state (RejectAtOnce), `getConnectionFromPool()`
with ERROR (Rejected).
`step` is where a call stands, `route` the function it came in by, `mine` the
connection it works with; `managerList` and `clientList` are the two lists, in
order. ValidTransitions is the table of `isValidStateTransition`, and Moved what
`setState()` does with it. `disconnect()` and `ConnectionManager.drainPool()` do the
same to the modelled state and share the action Disconnect.

Left out because it decides nothing: the counters, time stamps and error lists of
the state record. Left out because it does nothing: `Client.disconnect()`,
`checkIdleTimeout()` (nothing ever sets `this.connection`) and `closePool()`
(nothing sets `this.pool`, so it throws after asking for DISCONNECTING).
`executePreparedStatement()` and `batchUpdate()` appear by what they do first, a
`reconnect()`; `batchInsert()` not at all: it throws at once on `this.connection`.

### Sessions

A task is one call of the application: a transaction of the client or of a decorator,
one of the transaction manager, a method of `@Query` or `@Connection`, a plain query,
a health check of the client or of the indicator. Any but a health check, which never
throws, may be under `RetryOperation` or `retryOperation()`, which call the whole method
again. Program gives the statements each sends, OnError where it goes when one throws.
Ask, Poll, Grant, GiveBack, Answer and QueryTimeout are the stretches of `query()`
between its awaits: the connection goes back while the statement is in `flight`, as the
`finally` of `query()` does not wait for the promise it returns, and the task goes on
when both have happened (Settled). Poll is the loop of `Client.getConnection()`, which
has no timer and waits for ever on a drained pool. A request that has reached the pool
races the timer of the pool manager: RaceTimeout rejects the call and leaves the request
with the pool (`overdue`), which may still grant it (LateGrant), to nobody: the
connection is `lost`, as is that of the details of a health check.

The pool is what ConnectionLease promises, and grants the first free connection of its
list, as `find()` does. Its queue is left out: of several calls that ask, any may be
served next. Run says what a session of the database does, which is external: outside a
transaction a statement is committed at once, and COMMIT and ROLLBACK end whatever is
open in the session they reach. `connected` is what Sessions keeps of the connection
state, moved by StateMoves as other calls would; PoolReady and PoolDrained are
`Client.init()` and a drain, of which `destroy()` leaves the state CONNECTED.
`executed`, `timedOut`, `raced` and `overlapped` are history.

### Metadata, SchemaHandlers, Schema, QueryBuilder, Models

The metadata of a class is a list per kind of entry, an entry its property, its name and
those of its options that some code tests. The options of a call may leave out the name
and the property, give them, or give others than the call's, and may clear what is set:
Over is the spread, or the `Object.assign()`, that puts them over what is there. The
validation calls a column by its name or else by its property, and looks for the
property of a key among the names columns were given, as the code does. The decorators
and the handlers' methods are operators from metadata to metadata; a call that throws
leaves it as it was, except where it has pushed something first. Schema adds time:
`addColumn()` and `setForeignKey()` do their work behind an await that waits for
nothing, so they are microtasks, in order; `finalizeSchema()` comes back to that queue
for every entity. (One finalisation at a time is a bound of the model.) QueryBuilder
keeps the clauses of a query, their placeholders and values. Models has the
registrations, each with one Schema its models share, and the statement each method of a
model sends; `sent` is the statement that goes out in this step. `changed` (the entities
whose metadata have changed since they were validated) and `moved` (those of which a
column was removed or given another property) are history.

### LdapClient, Authentication, Db2Module

LdapClient is HandleData, a function of the buffer and the bytes that came, and the
encoder of the request, both on sequences of bytes. The decoder shifts as the code does,
in 32 bits of which the first is a sign, so a length of four bytes may come out below
zero, and `slice()` then counts from the end (ByteLeft, Place). A manager is a record (its
configuration, its strategy and what Db2Module keeps beside it), an LDAP client
another, and `call` says where each initialisation stands: PoolInit and Authenticate
are the stretch before the first await, the actions of KerberosClient and of the
socket the events that follow, CreatePool the rest of `PoolManager.init()`,
ClientInit and Migrate what Db2Module does after it. The LDAP client lives in one
field of its strategy, so Bind and CloseField take the client that is there by then.
A data event runs the handler once for every `bind()`, as `removeListener()` never
finds the one it is asked to remove. The application may call `init()` again on a
manager it has assembled by hand, also while the first is under way.

## The runs

| Run | Bounds | What it shows |
| --- | --- | --- |
| `pool` | 3 clients, maxPoolSize 2, queue of 2, 3 connections ever opened, validation on (yes, no, or a rejection) | PoolInv, CapacityAccounted, LeasedStaysOpen, ServedInOrder, ImplementsLease |
| `pool_faults` | 2 clients, maxPoolSize 1, 2 opened, every option on, every `close()` may fail, fair | ExclusiveLease and NoLostWakeup under faults; AcquireSettles, DrainSettles |
| `pool_oversize` | 2 clients, maxPoolSize 1 | PoolSizeBounded is violated |
| `pool_drain_leak` | 2 clients, maxPoolSize 1 | DrainReleasesAll is violated |
| `pool_manager` | 3 calls, 1 owner, 2 pools of 2 connections, drains may fail | ManagerInv, StrandedOnlyInCleared, OneLivePool |
| `connection_state` | 2 calls, 1 owner, 2 pools of 1 connection, 1 reconnect attempt | ConnectionInv, TransientStateHasWayOut |
| `connection_faults` | 2 calls, 1 owner, 1 pool of 1 connection, drains may fail | ActiveMatchesUsers, FailureShows |
| `disconnect` | 1 call, 1 owner, 1 pool of 1 connection | DisconnectDisconnects is violated |
| `sessions` | 2 sessions; 2 calls of any kind with 1 fault, or 1 call with a retry and 2 faults | TypeOK, CommitTruth, AtomicOnOneSession, AppliedOnce, NothingHeldAfter, FlagTruth |
| `atomicity` | 2 sessions, a `@Transaction` method and a plain call, no retry, 1 fault | DecoratedIsAtomic is violated |
| `orm` | 2 classes with 6 pairs of bodies, 2 properties and 1 further name, 2 registrations, 3 calls | TypeOK, RemovalUndoesAddition, KeysAreColumns, FinalizedIsUsable, ModelAlone, BindsInOrder, CallsHitTheirEntity, RemovesOneProperty, RegisteredOnce |
| `startup` | 2 calls, answers in at most 3 pieces of 1, 2, 7 or all bytes, fair | TypeOK, ReturnedIsReady, Vouched, InitializedMeansConnected, ClientsClosed, VerdictFitsAnswer, RequestReadsBack, StartupSettles |

Why these bounds are enough for the cases that matter. In `pool`, three clients and
two connections give a queue with somebody behind its head, two leases at once, a
creation that overlaps with another, and, with the third connection, a list over
maxPoolSize; the queue is full when both connections await their `close()` after a
failed validation and two clients wait, and the third is refused. The
faults need only one connection to be closed twice and one more to replace it. In
`pool_manager` two pools give a release and a request that outlive their pool and
its successor; three calls give an abandoned grant beside a live lease and a refused
request. In the connection runs one connection and two calls suffice for the state
to be moved by one caller under the other, and for a connection to be handed on
before its first entry leaves the list. MaxOpens, MaxPools, PoolConns and
MaxReconnectAttempts bound the counters; only the last is a setting of the code.

In `sessions`, two calls and two connections let a transaction find another's session
or lose its own, let two `@Query` methods hold everything there is, and let a request
that timed out take a connection behind everybody's back. MaxAttempts bounds the attempts
of all calls together, MaxFaults the faults (refusals, timers, errors of the database,
exceptions of a method, moves of the state, drains) with one less for a second call: a
retry needs a fault to happen, and a rollback that fails after a commit needs two. The
kinds of call and MaxTries are the code's, with two attempts for its three. In `orm`,
three calls are a registration with two uses of its models, a call that waits with two
others behind it, a finalisation with changes before and within it, or a column that is
added twice and removed; the class bodies hold every decorator, among them a key with a
name of its own, and the calls hold every handler, with options that clear, that rename
and that give another property. In `startup`, two
calls overlap at every await there is; the answers include a length in the long form,
a length of 10 (the tag that is looked for), a refusal and the envelope of the real
protocol, cut anywhere after one, two or seven bytes; the names put the three
lengths of a request on both sides of 128. Each call is used once, and at most one
manager is assembled by hand, and none beside a module: they would share nothing.

Deadlock is not checked: an application that calls nothing any more, or a model that has
used up its bound, stops. All runs but `pool_faults` and `startup` use specifications
without fairness, since they check safety only. (In Sessions and ConnectionManager a
call that polls for a drained pool does wait for ever.)

**Fairness** (FairSpec of Pool). Node runs a queued callback, the driver answers
every `open()`, `close()` and validation it was sent, and `initialize()` goes on. No
fairness is assumed for clients (who may keep a connection for ever), for the
owner's drain, or for the idle timer. That the acquire timer goes off is a hypothesis
of AcquireSettles, written into the property. ServedIfReleased is stated beside it,
and no run checks it.

**Fairness** (Spec of Db2Module). Each call goes on when it can: the event loop runs
what is ready, and the configuration factory of the user, the child processes of
Kerberos and the statements of the migrations end. Nothing is assumed of the LDAP
server or its network, and StartupSettles is about `forRootAsync()` only, which
cannot meet them.

### What the violations show

* PoolSizeBounded: creations that overlap all pass the test of the size before they
  await `factory.create()`, so the list outgrows "Maximum number of connections".
  While it does, every resource that is handed to a waiting client is destroyed in
  the same step, which is why LeasedStaysOpen has a hypothesis on `opened`.
* DrainReleasesAll: a creation under way when the pool is cleared leaves an open
  connection behind, against "release all resources".
* DisconnectDisconnects: CONNECTED -> DISCONNECTING -> DISCONNECTED exists, but from
  CONNECTING or RECONNECTING both requests of `disconnect()` are refused, and the
  state is the same after the drain as before. CONNECTING is the usual state: it is
  reached as soon as the last connection was closed and another is acquired, and
  getConnection() itself never leaves it.

* DecoratedIsAtomic: BEGIN runs on the first connection, which is given back at once;
  another call takes it, so that the statement of the method gets the second, and is
  committed there on its own. The COMMIT's request for a connection is refused, which
  moves the state to ERROR; the rollback requires CONNECTED; and the call rejects with its
  work in the database. AtomicOnOneSession says when the documented atomicity does hold.

### What else the model shows of the code

The properties have hypotheses where the code behaves in ways no document denies: a
failed drain cannot leave DISCONNECTING; a successful `destroy()` from CONNECTED
leaves CONNECTED while a failed one ends in DISCONNECTED; RECONNECTING has no
transition out; the connection of a retry stays on the client's list for ever.

Queries and transactions:

* A statement whose answer is an error may reject before the `finally` of `query()`
  has closed the connection; for that time nobody listens to its promise. What Node
  does of an unhandled rejection is outside the model.
* A commit that fails leaves the flag of the transaction manager set until a rollback
  succeeds; `beginTransaction()` overwrites the isolation level that
  `setIsolationLevel()` has set.
* Every health check costs the pool a connection for good, and so does every request that
  the pool grants after the timer of the pool manager has gone off. A validation function
  that rejects leaves its resource listed and in use. The indicator reports the
  database as down when nobody happens to hold a connection.

ORM:

* All models of one registration speak about the entity set last, also when it was
  that of a model whose registration was refused. ModelAlone says when a model is
  right.
* `findWithConditions()` and `findPaginated()` give the builder conditions with
  placeholders and bind no value.
* The records of @Table, @View and @Entity go to a list nobody reads: every class is a
  table without a name until `finalizeSchema()` names it.
* `removeForeignKey()` pushes the remaining keys as one element of their own list, and
  `finalizeSchema()` fails from then on.
* A key with a name of its own (`@PrimaryKey({name: 'pk_id'}) id`) is refused by
  `finalizeSchema()`, which looks for the property of the key among the names of the
  columns; a key whose property is the given name of another column passes.
* Two columns of one property pass when they have different names; of two that
  `addColumn()` has pushed `removeColumn()` takes one.
* `removeColumn()` leaves foreign keys, constraints, composite keys and relations that
  name the column.

Start:

* The LDAP client expects its answer to begin with the tag of a bind response. In the
  envelope every LDAP message has, it is refused. A length byte of 10 is taken for the
  tag of the result, and a length whose bytes come later is malformed; ShortForm in
  VerdictFitsAnswer leaves these out. The encoder puts the request in a sequence and
  not under the tag of a bind request.
* A refusal can be taken for a success. The result is looked for at the first byte 0x0A,
  wherever it is, and two `init()` calls on one manager can `bind()` on one client, whose
  every data event is then appended once for each. (i) Let the answer have its length
  written with zeros in front, as Active Directory does: `97 132 0 0 0 60 10 1 49 ...`,
  66 bytes. If it comes as one byte, then six, then the rest, the six are appended twice,
  and the byte two behind the tag 10 is the first zero of the second copy. (ii) One call is enough
  when a byte of the length is 0x0A: a header `97 131 10 1 0`, of an answer of 655,616
  bytes, says success whatever follows. UsersAreVouched excludes the zeros, VouchedWhenAlone
  only (ii), which no answer shorter than 655,360 bytes can meet.
* A socket that is lost after `connect()` never rejects the bind: `init()` hangs.
* Two overlapping `authenticate()` calls on one LDAP strategy share its client: the
  first promise is forgotten, and the one that ends first closes the other's socket.
* AUTH_FAILED has no successor. The JWT `authenticate()` looks at no token; a token
  that does not pass leaves an initialized pool that can open nothing.
* Two overlapping `forRootAsync()` calls make two modules, of which one is lost; a
  failed one leaves the instance set, so that another is refused. `forRoot()`
  initializes nothing. The tables of a migration that failed half-way stay, and the
  options of a column that say NOT NULL, UNIQUE or DEFAULT do not reach its table.

## What is proved

| Theorem | Statement |
| --- | --- |
| PoolInvariant | `Spec => []PoolInv` |
| LeasesExclusive | `Spec => []ExclusiveLease` |
| WakeupsKept | `Spec => []NoLostWakeup` |
| PoolImplementsLease | `Spec => ImplementsLease`, the refinement of ConnectionLease |
| PoolServesInOrder | `Spec => ServedInOrder` |
| NoCapacityLeaks | `Spec => []CapacityAccounted` |
| LeasesStayOpen | `Spec => []LeasedStaysOpen` |
| ManagerLeases | `Spec => Lease!Spec`: the manager itself is a service of ConnectionLease |
| OneHolderEach | `Spec => [](HolderInv /\ OneHolder)` |
| ManagerInvariant | `Spec => []ManagerInv`, for owners that take turns |
| ReleasesReachTheirPool | `Spec => []StrandedOnlyInCleared`, likewise |
| PoolNeverForgotten | `Spec => []OneLivePool`, likewise |
| ListsMatchCallers | `Spec => []ActiveMatchesUsers` |
| ConnectionsTyped | `Spec => []ConnectionInv` |
| WayOutOfTransientStates | `Spec => []TransientStateHasWayOut` |
| FailuresShow | `Spec => FailureShows` |
| ImplementsPoolManager | `Spec => PM!Spec`, the refinement of PoolManager |
| OnePoolForBoth | `Spec => []PM!OneLivePool`, for owners that take turns |
| CallersApart | `Spec => []HoldersApart` |
| CallsInvariant | `Spec => [](TypeOK /\ CallInv)` of Sessions |
| NothingIsHeld, CallersToldTheTruth, WorkAppliedOnce | `Spec => []NothingHeldAfter`, `[]CommitTruth`, `[]AppliedOnce` |
| AtomicWhereAlone | `Spec => []AtomicOnOneSession` |
| FlagTellsTheTruth | `Spec => []FlagTruth` |
| SessionsLease | `Spec => CL!Spec`: asks, grants, refusals and returns, late ones too, are as ConnectionLease says |
| ConnectionsNotShared | `Spec => []NobodyShares` |
| StartTypes | `Spec => []TypeOK` of Db2Module |
| ReturnsReady, PoolBehindState, ConnectionsClosed | `Spec => []ReturnedIsReady`, `[]InitializedMeansConnected`, `[]ClientsClosed` |
| TalkInvariant, TrustInvariant | `Spec => [](StartInv /\ TalkInv)`, `[](StartInv /\ TalkInv /\ TrustInv)` |
| VerdictsFit | `Spec => []VerdictFitsAnswer` |
| RequestsReadBack | `Spec => []RequestReadsBack` |
| UsersAreVouched | `Spec => []Vouched`, if no header of an answer has a zero |
| VouchedWhenAlone | `Spec => []VouchedAlone`, if no header has a 0x0A with a zero two bytes on |
| KeysStayOnColumns | `Spec => []KeysAreColumns` |
| FinalizedSchemaIsUsable | `Spec => []FinalizedIsUsable` |
| RemovalUndone | `Spec => []RemovalUndoesAddition` |
| HandlersHitTheirEntity, OnePropertyRemoved | `Spec => CallsHitTheirEntity`, `Spec => RemovesOneProperty` |
| ModelsTyped | `Spec => []TypeOK` of Models |
| ModelsKeepToTheirTable | `Spec => []ModelAlone` |
| ModelsStayRegistered | `Spec => RegisteredOnce` |
| ValuesFollowPlaceholders | `Spec => []BindsInOrder` |

They hold for every number of clients, calls, pools, connections, entities and
properties, every setting of the options, every class body and every list of
registrations. What they rest on is the assumptions on the constants, which TLC
evaluates in the runs:

* PoolAssumption, ClientsAssumption, PoolManagerAssumption, ConnectionsAssumption: the
  sizes and bounds are naturals, the switches are Booleans, the marker of `initialize()`
  is no client, the calls of ConnectionManager are finitely many (their lists of
  connections are counted).
* SingleOwner, a hypothesis of ManagerInvariant, ReleasesReachTheirPool,
  PoolNeverForgotten and OnePoolForBoth, and of no other: there is one owner slot, so
  that `init()` and `drainPool()` calls do not overlap. That is how `Db2Module` and the
  client use them; two overlapping `init()` calls do create two pools, one of them
  forgotten. ManagerLeases and OneHolderEach, and what else is proved of
  ConnectionManager, do without it: connections are not shared even then.
* SessionsAssumption and KindsAssumption: finitely many tasks (the statements of the
  transaction manager are counted), connections are numbered from 1, NoConn is 0, the
  bounds are naturals, there is at least one attempt, the kinds are among those there are.
* AuthenticationAssumption, AnswersAssumption and EntitiesAssumption: "nobody" is no call,
  a piece of an answer has at least one byte, the entities are a list; a name is shorter
  than 2,000,000,000 bytes, as any string of Node is (less than 2^29 characters of at most
  three bytes), for the length is read with shifts of 32 bits; an answer is bytes, at
  least one, and if it begins as a bind response its header is followed by the tag, the
  length and the value of a result, as the protocol has it.
* PlainHeader of every answer, a hypothesis of UsersAreVouched, and LegibleHeader, one of
  VouchedWhenAlone: what the bytes of a header must not be, see the two behaviours under
  "What else the model shows". Without them the theorems are false. TLC evaluates them for the
  answers of the run `startup` (SomeAnswersArePlain).
* MetadataAssumption, SchemaAssumption, CallsAssumption, FeaturesAssumption: the markers
  (no property, no metadata, no entity) are none of what they stand beside, properties
  are finitely many, the entities of a Schema are listed once each, class bodies and
  calls are lists and sets of what the decorators and the handlers take, and a
  registration names at least one entity.

**Pool.** ExclusiveLease is not inductive: the code hands out what is not flagged,
and never looks at who holds it. PoolInv adds that a lease on a listed resource sets
its flag (so a free resource is nobody's), that a client's status and lease agree,
and that the queue holds each waiting client once. The hand-over loop could pair
several resources with several clients; NoLostWakeup, part of the same invariant,
says that nothing was free while the queue was not empty, so each loop starts with
at most one free resource (the one just released or created) and either does nothing
(NobodyServed) or serves the head of the queue (HeadServed). Every action is then a
small change of flags, leases and queue (TakeKeeps, StatusKeeps, GiveUpKeeps,
CheckWaitingKeeps, QueueTail, QueueRemoveAt). The second half of Pool_proofs maps each step to a
step of ConnectionLease or a stutter, from the same invariant, with two effects of a
release: a return, or a hand-over to the head of the queue. CapacityInv joins what the
list counts with what is open: a listed resource is free, held, on its way to its
`close()`, or one whose validation has rejected; and as long as nothing was drained,
idle or over maxPoolSize (Calm), no connection that is free or held is on that way
(KeptOpen).

**PoolManager.** The strengthening is that `this.pool` is the newest pool, that a
drain works on it to its end (so what `clear()` finds is what `drain()` worked on),
and that an `init()` awaits only while there is no pool. It is cut into a part the
calls change and a part the owners change; each lemma keeps one and leaves the other.
None of that is needed for the promise itself. Every step of a call is a step of
ConnectionLease on the connections of all pools together and an owner's is a stutter
(CallImplementsLease); HolderInv adds that who asks holds nothing, that who has won its
race, and nobody else, holds a connection, and that what was abandoned or stranded is
nobody's.

**ConnectionManager.** ImplementsPoolManager comes first: each step of a caller or an
owner conjoins one PoolManager action with assignments to variables of its own, or
leaves the manager alone (ManagerStep). The counting of ActiveMatchesUsers goes by
what a step does to one call: it joins those that have a connection and one entry is
pushed, it leaves them and one entry is taken out, or neither (there are lemmas for the
number of users and of entries after each). ListInv
adds PoolPart, what is true of the manager in whatever order it is called by however
many owners, so that what is pushed is a connection. For the way out, WayOutInv adds
what the code never says: AUTHENTICATING lasts no longer than an `init()`
(Authenticated); DISCONNECTING, where drains do not fail, no longer than a `disconnect()`
or a caller of the manager that has yet to close (Disconnected); only the connection of a
retry is never given back (OnlyRetriesLeak); and whoever has a connection has been
served by a pool. What is proved of PoolManager is carried over by ManagerStep: the
module instantiates PoolManager_proofs with its own variables, and a lemma for each
operator says that the two instances mean the same. For CallersApart, MineInv says that
the connection a caller works with is the one it won in the race and has not given back,
so that the two lists, which know nothing of each other, never hand one to two callers.

**Sessions.** CallInv is an account of each call: where it can stand (Place), what it
holds there (Holding), what its present attempt has had run (Ahead), and, the other way
round, that each statement in flight is one its attempt waits for (Awaited), each that
was run has its attempt past it (Behind; an attempt that another followed has committed
nothing, and if it was a single statement has run nothing) and there is one of each
(Single). All but the first two are void once the attempt has given up after a time-out:
the statement goes on alone. From it follow CommitTruth and AppliedOnce. LossInv is the
account of the requests: those whose timer has gone off are of a step or an attempt the
call has done with (Gone), and so are those a connection was lost to, so that no request
loses a second; with Holding it gives NothingHeldAfter. AtomicOnOneSession needs the
sessions too: the one that a call has to itself (Alone) follows the call, from the
statements that were run (Follows), which holds only as long as nobody else's
statement reaches it, so that the lemmas say what any statement can do to a session.
The pool that Sessions uses is ConnectionLease without the queue (SessionsLease): a task
may hold one connection around a method and another for its statement, and may have lost
several more, so the clients of the lease are the requests and not the tasks, of which
those still with the pool, overdue or not, are the ones that ask (Asking).
FlagInv counts: while no two calls are in the transaction manager and none timed
out, one more BEGIN than COMMITs and ROLLBACKs has been run when the flag is set, or is
about to be, and as many when it is not; FlagTruth is that between the calls. It counts
statements on whatever session they were run, and does not say that the COMMIT met its
BEGIN.

**Start.** StartInv says where a call can stand with its manager and client (Placed),
who is owed an answer (Promised), behind which states a pool is initialised (Recorded),
that two calls on one assembly have overlapped and on a module never do (Alone), that a
socket that is open is the one its strategy keeps and some call is using, unless calls
overlapped (OpenIsUsed), what an assembly's state, flag and tables are between the
stretches (Starting), and which instance there is (Instance). None of it looks at what
an answer says.

**LDAP.** The encoder, the decoder and the listeners of a data event are recursive
functions; that there is such a function is proved first and what it computes next, both
by a least counterexample. BytesReadBack (the bytes of a number, shifted together, are
the number, as long as it has 31 bits) gives RequestsReadBack. TalkInv ties a client to
its server. While it has bound once (TalkOnce), buffer and bytes to come are the answer,
and the verdict is that of the answer as soon as its last byte is there: VerdictsFit.
When it has bound several times (TalkOften), each piece is in the buffer several times
over, and Traces says where in the stream of answers each of its bytes stands: never
more than one place behind its neighbour's, and past the header only after a 0x0A. From
that, the zero two bytes behind the first 0x0A, which a success needs, is either the
result of the first answer or a byte of its header (ZeroTraced); PlainHeader says that
no such byte is zero. TrustInv carries the word of the server from the bind to the state and
the pool that rest on it (Backed), for every strategy, and says that a call alone on its
assembly binds once, on its own client (Apart), which is why VouchedWhenAlone asks for
less.

**ORM.** Every decorator and handler is shown once to spare what it must: Spares (no
entry of another property is lost), Alters (all lists at once) and KeysKept, and each
operator of Metadata and SchemaHandlers is built of a few list operations that have
these lemmas. The metadata of a class is made by its body, decorator by decorator;
DefinedClassSound goes through the body by a least counterexample, taken from the
well-foundedness of the naturals, as the library's induction theorems cannot be used.
KeysAreColumns is then inductive, with the types of metadata and queue: it leaves out the
entities that have moved a column, and every other call keeps it. FinalizeInv says
how far a finalisation has come: there is one task of validation at most, and every
entity before it is settled, that is, valid as its metadata is now unless it has changed
since; that another one has changed makes no difference to it.
For the models, ModelsInv says that a list of which some model is registered has its
first model registered, so that none is registered twice; that the entity that is
current is that of the model that set it; and that what is being sent is on the table
that is current.
BindsInOrder holds because a builder keeps placeholders and values apart by clause
and appends to both (Paired).

## What is only model-checked

* AcquireSettles, DrainSettles and StartupSettles are liveness, which is out of the
  prover's reach.
* The violations, which are counterexamples.

Every other property of the passing runs is a theorem. No module declares a RECURSIVE
operator. The recursive functions a proof looks into are the class body of DefinedClass,
and Bytes, DecodeLength and Heard of the LDAP client; the other loops are written as set
and sequence operators and dealt with by lemmas.

## The plan

1. Pool, ConnectionLease and their proofs. Done.
2. PoolManager over the lease service, and its proofs. Done.
3. ConnectionManager with the client's connections, and its proofs. Done.
4. Sessions: queries, transactions, decorators, health, and its proofs. Done.
5. Metadata, SchemaHandlers, Schema, QueryBuilder, Models, and their proofs. Done.
6. LdapClient, Authentication, Db2Module; the proofs of the life cycle. Done.
7. What the LDAP client makes of its answers and who has vouched for a user; the promise
   of the pools, restated for PoolManager, ConnectionManager and Sessions. Done.

## Not modelled

* ConfigManager and `utils/buildConnectionString.ts`: defaults and strings, computed
  once and sequentially. So are error classes, enums and logging.
* The decorators for auditing, caching (commented out), execution times, paging,
  parameters and entity validation: they read or shape the arguments of one call and
  share no state. `validateOrReject()` finds no rules on any class the library makes.
* `Client.batchInsert`, `batchUpdate` and `executePreparedStatement` beyond the
  `reconnect()` they begin with, `Client.disconnect` and `closePool`: the fields they
  work on are never set. `Client.runMigrations()` is called by nobody.
* `Model.create()`: it builds an instance and touches nothing else, and `save()` does not
  go through it. `Model.populate()`: no record of a relation has the keys it tests for, so that it
  throws for every argument. `createAndValidate()` is `create()` with validation that
  has no rules.
* `TransactionManager.withTimeout()`, a race of any promise against a timer, the delays
  between the attempts of the retries, a retry around one statement of a transaction (a
  whole call is what Retry begins again), and the test of the connection state that a
  retried `@CheckConnectionState` method would repeat.
* The queue of the pool in Sessions, so who of several waiting calls is served first:
  that is Pool's.
* The providers of `forFeature()`: closures that look a model up by name. The text of
  views and of migrations; the examples.
* The isolation that Db2 itself gives to concurrent transactions. Run is one session
  after the other, and its statements never fail half-way.

## Running it

    tlc -workers 2 -config MCPool.cfg MCPool
    tlc -workers 2 -config MCConnectionManager.cfg MCConnectionManager
    tlc -workers 2 -config MCSessions.cfg MCSessions
    tlc -workers 2 -config MCOrm.cfg MCOrm
    tlc -workers 2 -config MCStartup.cfg MCStartup
    tlapm Pool_proofs.tla
    tlapm PoolManager_proofs.tla
    tlapm ConnectionManager_proofs.tla
    tlapm Sessions_proofs.tla
    tlapm Ldap_proofs.tla
    tlapm Startup_proofs.tla
    tlapm Schema_proofs.tla
    tlapm Models_proofs.tla

The longest runs are `connection_state`, `pool` and `orm`, at one to two minutes.
