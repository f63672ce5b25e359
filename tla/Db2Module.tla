----------------------------- MODULE Db2Module ------------------------------
(***************************************************************************)
(* The start of the module, src/src/db/db2.module.ts, beside pool managers  *)
(* assembled by hand: one static instance, set by forRoot() and by          *)
(* forRootAsync(), which tests it before it awaits the configuration and    *)
(* sets it after; then PoolManager.init(), Client.init() and the            *)
(* migrations, each awaited.  A statement that creates a table is sent by   *)
(* Client.query(), here one step that may fail.                             *)
(***************************************************************************)
EXTENDS Authentication

CONSTANT Entities  \* the stored entities, in order: each its columns and keys

ASSUME EntitiesAssumption == Entities \in Seq(ToSet(Entities))

VARIABLES
  instance,  \* Db2Module.instance: an assembly, or 0
  overtaken  \* history: a call has replaced the instance of another

vars == <<authVars, instance, overtaken>>

NoInstance == 0

Init == InitAuthentication /\ instance = NoInstance /\ overtaken = FALSE

-----------------------------------------------------------------------------
(* forRoot and forRootAsync                                                 *)

\* Bound of the model, see Assemble: no module beside a manager by hand.
NoneByHand == \A a \in 1..Len(managers) : managers[a].by # "byHand"

Throws(c, task) ==
  call' = [call EXCEPT ![c] = [Idle EXCEPT !.task = task, !.step = "threw"]]

\* The constructor: createAuthStrategy() knows the other types and refuses them.
Supported(authType) == authType = "password"

\* forRoot() does not initialise the module it makes.
ForRoot(c) ==
  /\ Begins(c) /\ NoneByHand
  /\ \/ /\ instance = NoInstance
        /\ \E given \in Credentials["password"] :
             managers' = Append(managers,
               Assembly("module", "password", given, NoToken))
        /\ instance' = Len(managers) + 1
        /\ call' = [call EXCEPT ![c] =
             [Idle EXCEPT !.task = "forRoot", !.step = "returned", !.on = instance']]
     \/ /\ \/ instance # NoInstance
           \/ \E authType \in Strategy : ~ Supported(authType)
        /\ Throws(c, "forRoot")
        /\ UNCHANGED <<managers, instance>>
  /\ UNCHANGED <<clients, overtaken>>

\* forRootAsync(), up to the await of the configuration.
ForRootAsync(c) ==
  /\ Begins(c) /\ NoneByHand
  /\ IF instance = NoInstance
       THEN call' = [call EXCEPT ![c] =
              [Idle EXCEPT !.task = "forRootAsync", !.step = "factory"]]
       ELSE Throws(c, "forRootAsync")
  /\ UNCHANGED <<managers, clients, instance, overtaken>>

\* The instance is not looked at again: it is set, and its init() begins.
Construct(c) ==
  /\ call[c].step = "factory"
  /\ \E given \in Credentials["password"] :
       Initialize(c, "forRootAsync", Len(managers) + 1,
                  Assembly("module", "password", given, NoToken))
  /\ instance' = Len(managers) + 1
  /\ overtaken' = (overtaken \/ instance # NoInstance)

\* The user's factory fails, or asks for a strategy that is not supported.
FactoryFails(c) ==
  /\ call[c].step = "factory"
  /\ Throws(c, "forRootAsync")
  /\ UNCHANGED <<managers, clients, instance, overtaken>>

-----------------------------------------------------------------------------
(* init(), after the pool                                                   *)

\* The caller is handed the instance of the moment, not the one it has made.
Return(c) == call' = [call EXCEPT ![c].step = "returned", ![c].on = instance]

\* Client.init() polls until the pool is initialised.
ClientInit(c) ==
  LET a == call[c].on
  IN  /\ call[c].step = "clientInit"
      /\ managers[a].poolInitialized
      /\ managers' = [managers EXCEPT ![a] = SetState(@, "CONNECTED")]
      /\ IF "migration" \in managers[a].given /\ Entities # <<>>
           THEN call' = [call EXCEPT ![c].step = "migrating"]
           ELSE Return(c)
      /\ UNCHANGED <<clients, instance, overtaken>>

\* What generateCreateTableSQL() makes of an entity: a column for each property
\* key, with the type given last, and the primary keys.  The options that would
\* say NOT NULL, UNIQUE or DEFAULT are not passed.
CreateTable(entity) ==
  [columns |-> [key \in {column.propertyKey : column \in ToSet(entity.columns)} |->
                 LET of == SelectSeq(entity.columns, LAMBDA column : column.propertyKey = key)
                 IN  Last(of).type],
   primaryKeys |-> [i \in 1..Len(entity.primaryKeys) |-> entity.primaryKeys[i].propertyKey]]

\* The caller told as soon as the first table is there.
MigrateUnawaitedMutant(c) ==
  LET a    == call[c].on
      done == Len(managers[a].migrated)
  IN  /\ call[c].step = "migrating"
      /\ managers' = [managers EXCEPT
           ![a].migrated = Append(@, CreateTable(Entities[done + 1]))]
      /\ Return(c)
      /\ UNCHANGED <<clients, instance, overtaken>>

\* runMigrations(): the next table, and what has been created stays when it fails.
Migrate(c) ==
  LET a    == call[c].on
      done == Len(managers[a].migrated)
  IN  /\ call[c].step = "migrating"
      /\ \/ /\ managers' = [managers EXCEPT
                 ![a].migrated = Append(@, CreateTable(Entities[done + 1]))]
            /\ IF done + 1 = Len(Entities) THEN Return(c) ELSE UNCHANGED call
         \/ /\ call' = [call EXCEPT ![c].step = "threw"]
            /\ UNCHANGED managers
      /\ UNCHANGED <<clients, instance, overtaken>>

-----------------------------------------------------------------------------

\* What a call does of itself, with the answers of the programs it asks.
OwnStep(c) ==
  \/ AuthenticationStep(c) /\ UNCHANGED <<instance, overtaken>>
  \/ Construct(c) \/ FactoryFails(c) \/ ClientInit(c) \/ Migrate(c)

Next ==
  \/ \E c \in Calls :
       \/ OwnStep(c) \/ ForRoot(c) \/ ForRootAsync(c)
       \/ (Assemble(c) \/ InitAgain(c)) /\ UNCHANGED <<instance, overtaken>>
  \/ NetworkStep /\ UNCHANGED <<instance, overtaken>>

\* The event loop runs what is ready, and the user's factory, the child
\* processes and the statements end; nothing is assumed of the LDAP server.
Spec == Init /\ [][Next]_vars /\ \A c \in Calls : WF_vars(OwnStep(c))

-----------------------------------------------------------------------------
(* Properties                                                              *)

\* What the variables range over.
TypeOK ==
  /\ \A a \in 1..Len(managers) :
       /\ managers[a].strategy \in Strategy
       /\ managers[a].connectionState \in
            {"DISCONNECTED", "AUTHENTICATING", "CONNECTED", "AUTH_FAILED"}
       /\ managers[a].poolInitialized \in BOOLEAN
       /\ managers[a].opened \in {"none", "opened", "refused"}
       /\ managers[a].ldapClient \in 0..Len(clients)
       /\ Len(managers[a].migrated) \in 0..Len(Entities)
  /\ \A k \in 1..Len(clients) :
       /\ clients[k].socket \in {"connecting", "open", "lost", "closed"}
       /\ clients[k].verdict \in {"none", "resolve", "reject"}
       /\ clients[k].of \in 1..Len(managers)
  /\ \A c \in Calls :
       /\ call[c].task \in {"none", "byHand", "forRoot", "forRootAsync"}
       /\ call[c].step \in Working \cup {"idle", "returned", "threw"}
       /\ call[c].on \in 0..Len(managers)
       /\ call[c].client \in 0..Len(clients)
  /\ instance \in 0..Len(managers)

Ready(a) ==
  /\ managers[a].poolInitialized
  /\ managers[a].connectionState = "CONNECTED"
  /\ "migration" \in managers[a].given =>
       managers[a].migrated = [i \in 1..Len(Entities) |-> CreateTable(Entities[i])]

\* The module forRootAsync() resolves to is ready for use, its pool initialised,
\* its state CONNECTED and every table asked for, however its caller has fared
\* before, unless two calls passed the test of the instance at once.
ReturnedIsReady ==
  \A c \in Calls :
    call[c].task = "forRootAsync" /\ call[c].step = "returned" /\ ~ overtaken =>
      Ready(call[c].on)

\* forRootAsync() settles: Client.init() is never left polling for a pool that
\* nobody initialises.
StartupSettles ==
  \A c \in Calls :
    call[c].task = "forRootAsync" ~> call[c].step \in {"returned", "threw"}

\* The result code of a bind response, where the standard puts it: behind the
\* header, the tag and the length of the first element.
SaysSuccess(answer)  == answer[1] = 97 /\ answer[HeaderLength(answer) + 3] = 0

ShortForm(answer) ==
  /\ answer[1] = 97
  /\ answer[2] < 128 /\ answer[2] = Len(answer) - 2 /\ answer[2] # 10

\* An answer that is no bind response, or one in whose header no byte can be taken
\* for the tag of a result code that says success: behind a byte 0x0A the next but
\* one is not zero.
LegibleHeader(answer) ==
  answer[1] = 97 =>
    \A i \in 1..(HeaderLength(answer) - 2) : answer[i] = 10 => answer[i + 2] # 0

\* One whose header has no zero.
PlainHeader(answer) ==
  answer[1] = 97 => \A i \in 1..HeaderLength(answer) : answer[i] # 0

\* Whether somebody has vouched for the user of an assembly: an LDAP server has
\* answered a bind with success, Kerberos has a ticket, the JWT token passes the
\* tests of verifyJwtToken(), and a password is left to the database.
VouchedFor(a) ==
  CASE managers[a].strategy = "ldap" ->
         \E k \in 1..Len(clients) :
           /\ clients[k].of = a
           /\ \E i \in 1..Len(clients[k].answers) : SaysSuccess(clients[k].answers[i])
    [] managers[a].strategy = "kerberos" -> managers[a].ticket
    [] managers[a].strategy = "jwt" ->
         managers[a].token.signed /\ ~ managers[a].token.expired
    [] managers[a].strategy = "password" -> "host" \in managers[a].given

\* No connection is opened on behalf of a user nobody has vouched for, see VouchedFor.
Vouched ==
  \A a \in 1..Len(managers) : managers[a].opened = "opened" => VouchedFor(a)

\* A pool is initialised only behind a state in which the manager can be used,
\* unless an authenticate() of the same manager has failed before: AUTH_FAILED
\* has no successor, and a later success is then not recorded.
InitializedMeansConnected ==
  \A a \in 1..Len(managers) : managers[a].poolInitialized =>
    \/ managers[a].connectionState = "CONNECTED"
    \/ managers[a].connectionState = "AUTHENTICATING" /\ managers[a].strategy = "password"
    \/ managers[a].connectionState = "AUTH_FAILED" /\ managers[a].failed

\* When nobody initialises an assembly, every LDAP connection it has made is
\* closed, unless two calls shared the one field the client is kept in.
ClientsClosed ==
  \A k \in 1..Len(clients) :
    \/ clients[k].socket = "closed"
    \/ UnderWay(clients[k].of)
    \/ managers[clients[k].of].overlapped

\* A bind response in the short form, of a length other than 10, is a verdict as
\* soon as its last byte has arrived and not before, and it is the verdict the
\* server gave, into whatever chunks the network has cut it.
VerdictFitsAnswer ==
  \A k \in 1..Len(clients) : clients[k].listeners = 1 =>
    LET answer == clients[k].answers[1]
    IN  ShortForm(answer) =>
          /\ clients[k].verdict = "none" <=> clients[k].coming # <<>>
          /\ clients[k].coming = <<>> =>
               clients[k].verdict = IF SaysSuccess(answer) THEN "resolve" ELSE "reject"

\* The bind request the encoder makes reads back, with the decoder of the same
\* client: its outer length is that of its content, also where the length takes
\* a second byte, or more.
RequestReadsBack ==
  \A k \in 1..Len(clients), name \in Names :
    LET request == Request(clients[k], name)
        length  == DecodeLength(Tail(request))
    IN  HasLength(Tail(request)) /\ Len(request) = 1 + LengthOfLength(length) + length
=============================================================================
