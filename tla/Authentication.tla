--------------------------- MODULE Authentication ---------------------------
(***************************************************************************)
(* The initialisation of a pool manager, PoolManager.init(), with the        *)
(* authentication strategies of src/src/auth.  Db2Module assembles a pool    *)
(* manager with a password strategy; the application may assemble one by     *)
(* hand with any of them, all are exported.                                  *)
(*                                                                         *)
(* A call is one run of init() by the application or by Db2Module.  The      *)
(* Kerberos programs, the LDAP server and the network are external.          *)
(***************************************************************************)
EXTENDS LdapClient, ConnectionStates

CONSTANTS
  Calls,
  Credentials,  \* for each strategy, sets of options a configuration may give
  Tokens,       \* JWT tokens
  Names,        \* LDAP user names, each a sequence of bytes
  Answers,      \* what an LDAP server may answer, each a sequence of bytes
  ChunkSizes,   \* how many bytes of an answer may arrive at once
  MaxChunks     \* bound of the model: in how many pieces an answer arrives

\* More bytes than a string of Node has, whose characters are less than 2^29.
LongestName == 2000000000

ASSUME AuthenticationAssumption ==
  /\ MaxChunks \in Nat
  /\ "nobody" \notin Calls
  /\ ChunkSizes \subseteq Nat \ {0}
  /\ Names \subseteq Seq(Byte)
  /\ \A name \in Names : Len(name) < LongestName

\* What is in front of the contents of an answer, and how the contents of a bind
\* response begin in the protocol: tag, length and value of the result code.
HeaderLength(answer) == IF answer[2] < 128 THEN 2 ELSE 2 + answer[2] - 128
HasResultCode(answer) ==
  /\ Len(answer) >= 2 /\ Len(answer) >= HeaderLength(answer) + 3
  /\ answer[HeaderLength(answer) + 1] = 10 /\ answer[HeaderLength(answer) + 2] = 1

ASSUME AnswersAssumption ==
  \A answer \in Answers :
    /\ answer \in Seq(Byte) /\ Len(answer) > 0
    /\ answer[1] = 97 => HasResultCode(answer)

VARIABLES
  managers,  \* the assemblies of a configuration, a strategy and two managers
  clients,   \* every LdapClient made
  call       \* what each call does

authVars == <<managers, clients, call>>

NoClient == 0
NoToken  == "no token"
Strategy == {"password", "jwt", "kerberos", "ldap"}
Working  == {"factory", "connecting", "connected", "binding", "which",
             "keytab", "kinit", "klist", "authenticated",
             "clientInit", "migrating"}
Idle     == [task |-> "none", step |-> "idle", on |-> 0, client |-> NoClient]

InitAuthentication ==
  /\ managers = <<>> /\ clients = <<>>
  /\ call = [c \in Calls |-> Idle]

\* A configuration, its strategy and managers, as the constructors leave them.
\* ticket is the state of the credential cache, external; failed and overlapped
\* are history: an authenticate() has thrown, two calls of init() were under way
\* at once.
Assembly(by, strategy, given, token) ==
  [by |-> by, strategy |-> strategy, given |-> given, token |-> token,
   connectionState |-> "DISCONNECTED", poolInitialized |-> FALSE,
   opened |-> "none", ldapClient |-> NoClient, migrated |-> <<>>,
   ticket |-> FALSE, failed |-> FALSE, overlapped |-> FALSE]

SetState(m, state) == [m EXCEPT !.connectionState = Moved(@, state)]

-----------------------------------------------------------------------------
(* Connection strings                                                      *)

\* verifyJwtToken(): its tests in turn, the signature recomputed over both parts.
VerifyJwtToken(token) ==
  /\ token.parts = 3
  /\ token.json
  /\ token.alg = "HS256"
  /\ token.signed
  /\ ~ token.expired

JwtConnectionString(m) ==
  /\ {"jwtToken", "jwtSecret"} \subseteq m.given
  /\ VerifyJwtToken(m.token)
  /\ m.token.named

KerberosConnectionString(m) == {"krbServiceName", "username"} \subseteq m.given

LdapConnectionString(m) == {"username", "password"} \subseteq m.given

\* Whether getConnectionString() returns one; else the pool's factory fails,
\* the pool emits createError and goes on without the connection.
HasConnectionString(m) ==
  CASE m.strategy = "password" -> TRUE
    [] m.strategy = "jwt"      -> JwtConnectionString(m)
    [] m.strategy = "kerberos" -> KerberosConnectionString(m)
    [] m.strategy = "ldap"     -> LdapConnectionString(m)

-----------------------------------------------------------------------------
(* PoolManager.init() and authenticate(), up to the first await             *)

\* validateConfig(): the host stands for all it asks for.
ValidConfig(m) == "host" \in m.given

Needs == [password |-> {}, jwt |-> {}, kerberos |-> {"krbServiceName", "username"},
          ldap |-> {"username", "password", "ldapUrl"}]

\* AUTHENTICATING forgotten: CONNECTED is then refused.
AnnouncesNothingMutant(m) ==
  IF m.strategy = "jwt" THEN SetState(m, "CONNECTED") ELSE m

\* The states authenticate() sets before its first await; JWT awaits nothing and
\* looks at no token.
Announces(m) ==
  LET begun == SetState(m, "AUTHENTICATING")
  IN  IF m.strategy = "jwt" THEN SetState(begun, "CONNECTED") ELSE begun

FirstStep == [password |-> "authenticated", jwt |-> "authenticated",
              kerberos |-> "which", ldap |-> "connecting"]

Ends(m, step) == [m |-> m, step |-> step]

\* What authenticate() makes of a manager, and where it leaves its caller.
Authenticate(m) ==
  IF m.connectionState = "CONNECTED"
    THEN Ends(m, "authenticated")
    ELSE IF Needs[m.strategy] \subseteq m.given
           THEN Ends(Announces(m), FirstStep[m.strategy])
           ELSE Ends([SetState(SetState(m, "AUTHENTICATING"), "AUTH_FAILED")
                        EXCEPT !.failed = TRUE], "threw")

\* An invalid configuration logged and not thrown.
PoolInitSilentMutant(m) ==
  IF m.poolInitialized
    THEN Ends(m, "returned")
    ELSE IF ValidConfig(m) THEN Authenticate(m) ELSE Ends(m, "clientInit")

PoolInit(m) ==
  IF m.poolInitialized
    THEN Ends(m, "returned")
    ELSE IF ValidConfig(m) THEN Authenticate(m) ELSE Ends(m, "threw")

NewClient(a) ==
  [of |-> a, messageID |-> 1, socket |-> "connecting",
   buffer |-> <<>>, listeners |-> 0, promise |-> "nobody",
   answers |-> <<>>, coming |-> <<>>, chunks |-> 0, verdict |-> "none"]

UnderWay(a) == \E c \in Calls : call[c].on = a /\ call[c].step \in Working

\* Call c of a task runs PoolManager.init() on assembly a, which is m.  An LDAP
\* strategy makes its client and keeps it in its one field.
Initialize(c, task, a, m) ==
  LET after   == PoolInit(m)
      dials   == after.step = "connecting"
      client  == IF dials THEN Len(clients) + 1 ELSE NoClient
      settled == [after.m EXCEPT
                    !.ldapClient = IF dials THEN client ELSE @,
                    !.overlapped = @ \/ UnderWay(a)]
  IN  /\ managers' = IF a > Len(managers) THEN Append(managers, settled)
                                          ELSE [managers EXCEPT ![a] = settled]
      /\ clients' = IF dials THEN Append(clients, NewClient(a)) ELSE clients
      /\ call' = [call EXCEPT ![c] = [task |-> task, step |-> after.step,
                                      on |-> a, client |-> client]]

Begins(c) == call[c].step = "idle"

\* The application assembles a pool manager and initialises it.  Bound of the
\* model: one by hand, and none beside a module, which would share nothing with it.
Assemble(c) ==
  /\ Begins(c)
  /\ managers = <<>>
  /\ \A d \in Calls : call[d].task # "forRootAsync"
  /\ \E strategy \in Strategy : \E given \in Credentials[strategy],
          token \in IF strategy = "jwt" THEN Tokens ELSE {NoToken} :
         Initialize(c, "byHand", Len(managers) + 1,
                    Assembly("byHand", strategy, given, token))

\* The application initialises again a pool manager it has assembled.
InitAgain(c) ==
  /\ Begins(c)
  /\ \E a \in 1..Len(managers) :
       /\ managers[a].by = "byHand"
       /\ Initialize(c, "byHand", a, managers[a])

-----------------------------------------------------------------------------
(* The end of authenticate(), and the pool                                  *)

\* finally: the client the field holds now is the one that is closed.
CloseField(a, all) ==
  IF managers[a].ldapClient = NoClient
    THEN all
    ELSE [all EXCEPT ![managers[a].ldapClient].socket = "closed"]

\* What authenticate() leaves of a manager, having set its last state.
Ended(m, state, failed) ==
  [SetState(m, state) EXCEPT !.failed = @ \/ failed, !.ldapClient = NoClient]

Leave(c, state, step, failed, left) ==
  LET a == call[c].on
  IN  /\ managers' = [managers EXCEPT ![a] = Ended(@, state, failed)]
      /\ clients' = left
      /\ call' = [call EXCEPT ![c].step = step]

\* The clients are all as they were, or as the event that settles the call left them.
Succeed(c, all) ==
  Leave(c, "CONNECTED", "authenticated", FALSE, CloseField(call[c].on, all))

\* A failure like any other, and the cleanup forgotten on the way out.
FailAfterErrorMutant(c, all) ==
  Leave(c, "ERROR", "threw", TRUE, CloseField(call[c].on, all))

FailAfterOpenMutant(c, all) == Leave(c, "AUTH_FAILED", "threw", TRUE, all)

FailAfter(c, all) == Leave(c, "AUTH_FAILED", "threw", TRUE, CloseField(call[c].on, all))

Fail(c) == FailAfter(c, clients)

\* The rest of PoolManager.init(): the pool begins to open its connections, and
\* goes on without those that cannot be.
CreatePool(c) ==
  LET a == call[c].on
  IN  /\ call[c].step = "authenticated"
      /\ managers' = [managers EXCEPT
           ![a].poolInitialized = TRUE,
           ![a].opened = IF HasConnectionString(managers[a]) THEN "opened" ELSE "refused"]
      /\ call' = [call EXCEPT
           ![c].step = IF call[c].task = "byHand" THEN "returned" ELSE "clientInit"]
      /\ UNCHANGED clients

-----------------------------------------------------------------------------
(* Kerberos: KerberosClient, a child process or a file at each await        *)

Goes(c, to) ==
  /\ call' = [call EXCEPT ![c].step = to]
  /\ UNCHANGED <<managers, clients>>

\* checkKinitAvailability(); checkKeytab() has nothing to do without a keytab.
Which(c) ==
  /\ call[c].step = "which"
  /\ \/ Goes(c, IF "krbKeytab" \in managers[call[c].on].given THEN "keytab" ELSE "kinit")
     \/ Fail(c)

CheckKeytab(c) ==
  /\ call[c].step = "keytab"
  /\ Goes(c, "kinit") \/ Fail(c)

\* The keytab is tried first, then the password; the principal is looked at by
\* either.  A kinit that exits with 0 leaves a ticket, if the cache can be used.
AcquireKerberosTicket(c) ==
  LET a == call[c].on
  IN  /\ call[c].step = "kinit"
      /\ \/ /\ {"krbKeytab", "password"} \cap managers[a].given # {}
            /\ "validName" \in managers[a].given
            /\ \E ticket \in BOOLEAN :
                 managers' = [managers EXCEPT ![a].ticket = @ \/ ticket]
            /\ call' = [call EXCEPT ![c].step = "klist"]
            /\ UNCHANGED clients
         \/ Fail(c)

ValidateTicket(c) ==
  /\ call[c].step = "klist"
  /\ IF managers[call[c].on].ticket THEN Succeed(c, clients) ELSE Fail(c)

-----------------------------------------------------------------------------
(* LDAP: connect(), bind() and the events of the socket                     *)

Connected(c) ==
  LET k == call[c].client
  IN  /\ call[c].step = "connecting"
      /\ clients[k].socket = "connecting"
      /\ clients' = [clients EXCEPT ![k].socket = "open"]
      /\ call' = [call EXCEPT ![c].step = "connected"]
      /\ UNCHANGED managers

\* An invalid URL, a network error or a certificate that is not accepted.
ConnectFails(c) ==
  /\ call[c].step = "connecting"
  /\ clients[call[c].client].socket = "connecting"
  /\ Fail(c)

Request(client, name) ==
  EncodeBindRequest(client.messageID, 3, name, EncodeSimpleAuthentication(<<1>>))

\* bind() on the client the field holds now: a listener more, and the promise
\* of an earlier bind() on it is forgotten.  The server will answer.
Bound(client, c, answer) ==
  [client EXCEPT !.listeners = @ + 1, !.promise = c, !.messageID = @ + 1,
                 !.answers = Append(@, answer), !.coming = @ \o answer]

Bind(c) ==
  LET k == managers[call[c].on].ldapClient
  IN  /\ call[c].step = "connected"
      /\ k # NoClient
      /\ \E answer \in Answers :
           clients' = [clients EXCEPT ![k] = Bound(@, c, answer)]
      /\ call' = [call EXCEPT ![c].step = "binding", ![c].client = k]
      /\ UNCHANGED managers

\* The field was cleared by another call: a TypeError, caught as a failure.
BindNothing(c) ==
  /\ call[c].step = "connected"
  /\ managers[call[c].on].ldapClient = NoClient
  /\ Fail(c)

\* What a data event makes of a client's buffer and verdict: the handler runs
\* once for each bind().
Heard(client, data) ==
  LET heard[n \in 0..client.listeners] ==
        IF n = 0
          THEN [buffer |-> client.buffer, verdict |-> client.verdict]
          ELSE LET before == heard[n - 1]
                   said   == HandleData(before.buffer, data)
               IN  [buffer  |-> said.buffer,
                    verdict |-> IF before.verdict = "none" THEN said.verdict
                                                           ELSE before.verdict]
  IN  heard[client.listeners]

\* Some of what the server sent arrives, as the first n bytes.
Arrived(client, n) ==
  LET heard == Heard(client, SubSeq(client.coming, 1, n))
  IN  [client EXCEPT !.buffer = heard.buffer, !.verdict = heard.verdict,
                     !.coming = SubSeq(@, n + 1, Len(@)), !.chunks = @ + 1]

\* How many bytes may arrive: the last piece is all that is left.
Arrivals(client) ==
  LET left == Len(client.coming)
  IN  IF client.chunks + 1 >= MaxChunks
        THEN {left}
        ELSE {IF size < left THEN size ELSE left : size \in ChunkSizes}

\* A first verdict settles the promise of the last bind(), whose call goes on.
DataArrives(k) ==
  /\ clients[k].socket = "open"
  /\ clients[k].coming # <<>>
  /\ \E n \in Arrivals(clients[k]) :
       LET here == Arrived(clients[k], n)
           all  == [clients EXCEPT ![k] = here]
       IN  \/ /\ clients[k].verdict = here.verdict
              /\ clients' = all
              /\ UNCHANGED <<managers, call>>
           \/ /\ clients[k].verdict = "none" /\ here.verdict = "resolve"
              /\ Succeed(here.promise, all)
           \/ /\ clients[k].verdict = "none" /\ here.verdict = "reject"
              /\ FailAfter(here.promise, all)

\* An error or an end after connect(): no listener that would reject the bind.
SocketLost(k) ==
  /\ clients[k].socket = "open"
  /\ clients' = [clients EXCEPT ![k].socket = "lost"]
  /\ UNCHANGED <<managers, call>>

-----------------------------------------------------------------------------
\* What the initialisation of assembly a does next.
AuthenticationStep(c) ==
  \/ Which(c) \/ CheckKeytab(c) \/ AcquireKerberosTicket(c) \/ ValidateTicket(c)
  \/ Connected(c) \/ ConnectFails(c) \/ Bind(c) \/ BindNothing(c)
  \/ CreatePool(c)

NetworkStep == \E k \in 1..Len(clients) : DataArrives(k) \/ SocketLost(k)
=============================================================================
