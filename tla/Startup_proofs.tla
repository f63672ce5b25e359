--------------------------- MODULE Startup_proofs ---------------------------
(***************************************************************************)
(* What the start keeps, whatever the number of calls, the credentials, the *)
(* answers of the LDAP server and the pieces in which they arrive: which    *)
(* connection states a pool is initialised behind, which LDAP connections   *)
(* stay open, what forRootAsync() returns, and who has vouched for the user *)
(* of a pool that opens.                                                    *)
(***************************************************************************)
EXTENDS Ldap_proofs

-----------------------------------------------------------------------------
(* The invariant.                                                          *)

Task   == {"none", "byHand", "forRoot", "forRootAsync"}
Step   == Working \cup {"idle", "returned", "threw"}
State  == {"DISCONNECTED", "AUTHENTICATING", "CONNECTED", "AUTH_FAILED"}
Socket == {"connecting", "open", "lost", "closed"}

Table == {CreateTable(Entities[i]) : i \in 1..Len(Entities)}

Manager ==
  [by: {"byHand", "module"}, strategy: Strategy,
   given: UNION {Credentials[strategy] : strategy \in Strategy},
   token: Tokens \cup {NoToken}, connectionState: State, poolInitialized: BOOLEAN,
   opened: {"none", "opened", "refused"}, ldapClient: Nat, migrated: Seq(Table),
   ticket: BOOLEAN, failed: BOOLEAN, overlapped: BOOLEAN]

IsList(s) == s \in Seq(ToSet(s))

\* A client made for one of the first n assemblies; nothing is to come before a
\* bind() has asked for it.
IsClient(client, n) ==
  /\ DOMAIN client = ClientFields
  /\ client.of \in 1..n
  /\ client.socket \in Socket
  /\ client.verdict \in Answered
  /\ client.promise \in Calls \/ client.coming = <<>>

Typed ==
  /\ managers \in Seq(Manager)
  /\ IsList(clients)
  /\ \A k \in 1..Len(clients) : IsClient(clients[k], Len(managers))
  /\ call \in [Calls -> [task: Task, step: Step, on: 0..Len(managers),
                         client: 0..Len(clients)]]
  /\ \A a \in 1..Len(managers) : managers[a].ldapClient \in 0..Len(clients)
  /\ instance \in 0..Len(managers)
  /\ overtaken \in BOOLEAN

\* A call is at work on the assembly it is on.
Busy(c) == call[c].step \in Working \ {"factory"}
Dialing == {"connecting", "connected", "binding"}

\* Where a call may be, and whose client it uses.
Placed ==
  /\ \A c \in Calls :
       /\ Busy(c) =>
            /\ call[c].on \in 1..Len(managers)
            /\ \/ call[c].task = "byHand" /\ managers[call[c].on].by = "byHand"
               \/ call[c].task = "forRootAsync" /\ managers[call[c].on].by = "module"
       /\ call[c].step \in {"factory", "clientInit", "migrating"} =>
            call[c].task = "forRootAsync"
       /\ call[c].step \in {"factory", "idle"} => call[c].on = 0
       /\ call[c].step = "idle" => call[c].task = "none"
       /\ call[c].step \in Dialing =>
            /\ call[c].client \in 1..Len(clients)
            /\ clients[call[c].client].of = call[c].on
  /\ \A a \in 1..Len(managers) :
       managers[a].ldapClient # NoClient => clients[managers[a].ldapClient].of = a

\* A bind() that is not answered is awaited by the call that made it last.
Promised ==
  \A k \in 1..Len(clients) :
    clients[k].verdict = "none" /\ clients[k].promise \in Calls =>
      /\ call[clients[k].promise].step = "binding"
      /\ call[clients[k].promise].client = k

\* A state behind which a pool may be initialised.
Usable(m) ==
  \/ m.connectionState = "CONNECTED"
  \/ m.connectionState = "AUTHENTICATING" /\ m.strategy = "password"
  \/ m.connectionState = "AUTH_FAILED" /\ m.failed

Recorded ==
  /\ \A a \in 1..Len(managers) :
       /\ managers[a].connectionState = "AUTH_FAILED" => managers[a].failed
       /\ managers[a].poolInitialized => Usable(managers[a])
  /\ \A c \in Calls :
       /\ Busy(c) => managers[call[c].on].connectionState # "DISCONNECTED"
       /\ call[c].step \in {"authenticated", "clientInit"} => Usable(managers[call[c].on])

\* Two calls at work on one assembly have overlapped; on a module they never do.
Alone ==
  /\ \A c, d \in Calls :
       c # d /\ Busy(c) /\ Busy(d) /\ call[c].on = call[d].on
         => managers[call[c].on].overlapped
  /\ \A a \in 1..Len(managers) :
       managers[a].by = "module"
         => managers[a].strategy = "password" /\ ~ managers[a].overlapped

\* The call that uses client k, which its assembly keeps.
Uses(c, k) ==
  /\ call[c].on = clients[k].of
  /\ call[c].step \in Dialing
  /\ call[c].client = k

OpenIsUsed ==
  \A k \in 1..Len(clients) :
    \/ clients[k].socket = "closed"
    \/ managers[clients[k].of].overlapped
    \/ managers[clients[k].of].ldapClient = k /\ \E c \in Calls : Uses(c, k)

\* The tables made are the first of those asked for.
Created(m) ==
  /\ Len(m.migrated) <= Len(Entities)
  /\ \A i \in 1..Len(m.migrated) : m.migrated[i] = CreateTable(Entities[i])

\* How far the call that starts a module has come.
Started(m, step) ==
  /\ step \in {"authenticated", "clientInit"} =>
       m.connectionState = "AUTHENTICATING" /\ m.migrated = <<>>
  /\ step = "migrating" =>
       /\ m.connectionState = "CONNECTED" /\ m.poolInitialized
       /\ "migration" \in m.given /\ Len(m.migrated) < Len(Entities)
  /\ step \in Working => step \in {"authenticated", "clientInit", "migrating"}

Starting ==
  /\ \A a \in 1..Len(managers) : Created(managers[a])
  /\ \A c \in Calls : call[c].task = "forRootAsync" /\ Busy(c) =>
                        Started(managers[call[c].on], call[c].step)

\* Until a call is overtaken, the one that has made the instance is on it.
Instance ==
  /\ instance # NoInstance => managers[instance].by = "module"
  /\ ~ overtaken =>
       /\ \A c \in Calls : call[c].task = "forRootAsync" =>
            /\ call[c].on # 0 => call[c].on = instance
            /\ call[c].step = "returned" => call[c].on # 0
       /\ \A c, d \in Calls :
            /\ call[c].task = "forRootAsync" /\ call[d].task = "forRootAsync"
            /\ call[c].on # 0 /\ call[d].on # 0
            => c = d

StartInv ==
  /\ Typed /\ Placed /\ Promised /\ Recorded /\ Alone /\ OpenIsUsed
  /\ Starting /\ Instance /\ ReturnedIsReady

-----------------------------------------------------------------------------
(* Sequences of managers and of clients.                                    *)

\* A sequence with one element replaced.
LEMMA SeqPut ==
  ASSUME NEW S, NEW s \in Seq(S), NEW i \in 1..Len(s), NEW v \in S,
         NEW t, t = [s EXCEPT ![i] = v]
  PROVE  /\ t \in Seq(S) /\ Len(t) = Len(s)
         /\ \A j \in 1..Len(s) : t[j] = IF j = i THEN v ELSE s[j]
OBVIOUS

\* A sequence with one element more.
LEMMA SeqAdd ==
  ASSUME NEW S, NEW s \in Seq(S), NEW v \in S, NEW t, t = Append(s, v)
  PROVE  /\ t \in Seq(S) /\ Len(t) = Len(s) + 1
         /\ \A j \in 1..(Len(s) + 1) : t[j] = IF j = Len(s) + 1 THEN v ELSE s[j]
<1>1. t \in Seq(S) /\ Len(t) = Len(s) + 1 /\ Len(s) \in Nat
  OBVIOUS
<1>2. DOMAIN t = 1..(Len(s) + 1)
  BY <1>1
<1>3. QED
  BY <1>1, <1>2

\* A sequence is one of its own elements, whatever else it is a sequence of.
LEMMA OfItsOwn ==
  ASSUME NEW S, NEW s \in Seq(S)
  PROVE  s \in Seq(ToSet(s)) /\ s \in Seq(ToSet(s) \cup S)
<1>1. Len(s) \in Nat /\ DOMAIN s = 1..Len(s) /\ s = [i \in 1..Len(s) |-> s[i]]
  OBVIOUS
<1>2. \A i \in 1..Len(s) : s[i] \in ToSet(s)
  BY <1>1 DEF ToSet
<1>3. QED
  BY <1>1, <1>2

\* t is s with element i replaced by v.
Replaced(t, s, i, v) ==
  /\ IsList(t) /\ Len(t) = Len(s)
  /\ \A j \in 1..Len(s) : t[j] = IF j = i THEN v ELSE s[j]

\* The same two for clients, whose fields are not typed.
LEMMA ClientPut ==
  ASSUME NEW s, IsList(s), NEW i \in 1..Len(s), NEW v
  PROVE  Replaced([s EXCEPT ![i] = v], s, i, v)
<1>0. PICK t : t = [s EXCEPT ![i] = v]
  OBVIOUS
<1>1. PICK S : S = ToSet(s) \cup {v}
  OBVIOUS
<1>2. s \in Seq(S) /\ v \in S
  <2>1. Len(s) \in Nat /\ s = [k \in 1..Len(s) |-> s[k]]
    BY DEF IsList
  <2>2. \A k \in 1..Len(s) : s[k] \in S
    BY <1>1 DEF IsList
  <2>3. QED
    BY <1>1, <2>1, <2>2
<1>3. /\ t \in Seq(S) /\ Len(t) = Len(s)
      /\ \A j \in 1..Len(s) : t[j] = IF j = i THEN v ELSE s[j]
  BY <1>0, <1>2, SeqPut
<1>4. QED
  BY <1>0, <1>3, OfItsOwn DEF IsList, Replaced

\* t is s with v after it.
Extended(t, s, v) ==
  /\ IsList(t) /\ Len(t) = Len(s) + 1
  /\ \A j \in 1..(Len(s) + 1) : t[j] = IF j = Len(s) + 1 THEN v ELSE s[j]

\* A client more.
LEMMA ClientAdd ==
  ASSUME NEW s, IsList(s), NEW v
  PROVE  Extended(Append(s, v), s, v)
<1>0. PICK t : t = Append(s, v)
  OBVIOUS
<1>1. PICK S : S = ToSet(s) \cup {v}
  OBVIOUS
<1>2. s \in Seq(S) /\ v \in S
  <2>1. Len(s) \in Nat /\ s = [k \in 1..Len(s) |-> s[k]]
    BY DEF IsList
  <2>2. \A k \in 1..Len(s) : s[k] \in S
    BY <1>1 DEF IsList
  <2>3. QED
    BY <1>1, <2>1, <2>2
<1>3. /\ t \in Seq(S) /\ Len(t) = Len(s) + 1
      /\ \A j \in 1..(Len(s) + 1) : t[j] = IF j = Len(s) + 1 THEN v ELSE s[j]
  BY <1>0, <1>2, SeqAdd
<1>4. QED
  BY <1>0, <1>3, OfItsOwn DEF IsList, Extended

-----------------------------------------------------------------------------
(* Connection states.                                                      *)

\* Nothing leads out of CONNECTED or AUTH_FAILED here, nor back to DISCONNECTED.
LEMMA MovedTo ==
  ASSUME NEW from \in State, NEW to \in {"AUTHENTICATING", "CONNECTED", "AUTH_FAILED"}
  PROVE  /\ Moved(from, to) \in State
         /\ from # "DISCONNECTED" => Moved(from, to) # "DISCONNECTED"
         /\ from = "DISCONNECTED" /\ to = "AUTHENTICATING"
              => Moved(from, to) = "AUTHENTICATING"
         /\ from \in {"CONNECTED", "AUTH_FAILED"} => Moved(from, to) = from
         /\ from = "AUTHENTICATING" => Moved(from, to) = to
<1> USE DEF Moved, IsValidTransition, ValidTransitions, State
<1>1. CASE from = "DISCONNECTED"
  BY <1>1
<1>2. CASE from = "AUTHENTICATING"
  BY <1>2
<1>3. CASE from = "CONNECTED"
  BY <1>3
<1>4. CASE from = "AUTH_FAILED"
  BY <1>4
<1>5. QED
  BY <1>1, <1>2, <1>3, <1>4

\* n has what m was given, and the marks of the strategies and of the pool.
Papers(n, m) ==
  /\ n.strategy = m.strategy /\ n.given = m.given /\ n.token = m.token
  /\ n.ticket = m.ticket /\ n.opened = m.opened

\* What a setState() leaves of a manager: all but its state.
LEMMA SetStateIs ==
  ASSUME NEW m \in Manager, NEW s \in {"AUTHENTICATING", "CONNECTED", "AUTH_FAILED"}
  PROVE  /\ SetState(m, s) \in Manager
         /\ SetState(m, s) = [m EXCEPT !.connectionState = Moved(m.connectionState, s)]
         /\ SetState(m, s).connectionState = Moved(m.connectionState, s)
         /\ SetState(m, s).strategy = m.strategy /\ SetState(m, s).by = m.by
         /\ SetState(m, s).given = m.given /\ SetState(m, s).failed = m.failed
         /\ SetState(m, s).migrated = m.migrated
         /\ SetState(m, s).ldapClient = m.ldapClient
         /\ SetState(m, s).overlapped = m.overlapped
         /\ SetState(m, s).poolInitialized = m.poolInitialized
<1>1. Moved(m.connectionState, s) \in State
  BY MovedTo DEF Manager
<1>2. QED
  BY <1>1 DEF SetState, Manager

\* What the end of authenticate() leaves of a manager.
LEMMA EndedIs ==
  ASSUME NEW m \in Manager, NEW s \in {"CONNECTED", "AUTH_FAILED"},
         NEW failed \in BOOLEAN, NEW e, e = Ended(m, s, failed)
  PROVE  /\ e \in Manager /\ e.ldapClient = 0
         /\ e.connectionState = Moved(m.connectionState, s)
         /\ e.strategy = m.strategy /\ e.by = m.by /\ e.given = m.given
         /\ e.migrated = m.migrated /\ e.overlapped = m.overlapped
         /\ e.poolInitialized = m.poolInitialized
         /\ m.failed \/ failed => e.failed
<1>1. PICK t : t = SetState(m, s)
  OBVIOUS
<1>2. /\ t \in Manager /\ t.connectionState = Moved(m.connectionState, s)
      /\ t.strategy = m.strategy /\ t.by = m.by /\ t.given = m.given
      /\ t.migrated = m.migrated /\ t.overlapped = m.overlapped
      /\ t.poolInitialized = m.poolInitialized /\ t.failed = m.failed
  BY <1>1, SetStateIs
<1>3. PICK f \in BOOLEAN : f = (t.failed \/ failed)
  BY <1>2 DEF Manager
<1>4. e = [t EXCEPT !.failed = f, !.ldapClient = 0]
  BY <1>1, <1>3 DEF Ended, NoClient
<1>5. e.failed = f
  BY <1>2, <1>4 DEF Manager
<1>m. e \in Manager
  <2>1. PICK g : g = [t EXCEPT !.failed = f]
    OBVIOUS
  <2>2. g \in Manager
    BY <1>2, <1>3, <2>1 DEF Manager
  <2>3. e = [g EXCEPT !.ldapClient = 0]
    BY <1>4, <2>1
  <2>4. QED
    BY <2>2, <2>3 DEF Manager
<1>6. /\ e.ldapClient = 0 /\ e.connectionState = t.connectionState
      /\ e.strategy = t.strategy /\ e.by = t.by /\ e.given = t.given
      /\ e.migrated = t.migrated /\ e.overlapped = t.overlapped
      /\ e.poolInitialized = t.poolInitialized
  BY <1>2, <1>4 DEF Manager
<1>7. QED
  BY <1>2, <1>3, <1>5, <1>6, <1>m

-----------------------------------------------------------------------------
(* The first state.                                                        *)

\* Nothing is assembled and no call has begun.
LEMMA StartInit == Init => StartInv
<1> SUFFICES ASSUME Init PROVE StartInv
  OBVIOUS
<1>1. /\ managers = <<>> /\ clients = <<>> /\ instance = 0 /\ ~ overtaken
      /\ overtaken \in BOOLEAN
      /\ call = [c \in Calls |-> Idle]
  BY DEF Init, InitAuthentication, NoInstance
<1>2. Len(managers) = 0 /\ Len(clients) = 0
  BY <1>1
<1>3. Idle \in [task: Task, step: Step, on: 0..0, client: 0..0]
  BY DEF Idle, Task, Step, NoClient
<1>4. Typed
  BY <1>1, <1>2, <1>3 DEF Typed, IsList
<1>5. \A c \in Calls : call[c].step = "idle" /\ call[c].task = "none" /\ call[c].on = 0
  BY <1>1 DEF Idle
<1>6. \A c \in Calls : ~ Busy(c)
  BY <1>5 DEF Busy, Working
<1>7. Placed /\ Promised /\ Recorded /\ Alone /\ OpenIsUsed
  BY <1>1, <1>2, <1>5, <1>6 DEF Placed, Promised, Recorded, Alone, OpenIsUsed, Dialing
<1>8. Starting /\ Instance /\ ReturnedIsReady
  BY <1>1, <1>2, <1>5, <1>6 DEF Starting, Instance, NoInstance, ReturnedIsReady
<1>9. QED
  BY <1>4, <1>7, <1>8 DEF StartInv

-----------------------------------------------------------------------------
(* One step of a call.                                                      *)

\* The clients an event leaves: the same ones, whatever they have heard.
Alike(all) ==
  /\ IsList(all) /\ Len(all) = Len(clients)
  /\ \A k \in 1..Len(clients) :
       IsClient(all[k], Len(managers)) /\ all[k].of = clients[k].of

\* Assembly a becomes m, and no other changes.
Became(a, m) ==
  /\ managers' \in Seq(Manager) /\ Len(managers') = Len(managers)
  /\ \A b \in 1..Len(managers) : managers'[b] = IF b = a THEN m ELSE managers[b]

\* Call c goes on to a step, on an assembly and with a client, and no other does.
Turned(c, step, on, client) ==
  /\ call' \in [Calls -> [task: Task, step: Step, on: 0..Len(managers),
                          client: 0..Len(clients)]]
  /\ \A d \in Calls :
       /\ call'[d].task = call[d].task
       /\ call'[d].step = IF d = c THEN step ELSE call[d].step
       /\ call'[d].on = IF d = c THEN on ELSE call[d].on
       /\ call'[d].client = IF d = c THEN client ELSE call[d].client

\* A manager ready for use.
IsReady(m) ==
  /\ m.poolInitialized
  /\ m.connectionState = "CONNECTED"
  /\ "migration" \in m.given =>
       m.migrated = [i \in 1..Len(Entities) |-> CreateTable(Entities[i])]

\* What a step of a call may make of its assembly.
Follows(m, n) ==
  /\ n \in Manager
  /\ n.by = m.by /\ n.strategy = m.strategy /\ n.given = m.given
  /\ n.overlapped = m.overlapped /\ n.ldapClient \in {NoClient, m.ldapClient}
  /\ n.connectionState # "DISCONNECTED"
  /\ n.connectionState = "AUTH_FAILED" => n.failed
  /\ Usable(m) \/ n.poolInitialized => Usable(n)
  /\ Created(n)

\* What it may make of the clients: the last bind() on each is awaited by c, if
\* c has made it, and by whom it was awaited, if not; a client c does not use is
\* closed if c was alone.
ClientsFollow(c, a, m, step, client) ==
  /\ Alike(clients')
  /\ \A k \in 1..Len(clients) :
       /\ clients'[k].verdict = "none" /\ clients'[k].promise \in Calls =>
            IF clients'[k].promise = c
              THEN step = "binding" /\ client = k
              ELSE clients[k].verdict = "none"
                     /\ clients[k].promise = clients'[k].promise
       /\ clients'[k].socket # "closed" =>
            /\ clients[k].socket # "closed"
            /\ clients[k].of = a /\ ~ m.overlapped =>
                 m.ldapClient = k /\ step \in Dialing /\ client = k

\* Call c, at work on assembly a, goes on, and the invariant with it.
LEMMA WorkKeeps ==
  ASSUME StartInv, NEW c \in Calls, Busy(c), NEW a, a = call[c].on,
         NEW m, Became(a, m), Follows(managers[a], m),
         NEW step, step \in Step \ {"idle", "factory"}, NEW on, NEW client,
         Turned(c, step, on, client), ClientsFollow(c, a, m, step, client),
         step \in {"authenticated", "clientInit"} => Usable(m),
         step \in {"clientInit", "migrating"} => call[c].task = "forRootAsync",
         step \in Dialing =>
           client \in 1..Len(clients) /\ clients[client].of = a,
         call[c].task = "forRootAsync" =>
           Started(m, step) /\ (step = "returned" => on = instance /\ IsReady(m)),
         on = a \/ (step = "returned" /\ call[c].task = "forRootAsync"),
         UNCHANGED <<instance, overtaken>>
  PROVE  StartInv'
<1>0. /\ Typed /\ Placed /\ Promised /\ Recorded /\ Alone /\ OpenIsUsed
      /\ Starting /\ Instance /\ ReturnedIsReady
  BY DEF StartInv
<1>3. /\ a \in 1..Len(managers) /\ Len(managers) \in Nat /\ Len(clients) \in Nat
      /\ \/ call[c].task = "byHand" /\ managers[a].by = "byHand"
         \/ call[c].task = "forRootAsync" /\ managers[a].by = "module"
  BY <1>0 DEF Placed, Typed, IsList
<1>7. /\ m \in Manager /\ m.by = managers[a].by /\ m.strategy = managers[a].strategy
      /\ m.given = managers[a].given /\ m.overlapped = managers[a].overlapped
      /\ m.ldapClient \in {0, managers[a].ldapClient}
      /\ m.connectionState # "DISCONNECTED"
      /\ m.connectionState = "AUTH_FAILED" => m.failed
      /\ Usable(managers[a]) => Usable(m)
      /\ m.poolInitialized => Usable(m)
      /\ Created(m)
  BY DEF Follows, NoClient
<1>11. /\ managers' \in Seq(Manager) /\ Len(managers') = Len(managers)
       /\ \A b \in 1..Len(managers) : managers'[b] = IF b = a THEN m ELSE managers[b]
  BY DEF Became
<1>12. /\ IsList(clients') /\ Len(clients') = Len(clients)
       /\ \A k \in 1..Len(clients) :
            /\ IsClient(clients'[k], Len(managers))
            /\ clients'[k].of = clients[k].of
  BY DEF ClientsFollow, Alike
<1>13. \A d \in Calls :
         /\ call'[d].task = call[d].task
         /\ call'[d].step = IF d = c THEN step ELSE call[d].step
         /\ call'[d].on = IF d = c THEN on ELSE call[d].on
         /\ call'[d].client = IF d = c THEN client ELSE call[d].client
  BY DEF Turned
<1>14. \A d \in Calls :
         /\ Busy(d)' => Busy(d) /\ call'[d].on = call[d].on
         /\ call'[d].step \in {"factory", "idle"} =>
              d # c /\ call'[d].step = call[d].step
  <2>1. step = "returned" => step \notin Working
    BY DEF Working
  <2>2. QED
    BY <1>13, <2>1 DEF Busy
<1>15. Typed'
  <2>1. call' \in [Calls -> [task: Task, step: Step, on: 0..Len(managers'),
                             client: 0..Len(clients')]]
    BY <1>11, <1>12 DEF Turned
  <2>2. \A b \in 1..Len(managers') : managers'[b].ldapClient \in 0..Len(clients')
    BY <1>0, <1>3, <1>7, <1>11, <1>12 DEF Typed
  <2>3. \A k \in 1..Len(clients') : IsClient(clients'[k], Len(managers'))
    BY <1>11, <1>12
  <2>4. QED
    BY <1>0, <1>11, <1>12, <2>1, <2>2, <2>3 DEF Typed
<1>16. Placed'
  <2>1. \A d \in Calls : Busy(d)' =>
          /\ call'[d].on \in 1..Len(managers')
          /\ \/ call'[d].task = "byHand" /\ managers'[call'[d].on].by = "byHand"
             \/ /\ call'[d].task = "forRootAsync"
                /\ managers'[call'[d].on].by = "module"
    BY SMTT(30), <1>0, <1>3, <1>7, <1>11, <1>13, <1>14 DEF Placed
  <2>2. ASSUME NEW d \in Calls
        PROVE  /\ call'[d].step \in {"factory", "clientInit", "migrating"} =>
                    call'[d].task = "forRootAsync"
               /\ call'[d].step \in {"factory", "idle"} => call'[d].on = 0
               /\ call'[d].step = "idle" => call'[d].task = "none"
    <3>1. call'[d].step \in {"factory", "idle"} =>
            call'[d].step = call[d].step /\ call'[d].on = call[d].on
      BY <1>13, <1>14
    <3>2. call'[d].step \in {"factory", "clientInit", "migrating"} =>
            call'[d].task = "forRootAsync"
      BY <1>0, <1>13, <3>1 DEF Placed
    <3>3. QED
      BY <1>0, <1>13, <3>1, <3>2 DEF Placed
  <2>3. ASSUME NEW d \in Calls, call'[d].step \in Dialing
        PROVE  /\ call'[d].client \in 1..Len(clients')
               /\ clients'[call'[d].client].of = call'[d].on
    <3>1. CASE d # c
      <4>1. /\ call[d].client \in 1..Len(clients)
            /\ clients[call[d].client].of = call[d].on
        BY <1>0, <1>13, <2>3, <3>1 DEF Placed
      <4>2. QED
        BY <1>12, <1>13, <3>1, <4>1
    <3>2. CASE d = c
      <4>1. step \in Dialing /\ on = a
        BY <1>13, <2>3, <3>2 DEF Dialing
      <4>2. QED
        BY <1>12, <1>13, <3>2, <4>1
    <3>3. QED
      BY <3>1, <3>2
  <2>4. ASSUME NEW b \in 1..Len(managers), managers'[b].ldapClient # NoClient
        PROVE  clients'[managers'[b].ldapClient].of = b
    <3>1. managers'[b].ldapClient = managers[b].ldapClient
      BY <1>7, <1>11, <2>4 DEF NoClient
    <3>2. /\ managers[b].ldapClient \in 1..Len(clients)
          /\ clients[managers[b].ldapClient].of = b
      BY <1>0, <1>3, <2>4, <3>1 DEF Placed, Typed, NoClient
    <3>3. QED
      BY <1>12, <3>1, <3>2
  <2>5. QED
    BY <1>11, <2>1, <2>2, <2>3, <2>4 DEF Placed
<1>17. Promised'
  <2> SUFFICES ASSUME NEW k \in 1..Len(clients), clients'[k].verdict = "none",
                      clients'[k].promise \in Calls
               PROVE  /\ call'[clients'[k].promise].step = "binding"
                      /\ call'[clients'[k].promise].client = k
    BY <1>12 DEF Promised
  <2>1. PICK d \in Calls : d = clients'[k].promise
    OBVIOUS
  <2>2. CASE d = c
    BY <1>13, <2>1, <2>2 DEF ClientsFollow
  <2>3. CASE d # c
    <3>1. clients[k].verdict = "none" /\ clients[k].promise = d
      BY <2>1, <2>3 DEF ClientsFollow
    <3>2. call[d].step = "binding" /\ call[d].client = k
      BY <1>0, <3>1 DEF Promised
    <3>3. QED
      BY <1>13, <2>1, <2>3, <3>2
  <2>4. QED
    BY <2>2, <2>3
<1>19. Recorded'
  <2>1. \A b \in 1..Len(managers') :
          /\ managers'[b].connectionState = "AUTH_FAILED" => managers'[b].failed
          /\ managers'[b].poolInitialized => Usable(managers'[b])
    BY <1>0, <1>7, <1>11 DEF Recorded
  <2>2. ASSUME NEW d \in Calls, Busy(d)'
        PROVE  managers'[call'[d].on].connectionState # "DISCONNECTED"
    <3>1. Busy(d) /\ call'[d].on = call[d].on /\ call[d].on \in 1..Len(managers)
      BY <1>0, <1>14, <2>2 DEF Placed
    <3>2. QED
      BY <1>0, <1>7, <1>11, <3>1 DEF Recorded
  <2>3. ASSUME NEW d \in Calls, call'[d].step \in {"authenticated", "clientInit"}
        PROVE  Usable(managers'[call'[d].on])
    <3>1. Busy(d)'
      BY <2>3 DEF Busy, Working
    <3>2. Busy(d) /\ call'[d].on = call[d].on /\ call[d].on \in 1..Len(managers)
      BY <1>0, <1>14, <3>1 DEF Placed
    <3>3. CASE d = c
      BY <1>3, <1>11, <1>13, <2>3, <3>2, <3>3
    <3>4. CASE d # c
      <4>1. Usable(managers[call[d].on])
        BY <1>0, <1>13, <2>3, <3>4 DEF Recorded
      <4>2. QED
        BY <1>7, <1>11, <3>2, <4>1
    <3>5. QED
      BY <3>3, <3>4
  <2>4. QED
    BY <2>1, <2>2, <2>3 DEF Recorded
<1>20. Alone'
  <2>1. ASSUME NEW d \in Calls, NEW e \in Calls, d # e, Busy(d)', Busy(e)',
               call'[d].on = call'[e].on
        PROVE  managers'[call'[d].on].overlapped
    <3>1. /\ Busy(d) /\ Busy(e) /\ call[d].on = call[e].on
          /\ call'[d].on = call[d].on /\ call[d].on \in 1..Len(managers)
      BY <1>0, <1>14, <2>1 DEF Placed
    <3>2. managers[call[d].on].overlapped
      BY <1>0, <2>1, <3>1 DEF Alone
    <3>3. QED
      BY <1>7, <1>11, <3>1, <3>2
  <2>2. \A b \in 1..Len(managers') : managers'[b].by = "module" =>
          managers'[b].strategy = "password" /\ ~ managers'[b].overlapped
    BY <1>0, <1>7, <1>11 DEF Alone
  <2>3. QED
    BY <2>1, <2>2 DEF Alone
<1>21. OpenIsUsed'
  <2> SUFFICES ASSUME NEW k \in 1..Len(clients), clients'[k].socket # "closed",
                      ~ managers'[clients'[k].of].overlapped
               PROVE  /\ managers'[clients'[k].of].ldapClient = k
                      /\ \E d \in Calls : Uses(d, k)'
    BY <1>12 DEF OpenIsUsed
  <2>1. PICK b \in 1..Len(managers) : b = clients[k].of /\ clients'[k].of = b
    BY <1>12 DEF IsClient
  <2>2. CASE b = a
    <3>1. m.ldapClient = k /\ step \in Dialing /\ client = k
      <4>1. clients[k].of = a /\ ~ m.overlapped
        BY <1>11, <2>1, <2>2
      <4>2. QED
        BY <4>1 DEF ClientsFollow
    <3>2. on = a
      BY <3>1 DEF Dialing
    <3>3. Uses(c, k)'
      BY <1>13, <2>1, <2>2, <3>1, <3>2 DEF Uses
    <3>4. QED
      BY <1>11, <2>1, <2>2, <3>1, <3>3
  <2>3. CASE b # a
    <3>1. managers'[b] = managers[b] /\ clients[k].socket # "closed"
      BY <1>11, <2>1, <2>3 DEF ClientsFollow
    <3>2. managers[b].ldapClient = k /\ \E d \in Calls : Uses(d, k)
      BY <1>0, <2>1, <3>1 DEF OpenIsUsed
    <3>3. PICK d \in Calls : Uses(d, k)
      BY <3>2
    <3>4. d # c
      BY <2>1, <2>3, <3>3 DEF Uses
    <3>5. Uses(d, k)'
      BY <1>12, <1>13, <3>3, <3>4 DEF Uses
    <3>6. QED
      BY <2>1, <3>1, <3>2, <3>5
  <2>4. QED
    BY <2>2, <2>3
<1>22. Starting'
  <2>1. \A b \in 1..Len(managers') : Created(managers'[b])
    BY <1>0, <1>7, <1>11 DEF Starting
  <2>2. ASSUME NEW d \in Calls, call'[d].task = "forRootAsync", Busy(d)'
        PROVE  Started(managers'[call'[d].on], call'[d].step)
    <3>1. /\ Busy(d) /\ call'[d].on = call[d].on /\ call[d].task = "forRootAsync"
      BY <1>13, <1>14, <2>2
    <3>2. call[d].on \in 1..Len(managers) /\ managers[call[d].on].by = "module"
      BY <1>0, <3>1 DEF Placed
    <3>3. CASE d = c
      BY <1>3, <1>11, <1>13, <3>1, <3>3
    <3>4. CASE d # c
      <4>1. call[d].on # a
        BY <1>0, <3>1, <3>2, <3>4 DEF Alone
      <4>2. managers'[call'[d].on] = managers[call[d].on] /\ call'[d].step = call[d].step
        BY <1>11, <1>13, <3>1, <3>2, <3>4, <4>1
      <4>3. Started(managers[call[d].on], call[d].step)
        BY <1>0, <3>1 DEF Starting
      <4>4. QED
        BY <4>2, <4>3
    <3>5. QED
      BY <3>3, <3>4
  <2>3. QED
    BY <2>1, <2>2 DEF Starting
<1>i. ~ overtaken /\ call[c].task = "forRootAsync" => a = instance /\ on = a
  BY <1>0, <1>3 DEF Instance
<1>23. Instance'
  <2>1. instance # 0 => managers'[instance].by = "module"
    BY <1>0, <1>3, <1>7, <1>11 DEF Instance, Typed, NoInstance
  <2>2. ASSUME ~ overtaken, NEW d \in Calls, call[d].task = "forRootAsync"
        PROVE  /\ call'[d].on = call[d].on
               /\ call'[d].on # 0 => call'[d].on = instance
               /\ call'[d].step = "returned" => call'[d].on # 0
    <3>1. CASE d = c
      BY <1>3, <1>13, <1>i, <2>2, <3>1
    <3>2. CASE d # c
      BY <1>0, <1>13, <2>2, <3>2 DEF Instance
    <3>3. QED
      BY <3>1, <3>2
  <2>3. \A d \in Calls : call'[d].task = call[d].task
    BY <1>13
  <2>4. QED
    BY <1>0, <2>1, <2>2, <2>3 DEF Instance, NoInstance
<1>24. ReturnedIsReady'
  <2> SUFFICES ASSUME NEW d \in Calls, call'[d].task = "forRootAsync",
                      call'[d].step = "returned", ~ overtaken'
               PROVE  IsReady(managers'[call'[d].on])
    BY DEF ReturnedIsReady, Ready, IsReady
  <2>1. call[d].task = "forRootAsync" /\ ~ overtaken
    BY <1>13
  <2>2. CASE d = c
    BY <1>3, <1>11, <1>13, <1>i, <2>1, <2>2
  <2>3. CASE d # c
    <3>1. call[d].step = "returned" /\ call'[d].on = call[d].on
      BY <1>13, <2>3
    <3>2. Ready(call[d].on)
      BY <1>0, <2>1, <3>1 DEF ReturnedIsReady
    <3>3. call[d].on \in 1..Len(managers) /\ call[d].on = instance
      BY <1>0, <2>1, <3>1 DEF Instance, Typed
    <3>4. call[d].on # a
      <4>1. CASE call[c].task = "forRootAsync"
        BY <1>0, <1>3, <2>1, <2>3, <3>3, <4>1 DEF Instance
      <4>2. CASE call[c].task = "byHand"
        BY <1>0, <1>3, <3>3, <4>2 DEF Instance, NoInstance
      <4>3. QED
        BY <1>3, <4>1, <4>2
    <3>5. managers'[call'[d].on] = managers[call[d].on]
      BY <1>11, <3>1, <3>3, <3>4
    <3>6. QED
      BY <3>2, <3>5 DEF Ready, IsReady
  <2>4. QED
    BY <2>2, <2>3
<1>25. QED
  BY <1>15, <1>16, <1>17, <1>19, <1>20, <1>21, <1>22, <1>23, <1>24 DEF StartInv

-----------------------------------------------------------------------------
(* The end of authenticate().                                              *)

\* cleanup() closes the client the field holds, and no other.
LEMMA CloseFieldIs ==
  ASSUME Typed, NEW a \in 1..Len(managers), NEW all, Alike(all),
         NEW left, left = CloseField(a, all)
  PROVE  /\ Alike(left)
         /\ \A k \in 1..Len(clients) :
              /\ left[k].socket = IF k = managers[a].ldapClient THEN "closed"
                                                                ELSE all[k].socket
              /\ left[k].promise = all[k].promise /\ left[k].verdict = all[k].verdict
<1>1. /\ managers[a].ldapClient \in 0..Len(clients) /\ Len(clients) \in Nat
      /\ NoClient = 0
  BY DEF Typed, NoClient
<1>2. CASE managers[a].ldapClient = 0
  BY <1>1, <1>2 DEF CloseField
<1>3. CASE managers[a].ldapClient # 0
  <2>1. PICK f : f = managers[a].ldapClient
    OBVIOUS
  <2>2. PICK v : v = [all[f] EXCEPT !.socket = "closed"]
    OBVIOUS
  <2>3. f \in 1..Len(clients)
    BY <1>1, <1>3, <2>1
  <2>4. left = [all EXCEPT ![f] = v]
    BY <1>1, <1>3, <2>1, <2>2 DEF CloseField
  <2>5. IsClient(all[f], Len(managers)) /\ all[f].of = clients[f].of
    BY <2>3 DEF Alike
  <2>6. /\ IsClient(v, Len(managers)) /\ v.of = clients[f].of /\ v.socket = "closed"
        /\ v.promise = all[f].promise /\ v.verdict = all[f].verdict
    BY <2>2, <2>5 DEF IsClient, ClientFields, Socket
  <2>7. /\ IsList(left) /\ Len(left) = Len(clients)
        /\ \A k \in 1..Len(clients) : left[k] = IF k = f THEN v ELSE all[k]
    <3>1. IsList(all) /\ f \in 1..Len(all) /\ Len(all) = Len(clients)
      BY <2>3 DEF Alike
    <3>2. Replaced(left, all, f, v)
      BY <2>4, <3>1, ClientPut, ZenonT(60)
    <3>3. QED
      BY <3>1, <3>2 DEF Replaced
  <2>8. QED
    BY <2>1, <2>6, <2>7 DEF Alike
<1>4. QED
  BY <1>2, <1>3

\* The field ldapClient of a manager or the state of a call, put in its place.
LEMMA BecameIs ==
  ASSUME Typed, NEW a \in 1..Len(managers), NEW m \in Manager,
         managers' = [managers EXCEPT ![a] = m]
  PROVE  Became(a, m)
BY SeqPut DEF Typed, Became

\* Nothing is said of an assembly: it stays as it is.
LEMMA BecameItself ==
  ASSUME Typed, NEW a \in 1..Len(managers), UNCHANGED managers
  PROVE  Became(a, managers[a])
BY DEF Typed, Became

\* A call goes on to its next step.
LEMMA StepTurned ==
  ASSUME Typed, NEW c \in Calls, NEW step \in Step,
         call' = [call EXCEPT ![c].step = step]
  PROVE  Turned(c, step, call[c].on, call[c].client)
BY DEF Typed, Turned

\* A call goes on with another client.
LEMMA ClientTurned ==
  ASSUME Typed, NEW c \in Calls, NEW step \in Step, NEW k \in 0..Len(clients),
         call' = [call EXCEPT ![c].step = step, ![c].client = k]
  PROVE  Turned(c, step, call[c].on, k)
BY DEF Typed, Turned

\* A call goes on to another assembly, or to its own.
LEMMA OnTurned ==
  ASSUME Typed, NEW c \in Calls, NEW step \in Step, NEW on \in 0..Len(managers),
         call' = [call EXCEPT ![c].step = step, ![c].on = on]
  PROVE  Turned(c, step, on, call[c].client)
BY DEF Typed, Turned

\* A call that does nothing leaves a turn all the same.
LEMMA SameTurned ==
  ASSUME Typed, NEW c \in Calls, UNCHANGED call
  PROVE  Turned(c, call[c].step, call[c].on, call[c].client)
BY DEF Typed, Turned

\* What is known of the assembly of a call at work.
LEMMA BusyIs ==
  ASSUME StartInv, NEW c \in Calls, Busy(c)
  PROVE  /\ call[c].on \in 1..Len(managers)
         /\ managers[call[c].on] \in Manager
         /\ managers[call[c].on].connectionState # "DISCONNECTED"
         /\ managers[call[c].on].connectionState = "AUTH_FAILED"
              => managers[call[c].on].failed
         /\ managers[call[c].on].poolInitialized => Usable(managers[call[c].on])
         /\ Created(managers[call[c].on])
         /\ call[c].task \in {"byHand", "forRootAsync"}
         /\ call[c].task = "forRootAsync" =>
              /\ call[c].step \in {"authenticated", "clientInit", "migrating"}
              /\ Started(managers[call[c].on], call[c].step)
              /\ managers[call[c].on].by = "module"
         /\ call[c].step \in Dialing =>
              call[c].client \in 1..Len(clients) /\ clients[call[c].client].of = call[c].on
         /\ call[c].step \in {"authenticated", "clientInit"} => Usable(managers[call[c].on])
<1>1. Typed /\ Placed /\ Recorded /\ Starting
  BY DEF StartInv
<1>2. /\ call[c].on \in 1..Len(managers)
      /\ \/ call[c].task = "byHand" /\ managers[call[c].on].by = "byHand"
         \/ call[c].task = "forRootAsync" /\ managers[call[c].on].by = "module"
      /\ call[c].step \in Dialing =>
           call[c].client \in 1..Len(clients) /\ clients[call[c].client].of = call[c].on
  BY <1>1 DEF Placed
<1>3. managers[call[c].on] \in Manager
  BY <1>1, <1>2 DEF Typed
<1>4. call[c].task = "forRootAsync" =>
        /\ call[c].step \in {"authenticated", "clientInit", "migrating"}
        /\ Started(managers[call[c].on], call[c].step)
  BY <1>1 DEF Starting, Started, Busy
<1>5. Created(managers[call[c].on])
  BY <1>1, <1>2 DEF Starting
<1>6. QED
  BY <1>1, <1>2, <1>3, <1>4, <1>5 DEF Recorded

\* A call that ends authenticate(), with or without an answer to its bind():
\* nobody awaits one of its own any more.
LEMMA LeaveKeeps ==
  ASSUME StartInv, NEW c \in Calls,
         call[c].step \in {"which", "keytab", "kinit", "klist"} \cup Dialing,
         NEW state \in {"CONNECTED", "AUTH_FAILED"}, NEW failed \in BOOLEAN,
         state = "AUTH_FAILED" => failed,
         NEW step \in {"authenticated", "threw"},
         NEW all, Alike(all),
         \A k \in 1..Len(clients) :
           /\ all[k].promise = clients[k].promise
           /\ all[k].socket = clients[k].socket
           /\ all[k].verdict = "none" =>
                clients[k].verdict = "none" /\ all[k].promise # c,
         Leave(c, state, step, failed, CloseField(call[c].on, all)),
         UNCHANGED <<instance, overtaken>>
  PROVE  StartInv'
<1> DEFINE a == call[c].on
           m == Ended(managers[a], state, failed)
           left == CloseField(a, all)
<1>1. Busy(c)
  BY DEF Busy, Working, Dialing
<1>2. /\ a \in 1..Len(managers) /\ managers[a] \in Manager
      /\ managers[a].connectionState # "DISCONNECTED"
      /\ managers[a].connectionState = "AUTH_FAILED" => managers[a].failed
      /\ Created(managers[a])
      /\ call[c].task # "forRootAsync"
  BY <1>1, BusyIs DEF Dialing
<1>3. /\ managers' = [managers EXCEPT ![a] = m]
      /\ clients' = left
      /\ call' = [call EXCEPT ![c].step = step]
  BY DEF Leave
<1>4. /\ m \in Manager /\ m.ldapClient = 0
      /\ m.connectionState = Moved(managers[a].connectionState, state)
      /\ m.strategy = managers[a].strategy /\ m.by = managers[a].by
      /\ m.given = managers[a].given
      /\ m.migrated = managers[a].migrated /\ m.overlapped = managers[a].overlapped
      /\ m.poolInitialized = managers[a].poolInitialized
      /\ managers[a].failed \/ failed => m.failed
  BY <1>2, EndedIs
<1>5. Typed /\ OpenIsUsed
  BY DEF StartInv
<1>6. /\ Alike(left)
      /\ \A k \in 1..Len(clients) :
           /\ left[k].socket = IF k = managers[a].ldapClient THEN "closed"
                                                             ELSE all[k].socket
           /\ left[k].promise = all[k].promise /\ left[k].verdict = all[k].verdict
  BY <1>2, <1>5, CloseFieldIs
<1> HIDE DEF a, m, left
<1>7. Became(a, m) /\ Turned(c, step, a, call[c].client)
  <2>1. Became(a, m)
    BY <1>2, <1>3, <1>4, <1>5, BecameIs
  <2>2. Turned(c, step, a, call[c].client)
    BY <1>3, <1>5, StepTurned DEF a, Step, Working
  <2>3. QED
    BY <2>1, <2>2
<1>8. /\ Usable(m) /\ m.connectionState # "DISCONNECTED"
      /\ m.connectionState = "AUTH_FAILED" => m.failed
  BY <1>2, <1>4, MovedTo DEF Usable, Manager, State
<1>9. Follows(managers[a], m)
  <2>1. Created(m)
    BY <1>2, <1>4 DEF Created
  <2>2. QED
    BY <1>4, <1>8, <2>1 DEF Follows, NoClient
<1>10. ClientsFollow(c, a, m, step, call[c].client)
  <2>1. Alike(clients')
    BY <1>3, <1>6
  <2>2. ASSUME NEW k \in 1..Len(clients), clients'[k].verdict = "none",
               clients'[k].promise \in Calls
        PROVE  /\ clients'[k].promise # c
               /\ clients[k].verdict = "none" /\ clients[k].promise = clients'[k].promise
    BY <1>3, <1>6, <2>2
  <2>3. ASSUME NEW k \in 1..Len(clients), clients'[k].socket # "closed"
        PROVE  /\ clients[k].socket # "closed"
               /\ ~ (clients[k].of = a /\ ~ m.overlapped)
    <3>1. clients[k].socket # "closed" /\ k # managers[a].ldapClient
      BY <1>3, <1>6, <2>3
    <3>2. QED
      BY <1>4, <1>5, <3>1 DEF OpenIsUsed
  <2>4. QED
    BY <2>1, <2>2, <2>3 DEF ClientsFollow
<1>11. /\ step \in Step \ {"idle", "factory"} /\ step \notin Dialing
       /\ ~ (step \in {"clientInit", "migrating"})
  BY DEF Step, Working, Dialing
<1>12. a = call[c].on
  BY DEF a
<1>13. QED
  BY <1>1, <1>2, <1>7, <1>8, <1>9, <1>10, <1>11, <1>12, WorkKeeps, Zenon

\* On an assembly no two calls have shared, an open client is that of the call
\* at work there.
LEMMA UseIsMine ==
  ASSUME StartInv, NEW c \in Calls, Busy(c), NEW k \in 1..Len(clients),
         clients[k].socket # "closed", clients[k].of = call[c].on,
         ~ managers[call[c].on].overlapped
  PROVE  /\ managers[call[c].on].ldapClient = k
         /\ call[c].step \in Dialing /\ call[c].client = k
<1>1. Alone /\ OpenIsUsed
  BY DEF StartInv
<1>2. managers[call[c].on].ldapClient = k /\ \E d \in Calls : Uses(d, k)
  BY <1>1 DEF OpenIsUsed
<1>3. PICK d \in Calls : Uses(d, k)
  BY <1>2
<1>4. Busy(d) /\ call[d].on = call[c].on
  BY <1>3 DEF Uses, Busy, Working, Dialing
<1>5. d = c
  BY <1>1, <1>4 DEF Alone
<1>6. QED
  BY <1>2, <1>3, <1>5 DEF Uses

\* The clients as they were are a fitting sequel to a step that is not the
\* answer to a bind().
LEMMA ClientsStay ==
  ASSUME StartInv, NEW c \in Calls, Busy(c), NEW a, a = call[c].on,
         NEW m, m.overlapped = managers[a].overlapped,
         m.ldapClient = managers[a].ldapClient,
         NEW step, NEW client, UNCHANGED clients, call[c].step # "binding",
         call[c].step \in Dialing => step \in Dialing /\ client = call[c].client
  PROVE  ClientsFollow(c, a, m, step, client)
<1>1. Typed /\ Promised
  BY DEF StartInv
<1>2. Alike(clients')
  BY <1>1 DEF Alike, Typed
<1>3. ASSUME NEW k \in 1..Len(clients), clients[k].verdict = "none",
             clients[k].promise \in Calls
      PROVE  clients[k].promise # c
  BY <1>1, <1>3 DEF Promised
<1>4. ASSUME NEW k \in 1..Len(clients), clients[k].socket # "closed",
             clients[k].of = a, ~ m.overlapped
      PROVE  m.ldapClient = k /\ step \in Dialing /\ client = k
  BY <1>4, UseIsMine
<1>5. QED
  BY <1>2, <1>3, <1>4 DEF ClientsFollow

\* An assembly that stays as it is follows itself.
LEMMA FollowsItself ==
  ASSUME StartInv, NEW c \in Calls, Busy(c)
  PROVE  Follows(managers[call[c].on], managers[call[c].on])
BY BusyIs DEF Follows

\* A child process or a file that was waited for, and the next one is asked.
LEMMA GoesKeeps ==
  ASSUME StartInv, NEW c \in Calls, call[c].step \in {"which", "keytab"},
         NEW to \in {"keytab", "kinit"}, Goes(c, to), UNCHANGED <<instance, overtaken>>
  PROVE  StartInv'
<1> DEFINE a == call[c].on
           m == managers[a]
<1>1. Busy(c) /\ Typed
  BY DEF Busy, Working, StartInv
<1>2. a \in 1..Len(managers) /\ call[c].task # "forRootAsync"
  BY <1>1, BusyIs
<1>3. UNCHANGED <<managers, clients>> /\ call' = [call EXCEPT ![c].step = to]
  BY DEF Goes
<1>4. Became(a, m)
  BY <1>1, <1>2, <1>3, BecameItself
<1>5. Follows(m, m)
  BY <1>1, FollowsItself
<1>6. Turned(c, to, a, call[c].client)
  BY <1>1, <1>3, StepTurned DEF Step, Working
<1>7. ClientsFollow(c, a, m, to, call[c].client)
  BY <1>1, <1>3, ClientsStay DEF Dialing
<1>8. to \in Step \ {"idle", "factory", "authenticated", "clientInit"} /\ to \notin Dialing
  BY DEF Step, Working, Dialing
<1>9. /\ a = call[c].on /\ to # "authenticated" /\ to # "clientInit"
      /\ to # "migrating"
  OBVIOUS
<1> HIDE DEF a, m
<1>10. QED
  BY <1>1, <1>2, <1>4, <1>5, <1>6, <1>7, <1>8, <1>9, WorkKeeps, Zenon DEF m

\* A failure, or a success that leaves the clients as they were, ends
\* authenticate() where no bind() is waited for.
LEMMA EndKeeps ==
  ASSUME StartInv, NEW c \in Calls,
         call[c].step \in {"which", "keytab", "kinit", "klist", "connecting", "connected"},
         Fail(c) \/ Succeed(c, clients), UNCHANGED <<instance, overtaken>>
  PROVE  StartInv'
<1>1. Typed /\ Promised
  BY DEF StartInv
<1>2. Alike(clients)
  BY <1>1 DEF Alike, Typed
<1>3. \A k \in 1..Len(clients) : clients[k].verdict = "none" => clients[k].promise # c
  BY <1>1 DEF Promised
<1>4. call[c].step \in {"which", "keytab", "kinit", "klist"} \cup Dialing
  BY DEF Dialing
<1>5. CASE Fail(c)
  <2>1. Leave(c, "AUTH_FAILED", "threw", TRUE, CloseField(call[c].on, clients))
    BY <1>5 DEF Fail, FailAfter
  <2>2. QED
    BY <1>2, <1>3, <1>4, <2>1, LeaveKeeps
<1>6. CASE Succeed(c, clients)
  <2>1. Leave(c, "CONNECTED", "authenticated", FALSE, CloseField(call[c].on, clients))
    BY <1>6 DEF Succeed
  <2>2. QED
    BY <1>2, <1>3, <1>4, <2>1, LeaveKeeps
<1>7. QED
  BY <1>5, <1>6

\* kinit exits with 0, with or without a ticket in the cache.
LEMMA KinitKeeps ==
  ASSUME StartInv, NEW c \in Calls, AcquireKerberosTicket(c),
         UNCHANGED <<instance, overtaken>>
  PROVE  StartInv'
<1> DEFINE a == call[c].on
<1>0. call[c].step = "kinit"
  BY DEF AcquireKerberosTicket
<1>1. Busy(c) /\ Typed
  BY <1>0 DEF Busy, Working, StartInv
<1>2. /\ a \in 1..Len(managers) /\ managers[a] \in Manager
      /\ call[c].task # "forRootAsync"
      /\ managers[a].connectionState # "DISCONNECTED"
      /\ managers[a].connectionState = "AUTH_FAILED" => managers[a].failed
      /\ managers[a].poolInitialized => Usable(managers[a])
      /\ Created(managers[a])
  BY <1>0, <1>1, BusyIs
<1>3. CASE Fail(c)
  BY <1>0, <1>3, EndKeeps
<1>4. CASE /\ \E ticket \in BOOLEAN :
                managers' = [managers EXCEPT ![a].ticket = @ \/ ticket]
           /\ call' = [call EXCEPT ![c].step = "klist"]
           /\ UNCHANGED clients
  <2>1. PICK ticket \in BOOLEAN : managers' = [managers EXCEPT ![a].ticket = @ \/ ticket]
    BY <1>4
  <2>2. PICK f \in BOOLEAN : f = (managers[a].ticket \/ ticket)
    BY <1>2, <2>1 DEF Manager
  <2> DEFINE m == [managers[a] EXCEPT !.ticket = f]
  <2>3. managers' = [managers EXCEPT ![a] = m]
    BY <2>1, <2>2
  <2>4. /\ m \in Manager /\ m.by = managers[a].by /\ m.strategy = managers[a].strategy
        /\ m.given = managers[a].given /\ m.overlapped = managers[a].overlapped
        /\ m.ldapClient = managers[a].ldapClient /\ m.migrated = managers[a].migrated
        /\ m.connectionState = managers[a].connectionState
        /\ m.failed = managers[a].failed
        /\ m.poolInitialized = managers[a].poolInitialized
    BY <1>2, <2>2 DEF Manager
  <2> HIDE DEF a, m
  <2>5. Became(a, m)
    BY <1>1, <1>2, <2>3, <2>4, BecameIs
  <2>6. Follows(managers[a], m)
    BY <1>2, <2>4 DEF Follows, Usable, Created
  <2>7. Turned(c, "klist", a, call[c].client)
    BY <1>1, <1>4, StepTurned DEF Step, Working, a
  <2>8. ClientsFollow(c, a, m, "klist", call[c].client)
    BY <1>0, <1>1, <1>4, <2>4, ClientsStay DEF Dialing, a
  <2>9. /\ "klist" \in Step \ {"idle", "factory"} /\ "klist" \notin Dialing
        /\ "klist" # "authenticated" /\ "klist" # "clientInit" /\ a = call[c].on
        /\ "klist" # "migrating"
    BY DEF Step, Working, Dialing, a
  <2>10. QED
    BY <1>1, <1>2, <2>5, <2>6, <2>7, <2>8, <2>9, WorkKeeps, Zenon
<1>5. QED
  BY <1>3, <1>4 DEF AcquireKerberosTicket

\* The same clients, with client k now v.
AlikeBut(all, k, v) ==
  /\ Alike(all)
  /\ \A j \in 1..Len(clients) : all[j] = IF j = k THEN v ELSE clients[j]

\* What a step leaves when it changes one client alone.
LEMMA ClientPutIs ==
  ASSUME Typed, NEW k \in 1..Len(clients), NEW v, IsClient(v, Len(managers)),
         v.of = clients[k].of
  PROVE  AlikeBut([clients EXCEPT ![k] = v], k, v)
<1>1. PICK all : all = [clients EXCEPT ![k] = v]
  OBVIOUS
<1>2. IsList(clients)
  BY DEF Typed
<1>3. Replaced(all, clients, k, v)
  BY <1>1, <1>2, ClientPut, Zenon
<1>4. AlikeBut(all, k, v)
  BY <1>3 DEF Replaced, Alike, AlikeBut, Typed
<1>5. QED
  BY <1>1, <1>4

\* connect() succeeds.
LEMMA ConnectedKeeps ==
  ASSUME StartInv, NEW c \in Calls, Connected(c), UNCHANGED <<instance, overtaken>>
  PROVE  StartInv'
<1> DEFINE a == call[c].on
           m == managers[a]
           k == call[c].client
           v == [clients[k] EXCEPT !.socket = "open"]
<1>0. /\ call[c].step = "connecting" /\ clients[k].socket = "connecting"
      /\ clients' = [clients EXCEPT ![k] = v]
      /\ call' = [call EXCEPT ![c].step = "connected"] /\ UNCHANGED managers
  BY DEF Connected
<1>1. Busy(c) /\ Typed /\ Promised
  BY <1>0 DEF Busy, Working, StartInv
<1>2. /\ a \in 1..Len(managers) /\ call[c].task # "forRootAsync"
      /\ k \in 1..Len(clients) /\ clients[k].of = a
  BY <1>0, <1>1, BusyIs DEF Dialing
<1>3. IsClient(clients[k], Len(managers))
  BY <1>1, <1>2 DEF Typed
<1>4. /\ IsClient(v, Len(managers)) /\ v.of = clients[k].of
      /\ v.promise = clients[k].promise /\ v.verdict = clients[k].verdict
  BY <1>3 DEF IsClient, ClientFields, Socket
<1> HIDE DEF v
<1>5. /\ Alike(clients')
      /\ \A j \in 1..Len(clients) : clients'[j] = IF j = k THEN v ELSE clients[j]
  <2>1. AlikeBut([clients EXCEPT ![k] = v], k, v)
    BY <1>1, <1>2, <1>4, ClientPutIs
  <2>2. AlikeBut(clients', k, v)
    BY <1>0, <2>1
  <2>3. QED
    BY <2>2 DEF AlikeBut
<1>6. Became(a, m)
  BY <1>0, <1>1, <1>2, BecameItself
<1>7. Follows(m, m)
  BY <1>1, FollowsItself
<1>8. Turned(c, "connected", a, k)
  BY <1>0, <1>1, StepTurned DEF Step, Working
<1>9. "connected" \in Dialing /\ "connected" \in Step \ {"idle", "factory"}
  BY DEF Dialing, Step, Working
<1>10. ClientsFollow(c, a, m, "connected", k)
  <2>1. ASSUME NEW j \in 1..Len(clients), clients'[j].verdict = "none",
               clients'[j].promise \in Calls
        PROVE  /\ clients'[j].promise # c /\ clients[j].verdict = "none"
               /\ clients[j].promise = clients'[j].promise
    <3>1. clients[j].verdict = "none" /\ clients[j].promise = clients'[j].promise
      BY <1>4, <1>5, <2>1
    <3>2. clients[j].promise # c
      BY <1>0, <1>1, <2>1, <3>1 DEF Promised
    <3>3. QED
      BY <3>1, <3>2
  <2>2. ASSUME NEW j \in 1..Len(clients), clients'[j].socket # "closed"
        PROVE  /\ clients[j].socket # "closed"
               /\ clients[j].of = a /\ ~ m.overlapped => m.ldapClient = j /\ k = j
    <3>1. clients[j].socket # "closed"
      BY <1>0, <1>5, <2>2
    <3>2. QED
      BY <1>1, <3>1, UseIsMine
  <2>3. QED
    BY <1>5, <1>9, <2>1, <2>2 DEF ClientsFollow
<1>11. a = call[c].on /\ m = managers[a]
  OBVIOUS
<1>12. /\ "connected" # "authenticated" /\ "connected" # "clientInit"
       /\ "connected" # "migrating"
  OBVIOUS
<1> HIDE DEF a, m, k
<1>13. QED
  BY <1>1, <1>2, <1>6, <1>7, <1>8, <1>9, <1>10, <1>11, <1>12, WorkKeeps, Zenon DEF m

\* bind(): the call uses the client the field holds, and awaits its answer alone.
LEMMA BindKeeps ==
  ASSUME StartInv, NEW c \in Calls, Bind(c), UNCHANGED <<instance, overtaken>>
  PROVE  StartInv'
<1> DEFINE a == call[c].on
           m == managers[a]
           k == managers[a].ldapClient
<1>1. PICK answer \in Answers : clients' = [clients EXCEPT ![k] = Bound(@, c, answer)]
  BY DEF Bind
<1> DEFINE v == Bound(clients[k], c, answer)
<1>2. /\ call[c].step = "connected" /\ k # 0 /\ clients' = [clients EXCEPT ![k] = v]
      /\ call' = [call EXCEPT ![c].step = "binding", ![c].client = k]
      /\ UNCHANGED managers
  BY <1>1 DEF Bind, NoClient
<1>3. Busy(c) /\ Typed /\ Placed /\ Promised
  BY <1>2 DEF Busy, Working, StartInv
<1>4. a \in 1..Len(managers) /\ call[c].task # "forRootAsync"
  BY <1>2, <1>3, BusyIs
<1>5. k \in 1..Len(clients) /\ clients[k].of = a /\ IsClient(clients[k], Len(managers))
  <2>1. k \in 0..Len(clients)
    BY <1>3, <1>4 DEF Typed
  <2>2. k \in 1..Len(clients)
    BY SMTT(30), <1>2, <2>1
  <2>3. QED
    BY <1>2, <1>3, <1>4, <2>2 DEF Typed, Placed, NoClient
<1>6. /\ IsClient(v, Len(managers)) /\ v.of = clients[k].of
      /\ v.promise = c /\ v.socket = clients[k].socket
  BY <1>5 DEF Bound, IsClient, ClientFields
<1> HIDE DEF v
<1>7. AlikeBut(clients', k, v)
  <2>1. AlikeBut([clients EXCEPT ![k] = v], k, v)
    BY <1>3, <1>5, <1>6, ClientPutIs
  <2>2. QED
    BY <1>2, <2>1
<1>8. Became(a, m)
  BY <1>2, <1>3, <1>4, BecameItself
<1>9. Follows(m, m)
  BY <1>3, FollowsItself
<1>10. Turned(c, "binding", a, k)
  <2>1. "binding" \in Step /\ k \in 0..Len(clients) /\ Typed
    BY <1>3, <1>5 DEF Step, Working
  <2>2. call' = [call EXCEPT ![c].step = "binding", ![c].client = k]
    BY <1>2
  <2> HIDE DEF k
  <2>3. QED
    BY <2>1, <2>2, ClientTurned, Zenon
<1>11. /\ "binding" \in Dialing /\ "binding" \in Step \ {"idle", "factory"}
       /\ "binding" # "authenticated" /\ "binding" # "clientInit"
       /\ "binding" # "migrating"
  BY DEF Dialing, Step, Working
<1>12. ClientsFollow(c, a, m, "binding", k)
  <2>1. /\ Alike(clients')
        /\ \A j \in 1..Len(clients) : clients'[j] = IF j = k THEN v ELSE clients[j]
    BY <1>7 DEF AlikeBut
  <2>2. ASSUME NEW j \in 1..Len(clients), clients'[j].verdict = "none",
               clients'[j].promise \in Calls
        PROVE  IF clients'[j].promise = c
                 THEN "binding" = "binding" /\ k = j
                 ELSE clients[j].verdict = "none" /\ clients[j].promise = clients'[j].promise
    <3>1. CASE j = k
      BY <1>6, <2>1, <3>1
    <3>2. CASE j # k
      <4>1. clients'[j] = clients[j]
        BY <2>1, <3>2
      <4>2. clients[j].promise # c
        BY <1>2, <1>3, <2>2, <4>1 DEF Promised
      <4>3. QED
        BY <2>2, <4>1, <4>2
    <3>3. QED
      BY <3>1, <3>2
  <2>3. ASSUME NEW j \in 1..Len(clients), clients'[j].socket # "closed"
        PROVE  /\ clients[j].socket # "closed"
               /\ clients[j].of = a /\ ~ m.overlapped => m.ldapClient = j /\ k = j
    <3>1. clients[j].socket # "closed"
      BY <1>6, <2>1, <2>3
    <3>2. QED
      BY <1>3, <3>1, UseIsMine
  <2>4. QED
    BY <1>11, <2>1, <2>2, <2>3 DEF ClientsFollow
<1>13. a = call[c].on /\ m = managers[a]
  OBVIOUS
<1> HIDE DEF a, m, k
<1>14. QED
  BY <1>3, <1>4, <1>5, <1>8, <1>9, <1>10, <1>11, <1>12, <1>13, WorkKeeps, Zenon

\* The pool begins to open its connections.
LEMMA CreatePoolKeeps ==
  ASSUME StartInv, NEW c \in Calls, CreatePool(c), UNCHANGED <<instance, overtaken>>
  PROVE  StartInv'
<1> DEFINE a == call[c].on
           step == IF call[c].task = "byHand" THEN "returned" ELSE "clientInit"
<1>0. call[c].step = "authenticated" /\ UNCHANGED clients
  BY DEF CreatePool
<1>1. Busy(c) /\ Typed
  BY <1>0 DEF Busy, Working, StartInv
<1>2. /\ a \in 1..Len(managers) /\ managers[a] \in Manager
      /\ call[c].task \in {"byHand", "forRootAsync"}
      /\ call[c].task = "forRootAsync" => Started(managers[a], "authenticated")
      /\ managers[a].connectionState # "DISCONNECTED"
      /\ managers[a].connectionState = "AUTH_FAILED" => managers[a].failed
      /\ Usable(managers[a]) /\ Created(managers[a])
  BY <1>0, <1>1, BusyIs
<1>3. PICK o \in {"opened", "refused"} :
        o = IF HasConnectionString(managers[a]) THEN "opened" ELSE "refused"
  OBVIOUS
<1> DEFINE m == [managers[a] EXCEPT !.poolInitialized = TRUE, !.opened = o]
<1>4. /\ managers' = [managers EXCEPT ![a] = m]
      /\ call' = [call EXCEPT ![c].step = step]
  <2>1. managers' = [managers EXCEPT ![a].poolInitialized = TRUE, ![a].opened = o]
    BY <1>3 DEF CreatePool
  <2>2. QED
    BY <1>2, <2>1 DEF CreatePool
<1>5. /\ m \in Manager /\ m.by = managers[a].by /\ m.strategy = managers[a].strategy
      /\ m.given = managers[a].given /\ m.overlapped = managers[a].overlapped
      /\ m.ldapClient = managers[a].ldapClient /\ m.migrated = managers[a].migrated
      /\ m.connectionState = managers[a].connectionState
      /\ m.failed = managers[a].failed
  BY <1>2, <1>3 DEF Manager
<1> HIDE DEF m
<1>6. Became(a, m)
  BY <1>1, <1>2, <1>4, <1>5, BecameIs
<1>7. Usable(m) /\ Created(m)
  BY <1>2, <1>5 DEF Usable, Created
<1>8. Follows(managers[a], m)
  BY <1>2, <1>5, <1>7 DEF Follows
<1>9. Turned(c, step, a, call[c].client)
  BY <1>1, <1>4, StepTurned DEF Step, Working
<1>10. ClientsFollow(c, a, m, step, call[c].client)
  BY <1>0, <1>1, <1>5, ClientsStay DEF Dialing
<1>11. call[c].task = "forRootAsync" => step = "clientInit" /\ Started(m, step)
  BY <1>2, <1>5 DEF Started, Working
<1>12. /\ step \in Step \ {"idle", "factory"} /\ step \notin Dialing
       /\ step \in {"clientInit", "migrating"} => call[c].task = "forRootAsync"
       /\ call[c].task = "forRootAsync" => step # "returned"
       /\ a = call[c].on
  BY <1>2, <1>11 DEF Step, Working, Dialing
<1> HIDE DEF a, step
<1>13. QED
  BY <1>1, <1>6, <1>7, <1>8, <1>9, <1>10, <1>11, <1>12, WorkKeeps, Zenon

\* Client.init() finds the pool initialised: the module is CONNECTED, and ready
\* if there is nothing to migrate.
LEMMA ClientInitKeeps ==
  ASSUME StartInv, NEW c \in Calls, ClientInit(c)
  PROVE  StartInv'
<1> DEFINE a == call[c].on
           m == SetState(managers[a], "CONNECTED")
<1>0. /\ call[c].step = "clientInit" /\ managers[a].poolInitialized
      /\ UNCHANGED <<clients, instance, overtaken>>
      /\ managers' = [managers EXCEPT ![a] = m]
      /\ IF "migration" \in managers[a].given /\ Entities # <<>>
           THEN call' = [call EXCEPT ![c].step = "migrating"]
           ELSE call' = [call EXCEPT ![c].step = "returned", ![c].on = instance]
  BY DEF ClientInit, Return
<1>1. Busy(c) /\ Typed
  BY <1>0 DEF Busy, Working, StartInv
<1>2. /\ a \in 1..Len(managers) /\ managers[a] \in Manager
      /\ call[c].task = "forRootAsync"
      /\ managers[a].connectionState = "AUTHENTICATING" /\ managers[a].migrated = <<>>
      /\ Created(managers[a])
  <2>1. call[c].task = "forRootAsync"
    BY <1>0 DEF StartInv, Placed
  <2>2. Started(managers[a], "clientInit")
    BY <1>0, <1>1, <2>1, BusyIs
  <2>3. a \in 1..Len(managers) /\ managers[a] \in Manager /\ Created(managers[a])
    BY <1>1, BusyIs
  <2>4. QED
    BY <2>1, <2>2, <2>3 DEF Started
<1>3. /\ m \in Manager /\ m.by = managers[a].by /\ m.strategy = managers[a].strategy
      /\ m.given = managers[a].given /\ m.overlapped = managers[a].overlapped
      /\ m.ldapClient = managers[a].ldapClient /\ m.migrated = <<>>
      /\ m.connectionState = "CONNECTED" /\ m.poolInitialized
  <2>1. Moved("AUTHENTICATING", "CONNECTED") = "CONNECTED"
    BY MovedTo DEF State
  <2>2. QED
    BY <1>0, <1>2, <2>1, SetStateIs
<1> HIDE DEF m
<1>4. Became(a, m)
  BY <1>0, <1>1, <1>2, <1>3, BecameIs
<1>5. Usable(m) /\ Created(m)
  BY <1>2, <1>3 DEF Usable, Created
<1>6. Follows(managers[a], m)
  BY <1>3, <1>5 DEF Follows
<1>7. Len(Entities) \in Nat /\ Entities \in Seq(ToSet(Entities))
  BY EntitiesAssumption
<1>8. a = call[c].on
  OBVIOUS
<1>9. CASE "migration" \in managers[a].given /\ Entities # <<>>
  <2>1. Turned(c, "migrating", a, call[c].client)
    BY <1>0, <1>1, <1>9, StepTurned DEF Step, Working
  <2>2. Started(m, "migrating")
    <3>1. Len(Entities) > 0
      BY <1>7, <1>9
    <3>2. QED
      BY <1>3, <1>9, <3>1 DEF Started, Working
  <2>3. ClientsFollow(c, a, m, "migrating", call[c].client)
    BY <1>0, <1>1, <1>3, ClientsStay DEF Dialing
  <2>4. /\ "migrating" \in Step \ {"idle", "factory"} /\ "migrating" \notin Dialing
        /\ "migrating" # "authenticated" /\ "migrating" # "clientInit"
        /\ "migrating" # "returned"
    BY DEF Step, Working, Dialing
  <2> HIDE DEF a
  <2>5. QED
    BY <1>0, <1>1, <1>2, <1>4, <1>6, <1>8, <2>1, <2>2, <2>3, <2>4, WorkKeeps, Zenon
<1>10. CASE ~ ("migration" \in managers[a].given /\ Entities # <<>>)
  <2>1. Turned(c, "returned", instance, call[c].client)
    <3>1. instance \in 0..Len(managers) /\ "returned" \in Step
      BY <1>1 DEF Typed, Step
    <3>2. call' = [call EXCEPT ![c].step = "returned", ![c].on = instance]
      BY <1>0, <1>10
    <3>3. QED
      BY <1>1, <3>1, <3>2, OnTurned, Zenon
  <2>2. Started(m, "returned")
    BY DEF Started, Working
  <2>3. IsReady(m)
    <3>1. ASSUME "migration" \in m.given
          PROVE  <<>> = [i \in 1..Len(Entities) |-> CreateTable(Entities[i])]
      <4>1. Len(Entities) = 0
        BY <1>3, <1>7, <1>10, <3>1
      <4>2. QED
        BY <4>1
    <3>2. QED
      BY <1>3, <3>1 DEF IsReady
  <2>4. ClientsFollow(c, a, m, "returned", call[c].client)
    BY <1>0, <1>1, <1>3, ClientsStay DEF Dialing
  <2>5. /\ "returned" \in Step \ {"idle", "factory"} /\ "returned" \notin Dialing
        /\ "returned" # "authenticated" /\ "returned" # "clientInit"
        /\ "returned" # "migrating"
    BY DEF Step, Working, Dialing
  <2> HIDE DEF a
  <2>6. QED
    BY <1>0, <1>1, <1>2, <1>4, <1>6, <1>8, <2>1, <2>2, <2>3, <2>4, <2>5, WorkKeeps, Zenon
<1>11. QED
  BY <1>9, <1>10

\* A table is made, or is not.
LEMMA MigrateKeeps ==
  ASSUME StartInv, NEW c \in Calls, Migrate(c)
  PROVE  StartInv'
<1> DEFINE a == call[c].on
           done == Len(managers[a].migrated)
           table == CreateTable(Entities[done + 1])
<1>0. /\ call[c].step = "migrating" /\ UNCHANGED <<clients, instance, overtaken>>
      /\ \/ /\ managers' = [managers EXCEPT ![a].migrated = Append(@, table)]
            /\ IF done + 1 = Len(Entities)
                 THEN call' = [call EXCEPT ![c].step = "returned", ![c].on = instance]
                 ELSE UNCHANGED call
         \/ /\ call' = [call EXCEPT ![c].step = "threw"]
            /\ UNCHANGED managers
  BY DEF Migrate, Return
<1>1. Busy(c) /\ Typed
  BY <1>0 DEF Busy, Working, StartInv
<1>2. /\ a \in 1..Len(managers) /\ managers[a] \in Manager
      /\ call[c].task = "forRootAsync"
      /\ managers[a].connectionState = "CONNECTED" /\ managers[a].poolInitialized
      /\ "migration" \in managers[a].given /\ done < Len(Entities)
      /\ Created(managers[a])
  <2>1. call[c].task = "forRootAsync"
    BY SMTT(30), <1>0 DEF StartInv, Placed
  <2>2. Started(managers[a], "migrating")
    BY <1>0, <1>1, <2>1, BusyIs
  <2>3. a \in 1..Len(managers) /\ managers[a] \in Manager /\ Created(managers[a])
    BY <1>1, BusyIs
  <2>4. QED
    BY <2>1, <2>2, <2>3 DEF Started
<1>3. Len(Entities) \in Nat /\ done \in Nat /\ managers[a].migrated \in Seq(Table)
  BY <1>2, EntitiesAssumption DEF Manager
<1>4. a = call[c].on
  OBVIOUS
<1>5. /\ \A step \in {"migrating", "returned", "threw"} :
           step \in Step \ {"idle", "factory"} /\ step \notin Dialing
      /\ "migrating" # "authenticated" /\ "migrating" # "clientInit"
      /\ "migrating" # "returned"
      /\ "returned" # "authenticated" /\ "returned" # "clientInit"
      /\ "returned" # "migrating" /\ "threw" # "returned"
      /\ "threw" # "authenticated" /\ "threw" # "clientInit" /\ "threw" # "migrating"
  BY DEF Step, Working, Dialing
<1>6. CASE call' = [call EXCEPT ![c].step = "threw"] /\ UNCHANGED managers
  <2> DEFINE m == managers[a]
  <2>1. Became(a, m) /\ Follows(m, m)
    BY <1>1, <1>2, <1>6, BecameItself, FollowsItself
  <2>2. Turned(c, "threw", a, call[c].client)
    BY <1>1, <1>5, <1>6, StepTurned
  <2>3. ClientsFollow(c, a, m, "threw", call[c].client)
    BY <1>0, <1>1, ClientsStay DEF Dialing
  <2>4. Started(m, "threw")
    BY DEF Started, Working
  <2>5. m = managers[a]
    OBVIOUS
  <2> HIDE DEF m, a
  <2>6. QED
    BY <1>0, <1>1, <1>4, <1>5, <2>1, <2>2, <2>3, <2>4, <2>5, WorkKeeps, Zenon
<1>7. CASE /\ managers' = [managers EXCEPT ![a].migrated = Append(@, table)]
           /\ IF done + 1 = Len(Entities)
                THEN call' = [call EXCEPT ![c].step = "returned", ![c].on = instance]
                ELSE UNCHANGED call
  <2>1. PICK t : t = Append(managers[a].migrated, table)
    OBVIOUS
  <2>2. /\ t \in Seq(Table) /\ Len(t) = done + 1
        /\ \A i \in 1..(done + 1) : t[i] = CreateTable(Entities[i])
    <3>1. table \in Table
      BY SMTT(30), <1>2, <1>3 DEF Table
    <3>2. /\ t \in Seq(Table) /\ Len(t) = done + 1
          /\ \A i \in 1..(done + 1) :
               t[i] = IF i = done + 1 THEN table ELSE managers[a].migrated[i]
      <4> HIDE DEF table
      <4>1. QED
        BY <1>3, <2>1, <3>1, SeqAdd
    <3>3. \A i \in 1..done : managers[a].migrated[i] = CreateTable(Entities[i])
      BY <1>2 DEF Created
    <3>4. ASSUME NEW i \in 1..(done + 1)
          PROVE  t[i] = CreateTable(Entities[i])
      <4>1. CASE i = done + 1
        BY <3>2, <4>1
      <4>2. CASE i # done + 1
        <5>1. i \in 1..done
          BY <1>3, <4>2
        <5>2. QED
          BY <3>2, <3>3, <4>2, <5>1
      <4>3. QED
        BY <4>1, <4>2
    <3>5. QED
      BY <3>2, <3>4
  <2> DEFINE m == [managers[a] EXCEPT !.migrated = t]
  <2>3. managers' = [managers EXCEPT ![a] = m]
    BY <1>7, <2>1
  <2>4. /\ m \in Manager /\ m.by = managers[a].by /\ m.strategy = managers[a].strategy
        /\ m.given = managers[a].given /\ m.overlapped = managers[a].overlapped
        /\ m.ldapClient = managers[a].ldapClient /\ m.migrated = t
        /\ m.connectionState = "CONNECTED" /\ m.poolInitialized
    BY <1>2, <2>2 DEF Manager
  <2> HIDE DEF m
  <2>5. Became(a, m)
    BY <1>1, <1>2, <2>3, <2>4, BecameIs
  <2>6. Follows(managers[a], m)
    <3>1. Usable(m)
      BY <2>4 DEF Usable
    <3>2. Created(m)
      BY <1>2, <1>3, <2>2, <2>4 DEF Created
    <3>3. QED
      BY <2>4, <3>1, <3>2 DEF Follows
  <2>7. CASE done + 1 = Len(Entities)
    <3>1. Turned(c, "returned", instance, call[c].client)
      <4>1. instance \in 0..Len(managers) /\ "returned" \in Step
        BY <1>1 DEF Typed, Step
      <4>2. call' = [call EXCEPT ![c].step = "returned", ![c].on = instance]
        BY <1>7, <2>7
      <4>3. QED
        BY <1>1, <4>1, <4>2, OnTurned, Zenon
    <3>2. Started(m, "returned")
      BY DEF Started, Working
    <3>3. IsReady(m)
      <4>1. t = [i \in 1..Len(Entities) |-> CreateTable(Entities[i])]
        BY <2>2, <2>7
      <4>2. QED
        BY <2>4, <4>1 DEF IsReady
    <3>4. ClientsFollow(c, a, m, "returned", call[c].client)
      BY <1>0, <1>1, <2>4, ClientsStay DEF Dialing
    <3> HIDE DEF a, done, table
    <3>5. QED
      BY <1>0, <1>1, <1>2, <1>4, <1>5, <2>5, <2>6, <3>1, <3>2, <3>3, <3>4, WorkKeeps, Zenon
  <2>8. CASE done + 1 # Len(Entities)
    <3>1. Turned(c, "migrating", a, call[c].client)
      BY <1>0, <1>1, <1>7, <2>8, SameTurned
    <3>2. Started(m, "migrating")
      BY <1>2, <1>3, <2>2, <2>4, <2>8 DEF Started, Working
    <3>3. ClientsFollow(c, a, m, "migrating", call[c].client)
      BY <1>0, <1>1, <2>4, ClientsStay DEF Dialing
    <3> HIDE DEF a, done, table
    <3>4. QED
      BY <1>0, <1>1, <1>2, <1>4, <1>5, <2>5, <2>6, <3>1, <3>2, <3>3, WorkKeeps, Zenon
  <2>9. QED
    BY <2>7, <2>8
<1>8. QED
  BY <1>0, <1>6, <1>7

-----------------------------------------------------------------------------
(* The network.                                                            *)

\* An event that only a client hears of: it settles no promise and closes no
\* socket.
LEMMA HeardKeeps ==
  ASSUME StartInv, NEW k \in 1..Len(clients), NEW v, AlikeBut(clients', k, v),
         v.promise = clients[k].promise, v.verdict = clients[k].verdict,
         clients[k].socket # "closed",
         UNCHANGED <<managers, call, instance, overtaken>>
  PROVE  StartInv'
<1>0. /\ Typed /\ Placed /\ Promised /\ Recorded /\ Alone /\ OpenIsUsed
      /\ Starting /\ Instance /\ ReturnedIsReady
  BY DEF StartInv
<1>1. /\ IsList(clients') /\ Len(clients') = Len(clients)
      /\ \A j \in 1..Len(clients) :
           /\ IsClient(clients'[j], Len(managers)) /\ clients'[j].of = clients[j].of
           /\ clients'[j].promise = clients[j].promise
           /\ clients'[j].verdict = clients[j].verdict
           /\ clients[j].socket = "closed" => clients'[j].socket = "closed"
  BY DEF AlikeBut, Alike
<1>2. \A j \in 1..Len(clients) : IsClient(clients[j], Len(managers))
  BY <1>0 DEF Typed
<1>3. Typed'
  <2>1. call' \in [Calls -> [task: Task, step: Step, on: 0..Len(managers'),
                             client: 0..Len(clients')]]
    BY <1>0, <1>1 DEF Typed
  <2>2. \A a \in 1..Len(managers') : managers'[a].ldapClient \in 0..Len(clients')
    BY <1>0, <1>1 DEF Typed
  <2>3. QED
    BY <1>0, <1>1, <2>1, <2>2 DEF Typed
<1>4. Placed'
  <2>1. \A c \in Calls : call[c].step \in Dialing =>
          call[c].client \in 1..Len(clients') /\ clients'[call[c].client].of = call[c].on
    BY <1>0, <1>1 DEF Placed
  <2>2. \A a \in 1..Len(managers) : managers[a].ldapClient # NoClient =>
          clients'[managers[a].ldapClient].of = a
    BY <1>0, <1>1 DEF Placed, Typed, NoClient
  <2>3. QED
    BY <1>0, <2>1, <2>2 DEF Placed, Busy
<1>5. Promised'
  BY <1>0, <1>1 DEF Promised
<1>6. OpenIsUsed'
  <2> SUFFICES ASSUME NEW j \in 1..Len(clients), clients'[j].socket # "closed",
                      ~ managers[clients[j].of].overlapped
               PROVE  managers[clients[j].of].ldapClient = j /\ \E c \in Calls : Uses(c, j)'
    BY <1>1 DEF OpenIsUsed
  <2>1. managers[clients[j].of].ldapClient = j /\ \E c \in Calls : Uses(c, j)
    BY <1>0, <1>1 DEF OpenIsUsed
  <2>2. QED
    BY <1>1, <2>1 DEF Uses
<1>7. Recorded' /\ Alone' /\ Starting'
  BY <1>0 DEF Recorded, Alone, Starting, Busy
<1>8. Instance' /\ ReturnedIsReady'
  BY <1>0 DEF Instance, ReturnedIsReady, Ready
<1>9. QED
  BY <1>3, <1>4, <1>5, <1>6, <1>7, <1>8 DEF StartInv

\* An error or an end of a connection.
LEMMA SocketLostKeeps ==
  ASSUME StartInv, NEW k \in 1..Len(clients), SocketLost(k),
         UNCHANGED <<instance, overtaken>>
  PROVE  StartInv'
<1> DEFINE v == [clients[k] EXCEPT !.socket = "lost"]
<1>1. /\ clients[k].socket = "open" /\ UNCHANGED <<managers, call>>
      /\ clients' = [clients EXCEPT ![k] = v]
  BY DEF SocketLost
<1>2. Typed /\ IsClient(clients[k], Len(managers))
  BY DEF StartInv, Typed
<1>3. /\ IsClient(v, Len(managers)) /\ v.of = clients[k].of
      /\ v.promise = clients[k].promise /\ v.verdict = clients[k].verdict
  BY <1>2 DEF IsClient, ClientFields, Socket
<1> HIDE DEF v
<1>4. AlikeBut([clients EXCEPT ![k] = v], k, v)
  BY <1>2, <1>3, ClientPutIs
<1>5. AlikeBut(clients', k, v)
  BY <1>1, <1>4
<1>6. QED
  BY <1>1, <1>3, <1>5, HeardKeeps

\* A piece of an answer, with a verdict that settles the last bind() or without.
LEMMA DataArrivesKeeps ==
  ASSUME StartInv, NEW k \in 1..Len(clients), DataArrives(k),
         UNCHANGED <<instance, overtaken>>
  PROVE  StartInv'
<1>1. /\ clients[k].socket = "open" /\ clients[k].coming # <<>>
      /\ \E n \in Arrivals(clients[k]) :
           \/ /\ clients[k].verdict = Arrived(clients[k], n).verdict
              /\ clients' = [clients EXCEPT ![k] = Arrived(clients[k], n)]
              /\ UNCHANGED <<managers, call>>
           \/ /\ clients[k].verdict = "none"
              /\ Arrived(clients[k], n).verdict = "resolve"
              /\ Succeed(Arrived(clients[k], n).promise,
                         [clients EXCEPT ![k] = Arrived(clients[k], n)])
           \/ /\ clients[k].verdict = "none"
              /\ Arrived(clients[k], n).verdict = "reject"
              /\ FailAfter(Arrived(clients[k], n).promise,
                           [clients EXCEPT ![k] = Arrived(clients[k], n)])
  BY DEF DataArrives
<1>2. PICK n \in Arrivals(clients[k]) :
        \/ /\ clients[k].verdict = Arrived(clients[k], n).verdict
           /\ clients' = [clients EXCEPT ![k] = Arrived(clients[k], n)]
           /\ UNCHANGED <<managers, call>>
        \/ /\ clients[k].verdict = "none"
           /\ Arrived(clients[k], n).verdict = "resolve"
           /\ Succeed(Arrived(clients[k], n).promise,
                      [clients EXCEPT ![k] = Arrived(clients[k], n)])
        \/ /\ clients[k].verdict = "none"
           /\ Arrived(clients[k], n).verdict = "reject"
           /\ FailAfter(Arrived(clients[k], n).promise,
                        [clients EXCEPT ![k] = Arrived(clients[k], n)])
  BY <1>1
<1> DEFINE v == Arrived(clients[k], n)
           all == [clients EXCEPT ![k] = v]
<1>3. /\ Typed /\ Promised /\ IsClient(clients[k], Len(managers))
      /\ clients[k].promise \in Calls
  BY <1>1 DEF StartInv, Typed, IsClient
<1>4. /\ DOMAIN v = ClientFields /\ v.of = clients[k].of
      /\ v.socket = clients[k].socket /\ v.promise = clients[k].promise
  <2>1. PICK buffer, verdict, coming, chunks :
          v = [clients[k] EXCEPT !.buffer = buffer, !.verdict = verdict,
                                 !.coming = coming, !.chunks = chunks]
    BY DEF Arrived
  <2> HIDE DEF v
  <2>2. QED
    BY <1>3, <2>1 DEF IsClient, ClientFields
<1>5. v.verdict \in Answered
  BY <1>2, <1>3 DEF IsClient, Answered
<1>6. IsClient(v, Len(managers))
  BY <1>3, <1>4, <1>5 DEF IsClient
<1>7. AlikeBut(all, k, v)
  <2> HIDE DEF v
  <2>1. QED
    BY <1>3, <1>4, <1>6, ClientPutIs
<1>8. CASE /\ clients[k].verdict = v.verdict /\ clients' = all
           /\ UNCHANGED <<managers, call>>
  <2>1. AlikeBut(clients', k, v)
    BY <1>7, <1>8
  <2> HIDE DEF v
  <2>2. QED
    BY <1>1, <1>4, <1>8, <2>1, HeardKeeps
<1>9. ASSUME clients[k].verdict = "none", v.verdict # "none",
             NEW state \in {"CONNECTED", "AUTH_FAILED"}, NEW failed \in BOOLEAN,
             state = "AUTH_FAILED" => failed, NEW step \in {"authenticated", "threw"},
             Leave(v.promise, state, step, failed,
                   CloseField(call[v.promise].on, all))
      PROVE  StartInv'
  <2>1. PICK c \in Calls : c = v.promise
    BY <1>3, <1>4
  <2>2. call[c].step = "binding" /\ call[c].client = k
    BY <1>3, <1>4, <1>9, <2>1 DEF Promised
  <2>3. Alike(all) /\ \A j \in 1..Len(clients) : all[j] = IF j = k THEN v ELSE clients[j]
    BY <1>7 DEF AlikeBut
  <2> HIDE DEF v, all
  <2>4. \A j \in 1..Len(clients) :
          /\ all[j].promise = clients[j].promise
          /\ all[j].socket = clients[j].socket
          /\ all[j].verdict = "none" =>
               clients[j].verdict = "none" /\ all[j].promise # c
    <3>1. ASSUME NEW j \in 1..Len(clients), j # k, clients[j].verdict = "none"
          PROVE  clients[j].promise # c
      BY <1>3, <2>2, <3>1 DEF Promised
    <3>2. QED
      BY <1>4, <1>9, <2>3, <3>1
  <2>5. call[c].step \in {"which", "keytab", "kinit", "klist"} \cup Dialing
    BY <2>2 DEF Dialing
  <2>6. Leave(c, state, step, failed, CloseField(call[c].on, all))
    BY <1>9, <2>1
  <2>7. QED
    BY <1>9, <2>3, <2>4, <2>5, <2>6, LeaveKeeps
<1>10. CASE /\ clients[k].verdict = "none" /\ v.verdict = "resolve"
            /\ Succeed(v.promise, all)
  <2>1. Leave(v.promise, "CONNECTED", "authenticated", FALSE,
              CloseField(call[v.promise].on, all))
    BY <1>10 DEF Succeed
  <2>2. clients[k].verdict = "none" /\ v.verdict # "none"
    BY <1>10
  <2> HIDE DEF v, all
  <2>3. QED
    BY <1>9, <2>1, <2>2
<1>11. CASE /\ clients[k].verdict = "none" /\ v.verdict = "reject"
            /\ FailAfter(v.promise, all)
  <2>1. Leave(v.promise, "AUTH_FAILED", "threw", TRUE,
              CloseField(call[v.promise].on, all))
    BY <1>11 DEF FailAfter
  <2>2. clients[k].verdict = "none" /\ v.verdict # "none"
    BY <1>11
  <2> HIDE DEF v, all
  <2>3. QED
    BY <1>9, <2>1, <2>2
<1>12. QED
  BY <1>2, <1>8, <1>10, <1>11

-----------------------------------------------------------------------------
(* The first part of init().                                               *)

\* What the states authenticate() announces leave of a manager.
LEMMA AnnouncesIs ==
  ASSUME NEW m \in Manager, NEW e, e = Announces(m)
  PROVE  /\ e \in Manager
         /\ e.strategy = m.strategy /\ e.by = m.by /\ e.given = m.given
         /\ e.failed = m.failed /\ e.migrated = m.migrated
         /\ e.ldapClient = m.ldapClient /\ e.overlapped = m.overlapped
         /\ e.poolInitialized = m.poolInitialized
         /\ e.connectionState # "DISCONNECTED"
         /\ m.connectionState \in {"CONNECTED", "AUTH_FAILED"} =>
              e.connectionState = m.connectionState
         /\ ~ (m.connectionState \in {"CONNECTED", "AUTH_FAILED"}) =>
              e.connectionState = IF m.strategy = "jwt" THEN "CONNECTED"
                                                        ELSE "AUTHENTICATING"
<1>1. PICK b : b = SetState(m, "AUTHENTICATING")
  OBVIOUS
<1>2. /\ b \in Manager
      /\ b.connectionState = Moved(m.connectionState, "AUTHENTICATING")
      /\ b.strategy = m.strategy /\ b.by = m.by /\ b.given = m.given
      /\ b.failed = m.failed /\ b.migrated = m.migrated
      /\ b.ldapClient = m.ldapClient /\ b.overlapped = m.overlapped
      /\ b.poolInitialized = m.poolInitialized
  BY <1>1, SetStateIs
<1>3. m.connectionState \in State
  BY DEF Manager
<1>4. /\ b.connectionState # "DISCONNECTED"
      /\ m.connectionState \in {"CONNECTED", "AUTH_FAILED"} =>
           b.connectionState = m.connectionState
      /\ ~ (m.connectionState \in {"CONNECTED", "AUTH_FAILED"}) =>
           b.connectionState = "AUTHENTICATING"
  BY <1>2, <1>3, MovedTo DEF State
<1>5. CASE m.strategy = "jwt"
  <2>1. e = SetState(b, "CONNECTED")
    BY <1>1, <1>5 DEF Announces
  <2>2. /\ e \in Manager
        /\ e.connectionState = Moved(b.connectionState, "CONNECTED")
        /\ e.strategy = b.strategy /\ e.by = b.by /\ e.given = b.given
        /\ e.failed = b.failed /\ e.migrated = b.migrated
        /\ e.ldapClient = b.ldapClient /\ e.overlapped = b.overlapped
        /\ e.poolInitialized = b.poolInitialized
    BY <1>2, <2>1, SetStateIs
  <2>3. b.connectionState \in State
    BY <1>2 DEF Manager
  <2>4. /\ e.connectionState # "DISCONNECTED"
        /\ b.connectionState \in {"CONNECTED", "AUTH_FAILED"} =>
             e.connectionState = b.connectionState
        /\ b.connectionState = "AUTHENTICATING" => e.connectionState = "CONNECTED"
    BY <1>4, <2>2, <2>3, MovedTo
  <2>5. QED
    BY <1>2, <1>4, <1>5, <2>2, <2>4
<1>6. CASE m.strategy # "jwt"
  <2>1. e = b
    BY <1>1, <1>6 DEF Announces
  <2>2. QED
    BY <1>2, <1>4, <1>6, <2>1
<1>7. QED
  BY <1>5, <1>6

\* A manager as the strategy refuses it: AUTH_FAILED, and the failure recorded.
Refused(m) ==
  [SetState(SetState(m, "AUTHENTICATING"), "AUTH_FAILED") EXCEPT !.failed = TRUE]

\* What the refusal leaves of a manager.
LEMMA RefusedIs ==
  ASSUME NEW m \in Manager, NEW e, e = Refused(m)
  PROVE  /\ e \in Manager /\ e.failed
         /\ e.strategy = m.strategy /\ e.by = m.by /\ e.given = m.given
         /\ e.migrated = m.migrated
         /\ e.ldapClient = m.ldapClient /\ e.overlapped = m.overlapped
         /\ e.poolInitialized = m.poolInitialized
         /\ e.connectionState = IF m.connectionState = "CONNECTED" THEN "CONNECTED"
                                                                   ELSE "AUTH_FAILED"
<1>1. PICK b : b = SetState(m, "AUTHENTICATING")
  OBVIOUS
<1>2. PICK f : f = SetState(b, "AUTH_FAILED")
  OBVIOUS
<1>3. /\ b \in Manager
      /\ b.connectionState = Moved(m.connectionState, "AUTHENTICATING")
      /\ b.strategy = m.strategy /\ b.by = m.by /\ b.given = m.given
      /\ b.migrated = m.migrated
      /\ b.ldapClient = m.ldapClient /\ b.overlapped = m.overlapped
      /\ b.poolInitialized = m.poolInitialized
  BY <1>1, SetStateIs
<1>4. /\ f \in Manager
      /\ f.connectionState = Moved(b.connectionState, "AUTH_FAILED")
      /\ f.strategy = b.strategy /\ f.by = b.by /\ f.given = b.given
      /\ f.migrated = b.migrated
      /\ f.ldapClient = b.ldapClient /\ f.overlapped = b.overlapped
      /\ f.poolInitialized = b.poolInitialized
  BY <1>2, <1>3, SetStateIs
<1>5. e = [f EXCEPT !.failed = TRUE]
  BY <1>1, <1>2 DEF Refused
<1>6. /\ e \in Manager /\ e.failed /\ e.connectionState = f.connectionState
      /\ e.strategy = f.strategy /\ e.by = f.by /\ e.given = f.given
      /\ e.migrated = f.migrated
      /\ e.ldapClient = f.ldapClient /\ e.overlapped = f.overlapped
      /\ e.poolInitialized = f.poolInitialized
  BY <1>4, <1>5 DEF Manager
<1>7. f.connectionState = IF m.connectionState = "CONNECTED" THEN "CONNECTED"
                                                             ELSE "AUTH_FAILED"
  <2>1. m.connectionState \in State
    BY DEF Manager
  <2>2. b.connectionState = IF m.connectionState \in {"CONNECTED", "AUTH_FAILED"}
                              THEN m.connectionState ELSE "AUTHENTICATING"
    BY <1>3, <2>1, MovedTo DEF State
  <2>3. QED
    BY <1>4, <2>1, <2>2, MovedTo DEF State
<1>8. QED
  BY <1>3, <1>4, <1>6, <1>7

\* What an init() may make of a manager before its first await, and where it
\* leaves its caller.
Entered(m, e, step) ==
  /\ e \in Manager
  /\ e.strategy = m.strategy /\ e.by = m.by /\ e.given = m.given
  /\ e.migrated = m.migrated /\ e.ldapClient = m.ldapClient
  /\ e.overlapped = m.overlapped /\ e.poolInitialized = m.poolInitialized
  /\ m.connectionState # "DISCONNECTED" => e.connectionState # "DISCONNECTED"
  /\ e.connectionState = "AUTH_FAILED" => e.failed
  /\ Usable(m) => Usable(e)
  /\ step \in {"returned", "threw", "authenticated", "which", "connecting"}
  /\ step \in {"authenticated", "which", "connecting"} =>
       e.connectionState # "DISCONNECTED"
  /\ step = "authenticated" => Usable(e)
  /\ step = "returned" => m.poolInitialized
  /\ m.strategy = "password" => step \notin {"which", "connecting"}
  /\ m.strategy = "password" /\ m.connectionState = "DISCONNECTED"
       /\ step = "authenticated" => e.connectionState = "AUTHENTICATING"

\* The first part of init().
LEMMA PoolInitIs ==
  ASSUME NEW m \in Manager, m.connectionState = "AUTH_FAILED" => m.failed,
         NEW after, after = PoolInit(m)
  PROVE  Entered(m, after.m, after.step)
<1>1. m.strategy \in Strategy /\ m.connectionState \in State
  BY DEF Manager
<1>2. CASE m.poolInitialized
  <2>1. after.m = m /\ after.step = "returned"
    BY <1>2 DEF PoolInit, Ends
  <2>2. QED
    BY <1>2, <2>1 DEF Entered
<1>3. CASE ~ m.poolInitialized /\ ~ ValidConfig(m)
  <2>1. after.m = m /\ after.step = "threw"
    BY <1>3 DEF PoolInit, Ends
  <2>2. QED
    BY <2>1 DEF Entered
<1>4. CASE ~ m.poolInitialized /\ ValidConfig(m)
  <2>0. after = Authenticate(m)
    BY <1>4 DEF PoolInit
  <2>1. CASE m.connectionState = "CONNECTED"
    <3>1. after.m = m /\ after.step = "authenticated"
      BY <2>0, <2>1 DEF Authenticate, Ends
    <3>2. QED
      BY <2>1, <3>1 DEF Entered, Usable
  <2>2. CASE m.connectionState # "CONNECTED" /\ Needs[m.strategy] \subseteq m.given
    <3>1. after.m = Announces(m) /\ after.step = FirstStep[m.strategy]
      BY <2>0, <2>2 DEF Authenticate, Ends
    <3>2. PICK e : e = Announces(m)
      OBVIOUS
    <3>3. /\ e \in Manager
          /\ e.strategy = m.strategy /\ e.by = m.by /\ e.given = m.given
          /\ e.failed = m.failed /\ e.migrated = m.migrated
          /\ e.ldapClient = m.ldapClient /\ e.overlapped = m.overlapped
          /\ e.poolInitialized = m.poolInitialized
          /\ e.connectionState # "DISCONNECTED"
          /\ m.connectionState = "AUTH_FAILED" => e.connectionState = "AUTH_FAILED"
          /\ m.connectionState \in {"DISCONNECTED", "AUTHENTICATING"} =>
               e.connectionState = IF m.strategy = "jwt" THEN "CONNECTED"
                                                         ELSE "AUTHENTICATING"
      BY <3>2, AnnouncesIs
    <3>4. PICK step : step = FirstStep[m.strategy]
      OBVIOUS
    <3>5. /\ m.strategy \in {"password", "jwt"} => step = "authenticated"
          /\ m.strategy = "kerberos" => step = "which"
          /\ m.strategy = "ldap" => step = "connecting"
          /\ m.strategy \in {"password", "jwt", "kerberos", "ldap"}
      BY <1>1, <3>4 DEF FirstStep, Strategy
    <3>6. m.connectionState \in {"DISCONNECTED", "AUTHENTICATING", "AUTH_FAILED"}
      BY <1>1, <2>2 DEF State
    <3>7. /\ e.connectionState = "AUTH_FAILED" => e.failed
          /\ Usable(m) => Usable(e)
          /\ step = "authenticated" => Usable(e)
      BY <2>2, <3>3, <3>5, <3>6 DEF Usable
    <3>8. Entered(m, e, step)
      BY <3>3, <3>5, <3>6, <3>7 DEF Entered
    <3>9. QED
      BY <3>1, <3>2, <3>4, <3>8
  <2>3. CASE m.connectionState # "CONNECTED" /\ ~ (Needs[m.strategy] \subseteq m.given)
    <3>1. after.m = Refused(m) /\ after.step = "threw"
      BY <2>0, <2>3 DEF Authenticate, Ends, Refused
    <3>2. PICK e : e = Refused(m)
      OBVIOUS
    <3>3. /\ e \in Manager /\ e.failed /\ e.connectionState = "AUTH_FAILED"
          /\ e.strategy = m.strategy /\ e.by = m.by /\ e.given = m.given
          /\ e.migrated = m.migrated
          /\ e.ldapClient = m.ldapClient /\ e.overlapped = m.overlapped
          /\ e.poolInitialized = m.poolInitialized
      BY <2>3, <3>2, RefusedIs
    <3>4. Entered(m, e, "threw")
      BY <3>3 DEF Entered, Usable
    <3>5. QED
      BY <3>1, <3>2, <3>4
  <2>4. QED
    BY <2>1, <2>2, <2>3
<1>5. QED
  BY <1>2, <1>3, <1>4

\* Assembly a, an old one or a new one, is now s.
Joined(a, s) ==
  /\ managers' \in Seq(Manager)
  /\ a \in 1..(Len(managers) + 1)
  /\ Len(managers') = IF a > Len(managers) THEN a ELSE Len(managers)
  /\ \A b \in 1..Len(managers') : managers'[b] = IF b = a THEN s ELSE managers[b]

\* The clients, with one more for assembly a if the call dials.
Dialled(a, dials) ==
  /\ IsList(clients')
  /\ Len(clients') = IF dials THEN Len(clients) + 1 ELSE Len(clients)
  /\ \A k \in 1..Len(clients) : clients'[k] = clients[k]
  /\ dials => clients'[Len(clients) + 1] = NewClient(a)

\* Call c has begun, at a step, on an assembly and with a client.
Begun(c, task, step, on, client) ==
  /\ call' \in [Calls -> [task: Task, step: Step, on: 0..Len(managers'),
                          client: 0..Len(clients')]]
  /\ \A d \in Calls :
       IF d = c
         THEN /\ call'[d].task = task /\ call'[d].step = step
              /\ call'[d].on = on /\ call'[d].client = client
         ELSE call'[d] = call[d]

\* What init() makes of an assembly: that of before, or a new one.
ComesTo(a, s, step, dials) ==
  /\ s \in Manager
  /\ s.connectionState = "AUTH_FAILED" => s.failed
  /\ s.poolInitialized => Usable(s)
  /\ Created(s)
  /\ step \in {"returned", "threw", "authenticated", "which", "connecting"}
  /\ dials <=> step = "connecting"
  /\ step \in {"authenticated", "which", "connecting"} =>
       s.connectionState # "DISCONNECTED"
  /\ step = "authenticated" => Usable(s)
  /\ a <= Len(managers) =>
       /\ s.by = managers[a].by
       /\ managers[a].connectionState # "DISCONNECTED" =>
            s.connectionState # "DISCONNECTED"
       /\ Usable(managers[a]) => Usable(s)
       /\ managers[a].overlapped \/ UnderWay(a) => s.overlapped
  /\ dials => s.ldapClient = Len(clients) + 1
  /\ ~ dials => s.ldapClient = IF a <= Len(managers) THEN managers[a].ldapClient ELSE 0

\* A call begins: of a module it is the first, and makes the instance.
LEMMA BeginKeeps ==
  ASSUME StartInv, NEW c \in Calls, call[c].step \in {"idle", "factory"},
         NEW a, NEW s, NEW step, NEW dials \in BOOLEAN, NEW task, NEW client,
         Joined(a, s), Dialled(a, dials), Begun(c, task, step, a, client),
         ComesTo(a, s, step, dials), dials => client = Len(clients) + 1,
         \/ /\ task = "byHand" /\ s.by = "byHand"
            /\ UNCHANGED <<instance, overtaken>>
         \/ /\ task = "forRootAsync" /\ s.by = "module" /\ a = Len(managers) + 1
            /\ s.strategy = "password" /\ ~ s.overlapped /\ s.migrated = <<>>
            /\ step \in {"threw", "authenticated"}
            /\ step = "authenticated" => s.connectionState = "AUTHENTICATING"
            /\ instance' = a /\ overtaken' \in BOOLEAN
            /\ overtaken \/ instance # NoInstance => overtaken'
         \/ /\ task = "forRoot" /\ s.by = "module" /\ a = Len(managers) + 1
            /\ s.strategy = "password" /\ ~ s.overlapped /\ step = "returned"
            /\ instance = NoInstance /\ instance' = a /\ UNCHANGED overtaken
  PROVE  StartInv'
<1>0. /\ Typed /\ Placed /\ Promised /\ Recorded /\ Alone /\ OpenIsUsed
      /\ Starting /\ Instance /\ ReturnedIsReady
  BY DEF StartInv
<1>1. /\ Len(managers) \in Nat /\ Len(clients) \in Nat
      /\ managers' \in Seq(Manager) /\ a \in 1..(Len(managers) + 1)
      /\ Len(managers') = IF a > Len(managers) THEN a ELSE Len(managers)
      /\ \A b \in 1..Len(managers') : managers'[b] = IF b = a THEN s ELSE managers[b]
  BY <1>0 DEF Joined, Typed, IsList
<1>2. /\ Len(managers') \in Nat /\ Len(managers) <= Len(managers')
      /\ a \in 1..Len(managers')
      /\ \A b \in 1..Len(managers') : b # a => b \in 1..Len(managers)
  BY <1>1
<1>3. /\ IsList(clients') /\ Len(clients') \in Nat /\ Len(clients) <= Len(clients')
      /\ Len(clients') = IF dials THEN Len(clients) + 1 ELSE Len(clients)
      /\ \A k \in 1..Len(clients) : clients'[k] = clients[k]
      /\ dials => clients'[Len(clients) + 1] = NewClient(a)
      /\ \A k \in 1..Len(clients') : k \in 1..Len(clients) \/ (dials /\ k = Len(clients) + 1)
  BY <1>1 DEF Dialled
<1>4. /\ NewClient(a).of = a /\ NewClient(a).promise \notin Calls
      /\ IsClient(NewClient(a), Len(managers'))
  BY <1>2, AuthenticationAssumption DEF NewClient, IsClient, ClientFields, Socket, Answered
<1>5. /\ call' \in [Calls -> [task: Task, step: Step, on: 0..Len(managers'),
                              client: 0..Len(clients')]]
      /\ call'[c].task = task /\ call'[c].step = step
      /\ call'[c].on = a /\ call'[c].client = client
      /\ \A d \in Calls : d # c => call'[d] = call[d]
  BY DEF Begun
<1>6. /\ s \in Manager
      /\ s.connectionState = "AUTH_FAILED" => s.failed
      /\ s.poolInitialized => Usable(s)
      /\ Created(s)
      /\ step \in {"returned", "threw", "authenticated", "which", "connecting"}
      /\ dials <=> step = "connecting"
      /\ step \in {"authenticated", "which", "connecting"} =>
           s.connectionState # "DISCONNECTED"
      /\ step = "authenticated" => Usable(s)
      /\ a <= Len(managers) =>
           /\ s.by = managers[a].by
           /\ managers[a].connectionState # "DISCONNECTED" =>
                s.connectionState # "DISCONNECTED"
           /\ Usable(managers[a]) => Usable(s)
           /\ managers[a].overlapped \/ UnderWay(a) => s.overlapped
      /\ dials => s.ldapClient = Len(clients) + 1
      /\ ~ dials => s.ldapClient = IF a <= Len(managers) THEN managers[a].ldapClient ELSE 0
  BY DEF ComesTo
<1>7. /\ step # "factory" /\ step # "idle" /\ step # "clientInit" /\ step # "migrating"
      /\ step \in Dialing => dials
      /\ step \in Working => step \in {"authenticated", "which", "connecting"}
  BY <1>6 DEF Dialing, Working
<1>8. ~ Busy(c) /\ call[c].step \notin Dialing
  BY DEF Busy, Working, Dialing
<1>9. \A d \in Calls : d # c =>
        /\ Busy(d)' <=> Busy(d)
        /\ call'[d] = call[d]
        /\ Busy(d) => call[d].on \in 1..Len(managers)
  BY <1>0, <1>5 DEF Busy, Placed
<1>10. \A b \in 1..Len(managers) :
         /\ managers'[b] = IF b = a THEN s ELSE managers[b]
         /\ managers'[b].by = managers[b].by
         /\ managers[b].connectionState # "DISCONNECTED" =>
              managers'[b].connectionState # "DISCONNECTED"
         /\ Usable(managers[b]) => Usable(managers'[b])
         /\ managers[b].overlapped => managers'[b].overlapped
  BY <1>1, <1>2, <1>6
<1>11. /\ task \in {"byHand", "forRootAsync", "forRoot"}
       /\ task \in {"forRootAsync", "forRoot"} =>
            /\ s.by = "module" /\ s.strategy = "password" /\ ~ s.overlapped
            /\ a = Len(managers) + 1 /\ instance' = a
       /\ task = "byHand" => s.by = "byHand" /\ UNCHANGED <<instance, overtaken>>
       /\ task = "forRoot" =>
            step = "returned" /\ instance = NoInstance /\ UNCHANGED overtaken
       /\ task = "forRootAsync" =>
            /\ step \in {"threw", "authenticated"} /\ overtaken' \in BOOLEAN
            /\ overtaken \/ instance # NoInstance => overtaken'
  OBVIOUS
<1>20. Typed'
  <2>1. \A k \in 1..Len(clients') : IsClient(clients'[k], Len(managers'))
    <3>1. ASSUME NEW k \in 1..Len(clients)
          PROVE  IsClient(clients[k], Len(managers'))
      BY <1>0, <1>1, <1>2, <3>1 DEF Typed, IsClient
    <3>2. QED
      BY <1>3, <1>4, <3>1
  <2>2. \A b \in 1..Len(managers') : managers'[b].ldapClient \in 0..Len(clients')
    BY SMTT(30), <1>0, <1>1, <1>2, <1>3, <1>6 DEF Typed
  <2>3. instance' \in 0..Len(managers') /\ overtaken' \in BOOLEAN
    <3>1. instance \in 0..Len(managers) /\ overtaken \in BOOLEAN
      BY <1>0 DEF Typed
    <3>2. CASE UNCHANGED <<instance, overtaken>>
      BY <1>1, <1>2, <3>1, <3>2
    <3>3. CASE instance' = a /\ overtaken' \in BOOLEAN
      BY <1>1, <1>2, <3>3
    <3>4. QED
      BY <1>11, <3>1, <3>2, <3>3
  <2>4. QED
    BY <1>1, <1>3, <1>5, <2>1, <2>2, <2>3 DEF Typed
<1>21. Placed'
  <2>1. ASSUME NEW d \in Calls, d # c
        PROVE  /\ Busy(d)' =>
                    /\ call'[d].on \in 1..Len(managers')
                    /\ \/ call'[d].task = "byHand" /\ managers'[call'[d].on].by = "byHand"
                       \/ /\ call'[d].task = "forRootAsync"
                          /\ managers'[call'[d].on].by = "module"
               /\ call'[d].step \in {"factory", "clientInit", "migrating"} =>
                    call'[d].task = "forRootAsync"
               /\ call'[d].step \in {"factory", "idle"} => call'[d].on = 0
               /\ call'[d].step = "idle" => call'[d].task = "none"
    <3>1. call'[d] = call[d] /\ (Busy(d)' <=> Busy(d))
      BY <1>9, <2>1
    <3>2. Busy(d) =>
            /\ call[d].on \in 1..Len(managers)
            /\ \/ call[d].task = "byHand" /\ managers[call[d].on].by = "byHand"
               \/ call[d].task = "forRootAsync" /\ managers[call[d].on].by = "module"
      BY <1>0 DEF Placed
    <3>3. Busy(d) =>
            /\ call[d].on \in 1..Len(managers')
            /\ managers'[call[d].on].by = managers[call[d].on].by
      BY <1>1, <1>2, <1>10, <3>2
    <3>4. QED
      BY <1>0, <3>1, <3>2, <3>3 DEF Placed
  <2>2. ASSUME NEW d \in Calls, d # c, call'[d].step \in Dialing
        PROVE  /\ call'[d].client \in 1..Len(clients')
               /\ clients'[call'[d].client].of = call'[d].on
    <3>1. call'[d] = call[d]
      BY <1>5, <2>2
    <3>2. /\ call[d].client \in 1..Len(clients)
          /\ clients[call[d].client].of = call[d].on
      BY <1>0, <2>2, <3>1 DEF Placed
    <3>3. QED
      BY <1>1, <1>3, <3>1, <3>2
  <2>3. /\ Busy(c)' =>
             /\ call'[c].on \in 1..Len(managers')
             /\ \/ call'[c].task = "byHand" /\ managers'[call'[c].on].by = "byHand"
                \/ /\ call'[c].task = "forRootAsync"
                   /\ managers'[call'[c].on].by = "module"
        /\ call'[c].step \in {"factory", "clientInit", "migrating"} =>
             call'[c].task = "forRootAsync"
        /\ call'[c].step \in {"factory", "idle"} => call'[c].on = 0
        /\ call'[c].step = "idle" => call'[c].task = "none"
        /\ call'[c].step \in Dialing =>
             call'[c].client \in 1..Len(clients') /\ clients'[call'[c].client].of = call'[c].on
    <3>1. managers'[a] = s
      BY <1>1, <1>2
    <3>2. dials => client \in 1..Len(clients') /\ clients'[client].of = a
      BY <1>1, <1>3, <1>4
    <3>3. Busy(c)' => task # "forRoot"
      BY <1>5, <1>7, <1>11 DEF Busy
    <3>4. QED
      BY <1>2, <1>5, <1>7, <1>11, <3>1, <3>2, <3>3
  <2>4. ASSUME NEW b \in 1..Len(managers'), managers'[b].ldapClient # NoClient
        PROVE  clients'[managers'[b].ldapClient].of = b
    <3>1. CASE b = a /\ dials
      BY <1>1, <1>3, <1>4, <1>6, <3>1
    <3>2. CASE ~ (b = a /\ dials)
      <4>1. b \in 1..Len(managers) /\ managers'[b].ldapClient = managers[b].ldapClient
        BY <1>1, <1>2, <1>6, <2>4, <3>2 DEF NoClient
      <4>2. /\ managers[b].ldapClient \in 1..Len(clients)
            /\ clients[managers[b].ldapClient].of = b
        BY <1>0, <1>1, <2>4, <4>1 DEF Placed, Typed, NoClient
      <4>3. QED
        BY <1>3, <4>1, <4>2
    <3>3. QED
      BY <3>1, <3>2
  <2>5. QED
    BY <2>1, <2>2, <2>3, <2>4 DEF Placed
<1>22. Promised'
  <2> SUFFICES ASSUME NEW k \in 1..Len(clients'), clients'[k].verdict = "none",
                      clients'[k].promise \in Calls
               PROVE  /\ call'[clients'[k].promise].step = "binding"
                      /\ call'[clients'[k].promise].client = k
    BY DEF Promised
  <2>1. k \in 1..Len(clients) /\ clients'[k] = clients[k]
    BY <1>3, <1>4
  <2>2. /\ call[clients[k].promise].step = "binding"
        /\ call[clients[k].promise].client = k
    BY <1>0, <2>1 DEF Promised
  <2>3. clients[k].promise # c
    BY <2>2
  <2>4. QED
    BY <1>5, <2>1, <2>2, <2>3
<1>23. Recorded'
  <2>1. ASSUME NEW b \in 1..Len(managers')
        PROVE  /\ managers'[b].connectionState = "AUTH_FAILED" => managers'[b].failed
               /\ managers'[b].poolInitialized => Usable(managers'[b])
    BY <1>0, <1>1, <1>2, <1>6 DEF Recorded
  <2>2. ASSUME NEW d \in Calls, Busy(d)'
        PROVE  managers'[call'[d].on].connectionState # "DISCONNECTED"
    <3>1. CASE d = c
      BY <1>1, <1>2, <1>5, <1>6, <1>7, <2>2, <3>1 DEF Busy
    <3>2. CASE d # c
      BY <1>0, <1>9, <1>10, <2>2, <3>2 DEF Recorded
    <3>3. QED
      BY <3>1, <3>2
  <2>3. ASSUME NEW d \in Calls, call'[d].step \in {"authenticated", "clientInit"}
        PROVE  Usable(managers'[call'[d].on])
    <3>1. CASE d = c
      BY <1>1, <1>2, <1>5, <1>6, <1>7, <2>3, <3>1
    <3>2. CASE d # c
      <4>1. Busy(d)'
        BY <2>3 DEF Busy, Working
      <4>2. Busy(d) /\ call'[d] = call[d] /\ call[d].on \in 1..Len(managers)
        BY <1>9, <3>2, <4>1
      <4>3. Usable(managers[call[d].on])
        BY <1>0, <2>3, <4>2 DEF Recorded
      <4>4. QED
        BY <1>10, <4>2, <4>3
    <3>3. QED
      BY <3>1, <3>2
  <2>4. QED
    BY <2>1, <2>2, <2>3 DEF Recorded
<1>24. Alone'
  <2>1. ASSUME NEW d \in Calls, d # c, Busy(d)', Busy(c)', call'[d].on = call'[c].on
        PROVE  managers'[a].overlapped
    <3>1. Busy(d) /\ call[d].on = a /\ a \in 1..Len(managers)
      BY <1>5, <1>9, <2>1
    <3>2. UnderWay(a)
      BY <3>1 DEF UnderWay, Busy
    <3>3. QED
      BY <1>1, <1>2, <1>6, <3>1, <3>2
  <2>2. ASSUME NEW d \in Calls, NEW e \in Calls, d # e, d # c, e # c, Busy(d)', Busy(e)',
               call'[d].on = call'[e].on
        PROVE  managers'[call'[d].on].overlapped
    <3>1. /\ Busy(d) /\ Busy(e) /\ call[d].on = call[e].on
          /\ call'[d].on = call[d].on /\ call[d].on \in 1..Len(managers)
      BY <1>9, <2>2
    <3>2. managers[call[d].on].overlapped
      BY <1>0, <2>2, <3>1 DEF Alone
    <3>3. QED
      BY <1>10, <3>1, <3>2
  <2>3. \A d, e \in Calls :
          d # e /\ Busy(d)' /\ Busy(e)' /\ call'[d].on = call'[e].on
            => managers'[call'[d].on].overlapped
    BY <1>5, <2>1, <2>2
  <2>4. ASSUME NEW b \in 1..Len(managers'), managers'[b].by = "module"
        PROVE  managers'[b].strategy = "password" /\ ~ managers'[b].overlapped
    BY <1>0, <1>1, <1>2, <1>11, <2>4 DEF Alone
  <2>5. QED
    BY <2>3, <2>4 DEF Alone
<1>25. OpenIsUsed'
  <2> SUFFICES ASSUME NEW k \in 1..Len(clients'), clients'[k].socket # "closed",
                      ~ managers'[clients'[k].of].overlapped
               PROVE  /\ managers'[clients'[k].of].ldapClient = k
                      /\ \E d \in Calls : Uses(d, k)'
    BY DEF OpenIsUsed
  <2>1. CASE k \in 1..Len(clients)
    <3>1. PICK b \in 1..Len(managers) : b = clients[k].of /\ clients'[k] = clients[k]
      BY <1>0, <1>3, <2>1 DEF Typed, IsClient
    <3>2. ~ managers[b].overlapped
      BY <1>10, <3>1
    <3>3. managers[b].ldapClient = k /\ \E d \in Calls : Uses(d, k)
      BY <1>0, <2>1, <3>1, <3>2 DEF OpenIsUsed
    <3>4. PICK d \in Calls : Uses(d, k)
      BY <3>3
    <3>5. UnderWay(b) /\ d # c
      BY <1>8, <3>1, <3>4 DEF Uses, UnderWay, Dialing, Working
    <3>6. b # a
      <4>1. b = a => managers'[b].overlapped
        BY <1>1, <1>2, <1>6, <3>1, <3>5
      <4>2. QED
        BY <3>1, <4>1
    <3>7. Uses(d, k)'
      BY <1>5, <3>1, <3>4, <3>5 DEF Uses
    <3>8. QED
      BY <1>10, <3>1, <3>3, <3>6, <3>7
  <2>2. CASE dials /\ k = Len(clients) + 1
    <3>1. clients'[k].of = a /\ managers'[a] = s /\ s.ldapClient = k
      BY <1>1, <1>2, <1>3, <1>4, <1>6, <2>2
    <3>2. call'[c].on = a /\ call'[c].step = "connecting" /\ call'[c].client = k
      BY <1>5, <1>6, <2>2
    <3>3. Uses(c, k)'
      BY <3>1, <3>2 DEF Uses, Dialing
    <3>4. QED
      BY <3>1, <3>3
  <2>3. QED
    BY <1>3, <2>1, <2>2
<1>26. Starting'
  <2>1. \A b \in 1..Len(managers') : Created(managers'[b])
    BY <1>0, <1>1, <1>2, <1>6 DEF Starting
  <2>2. ASSUME NEW d \in Calls, call'[d].task = "forRootAsync", Busy(d)'
        PROVE  Started(managers'[call'[d].on], call'[d].step)
    <3>1. CASE d = c
      <4>1. /\ task = "forRootAsync" /\ s.migrated = <<>>
            /\ step \in {"threw", "authenticated"}
            /\ step = "authenticated" => s.connectionState = "AUTHENTICATING"
        BY <1>5, <2>2, <3>1
      <4>2. Started(s, step)
        BY <1>7, <4>1 DEF Started
      <4>3. QED
        BY <1>1, <1>2, <1>5, <3>1, <4>2
    <3>2. CASE d # c
      <4>1. Busy(d) /\ call'[d] = call[d] /\ call[d].on \in 1..Len(managers)
        BY <1>9, <2>2, <3>2
      <4>2. managers[call[d].on].by = "module" /\ Started(managers[call[d].on], call[d].step)
        BY <1>0, <2>2, <4>1 DEF Placed, Starting
      <4>3. call[d].on # a
        BY <1>6, <1>11, <4>1, <4>2
      <4>4. QED
        BY <1>10, <4>1, <4>2, <4>3
    <3>3. QED
      BY <3>1, <3>2
  <2>3. QED
    BY <2>1, <2>2 DEF Starting
<1>27. Instance'
  <2>1. instance' # NoInstance => managers'[instance'].by = "module"
    <3>1. CASE instance' = instance
      BY <1>0, <1>10, <3>1 DEF Instance, Typed, NoInstance
    <3>2. CASE task # "byHand" /\ instance' = a
      BY <1>1, <1>2, <1>11, <3>2
    <3>3. QED
      BY <1>11, <3>1, <3>2
  <2>2. ASSUME ~ overtaken', NEW d \in Calls, call'[d].task = "forRootAsync"
        PROVE  /\ call'[d].on # 0 => call'[d].on = instance'
               /\ call'[d].step = "returned" => call'[d].on # 0
    <3>1. CASE d = c
      BY <1>2, <1>5, <2>2, <3>1
    <3>2. CASE d # c
      <4>1. ~ overtaken /\ call'[d] = call[d]
        BY <1>0, <1>5, <2>2, <3>2 DEF Typed
      <4>2. /\ call[d].on # 0 => call[d].on = instance
            /\ call[d].step = "returned" => call[d].on # 0
        BY <1>0, <2>2, <4>1 DEF Instance
      <4>3. instance' = instance \/ instance = 0
        BY <1>11, <2>2 DEF NoInstance
      <4>4. QED
        BY <4>1, <4>2, <4>3
    <3>3. QED
      BY <3>1, <3>2
  <2>3. ASSUME ~ overtaken', NEW d \in Calls, NEW e \in Calls,
               call'[d].task = "forRootAsync", call'[e].task = "forRootAsync",
               call'[d].on # 0, call'[e].on # 0
        PROVE  d = e
    <3>1. ~ overtaken
      BY <1>0, <1>11, <2>3 DEF Typed
    <3>2. CASE task = "byHand"
      <4>1. d # c /\ e # c
        BY <1>5, <2>3, <3>2
      <4>2. call'[d] = call[d] /\ call'[e] = call[e]
        BY <1>5, <4>1
      <4>3. QED
        BY <1>0, <2>3, <3>1, <4>2 DEF Instance
    <3>3. CASE task # "byHand"
      <4>1. instance = 0
        BY <1>11, <2>3, <3>3 DEF NoInstance
      <4>2. \A f \in Calls : f # c /\ call'[f].task = "forRootAsync" => call'[f].on = 0
        BY <1>0, <1>5, <3>1, <4>1 DEF Instance
      <4>3. QED
        BY <2>3, <4>2
    <3>4. QED
      BY <1>11, <3>2, <3>3
  <2>4. QED
    BY <2>1, <2>2, <2>3 DEF Instance
<1>28. ReturnedIsReady'
  <2> SUFFICES ASSUME NEW d \in Calls, call'[d].task = "forRootAsync",
                      call'[d].step = "returned", ~ overtaken'
               PROVE  IsReady(managers'[call'[d].on])
    BY DEF ReturnedIsReady, Ready, IsReady
  <2>1. d # c /\ ~ overtaken
    BY <1>0, <1>5, <1>11 DEF Typed
  <2>2. call'[d] = call[d] /\ Ready(call[d].on)
    BY <1>0, <1>5, <2>1 DEF ReturnedIsReady
  <2>3. call[d].on # 0 /\ call[d].on = instance
    BY <1>0, <2>1, <2>2 DEF Instance
  <2>4. instance \in 1..Len(managers) /\ managers[instance].by = "module"
    BY <1>0, <2>3 DEF Instance, Typed, NoInstance
  <2>5. instance # a
    <3>1. task = "byHand"
      BY <1>11, <2>3, <2>4 DEF NoInstance
    <3>2. QED
      BY <1>6, <1>11, <2>4, <3>1
  <2>6. managers'[instance] = managers[instance]
    BY <1>10, <2>4, <2>5
  <2>7. QED
    BY <2>2, <2>3, <2>6 DEF Ready, IsReady
<1>29. QED
  BY <1>20, <1>21, <1>22, <1>23, <1>24, <1>25, <1>26, <1>27, <1>28 DEF StartInv

\* The manager init() leaves, with the client it has made and what it shares.
Settled(m, client, shared) == [m EXCEPT !.ldapClient = client, !.overlapped = shared]

\* s is m, but for these two fields.
KeptBut(s, m, client, shared) ==
  /\ s \in Manager /\ s.by = m.by /\ Papers(s, m)
  /\ s.migrated = m.migrated /\ s.connectionState = m.connectionState
  /\ s.failed = m.failed /\ s.poolInitialized = m.poolInitialized
  /\ s.ldapClient = client /\ s.overlapped = shared

\* The fields of the manager init() leaves.
LEMMA SettledIs ==
  ASSUME NEW m \in Manager, NEW client \in Nat, NEW shared \in BOOLEAN
  PROVE  KeptBut(Settled(m, client, shared), m, client, shared)
BY DEF Settled, KeptBut, Papers, Manager

\* What init() on assembly a, which is m, does: e and a step come of it before its
\* first await, it leaves s, and dials or not.
InitIs(c, task, a, m, e, s, step, dials, client) ==
  /\ e = PoolInit(m).m /\ step = PoolInit(m).step /\ Entered(m, e, step)
  /\ dials <=> step = "connecting"
  /\ client = IF dials THEN Len(clients) + 1 ELSE NoClient
  /\ \E field \in Nat, shared \in BOOLEAN :
       /\ KeptBut(s, e, field, shared)
       /\ field = IF dials THEN Len(clients) + 1 ELSE m.ldapClient
       /\ shared <=> (m.overlapped \/ UnderWay(a))
  /\ Joined(a, s) /\ Dialled(a, dials) /\ Begun(c, task, step, a, client)

\* So it does.
LEMMA InitializeIs ==
  ASSUME Typed, NEW c \in Calls, NEW a \in 1..(Len(managers) + 1), NEW m \in Manager,
         m.connectionState = "AUTH_FAILED" => m.failed, m.ldapClient \in 0..Len(clients),
         NEW task \in Task, Initialize(c, task, a, m)
  PROVE  \E dials \in BOOLEAN : \E e, s, step, client :
           InitIs(c, task, a, m, e, s, step, dials, client)
<1>1. /\ Len(managers) \in Nat /\ Len(clients) \in Nat
      /\ managers \in Seq(Manager) /\ IsList(clients)
  BY DEF Typed, IsList
<1>3. PICK e, step : e = PoolInit(m).m /\ step = PoolInit(m).step
  OBVIOUS
<1>4. Entered(m, e, step)
  <2>1. PICK after : after = PoolInit(m)
    OBVIOUS
  <2>2. QED
    BY <1>3, <2>1, PoolInitIs
<1>5. PICK dials \in BOOLEAN : dials <=> step = "connecting"
  OBVIOUS
<1>6. PICK field : field = IF dials THEN Len(clients) + 1 ELSE m.ldapClient
  OBVIOUS
<1>7. PICK shared \in BOOLEAN : shared <=> (m.overlapped \/ UnderWay(a))
  OBVIOUS
<1>8. PICK client : client = IF dials THEN Len(clients) + 1 ELSE NoClient
  OBVIOUS
<1>e. /\ e \in Manager
      /\ e.strategy = m.strategy /\ e.by = m.by /\ e.given = m.given
      /\ e.migrated = m.migrated /\ e.ldapClient = m.ldapClient
      /\ e.overlapped = m.overlapped /\ e.poolInitialized = m.poolInitialized
      /\ m.connectionState # "DISCONNECTED" => e.connectionState # "DISCONNECTED"
      /\ e.connectionState = "AUTH_FAILED" => e.failed
      /\ Usable(m) => Usable(e)
      /\ step \in {"returned", "threw", "authenticated", "which", "connecting"}
      /\ step \in {"authenticated", "which", "connecting"} =>
           e.connectionState # "DISCONNECTED"
      /\ step = "authenticated" => Usable(e)
      /\ step = "returned" => m.poolInitialized
      /\ m.strategy = "password" => step \notin {"which", "connecting"}
      /\ m.strategy = "password" /\ m.connectionState = "DISCONNECTED"
           /\ step = "authenticated" => e.connectionState = "AUTHENTICATING"
  BY <1>4 DEF Entered
<1>9. PICK s : s = Settled(e, field, shared)
  OBVIOUS
<1>10. field \in Nat
  BY <1>1, <1>6
<1>k. KeptBut(s, e, field, shared)
  <2>1. KeptBut(Settled(e, field, shared), e, field, shared)
    BY <1>e, <1>10, SettledIs
  <2> QED
    BY <1>9, <2>1
<1>11. /\ s \in Manager /\ s.by = e.by /\ s.strategy = e.strategy
       /\ s.migrated = e.migrated /\ s.connectionState = e.connectionState
       /\ s.failed = e.failed /\ s.poolInitialized = e.poolInitialized
       /\ s.ldapClient = field /\ s.overlapped = shared
  BY <1>k DEF KeptBut, Papers
<1>12. /\ managers' = IF a > Len(managers) THEN Append(managers, s)
                                           ELSE [managers EXCEPT ![a] = s]
       /\ clients' = IF dials THEN Append(clients, NewClient(a)) ELSE clients
       /\ call' = [call EXCEPT ![c] = [task |-> task, step |-> step,
                                       on |-> a, client |-> client]]
  <2>1. PICK after : after = PoolInit(m)
    OBVIOUS
  <2>2. e = after.m /\ step = after.step
    BY <1>3, <2>1
  <2>3. s = [after.m EXCEPT !.ldapClient = IF after.step = "connecting"
                                             THEN Len(clients) + 1 ELSE @,
                            !.overlapped = @ \/ UnderWay(a)]
    <3>1. field = IF after.step = "connecting" THEN Len(clients) + 1 ELSE e.ldapClient
      BY <1>5, <1>6, <1>e, <2>2
    <3>2. shared = (e.overlapped \/ UnderWay(a))
      <4>1. e.overlapped = m.overlapped /\ e.overlapped \in BOOLEAN
        BY <1>e DEF Manager
      <4>2. shared <=> (e.overlapped \/ UnderWay(a))
        BY <1>7, <4>1
      <4>3. QED
        BY <4>2
    <3>3. QED
      BY <1>9, <2>2, <3>1, <3>2 DEF Settled
  <2>4. QED
    BY <1>5, <1>8, <2>1, <2>2, <2>3 DEF Initialize
<1>13. Joined(a, s)
  <2>1. CASE a > Len(managers)
    <3>1. managers' = Append(managers, s) /\ a = Len(managers) + 1
      BY <1>1, <1>12, <2>1
    <3>2. PICK t : t = managers'
      OBVIOUS
    <3>3. /\ t \in Seq(Manager) /\ Len(t) = Len(managers) + 1
          /\ \A j \in 1..(Len(managers) + 1) :
               t[j] = IF j = Len(managers) + 1 THEN s ELSE managers[j]
      BY <1>1, <1>11, <3>1, <3>2, SeqAdd
    <3>4. QED
      BY <2>1, <3>1, <3>2, <3>3 DEF Joined
  <2>2. CASE ~ (a > Len(managers))
    <3>1. a \in 1..Len(managers) /\ managers' = [managers EXCEPT ![a] = s]
      BY <1>1, <1>12, <2>2
    <3>2. Became(a, s)
      BY <1>11, <3>1, BecameIs
    <3>3. QED
      BY <2>2, <3>2 DEF Became, Joined
  <2>3. QED
    BY <2>1, <2>2
<1>14. Dialled(a, dials)
  <2>1. CASE dials
    <3>1. PICK n : n = NewClient(a)
      OBVIOUS
    <3>2. PICK t : t = Append(clients, n)
      OBVIOUS
    <3>3. /\ IsList(t) /\ Len(t) = Len(clients) + 1
          /\ \A j \in 1..(Len(clients) + 1) :
               t[j] = IF j = Len(clients) + 1 THEN n ELSE clients[j]
      <4>1. Extended(Append(clients, n), clients, n)
        BY <1>1, ClientAdd
      <4>2. Extended(t, clients, n)
        BY <3>2, <4>1
      <4>3. QED
        BY <4>2 DEF Extended
    <3>4. clients' = t
      BY <1>12, <2>1, <3>1, <3>2
    <3>5. QED
      BY <1>1, <2>1, <3>1, <3>3, <3>4 DEF Dialled
  <2>2. CASE ~ dials
    BY <1>1, <1>12, <2>2 DEF Dialled
  <2>3. QED
    BY <2>1, <2>2
<1>15. Begun(c, task, step, a, client)
  <2>1. task \in Task /\ step \in Step /\ client \in 0..Len(clients')
    BY <1>1, <1>8, <1>14, <1>e DEF Step, Working, Dialled, NoClient
  <2>2. a \in 0..Len(managers')
    BY <1>1, <1>13 DEF Joined
  <2>3. Len(managers) <= Len(managers') /\ Len(clients) <= Len(clients')
    BY <1>1, <1>13, <1>14 DEF Joined, Dialled
  <2>4. Len(managers') \in Nat /\ Len(clients') \in Nat
    BY <1>1, <1>13, <1>14 DEF Joined, Dialled
  <2>5. PICK r : r = [task |-> task, step |-> step, on |-> a, client |-> client]
    OBVIOUS
  <2>6. /\ r \in [task: Task, step: Step, on: 0..Len(managers'), client: 0..Len(clients')]
        /\ r.task = task /\ r.step = step /\ r.on = a /\ r.client = client
    BY <2>1, <2>2, <2>5
  <2>7. \A d \in Calls : call[d] \in [task: Task, step: Step, on: 0..Len(managers'),
                                      client: 0..Len(clients')]
    BY <1>1, <2>3, <2>4 DEF Typed
  <2>8. call' = [call EXCEPT ![c] = r] /\ DOMAIN call = Calls
        /\ call = [d \in Calls |-> call[d]]
    BY <1>12, <2>5 DEF Typed
  <2>9. QED
    BY <2>6, <2>7, <2>8 DEF Begun
<1>16. InitIs(c, task, a, m, e, s, step, dials, client)
  BY Zenon, <1>3, <1>4, <1>5, <1>6, <1>7, <1>8, <1>10, <1>13, <1>14, <1>15, <1>k DEF InitIs
<1> QED
  BY Zenon, <1>16

\* A call begins on assembly a, which is m.
LEMMA InitializeKeeps ==
  ASSUME StartInv, NEW c \in Calls, call[c].step \in {"idle", "factory"},
         NEW a \in 1..(Len(managers) + 1), NEW m \in Manager,
         NEW task, Initialize(c, task, a, m),
         \/ /\ task = "byHand" /\ m.by = "byHand"
            /\ UNCHANGED <<instance, overtaken>>
         \/ /\ task = "forRootAsync" /\ m.by = "module" /\ a = Len(managers) + 1
            /\ m.strategy = "password"
            /\ instance' = a /\ overtaken' \in BOOLEAN
            /\ overtaken \/ instance # NoInstance => overtaken',
         IF a <= Len(managers)
           THEN m = managers[a]
           ELSE /\ m.connectionState = "DISCONNECTED" /\ ~ m.poolInitialized
                /\ m.ldapClient = NoClient /\ m.migrated = <<>> /\ ~ m.overlapped
  PROVE  StartInv'
<1>0. Typed /\ Placed /\ Recorded /\ Starting
  BY DEF StartInv
<1>1. /\ Len(managers) \in Nat /\ Len(clients) \in Nat
      /\ managers \in Seq(Manager) /\ IsList(clients)
  BY <1>0 DEF Typed, IsList
<1>2. /\ m.connectionState = "AUTH_FAILED" => m.failed
      /\ m.poolInitialized => Usable(m)
      /\ Created(m) /\ m.ldapClient \in 0..Len(clients)
  <2>1. CASE a <= Len(managers)
    <3>1. a \in 1..Len(managers) /\ m = managers[a]
      BY <1>1, <2>1
    <3>2. QED
      BY <1>0, <3>1 DEF Recorded, Starting, Typed
  <2>2. CASE ~ (a <= Len(managers))
    <3>1. /\ m.connectionState = "DISCONNECTED" /\ ~ m.poolInitialized
          /\ m.ldapClient = NoClient /\ m.migrated = <<>>
      BY <2>2
    <3>2. Len(Entities) \in Nat
      BY EntitiesAssumption
    <3>3. Created(m)
      BY <3>1, <3>2 DEF Created
    <3>4. QED
      BY <1>1, <3>1, <3>3 DEF NoClient
  <2>3. QED
    BY <2>1, <2>2
<1>4. PICK dials \in BOOLEAN : \E e, s, step, client :
        InitIs(c, task, a, m, e, s, step, dials, client)
  <2>1. task \in Task
    BY DEF Task
  <2> QED
    BY Zenon, <1>0, <1>2, <2>1, InitializeIs
<1>3. PICK e, s, step, client : InitIs(c, task, a, m, e, s, step, dials, client)
  BY Zenon, <1>4
<1>5. /\ Entered(m, e, step) /\ (dials <=> step = "connecting")
      /\ client = IF dials THEN Len(clients) + 1 ELSE NoClient
  BY Zenon, <1>3 DEF InitIs
<1>6. PICK field \in Nat, shared \in BOOLEAN :
        /\ KeptBut(s, e, field, shared)
        /\ field = IF dials THEN Len(clients) + 1 ELSE m.ldapClient
        /\ shared <=> (m.overlapped \/ UnderWay(a))
  BY Zenon, <1>3 DEF InitIs
<1>e. /\ e \in Manager
      /\ e.strategy = m.strategy /\ e.by = m.by /\ e.given = m.given
      /\ e.migrated = m.migrated /\ e.ldapClient = m.ldapClient
      /\ e.overlapped = m.overlapped /\ e.poolInitialized = m.poolInitialized
      /\ m.connectionState # "DISCONNECTED" => e.connectionState # "DISCONNECTED"
      /\ e.connectionState = "AUTH_FAILED" => e.failed
      /\ Usable(m) => Usable(e)
      /\ step \in {"returned", "threw", "authenticated", "which", "connecting"}
      /\ step \in {"authenticated", "which", "connecting"} =>
           e.connectionState # "DISCONNECTED"
      /\ step = "authenticated" => Usable(e)
      /\ step = "returned" => m.poolInitialized
      /\ m.strategy = "password" => step \notin {"which", "connecting"}
      /\ m.strategy = "password" /\ m.connectionState = "DISCONNECTED"
           /\ step = "authenticated" => e.connectionState = "AUTHENTICATING"
  BY <1>5 DEF Entered
<1>11. /\ s \in Manager /\ s.by = e.by /\ s.strategy = e.strategy
       /\ s.migrated = e.migrated /\ s.connectionState = e.connectionState
       /\ s.failed = e.failed /\ s.poolInitialized = e.poolInitialized
       /\ s.ldapClient = field /\ s.overlapped = shared
  BY <1>6 DEF KeptBut, Papers
<1>13. Joined(a, s) /\ Dialled(a, dials) /\ Begun(c, task, step, a, client)
  BY Zenon, <1>3 DEF InitIs
<1>16. ComesTo(a, s, step, dials)
  <2>1. Usable(e) => Usable(s)
    BY <1>11 DEF Usable
  <2>2. Created(s) /\ (s.poolInitialized => Usable(s))
    BY <1>2, <1>11, <1>e, <2>1 DEF Created
  <2>3. a <= Len(managers) =>
          /\ s.by = managers[a].by
          /\ managers[a].connectionState # "DISCONNECTED" =>
               s.connectionState # "DISCONNECTED"
          /\ Usable(managers[a]) => Usable(s)
          /\ managers[a].overlapped \/ UnderWay(a) => s.overlapped
    <3>1. ASSUME a <= Len(managers)
          PROVE  m = managers[a]
      BY <3>1
    <3>2. m.overlapped \/ UnderWay(a) => s.overlapped
      BY <1>6, <1>11
    <3>3. QED
      BY <1>11, <1>e, <2>1, <3>1, <3>2
  <2>4. s.ldapClient = IF dials THEN Len(clients) + 1
                                ELSE IF a <= Len(managers) THEN managers[a].ldapClient ELSE 0
    BY <1>6, <1>11 DEF NoClient
  <2>5. QED
    BY <1>5, <1>11, <1>e, <2>1, <2>2, <2>3, <2>4 DEF ComesTo
<1>17. \/ /\ task = "byHand" /\ s.by = "byHand"
          /\ UNCHANGED <<instance, overtaken>>
       \/ /\ task = "forRootAsync" /\ s.by = "module" /\ a = Len(managers) + 1
          /\ s.strategy = "password" /\ ~ s.overlapped /\ s.migrated = <<>>
          /\ step \in {"threw", "authenticated"}
          /\ step = "authenticated" => s.connectionState = "AUTHENTICATING"
          /\ instance' = a /\ overtaken' \in BOOLEAN
          /\ overtaken \/ instance # NoInstance => overtaken'
  <2>1. CASE task = "byHand"
    BY <1>11, <1>e, <2>1
  <2>2. CASE task = "forRootAsync"
    <3>1. /\ m.by = "module" /\ a = Len(managers) + 1 /\ m.strategy = "password"
          /\ instance' = a /\ overtaken' \in BOOLEAN
          /\ overtaken \/ instance # NoInstance => overtaken'
      BY <2>2
    <3>2. /\ m.connectionState = "DISCONNECTED" /\ ~ m.poolInitialized
          /\ m.migrated = <<>> /\ ~ m.overlapped
      BY <1>1, <3>1
    <3>3. ~ UnderWay(a)
      <4>1. \A d \in Calls : call[d].on <= Len(managers)
        BY <1>0, <1>1 DEF Typed
      <4>2. QED
        BY <1>1, <3>1, <4>1 DEF UnderWay
    <3>4. ~ s.overlapped
      BY <1>6, <1>11, <3>2, <3>3
    <3>5. QED
      BY <1>11, <1>e, <2>2, <3>1, <3>2, <3>4
  <2>3. QED
    BY <2>1, <2>2
<1>18. dials => client = Len(clients) + 1
  BY <1>5
<1>19. QED
  BY <1>13, <1>16, <1>17, <1>18, BeginKeeps, Zenon

\* A call that waits for the factory, or has thrown, is at work on nothing.
LEMMA StopKeeps ==
  ASSUME StartInv, NEW c \in Calls, call[c].step \in {"idle", "factory"},
         NEW r, r \in [task: {"forRoot", "forRootAsync"}, step: {"factory", "threw"},
                       on: {0}, client: {0}],
         r.step = "factory" => r.task = "forRootAsync",
         call' = [call EXCEPT ![c] = r],
         UNCHANGED <<managers, clients, instance, overtaken>>
  PROVE  StartInv'
<1>0. /\ Typed /\ Placed /\ Promised /\ Recorded /\ Alone /\ OpenIsUsed
      /\ Starting /\ Instance /\ ReturnedIsReady
  BY DEF StartInv
<1>1. /\ call'[c] = r /\ \A d \in Calls : d # c => call'[d] = call[d]
      /\ call' \in [Calls -> [task: Task, step: Step, on: 0..Len(managers),
                              client: 0..Len(clients)]]
  <2>1. r \in [task: Task, step: Step, on: 0..Len(managers), client: 0..Len(clients)]
    <3>1. 0 \in 0..Len(managers) /\ 0 \in 0..Len(clients)
      BY <1>0 DEF Typed, IsList
    <3>2. QED
      BY <3>1 DEF Task, Step, Working
  <2>2. QED
    BY <1>0, <2>1 DEF Typed
<1>2. /\ r.step \in {"factory", "threw"} /\ r.on = 0 /\ r.task \in {"forRoot", "forRootAsync"}
      /\ r.step \notin Dialing
  BY DEF Dialing
<1>3. \A d \in Calls :
        /\ Busy(d)' => d # c /\ Busy(d)
        /\ Uses(c, d) => FALSE
  BY <1>1, <1>2 DEF Busy, Working, Uses, Dialing
<1>4. Typed'
  BY <1>0, <1>1 DEF Typed
<1>5. Placed'
  BY <1>0, <1>1, <1>2, <1>3 DEF Placed
<1>6. Promised'
  BY <1>0, <1>1 DEF Promised
<1>7. Recorded' /\ Alone'
  BY <1>0, <1>1, <1>2, <1>3 DEF Recorded, Alone
<1>8. OpenIsUsed'
  <2>1. \A k \in 1..Len(clients), d \in Calls : Uses(d, k) => Uses(d, k)'
    BY <1>1 DEF Uses, Dialing
  <2>2. QED
    BY <1>0, <2>1 DEF OpenIsUsed
<1>9. Starting'
  BY <1>0, <1>1, <1>3 DEF Starting
<1>10. Instance'
  BY <1>0, <1>1, <1>2 DEF Instance
<1>11. ReturnedIsReady'
  BY <1>0, <1>1, <1>2 DEF ReturnedIsReady, Ready
<1>12. QED
  BY <1>4, <1>5, <1>6, <1>7, <1>8, <1>9, <1>10, <1>11 DEF StartInv

\* What the constructors leave is a manager.
LEMMA AssemblyIs ==
  ASSUME NEW by \in {"byHand", "module"}, NEW strategy \in Strategy,
         NEW given \in Credentials[strategy], NEW token \in Tokens \cup {NoToken},
         NEW m, m = Assembly(by, strategy, given, token)
  PROVE  /\ m \in Manager /\ m.by = by /\ m.strategy = strategy
         /\ m.connectionState = "DISCONNECTED" /\ ~ m.poolInitialized
         /\ m.ldapClient = NoClient /\ m.migrated = <<>> /\ ~ m.overlapped
         /\ m.opened = "none"
<1>1. given \in UNION {Credentials[st] : st \in Strategy}
  OBVIOUS
<1>2. QED
  BY <1>1 DEF Assembly, Manager, State, NoClient

\* The application assembles a pool manager.
LEMMA AssembleKeeps ==
  ASSUME StartInv, NEW c \in Calls, Assemble(c), UNCHANGED <<instance, overtaken>>
  PROVE  StartInv'
<1>1. call[c].step = "idle" /\ Len(managers) = 0
  BY DEF Assemble, Begins
<1>s. PICK strategy \in Strategy :
        \E given \in Credentials[strategy],
           token \in IF strategy = "jwt" THEN Tokens ELSE {NoToken} :
             Initialize(c, "byHand", Len(managers) + 1,
                        Assembly("byHand", strategy, given, token))
  BY DEF Assemble
<1>2. PICK given \in Credentials[strategy],
           token \in IF strategy = "jwt" THEN Tokens ELSE {NoToken} :
        Initialize(c, "byHand", Len(managers) + 1,
                   Assembly("byHand", strategy, given, token))
  BY <1>s
<1>3. PICK m : m = Assembly("byHand", strategy, given, token)
  OBVIOUS
<1>4. token \in Tokens \cup {NoToken}
  OBVIOUS
<1>5. /\ m \in Manager /\ m.by = "byHand"
      /\ m.connectionState = "DISCONNECTED" /\ ~ m.poolInitialized
      /\ m.ldapClient = NoClient /\ m.migrated = <<>> /\ ~ m.overlapped
  BY <1>2, <1>3, <1>4, AssemblyIs
<1>6. PICK a \in 1..(Len(managers) + 1) : a = Len(managers) + 1 /\ ~ (a <= Len(managers))
  BY <1>1
<1>7. Initialize(c, "byHand", a, m)
  BY <1>2, <1>3, <1>6
<1>8. QED
  BY <1>1, <1>5, <1>6, <1>7, InitializeKeeps

\* The application initialises a pool manager again.
LEMMA InitAgainKeeps ==
  ASSUME StartInv, NEW c \in Calls, InitAgain(c), UNCHANGED <<instance, overtaken>>
  PROVE  StartInv'
<1>1. call[c].step = "idle" /\ Typed
  BY DEF InitAgain, Begins, StartInv
<1>2. PICK a \in 1..Len(managers) :
        managers[a].by = "byHand" /\ Initialize(c, "byHand", a, managers[a])
  BY DEF InitAgain
<1>3. PICK m : m = managers[a]
  OBVIOUS
<1>4. /\ a \in 1..(Len(managers) + 1) /\ a <= Len(managers) /\ m \in Manager
      /\ m.by = "byHand" /\ Initialize(c, "byHand", a, m)
  BY <1>1, <1>2, <1>3 DEF Typed
<1>5. QED
  BY <1>1, <1>3, <1>4, InitializeKeeps

\* forRootAsync() has its configuration.
LEMMA ConstructKeeps ==
  ASSUME StartInv, NEW c \in Calls, Construct(c)
  PROVE  StartInv'
<1>1. call[c].step = "factory" /\ Typed
  BY DEF Construct, StartInv
<1>2. PICK given \in Credentials["password"] :
        Initialize(c, "forRootAsync", Len(managers) + 1,
                   Assembly("module", "password", given, NoToken))
  BY DEF Construct
<1>3. PICK m : m = Assembly("module", "password", given, NoToken)
  OBVIOUS
<1>4. "password" \in Strategy
  BY DEF Strategy
<1>5. /\ m \in Manager /\ m.by = "module" /\ m.strategy = "password"
      /\ m.connectionState = "DISCONNECTED" /\ ~ m.poolInitialized
      /\ m.ldapClient = NoClient /\ m.migrated = <<>> /\ ~ m.overlapped
  BY <1>2, <1>3, <1>4, AssemblyIs
<1>6. PICK a \in 1..(Len(managers) + 1) : a = Len(managers) + 1 /\ ~ (a <= Len(managers))
  BY SMTT(30), <1>1 DEF Typed
<1>7. Initialize(c, "forRootAsync", a, m) /\ instance' = a
  BY <1>2, <1>3, <1>6 DEF Construct
<1>8. overtaken' \in BOOLEAN /\ (overtaken \/ instance # NoInstance => overtaken')
  BY DEF Construct
<1>9. QED
  BY <1>1, <1>5, <1>6, <1>7, <1>8, InitializeKeeps

\* Who throws is at work on nothing.
LEMMA ThrowsKeeps ==
  ASSUME StartInv, NEW c \in Calls, call[c].step \in {"idle", "factory"},
         NEW task \in {"forRoot", "forRootAsync"}, Throws(c, task),
         UNCHANGED <<managers, clients, instance, overtaken>>
  PROVE  StartInv'
<1>1. PICK r : r = [Idle EXCEPT !.task = task, !.step = "threw"]
  OBVIOUS
<1>2. /\ r \in [task: {"forRoot", "forRootAsync"}, step: {"factory", "threw"},
                on: {0}, client: {0}]
      /\ r.step # "factory"
  BY <1>1 DEF Idle, NoClient
<1>3. call' = [call EXCEPT ![c] = r]
  BY <1>1 DEF Throws
<1>4. QED
  BY <1>2, <1>3, StopKeeps

\* forRootAsync() asks for its configuration, or throws.
LEMMA ForRootAsyncKeeps ==
  ASSUME StartInv, NEW c \in Calls, ForRootAsync(c)
  PROVE  StartInv'
<1>1. call[c].step = "idle" /\ UNCHANGED <<managers, clients, instance, overtaken>>
  BY DEF ForRootAsync, Begins
<1>2. CASE Throws(c, "forRootAsync")
  BY <1>1, <1>2, ThrowsKeeps
<1>3. CASE call' = [call EXCEPT ![c] =
                     [Idle EXCEPT !.task = "forRootAsync", !.step = "factory"]]
  <2>1. PICK r : r = [Idle EXCEPT !.task = "forRootAsync", !.step = "factory"]
    OBVIOUS
  <2>2. /\ r \in [task: {"forRoot", "forRootAsync"}, step: {"factory", "threw"},
                  on: {0}, client: {0}]
        /\ r.task = "forRootAsync"
    BY <2>1 DEF Idle, NoClient
  <2>3. call' = [call EXCEPT ![c] = r]
    BY <1>3, <2>1
  <2>4. QED
    BY <1>1, <2>2, <2>3, StopKeeps
<1>4. QED
  BY <1>2, <1>3 DEF ForRootAsync

\* forRoot() makes the instance and initialises nothing, or throws.
LEMMA ForRootKeeps ==
  ASSUME StartInv, NEW c \in Calls, ForRoot(c)
  PROVE  StartInv'
<1>0. Typed
  BY DEF StartInv
<1>1. call[c].step = "idle" /\ UNCHANGED <<clients, overtaken>>
  BY DEF ForRoot, Begins
<1>2. CASE Throws(c, "forRoot") /\ UNCHANGED <<managers, instance>>
  BY <1>1, <1>2, ThrowsKeeps
<1>3. CASE /\ instance = NoInstance
           /\ \E given \in Credentials["password"] :
                managers' = Append(managers,
                  Assembly("module", "password", given, NoToken))
           /\ instance' = Len(managers) + 1
           /\ call' = [call EXCEPT ![c] =
                [Idle EXCEPT !.task = "forRoot", !.step = "returned", !.on = instance']]
  <2>1. PICK given \in Credentials["password"] :
          managers' = Append(managers, Assembly("module", "password", given, NoToken))
    BY <1>3
  <2>2. PICK s : s = Assembly("module", "password", given, NoToken)
    OBVIOUS
  <2>3. "password" \in Strategy
    BY DEF Strategy
  <2>4. /\ s \in Manager /\ s.by = "module" /\ s.strategy = "password"
        /\ s.connectionState = "DISCONNECTED" /\ ~ s.poolInitialized
        /\ s.ldapClient = NoClient /\ s.migrated = <<>> /\ ~ s.overlapped
    BY <2>1, <2>2, <2>3, AssemblyIs
  <2>5. PICK a : a = Len(managers) + 1
    OBVIOUS
  <2>6. Len(managers) \in Nat /\ managers \in Seq(Manager) /\ Len(clients) \in Nat
        /\ IsList(clients)
    BY <1>0 DEF Typed, IsList
  <2>7. Joined(a, s)
    <3>1. PICK t : t = managers'
      OBVIOUS
    <3>2. t = Append(managers, s)
      BY <2>1, <2>2, <3>1
    <3>3. /\ t \in Seq(Manager) /\ Len(t) = Len(managers) + 1
          /\ \A j \in 1..(Len(managers) + 1) :
               t[j] = IF j = Len(managers) + 1 THEN s ELSE managers[j]
      BY <2>4, <2>6, <3>2, SeqAdd
    <3>4. QED
      BY <2>5, <2>6, <3>1, <3>3 DEF Joined
  <2>8. Dialled(a, FALSE)
    BY <1>1, <2>6 DEF Dialled
  <2>9. Begun(c, "forRoot", "returned", a, 0)
    <3>1. PICK r : r = [Idle EXCEPT !.task = "forRoot", !.step = "returned", !.on = a]
      OBVIOUS
    <3>2. /\ r.task = "forRoot" /\ r.step = "returned" /\ r.on = a /\ r.client = 0
          /\ r \in [task: {"forRoot"}, step: {"returned"}, on: {a}, client: {0}]
      BY <3>1 DEF Idle, NoClient
    <3>3. call' = [call EXCEPT ![c] = r]
      BY <1>3, <2>5, <3>1
    <3>4. Len(managers') = a /\ Len(clients') = Len(clients)
      BY <1>1, <2>5, <2>6, <2>7 DEF Joined
    <3>5. \A d \in Calls : call[d] \in [task: Task, step: Step, on: 0..Len(managers'),
                                        client: 0..Len(clients')]
      BY <1>0, <2>5, <2>6, <3>4 DEF Typed
    <3>6. r \in [task: Task, step: Step, on: 0..Len(managers'), client: 0..Len(clients')]
      <4>1. /\ "forRoot" \in Task /\ "returned" \in Step
            /\ a \in 0..Len(managers') /\ 0 \in 0..Len(clients')
        BY <2>5, <2>6, <3>4 DEF Task, Step
      <4>2. QED
        BY <3>2, <4>1
    <3>7. DOMAIN call = Calls /\ call = [d \in Calls |-> call[d]]
      BY <1>0 DEF Typed
    <3>8. QED
      BY <3>2, <3>3, <3>5, <3>6, <3>7 DEF Begun
  <2>10. ComesTo(a, s, "returned", FALSE)
    <3>1. Len(Entities) \in Nat
      BY EntitiesAssumption
    <3>2. Created(s)
      BY <2>4, <3>1 DEF Created
    <3>3. ~ (a <= Len(managers))
      BY <2>5, <2>6
    <3>4. QED
      BY <2>4, <3>2, <3>3 DEF ComesTo, NoClient
  <2>11. instance = NoInstance /\ instance' = a /\ UNCHANGED overtaken
    BY <1>1, <1>3, <2>5
  <2>12. QED
    BY <1>1, <2>4, <2>5, <2>7, <2>8, <2>9, <2>10, <2>11, BeginKeeps
<1>4. QED
  BY <1>2, <1>3 DEF ForRoot

-----------------------------------------------------------------------------
(* The invariant, and what it says.                                        *)

\* Every step keeps it.
LEMMA StartNext == StartInv /\ [Next]_vars => StartInv'
<1> SUFFICES ASSUME StartInv, [Next]_vars PROVE StartInv'
  OBVIOUS
<1>1. ASSUME NEW c \in Calls, AuthenticationStep(c), UNCHANGED <<instance, overtaken>>
      PROVE  StartInv'
  <2>1. CASE Which(c)
    <3>1. call[c].step = "which"
      BY <2>1 DEF Which
    <3>2. CASE Fail(c)
      BY <1>1, <3>1, <3>2, EndKeeps
    <3>3. CASE Goes(c, IF "krbKeytab" \in managers[call[c].on].given THEN "keytab"
                                                                   ELSE "kinit")
      <4>1. PICK to \in {"keytab", "kinit"} : Goes(c, to)
        BY <3>3
      <4>2. QED
        BY <1>1, <3>1, <4>1, GoesKeeps
    <3>4. QED
      BY <2>1, <3>2, <3>3 DEF Which
  <2>2. CASE CheckKeytab(c)
    <3>1. call[c].step = "keytab" /\ (Goes(c, "kinit") \/ Fail(c))
      BY <2>2 DEF CheckKeytab
    <3>2. QED
      BY <1>1, <3>1, EndKeeps, GoesKeeps
  <2>3. CASE AcquireKerberosTicket(c)
    BY <1>1, <2>3, KinitKeeps
  <2>4. CASE ValidateTicket(c)
    <3>1. call[c].step = "klist" /\ (Succeed(c, clients) \/ Fail(c))
      BY <2>4 DEF ValidateTicket
    <3>2. QED
      BY <1>1, <3>1, EndKeeps
  <2>5. CASE Connected(c)
    BY <1>1, <2>5, ConnectedKeeps
  <2>6. CASE ConnectFails(c)
    <3>1. call[c].step = "connecting" /\ Fail(c)
      BY <2>6 DEF ConnectFails
    <3>2. QED
      BY <1>1, <3>1, EndKeeps
  <2>7. CASE Bind(c)
    BY <1>1, <2>7, BindKeeps
  <2>8. CASE BindNothing(c)
    <3>1. call[c].step = "connected" /\ Fail(c)
      BY <2>8 DEF BindNothing
    <3>2. QED
      BY <1>1, <3>1, EndKeeps
  <2>9. CASE CreatePool(c)
    BY <1>1, <2>9, CreatePoolKeeps
  <2>10. QED
    BY <1>1, <2>1, <2>2, <2>3, <2>4, <2>5, <2>6, <2>7, <2>8, <2>9 DEF AuthenticationStep
<1>2. ASSUME NEW c \in Calls, FactoryFails(c)
      PROVE  StartInv'
  <2>1. /\ call[c].step = "factory" /\ Throws(c, "forRootAsync")
        /\ UNCHANGED <<managers, clients, instance, overtaken>>
    BY <1>2 DEF FactoryFails
  <2>2. QED
    BY <2>1, ThrowsKeeps
<1>3. ASSUME NEW c \in Calls, OwnStep(c) \/ ForRoot(c) \/ ForRootAsync(c)
      PROVE  StartInv'
  BY <1>1, <1>2, <1>3, ConstructKeeps, ClientInitKeeps, MigrateKeeps,
     ForRootKeeps, ForRootAsyncKeeps DEF OwnStep
<1>4. ASSUME NEW c \in Calls, Assemble(c) \/ InitAgain(c),
             UNCHANGED <<instance, overtaken>>
      PROVE  StartInv'
  BY <1>4, AssembleKeeps, InitAgainKeeps
<1>5. ASSUME NetworkStep, UNCHANGED <<instance, overtaken>>
      PROVE  StartInv'
  <2>1. PICK k \in 1..Len(clients) : DataArrives(k) \/ SocketLost(k)
    BY <1>5 DEF NetworkStep
  <2>2. QED
    BY <1>5, <2>1, DataArrivesKeeps, SocketLostKeeps
<1>6. CASE UNCHANGED vars
  <2>1. UNCHANGED <<managers, clients, call, instance, overtaken>>
    BY <1>6 DEF vars, authVars
  <2>2. /\ Typed /\ Placed /\ Promised /\ Recorded /\ Alone /\ OpenIsUsed
        /\ Starting /\ Instance /\ ReturnedIsReady
    BY DEF StartInv
  <2>3. Typed' /\ Placed' /\ Promised' /\ Recorded' /\ Alone'
    BY <2>1, <2>2 DEF Typed, Placed, Promised, Recorded, Alone, Busy
  <2>4. OpenIsUsed' /\ Starting' /\ Instance' /\ ReturnedIsReady'
    BY <2>1, <2>2 DEF OpenIsUsed, Uses, Starting, Instance, ReturnedIsReady, Ready, Busy
  <2>5. QED
    BY <2>3, <2>4 DEF StartInv
<1>7. QED
  BY <1>3, <1>4, <1>5, <1>6 DEF Next

\* What every reachable state of the start satisfies.
THEOREM StartInvariant == Spec => []StartInv
<1>1. Init => StartInv
  BY StartInit
<1>2. StartInv /\ [Next]_vars => StartInv'
  BY StartNext
<1>3. QED
  BY <1>1, <1>2, PTL DEF Spec

\* The variables keep their types: no client and no call refers to an assembly
\* that was not made, and no more tables are made than were asked for.
THEOREM StartTypes == Spec => []TypeOK
<1>1. StartInv => TypeOK
  <2> SUFFICES ASSUME StartInv PROVE TypeOK
    OBVIOUS
  <2>1. Typed /\ Starting
    BY DEF StartInv
  <2>2. ASSUME NEW a \in 1..Len(managers)
        PROVE  /\ managers[a].strategy \in Strategy
               /\ managers[a].connectionState \in
                    {"DISCONNECTED", "AUTHENTICATING", "CONNECTED", "AUTH_FAILED"}
               /\ managers[a].poolInitialized \in BOOLEAN
               /\ managers[a].opened \in {"none", "opened", "refused"}
               /\ managers[a].ldapClient \in 0..Len(clients)
               /\ Len(managers[a].migrated) \in 0..Len(Entities)
    <3>1. managers[a] \in Manager /\ Created(managers[a])
      BY <2>1 DEF Typed, Starting
    <3>2. Len(managers[a].migrated) \in Nat /\ Len(Entities) \in Nat
      BY <3>1, EntitiesAssumption DEF Manager
    <3>3. QED
      BY <2>1, <3>1, <3>2 DEF Typed, Manager, State, Created
  <2>3. \A k \in 1..Len(clients) : IsClient(clients[k], Len(managers))
    BY <2>1 DEF Typed
  <2>4. \A c \in Calls :
          /\ call[c].task \in Task /\ call[c].step \in Step
          /\ call[c].on \in 0..Len(managers) /\ call[c].client \in 0..Len(clients)
    BY <2>1 DEF Typed
  <2>5. QED
    BY <2>1, <2>2, <2>3, <2>4 DEF TypeOK, Typed, IsClient, Socket, Answered, Task, Step
<1>2. QED
  BY <1>1, StartInvariant, PTL

\* forRootAsync() returns a module that is ready, unless two calls passed the
\* test of the instance at once.
THEOREM ReturnsReady == Spec => []ReturnedIsReady
<1>1. StartInv => ReturnedIsReady
  BY DEF StartInv
<1>2. QED
  BY <1>1, StartInvariant, PTL

\* A pool is initialised only behind a state in which its manager can be used,
\* unless an authenticate() of the same manager has failed before.
THEOREM PoolBehindState == Spec => []InitializedMeansConnected
<1>1. StartInv => InitializedMeansConnected
  BY DEF StartInv, Recorded, Usable, InitializedMeansConnected
<1>2. QED
  BY <1>1, StartInvariant, PTL

\* An LDAP connection is closed when nobody initialises its assembly, unless two
\* calls shared the one field it is kept in.
THEOREM ConnectionsClosed == Spec => []ClientsClosed
<1>1. StartInv => ClientsClosed
  <2> SUFFICES ASSUME StartInv, NEW k \in 1..Len(clients),
                      clients[k].socket # "closed",
                      ~ managers[clients[k].of].overlapped
               PROVE  UnderWay(clients[k].of)
    BY DEF ClientsClosed
  <2>1. PICK c \in Calls : Uses(c, k)
    BY DEF StartInv, OpenIsUsed
  <2>2. QED
    BY <2>1 DEF Uses, UnderWay, Dialing, Working
<1>2. QED
  BY <1>1, StartInvariant, PTL


-----------------------------------------------------------------------------
(* What the clients have heard.                                            *)

\* The talk of a client with its server, whatever its connection.
Talks(client) ==
  /\ DOMAIN client = ClientFields
  /\ client.messageID \in Nat
  /\ TalkTyped(client.listeners, client.answers, client.coming, client.buffer,
               client.verdict)
  /\ TalkOnce(client.listeners, client.answers, client.coming, client.buffer,
              client.verdict)
  /\ TalkOften(client.listeners, client.answers, client.coming, client.buffer,
               client.verdict)

TalkInv == \A k \in 1..Len(clients) : Talks(clients[k])

\* A client whose talk is that of another.
SameTalk(w, v) ==
  /\ DOMAIN w = ClientFields /\ w.of = v.of
  /\ w.messageID = v.messageID /\ w.listeners = v.listeners
  /\ w.answers = v.answers /\ w.coming = v.coming
  /\ w.buffer = v.buffer /\ w.verdict = v.verdict

\* It is as good.
LEMMA SameTalks ==
  ASSUME NEW v, NEW w, Talks(v), SameTalk(w, v) PROVE Talks(w)
BY Zenon DEF Talks, SameTalk

\* A new client has nothing to hear.
LEMMA NewTalks ==
  ASSUME NEW a
  PROVE  /\ Talks(NewClient(a)) /\ NewClient(a).of = a /\ NewClient(a).listeners = 0
         /\ NewClient(a).answers = <<>>
<1>1. PICK v : v = NewClient(a)
  OBVIOUS
<1>2. /\ DOMAIN v = ClientFields /\ v.of = a /\ v.messageID = 1 /\ v.listeners = 0
      /\ v.answers = <<>> /\ v.coming = <<>> /\ v.buffer = <<>> /\ v.verdict = "none"
  BY <1>1 DEF NewClient, ClientFields
<1>3. v.messageID \in Nat
  BY <1>2
<1>4. Talks(v)
  BY Zenon, <1>2, <1>3, NewTalkOnce, NewTalkOften DEF Talks
<1> QED
  BY Zenon, <1>1, <1>2, <1>4

\* w is v after one bind() more.
Asked(w, v, answer) ==
  /\ DOMAIN w = ClientFields /\ w.of = v.of
  /\ w.messageID = v.messageID + 1 /\ w.listeners = v.listeners + 1
  /\ w.answers = Append(v.answers, answer) /\ w.coming = v.coming \o answer
  /\ w.buffer = v.buffer /\ w.verdict = v.verdict

\* What a bind() makes of a client.
LEMMA BoundIs ==
  ASSUME NEW v, DOMAIN v = ClientFields, NEW c, NEW answer
  PROVE  Asked(Bound(v, c, answer), v, answer)
<1>1. PICK id : id = v.messageID + 1
  OBVIOUS
<1>2. PICK ls : ls = v.listeners + 1
  OBVIOUS
<1>3. PICK as : as = Append(v.answers, answer)
  OBVIOUS
<1>4. PICK co : co = v.coming \o answer
  OBVIOUS
<1>5. PICK w : w = Bound(v, c, answer)
  OBVIOUS
<1>6. w = [v EXCEPT !.listeners = ls, !.promise = c, !.messageID = id,
                    !.answers = as, !.coming = co]
  BY Zenon, <1>1, <1>2, <1>3, <1>4, <1>5 DEF Bound
<1>7. /\ DOMAIN w = ClientFields /\ w.of = v.of
      /\ w.messageID = id /\ w.listeners = ls /\ w.answers = as /\ w.coming = co
      /\ w.buffer = v.buffer /\ w.verdict = v.verdict
  BY ONLY <1>6, DOMAIN v = ClientFields DEF ClientFields
<1> QED
  BY Zenon, <1>1, <1>2, <1>3, <1>4, <1>5, <1>7 DEF Asked

\* A bind() is one answer more to hear.
LEMMA BoundTalks ==
  ASSUME NEW v, Talks(v), NEW answer \in Answers, NEW w, Asked(w, v, answer)
  PROVE  Talks(w)
<1>1. /\ DOMAIN w = ClientFields
      /\ w.messageID = v.messageID + 1 /\ w.listeners = v.listeners + 1
      /\ w.answers = Append(v.answers, answer) /\ w.coming = v.coming \o answer
      /\ w.buffer = v.buffer /\ w.verdict = v.verdict
  BY Zenon DEF Asked
<1>2. /\ v.messageID \in Nat
      /\ TalkTyped(v.listeners, v.answers, v.coming, v.buffer, v.verdict)
      /\ TalkOnce(v.listeners, v.answers, v.coming, v.buffer, v.verdict)
      /\ TalkOften(v.listeners, v.answers, v.coming, v.buffer, v.verdict)
  BY Zenon DEF Talks
<1>3. w.messageID \in Nat
  <2>1. v.messageID + 1 \in Nat
    BY <1>2
  <2> QED
    BY Zenon, <1>1, <2>1
<1>4. /\ TalkTyped(v.listeners + 1, Append(v.answers, answer), v.coming \o answer,
                   v.buffer, v.verdict)
      /\ TalkOnce(v.listeners + 1, Append(v.answers, answer), v.coming \o answer,
                  v.buffer, v.verdict)
  BY Zenon, <1>2, BoundTalkOnce
<1>5. TalkOften(v.listeners + 1, Append(v.answers, answer), v.coming \o answer,
                v.buffer, v.verdict)
  BY Zenon, <1>2, BoundTalkOften
<1> QED
  BY Zenon, <1>1, <1>3, <1>4, <1>5 DEF Talks

\* w is v after a piece of n bytes.
Listened(w, v, n) ==
  /\ DOMAIN w = ClientFields /\ w.of = v.of /\ w.messageID = v.messageID
  /\ w.listeners = v.listeners /\ w.answers = v.answers
  /\ w.coming = SubSeq(v.coming, n + 1, Len(v.coming))
  /\ w.buffer = Heard(v, SubSeq(v.coming, 1, n)).buffer
  /\ w.verdict = Heard(v, SubSeq(v.coming, 1, n)).verdict
  /\ w.socket = v.socket /\ w.promise = v.promise

\* What a data event makes of a client.
LEMMA ArrivedIs ==
  ASSUME NEW v, DOMAIN v = ClientFields, NEW n
  PROVE  Listened(Arrived(v, n), v, n)
<1>1. PICK heard : heard = Heard(v, SubSeq(v.coming, 1, n))
  OBVIOUS
<1>2. PICK hb, hv : hb = heard.buffer /\ hv = heard.verdict
  OBVIOUS
<1>3. PICK co : co = SubSeq(v.coming, n + 1, Len(v.coming))
  OBVIOUS
<1>4. PICK ch : ch = v.chunks + 1
  OBVIOUS
<1>5. PICK w : w = Arrived(v, n)
  OBVIOUS
<1>6. w = [v EXCEPT !.buffer = hb, !.verdict = hv, !.coming = co, !.chunks = ch]
  BY Zenon, <1>1, <1>2, <1>3, <1>4, <1>5 DEF Arrived
<1>7. /\ DOMAIN w = ClientFields /\ w.of = v.of /\ w.messageID = v.messageID
      /\ w.listeners = v.listeners /\ w.answers = v.answers
      /\ w.coming = co /\ w.buffer = hb /\ w.verdict = hv
      /\ w.socket = v.socket /\ w.promise = v.promise
  BY ONLY <1>6, DOMAIN v = ClientFields DEF ClientFields
<1> QED
  BY Zenon, <1>1, <1>2, <1>3, <1>5, <1>7 DEF Listened

\* A piece is a piece of the talk.
LEMMA ArrivedTalks ==
  ASSUME NEW v, Talks(v), NEW n \in 1..Len(v.coming), NEW w, Listened(w, v, n)
  PROVE  Talks(w)
<1>1. /\ DOMAIN w = ClientFields /\ w.messageID = v.messageID
      /\ w.listeners = v.listeners /\ w.answers = v.answers
      /\ w.coming = SubSeq(v.coming, n + 1, Len(v.coming))
      /\ w.buffer = Heard(v, SubSeq(v.coming, 1, n)).buffer
      /\ w.verdict = Heard(v, SubSeq(v.coming, 1, n)).verdict
  BY Zenon DEF Listened
<1>2. /\ v.messageID \in Nat
      /\ TalkTyped(v.listeners, v.answers, v.coming, v.buffer, v.verdict)
      /\ TalkOnce(v.listeners, v.answers, v.coming, v.buffer, v.verdict)
      /\ TalkOften(v.listeners, v.answers, v.coming, v.buffer, v.verdict)
  BY Zenon DEF Talks
<1>3. PICK data, rest : /\ data = SubSeq(v.coming, 1, n)
                        /\ rest = SubSeq(v.coming, n + 1, Len(v.coming))
  OBVIOUS
<1>4. PICK hb, hv : hb = Heard(v, data).buffer /\ hv = Heard(v, data).verdict
  OBVIOUS
<1>5. TalkTyped(v.listeners, v.answers, rest, hb, hv)
      /\ TalkOnce(v.listeners, v.answers, rest, hb, hv)
  BY Zenon, <1>2, <1>3, <1>4, HeardTalkOnce
<1>6. TalkOften(v.listeners, v.answers, rest, hb, hv)
  BY Zenon, <1>2, <1>3, <1>4, HeardTalkOften
<1> QED
  BY Zenon, <1>1, <1>2, <1>3, <1>4, <1>5, <1>6 DEF Talks

\* Some bytes arrive, and not more than there are.
LEMMA ArrivalsAre ==
  ASSUME NEW v, v.coming \in Seq(Byte), v.coming # <<>>, NEW n \in Arrivals(v)
  PROVE  n \in 1..Len(v.coming)
<1>1. PICK left \in Nat : left = Len(v.coming)
  BY LenProperties
<1>2. left # 0
  BY <1>1
<1>3. n = left \/ \E size \in ChunkSizes : n = IF size < left THEN size ELSE left
  BY Zenon, <1>1 DEF Arrivals
<1>4. ChunkSizes \subseteq Nat \ {0}
  BY AuthenticationAssumption
<1>5. n \in 1..left
  BY <1>2, <1>3, <1>4
<1> QED
  BY Zenon, <1>1, <1>5


\* The same clients, who have been asked nothing more.
Quiet(all) ==
  /\ IsList(all) /\ Len(all) = Len(clients)
  /\ \A k \in 1..Len(clients) :
       /\ Talks(all[k]) /\ all[k].of = clients[k].of
       /\ all[k].listeners = clients[k].listeners /\ all[k].answers = clients[k].answers

\* The clients as they are.
LEMMA QuietItself ==
  ASSUME Typed, TalkInv PROVE Quiet(clients)
BY Zenon DEF Typed, TalkInv, Quiet

\* One of them replaced.
LEMMA QuietPut ==
  ASSUME Typed, TalkInv, NEW k \in 1..Len(clients), NEW v, Talks(v),
         v.of = clients[k].of, v.listeners = clients[k].listeners,
         v.answers = clients[k].answers, NEW all, all = [clients EXCEPT ![k] = v]
  PROVE  Quiet(all)
<1>1. Replaced(all, clients, k, v)
  <2>1. IsList(clients)
    BY DEF Typed
  <2> QED
    BY Zenon, <2>1, ClientPut
<1>2. /\ IsList(all) /\ Len(all) = Len(clients)
      /\ \A j \in 1..Len(clients) : all[j] = IF j = k THEN v ELSE clients[j]
  BY Zenon, <1>1 DEF Replaced
<1>3. ASSUME NEW j \in 1..Len(clients)
      PROVE  /\ Talks(all[j]) /\ all[j].of = clients[j].of
             /\ all[j].listeners = clients[j].listeners
             /\ all[j].answers = clients[j].answers
  BY Zenon, <1>2 DEF TalkInv
<1> QED
  BY Zenon, <1>2, <1>3 DEF Quiet

\* A client is closed: it has heard the same.
LEMMA ClosedTalks ==
  ASSUME NEW v, Talks(v), NEW socket, NEW w, w = [v EXCEPT !.socket = socket]
  PROVE  SameTalk(w, v) /\ Talks(w)
<1>1. DOMAIN v = ClientFields
  BY Zenon DEF Talks
<1>2. SameTalk(w, v)
  BY <1>1 DEF SameTalk, ClientFields
<1> QED
  BY Zenon, <1>2, SameTalks

\* cleanup() asks nothing.
LEMMA QuietClosed ==
  ASSUME Typed, NEW a \in 1..Len(managers), NEW all, Quiet(all),
         NEW left, left = CloseField(a, all)
  PROVE  Quiet(left)
<1>1. /\ IsList(all) /\ Len(all) = Len(clients)
      /\ \A k \in 1..Len(clients) :
           /\ Talks(all[k]) /\ all[k].of = clients[k].of
           /\ all[k].listeners = clients[k].listeners /\ all[k].answers = clients[k].answers
  BY Zenon DEF Quiet
<1>2. CASE managers[a].ldapClient = NoClient
  BY Zenon, <1>2 DEF CloseField
<1>3. CASE managers[a].ldapClient # NoClient
  <2>1. PICK f : f = managers[a].ldapClient
    OBVIOUS
  <2>2. f \in 1..Len(clients)
    <3>1. f \in 0..Len(clients) /\ Len(clients) \in Nat /\ f # 0
      BY <1>3, <2>1 DEF Typed, NoClient, IsList
    <3> QED
      BY <3>1
  <2>3. PICK v : v = [all[f] EXCEPT !.socket = "closed"]
    OBVIOUS
  <2>4. left = [all EXCEPT ![f] = v]
    BY <1>3, <2>1, <2>3 DEF CloseField
  <2>5. SameTalk(v, all[f]) /\ Talks(v)
    BY Zenon, <1>1, <2>2, <2>3, ClosedTalks
  <2>6. Replaced(left, all, f, v)
    <3>1. f \in 1..Len(all)
      BY Zenon, <1>1, <2>2
    <3>2. Replaced([all EXCEPT ![f] = v], all, f, v)
      BY Zenon, <1>1, <3>1, ClientPut
    <3> QED
      BY Zenon, <2>4, <3>2
  <2>7. /\ IsList(left) /\ Len(left) = Len(clients)
        /\ \A j \in 1..Len(clients) : left[j] = IF j = f THEN v ELSE all[j]
    BY Zenon, <1>1, <2>6 DEF Replaced
  <2>8. /\ v.of = all[f].of /\ v.listeners = all[f].listeners
        /\ v.answers = all[f].answers
    BY Zenon, <2>5 DEF SameTalk
  <2>9. ASSUME NEW j \in 1..Len(clients)
        PROVE  /\ Talks(left[j]) /\ left[j].of = clients[j].of
               /\ left[j].listeners = clients[j].listeners
               /\ left[j].answers = clients[j].answers
    BY Zenon, <1>1, <2>5, <2>7, <2>8
  <2> QED
    BY Zenon, <2>7, <2>9 DEF Quiet
<1> QED
  BY Zenon, <1>2, <1>3

\* Nor does the end of an authenticate().
LEMMA QuietLeave ==
  ASSUME Typed, NEW c \in Calls, call[c].on \in 1..Len(managers), NEW all, Quiet(all),
         NEW state, NEW failed, NEW step,
         Leave(c, state, step, failed, CloseField(call[c].on, all))
  PROVE  Quiet(clients')
<1>1. PICK left : left = CloseField(call[c].on, all)
  OBVIOUS
<1>2. Quiet(left)
  BY Zenon, <1>1, QuietClosed
<1>3. clients' = left
  BY Zenon, <1>1 DEF Leave
<1> QED
  BY Zenon, <1>2, <1>3

\* Nor do the events of a socket that bring nothing.
LEMMA QuietSocket ==
  ASSUME Typed, TalkInv, NEW k \in 1..Len(clients), NEW socket,
         clients' = [clients EXCEPT ![k].socket = socket]
  PROVE  Quiet(clients')
<1>1. PICK v : v = [clients[k] EXCEPT !.socket = socket]
  OBVIOUS
<1>2. PICK all : all = [clients EXCEPT ![k] = v]
  OBVIOUS
<1>3. SameTalk(v, clients[k]) /\ Talks(v)
  BY Zenon, <1>1, ClosedTalks DEF TalkInv
<1>4. /\ v.of = clients[k].of /\ v.listeners = clients[k].listeners
      /\ v.answers = clients[k].answers
  BY Zenon, <1>3 DEF SameTalk
<1>5. Quiet(all)
  BY Zenon, <1>2, <1>3, <1>4, QuietPut
<1>6. clients' = all
  BY Zenon, <1>1, <1>2
<1> QED
  BY Zenon, <1>5, <1>6

\* A piece of n bytes, heard by client k.
HeardBy(k, n, all) ==
  /\ all = [clients EXCEPT ![k] = Arrived(clients[k], n)]
  /\ Talks(Arrived(clients[k], n)) /\ Listened(Arrived(clients[k], n), clients[k], n)
  /\ clients[k].coming # <<>>
  /\ Quiet(all)

\* What a data event does.
LEMMA DataIs ==
  ASSUME StartInv, TalkInv, NEW k \in 1..Len(clients), DataArrives(k)
  PROVE  \E n, all :
           /\ HeardBy(k, n, all)
           /\ \/ clients' = all /\ UNCHANGED <<managers, call>>
              \/ /\ clients[k].verdict = "none" /\ all[k].verdict = "resolve"
                 /\ Succeed(clients[k].promise, all)
              \/ /\ clients[k].verdict = "none" /\ all[k].verdict = "reject"
                 /\ FailAfter(clients[k].promise, all)
<1>1. PICK n \in Arrivals(clients[k]) :
        \/ /\ clients[k].verdict = Arrived(clients[k], n).verdict
           /\ clients' = [clients EXCEPT ![k] = Arrived(clients[k], n)]
           /\ UNCHANGED <<managers, call>>
        \/ /\ clients[k].verdict = "none"
           /\ Arrived(clients[k], n).verdict = "resolve"
           /\ Succeed(Arrived(clients[k], n).promise,
                      [clients EXCEPT ![k] = Arrived(clients[k], n)])
        \/ /\ clients[k].verdict = "none"
           /\ Arrived(clients[k], n).verdict = "reject"
           /\ FailAfter(Arrived(clients[k], n).promise,
                        [clients EXCEPT ![k] = Arrived(clients[k], n)])
  BY Zenon DEF DataArrives
<1>2. clients[k].coming # <<>> /\ Typed /\ Talks(clients[k])
  BY Zenon DEF DataArrives, StartInv, TalkInv
<1>3. PICK v : v = Arrived(clients[k], n)
  OBVIOUS
<1>4. PICK all : all = [clients EXCEPT ![k] = v]
  OBVIOUS
<1>5. Listened(v, clients[k], n)
  BY Zenon, <1>2, <1>3, ArrivedIs DEF Talks
<1>6. n \in 1..Len(clients[k].coming)
  <2>1. clients[k].coming \in Seq(Byte)
    BY Zenon, <1>2 DEF Talks, TalkTyped
  <2> QED
    BY Zenon, <1>1, <1>2, <2>1, ArrivalsAre
<1>7. Talks(v)
  BY Zenon, <1>2, <1>5, <1>6, ArrivedTalks
<1>8. Quiet(all)
  <2>1. /\ v.of = clients[k].of /\ v.listeners = clients[k].listeners
        /\ v.answers = clients[k].answers
    BY Zenon, <1>5 DEF Listened
  <2> QED
    BY Zenon, <1>2, <1>4, <1>7, <2>1, QuietPut
<1>9. all[k] = v /\ v.promise = clients[k].promise
  <2>1. v.promise = clients[k].promise
    BY Zenon, <1>5 DEF Listened
  <2>2. Replaced(all, clients, k, v)
    BY Zenon, <1>2, <1>4, ClientPut DEF Typed
  <2>3. all[k] = v
    BY Zenon, <2>2 DEF Replaced
  <2> QED
    BY Zenon, <2>1, <2>3
<1>10. HeardBy(k, n, all)
  BY Zenon, <1>2, <1>3, <1>4, <1>5, <1>7, <1>8 DEF HeardBy
<1>11. \/ clients' = all /\ UNCHANGED <<managers, call>>
       \/ /\ clients[k].verdict = "none" /\ all[k].verdict = "resolve"
          /\ Succeed(clients[k].promise, all)
       \/ /\ clients[k].verdict = "none" /\ all[k].verdict = "reject"
          /\ FailAfter(clients[k].promise, all)
  BY Zenon, <1>1, <1>3, <1>4, <1>9
<1> QED
  BY Zenon, <1>10, <1>11

\* A data event asks nothing.
LEMMA QuietData ==
  ASSUME StartInv, TalkInv, NEW k \in 1..Len(clients), DataArrives(k)
  PROVE  Quiet(clients')
<1>1. PICK n, all :
        /\ HeardBy(k, n, all)
        /\ \/ clients' = all /\ UNCHANGED <<managers, call>>
           \/ /\ clients[k].verdict = "none" /\ all[k].verdict = "resolve"
              /\ Succeed(clients[k].promise, all)
           \/ /\ clients[k].verdict = "none" /\ all[k].verdict = "reject"
              /\ FailAfter(clients[k].promise, all)
  BY Zenon, DataIs
<1>2. Quiet(all) /\ clients[k].coming # <<>> /\ Typed /\ Placed /\ Promised
  BY Zenon, <1>1 DEF HeardBy, StartInv
<1>3. CASE clients' = all
  BY Zenon, <1>2, <1>3
<1>4. ASSUME clients[k].verdict = "none", NEW state, NEW failed, NEW step,
             Leave(clients[k].promise, state, step, failed,
                   CloseField(call[clients[k].promise].on, all))
      PROVE  Quiet(clients')
  <2>1. PICK c \in Calls : c = clients[k].promise
    BY Zenon, <1>2 DEF Typed, IsClient
  <2>2. call[c].step = "binding"
    BY Zenon, <1>2, <1>4, <2>1 DEF Promised
  <2>3. Busy(c)
    BY <2>2 DEF Busy, Working
  <2>4. call[c].on \in 1..Len(managers)
    BY Zenon, <1>2, <2>3 DEF Placed
  <2> QED
    BY Zenon, <1>2, <1>4, <2>1, <2>4, QuietLeave
<1>5. CASE clients[k].verdict = "none" /\ Succeed(clients[k].promise, all)
  BY Zenon, <1>4, <1>5 DEF Succeed
<1>6. CASE clients[k].verdict = "none" /\ FailAfter(clients[k].promise, all)
  BY Zenon, <1>4, <1>6 DEF FailAfter
<1> QED
  BY Zenon, <1>1, <1>3, <1>5, <1>6


\* bind() asks the client the field holds, which is one of the assembly.
AskedBy(c, k) ==
  /\ k = managers[call[c].on].ldapClient /\ k \in 1..Len(clients)
  /\ clients[k].of = call[c].on
  /\ IsList(clients') /\ Len(clients') = Len(clients)
  /\ \A j \in 1..Len(clients) : j # k => clients'[j] = clients[j]
  /\ Talks(clients'[k])
  /\ \E answer \in Answers : Asked(clients'[k], clients[k], answer)

\* So it does.
LEMMA BindIs ==
  ASSUME StartInv, TalkInv, NEW c \in Calls, Bind(c)
  PROVE  AskedBy(c, managers[call[c].on].ldapClient)
<1>1. PICK a : a = call[c].on
  OBVIOUS
<1>2. PICK k : k = managers[a].ldapClient
  OBVIOUS
<1>3. PICK answer \in Answers : clients' = [clients EXCEPT ![k] = Bound(clients[k], c, answer)]
  BY Zenon, <1>1, <1>2 DEF Bind
<1>4. /\ k # 0 /\ call[c].step = "connected" /\ Typed /\ Placed
  BY Zenon, <1>1, <1>2 DEF Bind, StartInv, NoClient
<1>5. Busy(c)
  BY <1>4 DEF Busy, Working
<1>6. a \in 1..Len(managers)
  BY Zenon, <1>1, <1>4, <1>5 DEF Placed
<1>7. k \in 1..Len(clients)
  <2>1. k \in 0..Len(clients)
    BY Zenon, <1>2, <1>4, <1>6 DEF Typed
  <2> QED
    BY <1>4, <2>1
<1>8. clients[k].of = a
  BY Zenon, <1>2, <1>4, <1>6 DEF Placed, NoClient
<1>9. PICK v : v = Bound(clients[k], c, answer)
  OBVIOUS
<1>10. Asked(v, clients[k], answer) /\ Talks(v)
  <2>1. DOMAIN clients[k] = ClientFields /\ Talks(clients[k])
    BY Zenon, <1>7 DEF TalkInv, Talks
  <2>2. Asked(v, clients[k], answer)
    BY Zenon, <1>9, <2>1, BoundIs
  <2> QED
    BY Zenon, <2>1, <2>2, BoundTalks
<1>11. Replaced(clients', clients, k, v)
  <2>1. Replaced([clients EXCEPT ![k] = v], clients, k, v)
    BY Zenon, <1>4, <1>7, ClientPut DEF Typed
  <2>2. clients' = [clients EXCEPT ![k] = v]
    BY Zenon, <1>3, <1>9
  <2> QED
    BY Zenon, <2>1, <2>2
<1>12. /\ IsList(clients') /\ Len(clients') = Len(clients)
       /\ clients'[k] = v /\ \A j \in 1..Len(clients) : j # k => clients'[j] = clients[j]
  BY Zenon, <1>7, <1>11 DEF Replaced
<1>13. AskedBy(c, k)
  BY Zenon, <1>1, <1>2, <1>7, <1>8, <1>10, <1>12 DEF AskedBy
<1> QED
  BY Zenon, <1>1, <1>2, <1>13

\* A client more, or none.
MadeFor(a) ==
  \/ UNCHANGED clients
  \/ Extended(clients', clients, NewClient(a))

\* So many does init() make.
LEMMA InitializeMakes ==
  ASSUME Typed, NEW c, NEW task, NEW a, NEW m, Initialize(c, task, a, m)
  PROVE  MadeFor(a)
<1>1. clients' = clients \/ clients' = Append(clients, NewClient(a))
  BY Zenon DEF Initialize
<1>2. Extended(Append(clients, NewClient(a)), clients, NewClient(a))
  BY Zenon, ClientAdd DEF Typed
<1> QED
  BY Zenon, <1>1, <1>2 DEF MadeFor

\* The end of a call's authenticate() asks nothing.
LEMMA QuietEnd ==
  ASSUME StartInv, TalkInv, NEW c \in Calls, Busy(c), Fail(c) \/ Succeed(c, clients)
  PROVE  Quiet(clients')
<1>1. Typed /\ Placed /\ Quiet(clients)
  BY Zenon, QuietItself DEF StartInv
<1>2. call[c].on \in 1..Len(managers)
  BY Zenon, <1>1 DEF Placed
<1>3. CASE Fail(c)
  <2>1. Leave(c, "AUTH_FAILED", "threw", TRUE, CloseField(call[c].on, clients))
    BY Zenon, <1>3 DEF Fail, FailAfter
  <2> QED
    BY Zenon, <1>1, <1>2, <2>1, QuietLeave
<1>4. CASE Succeed(c, clients)
  <2>1. Leave(c, "CONNECTED", "authenticated", FALSE, CloseField(call[c].on, clients))
    BY Zenon, <1>4 DEF Succeed
  <2> QED
    BY Zenon, <1>1, <1>2, <2>1, QuietLeave
<1> QED
  BY Zenon, <1>3, <1>4

\* The clients a step leaves: the same ones, one of them asked, or one more.
GoOn == \/ Quiet(clients')
        \/ \E c \in Calls, k \in 1..Len(clients) : AskedBy(c, k)
        \/ \E a : Extended(clients', clients, NewClient(a))

\* A step does no more to the clients.
LEMMA ClientsGoOn ==
  ASSUME StartInv, TalkInv, [Next]_vars PROVE GoOn
<1>0. Typed /\ Quiet(clients)
  BY Zenon, QuietItself DEF StartInv
<1>1. UNCHANGED clients => GoOn
  BY Zenon, <1>0 DEF GoOn
<1>2. \A a : MadeFor(a) => GoOn
  BY Zenon, <1>1 DEF GoOn, MadeFor
<1>3. ASSUME NEW c \in Calls, AuthenticationStep(c) PROVE GoOn
  <2>1. Fail(c) \/ Succeed(c, clients) => ~ Busy(c) \/ GoOn
    BY Zenon, QuietEnd DEF GoOn
  <2>2. CASE Which(c)
    <3>1. Busy(c)
      BY <2>2 DEF Which, Busy, Working
    <3> QED
      BY Zenon, <1>1, <2>1, <2>2, <3>1 DEF Which, Goes
  <2>3. CASE CheckKeytab(c)
    <3>1. Busy(c)
      BY <2>3 DEF CheckKeytab, Busy, Working
    <3> QED
      BY Zenon, <1>1, <2>1, <2>3, <3>1 DEF CheckKeytab, Goes
  <2>4. CASE AcquireKerberosTicket(c)
    <3>1. Busy(c)
      BY <2>4 DEF AcquireKerberosTicket, Busy, Working
    <3> QED
      BY Zenon, <1>1, <2>1, <2>4, <3>1 DEF AcquireKerberosTicket
  <2>5. CASE ValidateTicket(c)
    <3>1. Busy(c)
      BY <2>5 DEF ValidateTicket, Busy, Working
    <3> QED
      BY Zenon, <2>1, <2>5, <3>1 DEF ValidateTicket
  <2>6. CASE Connected(c)
    <3>1. call[c].step = "connecting"
          /\ clients' = [clients EXCEPT ![call[c].client].socket = "open"]
      BY Zenon, <2>6 DEF Connected
    <3>2. call[c].client \in 1..Len(clients)
      BY <3>1 DEF StartInv, Placed, Dialing
    <3> QED
      BY Zenon, <1>0, <3>1, <3>2, QuietSocket DEF GoOn
  <2>7. CASE ConnectFails(c) \/ BindNothing(c)
    <3>1. Busy(c)
      BY <2>7 DEF ConnectFails, BindNothing, Busy, Working
    <3> QED
      BY Zenon, <2>1, <2>7, <3>1 DEF ConnectFails, BindNothing
  <2>8. CASE Bind(c)
    <3>1. PICK k : k = managers[call[c].on].ldapClient
      OBVIOUS
    <3>2. AskedBy(c, k)
      BY Zenon, <2>8, <3>1, BindIs
    <3>3. k \in 1..Len(clients)
      BY Zenon, <3>2 DEF AskedBy
    <3> QED
      BY Zenon, <3>2, <3>3 DEF GoOn
  <2>9. CASE CreatePool(c)
    BY Zenon, <1>1, <2>9 DEF CreatePool
  <2> QED
    BY Zenon, <1>3, <2>2, <2>3, <2>4, <2>5, <2>6, <2>7, <2>8, <2>9 DEF AuthenticationStep
<1>4. ASSUME NEW c \in Calls, Construct(c) \/ Assemble(c) \/ InitAgain(c) PROVE GoOn
  <2>1. \E task, a, m : Initialize(c, task, a, m)
    BY Zenon, <1>4 DEF Construct, Assemble, InitAgain
  <2>2. PICK task, a, m : Initialize(c, task, a, m)
    BY Zenon, <2>1
  <2> QED
    BY Zenon, <1>0, <1>2, <2>2, InitializeMakes
<1>5. ASSUME NEW c \in Calls,
             FactoryFails(c) \/ ClientInit(c) \/ Migrate(c) \/ ForRoot(c) \/ ForRootAsync(c)
      PROVE  GoOn
  BY Zenon, <1>1, <1>5 DEF FactoryFails, ClientInit, Migrate, ForRoot, ForRootAsync
<1>6. ASSUME NEW k \in 1..Len(clients), DataArrives(k) \/ SocketLost(k) PROVE GoOn
  <2>1. CASE DataArrives(k)
    BY Zenon, <2>1, QuietData DEF GoOn
  <2>2. CASE SocketLost(k)
    <3>1. clients' = [clients EXCEPT ![k].socket = "lost"]
      BY Zenon, <2>2 DEF SocketLost
    <3> QED
      BY Zenon, <1>0, <3>1, QuietSocket DEF GoOn
  <2> QED
    BY Zenon, <1>6, <2>1, <2>2
<1>7. CASE UNCHANGED vars
  BY Zenon, <1>1, <1>7 DEF vars, authVars
<1>8. CASE Next
  BY Zenon, <1>3, <1>4, <1>5, <1>6, <1>8 DEF Next, OwnStep, NetworkStep
<1> QED
  BY Zenon, <1>7, <1>8

\* Every client's talk stays one.
LEMMA TalkNext == StartInv /\ TalkInv /\ [Next]_vars => TalkInv'
<1> SUFFICES ASSUME StartInv, TalkInv, [Next]_vars PROVE TalkInv'
  OBVIOUS
<1>1. GoOn
  BY Zenon, ClientsGoOn
<1>2. CASE Quiet(clients')
  BY Zenon, <1>2 DEF Quiet, TalkInv
<1>3. ASSUME NEW c \in Calls, NEW k \in 1..Len(clients), AskedBy(c, k) PROVE TalkInv'
  <2>1. /\ Len(clients') = Len(clients) /\ Talks(clients'[k])
        /\ \A j \in 1..Len(clients) : j # k => clients'[j] = clients[j]
    BY Zenon, <1>3 DEF AskedBy
  <2>2. ASSUME NEW j \in 1..Len(clients) PROVE Talks(clients'[j])
    BY Zenon, <2>1 DEF TalkInv
  <2> QED
    BY Zenon, <2>1, <2>2 DEF TalkInv
<1>4. ASSUME NEW a, Extended(clients', clients, NewClient(a)) PROVE TalkInv'
  <2>1. PICK n \in Nat : n = Len(clients)
    BY DEF StartInv, Typed, IsList
  <2>2. Len(clients') = n + 1 /\ \A j \in 1..(n + 1) :
          clients'[j] = IF j = n + 1 THEN NewClient(a) ELSE clients[j]
    BY Zenon, <1>4, <2>1 DEF Extended
  <2>3. ASSUME NEW j \in 1..(n + 1) PROVE Talks(clients'[j])
    <3>1. CASE j = n + 1
      BY Zenon, <2>2, <3>1, NewTalks
    <3>2. CASE j # n + 1
      <4>1. j \in 1..n
        BY <3>2
      <4> QED
        BY Zenon, <2>1, <2>2, <3>2, <4>1 DEF TalkInv
    <3> QED
      BY Zenon, <3>1, <3>2
  <2> QED
    BY Zenon, <2>2, <2>3 DEF TalkInv
<1> QED
  BY Zenon, <1>1, <1>2, <1>3, <1>4 DEF GoOn

\* At first there is no client.
LEMMA TalkInit == Init => TalkInv
<1> SUFFICES ASSUME Init PROVE TalkInv
  OBVIOUS
<1>1. Len(clients) = 0
  BY DEF Init, InitAuthentication
<1> QED
  BY <1>1 DEF TalkInv


\* What every reachable state satisfies beside StartInv.
THEOREM TalkInvariant == Spec => [](StartInv /\ TalkInv)
<1>1. Init => StartInv /\ TalkInv
  BY StartInit, TalkInit
<1>2. StartInv /\ TalkInv /\ [Next]_vars => StartInv' /\ TalkInv'
  BY StartNext, TalkNext
<1>3. QED
  BY <1>1, <1>2, PTL DEF Spec

\* The verdict on an answer in the short form is the answer's, and falls when its last
\* byte has arrived.
THEOREM VerdictsFit == Spec => []VerdictFitsAnswer
<1>1. TalkInv => VerdictFitsAnswer
  <2> SUFFICES ASSUME TalkInv, NEW k \in 1..Len(clients), clients[k].listeners = 1,
                      NEW answer, answer = clients[k].answers[1], ShortForm(answer)
               PROVE  /\ clients[k].verdict = "none" <=> clients[k].coming # <<>>
                      /\ clients[k].coming = <<>> =>
                           clients[k].verdict =
                             IF SaysSuccess(answer) THEN "resolve" ELSE "reject"
    BY Zenon DEF VerdictFitsAnswer
  <2>1. TalkOnce(clients[k].listeners, clients[k].answers, clients[k].coming,
                 clients[k].buffer, clients[k].verdict)
    BY Zenon DEF TalkInv, Talks
  <2>2. /\ clients[k].verdict = "none" => clients[k].coming # <<>>
        /\ clients[k].verdict # "none" =>
             /\ clients[k].coming = <<>>
             /\ clients[k].verdict = IF SaysSuccess(answer) THEN "resolve" ELSE "reject"
    BY Zenon, <2>1 DEF TalkOnce
  <2> QED
    BY Zenon, <2>2
<1>2. QED
  BY <1>1, TalkInvariant, PTL

\* Bytes are numbers.
LEMMA BytesAreNumbers == ASSUME NEW s \in Seq(Byte) PROVE s \in Seq(Nat)
<1>1. Len(s) \in Nat /\ s = [i \in 1..Len(s) |-> s[i]]
  OBVIOUS
<1>2. \A i \in 1..Len(s) : s[i] \in Byte
  BY Zenon, ElementOfSeq
<1>3. Byte \subseteq Nat
  BY DEF Byte
<1> QED
  BY <1>1, <1>2, <1>3

\* The bind request of every client, for every name and however long, has the length its
\* header says.
THEOREM RequestsReadBack == Spec => []RequestReadsBack
<1>1. TalkInv => RequestReadsBack
  <2> SUFFICES ASSUME TalkInv, NEW k \in 1..Len(clients), NEW name \in Names,
                      NEW request, request = Request(clients[k], name),
                      NEW length, length = DecodeLength(Tail(request))
               PROVE  /\ HasLength(Tail(request))
                      /\ Len(request) = 1 + LengthOfLength(length) + length
    BY Zenon DEF RequestReadsBack
  <2>1. PICK id : id = clients[k].messageID
    OBVIOUS
  <2>2. id \in Nat
    BY Zenon, <2>1 DEF TalkInv, Talks
  <2>3. PICK authentication : authentication = EncodeSimpleAuthentication(<<1>>)
    OBVIOUS
  <2>4. authentication \in Seq(Nat) /\ Len(authentication) <= 100
    BY <2>3 DEF EncodeSimpleAuthentication, EncodeString, EncodeLength
  <2>5. name \in Seq(Nat) /\ Len(name) + 200 <= Most
    <3>1. name \in Seq(Byte)
      BY AuthenticationAssumption
    <3>2. Len(name) < LongestName /\ Len(name) \in Nat
      BY <3>1, AuthenticationAssumption, LenProperties
    <3>3. name \in Seq(Nat)
      BY Zenon, <3>1, BytesAreNumbers
    <3> QED
      BY <3>2, <3>3 DEF Most, LongestName
  <2>6. request = EncodeBindRequest(id, 3, name, authentication)
    BY Zenon, <2>1, <2>3 DEF Request
  <2>7. 3 \in Nat
    OBVIOUS
  <2>8. HasLength(Tail(request)) /\ Len(request) = 1 + LengthOfLength(length) + length
    BY ONLY <2>2, <2>4, <2>5, <2>6, <2>7, length = DecodeLength(Tail(request)),
            BindRequestReadsBack
  <2> QED
    BY Zenon, <2>8
<1>2. QED
  BY <1>1, TalkInvariant, PTL

-----------------------------------------------------------------------------
(* Who has vouched for a user.                                             *)

\* An LDAP server has answered a bind() of assembly a with success.
Vouching(a) ==
  \E k \in 1..Len(clients) :
    /\ clients[k].of = a
    /\ \E i \in 1..Len(clients[k].answers) : SaysSuccess(clients[k].answers[i])

\* What authenticate() waits for, by the strategy: a token is not looked at.
Trust(m, vouched) ==
  /\ m.strategy = "ldap" => vouched
  /\ m.strategy = "kerberos" => m.ticket
  /\ m.strategy = "password" => "host" \in m.given

\* What a connection takes.
Vouch(m, vouched) ==
  /\ Trust(m, vouched)
  /\ m.strategy = "jwt" => m.token.signed /\ ~ m.token.expired

\* The verdicts on the binds of a manager can be relied on: no answer can be
\* misread, or none is heard twice and none is misread when heard once.
Sound(m) ==
  \/ \A answer \in Answers : PlainHeader(answer)
  \/ /\ \A answer \in Answers : LegibleHeader(answer)
     /\ ~ m.overlapped

\* CONNECTED and the opened pool rest on somebody's word.
Grounded(m, vouched) ==
  Sound(m) =>
    /\ m.connectionState = "CONNECTED" => Trust(m, vouched)
    /\ m.opened = "opened" => Vouch(m, vouched)

\* The steps of a strategy.
Suits(strategy, step) ==
  /\ step \in {"which", "keytab", "kinit", "klist"} => strategy = "kerberos"
  /\ step \in Dialing => strategy = "ldap"

\* What a call at work knows of its assembly.
Entitled(m, step, vouched) ==
  step \in Working \ {"factory"} =>
    /\ "host" \in m.given /\ Suits(m.strategy, step)
    /\ step = "authenticated" /\ Sound(m) => Trust(m, vouched)

Backed ==
  /\ \A a \in 1..Len(managers) : Grounded(managers[a], Vouching(a))
  /\ \A c \in Calls :
       Busy(c) => Entitled(managers[call[c].on], call[c].step, Vouching(call[c].on))

\* A call that shares its assembly with no other binds on the client it has made,
\* and once.
Apart ==
  /\ \A c \in Calls :
       call[c].step \in Dialing /\ ~ managers[call[c].on].overlapped =>
         /\ managers[call[c].on].ldapClient = call[c].client
         /\ call[c].step # "binding" => clients[call[c].client].listeners = 0
  /\ \A k \in 1..Len(clients) :
       ~ managers[clients[k].of].overlapped => clients[k].listeners <= 1

TrustInv == Backed /\ Apart

-----------------------------------------------------------------------------
(* What a manager keeps of it.                                             *)

\* n is m later: a ticket stays, and calls that have overlapped.
Heir(n, m) ==
  /\ n.strategy = m.strategy /\ n.given = m.given /\ n.token = m.token
  /\ m.ticket => n.ticket
  /\ m.overlapped => n.overlapped

\* What somebody's word was good for, it is good for later.
LEMMA HeirTrusts ==
  ASSUME NEW m, NEW n, Heir(n, m), NEW v, NEW w, v => w
  PROVE  /\ Sound(n) => Sound(m)
         /\ Trust(m, v) => Trust(n, w)
         /\ Vouch(m, v) => Vouch(n, w)
<1>1. Sound(n) => Sound(m)
  BY Zenon DEF Sound, Heir
<1>2. Trust(m, v) => Trust(n, w)
  BY Zenon DEF Trust, Heir
<1>3. Vouch(m, v) => Vouch(n, w)
  BY Zenon, <1>2 DEF Vouch, Heir
<1> QED
  BY Zenon, <1>1, <1>2, <1>3

\* So is a call entitled later.
LEMMA HeirEntitled ==
  ASSUME NEW m, NEW n, Heir(n, m), NEW v, NEW w, v => w, NEW step, Entitled(m, step, v)
  PROVE  Entitled(n, step, w)
<1>1. (Sound(n) => Sound(m)) /\ (Trust(m, v) => Trust(n, w))
  BY Zenon, HeirTrusts
<1> QED
  BY Zenon, <1>1 DEF Entitled, Heir

\* The same manager rests on what has been said since.
LEMMA SameGrounded ==
  ASSUME NEW m, NEW v, NEW w, v => w, Grounded(m, v)
  PROVE  Grounded(m, w)
<1>1. Heir(m, m)
  BY DEF Heir
<1>2. (Trust(m, v) => Trust(m, w)) /\ (Vouch(m, v) => Vouch(m, w))
  BY Zenon, <1>1, HeirTrusts
<1> QED
  BY Zenon, <1>2 DEF Grounded

\* So does every manager of a sequence.
LEMMA StillGrounded ==
  ASSUME NEW b, NEW w, Vouching(b) => w, Grounded(managers[b], Vouching(b))
  PROVE  Grounded(managers[b], w)
<1>1. PICK m : m = managers[b]
  OBVIOUS
<1>2. Grounded(m, Vouching(b))
  BY Zenon, <1>1
<1>3. Grounded(m, w)
  BY Zenon, <1>2, SameGrounded
<1> QED
  BY Zenon, <1>1, <1>3

\* A manager that has become nothing more rests on what it rested on.
LEMMA HeirGrounded ==
  ASSUME NEW m, NEW n, Heir(n, m), NEW v, Grounded(m, v),
         n.connectionState = "CONNECTED" => m.connectionState = "CONNECTED",
         n.opened = "opened" => m.opened = "opened"
  PROVE  Grounded(n, v)
<1>1. /\ Sound(n) => Sound(m)
      /\ Trust(m, v) => Trust(n, v)
      /\ Vouch(m, v) => Vouch(n, v)
  BY Zenon, HeirTrusts
<1> QED
  BY Zenon, <1>1 DEF Grounded

-----------------------------------------------------------------------------
(* What a step keeps of it.                                                *)

\* An answer that was given stays given.
LEMMA VouchingStays ==
  ASSUME Typed, TalkInv, GoOn, NEW a, Vouching(a) PROVE Vouching(a)'
<1>1. PICK k \in 1..Len(clients) :
        /\ clients[k].of = a
        /\ \E i \in 1..Len(clients[k].answers) : SaysSuccess(clients[k].answers[i])
  BY Zenon DEF Vouching
<1>2. PICK i \in 1..Len(clients[k].answers) : SaysSuccess(clients[k].answers[i])
  BY Zenon, <1>1
<1>3. CASE Quiet(clients')
  <2>1. /\ Len(clients') = Len(clients) /\ clients'[k].of = clients[k].of
        /\ clients'[k].answers = clients[k].answers
    BY Zenon, <1>3 DEF Quiet
  <2> QED
    BY Zenon, <1>1, <1>2, <2>1 DEF Vouching
<1>4. ASSUME NEW c \in Calls, NEW q \in 1..Len(clients), AskedBy(c, q)
      PROVE  Vouching(a)'
  <2>1. /\ Len(clients') = Len(clients)
        /\ \A j \in 1..Len(clients) : j # q => clients'[j] = clients[j]
    BY Zenon, <1>4 DEF AskedBy
  <2>2. CASE k # q
    <3>1. clients'[k] = clients[k]
      BY Zenon, <2>1, <2>2
    <3> QED
      BY Zenon, <1>1, <1>2, <2>1, <3>1 DEF Vouching
  <2>3. CASE k = q
    <3>1. PICK answer \in Answers : Asked(clients'[k], clients[k], answer)
      BY Zenon, <1>4, <2>3 DEF AskedBy
    <3>2. Talks(clients'[k])
      BY Zenon, <1>4, <2>3 DEF AskedBy
    <3>3. /\ clients'[k].of = clients[k].of
          /\ clients'[k].answers = Append(clients[k].answers, answer)
      BY Zenon, <3>1 DEF Asked
    <3>4. PICK s : s = clients[k].answers
      OBVIOUS
    <3>5. PICK t : t = Append(s, answer)
      OBVIOUS
    <3>6. s \in Seq(Answers) /\ i \in 1..Len(s)
      BY Zenon, <3>4 DEF TalkInv, Talks, TalkTyped
    <3>7. i \in 1..Len(t) /\ t[i] = s[i]
      BY ONLY <3>5, <3>6, answer \in Answers
    <3>8. clients'[k].answers = t /\ k \in 1..Len(clients')
      BY Zenon, <2>1, <3>3, <3>4, <3>5
    <3> QED
      BY Zenon, <1>1, <1>2, <3>3, <3>4, <3>7, <3>8 DEF Vouching
  <2> QED
    BY Zenon, <2>2, <2>3
<1>5. ASSUME NEW b, Extended(clients', clients, NewClient(b)) PROVE Vouching(a)'
  <2>1. PICK n \in Nat : n = Len(clients)
    BY DEF Typed, IsList
  <2>2. Len(clients') = n + 1 /\ \A j \in 1..(n + 1) :
          clients'[j] = IF j = n + 1 THEN NewClient(b) ELSE clients[j]
    BY Zenon, <1>5, <2>1 DEF Extended
  <2>3. k \in 1..(n + 1) /\ k # n + 1
    BY <2>1
  <2>4. clients'[k] = clients[k] /\ k \in 1..Len(clients')
    BY Zenon, <2>2, <2>3
  <2> QED
    BY Zenon, <1>1, <1>2, <2>4 DEF Vouching
<1> QED
  BY Zenon, <1>3, <1>4, <1>5 DEF GoOn

\* What a call at work knows of its assembly.
LEMMA WorkerKnows ==
  ASSUME StartInv, TrustInv, NEW c \in Calls, Busy(c)
  PROVE  /\ Entitled(managers[call[c].on], call[c].step, Vouching(call[c].on))
         /\ Grounded(managers[call[c].on], Vouching(call[c].on))
         /\ "host" \in managers[call[c].on].given
         /\ Suits(managers[call[c].on].strategy, call[c].step)
         /\ call[c].step = "authenticated" /\ Sound(managers[call[c].on])
              => Trust(managers[call[c].on], Vouching(call[c].on))
<1>1. call[c].on \in 1..Len(managers)
  BY Zenon, BusyIs
<1>2. /\ Entitled(managers[call[c].on], call[c].step, Vouching(call[c].on))
      /\ Grounded(managers[call[c].on], Vouching(call[c].on))
  BY Zenon, <1>1 DEF TrustInv, Backed
<1>3. call[c].step \in Working \ {"factory"}
  BY Zenon DEF Busy
<1> QED
  BY Zenon, <1>2, <1>3 DEF Entitled

\* What is not asked anew is bound no oftener.
LEMMA QuietApart ==
  ASSUME StartInv, Apart, Quiet(clients'),
         \A a \in 1..Len(managers) : managers[a].overlapped => managers'[a].overlapped
  PROVE  \A k \in 1..Len(clients') :
           ~ managers'[clients'[k].of].overlapped => clients'[k].listeners <= 1
<1>1. SUFFICES ASSUME NEW k \in 1..Len(clients'), ~ managers'[clients'[k].of].overlapped
               PROVE  clients'[k].listeners <= 1
  OBVIOUS
<1>2. k \in 1..Len(clients)
  BY Zenon DEF Quiet
<1>3. clients'[k].of = clients[k].of /\ clients'[k].listeners = clients[k].listeners
  BY Zenon, <1>2 DEF Quiet
<1>4. clients[k].of \in 1..Len(managers)
  BY Zenon, <1>2 DEF StartInv, Typed, IsClient
<1>5. ~ managers[clients[k].of].overlapped
  BY Zenon, <1>1, <1>3, <1>4
<1>6. clients[k].listeners <= 1
  BY Zenon, <1>2, <1>5 DEF Apart
<1> QED
  BY Zenon, <1>3, <1>6

\* Call c, at work on assembly a, goes on, asks nothing, and rests on what it knows.
LEMMA WorkTrusts ==
  ASSUME StartInv, TalkInv, TrustInv, NEW c \in Calls, Busy(c), NEW a, a = call[c].on,
         NEW m, Became(a, m), Heir(m, managers[a]), Grounded(m, Vouching(a)),
         NEW step, NEW on, NEW client, Turned(c, step, on, client), Quiet(clients'),
         step \in Working => on = a,
         Entitled(m, step, Vouching(a)),
         step \in Dialing =>
           /\ call[c].step \in Dialing /\ client = call[c].client
           /\ m.ldapClient = managers[a].ldapClient
           /\ step # "binding" => call[c].step # "binding"
  PROVE  TrustInv'
<1>0. Typed /\ Placed /\ Alone /\ Backed /\ Apart
  BY Zenon DEF StartInv, TrustInv
<1>1. ASSUME NEW b PROVE Vouching(b) => Vouching(b)'
  <2>1. GoOn
    BY Zenon DEF GoOn
  <2> QED
    BY Zenon, <1>0, <2>1, VouchingStays
<1>2. a \in 1..Len(managers)
  BY Zenon, BusyIs
<1>3. /\ Len(managers') = Len(managers) /\ managers'[a] = m
      /\ \A b \in 1..Len(managers) : b # a => managers'[b] = managers[b]
  BY Zenon, <1>2 DEF Became
<1>4. \A b \in 1..Len(managers) : Heir(managers'[b], managers[b])
  <2>1. \A b \in 1..Len(managers) : b # a => Heir(managers'[b], managers[b])
    BY Zenon, <1>3 DEF Heir
  <2> QED
    BY Zenon, <1>3, <2>1
<1>5. \A b \in 1..Len(managers) : Grounded(managers'[b], Vouching(b)')
  <2>1. Grounded(managers'[a], Vouching(a)')
    <3>1. Grounded(m, Vouching(a)')
      BY Zenon, <1>1, SameGrounded
    <3> QED
      BY Zenon, <1>3, <3>1
  <2>2. ASSUME NEW b \in 1..Len(managers), b # a
        PROVE  Grounded(managers'[b], Vouching(b)')
    <3>1. managers'[b] = managers[b]
      BY Zenon, <1>3, <2>2
    <3>2. Grounded(managers[b], Vouching(b))
      BY Zenon, <1>0 DEF Backed
    <3>3. Vouching(b) => Vouching(b)'
      BY <1>1
    <3>4. Grounded(managers[b], Vouching(b)')
      BY Zenon, <3>2, <3>3, StillGrounded
    <3> QED
      BY Zenon, <3>1, <3>4
  <2> QED
    BY Zenon, <2>1, <2>2
<1>6. ASSUME NEW d \in Calls, d # c
      PROVE  call'[d].step = call[d].step /\ call'[d].on = call[d].on
             /\ call'[d].client = call[d].client
  BY Zenon, <1>6 DEF Turned
<1>7. call'[c].step = step /\ call'[c].on = on /\ call'[c].client = client
  BY Zenon DEF Turned
<1>8. ASSUME NEW d \in Calls, Busy(d)'
      PROVE  Entitled(managers'[call'[d].on], call'[d].step, Vouching(call[d].on)')
  <2>1. CASE d = c
    <3>1. step \in Working
      BY Zenon, <1>7, <1>8, <2>1 DEF Busy
    <3>2. call'[d].on = a /\ call'[d].step = step /\ managers'[a] = m
      BY Zenon, <1>3, <1>7, <2>1, <3>1
    <3>3. Entitled(m, step, Vouching(a)')
      <4>1. Heir(m, m)
        BY Zenon DEF Heir
      <4> QED
        BY Zenon, <1>1, <4>1, HeirEntitled
    <3> QED
      BY Zenon, <3>2, <3>3
  <2>2. CASE d # c
    <3>1. Busy(d)
      BY Zenon, <1>6, <1>8, <2>2 DEF Busy
    <3>2. PICK b : b = call[d].on
      OBVIOUS
    <3>3. b \in 1..Len(managers) /\ Entitled(managers[b], call[d].step, Vouching(b))
      BY Zenon, <3>1, <3>2, BusyIs, WorkerKnows
    <3>4. Entitled(managers'[b], call[d].step, Vouching(b)')
      BY ZenonT(60), <1>1, <1>4, <3>3, HeirEntitled
    <3> QED
      BY Zenon, <1>6, <2>2, <3>2, <3>4
  <2> QED
    BY Zenon, <2>1, <2>2
<1>9. Backed'
  <2>1. \A b \in 1..Len(managers') : Grounded(managers'[b], Vouching(b)')
    BY Zenon, <1>3, <1>5
  <2> QED
    BY Zenon, <1>8, <2>1 DEF Backed
<1>10. ASSUME NEW d \in Calls, call'[d].step \in Dialing,
              ~ managers'[call'[d].on].overlapped
       PROVE  /\ managers'[call'[d].on].ldapClient = call'[d].client
              /\ call'[d].step # "binding" => clients'[call'[d].client].listeners = 0
  <2>0. \A k \in 1..Len(clients) : clients'[k].listeners = clients[k].listeners
    BY Zenon DEF Quiet
  <2>1. CASE d = c
    <3>1. step \in Dialing /\ step \in Working
      BY <1>7, <1>10, <2>1 DEF Dialing, Working
    <3>2. /\ call[c].step \in Dialing /\ client = call[c].client
          /\ m.ldapClient = managers[a].ldapClient
          /\ step # "binding" => call[c].step # "binding"
          /\ call'[d].on = a /\ call'[d].client = client /\ call'[d].step = step
      BY Zenon, <1>7, <2>1, <3>1
    <3>3. ~ managers[a].overlapped
      BY Zenon, <1>3, <1>10, <3>2 DEF Heir
    <3>4. /\ managers[a].ldapClient = call[c].client
          /\ call[c].step # "binding" => clients[call[c].client].listeners = 0
      BY Zenon, <1>0, <3>2, <3>3 DEF Apart
    <3>5. call[c].client \in 1..Len(clients)
      BY Zenon, <1>0, <3>2 DEF Placed
    <3> QED
      BY Zenon, <1>3, <2>0, <3>2, <3>4, <3>5
  <2>2. CASE d # c
    <3>1. /\ call'[d].step = call[d].step /\ call'[d].on = call[d].on
          /\ call'[d].client = call[d].client
      BY Zenon, <1>6, <2>2
    <3>2. call[d].step \in Dialing
      BY Zenon, <1>10, <3>1
    <3>3. Busy(d)
      BY <3>2 DEF Busy, Working, Dialing
    <3>4. PICK b : b = call[d].on
      OBVIOUS
    <3>5. b \in 1..Len(managers)
      BY Zenon, <3>3, <3>4, BusyIs
    <3>6. ~ managers[b].overlapped
      BY Zenon, <1>4, <1>10, <3>1, <3>4, <3>5 DEF Heir
    <3>7. b # a
      BY Zenon, <1>0, <2>2, <3>3, <3>4, <3>6 DEF Alone
    <3>8. managers'[b] = managers[b]
      BY Zenon, <1>3, <3>5, <3>7
    <3>9. /\ managers[b].ldapClient = call[d].client
          /\ call[d].step # "binding" => clients[call[d].client].listeners = 0
      BY Zenon, <1>0, <3>2, <3>4, <3>6 DEF Apart
    <3>10. call[d].client \in 1..Len(clients)
      BY Zenon, <1>0, <3>2 DEF Placed
    <3> QED
      BY Zenon, <2>0, <3>1, <3>4, <3>8, <3>9, <3>10
  <2> QED
    BY Zenon, <2>1, <2>2
<1>11. Apart'
  <2>1. \A b \in 1..Len(managers) : managers[b].overlapped => managers'[b].overlapped
    BY Zenon, <1>4 DEF Heir
  <2>2. \A k \in 1..Len(clients') :
          ~ managers'[clients'[k].of].overlapped => clients'[k].listeners <= 1
    BY Zenon, <1>0, <2>1, QuietApart
  <2> QED
    BY Zenon, <1>10, <2>2 DEF Apart
<1> QED
  BY Zenon, <1>9, <1>11 DEF TrustInv

\* bind(): the client asked is the one the call has made, if it is alone.
LEMMA BindTrusts ==
  ASSUME StartInv, TalkInv, TrustInv, NEW c \in Calls, Bind(c)
  PROVE  TrustInv'
<1>0. Typed /\ Placed /\ Alone /\ Backed /\ Apart
  BY Zenon DEF StartInv, TrustInv
<1>1. PICK a, k : a = call[c].on /\ k = managers[a].ldapClient
  OBVIOUS
<1>2. call[c].step = "connected" /\ UNCHANGED managers /\ AskedBy(c, k)
  BY Zenon, <1>1, BindIs DEF Bind
<1>3. Busy(c)
  BY <1>2 DEF Busy, Working
<1>4. a \in 1..Len(managers) /\ k \in 1..Len(clients) /\ clients[k].of = a
  BY Zenon, <1>1, <1>2, <1>3, BusyIs DEF AskedBy
<1>5. Turned(c, "binding", a, k)
  <2>1. call' = [call EXCEPT ![c].step = "binding", ![c].client = k]
    BY Zenon, <1>1 DEF Bind
  <2>2. "binding" \in Step /\ k \in 0..Len(clients)
    BY <1>4 DEF Step, Working
  <2> QED
    BY Zenon, <1>0, <1>1, <2>1, <2>2, ClientTurned
<1>6. ASSUME NEW b PROVE Vouching(b) => Vouching(b)'
  <2>1. GoOn
    BY Zenon, <1>2, <1>4 DEF GoOn
  <2> QED
    BY Zenon, <1>0, <2>1, VouchingStays
<1>7. ASSUME NEW d \in Calls
      PROVE  /\ d = c => call'[d].step = "binding" /\ call'[d].on = a /\ call'[d].client = k
             /\ call'[d].on = call[d].on
             /\ d # c => call'[d].step = call[d].step /\ call'[d].client = call[d].client
  BY Zenon, <1>1, <1>5 DEF Turned
<1>8. Suits(managers[a].strategy, "binding") /\ "host" \in managers[a].given
  <2>1. Suits(managers[a].strategy, "connected") /\ "host" \in managers[a].given
    BY Zenon, <1>1, <1>2, <1>3, WorkerKnows
  <2> QED
    BY <2>1 DEF Suits, Dialing
<1>9. Entitled(managers[a], "binding", Vouching(a))
  BY <1>8 DEF Entitled
<1>10. Backed'
  <2>1. ASSUME NEW b \in 1..Len(managers) PROVE Grounded(managers[b], Vouching(b)')
    <3>1. Grounded(managers[b], Vouching(b))
      BY Zenon, <1>0 DEF Backed
    <3>2. Vouching(b) => Vouching(b)'
      BY <1>6
    <3> QED
      BY Zenon, <3>1, <3>2, StillGrounded
  <2>2. ASSUME NEW d \in Calls, Busy(d)'
        PROVE  Entitled(managers'[call'[d].on], call'[d].step, Vouching(call[d].on)')
    <3>1. PICK b : b = call[d].on
      OBVIOUS
    <3>2. Heir(managers[b], managers[b])
      BY Zenon DEF Heir
    <3>3. Entitled(managers[b], call'[d].step, Vouching(b))
      <4>1. CASE d = c
        BY Zenon, <1>1, <1>7, <1>9, <3>1, <4>1
      <4>2. CASE d # c
        <5>1. Busy(d)
          BY Zenon, <1>7, <2>2, <4>2 DEF Busy
        <5> QED
          BY Zenon, <1>7, <3>1, <4>2, <5>1, WorkerKnows
      <4> QED
        BY Zenon, <4>1, <4>2
    <3>4. Entitled(managers[b], call'[d].step, Vouching(b)')
      BY Zenon, <1>6, <3>2, <3>3, HeirEntitled
    <3>5. call'[d].on = b /\ managers' = managers
      BY Zenon, <1>2, <1>7, <3>1
    <3> QED
      BY Zenon, <3>4, <3>5
  <2>3. \A b \in 1..Len(managers') : Grounded(managers'[b], Vouching(b)')
    BY Zenon, <1>2, <2>1
  <2> QED
    BY Zenon, <2>2, <2>3 DEF Backed
<1>11. /\ Len(clients') = Len(clients)
       /\ \A j \in 1..Len(clients) : j # k => clients'[j] = clients[j]
       /\ clients'[k].of = clients[k].of
       /\ clients'[k].listeners = clients[k].listeners + 1
  BY Zenon, <1>2 DEF AskedBy, Asked
<1>12. ASSUME ~ managers[a].overlapped
       PROVE  /\ call[c].client = k /\ clients[k].listeners = 0
              /\ \A d \in Calls : call[d].step \in Dialing /\ call[d].client = k => d = c
  <2>1. call[c].step \in Dialing
    BY <1>2 DEF Dialing
  <2>2. /\ call[c].client = k
        /\ call[c].step # "binding" => clients[k].listeners = 0
    BY Zenon, <1>0, <1>1, <1>12, <2>1 DEF Apart
  <2>3. call[c].step # "binding"
    BY <1>2
  <2>4. ASSUME NEW d \in Calls, call[d].step \in Dialing, call[d].client = k
        PROVE  d = c
    <3>1. Busy(d)
      BY <2>4 DEF Busy, Working, Dialing
    <3>2. call[d].on = a
      BY Zenon, <1>0, <1>4, <2>4 DEF Placed
    <3> QED
      BY Zenon, <1>0, <1>1, <1>3, <1>12, <3>1, <3>2 DEF Alone
  <2> QED
    BY Zenon, <2>2, <2>3, <2>4
<1>13. ASSUME NEW d \in Calls, call'[d].step \in Dialing, ~ managers[call'[d].on].overlapped
       PROVE  /\ managers[call'[d].on].ldapClient = call'[d].client
              /\ call'[d].step # "binding" => clients'[call'[d].client].listeners = 0
  <2>1. CASE d = c
    BY Zenon, <1>1, <1>7, <2>1
  <2>2. CASE d # c
    <3>1. /\ call[d].step \in Dialing /\ ~ managers[call[d].on].overlapped
          /\ call'[d].step = call[d].step /\ call'[d].on = call[d].on
          /\ call'[d].client = call[d].client
      BY Zenon, <1>7, <1>13, <2>2
    <3>2. /\ managers[call[d].on].ldapClient = call[d].client
          /\ call[d].step # "binding" => clients[call[d].client].listeners = 0
      BY Zenon, <1>0, <3>1 DEF Apart
    <3>3. /\ call[d].client \in 1..Len(clients)
          /\ clients[call[d].client].of = call[d].on
      BY Zenon, <1>0, <3>1 DEF Placed
    <3>4. call[d].client # k
      BY Zenon, <1>4, <1>12, <2>2, <3>1, <3>3
    <3> QED
      BY Zenon, <1>11, <3>1, <3>2, <3>3, <3>4
  <2> QED
    BY Zenon, <2>1, <2>2
<1>14. ASSUME NEW j \in 1..Len(clients'), ~ managers[clients'[j].of].overlapped
       PROVE  clients'[j].listeners <= 1
  <2>1. CASE j = k
    <3>1. clients[k].listeners = 0
      BY Zenon, <1>4, <1>11, <1>12, <1>14, <2>1
    <3>2. clients'[k].listeners = 0 + 1
      BY Zenon, <1>11, <3>1
    <3> QED
      BY <2>1, <3>2
  <2>2. CASE j # k
    <3>1. j \in 1..Len(clients) /\ clients'[j] = clients[j]
      BY Zenon, <1>11, <2>2
    <3> QED
      BY Zenon, <1>0, <1>14, <3>1 DEF Apart
  <2> QED
    BY Zenon, <2>1, <2>2
<1>15. Apart'
  BY Zenon, <1>2, <1>13, <1>14 DEF Apart
<1> QED
  BY Zenon, <1>10, <1>15 DEF TrustInv

\* The old assemblies stay as they are, a new one is not initialised, and no call
\* is at work that was not.
Rests ==
  /\ Quiet(clients')
  /\ Len(managers') \in Nat /\ Len(managers') >= Len(managers)
  /\ \A b \in 1..Len(managers) : managers'[b] = managers[b]
  /\ \A b \in 1..Len(managers') :
       b > Len(managers) => /\ managers'[b].connectionState # "CONNECTED"
                            /\ managers'[b].opened # "opened"
  /\ \A d \in Calls : Busy(d)' => call'[d] = call[d]

\* Such a step rests on nobody's word.
LEMMA RestTrusts ==
  ASSUME StartInv, TalkInv, TrustInv, Rests PROVE TrustInv'
<1>0. Typed /\ Placed /\ Backed /\ Apart /\ Quiet(clients')
  BY Zenon DEF StartInv, TrustInv, Rests
<1>1. ASSUME NEW b PROVE Vouching(b) => Vouching(b)'
  <2>1. GoOn
    BY Zenon, <1>0 DEF GoOn
  <2> QED
    BY Zenon, <1>0, <2>1, VouchingStays
<1>2. PICK n \in Nat : n = Len(managers)
  BY Zenon, <1>0, LenProperties DEF Typed
<1>3. ASSUME NEW b \in 1..Len(managers') PROVE Grounded(managers'[b], Vouching(b)')
  <2>1. CASE b \in 1..Len(managers)
    <3>1. managers'[b] = managers[b]
      BY Zenon, <2>1 DEF Rests
    <3>2. Grounded(managers[b], Vouching(b))
      BY Zenon, <1>0, <2>1 DEF Backed
    <3>3. Vouching(b) => Vouching(b)'
      BY <1>1
    <3>4. Grounded(managers[b], Vouching(b)')
      BY Zenon, <3>2, <3>3, StillGrounded
    <3> QED
      BY Zenon, <3>1, <3>4
  <2>2. CASE b \notin 1..Len(managers)
    <3>1. b > Len(managers)
      BY <1>2, <2>2 DEF Rests
    <3> QED
      BY Zenon, <3>1 DEF Rests, Grounded
  <2> QED
    BY Zenon, <2>1, <2>2
<1>4. ASSUME NEW d \in Calls, Busy(d)'
      PROVE  /\ call'[d] = call[d] /\ Busy(d) /\ call[d].on \in 1..Len(managers)
             /\ managers'[call[d].on] = managers[call[d].on]
  <2>1. call'[d] = call[d]
    BY Zenon, <1>4 DEF Rests
  <2>2. Busy(d)
    BY Zenon, <1>4, <2>1 DEF Busy
  <2>3. call[d].on \in 1..Len(managers)
    BY Zenon, <2>2, BusyIs
  <2> QED
    BY Zenon, <2>1, <2>2, <2>3 DEF Rests
<1>5. ASSUME NEW d \in Calls, Busy(d)'
      PROVE  Entitled(managers'[call'[d].on], call'[d].step, Vouching(call[d].on)')
  <2>1. PICK b : b = call[d].on
    OBVIOUS
  <2>2. Entitled(managers[b], call[d].step, Vouching(b)) /\ Heir(managers[b], managers[b])
    BY Zenon, <1>4, <1>5, <2>1, WorkerKnows DEF Heir
  <2>3. Entitled(managers[b], call[d].step, Vouching(b)')
    BY Zenon, <1>1, <2>2, HeirEntitled
  <2> QED
    BY Zenon, <1>4, <1>5, <2>1, <2>3
<1>6. Backed'
  BY Zenon, <1>3, <1>5 DEF Backed
<1>7. ASSUME NEW d \in Calls, call'[d].step \in Dialing,
             ~ managers'[call'[d].on].overlapped
      PROVE  /\ managers'[call'[d].on].ldapClient = call'[d].client
             /\ call'[d].step # "binding" => clients'[call'[d].client].listeners = 0
  <2>1. Busy(d)'
    BY <1>7 DEF Busy, Working, Dialing
  <2>2. /\ call'[d] = call[d] /\ call[d].on \in 1..Len(managers)
        /\ managers'[call[d].on] = managers[call[d].on]
    BY Zenon, <1>4, <2>1
  <2>3. /\ managers[call[d].on].ldapClient = call[d].client
        /\ call[d].step # "binding" => clients[call[d].client].listeners = 0
        /\ call[d].client \in 1..Len(clients)
    BY Zenon, <1>0, <1>7, <2>2 DEF Apart, Placed
  <2> QED
    BY Zenon, <1>0, <2>2, <2>3 DEF Quiet
<1>8. \A k \in 1..Len(clients') :
        ~ managers'[clients'[k].of].overlapped => clients'[k].listeners <= 1
  <2>1. \A b \in 1..Len(managers) : managers[b].overlapped => managers'[b].overlapped
    BY Zenon DEF Rests
  <2> QED
    BY Zenon, <1>0, <2>1, QuietApart
<1>9. Apart'
  BY Zenon, <1>7, <1>8 DEF Apart
<1> QED
  BY Zenon, <1>6, <1>9 DEF TrustInv

-----------------------------------------------------------------------------
(* What the start of an authenticate() rests on.                           *)

\* A state set changes none of the papers, nor what else the end of an
\* authenticate() sets.
LEMMA PapersKept ==
  ASSUME NEW m \in Manager, NEW st \in {"AUTHENTICATING", "CONNECTED", "AUTH_FAILED"}
  PROVE  /\ Papers(SetState(m, st), m)
         /\ \A failed \in BOOLEAN : Papers(Ended(m, st, failed), m)
         /\ Papers([SetState(m, st) EXCEPT !.failed = TRUE], m)
<1>1. PICK t : t = SetState(m, st)
  OBVIOUS
<1>2. t \in Manager
  BY <1>1, SetStateIs
<1>3. Papers(t, m)
  BY <1>1 DEF SetState, Papers, Manager
<1>4. ASSUME NEW failed \in BOOLEAN PROVE Papers(Ended(m, st, failed), m)
  <2>1. PICK f : f = (t.failed \/ failed)
    OBVIOUS
  <2>2. PICK e : e = Ended(m, st, failed)
    OBVIOUS
  <2>3. e = [t EXCEPT !.failed = f, !.ldapClient = NoClient]
    BY <1>1, <2>1, <2>2 DEF Ended
  <2>4. Papers(e, t)
    BY <1>2, <2>3 DEF Papers, Manager
  <2> QED
    BY <1>3, <2>2, <2>4 DEF Papers
<1>5. Papers([t EXCEPT !.failed = TRUE], m)
  <2>1. PICK e : e = [t EXCEPT !.failed = TRUE]
    OBVIOUS
  <2>2. Papers(e, t)
    BY <1>2, <2>1 DEF Papers, Manager
  <2> QED
    BY <1>3, <2>1, <2>2 DEF Papers
<1> QED
  BY <1>1, <1>3, <1>4, <1>5

\* What init() makes of the papers, and what has been looked at when it goes on: a
\* valid configuration, and a state it had unless nothing is waited for.
Admits(m, e, step) ==
  /\ Papers(e, m)
  /\ e.connectionState = "CONNECTED" => m.connectionState = "CONNECTED" \/ m.strategy = "jwt"
  /\ step \in Working \ {"factory"} => "host" \in m.given /\ Suits(m.strategy, step)
  /\ step = "authenticated" =>
       m.connectionState = "CONNECTED" \/ m.strategy \in {"password", "jwt"}
  /\ step \in Dialing => step = "connecting"

\* So does init() before its first await.
LEMMA PoolInitAdmits ==
  ASSUME NEW m \in Manager, NEW after, after = PoolInit(m)
  PROVE  Admits(m, after.m, after.step)
<1>0. Papers(m, m)
  BY DEF Papers
<1>1. m.strategy \in Strategy /\ m.connectionState \in State
  BY DEF Manager
<1>2. CASE m.poolInitialized \/ ~ ValidConfig(m)
  <2>1. after.m = m /\ after.step \in {"returned", "threw"}
    BY <1>2 DEF PoolInit, Ends
  <2> QED
    BY <1>0, <2>1 DEF Admits, Working, Dialing
<1>3. CASE ~ m.poolInitialized /\ ValidConfig(m)
  <2>0. after = Authenticate(m) /\ "host" \in m.given
    BY <1>3 DEF PoolInit, ValidConfig
  <2>1. CASE m.connectionState = "CONNECTED"
    <3>1. after.m = m /\ after.step = "authenticated"
      BY <2>0, <2>1 DEF Authenticate, Ends
    <3> QED
      BY <1>0, <2>0, <2>1, <3>1 DEF Admits, Suits, Dialing
  <2>2. CASE m.connectionState # "CONNECTED" /\ Needs[m.strategy] \subseteq m.given
    <3>1. PICK e, step : e = Announces(m) /\ step = FirstStep[m.strategy]
      OBVIOUS
    <3>2. after.m = e /\ after.step = step
      BY <2>0, <2>2, <3>1 DEF Authenticate, Ends
    <3>3. Papers(e, m)
      <4>1. PICK b : b = SetState(m, "AUTHENTICATING")
        OBVIOUS
      <4>2. b \in Manager /\ Papers(b, m)
        BY <4>1, SetStateIs, PapersKept
      <4>3. e = IF m.strategy = "jwt" THEN SetState(b, "CONNECTED") ELSE b
        BY <3>1, <4>1 DEF Announces
      <4>4. Papers(SetState(b, "CONNECTED"), b)
        BY <4>2, PapersKept
      <4> QED
        BY <4>2, <4>3, <4>4 DEF Papers
    <3>4. e.connectionState = "CONNECTED" => m.strategy = "jwt"
      <4>1. m.connectionState \in {"DISCONNECTED", "AUTHENTICATING", "AUTH_FAILED"}
        BY <1>1, <2>2 DEF State
      <4> QED
        BY <3>1, <4>1, AnnouncesIs
    <3>5. /\ m.strategy \in {"password", "jwt"} => step = "authenticated"
          /\ m.strategy = "kerberos" => step = "which"
          /\ m.strategy = "ldap" => step = "connecting"
          /\ m.strategy \in {"password", "jwt", "kerberos", "ldap"}
      BY <1>1, <3>1 DEF FirstStep, Strategy
    <3>6. Suits(m.strategy, step)
      BY <3>5 DEF Suits, Dialing
    <3>7. step \in Dialing => step = "connecting"
      BY <3>5 DEF Dialing
    <3>8. step = "authenticated" => m.strategy \in {"password", "jwt"}
      BY <3>5
    <3> QED
      BY <2>0, <3>2, <3>3, <3>4, <3>6, <3>7, <3>8 DEF Admits
  <2>3. CASE m.connectionState # "CONNECTED" /\ ~ (Needs[m.strategy] \subseteq m.given)
    <3>1. PICK e : e = Refused(m)
      OBVIOUS
    <3>2. after.m = e /\ after.step = "threw"
      BY <2>0, <2>3, <3>1 DEF Authenticate, Ends, Refused
    <3>3. Papers(e, m)
      <4>1. PICK b : b = SetState(m, "AUTHENTICATING")
        OBVIOUS
      <4>2. b \in Manager /\ Papers(b, m)
        BY <4>1, SetStateIs, PapersKept
      <4>3. e = [SetState(b, "AUTH_FAILED") EXCEPT !.failed = TRUE]
        BY <3>1, <4>1 DEF Refused
      <4>4. Papers(e, b)
        BY <4>2, <4>3, PapersKept
      <4> QED
        BY <4>2, <4>4 DEF Papers
    <3>4. e.connectionState = "AUTH_FAILED"
      BY <2>3, <3>1, RefusedIs
    <3> QED
      BY <3>2, <3>3, <3>4 DEF Admits, Working, Dialing
  <2> QED
    BY <2>1, <2>2, <2>3
<1> QED
  BY <1>2, <1>3

\* What a call of init() leaves of its assembly rests on what it rested on.
LEMMA BegunGrounded ==
  ASSUME NEW m, NEW e, NEW s, NEW step, NEW v, Admits(m, e, step), Papers(s, e),
         s.connectionState = e.connectionState, m.overlapped => s.overlapped,
         Grounded(m, v)
  PROVE  Heir(s, m) /\ Grounded(s, v) /\ Entitled(s, step, v)
<1>1. Heir(s, m) /\ s.opened = m.opened /\ s.strategy = m.strategy
  BY Zenon DEF Heir, Admits, Papers
<1>2. (Sound(s) => Sound(m)) /\ (Trust(m, v) => Trust(s, v)) /\ (Vouch(m, v) => Vouch(s, v))
  BY Zenon, <1>1, HeirTrusts
<1>3. s.strategy = "jwt" => Trust(s, v)
  BY DEF Trust
<1>4. s.strategy = "password" /\ "host" \in s.given => Trust(s, v)
  BY DEF Trust
<1>5. Grounded(s, v)
  <2>1. s.connectionState = "CONNECTED" =>
          m.connectionState = "CONNECTED" \/ s.strategy = "jwt"
    BY Zenon, <1>1 DEF Admits
  <2> QED
    BY Zenon, <1>1, <1>2, <1>3, <2>1 DEF Grounded
<1>6. ASSUME step \in Working \ {"factory"}
      PROVE  /\ "host" \in s.given /\ Suits(s.strategy, step)
             /\ step = "authenticated" /\ Sound(s) => Trust(s, v)
  <2>1. "host" \in s.given /\ Suits(s.strategy, step)
    BY Zenon, <1>1, <1>6 DEF Admits, Heir
  <2>2. step = "authenticated" =>
          m.connectionState = "CONNECTED" \/ s.strategy = "password" \/ s.strategy = "jwt"
    <3>1. step = "authenticated" =>
            m.connectionState = "CONNECTED" \/ m.strategy \in {"password", "jwt"}
      BY Zenon DEF Admits
    <3> QED
      BY <1>1, <3>1
  <2> QED
    BY Zenon, <1>2, <1>3, <1>4, <2>1, <2>2 DEF Grounded
<1> QED
  BY Zenon, <1>1, <1>5, <1>6 DEF Entitled

\* A call begins on assembly a, which is m.
LEMMA BeginTrusts ==
  ASSUME StartInv, TalkInv, TrustInv, NEW c \in Calls, call[c].step \in {"idle", "factory"},
         NEW a \in 1..(Len(managers) + 1), NEW m \in Manager, NEW task \in Task,
         Initialize(c, task, a, m),
         IF a <= Len(managers)
           THEN m = managers[a]
           ELSE m.connectionState = "DISCONNECTED" /\ m.opened = "none"
                  /\ m.ldapClient = NoClient
  PROVE  TrustInv'
<1>0. Typed /\ Placed /\ Recorded /\ Backed /\ Apart
  BY Zenon DEF StartInv, TrustInv
<1>1. PICK n \in Nat, q \in Nat : n = Len(managers) /\ q = Len(clients)
  BY <1>0 DEF Typed, IsList
<1>2. /\ m.connectionState = "AUTH_FAILED" => m.failed
      /\ m.ldapClient \in 0..Len(clients) /\ Grounded(m, Vouching(a))
      /\ a \in 1..Len(managers) => m = managers[a]
  <2>1. CASE a <= Len(managers)
    <3>1. a \in 1..Len(managers) /\ m = managers[a]
      BY <1>1, <2>1
    <3>2. Grounded(managers[a], Vouching(a))
      BY Zenon, <1>0, <3>1 DEF Backed
    <3>3. managers[a].connectionState = "AUTH_FAILED" => managers[a].failed
      BY Zenon, <1>0, <3>1 DEF Recorded
    <3>4. managers[a].ldapClient \in 0..Len(clients)
      BY Zenon, <1>0, <3>1 DEF Typed
    <3> QED
      BY Zenon, <3>1, <3>2, <3>3, <3>4
  <2>2. CASE ~ (a <= Len(managers))
    <3>1. /\ m.connectionState = "DISCONNECTED" /\ m.opened = "none"
          /\ m.ldapClient = NoClient
      BY <2>2
    <3>2. a \notin 1..Len(managers) /\ 0 \in 0..Len(clients)
      BY <1>1, <2>2
    <3>3. m.connectionState # "CONNECTED" /\ m.connectionState # "AUTH_FAILED"
          /\ m.opened # "opened"
      BY <3>1
    <3> QED
      BY Zenon, <3>1, <3>2, <3>3 DEF Grounded, NoClient
  <2> QED
    BY Zenon, <2>1, <2>2
<1>3. PICK dials \in BOOLEAN : \E e, s, step, client :
        InitIs(c, task, a, m, e, s, step, dials, client)
  BY Zenon, <1>0, <1>2, InitializeIs
<1>4. PICK e, s, step, client : InitIs(c, task, a, m, e, s, step, dials, client)
  BY Zenon, <1>3
<1>5. /\ Joined(a, s) /\ Dialled(a, dials) /\ Begun(c, task, step, a, client)
      /\ dials <=> step = "connecting"
      /\ client = IF dials THEN Len(clients) + 1 ELSE NoClient
  BY Zenon, <1>4 DEF InitIs
<1>6. PICK field \in Nat, shared \in BOOLEAN :
        /\ KeptBut(s, e, field, shared)
        /\ field = IF dials THEN Len(clients) + 1 ELSE m.ldapClient
        /\ shared <=> (m.overlapped \/ UnderWay(a))
  BY Zenon, <1>4 DEF InitIs
<1>7. /\ Papers(s, e) /\ s.connectionState = e.connectionState
      /\ s.ldapClient = field /\ s.overlapped = shared
  BY Zenon, <1>6 DEF KeptBut
<1>8. Admits(m, e, step)
  <2>1. PICK after : after = PoolInit(m)
    OBVIOUS
  <2>2. e = after.m /\ step = after.step
    BY Zenon, <1>4, <2>1 DEF InitIs
  <2> QED
    BY Zenon, <2>1, <2>2, PoolInitAdmits
<1>9. Heir(s, m) /\ Grounded(s, Vouching(a)) /\ Entitled(s, step, Vouching(a))
  BY Zenon, <1>2, <1>6, <1>7, <1>8, BegunGrounded
<1>10. GoOn
  <2>1. MadeFor(a)
    BY Zenon, <1>0, InitializeMakes
  <2>2. Quiet(clients)
    BY Zenon, <1>0, QuietItself
  <2> QED
    BY Zenon, <2>1, <2>2 DEF MadeFor, GoOn
<1>11. ASSUME NEW b PROVE Vouching(b) => Vouching(b)'
  BY Zenon, <1>0, <1>10, VouchingStays
<1>12. /\ managers'[a] = s
       /\ \A b \in 1..Len(managers') : b # a => b \in 1..n /\ managers'[b] = managers[b]
       /\ \A b \in 1..n : b # a => managers'[b] = managers[b]
  <2>1. /\ Len(managers') = IF a > n THEN a ELSE n
        /\ \A b \in 1..Len(managers') : managers'[b] = IF b = a THEN s ELSE managers[b]
        /\ a \in 1..(n + 1)
    BY Zenon, <1>1, <1>5 DEF Joined
  <2>2. a \in 1..Len(managers') /\ 1..n \subseteq 1..Len(managers')
        /\ \A b \in 1..Len(managers') : b # a => b \in 1..n
    BY <2>1
  <2> QED
    BY Zenon, <2>1, <2>2
<1>13. /\ \A d \in Calls : d # c => call'[d] = call[d]
       /\ call'[c].step = step /\ call'[c].on = a /\ call'[c].client = client
  BY Zenon, <1>5 DEF Begun
<1>14. ASSUME NEW d \in Calls, d # c, Busy(d)'
       PROVE  Busy(d) /\ call'[d] = call[d] /\ call[d].on \in 1..n
  <2>1. call'[d] = call[d]
    BY Zenon, <1>13, <1>14
  <2>2. Busy(d)
    BY Zenon, <1>14, <2>1 DEF Busy
  <2> QED
    BY Zenon, <1>1, <2>1, <2>2, BusyIs
<1>15. \A b \in 1..n : Heir(managers'[b], managers[b])
  <2>1. ASSUME NEW b \in 1..n PROVE Heir(managers'[b], managers[b])
    <3>1. CASE b = a
      BY Zenon, <1>1, <1>2, <1>9, <1>12, <3>1
    <3>2. CASE b # a
      BY Zenon, <1>12, <3>2 DEF Heir
    <3> QED
      BY Zenon, <3>1, <3>2
  <2> QED
    BY Zenon, <2>1
<1>16. ASSUME NEW b \in 1..Len(managers') PROVE Grounded(managers'[b], Vouching(b)')
  <2>1. CASE b = a
    <3>1. Grounded(s, Vouching(a)')
      BY Zenon, <1>9, <1>11, SameGrounded
    <3> QED
      BY Zenon, <1>12, <2>1, <3>1
  <2>2. CASE b # a
    <3>1. managers'[b] = managers[b] /\ b \in 1..n
      BY Zenon, <1>12, <2>2
    <3>2. Grounded(managers[b], Vouching(b))
      BY Zenon, <1>0, <1>1, <3>1 DEF Backed
    <3>3. Vouching(b) => Vouching(b)'
      BY <1>11
    <3>4. Grounded(managers[b], Vouching(b)')
      BY Zenon, <3>2, <3>3, StillGrounded
    <3> QED
      BY Zenon, <3>1, <3>4
  <2> QED
    BY Zenon, <2>1, <2>2
<1>17. ASSUME NEW d \in Calls, Busy(d)'
       PROVE  Entitled(managers'[call'[d].on], call'[d].step, Vouching(call[d].on)')
  <2>1. CASE d = c
    <3>1. Entitled(s, step, Vouching(a)')
      <4>1. Heir(s, s)
        BY Zenon DEF Heir
      <4> QED
        BY Zenon, <1>9, <1>11, <4>1, HeirEntitled
    <3>2. call'[d].on = a /\ call'[d].step = step
      BY Zenon, <1>13, <2>1
    <3> QED
      BY Zenon, <1>12, <3>1, <3>2
  <2>2. CASE d # c
    <3>1. PICK b : b = call[d].on
      OBVIOUS
    <3>2. b \in 1..n /\ Entitled(managers[b], call[d].step, Vouching(b))
      BY Zenon, <1>14, <1>17, <2>2, <3>1, WorkerKnows
    <3>3. Entitled(managers'[b], call[d].step, Vouching(b)')
      BY ZenonT(60), <1>11, <1>15, <3>2, HeirEntitled
    <3>4. call'[d] = call[d]
      BY Zenon, <1>13, <2>2
    <3> QED
      BY Zenon, <3>1, <3>3, <3>4
  <2> QED
    BY Zenon, <2>1, <2>2
<1>18. Backed'
  BY Zenon, <1>16, <1>17 DEF Backed
<1>19. /\ \A k \in 1..q : clients'[k] = clients[k]
       /\ Len(clients') = IF dials THEN q + 1 ELSE q
       /\ dials => clients'[q + 1] = NewClient(a)
  BY Zenon, <1>1, <1>5 DEF Dialled
<1>20. ASSUME NEW d \in Calls, call'[d].step \in Dialing,
              ~ managers'[call'[d].on].overlapped
       PROVE  /\ managers'[call'[d].on].ldapClient = call'[d].client
              /\ call'[d].step # "binding" => clients'[call'[d].client].listeners = 0
  <2>1. CASE d = c
    <3>1. step = "connecting"
      BY Zenon, <1>8, <1>13, <1>20, <2>1 DEF Admits
    <3>2. dials /\ client = q + 1 /\ field = q + 1
      BY Zenon, <1>1, <1>5, <1>6, <3>1
    <3>3. clients'[q + 1].listeners = 0
      BY Zenon, <1>19, <3>2, NewTalks
    <3> QED
      BY Zenon, <1>7, <1>12, <1>13, <2>1, <3>2, <3>3
  <2>2. CASE d # c
    <3>1. Busy(d)'
      BY <1>20 DEF Busy, Working, Dialing
    <3>2. Busy(d) /\ call'[d] = call[d] /\ call[d].on \in 1..n
      BY Zenon, <1>14, <2>2, <3>1
    <3>3. call[d].on # a
      <4>1. ASSUME call[d].on = a PROVE UnderWay(a)
        BY Zenon, <3>2, <4>1 DEF UnderWay, Busy
      <4> QED
        BY Zenon, <1>6, <1>7, <1>12, <1>20, <3>2, <4>1
    <3>4. managers'[call[d].on] = managers[call[d].on]
      BY Zenon, <1>12, <3>2, <3>3
    <3>5. /\ managers[call[d].on].ldapClient = call[d].client
          /\ call[d].step # "binding" => clients[call[d].client].listeners = 0
          /\ call[d].client \in 1..q
      BY Zenon, <1>0, <1>1, <1>20, <3>2, <3>4 DEF Apart, Placed
    <3> QED
      BY Zenon, <1>19, <3>2, <3>4, <3>5
  <2> QED
    BY Zenon, <2>1, <2>2
<1>21. ASSUME NEW k \in 1..Len(clients'), ~ managers'[clients'[k].of].overlapped
       PROVE  clients'[k].listeners <= 1
  <2>1. CASE k \in 1..q
    <3>1. clients'[k] = clients[k] /\ clients[k].of \in 1..n
      BY Zenon, <1>0, <1>1, <1>19, <2>1 DEF Typed, IsClient
    <3>2. ~ managers[clients[k].of].overlapped
      BY Zenon, <1>15, <1>21, <3>1 DEF Heir
    <3>3. clients[k].listeners <= 1
      BY Zenon, <1>0, <1>1, <2>1, <3>2 DEF Apart
    <3> QED
      BY Zenon, <3>1, <3>3
  <2>2. CASE k \notin 1..q
    <3>1. dials /\ k = q + 1
      BY <1>19, <2>2
    <3>2. clients'[k].listeners = 0
      BY Zenon, <1>19, <3>1, NewTalks
    <3> QED
      BY <3>2
  <2> QED
    BY Zenon, <2>1, <2>2
<1>22. Apart'
  BY Zenon, <1>20, <1>21 DEF Apart
<1> QED
  BY Zenon, <1>18, <1>22 DEF TrustInv

-----------------------------------------------------------------------------
(* What the other steps rest on.                                           *)

\* A step that looks at nothing but its own assembly, and ends no authenticate().
LEMMA CarryTrusts ==
  ASSUME StartInv, TalkInv, TrustInv, NEW c \in Calls, Busy(c), NEW a, a = call[c].on,
         NEW m, Became(a, m), Heir(m, managers[a]),
         m.connectionState = "CONNECTED" => managers[a].connectionState = "CONNECTED",
         m.opened = "opened" => managers[a].opened = "opened",
         NEW step, NEW on, NEW client, Turned(c, step, on, client), UNCHANGED clients,
         step # "authenticated", step \notin Dialing,
         step \in Working => on = a /\ Suits(managers[a].strategy, step)
  PROVE  TrustInv'
<1>1. /\ Grounded(managers[a], Vouching(a)) /\ "host" \in managers[a].given
  BY Zenon, WorkerKnows
<1>2. Grounded(m, Vouching(a))
  BY Zenon, <1>1, HeirGrounded
<1>3. Entitled(m, step, Vouching(a))
  BY Zenon, <1>1 DEF Entitled, Heir
<1>4. Quiet(clients')
  BY Zenon, QuietItself DEF StartInv
<1> QED
  BY Zenon, <1>2, <1>3, <1>4, WorkTrusts

\* The end of an authenticate(), which succeeds on somebody's word.
LEMMA LeaveTrusts ==
  ASSUME StartInv, TalkInv, TrustInv, NEW c \in Calls, Busy(c), NEW a, a = call[c].on,
         NEW state, NEW failed \in BOOLEAN, NEW step, NEW all, Quiet(all),
         Leave(c, state, step, failed, CloseField(a, all)),
         \/ state = "AUTH_FAILED" /\ step = "threw"
         \/ /\ state = "CONNECTED" /\ step = "authenticated"
            /\ Sound(managers[a]) => Trust(managers[a], Vouching(a))
  PROVE  TrustInv'
<1>1. PICK m : m = Ended(managers[a], state, failed)
  OBVIOUS
<1>2. /\ managers' = [managers EXCEPT ![a] = m]
      /\ clients' = CloseField(a, all)
      /\ call' = [call EXCEPT ![c].step = step]
  BY Zenon, <1>1 DEF Leave
<1>3. /\ a \in 1..Len(managers) /\ managers[a] \in Manager
      /\ managers[a].connectionState # "DISCONNECTED" /\ Typed
  BY Zenon, BusyIs DEF StartInv
<1>4. state \in {"CONNECTED", "AUTH_FAILED"} /\ step \in Step
  BY DEF Step, Working
<1>5. /\ m \in Manager /\ m.overlapped = managers[a].overlapped
      /\ m.connectionState = Moved(managers[a].connectionState, state)
  BY <1>1, <1>3, <1>4, EndedIs
<1>6. Papers(m, managers[a])
  <2>1. state \in {"AUTHENTICATING", "CONNECTED", "AUTH_FAILED"}
    BY <1>4
  <2>2. Papers(Ended(managers[a], state, failed), managers[a])
    BY Zenon, <1>3, <2>1, PapersKept
  <2> QED
    BY Zenon, <1>1, <2>2
<1>7. Heir(m, managers[a]) /\ m.opened = managers[a].opened
  BY Zenon, <1>5, <1>6 DEF Heir, Papers
<1>8. m.connectionState = "CONNECTED" =>
        managers[a].connectionState = "CONNECTED" \/ state = "CONNECTED"
  <2>1. managers[a].connectionState \in {"AUTHENTICATING", "CONNECTED", "AUTH_FAILED"}
    BY <1>3 DEF Manager, State
  <2>2. PICK from \in State : from = managers[a].connectionState
    BY <2>1 DEF State
  <2>3. from \in {"CONNECTED", "AUTH_FAILED"} => Moved(from, state) = from
    BY <1>4, <2>2, MovedTo
  <2>4. from = "AUTHENTICATING" => Moved(from, state) = state
    BY <1>4, <2>2, MovedTo
  <2>5. m.connectionState = Moved(from, state)
    BY Zenon, <1>5, <2>2
  <2> QED
    BY ONLY <1>4, <2>1, <2>2, <2>3, <2>4, <2>5
<1>9. /\ Sound(m) => Sound(managers[a])
      /\ Trust(managers[a], Vouching(a)) => Trust(m, Vouching(a))
      /\ Vouch(managers[a], Vouching(a)) => Vouch(m, Vouching(a))
  BY Zenon, <1>7, HeirTrusts
<1>10. Grounded(managers[a], Vouching(a)) /\ "host" \in managers[a].given
  BY Zenon, WorkerKnows
<1>11. Grounded(m, Vouching(a))
  <2>1. state = "CONNECTED" => (Sound(managers[a]) => Trust(managers[a], Vouching(a)))
    OBVIOUS
  <2> QED
    BY Zenon, <1>7, <1>8, <1>9, <1>10, <2>1 DEF Grounded
<1>12. Entitled(m, step, Vouching(a))
  <2>1. step \notin {"which", "keytab", "kinit", "klist"} /\ step \notin Dialing
    BY DEF Dialing
  <2>2. step \in Working => step = "authenticated"
    BY DEF Working
  <2>3. step = "authenticated" => (Sound(managers[a]) => Trust(managers[a], Vouching(a)))
    OBVIOUS
  <2>4. "host" \in m.given /\ Suits(m.strategy, step)
    BY Zenon, <1>7, <1>10, <2>1 DEF Heir, Suits
  <2> QED
    BY Zenon, <1>9, <2>3, <2>4 DEF Entitled
<1>13. Became(a, m) /\ Turned(c, step, a, call[c].client)
  BY Zenon, <1>2, <1>3, <1>4, <1>5, BecameIs, StepTurned
<1>14. Quiet(clients')
  BY Zenon, <1>2, <1>3, QuietClosed
<1>15. step \notin Dialing
  BY DEF Dialing
<1> QED
  BY Zenon, <1>7, <1>11, <1>12, <1>13, <1>14, <1>15, WorkTrusts

\* A failure rests on nothing.
LEMMA FailTrusts ==
  ASSUME StartInv, TalkInv, TrustInv, NEW c \in Calls, Busy(c), Fail(c)
  PROVE  TrustInv'
<1>1. Quiet(clients)
  BY Zenon, QuietItself DEF StartInv
<1>2. Leave(c, "AUTH_FAILED", "threw", TRUE, CloseField(call[c].on, clients))
  BY Zenon DEF Fail, FailAfter
<1> QED
  BY Zenon, <1>1, <1>2, LeaveTrusts

\* A child process or a file that was waited for, and the next one is asked.
LEMMA GoesTrusts ==
  ASSUME StartInv, TalkInv, TrustInv, NEW c \in Calls, call[c].step \in {"which", "keytab"},
         NEW to \in {"keytab", "kinit"}, Goes(c, to)
  PROVE  TrustInv'
<1>1. PICK a, m : a = call[c].on /\ m = managers[a]
  OBVIOUS
<1>2. Busy(c) /\ Typed /\ to \in Step /\ to \notin Dialing /\ to # "authenticated"
  BY DEF Busy, Working, StartInv, Step, Dialing
<1>3. Became(a, m) /\ Turned(c, to, a, call[c].client) /\ UNCHANGED clients
  BY Zenon, <1>1, <1>2, BusyIs, BecameItself, StepTurned DEF Goes
<1>4. Heir(m, managers[a])
  BY Zenon, <1>1 DEF Heir
<1>5. Suits(managers[a].strategy, to)
  <2>1. Suits(managers[a].strategy, call[c].step)
    BY Zenon, <1>1, <1>2, WorkerKnows
  <2> QED
    BY <2>1 DEF Suits, Dialing
<1> QED
  BY Zenon, <1>1, <1>2, <1>3, <1>4, <1>5, CarryTrusts

\* kinit exits with 0: a ticket more, or none.
LEMMA KinitTrusts ==
  ASSUME StartInv, TalkInv, TrustInv, NEW c \in Calls, AcquireKerberosTicket(c)
  PROVE  TrustInv'
<1>0. PICK a : a = call[c].on
  OBVIOUS
<1>1. call[c].step = "kinit"
  BY DEF AcquireKerberosTicket
<1>2. Busy(c) /\ Typed
  BY <1>1 DEF Busy, Working, StartInv
<1>3. a \in 1..Len(managers) /\ managers[a] \in Manager
  BY Zenon, <1>0, <1>2, BusyIs
<1>4. CASE Fail(c)
  BY Zenon, <1>2, <1>4, FailTrusts
<1>5. CASE /\ \E ticket \in BOOLEAN :
                managers' = [managers EXCEPT ![a].ticket = @ \/ ticket]
           /\ call' = [call EXCEPT ![c].step = "klist"]
           /\ UNCHANGED clients
  <2>1. PICK ticket \in BOOLEAN : managers' = [managers EXCEPT ![a].ticket = @ \/ ticket]
    BY <1>5
  <2>2. PICK f \in BOOLEAN : f = (managers[a].ticket \/ ticket)
    BY <1>3, <2>1 DEF Manager
  <2>3. PICK m : m = [managers[a] EXCEPT !.ticket = f]
    OBVIOUS
  <2>4. managers' = [managers EXCEPT ![a] = m]
    BY <2>1, <2>2, <2>3
  <2>5. /\ m \in Manager /\ m.strategy = managers[a].strategy
        /\ m.given = managers[a].given /\ m.token = managers[a].token
        /\ m.overlapped = managers[a].overlapped /\ m.opened = managers[a].opened
        /\ m.connectionState = managers[a].connectionState /\ m.ticket = f
    BY <1>3, <2>3 DEF Manager
  <2>6. managers[a].ticket => f
    BY <2>2
  <2>7. Heir(m, managers[a])
    BY Zenon, <2>5, <2>6 DEF Heir
  <2>8. "klist" \in Step /\ "klist" \notin Dialing /\ "klist" # "authenticated"
    BY DEF Step, Working, Dialing
  <2>9. Became(a, m) /\ Turned(c, "klist", a, call[c].client)
    BY Zenon, <1>0, <1>2, <1>3, <1>5, <2>4, <2>5, <2>8, BecameIs, StepTurned
  <2>10. Suits(managers[a].strategy, "klist")
    <3>1. Suits(managers[a].strategy, "kinit")
      BY Zenon, <1>0, <1>1, <1>2, WorkerKnows
    <3> QED
      BY <3>1 DEF Suits, Dialing
  <2> QED
    BY Zenon, <1>0, <1>2, <1>5, <2>5, <2>7, <2>8, <2>9, <2>10, CarryTrusts
<1> QED
  BY Zenon, <1>0, <1>4, <1>5 DEF AcquireKerberosTicket

\* klist finds the ticket that Kerberos has vouched with.
LEMMA KlistTrusts ==
  ASSUME StartInv, TalkInv, TrustInv, NEW c \in Calls, ValidateTicket(c)
  PROVE  TrustInv'
<1>0. PICK a : a = call[c].on
  OBVIOUS
<1>1. call[c].step = "klist"
  BY DEF ValidateTicket
<1>2. Busy(c) /\ Typed
  BY <1>1 DEF Busy, Working, StartInv
<1>3. CASE Fail(c)
  BY Zenon, <1>2, <1>3, FailTrusts
<1>4. CASE managers[a].ticket /\ Succeed(c, clients)
  <2>1. Quiet(clients)
    BY Zenon, <1>2, QuietItself
  <2>2. Leave(c, "CONNECTED", "authenticated", FALSE, CloseField(a, clients))
    BY Zenon, <1>0, <1>4 DEF Succeed
  <2>3. Suits(managers[a].strategy, "klist")
    BY Zenon, <1>0, <1>1, <1>2, WorkerKnows
  <2>4. managers[a].strategy = "kerberos"
    BY <2>3 DEF Suits
  <2>5. Trust(managers[a], Vouching(a))
    BY <1>4, <2>4 DEF Trust
  <2> QED
    BY Zenon, <1>0, <1>2, <2>1, <2>2, <2>5, LeaveTrusts
<1> QED
  BY Zenon, <1>0, <1>3, <1>4 DEF ValidateTicket

\* connect() succeeds: the call is where it was with its own client.
LEMMA ConnectedTrusts ==
  ASSUME StartInv, TalkInv, TrustInv, NEW c \in Calls, Connected(c)
  PROVE  TrustInv'
<1>1. PICK a, m : a = call[c].on /\ m = managers[a]
  OBVIOUS
<1>2. /\ call[c].step = "connecting" /\ UNCHANGED managers
      /\ clients' = [clients EXCEPT ![call[c].client].socket = "open"]
      /\ call' = [call EXCEPT ![c].step = "connected"]
  BY Zenon DEF Connected
<1>3. Busy(c) /\ Typed /\ "connected" \in Step
  BY <1>2 DEF Busy, Working, StartInv, Step
<1>4. Became(a, m) /\ Turned(c, "connected", a, call[c].client)
  BY Zenon, <1>1, <1>2, <1>3, BusyIs, BecameItself, StepTurned
<1>5. call[c].client \in 1..Len(clients)
  BY <1>2 DEF StartInv, Placed, Dialing
<1>6. Quiet(clients')
  BY Zenon, <1>2, <1>3, <1>5, QuietSocket
<1>7. /\ Heir(m, managers[a]) /\ Grounded(m, Vouching(a))
      /\ "host" \in m.given /\ Suits(m.strategy, "connecting")
  BY Zenon, <1>1, <1>2, <1>3, WorkerKnows DEF Heir
<1>8. Entitled(m, "connected", Vouching(a))
  <2>1. Suits(m.strategy, "connected")
    BY <1>7 DEF Suits, Dialing
  <2> QED
    BY <1>7, <2>1 DEF Entitled
<1>9. /\ "connected" \in Dialing => call[c].step \in Dialing
      /\ call[c].step # "binding"
  BY <1>2 DEF Dialing
<1>10. m.ldapClient = managers[a].ldapClient
  BY Zenon, <1>1
<1> QED
  BY Zenon, <1>1, <1>3, <1>4, <1>6, <1>7, <1>8, <1>9, <1>10, WorkTrusts

\* The pool begins to open its connections: of a JWT token verifyJwtToken() has
\* looked at signature and date by then.
LEMMA CreatePoolTrusts ==
  ASSUME StartInv, TalkInv, TrustInv, NEW c \in Calls, CreatePool(c)
  PROVE  TrustInv'
<1>0. PICK a, step : a = call[c].on
                     /\ step = IF call[c].task = "byHand" THEN "returned" ELSE "clientInit"
  OBVIOUS
<1>1. call[c].step = "authenticated" /\ UNCHANGED clients
  BY DEF CreatePool
<1>2. Busy(c) /\ Typed /\ step \in {"returned", "clientInit"}
  BY <1>0, <1>1 DEF Busy, Working, StartInv
<1>3. a \in 1..Len(managers) /\ managers[a] \in Manager
  BY Zenon, <1>0, <1>2, BusyIs
<1>4. PICK o \in {"opened", "refused"} :
        o = IF HasConnectionString(managers[a]) THEN "opened" ELSE "refused"
  OBVIOUS
<1>5. PICK m : m = [managers[a] EXCEPT !.poolInitialized = TRUE, !.opened = o]
  OBVIOUS
<1>6. /\ managers' = [managers EXCEPT ![a] = m]
      /\ call' = [call EXCEPT ![c].step = step]
  <2>1. managers' = [managers EXCEPT ![a].poolInitialized = TRUE, ![a].opened = o]
    BY <1>0, <1>4 DEF CreatePool
  <2>2. managers' = [managers EXCEPT ![a] = m]
    BY <1>2, <1>3, <1>5, <2>1 DEF Typed
  <2>3. call' = [call EXCEPT ![c].step = step]
    BY Zenon, <1>0 DEF CreatePool
  <2> QED
    BY Zenon, <2>2, <2>3
<1>7. /\ m \in Manager /\ m.strategy = managers[a].strategy
      /\ m.given = managers[a].given /\ m.token = managers[a].token
      /\ m.overlapped = managers[a].overlapped /\ m.opened = o
      /\ m.connectionState = managers[a].connectionState
      /\ m.ticket = managers[a].ticket
  BY <1>3, <1>4, <1>5 DEF Manager
<1>8. Heir(m, managers[a])
  BY Zenon, <1>7 DEF Heir
<1>9. step \in Step /\ step \notin Dialing /\ (step \in Working => step = "clientInit")
  BY <1>2 DEF Step, Working, Dialing
<1>10. Became(a, m) /\ Turned(c, step, a, call[c].client)
  BY Zenon, <1>0, <1>2, <1>3, <1>6, <1>7, <1>9, BecameIs, StepTurned
<1>11. /\ Grounded(managers[a], Vouching(a)) /\ "host" \in managers[a].given
       /\ Sound(managers[a]) => Trust(managers[a], Vouching(a))
  BY Zenon, <1>0, <1>1, <1>2, WorkerKnows
<1>12. /\ Sound(m) => Sound(managers[a])
       /\ Trust(managers[a], Vouching(a)) => Trust(m, Vouching(a))
       /\ Vouch(managers[a], Vouching(a)) => Vouch(m, Vouching(a))
  BY Zenon, <1>8, HeirTrusts
<1>13. m.opened = "opened" /\ m.strategy = "jwt" => m.token.signed /\ ~ m.token.expired
  <2>1. o = "opened" => HasConnectionString(managers[a])
    BY <1>4
  <2>2. HasConnectionString(managers[a]) /\ managers[a].strategy = "jwt"
          => JwtConnectionString(managers[a])
    BY DEF HasConnectionString
  <2>3. JwtConnectionString(managers[a])
          => managers[a].token.signed /\ ~ managers[a].token.expired
    BY DEF JwtConnectionString, VerifyJwtToken
  <2> QED
    BY Zenon, <1>7, <2>1, <2>2, <2>3
<1>14. Grounded(m, Vouching(a))
  BY Zenon, <1>7, <1>11, <1>12, <1>13 DEF Grounded, Vouch
<1>15. Entitled(m, step, Vouching(a))
  <2>1. "host" \in m.given /\ step # "authenticated" /\ Suits(m.strategy, step)
    BY <1>2, <1>7, <1>11 DEF Suits, Dialing
  <2> QED
    BY Zenon, <2>1 DEF Entitled
<1>16. Quiet(clients')
  BY Zenon, <1>1, <1>2, QuietItself
<1> QED
  BY Zenon, <1>0, <1>2, <1>8, <1>9, <1>10, <1>14, <1>15, <1>16, WorkTrusts

\* Client.init() finds the pool initialised: a module's password is left to the
\* database.
LEMMA ClientInitTrusts ==
  ASSUME StartInv, TalkInv, TrustInv, NEW c \in Calls, ClientInit(c)
  PROVE  TrustInv'
<1>0. PICK a, m : a = call[c].on /\ m = SetState(managers[a], "CONNECTED")
  OBVIOUS
<1>1. /\ call[c].step = "clientInit" /\ UNCHANGED clients
      /\ managers' = [managers EXCEPT ![a] = m]
      /\ \/ call' = [call EXCEPT ![c].step = "migrating"]
         \/ call' = [call EXCEPT ![c].step = "returned", ![c].on = instance]
  BY <1>0 DEF ClientInit, Return
<1>2. Busy(c) /\ Typed
  BY <1>1 DEF Busy, Working, StartInv
<1>3. /\ a \in 1..Len(managers) /\ managers[a] \in Manager
      /\ managers[a].strategy = "password"
  <2>1. call[c].task = "forRootAsync"
    BY <1>1 DEF StartInv, Placed
  <2>2. /\ a \in 1..Len(managers) /\ managers[a] \in Manager
        /\ managers[a].by = "module"
    BY Zenon, <1>0, <1>2, <2>1, BusyIs
  <2> QED
    BY Zenon, <2>2 DEF StartInv, Alone
<1>4. m \in Manager /\ m.overlapped = managers[a].overlapped
  BY <1>0, <1>3, SetStateIs
<1>5. Papers(m, managers[a])
  BY <1>0, <1>3, PapersKept
<1>6. Heir(m, managers[a]) /\ m.opened = managers[a].opened
  BY Zenon, <1>4, <1>5 DEF Heir, Papers
<1>7. Grounded(managers[a], Vouching(a)) /\ "host" \in managers[a].given
  BY Zenon, <1>0, <1>2, WorkerKnows
<1>8. m.strategy = "password" /\ "host" \in m.given
  BY Zenon, <1>3, <1>6, <1>7 DEF Heir
<1>9. Trust(m, Vouching(a)) /\ Vouch(m, Vouching(a))
  BY <1>8 DEF Trust, Vouch
<1>10. Grounded(m, Vouching(a))
  BY Zenon, <1>9 DEF Grounded
<1>11. Became(a, m) /\ Quiet(clients')
  BY Zenon, <1>1, <1>2, <1>3, <1>4, BecameIs, QuietItself
<1>12. CASE call' = [call EXCEPT ![c].step = "migrating"]
  <2>1. "migrating" \in Step /\ "migrating" \notin Dialing
    BY DEF Step, Working, Dialing
  <2>2. Turned(c, "migrating", a, call[c].client)
    BY Zenon, <1>0, <1>2, <1>12, <2>1, StepTurned
  <2>3. Entitled(m, "migrating", Vouching(a))
    BY <1>8 DEF Entitled, Suits, Dialing
  <2> QED
    BY Zenon, <1>0, <1>2, <1>6, <1>10, <1>11, <2>1, <2>2, <2>3, WorkTrusts
<1>13. CASE call' = [call EXCEPT ![c].step = "returned", ![c].on = instance]
  <2>1. /\ "returned" \in Step /\ "returned" \notin Dialing /\ "returned" \notin Working
        /\ instance \in 0..Len(managers)
    BY <1>2 DEF Step, Working, Dialing, Typed
  <2>2. Turned(c, "returned", instance, call[c].client)
    BY Zenon, <1>2, <1>13, <2>1, OnTurned
  <2>3. Entitled(m, "returned", Vouching(a))
    BY Zenon, <2>1 DEF Entitled
  <2> QED
    BY Zenon, <1>0, <1>2, <1>6, <1>10, <1>11, <2>1, <2>2, <2>3, WorkTrusts
<1> QED
  BY Zenon, <1>1, <1>12, <1>13

\* A table is made, or is not.
LEMMA MigrateTrusts ==
  ASSUME StartInv, TalkInv, TrustInv, NEW c \in Calls, Migrate(c)
  PROVE  TrustInv'
<1>0. PICK a : a = call[c].on
  OBVIOUS
<1>1. PICK table : table = CreateTable(Entities[Len(managers[a].migrated) + 1])
  OBVIOUS
<1>2. /\ call[c].step = "migrating" /\ UNCHANGED clients
      /\ \/ /\ managers' = [managers EXCEPT ![a].migrated = Append(@, table)]
            /\ \/ call' = [call EXCEPT ![c].step = "returned", ![c].on = instance]
               \/ UNCHANGED call
         \/ /\ call' = [call EXCEPT ![c].step = "threw"]
            /\ UNCHANGED managers
  BY <1>0, <1>1 DEF Migrate, Return
<1>3. Busy(c) /\ Typed
  BY <1>2 DEF Busy, Working, StartInv
<1>4. a \in 1..Len(managers) /\ managers[a] \in Manager
  BY Zenon, <1>0, <1>3, BusyIs
<1>5. /\ "threw" \in Step /\ "threw" \notin Dialing /\ "threw" \notin Working
      /\ "returned" \in Step /\ "returned" \notin Dialing /\ "returned" \notin Working
      /\ "migrating" \notin Dialing /\ "migrating" # "authenticated"
      /\ "returned" # "authenticated" /\ "threw" # "authenticated"
      /\ instance \in 0..Len(managers)
  BY <1>3 DEF Step, Working, Dialing, Typed
<1>6. CASE call' = [call EXCEPT ![c].step = "threw"] /\ UNCHANGED managers
  <2>1. PICK m : m = managers[a]
    OBVIOUS
  <2>2. Became(a, m) /\ Turned(c, "threw", a, call[c].client) /\ Heir(m, managers[a])
    BY Zenon, <1>0, <1>3, <1>4, <1>5, <1>6, <2>1, BecameItself, StepTurned DEF Heir
  <2> QED
    BY Zenon, <1>0, <1>2, <1>3, <1>5, <2>1, <2>2, CarryTrusts
<1>7. CASE /\ managers' = [managers EXCEPT ![a].migrated = Append(@, table)]
           /\ \/ call' = [call EXCEPT ![c].step = "returned", ![c].on = instance]
              \/ UNCHANGED call
  <2>1. PICK t : t = Append(managers[a].migrated, table)
    OBVIOUS
  <2>2. PICK m : m = [managers[a] EXCEPT !.migrated = t]
    OBVIOUS
  <2>3. managers' = [managers EXCEPT ![a] = m]
    BY <1>7, <2>1, <2>2
  <2>4. m \in Manager
    <3>1. StartInv'
      BY MigrateKeeps
    <3>2. managers'[a] \in Manager
      <4>1. managers \in Seq(Manager) /\ managers' \in Seq(Manager)
        BY <1>3, <3>1 DEF StartInv, Typed
      <4>2. Len(managers') = Len(managers)
        BY <2>3, <4>1
      <4> QED
        BY <1>4, <4>1, <4>2
    <3> QED
      BY <1>3, <1>4, <2>3, <3>2 DEF Typed
  <2>5. /\ m.strategy = managers[a].strategy
        /\ m.given = managers[a].given /\ m.token = managers[a].token
        /\ m.overlapped = managers[a].overlapped /\ m.opened = managers[a].opened
        /\ m.connectionState = managers[a].connectionState
        /\ m.ticket = managers[a].ticket
    BY <1>4, <2>2 DEF Manager
  <2>6. Became(a, m) /\ Heir(m, managers[a])
    BY Zenon, <1>3, <1>4, <2>3, <2>4, <2>5, BecameIs DEF Heir
  <2>7. CASE call' = [call EXCEPT ![c].step = "returned", ![c].on = instance]
    <3>1. Turned(c, "returned", instance, call[c].client)
      BY Zenon, <1>3, <1>5, <2>7, OnTurned
    <3> QED
      BY Zenon, <1>0, <1>2, <1>3, <1>5, <2>5, <2>6, <3>1, CarryTrusts
  <2>8. CASE UNCHANGED call
    <3>1. Turned(c, "migrating", a, call[c].client)
      BY Zenon, <1>0, <1>2, <1>3, <2>8, SameTurned
    <3>2. Suits(managers[a].strategy, "migrating")
      BY Zenon, <1>0, <1>2, <1>3, WorkerKnows
    <3> QED
      BY Zenon, <1>0, <1>2, <1>3, <1>5, <2>5, <2>6, <3>1, <3>2, CarryTrusts
  <2> QED
    BY Zenon, <1>7, <2>7, <2>8
<1> QED
  BY Zenon, <1>2, <1>6, <1>7


\* A client that says success has been told so, by a server that wrote no header
\* which can be misread.
LEMMA HeardSuccess ==
  ASSUME NEW v, Talks(v), v.listeners # 0, v.verdict = "resolve",
         \/ \A answer \in Answers : PlainHeader(answer)
         \/ (\A answer \in Answers : LegibleHeader(answer)) /\ v.listeners <= 1
  PROVE  \E i \in 1..Len(v.answers) : SaysSuccess(v.answers[i])
<1>1. /\ TalkTyped(v.listeners, v.answers, v.coming, v.buffer, v.verdict)
      /\ TalkOnce(v.listeners, v.answers, v.coming, v.buffer, v.verdict)
      /\ TalkOften(v.listeners, v.answers, v.coming, v.buffer, v.verdict)
  BY Zenon DEF Talks
<1>2. v.listeners \in Nat /\ v.answers \in Seq(Answers) /\ Len(v.answers) = v.listeners
  BY Zenon, <1>1 DEF TalkTyped
<1>3. 1 \in 1..Len(v.answers)
  BY <1>2
<1>4. v.answers[1] \in Answers
  BY Zenon, <1>2, <1>3, ElementOfSeq
<1>5. CASE \A answer \in Answers : PlainHeader(answer)
  <2>1. SaysSuccess(v.answers[1])
    BY Zenon, <1>1, <1>4, <1>5 DEF TalkOften
  <2> QED
    BY Zenon, <1>3, <2>1
<1>6. CASE (\A answer \in Answers : LegibleHeader(answer)) /\ v.listeners <= 1
  <2>1. v.listeners = 1
    BY <1>2, <1>6
  <2>2. SaysSuccess(v.answers[1])
    BY Zenon, <1>1, <1>4, <1>6, <2>1 DEF TalkOnce
  <2> QED
    BY Zenon, <1>3, <2>2
<1> QED
  BY Zenon, <1>5, <1>6

\* A piece of an answer: whom it settles the server has accepted or refused.
LEMMA DataTrusts ==
  ASSUME StartInv, TalkInv, TrustInv, NEW k \in 1..Len(clients), DataArrives(k)
  PROVE  TrustInv'
<1>1. PICK n, all :
        /\ HeardBy(k, n, all)
        /\ \/ clients' = all /\ UNCHANGED <<managers, call>>
           \/ /\ clients[k].verdict = "none" /\ all[k].verdict = "resolve"
              /\ Succeed(clients[k].promise, all)
           \/ /\ clients[k].verdict = "none" /\ all[k].verdict = "reject"
              /\ FailAfter(clients[k].promise, all)
  BY Zenon, DataIs
<1>2. Quiet(all) /\ clients[k].coming # <<>> /\ Typed /\ Placed /\ Promised /\ Apart
  BY Zenon, <1>1 DEF HeardBy, StartInv, TrustInv
<1>3. CASE clients' = all /\ UNCHANGED <<managers, call>>
  <2>1. Len(managers) \in Nat
    BY <1>2 DEF Typed
  <2>2. \A b \in 1..Len(managers) : ~ (b > Len(managers))
    BY <2>1
  <2>3. Len(managers) >= Len(managers)
    BY <2>1
  <2>4. Quiet(clients') /\ managers' = managers /\ call' = call
    BY Zenon, <1>2, <1>3
  <2>5. Rests
    BY Zenon, <2>1, <2>2, <2>3, <2>4 DEF Rests
  <2> QED
    BY Zenon, <2>5, RestTrusts
<1>4. PICK c \in Calls : c = clients[k].promise
  BY Zenon, <1>2 DEF Typed, IsClient
<1>5. ASSUME clients[k].verdict = "none"
      PROVE  /\ call[c].step = "binding" /\ call[c].client = k /\ Busy(c)
             /\ clients[k].of = call[c].on
  <2>1. call[c].step = "binding" /\ call[c].client = k
    BY Zenon, <1>2, <1>4, <1>5 DEF Promised
  <2>2. call[c].step \in Dialing /\ Busy(c)
    BY <2>1 DEF Busy, Working, Dialing
  <2> QED
    BY Zenon, <1>2, <2>1, <2>2 DEF Placed
<1>6. PICK a : a = call[c].on
  OBVIOUS
<1>7. CASE clients[k].verdict = "none" /\ FailAfter(clients[k].promise, all)
  <2>1. Leave(c, "AUTH_FAILED", "threw", TRUE, CloseField(a, all))
    BY Zenon, <1>4, <1>6, <1>7 DEF FailAfter
  <2>2. TRUE \in BOOLEAN
    OBVIOUS
  <2> QED
    BY Zenon, <1>2, <1>5, <1>6, <1>7, <2>1, <2>2, LeaveTrusts
<1>8. CASE /\ clients[k].verdict = "none" /\ all[k].verdict = "resolve"
           /\ Succeed(clients[k].promise, all)
  <2>1. Leave(c, "CONNECTED", "authenticated", FALSE, CloseField(a, all))
    BY Zenon, <1>4, <1>6, <1>8 DEF Succeed
  <2>2. FALSE \in BOOLEAN
    OBVIOUS
  <2>3. /\ Talks(all[k]) /\ all[k].listeners = clients[k].listeners
        /\ all[k].answers = clients[k].answers
    BY Zenon, <1>2 DEF Quiet
  <2>4. clients[k].listeners # 0
    BY Zenon, <1>2 DEF TalkInv, Talks, TalkTyped
  <2>5. ASSUME Sound(managers[a]) PROVE Trust(managers[a], Vouching(a))
    <3>1. ~ managers[clients[k].of].overlapped => clients[k].listeners <= 1
      BY Zenon, <1>2 DEF Apart
    <3>2. clients[k].of = a
      BY Zenon, <1>5, <1>6, <1>8
    <3>3. \/ \A answer \in Answers : PlainHeader(answer)
          \/ (\A answer \in Answers : LegibleHeader(answer)) /\ clients[k].listeners <= 1
      BY Zenon, <2>5, <3>1, <3>2 DEF Sound
    <3>4. \E i \in 1..Len(clients[k].answers) : SaysSuccess(clients[k].answers[i])
      <4>1. PICK v : v = all[k]
        OBVIOUS
      <4>2. \E i \in 1..Len(v.answers) : SaysSuccess(v.answers[i])
        BY Zenon, <1>8, <2>3, <2>4, <3>3, <4>1, HeardSuccess
      <4>3. v.answers = clients[k].answers
        BY Zenon, <2>3, <4>1
      <4> QED
        BY Zenon, <4>2, <4>3
    <3>5. Vouching(a)
      BY Zenon, <3>2, <3>4 DEF Vouching
    <3>6. managers[a].strategy = "ldap"
      <4>1. Suits(managers[a].strategy, "binding")
        BY Zenon, <1>5, <1>6, <1>8, WorkerKnows
      <4> QED
        BY <4>1 DEF Suits, Dialing
    <3> QED
      BY <3>5, <3>6 DEF Trust
  <2> QED
    BY Zenon, <1>2, <1>5, <1>6, <1>8, <2>1, <2>2, <2>5, LeaveTrusts
<1> QED
  BY Zenon, <1>1, <1>3, <1>7, <1>8

\* A lost connection says nothing.
LEMMA SocketLostTrusts ==
  ASSUME StartInv, TalkInv, TrustInv, NEW k \in 1..Len(clients), SocketLost(k)
  PROVE  TrustInv'
<1>1. /\ clients' = [clients EXCEPT ![k].socket = "lost"]
      /\ managers' = managers /\ call' = call
  BY Zenon DEF SocketLost
<1>2. Typed
  BY Zenon DEF StartInv
<1>3. Quiet(clients')
  BY Zenon, <1>1, <1>2, QuietSocket
<1>4. Len(managers) \in Nat /\ Len(managers) >= Len(managers)
      /\ \A b \in 1..Len(managers) : ~ (b > Len(managers))
  BY <1>2 DEF Typed
<1>5. Rests
  BY Zenon, <1>1, <1>3, <1>4 DEF Rests
<1> QED
  BY Zenon, <1>5, RestTrusts


\* A call that is replaced, and is not at work then.
LEMMA StopIs ==
  ASSUME Typed, NEW c \in Calls, NEW r, r.step \notin Working \ {"factory"},
         call' = [call EXCEPT ![c] = r]
  PROVE  \A d \in Calls : Busy(d)' => call'[d] = call[d]
<1>1. DOMAIN call = Calls
  BY DEF Typed
<1>2. ASSUME NEW d \in Calls, Busy(d)' PROVE call'[d] = call[d]
  <2>1. CASE d = c
    <3>1. call'[d] = r
      BY Zenon, <1>1, <2>1
    <3> QED
      BY <1>2, <3>1 DEF Busy
  <2>2. CASE d # c
    BY Zenon, <1>1, <2>2
  <2> QED
    BY Zenon, <2>1, <2>2
<1> QED
  BY Zenon, <1>2

\* A call that throws, or waits for its configuration, leaves the assemblies alone.
LEMMA StopTrusts ==
  ASSUME StartInv, TalkInv, TrustInv, managers' = managers, clients' = clients,
         \A d \in Calls : Busy(d)' => call'[d] = call[d]
  PROVE  TrustInv'
<1>1. Typed /\ Len(managers) \in Nat
  BY DEF StartInv, Typed
<1>2. Quiet(clients')
  <2>1. Quiet(clients)
    BY Zenon, <1>1, QuietItself
  <2> QED
    BY Zenon, <2>1
<1>3. Len(managers) >= Len(managers) /\ \A b \in 1..Len(managers) : ~ (b > Len(managers))
  BY <1>1
<1>4. Rests
  BY Zenon, <1>1, <1>2, <1>3 DEF Rests
<1> QED
  BY Zenon, <1>4, RestTrusts

\* So does one that throws.
LEMMA ThrowsTrusts ==
  ASSUME StartInv, TalkInv, TrustInv, NEW c \in Calls, NEW task, Throws(c, task),
         UNCHANGED <<managers, clients>>
  PROVE  TrustInv'
<1>1. PICK r : r = [Idle EXCEPT !.task = task, !.step = "threw"]
  OBVIOUS
<1>2. r.step \notin Working \ {"factory"} /\ Typed
  BY <1>1 DEF Idle, Working, StartInv
<1>3. call' = [call EXCEPT ![c] = r]
  BY Zenon, <1>1 DEF Throws
<1>4. managers' = managers /\ clients' = clients
  OBVIOUS
<1>5. \A d \in Calls : Busy(d)' => call'[d] = call[d]
  BY Zenon, <1>2, <1>3, StopIs
<1> QED
  BY Zenon, <1>4, <1>5, StopTrusts

\* forRootAsync() asks for its configuration, or throws.
LEMMA ForRootAsyncTrusts ==
  ASSUME StartInv, TalkInv, TrustInv, NEW c \in Calls, ForRootAsync(c)
  PROVE  TrustInv'
<1>1. managers' = managers /\ clients' = clients
  BY DEF ForRootAsync
<1>2. CASE Throws(c, "forRootAsync")
  BY Zenon, <1>1, <1>2, ThrowsTrusts
<1>3. CASE call' = [call EXCEPT ![c] =
                     [Idle EXCEPT !.task = "forRootAsync", !.step = "factory"]]
  <2>1. PICK r : r = [Idle EXCEPT !.task = "forRootAsync", !.step = "factory"]
    OBVIOUS
  <2>2. r.step \notin Working \ {"factory"} /\ Typed
    BY <2>1 DEF Idle, StartInv
  <2>3. call' = [call EXCEPT ![c] = r]
    BY Zenon, <1>3, <2>1
  <2>4. \A d \in Calls : Busy(d)' => call'[d] = call[d]
    BY Zenon, <2>2, <2>3, StopIs
  <2> QED
    BY Zenon, <1>1, <2>4, StopTrusts
<1> QED
  BY Zenon, <1>2, <1>3 DEF ForRootAsync

\* forRoot() makes an assembly that is not connected, or throws.
LEMMA ForRootTrusts ==
  ASSUME StartInv, TalkInv, TrustInv, NEW c \in Calls, ForRoot(c)
  PROVE  TrustInv'
<1>0. Typed /\ managers \in Seq(Manager) /\ DOMAIN call = Calls /\ clients' = clients
  BY DEF ForRoot, StartInv, Typed
<1>1. CASE Throws(c, "forRoot") /\ UNCHANGED managers
  BY Zenon, <1>0, <1>1, ThrowsTrusts
<1>2. CASE /\ \E given \in Credentials["password"] :
                managers' = Append(managers,
                  Assembly("module", "password", given, NoToken))
           /\ call' = [call EXCEPT ![c] =
                [Idle EXCEPT !.task = "forRoot", !.step = "returned", !.on = instance']]
  <2>1. PICK given \in Credentials["password"] :
          managers' = Append(managers, Assembly("module", "password", given, NoToken))
    BY Zenon, <1>2
  <2>2. PICK s : s = Assembly("module", "password", given, NoToken)
    OBVIOUS
  <2>3. s \in Manager /\ s.connectionState = "DISCONNECTED" /\ s.opened = "none"
    BY <2>1, <2>2, AssemblyIs DEF Strategy
  <2>4. /\ managers' \in Seq(Manager) /\ Len(managers') = Len(managers) + 1
        /\ \A j \in 1..(Len(managers) + 1) :
             managers'[j] = IF j = Len(managers) + 1 THEN s ELSE managers[j]
    <3>1. PICK t : t = managers'
      OBVIOUS
    <3>2. t = Append(managers, s)
      BY Zenon, <2>1, <2>2, <3>1
    <3>3. /\ t \in Seq(Manager) /\ Len(t) = Len(managers) + 1
          /\ \A j \in 1..(Len(managers) + 1) :
               t[j] = IF j = Len(managers) + 1 THEN s ELSE managers[j]
      BY <1>0, <2>3, <3>2, SeqAdd
    <3> QED
      BY Zenon, <3>1, <3>3
  <2>5. PICK n \in Nat : n = Len(managers)
    BY <1>0
  <2>6. Len(managers') \in Nat /\ Len(managers') >= Len(managers)
    BY <2>4, <2>5
  <2>7. \A b \in 1..Len(managers) : managers'[b] = managers[b]
    BY <2>4, <2>5
  <2>8. ASSUME NEW b \in 1..Len(managers'), b > Len(managers)
        PROVE  managers'[b].connectionState # "CONNECTED" /\ managers'[b].opened # "opened"
    <3>1. managers'[b] = s
      BY <2>4, <2>5, <2>8
    <3> QED
      BY <2>3, <3>1
  <2>9. PICK r : r = [Idle EXCEPT !.task = "forRoot", !.step = "returned", !.on = instance']
    OBVIOUS
  <2>10. r.step \notin Working \ {"factory"} /\ call' = [call EXCEPT ![c] = r]
    BY <1>2, <2>9 DEF Idle, Working
  <2>11. \A d \in Calls : Busy(d)' => call'[d] = call[d]
    BY Zenon, <1>0, <2>10, StopIs
  <2>12. Quiet(clients')
    BY Zenon, <1>0, QuietItself
  <2>13. Rests
    BY Zenon, <2>6, <2>7, <2>8, <2>11, <2>12 DEF Rests
  <2> QED
    BY Zenon, <2>13, RestTrusts
<1> QED
  BY Zenon, <1>1, <1>2 DEF ForRoot

\* The application assembles a pool manager.
LEMMA AssembleTrusts ==
  ASSUME StartInv, TalkInv, TrustInv, NEW c \in Calls, Assemble(c)
  PROVE  TrustInv'
<1>1. call[c].step \in {"idle", "factory"} /\ Len(managers) = 0 /\ "byHand" \in Task
  BY DEF Assemble, Begins, Task
<1>2. PICK strategy \in Strategy :
        \E given \in Credentials[strategy],
           token \in IF strategy = "jwt" THEN Tokens ELSE {NoToken} :
             Initialize(c, "byHand", Len(managers) + 1,
                        Assembly("byHand", strategy, given, token))
  BY Zenon DEF Assemble
<1>3. PICK given \in Credentials[strategy],
           token \in IF strategy = "jwt" THEN Tokens ELSE {NoToken} :
        Initialize(c, "byHand", Len(managers) + 1,
                   Assembly("byHand", strategy, given, token))
  BY Zenon, <1>2
<1>4. PICK m : m = Assembly("byHand", strategy, given, token)
  OBVIOUS
<1>5. token \in Tokens \cup {NoToken}
  OBVIOUS
<1>6. /\ m \in Manager /\ m.connectionState = "DISCONNECTED" /\ m.opened = "none"
      /\ m.ldapClient = NoClient
  BY <1>3, <1>4, <1>5, AssemblyIs
<1>7. PICK a \in 1..(Len(managers) + 1) : a = Len(managers) + 1 /\ ~ (a <= Len(managers))
  BY <1>1
<1>8. Initialize(c, "byHand", a, m)
  BY Zenon, <1>3, <1>4, <1>7
<1> QED
  BY Zenon, <1>1, <1>6, <1>7, <1>8, BeginTrusts

\* The application initialises a pool manager again.
LEMMA InitAgainTrusts ==
  ASSUME StartInv, TalkInv, TrustInv, NEW c \in Calls, InitAgain(c)
  PROVE  TrustInv'
<1>1. call[c].step \in {"idle", "factory"} /\ "byHand" \in Task /\ Typed
  BY DEF InitAgain, Begins, Task, StartInv
<1>2. PICK a \in 1..Len(managers) : Initialize(c, "byHand", a, managers[a])
  BY Zenon DEF InitAgain
<1>3. PICK m : m = managers[a]
  OBVIOUS
<1>4. a \in 1..(Len(managers) + 1) /\ a <= Len(managers) /\ m \in Manager
  BY <1>1, <1>2, <1>3 DEF Typed
<1>5. Initialize(c, "byHand", a, m)
  BY Zenon, <1>2, <1>3
<1> QED
  BY Zenon, <1>1, <1>3, <1>4, <1>5, BeginTrusts

\* forRootAsync() has its configuration.
LEMMA ConstructTrusts ==
  ASSUME StartInv, TalkInv, TrustInv, NEW c \in Calls, Construct(c)
  PROVE  TrustInv'
<1>1. call[c].step \in {"idle", "factory"} /\ "forRootAsync" \in Task /\ Typed
  BY DEF Construct, Task, StartInv
<1>2. PICK given \in Credentials["password"] :
        Initialize(c, "forRootAsync", Len(managers) + 1,
                   Assembly("module", "password", given, NoToken))
  BY Zenon DEF Construct
<1>3. PICK m : m = Assembly("module", "password", given, NoToken)
  OBVIOUS
<1>4. "password" \in Strategy
  BY DEF Strategy
<1>5. /\ m \in Manager /\ m.connectionState = "DISCONNECTED" /\ m.opened = "none"
      /\ m.ldapClient = NoClient
  BY <1>2, <1>3, <1>4, AssemblyIs
<1>6. PICK a \in 1..(Len(managers) + 1) : a = Len(managers) + 1 /\ ~ (a <= Len(managers))
  <2>1. PICK n \in Nat : n = Len(managers)
    BY <1>1 DEF Typed
  <2>2. n + 1 \in 1..(n + 1) /\ ~ (n + 1 <= n)
    OBVIOUS
  <2> QED
    BY Zenon, <2>1, <2>2
<1>7. Initialize(c, "forRootAsync", a, m)
  BY Zenon, <1>2, <1>3, <1>6
<1> QED
  BY Zenon, <1>1, <1>5, <1>6, <1>7, BeginTrusts

\* At first there is no assembly.
LEMMA TrustInit == Init => TrustInv
<1> SUFFICES ASSUME Init PROVE TrustInv
  OBVIOUS
<1>1. Len(managers) = 0 /\ Len(clients) = 0 /\ \A c \in Calls : call[c].step = "idle"
  BY DEF Init, InitAuthentication, Idle
<1>2. \A c \in Calls : ~ Busy(c) /\ call[c].step \notin Dialing
  BY <1>1 DEF Busy, Working, Dialing
<1>3. Backed
  BY <1>1, <1>2 DEF Backed
<1>4. Apart
  BY <1>1, <1>2 DEF Apart
<1> QED
  BY <1>3, <1>4 DEF TrustInv

\* Every step keeps it.
LEMMA TrustNext == StartInv /\ TalkInv /\ TrustInv /\ [Next]_vars => TrustInv'
<1> SUFFICES ASSUME StartInv, TalkInv, TrustInv, [Next]_vars PROVE TrustInv'
  OBVIOUS
<1>1. ASSUME NEW c \in Calls, AuthenticationStep(c) PROVE TrustInv'
  <2>1. ASSUME Fail(c), Busy(c) PROVE TrustInv'
    BY Zenon, <2>1, FailTrusts
  <2>2. CASE Which(c)
    <3>1. Busy(c) /\ call[c].step \in {"which", "keytab"}
      BY <2>2 DEF Which, Busy, Working
    <3>2. CASE Goes(c, IF "krbKeytab" \in managers[call[c].on].given THEN "keytab"
                                                                   ELSE "kinit")
      <4>1. PICK to \in {"keytab", "kinit"} : Goes(c, to)
        BY <3>2
      <4> QED
        BY Zenon, <3>1, <4>1, GoesTrusts
    <3> QED
      BY Zenon, <2>1, <2>2, <3>1, <3>2 DEF Which
  <2>3. CASE CheckKeytab(c)
    <3>1. Busy(c) /\ call[c].step \in {"which", "keytab"} /\ "kinit" \in {"keytab", "kinit"}
      BY <2>3 DEF CheckKeytab, Busy, Working
    <3> QED
      BY Zenon, <2>1, <2>3, <3>1, GoesTrusts DEF CheckKeytab
  <2>4. CASE AcquireKerberosTicket(c)
    BY Zenon, <2>4, KinitTrusts
  <2>5. CASE ValidateTicket(c)
    BY Zenon, <2>5, KlistTrusts
  <2>6. CASE Connected(c)
    BY Zenon, <2>6, ConnectedTrusts
  <2>7. CASE ConnectFails(c) \/ BindNothing(c)
    <3>1. Busy(c) /\ Fail(c)
      BY <2>7 DEF ConnectFails, BindNothing, Busy, Working
    <3> QED
      BY Zenon, <2>1, <3>1
  <2>8. CASE Bind(c)
    BY Zenon, <2>8, BindTrusts
  <2>9. CASE CreatePool(c)
    BY Zenon, <2>9, CreatePoolTrusts
  <2> QED
    BY Zenon, <1>1, <2>2, <2>3, <2>4, <2>5, <2>6, <2>7, <2>8, <2>9 DEF AuthenticationStep
<1>2. ASSUME NEW c \in Calls, FactoryFails(c) PROVE TrustInv'
  BY Zenon, <1>2, ThrowsTrusts DEF FactoryFails
<1>3. ASSUME NEW c \in Calls, OwnStep(c) \/ ForRoot(c) \/ ForRootAsync(c) PROVE TrustInv'
  BY Zenon, <1>1, <1>2, <1>3, ConstructTrusts, ClientInitTrusts, MigrateTrusts,
     ForRootTrusts, ForRootAsyncTrusts DEF OwnStep
<1>4. ASSUME NEW c \in Calls, Assemble(c) \/ InitAgain(c) PROVE TrustInv'
  BY Zenon, <1>4, AssembleTrusts, InitAgainTrusts
<1>5. CASE NetworkStep
  BY Zenon, <1>5, DataTrusts, SocketLostTrusts DEF NetworkStep
<1>6. CASE UNCHANGED vars
  <2>1. managers' = managers /\ clients' = clients /\ call' = call
    BY <1>6 DEF vars, authVars
  <2>2. Typed /\ Len(managers) \in Nat
    BY DEF StartInv, Typed
  <2>3. Len(managers) >= Len(managers) /\ \A b \in 1..Len(managers) : ~ (b > Len(managers))
    BY <2>2
  <2>4. Quiet(clients)
    BY Zenon, <2>2, QuietItself
  <2>5. Rests
    BY Zenon, <2>1, <2>2, <2>3, <2>4 DEF Rests
  <2> QED
    BY Zenon, <2>5, RestTrusts
<1> QED
  BY Zenon, <1>3, <1>4, <1>5, <1>6 DEF Next


\* What every reachable state satisfies of who has vouched for whom.
THEOREM TrustInvariant == Spec => [](StartInv /\ TalkInv /\ TrustInv)
<1>1. Init => StartInv /\ TalkInv /\ TrustInv
  BY StartInit, TalkInit, TrustInit
<1>2. StartInv /\ TalkInv /\ TrustInv /\ [Next]_vars => StartInv' /\ TalkInv' /\ TrustInv'
  BY StartNext, TalkNext, TrustNext
<1>3. QED
  BY <1>1, <1>2, PTL DEF Spec

\* Vouch and Trust say of an assembly what VouchedFor says.
LEMMA VouchIs ==
  ASSUME NEW a, managers[a].strategy \in Strategy, Vouch(managers[a], Vouching(a))
  PROVE  VouchedFor(a)
<1>1. CASE managers[a].strategy = "ldap"
  BY <1>1 DEF Vouch, Trust, Vouching, VouchedFor
<1>2. CASE managers[a].strategy = "kerberos"
  BY <1>2 DEF Vouch, Trust, VouchedFor
<1>3. CASE managers[a].strategy = "jwt"
  BY <1>3 DEF Vouch, VouchedFor
<1>4. CASE managers[a].strategy = "password"
  BY <1>4 DEF Vouch, Trust, VouchedFor
<1> QED
  BY <1>1, <1>2, <1>3, <1>4 DEF Strategy

\* The connections of an assembly that is sound are opened on behalf of a user
\* somebody has vouched for.
SoundVouched ==
  \A a \in 1..Len(managers) :
    managers[a].opened = "opened" /\ Sound(managers[a]) => VouchedFor(a)

\* The inductive invariant says so.
LEMMA OpenedIsVouched == StartInv /\ TrustInv => SoundVouched
<1> SUFFICES ASSUME StartInv, TrustInv, NEW a \in 1..Len(managers),
                    managers[a].opened = "opened", Sound(managers[a])
             PROVE  VouchedFor(a)
  BY Zenon DEF SoundVouched
<1>1. managers[a].strategy \in Strategy
  <2>1. managers[a] \in Manager
    BY DEF StartInv, Typed
  <2> QED
    BY <2>1 DEF Manager
<1>2. Vouch(managers[a], Vouching(a))
  BY Zenon DEF TrustInv, Backed, Grounded
<1> QED
  BY Zenon, <1>1, <1>2, VouchIs

\* No connection is opened on behalf of a user nobody has vouched for, as long as
\* no zero stands in the header of an answer of the LDAP server: the client then
\* takes no byte of a refusal for a success, however many calls bind() on it at once.
THEOREM UsersAreVouched ==
  ASSUME \A answer \in Answers : PlainHeader(answer)
  PROVE  Spec => []Vouched
<1>1. SoundVouched => Vouched
  BY DEF SoundVouched, Vouched, Sound
<1>2. QED
  BY <1>1, OpenedIsVouched, TrustInvariant, PTL

\* The same of an assembly that no two calls have initialised at once.
VouchedAlone ==
  \A a \in 1..Len(managers) :
    managers[a].opened = "opened" /\ ~ managers[a].overlapped => VouchedFor(a)

\* Of an assembly that one call at a time initialises, it is enough that no byte
\* 0x0A of a header has a zero two bytes behind it, as in every answer shorter than
\* 655360 bytes.
THEOREM VouchedWhenAlone ==
  ASSUME \A answer \in Answers : LegibleHeader(answer)
  PROVE  Spec => []VouchedAlone
<1>1. SoundVouched => VouchedAlone
  BY DEF SoundVouched, VouchedAlone, Sound
<1>2. QED
  BY <1>1, OpenedIsVouched, TrustInvariant, PTL

=============================================================================
