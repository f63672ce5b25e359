---------------------------- MODULE Models_proofs ----------------------------
(***************************************************************************)
(* The models, their registration and what they send, together with the      *)
(* Schema below them: whatever is registered, set up and called, for any      *)
(* entities, registrations, class bodies and calls.                          *)
(***************************************************************************)
EXTENDS Models, Schema_proofs

-----------------------------------------------------------------------------
(* What holds of the Schema                                                *)

\* The types of the metadata, its keys, and how far the finalisation has come.
SchemaInv == SchemaTypeOK /\ KeysAreColumns /\ FinalizeInv

\* A step of the program is one of the Schema, or leaves it alone and may count a call.
LEMMA SchemaOrNot ==
  ASSUME [Next]_vars
  PROVE  \/ SchemaNext /\ sent' = Nothing /\ UNCHANGED <<modelVars, useVars>>
         \/ UNCHANGED schemaVars /\ (calls' = calls \/ (calls < MaxCalls /\ calls' = calls + 1))
<1>1. ASSUME Use PROVE UNCHANGED schemaVars
  BY Zenon, <1>1 DEF Use, RegisterEntities, SetEntity, ModelStep, BuilderStep, Execute
<1> QED
  BY Zenon, <1>1 DEF Next, PageArrived, vars

\* What is said of the Schema stays true when only calls are counted.
LEMMA SchemaUnchanged ==
  ASSUME SchemaInv, UNCHANGED schemaVars,
         calls' = calls \/ (calls < MaxCalls /\ calls' = calls + 1)
  PROVE  SchemaInv'
<1>1. /\ meta' = meta /\ tableNamed' = tableNamed /\ handlerEntity' = handlerEntity
      /\ microtasks' = microtasks /\ final' = final /\ changed' = changed /\ moved' = moved
  BY DEF schemaVars
<1>2. calls' \in 0..MaxCalls
  BY SchemaAssumption DEF SchemaInv, SchemaTypeOK
<1>3. SchemaTypeOK'
  BY Zenon, <1>1, <1>2 DEF SchemaInv, SchemaTypeOK
<1>4. KeysAreColumns'
  BY Zenon, <1>1 DEF SchemaInv, KeysAreColumns
<1>5. FinalizeInv'
  BY Zenon, <1>1 DEF SchemaInv, FinalizeInv, Settled, Checked
<1> QED
  BY <1>3, <1>4, <1>5 DEF SchemaInv

\* Types, keys and finalisation, in every reachable state.
LEMMA SchemaInvariant == Spec => []SchemaInv
<1>1. Init => SchemaInv
  BY SchemaInitially DEF Init, SchemaInv
<1>2. ASSUME SchemaInv, [Next]_vars PROVE SchemaInv'
  <2>1. CASE SchemaNext
    BY <1>2, <2>1, SchemaStepTypes, FinalizeStep DEF SchemaInv
  <2>2. CASE UNCHANGED schemaVars /\ (calls' = calls \/ (calls < MaxCalls /\ calls' = calls + 1))
    BY <1>2, <2>2, SchemaUnchanged
  <2> QED
    BY <1>2, <2>1, <2>2, SchemaOrNot
<1> QED
  BY <1>1, <1>2, PTL DEF Spec

\* Whatever decorators and calls have made the metadata of a class, in whatever order,
\* every primary key is of a column, unless a column of the class was removed or given
\* another property.
THEOREM KeysStayOnColumns == Spec => []KeysAreColumns
<1>1. SchemaInv => KeysAreColumns
  BY DEF SchemaInv
<1> QED
  BY <1>1, SchemaInvariant, PTL

\* A finalizeSchema() that has succeeded has left every entity that has not changed since it
\* was validated with a table name and a key, and exactly one column of the entity is called
\* by each property of the key.
THEOREM FinalizedSchemaIsUsable == Spec => []FinalizedIsUsable
<1>1. SchemaInv => FinalizedIsUsable
  BY FinalizedUsable DEF SchemaInv
<1> QED
  BY <1>1, SchemaInvariant, PTL

\* removeColumn() undoes addColumn(), whatever the flags among its options, where nothing
\* was about the property before.
THEOREM RemovalUndone == Spec => []RemovalUndoesAddition
<1>1. SchemaInv => RemovalUndoesAddition
  BY RemovalUndoes DEF SchemaInv
<1> QED
  BY <1>1, SchemaInvariant, PTL

\* A call that waited behind its await changes its own entity, not the one another call
\* has set on the shared handler meanwhile.
THEOREM HandlersHitTheirEntity == Spec => CallsHitTheirEntity
<1>1. ASSUME SchemaInv, [Next]_vars
      PROVE  [\A e \in Entities : meta'[e] # meta[e] /\ Len(microtasks') < Len(microtasks)
                => e = Head(microtasks).entity]_<<schemaVars, calls>>
  <2>1. CASE SchemaNext
    BY Zenon, <1>1, <2>1, StepHitsItsEntity DEF SchemaInv
  <2>2. CASE UNCHANGED schemaVars
    <3>1. meta' = meta
      BY <2>2 DEF schemaVars
    <3> QED
      BY Zenon, <3>1
  <2> QED
    BY <1>1, <2>1, <2>2, SchemaOrNot
<1> QED
  BY <1>1, SchemaInvariant, PTL DEF Spec, CallsHitTheirEntity

\* A step takes entries of one property from the lists of an entity, or empties one list.
THEOREM OnePropertyRemoved == Spec => RemovesOneProperty
<1>1. ASSUME SchemaInv, [Next]_vars
      PROVE  [\A e \in Entities : meta'[e] # meta[e] =>
                \/ Cardinality(Lost(e)) <= 1
                \/ \E l \in ListNames : meta'[e] = [meta[e] EXCEPT ![l] = <<>>]]_<<schemaVars, calls>>
  <2>1. CASE SchemaNext
    BY Zenon, <1>1, <2>1, StepRemovesOne DEF SchemaInv
  <2>2. CASE UNCHANGED schemaVars
    <3>1. meta' = meta
      BY <2>2 DEF schemaVars
    <3> QED
      BY Zenon, <3>1
  <2> QED
    BY <1>1, <2>1, <2>2, SchemaOrNot
<1> QED
  BY <1>1, SchemaInvariant, PTL DEF Spec, RemovesOneProperty

-----------------------------------------------------------------------------
(* Registrations, and whose entity is current                               *)

\* A model is known to the registry when it has an entity; the first model of a
\* registration is never refused, so a list that was registered has it; the entity that
\* is current in a Schema is that of the model that was set up last; and what is being
\* sent is on the table that is current in the model's Schema.
ModelsInv ==
  /\ current \in [Ids -> Entities \cup {NoEntity}]
  /\ \A f \in Ids : current[f] \in ToSet(Features[f]) \cup {NoEntity}
  /\ setter \in [Ids -> Entities \cup {NoEntity}]
  /\ schemaOf \in [Entities -> Ids \cup {0}]
  /\ modelEntity \in [Entities -> Entities \cup {NoEntity}]
  /\ page \subseteq Entities /\ \A m \in page : schemaOf[m] # 0
  /\ \A e \in Entities : modelEntity[e] # NoEntity <=> schemaOf[e] # 0
  /\ \A m \in Entities : schemaOf[m] # 0 => schemaOf[Features[schemaOf[m]][1]] # 0
  /\ \A m \in Entities : schemaOf[m] # 0 /\ setter[schemaOf[m]] = m
                           => current[schemaOf[m]] = modelEntity[m]
  /\ sent.model # NoEntity =>
       /\ sent.model \in Entities /\ schemaOf[sent.model] # 0
       /\ sent.table = current[schemaOf[sent.model]]

\* The lists of entities.
LEMMA FeatureLists ==
  /\ 0 \notin Ids
  /\ \A f \in Ids : /\ Features[f] \in Seq(Entities)
                    /\ Len(Features[f]) \in Nat \ {0}
                    /\ DOMAIN Features[f] = 1..Len(Features[f])
                    /\ \A i \in 1..Len(Features[f]) : Features[f][i] \in Entities
<1>1. Ids = 1..Len(Features) /\ Len(Features) \in Nat
  BY FeaturesAssumption, LenProperties DEF Ids
<1>2. ASSUME NEW f \in Ids
      PROVE  /\ Features[f] \in Seq(Entities) /\ Len(Features[f]) \in Nat \ {0}
             /\ DOMAIN Features[f] = 1..Len(Features[f])
             /\ \A i \in 1..Len(Features[f]) : Features[f][i] \in Entities
  <2>1. Features[f] \in Seq(Entities) /\ Features[f] # <<>>
    BY <1>1, FeaturesAssumption, ElementOfSeq DEF Ids
  <2> QED
    BY <2>1, LenProperties, ElementOfSeq, EmptySeq
<1> QED
  BY <1>1, <1>2

\* The entities that are registered were not, and the one behind them, if there is one,
\* was or is among them.
LEMMA FreshEntities ==
  ASSUME NEW list, Len(list) \in Nat \ {0}, DOMAIN list = 1..Len(list)
  PROVE  /\ Fresh(list) \in 0..Len(list)
         /\ \A i \in 1..Fresh(list) : i \in 1..Len(list) /\ schemaOf[list[i]] = 0
         /\ Fresh(list) < Len(list) => \/ schemaOf[list[Fresh(list) + 1]] # 0
                                       \/ list[Fresh(list) + 1] \in Registered(list)
<1> DEFINE n == Fresh(list)
           r == Refused(list)
<1>1. r \subseteq 1..Len(list)
  BY DEF Refused
<1>2. \A i \in 1..Len(list) : i \notin r => schemaOf[list[i]] = 0
  BY DEF Refused
<1>3. \A i \in r : schemaOf[list[i]] # 0 \/ \E j \in 1..(i - 1) : list[j] = list[i]
  BY DEF Refused
<1>4. n = IF r = {} THEN Len(list) ELSE Min(r) - 1
  BY DEF Fresh
<1> HIDE DEF r
<1>5. CASE r = {}
  <2>1. n = Len(list)
    BY <1>4, <1>5
  <2> HIDE DEF n
  <2>2. n \in 0..Len(list) /\ ~(n < Len(list)) /\ \A i \in 1..n : i \in 1..Len(list)
    BY <2>1
  <2> QED
    BY <1>2, <1>5, <2>2 DEF n
<1>6. CASE r # {}
  <2>1. r \subseteq Nat
    BY <1>1
  <2>2. Min(r) \in r /\ \A i \in r : Min(r) <= i
    BY Zenon, <1>6, <2>1, MinOfNumbers
  <2>3. n = Min(r) - 1
    BY <1>4, <1>6
  <2> HIDE DEF n
  <2>4. n \in 0..Len(list) /\ n + 1 = Min(r) /\ n + 1 \in r /\ (n + 1) - 1 = n
        /\ \A i \in 1..n : i \in 1..Len(list) /\ i \notin r
    <3>1. Min(r) \in 1..Len(list)
      BY <1>1, <2>2
    <3>2. n + 1 = Min(r) /\ (n + 1) - 1 = n /\ n \in 0..Len(list)
      BY <2>3, <3>1
    <3>3. \A i \in 1..n : i \in 1..Len(list) /\ ~(Min(r) <= i)
      BY <2>3, <3>1
    <3> QED
      BY <2>2, <3>2, <3>3
  <2>5. schemaOf[list[n + 1]] # 0 \/ \E j \in 1..n : list[j] = list[n + 1]
    BY <1>3, <2>4
  <2>6. (\E j \in 1..n : list[j] = list[n + 1]) => list[n + 1] \in Registered(list)
    BY Zenon DEF Registered, n
  <2> QED
    BY <1>2, <2>4, <2>5, <2>6 DEF n
<1> QED
  BY <1>5, <1>6

\* The facts about a registration that the invariants need.
LEMMA RegistrationFacts ==
  ASSUME ModelsInv, NEW f \in Ids, RegisterEntities(f)
  PROVE  LET list == Features[f]
             last == current'[f]
         IN  /\ Registered(list) \subseteq Entities /\ list[1] \in Registered(list)
             /\ \A e \in Registered(list) : schemaOf[e] = 0
             /\ last \in ToSet(list) /\ last \in Entities
             /\ last \in Registered(list) \/ schemaOf[last] # 0
             /\ current' = [current EXCEPT ![f] = last]
             /\ setter' = [setter EXCEPT ![f] = last]
             /\ \A e \in Entities : schemaOf[e] # f
<1> DEFINE list == Features[f]
           n    == Fresh(list)
           k    == IF n < Len(list) THEN n + 1 ELSE n
<1>1. /\ n > 0 /\ current' = [current EXCEPT ![f] = list[k]]
      /\ setter' = [setter EXCEPT ![f] = list[k]]
  BY Zenon DEF RegisterEntities
<1>2. /\ Len(list) \in Nat \ {0} /\ DOMAIN list = 1..Len(list)
      /\ \A i \in 1..Len(list) : list[i] \in Entities
  BY Zenon, FeatureLists
<1>3. /\ n \in 0..Len(list)
      /\ \A i \in 1..n : i \in 1..Len(list) /\ schemaOf[list[i]] = 0
      /\ n < Len(list) => schemaOf[list[n + 1]] # 0 \/ list[n + 1] \in Registered(list)
  BY Zenon, <1>2, FreshEntities
<1>4. Registered(list) = {list[i] : i \in 1..n}
  BY Zenon DEF Registered
<1>5. current'[f] = list[k]
  BY <1>1 DEF ModelsInv
<1> HIDE DEF n, list
<1>6. Registered(list) \subseteq Entities /\ \A e \in Registered(list) : schemaOf[e] = 0
  BY <1>2, <1>3, <1>4
<1>7. 1 \in 1..n /\ k \in 1..Len(list)
  BY <1>1, <1>2, <1>3
<1>8. list[1] \in Registered(list) /\ schemaOf[list[1]] = 0
  BY <1>3, <1>4, <1>7
<1>9. list[k] \in ToSet(list) /\ list[k] \in Entities
  BY <1>2, <1>7 DEF ToSet
<1>10. list[k] \in Registered(list) \/ schemaOf[list[k]] # 0
  <2>1. CASE n < Len(list)
    BY <1>3, <2>1
  <2>2. CASE ~(n < Len(list))
    <3>1. k = n /\ n \in 1..n
      BY <1>2, <1>3, <1>7, <2>2
    <3> QED
      BY <1>4, <3>1
  <2> QED
    BY <2>1, <2>2
<1>11. \A e \in Entities : schemaOf[e] # f
  <2>1. f # 0
    BY FeatureLists
  <2>2. \A e \in Entities : schemaOf[e] = f => schemaOf[list[1]] # 0
    BY Zenon, <2>1 DEF ModelsInv, list
  <2> QED
    BY Zenon, <1>8, <2>2
<1> HIDE DEF k
<1> QED
  BY Zenon, <1>1, <1>5, <1>6, <1>8, <1>9, <1>10, <1>11 DEF list

\* At first no model is known and nothing is sent.
LEMMA ModelsInitially == Init => ModelsInv
<1> SUFFICES ASSUME Init PROVE ModelsInv
  OBVIOUS
<1>1. /\ current = [f \in Ids |-> NoEntity] /\ setter = [f \in Ids |-> NoEntity]
      /\ schemaOf = [e \in Entities |-> 0] /\ modelEntity = [e \in Entities |-> NoEntity]
      /\ page = {}
  BY Zenon DEF Init
<1>2. sent.model = NoEntity
  BY DEF Init, Nothing, Statement
<1> QED
  BY <1>1, <1>2 DEF ModelsInv

\* What is said of the models stays true when they are left alone and nothing is sent.
LEMMA ModelsAloneQuiet ==
  ASSUME ModelsInv, UNCHANGED modelVars, sent'.model = NoEntity, UNCHANGED page
  PROVE  ModelsInv'
<1>1. /\ current' = current /\ setter' = setter /\ schemaOf' = schemaOf
      /\ modelEntity' = modelEntity
  BY DEF modelVars
<1> QED
  BY Zenon, <1>1 DEF ModelsInv

\* A model that is known sends a statement on the table that is current in its Schema.
LEMMA ModelSends ==
  ASSUME ModelsInv, UNCHANGED modelVars, NEW m \in Entities, schemaOf[m] # 0,
         NEW op, NEW marks, NEW values, Send(m, op, marks, values),
           page' \subseteq page \cup {m}
  PROVE  ModelsInv'
<1>1. /\ current' = current /\ setter' = setter /\ schemaOf' = schemaOf
      /\ modelEntity' = modelEntity
  BY DEF modelVars
<1>2. sent'.model = m /\ sent'.table = current[schemaOf[m]]
  BY DEF Send, Statement, CurrentOf
<1>3. page' \subseteq Entities /\ \A x \in page' : schemaOf[x] # 0
  BY DEF ModelsInv
<1> QED
  BY Zenon, <1>1, <1>2, <1>3 DEF ModelsInv

\* Every operation of a model sends one statement.
LEMMA ModelOperations ==
  ASSUME NEW m \in Entities, ModelStep(m)
  PROVE  /\ schemaOf[m] # 0 /\ UNCHANGED modelVars /\ page' \subseteq page \cup {m}
         /\ \E op, marks, values : Send(m, op, marks, values)
<1>1. ASSUME NEW query, NEW data,
             \/ Save(m) \/ Find(m, query) \/ Update(m, data, query)
             \/ Delete(m, query) \/ SoftDelete(m, query) \/ FindWithConditions(m, query)
      PROVE  \E op, marks, values : Send(m, op, marks, values)
  BY Zenon, <1>1 DEF Save, Find, Update, Delete, SoftDelete, FindWithConditions, FromBuilder
<1>2. ASSUME NEW query, FindPaginated(m, query)
      PROVE  /\ page' = page \cup {m}
             /\ \E op, marks, values : Send(m, op, marks, values)
  BY Zenon, <1>2 DEF FindPaginated, FromBuilder
<1> QED
  BY Zenon, <1>1, <1>2 DEF ModelStep

\* A registration keeps what is said of the models.
LEMMA RegistrationStep ==
  ASSUME ModelsInv, NEW f \in Ids, RegisterEntities(f)
  PROVE  ModelsInv'
<1> DEFINE list == Features[f]
<1>1. PICK last : last = current'[f]
  OBVIOUS
<1>2. PICK new : new = Registered(list)
  OBVIOUS
<1>3. /\ new \subseteq Entities /\ list[1] \in new /\ \A e \in new : schemaOf[e] = 0
      /\ last \in ToSet(list) /\ last \in Entities /\ (last \in new \/ schemaOf[last] # 0)
      /\ current' = [current EXCEPT ![f] = last] /\ setter' = [setter EXCEPT ![f] = last]
      /\ \A e \in Entities : schemaOf[e] # f
  BY Zenon, <1>1, <1>2, RegistrationFacts
<1>4. /\ schemaOf' = [e \in Entities |-> IF e \in new THEN f ELSE schemaOf[e]]
      /\ modelEntity' = [e \in Entities |-> IF e \in new THEN e ELSE modelEntity[e]]
      /\ sent' = Nothing /\ page' = page
  BY Zenon, <1>2 DEF RegisterEntities, useVars
<1>5. sent'.model = NoEntity
  BY <1>4 DEF Nothing, Statement
<1>6. f # 0 /\ NoEntity \notin Entities
  BY FeatureLists, SchemaAssumption
<1> HIDE DEF list
<1>7. /\ current' \in [Ids -> Entities \cup {NoEntity}]
      /\ setter' \in [Ids -> Entities \cup {NoEntity}]
      /\ schemaOf' \in [Entities -> Ids \cup {0}]
      /\ modelEntity' \in [Entities -> Entities \cup {NoEntity}]
  BY <1>3, <1>4 DEF ModelsInv
<1>8. \A g \in Ids : current'[g] \in ToSet(Features[g]) \cup {NoEntity}
  BY <1>3 DEF ModelsInv, list
<1>9. page' \subseteq Entities /\ \A m \in page' : schemaOf'[m] # 0
  BY <1>4, <1>6 DEF ModelsInv
<1>10. \A e \in Entities : modelEntity'[e] # NoEntity <=> schemaOf'[e] # 0
  BY <1>4, <1>6 DEF ModelsInv
<1>11. ASSUME NEW m \in Entities, schemaOf'[m] # 0
       PROVE  schemaOf'[Features[schemaOf'[m]][1]] # 0
  <2>1. CASE m \in new
    <3>1. schemaOf'[m] = f /\ schemaOf'[list[1]] = f
      BY <1>3, <1>4, <2>1
    <3> QED
      BY <1>6, <3>1 DEF list
  <2>2. CASE m \notin new
    <3>1. schemaOf'[m] = schemaOf[m] /\ schemaOf[m] \in Ids
      BY <1>4, <1>11, <2>2 DEF ModelsInv
    <3>2. /\ schemaOf[Features[schemaOf[m]][1]] # 0
          /\ Features[schemaOf[m]][1] \in Entities
      BY <1>11, <3>1, FeatureLists DEF ModelsInv
    <3>3. schemaOf'[Features[schemaOf[m]][1]] = schemaOf[Features[schemaOf[m]][1]]
      BY <1>3, <1>4, <3>2
    <3> QED
      BY <3>1, <3>2, <3>3
  <2> QED
    BY <2>1, <2>2
<1>12. ASSUME NEW m \in Entities, schemaOf'[m] # 0, setter'[schemaOf'[m]] = m
       PROVE  current'[schemaOf'[m]] = modelEntity'[m]
  <2>1. CASE m \in new
    BY <1>3, <1>4, <1>12, <2>1 DEF ModelsInv
  <2>2. CASE m \notin new
    <3>1. schemaOf'[m] = schemaOf[m] /\ modelEntity'[m] = modelEntity[m] /\ schemaOf[m] # f
      BY <1>3, <1>4, <2>2
    <3>2. setter'[schemaOf[m]] = setter[schemaOf[m]] /\ current'[schemaOf[m]] = current[schemaOf[m]]
      BY <1>3, <3>1 DEF ModelsInv
    <3> QED
      BY Zenon, <1>12, <3>1, <3>2 DEF ModelsInv
  <2> QED
    BY <2>1, <2>2
<1> QED
  BY Zenon, <1>5, <1>7, <1>8, <1>9, <1>10, <1>11, <1>12 DEF ModelsInv

\* Setting another entity for a model keeps what is said of the models.
LEMMA SetEntityStep ==
  ASSUME ModelsInv, NEW m \in Entities, NEW e \in Entities, SetEntity(m, e)
  PROVE  ModelsInv'
<1>1. PICK g \in Ids : g = schemaOf[m]
  BY DEF ModelsInv, SetEntity
<1>2. /\ g # 0 /\ e \in ToSet(Features[g]) /\ e # NoEntity
      /\ current' = [current EXCEPT ![g] = e] /\ setter' = [setter EXCEPT ![g] = m]
      /\ modelEntity' = [modelEntity EXCEPT ![m] = e]
      /\ schemaOf' = schemaOf /\ page' = page /\ sent' = Nothing
  BY <1>1, SchemaAssumption DEF SetEntity, useVars
<1>3. sent'.model = NoEntity
  BY <1>2 DEF Nothing, Statement
<1>4. /\ current' \in [Ids -> Entities \cup {NoEntity}]
      /\ setter' \in [Ids -> Entities \cup {NoEntity}]
      /\ modelEntity' \in [Entities -> Entities \cup {NoEntity}]
  BY <1>2 DEF ModelsInv
<1>5. \A h \in Ids : current'[h] \in ToSet(Features[h]) \cup {NoEntity}
  BY <1>2 DEF ModelsInv
<1>6. \A x \in Entities : modelEntity'[x] # NoEntity <=> schemaOf'[x] # 0
  BY <1>1, <1>2 DEF ModelsInv
<1>7. ASSUME NEW x \in Entities, schemaOf[x] # 0, setter'[schemaOf[x]] = x
      PROVE  current'[schemaOf[x]] = modelEntity'[x]
  <2>1. CASE x = m
    BY <1>1, <1>2, <2>1 DEF ModelsInv
  <2>2. CASE x # m
    <3>1. schemaOf[x] \in Ids /\ schemaOf[x] # g
      BY <1>2, <1>7, <2>2 DEF ModelsInv
    <3> QED
      BY <1>2, <1>7, <2>2, <3>1 DEF ModelsInv
  <2> QED
    BY <2>1, <2>2
<1>8. /\ schemaOf' \in [Entities -> Ids \cup {0}]
      /\ page' \subseteq Entities /\ \A x \in page' : schemaOf'[x] # 0
      /\ \A x \in Entities : schemaOf'[x] # 0 => schemaOf'[Features[schemaOf'[x]][1]] # 0
  BY <1>2 DEF ModelsInv
<1>9. \A x \in Entities : schemaOf'[x] # 0 /\ setter'[schemaOf'[x]] = x
                           => current'[schemaOf'[x]] = modelEntity'[x]
  BY <1>2, <1>7
<1> QED
  BY Zenon, <1>3, <1>4, <1>5, <1>6, <1>8, <1>9 DEF ModelsInv

\* Every step keeps what is said of the models.
LEMMA ModelsStep ==
  ASSUME ModelsInv, [Next]_vars
  PROVE  ModelsInv'
<1>1. CASE SchemaNext /\ sent' = Nothing /\ UNCHANGED <<modelVars, useVars>>
  <2>1. sent'.model = NoEntity /\ UNCHANGED modelVars /\ UNCHANGED page
    BY <1>1 DEF Nothing, Statement, useVars
  <2> QED
    BY <2>1, ModelsAloneQuiet
<1>2. ASSUME NEW f \in Ids, RegisterEntities(f) PROVE ModelsInv'
  BY <1>2, RegistrationStep
<1>3. ASSUME NEW m \in Entities, NEW e \in Entities, SetEntity(m, e) PROVE ModelsInv'
  BY <1>3, SetEntityStep
<1>4. ASSUME NEW m \in Entities, ModelStep(m) PROVE ModelsInv'
  BY Zenon, <1>4, ModelOperations, ModelSends
<1>5. CASE BuilderStep \/ Execute
  <2>1. \/ sent' = Nothing
        \/ \E marks, values : sent' = Statement("builder", NoEntity, NoEntity, marks,
          values)
    BY Zenon, <1>5 DEF BuilderStep, Execute
  <2>2. UNCHANGED modelVars /\ UNCHANGED page
    BY Zenon, <1>5 DEF BuilderStep, Execute, useVars
  <2>3. sent'.model = NoEntity
    BY <2>1 DEF Nothing, Statement
  <2> QED
    BY <2>2, <2>3, ModelsAloneQuiet
<1>6. CASE PageArrived
  <2>1. PICK m \in Entities, query \in Some : CountPage(m, query)
    BY Zenon, <1>6 DEF PageArrived
  <2>2. m \in page /\ page' \subseteq page \cup {m} /\ UNCHANGED modelVars
    BY <1>6, <2>1 DEF PageArrived, CountPage
  <2>3. schemaOf[m] # 0
    BY <2>2 DEF ModelsInv
  <2>4. \E op, marks, values : Send(m, op, marks, values)
    BY Zenon, <2>1 DEF CountPage, FromBuilder
  <2> QED
    BY Zenon, <2>2, <2>3, <2>4, ModelSends
<1>7. CASE UNCHANGED vars
  <2>1. /\ current' = current /\ setter' = setter /\ schemaOf' = schemaOf
        /\ modelEntity' = modelEntity /\ page' = page /\ sent' = sent
    BY <1>7 DEF vars, modelVars, useVars
  <2> QED
    BY Zenon, <2>1 DEF ModelsInv
<1> QED
  BY Zenon, <1>1, <1>2, <1>3, <1>4, <1>5, <1>6, <1>7 DEF Next, Use

\* Registrations and current entities, in every reachable state.
LEMMA ModelsInvariant == Spec => []ModelsInv
<1> QED
  BY ModelsInitially, ModelsStep, PTL DEF Spec

\* Types, in every reachable state: a model is known to the registry when it has an
\* entity, and the entity that is current in a Schema is one of those it was made with.
THEOREM ModelsTyped == Spec => []TypeOK
<1>1. SchemaInv /\ ModelsInv => TypeOK
  BY Zenon DEF SchemaInv, ModelsInv, TypeOK
<1> QED
  BY <1>1, SchemaInvariant, ModelsInvariant, PTL

\* A model that was the last to be set up in its Schema sends on the table of its own
\* entity, whatever registrations were refused and however late its page is counted.
THEOREM ModelsKeepToTheirTable == Spec => []ModelAlone
<1>1. ModelsInv => ModelAlone
  BY Zenon DEF ModelsInv, ModelAlone
<1> QED
  BY <1>1, ModelsInvariant, PTL

\* A registration, refused half-way or not, replaces and removes no model that is
\* registered.
THEOREM ModelsStayRegistered == Spec => RegisteredOnce
<1>1. ASSUME ModelsInv, [Next]_vars
      PROVE  [\A e \in Entities : schemaOf[e] # 0 => schemaOf'[e] = schemaOf[e]]_vars
  <2>1. ASSUME NEW f \in Ids, RegisterEntities(f), NEW e \in Entities, schemaOf[e] # 0
        PROVE  schemaOf'[e] = schemaOf[e]
    <3>1. \A x \in Registered(Features[f]) : schemaOf[x] = 0
      BY Zenon, <1>1, <2>1, RegistrationFacts
    <3>2. schemaOf' = [x \in Entities |-> IF x \in Registered(Features[f]) THEN f ELSE schemaOf[x]]
      BY Zenon, <2>1 DEF RegisterEntities
    <3> QED
      BY Zenon, <2>1, <3>1, <3>2
  <2>2. CASE UNCHANGED schemaOf
    BY Zenon, <2>2
  <2>3. SchemaNext /\ sent' = Nothing /\ UNCHANGED <<modelVars,
    useVars>> => UNCHANGED schemaOf
    BY DEF modelVars
  <2>4. ASSUME NEW m \in Entities, ModelStep(m) PROVE UNCHANGED schemaOf
    BY <2>4 DEF ModelStep, modelVars
  <2>5. (\E m, e \in Entities : SetEntity(m, e)) => UNCHANGED schemaOf
    BY Zenon DEF SetEntity
  <2>6. BuilderStep \/ Execute \/ PageArrived => UNCHANGED schemaOf
    BY Zenon DEF BuilderStep, Execute, PageArrived, modelVars
  <2>7. UNCHANGED vars => UNCHANGED schemaOf
    BY DEF vars, modelVars
  <2> QED
    BY Zenon, <1>1, <2>1, <2>2, <2>3, <2>4, <2>5, <2>6, <2>7 DEF Next, Use
<1> QED
  BY <1>1, ModelsInvariant, PTL DEF Spec, RegisteredOnce

-----------------------------------------------------------------------------
(* Placeholders and values                                                 *)

\* A builder that was given as many values as placeholders with each condition: those of
\* WHERE and of HAVING are kept apart, and each belong to the placeholders of their clause.
Paired(b) ==
  /\ DOMAIN b = {"table", "clauses", "where", "whereMarks", "whereParams",
                 "having", "havingMarks", "havingParams"}
  /\ b.whereMarks = b.whereParams /\ b.havingMarks = b.havingParams

BuilderInv ==
  /\ Paired(builder)
  /\ sent.op \notin {"findWithConditions", "page", "count"} => sent.marks = sent.values

\* A new builder, and one after any of its calls, whose conditions are given the values
\* of their placeholders, is paired.
LEMMA PairedCalls ==
  /\ \A t : Paired(EmptyBuilder(t))
  /\ \A b : Paired(b) =>
       /\ \A c : Paired(Adding(b, c))
       /\ \A t, a : Paired(From(b, t, a))
       /\ \A w, p : Paired(Condition(b, w, p, p))
       /\ \A p : Paired(Having(b, p, p))
  /\ \A b : Paired(Reset(b))
<1>1. \A t : Paired(EmptyBuilder(t))
  BY DEF Paired, EmptyBuilder
<1>2. ASSUME NEW b, Paired(b), NEW c PROVE Paired(Adding(b, c))
  BY <1>2 DEF Paired, Adding
<1>3. ASSUME NEW b, Paired(b), NEW t, NEW a PROVE Paired(From(b, t, a))
  BY <1>3 DEF Paired, From
<1>4. ASSUME NEW b, Paired(b), NEW w, NEW p PROVE Paired(Condition(b, w, p, p))
  BY <1>4 DEF Paired, Condition
<1>5. ASSUME NEW b, Paired(b), NEW p PROVE Paired(Having(b, p, p))
  <2>1. PICK a : a = Adding(b, "having")
    OBVIOUS
  <2>2. Paired(a)
    BY <1>2, <1>5, <2>1
  <2>3. Having(b, p, p) = [a EXCEPT !.having = Append(@, ""),
                                    !.havingMarks = @ \o p, !.havingParams = @ \o p]
    BY <2>1 DEF Having
  <2> QED
    BY <2>2, <2>3 DEF Paired
<1>6. \A b : Paired(Reset(b))
  BY DEF Paired, Reset, EmptyBuilder
<1> QED
  BY Zenon, <1>1, <1>2, <1>3, <1>4, <1>5, <1>6

\* Every call of a builder leaves it paired.
LEMMA PairedStep ==
  ASSUME Paired(builder), BuilderStep
  PROVE  Paired(builder')
<1> DEFINE Conditions(v) ==
             {Where(builder, <<v>>, <<v>>), AndWhere(builder, <<v>>, <<v>>),
              OrWhere(builder, <<v, v>>, <<v, v>>), Having(builder, <<v>>, <<v>>)}
           Others ==
             {Select(builder), Distinct(builder), UseSchema(builder),
              From(builder, "other", TRUE), From(builder, "other", FALSE),
              OrderBy(builder), Limit(builder), Offset(builder), Join(builder),
              GroupBy(builder), Count(builder), UseFunction(builder),
              Unimplemented(builder), Reset(builder)}
<1>1. ASSUME NEW v, NEW b \in Conditions(v) PROVE Paired(b)
  <2>1. Paired(Where(builder, <<v>>, <<v>>))
    BY Zenon, PairedCalls DEF Where
  <2>2. Paired(AndWhere(builder, <<v>>, <<v>>))
    BY Zenon, PairedCalls DEF AndWhere
  <2>3. Paired(OrWhere(builder, <<v, v>>, <<v, v>>))
    BY Zenon, PairedCalls DEF OrWhere
  <2>4. Paired(Having(builder, <<v>>, <<v>>))
    BY Zenon, PairedCalls
  <2> QED
    BY Zenon, <1>1, <2>1, <2>2, <2>3, <2>4
<1>2. ASSUME NEW b \in Others PROVE Paired(b)
  BY Zenon, <1>2, PairedCalls
     DEF Select, Distinct, UseSchema, OrderBy, Limit, Offset, Join, GroupBy, Count,
         UseFunction,
         Unimplemented
<1>3. (\E v \in Props \cup {NoProp} : builder' \in Conditions(v)) \/ builder' \in Others
  BY Zenon DEF BuilderStep
<1> HIDE DEF Conditions, Others
<1> QED
  BY Zenon, <1>1, <1>2, <1>3

\* A statement of a model names the values of its placeholders, but in the two methods
\* that give a builder none.
LEMMA StatementsPaired ==
  ASSUME NEW m \in Entities, ModelStep(m)
  PROVE  /\ UNCHANGED builder
         /\ sent'.op \notin {"findWithConditions", "page", "count"} => sent'.marks = sent'.values
<1>1. ASSUME NEW query, NEW data,
             Save(m) \/ Find(m, query) \/ Update(m, data, query)
               \/ Delete(m, query) \/ SoftDelete(m, query)
      PROVE  \E op, marks, values : Send(m, op, marks, values) /\ marks = values
  <2>1. BuildWhereClause(query).marks = BuildWhereClause(query).params
    BY DEF BuildWhereClause
  <2> QED
    BY Zenon, <1>1, <2>1 DEF Save, Find, Update, Delete, SoftDelete
<1>2. ASSUME NEW query, FindWithConditions(m, query) \/ FindPaginated(m, query)
      PROVE  \E op, marks, values : /\ Send(m, op, marks, values)
                                    /\ op \in {"findWithConditions", "page", "count"}
  BY Zenon, <1>2 DEF FindWithConditions, FindPaginated, FromBuilder
<1>3. \E op, marks, values : /\ Send(m, op, marks, values)
                             /\ op \in {"findWithConditions", "page", "count"} \/ marks = values
  BY Zenon, <1>1, <1>2 DEF ModelStep
<1>4. PICK op, marks, values : /\ Send(m, op, marks, values)
                               /\ op \in {"findWithConditions", "page", "count"} \/ marks = values
  BY Zenon, <1>3
<1>5. sent'.op = op /\ sent'.marks = marks /\ sent'.values = values
  BY <1>4 DEF Send, Statement
<1> QED
  BY Zenon, <1>4, <1>5 DEF ModelStep

\* The values of a statement, but those of findWithConditions() and findPaginated(), which give
\* their builder none, are those of its placeholders, in their order, in whatever order the
\* calls of a builder were made.
THEOREM ValuesFollowPlaceholders == Spec => []BindsInOrder
<1>1. Init => BuilderInv
  <2>1. ASSUME Init PROVE BuilderInv
    <3>1. Paired(builder)
      BY Zenon, <2>1, PairedCalls DEF Init
    <3>2. sent.marks = sent.values
      BY <2>1 DEF Init, Nothing, Statement
    <3> QED
      BY <3>1, <3>2 DEF BuilderInv
  <2> QED
    BY <2>1
<1>2. Nothing.marks = Nothing.values
  BY DEF Nothing, Statement
<1>3. ASSUME BuilderInv, [Next]_vars PROVE BuilderInv'
  <2>1. ASSUME sent' = Nothing, UNCHANGED builder PROVE BuilderInv'
    BY Zenon, <1>2, <1>3, <2>1 DEF BuilderInv
  <2>2. CASE SchemaNext /\ sent' = Nothing /\ UNCHANGED <<modelVars, useVars>>
    BY <2>1, <2>2 DEF useVars
  <2>3. ASSUME NEW f \in Ids, RegisterEntities(f) PROVE BuilderInv'
    BY Zenon, <2>1, <2>3 DEF RegisterEntities, useVars
  <2>4. ASSUME NEW m \in Entities, NEW e \in Entities, SetEntity(m, e) PROVE BuilderInv'
    BY Zenon, <2>1, <2>4 DEF SetEntity, useVars
  <2>5. ASSUME NEW m \in Entities, ModelStep(m) PROVE BuilderInv'
    BY Zenon, <1>3, <2>5, StatementsPaired DEF BuilderInv
  <2>6. CASE BuilderStep
    <3>1. Paired(builder') /\ sent' = Nothing
      BY Zenon, <1>3, <2>6, PairedStep DEF BuilderInv, BuilderStep
    <3> QED
      BY Zenon, <1>2, <3>1 DEF BuilderInv
  <2>7. CASE Execute
    <3>1. PICK b : b = builder
      OBVIOUS
    <3>2. Build(b).marks = Build(b).values
      <4>1. Build(b).marks = b.whereMarks \o b.havingMarks
        BY Zenon DEF Build
      <4>2. Build(b).values = b.whereParams \o b.havingParams
        BY Zenon DEF Build
      <4> QED
        BY Zenon, <1>3, <3>1, <4>1, <4>2 DEF BuilderInv, Paired
    <3>3. /\ sent' = Statement("builder", NoEntity, NoEntity, Build(b).marks, Build(b).values)
          /\ builder' = builder
      BY Zenon, <2>7, <3>1 DEF Execute, useVars
    <3>4. sent'.marks = Build(b).marks /\ sent'.values = Build(b).values
      BY <3>3 DEF Statement
    <3> QED
      BY Zenon, <1>3, <3>2, <3>3, <3>4 DEF BuilderInv
  <2>8. CASE PageArrived
    <3>1. PICK m \in Entities, query \in Some : CountPage(m, query)
      BY Zenon, <2>8 DEF PageArrived
    <3>2. PICK marks, values : Send(m, "count", marks, values)
      BY Zenon, <3>1 DEF CountPage, FromBuilder
    <3>3. sent'.op = "count"
      BY <3>2 DEF Send, Statement
    <3>4. builder' = builder
      BY Zenon, <2>8 DEF PageArrived
    <3> QED
      BY Zenon, <1>3, <3>3, <3>4 DEF BuilderInv
  <2>9. CASE UNCHANGED vars
    <3>1. builder' = builder /\ sent' = sent
      BY <2>9 DEF vars, useVars
    <3> QED
      BY Zenon, <1>3, <3>1 DEF BuilderInv
  <2> QED
    BY Zenon, <1>3, <2>2, <2>3, <2>4, <2>5, <2>6, <2>7, <2>8, <2>9 DEF Next, Use
<1>4. BuilderInv => BindsInOrder
  BY Zenon DEF BuilderInv, BindsInOrder
<1> QED
  BY <1>1, <1>3, <1>4, PTL DEF Spec

=============================================================================
