------------------------------- MODULE Models -------------------------------
(***************************************************************************)
(* The models of src/src/orm/model.ts: their registration by Db2Module, and   *)
(* the statements they and the QueryBuilder send.                           *)
(*                                                                         *)
(* Each registerEntities() makes one Schema, and every model it registers    *)
(* holds that Schema.  A model reads the metadata of the entity that is        *)
(* current in its Schema, which is the one the last model was set up for.     *)
(* A model is known by the entity it was registered for.                     *)
(***************************************************************************)
EXTENDS Schema, QueryBuilder

CONSTANTS Features   \* the lists of entities that are registered together

ASSUME FeaturesAssumption ==
  /\ Features \in Seq(Seq(Entities))
  /\ \A i \in DOMAIN Features : Features[i] # <<>>

VARIABLES
  current,      \* currentEntity of the Schema of each registration
  setter,       \* history: the model for which it was set
  schemaOf,     \* the registry: the registration of each model, or 0
  modelEntity,  \* currentEntity of each model
  page,         \* models in findPaginated() that wait for their data
  builder,      \* a QueryBuilder
  sent          \* the statement that is being sent

modelVars == <<current, setter, schemaOf, modelEntity>>
useVars   == <<page, builder>>
vars      == <<schemaVars, calls, modelVars, useVars, sent>>

Statement(o, m, e, marks, values) ==
  [op |-> o, model |-> m, table |-> e, marks |-> marks, values |-> values]
Nothing == Statement("none", NoEntity, NoEntity, <<>>, <<>>)

Ids == DOMAIN Features

\* What each variable ranges over.
TypeOK ==
  /\ SchemaTypeOK
  /\ \A f \in Ids : current[f] \in ToSet(Features[f]) \cup {NoEntity}
  /\ setter \in [Ids -> Entities \cup {NoEntity}]
  /\ schemaOf \in [Entities -> Ids \cup {0}]
  /\ modelEntity \in [Entities -> Entities \cup {NoEntity}]
  /\ page \subseteq Entities
  /\ \A e \in Entities : modelEntity[e] # NoEntity <=> schemaOf[e] # 0

Init ==
  /\ SchemaInit
  /\ current = [f \in Ids |-> NoEntity] /\ setter = [f \in Ids |-> NoEntity]
  /\ schemaOf = [e \in Entities |-> 0]
  /\ modelEntity = [e \in Entities |-> NoEntity]
  /\ page = {} /\ builder = EmptyBuilder("table") /\ sent = Nothing

-----------------------------------------------------------------------------
(* Registration                                                            *)

\* The places of a list whose name registerModel() refuses, because it has it from
\* before or from earlier in the list.
Refused(list) ==
  {i \in DOMAIN list : schemaOf[list[i]] # 0 \/ \E j \in 1..(i - 1) : list[j] = list[i]}

FreshAllMutant(list) == Len(list)

\* How many entities of a list are registered before one is refused.
Fresh(list) == IF Refused(list) = {} THEN Len(list) ELSE Min(Refused(list)) - 1

Registered(list) == {list[i] : i \in 1..Fresh(list)}

\* registerEntities(): every model is set up before it is registered, so the one whose
\* registration is refused has set the current entity; the models before it stay.  A
\* registration that is refused at once leaves a Schema nobody holds.
RegisterEntities(f) ==
  LET list == Features[f]
      n == Fresh(list)
      last == list[IF n < Len(list) THEN n + 1 ELSE n] IN
  /\ \A e \in ToSet(list) : meta[e] # NoMeta
  /\ n > 0
  /\ current' = [current EXCEPT ![f] = last]
  /\ setter' = [setter EXCEPT ![f] = last]
  /\ schemaOf' = [e \in Entities |-> IF e \in Registered(list) THEN f ELSE schemaOf[e]]
  /\ modelEntity' = [e \in Entities |-> IF e \in Registered(list) THEN e ELSE modelEntity[e]]
  /\ sent' = Nothing /\ UNCHANGED <<schemaVars, useVars>>

SetEntityOwnMutant(m, e) ==
  /\ schemaOf[m] # 0 /\ e \in ToSet(Features[schemaOf[m]])
  /\ setter' = [setter EXCEPT ![schemaOf[m]] = m]
  /\ modelEntity' = [modelEntity EXCEPT ![m] = e]
  /\ sent' = Nothing /\ UNCHANGED <<current, schemaVars, schemaOf, useVars>>

SetEntityAnyMutant(m, e) ==
  /\ schemaOf[m] # 0
  /\ current' = [current EXCEPT ![schemaOf[m]] = e]
  /\ setter' = [setter EXCEPT ![schemaOf[m]] = m]
  /\ modelEntity' = [modelEntity EXCEPT ![m] = e]
  /\ sent' = Nothing /\ UNCHANGED <<schemaVars, schemaOf, useVars>>

\* Model.setEntity() sets the entity on the Schema, which refuses one that is not in
\* its list, and on itself.
SetEntity(m, e) ==
  /\ schemaOf[m] # 0 /\ e \in ToSet(Features[schemaOf[m]])
  /\ current' = [current EXCEPT ![schemaOf[m]] = e]
  /\ setter' = [setter EXCEPT ![schemaOf[m]] = m]
  /\ modelEntity' = [modelEntity EXCEPT ![m] = e]
  /\ sent' = Nothing /\ UNCHANGED <<schemaVars, schemaOf, useVars>>

-----------------------------------------------------------------------------
(* Statements of a model                                                   *)

CurrentOf(m)  == current[schemaOf[m]]

\* The table is that of the entity current in the Schema.
Send(m, op, marks, values) == sent' = Statement(op, m, CurrentOf(m), marks, values)

\* save() inserts a value, or null, for every column there is.  (It does not ask create()
\* whether the instance is complete.)
Save(m) ==
  LET columns == [i \in DOMAIN meta[CurrentOf(m)].columns |-> meta[CurrentOf(m)].columns[i].prop] IN
  Send(m, "save", columns, columns)

BuildWhereClause(query) == [marks |-> SetToSeq(query), params |-> SetToSeq(query)]

Find(m, query) ==
  Send(m, "find", BuildWhereClause(query).marks, BuildWhereClause(query).params)

\* The values of SET, then those of WHERE.
Update(m, data, query) ==
  Send(m, "update", SetToSeq(data) \o BuildWhereClause(query).marks,
       SetToSeq(data) \o BuildWhereClause(query).params)

Delete(m, query) ==
  Send(m, "delete", BuildWhereClause(query).marks, BuildWhereClause(query).params)

SoftDelete(m, query) ==
  Send(m, "softDelete", <<NoProp>> \o BuildWhereClause(query).marks,
       <<NoProp>> \o BuildWhereClause(query).params)

\* findWithConditions() and findPaginated() give the builder a condition with
\* placeholders and no values for them.
BuildConditions(query) == SetToSeq(query)
FromBuilder(m, op, b) == Send(m, op, Build(b).marks, Build(b).values)

FindWithConditions(m, query) ==
  FromBuilder(m, "findWithConditions",
    Offset(Limit(OrderBy(Where(EmptyBuilder(CurrentOf(m)), BuildConditions(query), <<>>)))))

\* findPaginated() awaits its data, then asks for the count with a second builder.
FindPaginated(m, query) ==
  /\ m \notin page /\ page' = page \cup {m}
  /\ FromBuilder(m, "page", Offset(Limit(Where(EmptyBuilder(CurrentOf(m)), BuildConditions(query), <<>>))))

CountPage(m, query) ==
  /\ m \in page /\ page' = page \ {m}
  /\ FromBuilder(m, "count", Where(Count(EmptyBuilder(CurrentOf(m))), BuildConditions(query), <<>>))

\* A query or the data of an instance names all properties or none.
Some == {{}, Props}

ModelStep(m) ==
  /\ schemaOf[m] # 0
  /\ \/ \E query, data \in Some :
          /\ \/ Save(m) \/ Find(m, query) \/ Update(m, data, query)
             \/ Delete(m, query) \/ SoftDelete(m, query) \/ FindWithConditions(m, query)
          /\ UNCHANGED page
     \/ \E query \in Some : FindPaginated(m, query)
  /\ UNCHANGED <<schemaVars, modelVars, builder>>

-----------------------------------------------------------------------------
(* A query builder used by the program itself                              *)

\* A condition is given as many values as it has placeholders.
BuilderStep ==
  /\ \/ \E v \in Props \cup {NoProp} :
          builder' \in {Where(builder, <<v>>, <<v>>), AndWhere(builder, <<v>>, <<v>>),
                        OrWhere(builder, <<v, v>>, <<v, v>>), Having(builder, <<v>>, <<v>>)}
     \/ builder' \in {Select(builder), Distinct(builder), UseSchema(builder),
                      From(builder, "other", TRUE), From(builder, "other", FALSE),
                      OrderBy(builder), Limit(builder), Offset(builder), Join(builder),
                      GroupBy(builder), Count(builder), UseFunction(builder),
                      Unimplemented(builder), Reset(builder)}
  /\ sent' = Nothing
  /\ UNCHANGED <<schemaVars, modelVars, page>>

Execute ==
  /\ sent' = Statement("builder", NoEntity, NoEntity, Build(builder).marks, Build(builder).values)
  /\ UNCHANGED <<schemaVars, modelVars, useVars>>

-----------------------------------------------------------------------------

Use ==
  \/ \E f \in Ids : RegisterEntities(f)
  \/ \E m, e \in Entities : SetEntity(m, e)
  \/ \E m \in Entities : ModelStep(m)
  \/ BuilderStep
  \/ Execute

\* The data of a page has come.
PageArrived ==
  /\ \E m \in Entities : \E query \in Some : CountPage(m, query)
  /\ UNCHANGED <<schemaVars, modelVars, builder, calls>>

Next ==
  \/ SchemaNext /\ sent' = Nothing /\ UNCHANGED <<modelVars, useVars>>
  \/ calls < MaxCalls /\ calls' = calls + 1 /\ Use
  \/ PageArrived

Spec == Init /\ [][Next]_vars

-----------------------------------------------------------------------------

\* A statement of a model is on the table of the model's own entity, unless another
\* model has been set up on the shared Schema after it: also if that one's registration
\* was refused, and also the count of a page, which is sent after an await.
ModelAlone ==
  sent.model # NoEntity /\ setter[schemaOf[sent.model]] = sent.model
    => sent.table = modelEntity[sent.model]

\* The values of a statement are those of its placeholders, in the order of the text,
\* in whatever order the calls of a QueryBuilder were made.  (Not in the two methods of
\* a model that give the builder no values.)
BindsInOrder ==
  sent.op \notin {"findWithConditions", "page", "count"} => sent.marks = sent.values

\* A model that is registered is never replaced or removed, also not by a
\* registration that fails half-way.
RegisteredOnce ==
  [][\A e \in Entities : schemaOf[e] # 0 => schemaOf'[e] = schemaOf[e]]_vars

=============================================================================
