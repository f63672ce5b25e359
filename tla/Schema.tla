------------------------------- MODULE Schema -------------------------------
(***************************************************************************)
(* A Schema over some entity classes (src/src/orm/schema.ts): the calls that *)
(* change the metadata of an entity, at once or after an await, and the     *)
(* finalisation that validates the entities one after the other.            *)
(*                                                                         *)
(* The await of a call is that of validateOrReject(), which waits for        *)
(* nothing: the rest of the call is a microtask, and those run in order.     *)
(***************************************************************************)
EXTENDS SchemaHandlers

CONSTANTS
  Entities,
  Listed,    \* the entities the Schema was made with, in order
  Bodies,    \* for each entity the class bodies it may have
  Calls,     \* calls of the handlers: records [op, prop, keys, opts]
  MaxCalls,  \* bound of the model: calls of the program
  NoEntity

Async == {"addColumn", "setForeignKey"}
Handlers == Async \cup
  {"removeColumn", "updateColumn", "setDefaultValue", "removeDefaultValue",
   "clearDefaultValues", "setIndex", "removeIndex", "clearIndexes", "removeForeignKey",
   "setPrimaryKeys", "removePrimaryKey", "setConstraint", "setUniqueConstraint",
   "setCheckConstraint", "setCompositeKey", "setOneToMany", "setManyToOne", "setManyToMany",
   "setOneToOne", "setOneToOneUnique", "setOneToOneFunctional"}

ASSUME SchemaAssumption ==
  /\ NoEntity \notin Entities /\ MaxCalls \in Nat
  /\ Listed \in Seq(Entities) /\ Listed # <<>> /\ IsInjective(Listed)

\* keys: the properties of a composite key, and the further ones of setPrimaryKeys.  The
\* name of a constraint is given.
ASSUME CallsAssumption ==
  /\ \A e \in Entities : \A body \in Bodies[e] : body \in Seq(Decorators)
  /\ \A d \in Calls :
       /\ d \in [op : Handlers, prop : PropOrNone, keys : SUBSET Props, opts : Given]
       /\ d.op = "setConstraint" => d.opts.name # NotGiven

VARIABLES
  meta,           \* the storage: the metadata of each class
  tableNamed,     \* the entities whose tableName is set
  handlerEntity,  \* currentEntity of the columns and of the foreign keys handler
  microtasks,     \* calls that wait behind their await
  final,          \* the last finalizeSchema(): none, running, done or failed
  calls,          \* how many calls the program has made
  changed,        \* history: the entities that have changed since they were validated
  moved           \* history: the entities a column was removed from or given another property

schemaVars == <<meta, tableNamed, handlerEntity, microtasks, final, changed, moved>>

Call(op, e, p, ks, o) == [op |-> op, entity |-> e, prop |-> p, keys |-> ks, opts |-> o]

Tasks == [op : Async \cup {"finalize"}, entity : Entities, prop : PropOrNone,
          keys : SUBSET Props, opts : Given]
IsTableMeta(m) == m \in [ListNames -> Seq(Entries)]

\* What each variable ranges over.
SchemaTypeOK ==
  /\ DOMAIN meta = Entities
  /\ \A e \in Entities : meta[e] = NoMeta \/ IsTableMeta(meta[e])
  /\ tableNamed \subseteq Entities
  /\ handlerEntity \in [Async -> Entities \cup {NoEntity}]
  /\ microtasks \in Seq(Tasks)
  /\ final \in {"none", "running", "done", "failed"}
  /\ calls \in 0..MaxCalls /\ changed \subseteq Entities /\ moved \subseteq Entities

SchemaInit ==
  /\ \E body \in [Entities -> UNION {Bodies[e] : e \in Entities}] :
       /\ \A e \in Entities : body[e] \in Bodies[e]
       /\ meta = [e \in Entities |-> DefinedClass(body[e])]
  /\ tableNamed = {} /\ handlerEntity = [h \in Async |-> NoEntity]
  /\ microtasks = <<>> /\ final = "none" /\ calls = 0
  /\ changed = {} /\ moved = {}

-----------------------------------------------------------------------------

\* What call c makes of metadata m.
Performed(m, c) ==
  CASE c.op = "addColumn"    -> AddColumn(m, c.prop, c.opts)
    [] c.op = "removeColumn" -> RemoveColumn(m, c.prop)
    [] c.op = "updateColumn" -> UpdateColumn(m, c.prop, c.opts)
    [] c.op = "setDefaultValue"    -> SetDefaultValue(m, c.prop)
    [] c.op = "removeDefaultValue" -> RemoveDefaultValue(m, c.prop)
    [] c.op = "clearDefaultValues" -> ClearDefaultValues(m)
    [] c.op = "setIndex"     -> SetIndex(m, c.prop, c.opts)
    [] c.op = "removeIndex"  -> RemoveIndex(m, c.prop)
    [] c.op = "clearIndexes" -> ClearIndexes(m)
    [] c.op = "setForeignKey"    -> SetForeignKey(m, c.prop, c.opts)
    [] c.op = "removeForeignKey" -> RemoveForeignKey(m, c.prop)
    [] c.op = "setPrimaryKeys"   -> SetPrimaryKeys(m, <<c.prop>> \o SetToSeq(c.keys), c.opts)
    [] c.op = "removePrimaryKey" -> RemovePrimaryKey(m)
    [] c.op = "setConstraint"    -> SetConstraint(m, c.prop, c.opts.name)
    [] c.op = "setUniqueConstraint" -> SetUniqueConstraint(m, c.prop)
    [] c.op = "setCheckConstraint"  -> SetCheckConstraint(m, c.prop)
    [] c.op = "setCompositeKey"  -> SetCompositeKey(m, c.keys)
    [] c.op = "setOneToMany"     -> SetOneToMany(m, c.prop, c.opts)
    [] c.op = "setManyToOne"     -> SetManyToOne(m, c.prop, c.opts)
    [] c.op = "setManyToMany"    -> SetManyToMany(m, c.prop, c.opts)
    [] c.op = "setOneToOne"      -> SetOneToOne(m, c.prop, c.opts)
    [] c.op = "setOneToOneUnique"     -> SetOneToOneUnique(m, c.prop, c.opts)
    [] c.op = "setOneToOneFunctional" -> SetOneToOneFunctional(m, c.prop, c.opts)

\* The call takes a column away, or its options give another property than its own.
Moves(c) == c.op = "removeColumn" \/ c.opts.prop \notin {NotGiven, c.prop}

\* Call c is carried out on entity e.
CarryOut(e, c) ==
  /\ meta' = [meta EXCEPT ![e] = IF @ = NoMeta THEN @ ELSE Performed(@, c)]
  /\ changed' = changed \cup {f \in Entities : meta'[f] # meta[f]}
  /\ moved' = IF Moves(c) THEN moved \cup {e} ELSE moved

\* A call that does its work at once, as most setters of Schema do, or as a method of a
\* handler on which the entity has been set.
CallNow(e, d) ==
  /\ d.op \notin Async
  /\ CarryOut(e, Call(d.op, e, d.prop, d.keys, d.opts))
  /\ UNCHANGED <<tableNamed, handlerEntity, microtasks, final>>

\* addColumn() and setForeignKey() of Schema first await the validation.
CallLater(e, d) ==
  /\ d.op \in Async
  /\ microtasks' = Append(microtasks, Call(d.op, e, d.prop, d.keys, d.opts))
  /\ UNCHANGED <<meta, tableNamed, handlerEntity, final, changed, moved>>

ResumeUnsetMutant ==
  /\ microtasks # <<>> /\ Head(microtasks).op \in Async
  /\ LET c == Head(microtasks)
         e == handlerEntity[c.op] IN
     /\ handlerEntity' = [handlerEntity EXCEPT ![c.op] = IF @ = NoEntity THEN c.entity ELSE @]
     /\ CarryOut(IF e = NoEntity THEN c.entity ELSE e, c)
  /\ microtasks' = Tail(microtasks)
  /\ UNCHANGED <<tableNamed, final>>

\* After the await the entity is set on the handler, and the handler does the work.
Resume ==
  /\ microtasks # <<>> /\ Head(microtasks).op \in Async
  /\ LET c == Head(microtasks) IN
     /\ handlerEntity' = [handlerEntity EXCEPT ![c.op] = c.entity]
     /\ CarryOut(handlerEntity'[c.op], c)
  /\ microtasks' = Tail(microtasks)
  /\ UNCHANGED <<tableNamed, final>>

-----------------------------------------------------------------------------
(* finalizeSchema()                                                        *)

NoOptions == [prop |-> NotGiven, name |-> NotGiven, attrs |-> {}, cleared |-> {}]
Validate(e) == Call("finalize", e, NoProp, {}, NoOptions)

FinalizeSchema ==
  /\ final # "running" /\ \A e \in ToSet(Listed) : IsTable(meta[e])
  /\ final' = "running"
  /\ microtasks' = Append(microtasks, Validate(Head(Listed)))
  /\ UNCHANGED <<meta, tableNamed, handlerEntity, changed, moved>>

\* The next entity gets its table name, from its class, and is validated.  The first
\* that is not valid ends it; those before it keep their names.
ValidateNext ==
  /\ microtasks # <<>> /\ Head(microtasks).op = "finalize"
  /\ LET e == Head(microtasks).entity
         i == CHOOSE j \in DOMAIN Listed : Listed[j] = e IN
     /\ tableNamed' = tableNamed \cup {e} /\ changed' = changed \ {e}
     /\ final' = CASE ~ValidSchema(meta[e]) -> "failed"
                   [] ValidSchema(meta[e]) ->
                        IF i = Len(Listed) THEN "done" ELSE "running"
     /\ microtasks' = IF final' = "running"
          THEN Append(Tail(microtasks), Validate(Listed[i + 1])) ELSE Tail(microtasks)
  /\ UNCHANGED <<meta, handlerEntity, moved>>

SchemaNext ==
  \/ /\ calls < MaxCalls /\ calls' = calls + 1
     /\ \/ \E e \in Entities, d \in Calls : CallNow(e, d) \/ CallLater(e, d)
        \/ FinalizeSchema
  \/ (Resume \/ ValidateNext) /\ UNCHANGED calls

-----------------------------------------------------------------------------

\* A call that was waiting behind its await changes the metadata of no entity but its
\* own, whatever calls about other entities were made or resumed meanwhile: the handlers
\* of a Schema are shared, and what they work on is set for each call.
CallsHitTheirEntity ==
  [][\A e \in Entities : meta'[e] # meta[e] /\ Len(microtasks') < Len(microtasks)
       => e = Head(microtasks).entity]_<<schemaVars, calls>>

\* The properties of which a step has taken entries from a list of entity e.
Entered(m, l, p) == Cardinality({i \in DOMAIN m[l] : m[l][i].prop = p})
Lost(e) == {p \in Props : \E l \in ListNames : Entered(meta'[e], l, p) < Entered(meta[e], l, p)}

\* A step takes away entries of one property only, from whichever lists, unless it
\* empties one list: removing something that is not there takes nothing else.
RemovesOneProperty ==
  [][\A e \in Entities : meta'[e] # meta[e] =>
       \/ Cardinality(Lost(e)) <= 1
       \/ \E l \in ListNames : meta'[e] = [meta[e] EXCEPT ![l] = <<>>]]_<<schemaVars, calls>>

\* removeColumn() takes back all that addColumn() has done, whatever the flags among its
\* options (which give the same property), when there was nothing about the property before.
RemovalUndoesAddition ==
  \A e \in Entities : \A p \in Props :
    IsTable(meta[e]) /\ (\A l \in ListNames : p \notin PropsOf(meta[e][l])) =>
      \A a \in SUBSET {"primary", "unique", "default"} :
        LET o == [NoOptions EXCEPT !.prop = p, !.attrs = a]
        IN  RemoveColumn(AddColumn(meta[e], p, o), p) = meta[e]

\* Whatever decorators and calls have made the metadata, in whatever order: unless a column
\* was removed or given another property, every primary key, which CREATE TABLE names, is
\* of a column.
KeysAreColumns ==
  \A e \in Entities \ moved : IsTable(meta[e]) =>
    PropsOf(meta[e].primaryKeys) \subseteq ColumnsOf(meta[e])

\* When finalizeSchema() has succeeded, every entity that has not changed since it was
\* validated, also while the others still were, has a table name and a key, and exactly one
\* column of the entity is called by each property of the key.
FinalizedIsUsable ==
  final = "done" => \A e \in ToSet(Listed) \ changed :
    /\ e \in tableNamed /\ meta[e].primaryKeys # <<>>
    /\ \A k \in DOMAIN meta[e].primaryKeys :
         Cardinality({i \in DOMAIN meta[e].columns :
                        CalledBy(meta[e].columns[i]) = meta[e].primaryKeys[k].prop}) = 1

=============================================================================
