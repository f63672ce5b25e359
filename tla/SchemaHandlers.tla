--------------------------- MODULE SchemaHandlers ---------------------------
(***************************************************************************)
(* What the handlers of src/src/orm/schema-handlers do to the metadata of    *)
(* the entity that is set on them, and what Schema.validateSchema() demands. *)
(*                                                                         *)
(* A method that throws leaves the metadata as it is; here it returns it.    *)
(***************************************************************************)
EXTENDS Metadata

\* Every method tests that the entity is a table, and some that p is a column.
OnColumn(m, p, changed) == IF IsTable(m) /\ p \in ColumnsOf(m) THEN changed ELSE m

Pushed(m, l, x) == IF IsTable(m) THEN [m EXCEPT ![l] = Append(@, x)] ELSE m

Without(s, p) == WithoutFirst(s, p, {})

-----------------------------------------------------------------------------
(* Columns                                                                 *)

\* The column is pushed whether there is one already or not, and its flags fill
\* the other lists.  A property among the options replaces that of the column and of the
\* key, not that of the index and of the default.
AddColumn(m, p, o) ==
  IF ~IsTable(m) THEN m
  ELSE [m EXCEPT
    !.columns = Append(@, Over(Entry(p, NoName, {"typed"}), o)),
    !.primaryKeys = IF "primary" \in o.attrs THEN Append(@, Over(Entry(p, NoName, {}), o)) ELSE @,
    !.indexedColumns = IF "unique" \in o.attrs THEN Append(@, Entry(p, p, {"unique"})) ELSE @,
    !.defaultValues = IF "default" \in o.attrs THEN Append(@, Entry(p, NoName, {})) ELSE @]

RemoveColumnKeepsDefaultMutant(m, p) ==
  OnColumn(m, p, [m EXCEPT
    !.columns = Without(@, p),
    !.primaryKeys = Without(@, p),
    !.indexedColumns = WithoutFirst(@, p, {"unique"})])

\* splice(findIndex(...), 1) without the test for -1 takes the last entry.
RemoveColumnUntestedMutant(m, p) ==
  LET i == IndexOfEntry(m.indexedColumns, p, {"unique"}) IN
  OnColumn(m, p, [m EXCEPT
    !.columns = Without(@, p),
    !.primaryKeys = Without(@, p),
    !.indexedColumns = IF @ = <<>> THEN @ ELSE RemoveAt(@, IF i = 0 THEN Len(@) ELSE i),
    !.defaultValues = Without(@, p)])

\* The first column of the property goes, with its first key, unique index and
\* default; foreign keys, constraints, composite keys and relations stay.
RemoveColumn(m, p) ==
  OnColumn(m, p, [m EXCEPT
    !.columns = Without(@, p),
    !.primaryKeys = Without(@, p),
    !.indexedColumns = WithoutFirst(@, p, {"unique"}),
    !.defaultValues = Without(@, p)])

\* Object.assign() on the first entry that matches.
Assigned(s, p, options, o) ==
  LET i == IndexOfEntry(s, p, options)
  IN IF i = 0 THEN s ELSE [s EXCEPT ![i] = Over(@, o)]

\* The options go to the first column of the property, its first key, unique index and
\* default; they may clear what is set, and name another property.
UpdateColumn(m, p, o) ==
  OnColumn(m, p, [m EXCEPT
    !.columns = Assigned(@, p, {}, o),
    !.primaryKeys = Assigned(@, p, {}, o),
    !.indexedColumns = Assigned(@, p, {"unique"}, o),
    !.defaultValues = Assigned(@, p, {}, o)])

-----------------------------------------------------------------------------
(* Default values, indexes, keys                                           *)

SetDefaultValue(m, p) ==
  IF p \in PropsOf(m.defaultValues) THEN m
  ELSE OnColumn(m, p, Pushed(m, "defaultValues", Entry(p, NoName, {})))

RemoveDefaultValue(m, p) == [m EXCEPT !.defaultValues = Without(@, p)]
ClearDefaultValues(m)    == [m EXCEPT !.defaultValues = <<>>]

SetIndex(m, p, o) ==
  IF p \in PropsOf(m.indexedColumns) THEN m
  ELSE OnColumn(m, p, Pushed(m, "indexedColumns", Over(Entry(p, p, {}), o)))

RemoveIndex(m, p) == [m EXCEPT !.indexedColumns = Without(@, p)]
ClearIndexes(m)   == [m EXCEPT !.indexedColumns = <<>>]

\* No test of the columns here, only that the table referred to is given; a second key of
\* the property is ignored.
SetForeignKey(m, p, o) ==
  IF IsTable(m) /\ "referenced" \in o.attrs
    THEN PropertyDecorator(m, "foreignKeys", Over(Entry(p, p, {}), o)) ELSE m

\* The list without the key is pushed into the list itself, as one more element;
\* then the first key of the property is removed.
RemoveForeignKey(m, p) ==
  RemoveMetadata(Pushed(m, "foreignKeys", Entry(NoProp, NoName, {})), "foreignKeys", p)

\* The key the handler pushes, if p is a column.  The property the options give replaces p.
PrimaryKeyOf(p, o) == Over(Entry(p, p, {"typed", "unique"}), o)

\* Schema.setPrimaryKey() sets one key after the other, all with the same options, and
\* stops at the first that is refused: those before stay.
SetPrimaryKeys(m, ps, o) ==
  LET refused  == SelectInSeq(ps, LAMBDA p : p \notin ColumnsOf(m))
      accepted == IF refused = 0 THEN Len(ps) ELSE refused - 1
  IN IF IsTable(m)
       THEN [m EXCEPT !.primaryKeys = @ \o [i \in 1..accepted |-> PrimaryKeyOf(ps[i], o)]]
       ELSE m

RemovePrimaryKey(m) == [m EXCEPT !.primaryKeys = <<>>]

SetConstraint(m, p, n)    == Pushed(m, "constraints", Entry(p, n, {"typed"}))
SetUniqueConstraint(m, p) == SetConstraint(m, p, p)
SetCheckConstraint(m, p)  == SetConstraint(m, p, p)

SetCompositeKey(m, keys) ==
  IF keys # {} /\ keys \subseteq ColumnsOf(m)
    THEN Pushed(m, "compositeKeys", Entry(NoProp, NoName, keys)) ELSE m

-----------------------------------------------------------------------------
(* Relations: nothing is tested, also not whether the property has one.     *)

SetRelation(m, l, p, o) == Pushed(m, l, Over(Entry(p, NoName, {}), o))

SetOneToMany(m, p, o)      == SetRelation(m, "oneToManyRelations", p, o)
SetManyToOne(m, p, o)      == SetRelation(m, "manyToOneRelations", p, o)
SetManyToMany(m, p, o)     == SetRelation(m, "manyToManyRelations", p, o)
SetOneToOne(m, p, o)       == SetRelation(m, "oneToOneRelations", p, o)
SetOneToOneUnique(m, p, o) == Pushed(m, "oneToOneRelations", Over(Entry(p, NoName, {"unique"}), o))
SetOneToOneFunctional(m, p, o) == SetOneToOne(m, p, o)

-----------------------------------------------------------------------------
(* validateSchema()                                                        *)

\* What a column is called: by its own name, or by its property's.
CalledBy(x) == NameOr(x.name, x.prop)

\* The columns are called differently, and every one has a type and a property.
ColumnsValid(m) ==
  /\ m.columns # <<>>
  /\ \A i, j \in DOMAIN m.columns : CalledBy(m.columns[i]) = CalledBy(m.columns[j]) => i = j
  /\ \A i \in DOMAIN m.columns : "typed" \in m.columns[i].attrs /\ m.columns[i].prop # NoProp

PrimaryKeysAnyNameMutant(m) ==
  /\ m.primaryKeys # <<>>
  /\ \A i \in DOMAIN m.primaryKeys :
       m.primaryKeys[i].prop # NoProp /\ m.primaryKeys[i].name # NoName

\* The property of a key must be among the names columns were given: one that is called by
\* the property without having been given the name does not count, one of another property
\* that was given it does.
PrimaryKeysValid(m) ==
  /\ m.primaryKeys # <<>>
  /\ \A i \in DOMAIN m.primaryKeys :
       /\ m.primaryKeys[i].prop # NoProp /\ m.primaryKeys[i].name # NoName
       /\ \E j \in DOMAIN m.columns : m.columns[j].name = m.primaryKeys[i].prop

\* An array is no foreign key: it refers to no table.
ForeignKeysValid(m) ==
  \A i \in DOMAIN m.foreignKeys :
    "referenced" \in m.foreignKeys[i].attrs /\ "uneven" \notin m.foreignKeys[i].attrs

ConstraintsValid(m) ==
  \A i \in DOMAIN m.constraints :
    m.constraints[i].name # NoName /\ "typed" \in m.constraints[i].attrs

ValidSchema(m) == ColumnsValid(m) /\ PrimaryKeysValid(m) /\ ForeignKeysValid(m) /\ ConstraintsValid(m)

=============================================================================
