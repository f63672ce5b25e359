------------------------------ MODULE Metadata ------------------------------
(***************************************************************************)
(* The metadata of an entity class and the decorators that write it:        *)
(* MetadataManager (src/src/orm/metadata) and src/src/orm/decorators.        *)
(*                                                                         *)
(* Every MetadataManager works on the one static EntityMetadataStorage, so  *)
(* the manager has no state of its own.  The metadata of a class is a list   *)
(* per kind of entry; an entry keeps the property it is about, its name and  *)
(* those of its options that some code tests.                               *)
(***************************************************************************)
EXTENDS Naturals, FiniteSets, SequencesExt

CONSTANTS
  Props,       \* the properties of the classes
  OtherNames,  \* names of columns, keys and constraints that are no property's
  NoProp,
  NotGiven,    \* what an option is that a caller leaves out
  NoMeta       \* what the storage has for a class it has not met

RelationLists == {"oneToOneRelations", "oneToManyRelations", "manyToOneRelations",
                  "manyToManyRelations"}
ListNames == RelationLists \cup {"columns", "primaryKeys", "indexedColumns",
  "foreignKeys", "defaultValues", "constraints", "compositeKeys", "entity"}

\* The options code tests: a type, the flags of addColumn(); the table a foreign key refers
\* to, and column names that are missing or of another number; what makes an entry of
\* 'entity' a table or a view.
Options == {"typed", "primary", "unique", "default", "referenced", "uneven", "table", "view"}

NoName      == NoProp  \* both are undefined in the code
Names       == Props \cup OtherNames
PropOrNone  == Props \cup {NoProp}
NameOrNone  == Names \cup {NoName}
SomeOptions == SUBSET (Options \cup Props)

\* A composite key is an entry without property whose attributes are its keys.
Entry(p, n, a) == [prop |-> p, name |-> n, attrs |-> a]
Entries == [prop : PropOrNone, name : NameOrNone, attrs : SomeOptions]

\* n || p: a name or, without one, the property.  Of keys, indexes and constraints code
\* tests only that they have a name, so one made from the property stands as the property.
NameOr(n, p) == IF n = NoName THEN p ELSE n

\* What a caller gives as options: a property, a name, attributes that are set and others
\* that are set to nothing.
Given == [prop : PropOrNone \cup {NotGiven}, name : NameOrNone \cup {NotGiven},
          attrs : SomeOptions, cleared : SUBSET Options]

\* {...x, ...o}, and Object.assign(x, o): what the options give replaces what x has.
Over(x, o) ==
  Entry(IF o.prop = NotGiven THEN x.prop ELSE o.prop,
        IF o.name = NotGiven THEN x.name ELSE o.name,
        (x.attrs \ o.cleared) \cup o.attrs)

ASSUME MetadataAssumption ==
  /\ IsFiniteSet(Props) /\ NoProp \notin Names /\ NotGiven \notin NameOrNone
  /\ NoMeta \notin [ListNames -> Seq(Entries)]

EmptyTable == [l \in ListNames |-> <<>>]

\* getOrCreateMetadata(): a class met for the first time is a table without a name.
Known(m) == IF m = NoMeta THEN EmptyTable ELSE m

\* The entityType is 'table' from then on: a class decorator adds its record to a
\* list 'entity' of the table, which nobody reads, so a @View is a table too.
IsTable(m) == m # NoMeta

PropsOf(s)   == {s[i].prop : i \in DOMAIN s}
ColumnsOf(m) == PropsOf(m.columns)

\* What the caller's uniqueness check says: is the property, or the entry, there?
HasProp(m, l, p)  == p \in PropsOf(Known(m)[l])
HasEntry(m, l, x) == x \in ToSet(Known(m)[l])

AddMetadata(m, l, x, present) ==
  IF present THEN Known(m) ELSE [Known(m) EXCEPT ![l] = Append(@, x)]

\* findIndex(): the first entry of the property with these options, or 0.
IndexOfEntry(s, p, options) ==
  SelectInSeq(s, LAMBDA x : x.prop = p /\ options \subseteq x.attrs)

\* splice(): that entry goes, if there is one.
WithoutFirst(s, p, options) ==
  LET i == IndexOfEntry(s, p, options) IN IF i = 0 THEN s ELSE RemoveAt(s, i)

RemoveMetadata(m, l, p) == [Known(m) EXCEPT ![l] = WithoutFirst(@, p, {})]

-----------------------------------------------------------------------------
(* The decorators                                                          *)

\* A property decorator validates its options, makes an entry and adds it unless
\* the property has one.
PropertyDecorator(m, l, x) == AddMetadata(m, l, x, HasProp(m, l, x.prop))

Column(m, p, n, a) == PropertyDecorator(m, "columns", Entry(p, n, a \cup {"typed"}))

PrimaryKeyAloneMutant(m, p, n) ==
  PropertyDecorator(m, "primaryKeys", Entry(p, n, {"typed"}))

\* @PrimaryKey and @ForeignKey make the property a column as well, of the same name; of
\* the property's if the key has none.
PrimaryKey(m, p, n) ==
  PropertyDecorator(PropertyDecorator(m, "primaryKeys", Entry(p, n, {"typed"})),
                    "columns", Entry(p, NameOr(n, p), {"typed"}))

ForeignKey(m, p, n, a) ==
  PropertyDecorator(
    PropertyDecorator(m, "foreignKeys", Entry(p, n, {"referenced"} \cup (a \cap {"uneven"}))),
    "columns", Entry(p, NameOr(n, p), {"typed"}))

Check(m, p, n) ==
  LET x == Entry(p, NameOr(n, p), {"typed"})
  IN  AddMetadata(m, "constraints", x, HasEntry(m, "constraints", x))

Default(m, p) == PropertyDecorator(m, "defaultValues", Entry(p, NoName, {}))

Index(m, p, n, a) ==
  PropertyDecorator(m, "indexedColumns", Entry(p, NameOr(n, p), a \cap {"unique"}))

Relation(m, l, p) == PropertyDecorator(m, l, Entry(p, NoName, {}))

OneToOne(m, p)   == Relation(m, "oneToOneRelations", p)
OneToMany(m, p)  == Relation(m, "oneToManyRelations", p)
ManyToOne(m, p)  == Relation(m, "manyToOneRelations", p)
ManyToMany(m, p) == Relation(m, "manyToManyRelations", p)

\* The class decorators run after those of the properties.
ClassDecorator(m, l, a) ==
  LET x == Entry(NoProp, NoName, a) IN AddMetadata(m, l, x, HasEntry(m, l, x))

CompositeKey(m, keys) == IF keys = {} THEN m ELSE ClassDecorator(m, "compositeKeys", keys)
Entity(m, a) == ClassDecorator(m, "entity", a)
Table(m)     == ClassDecorator(m, "entity", {"table"})
View(m)      == ClassDecorator(m, "entity", {"view"})

DecoratorNames ==
  {"Column", "PrimaryKey", "ForeignKey", "Check", "Default", "Index", "OneToOne", "OneToMany",
   "ManyToOne", "ManyToMany", "CompositeKey", "Entity", "Table", "View"}
Decorators ==
  [dec : DecoratorNames, prop : PropOrNone, name : NameOrNone, attrs : SomeOptions]

Decorated(m, d) ==
  CASE d.dec = "Column"     -> Column(m, d.prop, d.name, d.attrs)
    [] d.dec = "PrimaryKey" -> PrimaryKey(m, d.prop, d.name)
    [] d.dec = "ForeignKey" -> ForeignKey(m, d.prop, d.name, d.attrs)
    [] d.dec = "Check"      -> Check(m, d.prop, d.name)
    [] d.dec = "Default"    -> Default(m, d.prop)
    [] d.dec = "Index"      -> Index(m, d.prop, d.name, d.attrs)
    [] d.dec = "OneToOne"   -> OneToOne(m, d.prop)
    [] d.dec = "OneToMany"  -> OneToMany(m, d.prop)
    [] d.dec = "ManyToOne"  -> ManyToOne(m, d.prop)
    [] d.dec = "ManyToMany" -> ManyToMany(m, d.prop)
    [] d.dec = "CompositeKey" -> CompositeKey(m, d.attrs)
    [] d.dec = "Entity"     -> Entity(m, d.attrs)
    [] d.dec = "Table"      -> Table(m)
    [] d.dec = "View"       -> View(m)

\* What a class definition leaves in the storage: body is the sequence of its
\* decorators.
DefinedClass(body) ==
  LET made[n \in 0..Len(body)] ==
        IF n = 0 THEN NoMeta ELSE Decorated(made[n - 1], body[n])
  IN made[Len(body)]

=============================================================================
