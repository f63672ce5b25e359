------------------------------- MODULE MCOrm -------------------------------
(* Two classes, the second registered alone or after the first. *)
EXTENDS Models, TLC

CONSTANTS e1, e2, p1, p2, other

N(d, p, n, a) == [dec |-> d, prop |-> p, name |-> n, attrs |-> a]
D(d, p, a) == N(d, p, NoName, a)
Key == N("PrimaryKey", p1, p1, {})

BodiesOf ==
  (e1 :> {<<Key, N("Column", p2, p2, {"unique"}), D("Table", NoProp, {})>>,
           <<D("Index", p2, {"unique"}), D("ForeignKey", p2, {}), D("Check", p2, {}), Key,
             D("Default", p1, {}), D("CompositeKey", NoProp, {p1})>>,
           <<N("PrimaryKey", p1, other, {}), D("OneToOne", p2, {}),
             D("OneToMany", p2, {}), D("ManyToOne", p2, {}), D("ManyToMany", p2, {}),
             D("ManyToMany", p2, {}), D("Entity", NoProp, {"table"})>>})
  @@ (e2 :> {<<>>, <<Key, D("View", NoProp, {})>>})

ListOf == <<e2, e1>>
FeatureLists == <<<<e1>>, <<e2, e1>>>>

C(op, p, o) == [op |-> op, prop |-> p, keys |-> {}, opts |-> o]
K(op, p, ks) == [op |-> op, prop |-> p, keys |-> ks, opts |-> NoOptions]
O(n, a) == [NoOptions EXCEPT !.name = n, !.attrs = a]

CallSet ==
  {C("addColumn", p1, [O(p1, {"primary"}) EXCEPT !.prop = p1]), C("addColumn", p2, O(NotGiven, {"unique", "default"})),
   C("addColumn", p2, O(p1, {})), C("addColumn", p1, O(other, {})),
   C("updateColumn", p1, O(p1, {"unique"})),
   C("updateColumn", p2, [NoOptions EXCEPT !.prop = p1, !.cleared = {"unique", "typed"}]),
   K("setPrimaryKeys", p2, {p1}), C("setPrimaryKeys", p1, [O(NoName, {}) EXCEPT !.prop = p2]),
   C("setForeignKey", p1, O(NotGiven, {"referenced"})), C("setForeignKey", p2, O(NotGiven, {"referenced", "uneven"})),
   C("setIndex", p1, O(NotGiven, {"unique"})), C("setConstraint", p2, O(NoName, {}))}
  \cup {K(op, p1, {}) : op \in
         {"removeColumn", "removeDefaultValue", "removeIndex", "setUniqueConstraint", "setOneToMany",
          "setManyToOne", "setManyToMany", "setOneToOne", "setOneToOneUnique"}}
  \cup {K(op, p2, {}) : op \in
         {"removeColumn", "setDefaultValue", "removeForeignKey", "setCheckConstraint",
          "setOneToOneFunctional"}}
  \cup {K(op, NoProp, {}) : op \in {"clearDefaultValues", "clearIndexes", "removePrimaryKey"}}
  \cup {K("setCompositeKey", NoProp, {p1, p2})}
=============================================================================
