---------------------------- MODULE Schema_proofs ----------------------------
(***************************************************************************)
(* The metadata of the entity classes and the calls of a Schema that change  *)
(* it: what the decorators and the handlers keep, whatever is called, for    *)
(* any entities, properties, class bodies and calls.                         *)
(***************************************************************************)
EXTENDS Schema, FiniteSetTheorems, SequenceTheorems, FunctionTheorems,
        WellFoundedInduction, TLAPS

-----------------------------------------------------------------------------
(* The least of a set of numbers, and the first entry of a list             *)

\* A set of natural numbers has a least element, and Min is that.
LEMMA MinOfNumbers ==
  ASSUME NEW S \in SUBSET Nat, S # {}
  PROVE  Min(S) \in S /\ \A n \in S : Min(S) <= n
<1> DEFINE R == {q \in Nat \X Nat : q[1] < q[2]}
<1>1. IsWellFoundedOn(R, Nat)
  BY NatLessThanWellFounded DEF OpToRel
<1> HIDE DEF R
<1>2. PICK m \in S : \A n \in S : <<n, m>> \notin R
  BY <1>1, WFMin, Zenon
<1>3. ASSUME NEW n \in S PROVE m <= n
  <2>1. m \in Nat /\ n \in Nat
    OBVIOUS
  <2>2. n < m => <<n, m>> \in R
    BY <2>1 DEF R
  <2>3. ~(n < m)
    BY <1>2, <2>2
  <2> QED
    BY <2>1, <2>3
<1>4. Min(S) \in S /\ \A n \in S : Min(S) <= n
  <2>1. \E x \in S : \A y \in S : x =< y
    BY <1>3
  <2> QED
    BY Zenon, <2>1 DEF Min
<1> QED
  BY <1>4

\* The places of a list at which an entry of a property with some options is.
Matches(s, p, options) == {i \in 1..Len(s) : s[i].prop = p /\ options \subseteq s[i].attrs}

\* findIndex() returns the first of them, and 0 when there is none.
LEMMA FirstMatch ==
  ASSUME NEW s, Len(s) \in Nat, NEW p, NEW options
  PROVE  /\ Matches(s, p, options) = {} => IndexOfEntry(s, p, options) = 0
         /\ Matches(s, p, options) # {} => IndexOfEntry(s, p, options) \in Matches(s, p, options)
<1>1. IndexOfEntry(s, p, options) =
        IF Matches(s, p, options) # {} THEN Min(Matches(s, p, options)) ELSE 0
  BY Zenon DEF IndexOfEntry, SelectInSeq, Matches
<1>2. Matches(s, p, options) \subseteq Nat
  BY DEF Matches
<1>3. Matches(s, p, options) # {} => Min(Matches(s, p, options)) \in Matches(s, p, options)
  BY Zenon, <1>2, MinOfNumbers
<1> QED
  BY Zenon, <1>1, <1>3

\* A list without the entry at one place: those before it and those behind it.
LEMMA RemovedAt ==
  ASSUME NEW S, NEW s \in Seq(S), NEW p \in 1..Len(s)
  PROVE  /\ RemoveAt(s, p) \in Seq(S) /\ Len(RemoveAt(s, p)) = Len(s) - 1
         /\ \A i \in 1..(p - 1) : RemoveAt(s, p)[i] = s[i]
         /\ \A i \in p..(Len(s) - 1) : RemoveAt(s, p)[i] = s[i + 1]
<1> DEFINE n == Len(s)
           a == SubSeq(s, 1, p - 1)
           b == SubSeq(s, p + 1, n)
           new == a \o b
<1>1. n \in Nat /\ DOMAIN s = 1..n /\ \A i \in 1..n : s[i] \in S
  BY LenProperties, ElementOfSeq
<1>2. p \in 1..n
  OBVIOUS
<1>3. /\ a \in Seq(S) /\ Len(a) = p - 1
      /\ \A i \in 1..(p - 1) : a[i] = s[i]
  <2>1. \A i \in 1..(p - 1) : s[i] \in S
    BY <1>1, <1>2
  <2> QED
    BY <1>2, <2>1, SubSeqProperties
<1>4. /\ b \in Seq(S) /\ Len(b) = n - p
      /\ \A i \in 1..(n - p) : b[i] = s[p + i]
  <2>1. \A i \in (p + 1)..n : s[i] \in S
    BY <1>1, <1>2
  <2>2. p + 1 \in Int /\ n \in Int
    BY <1>1, <1>2
  <2>3. /\ b \in Seq(S)
        /\ Len(b) = IF p + 1 <= n THEN n - (p + 1) + 1 ELSE 0
        /\ \A i \in 1..(n - (p + 1) + 1) : b[i] = s[p + 1 + i - 1]
    BY SMTT(30), <2>1, <2>2, SubSeqProperties
  <2> HIDE DEF b
  <2>4. Len(b) = n - p
    <3> HIDE DEF n
    <3>1. p \in Int /\ n \in Int /\ p <= n
      BY <1>1, <1>2
    <3> QED
      BY <2>3, <3>1
  <2>5. ASSUME NEW i \in 1..(n - p) PROVE b[i] = s[p + i]
    <3>1. n - (p + 1) + 1 = n - p /\ p + 1 + i - 1 = p + i
      BY <1>1, <1>2
    <3> QED
      BY <2>3, <3>1
  <2> QED
    BY <2>3, <2>4, <2>5
<1> HIDE DEF a, b
<1>5. /\ new \in Seq(S) /\ Len(new) = Len(a) + Len(b)
      /\ \A i \in 1..(Len(a) + Len(b)) : new[i] = IF i <= Len(a) THEN a[i] ELSE b[i - Len(a)]
  BY <1>3, <1>4, ConcatProperties
<1>6. RemoveAt(s, p) = new
  BY DEF RemoveAt, a, b
<1> HIDE DEF new, n
<1>7. Len(new) = n - 1
  BY <1>1, <1>2, <1>3, <1>4, <1>5
<1>8. \A i \in 1..(p - 1) : new[i] = s[i]
  BY <1>1, <1>2, <1>3, <1>5, <1>7
<1>9. ASSUME NEW i \in p..(n - 1) PROVE new[i] = s[i + 1]
  <2>1. i \in 1..Len(new) /\ ~(i <= Len(a)) /\ i - Len(a) \in 1..(n - p)
        /\ p + (i - Len(a)) = i + 1
    BY <1>1, <1>2, <1>3, <1>7
  <2> QED
    BY <1>4, <1>5, <2>1
<1> QED
  BY <1>5, <1>6, <1>7, <1>8, <1>9 DEF n

-----------------------------------------------------------------------------
(* What happens to the entries of a list                                    *)

\* The places of the entries of a property, and how many there are.
At(s, q)    == {i \in DOMAIN s : s[i].prop = q}
EntriesOf(s, q) == Cardinality(At(s, q))

\* List t is what a change on account of property p may leave of list s: it has no
\* fewer entries of any other property.
Spares(s, t, p) == t \in Seq(Entries) /\ \A q : q # p => EntriesOf(s, q) <= EntriesOf(t, q)

\* The entries of a property are finitely many.
LEMMA AtFinite ==
  ASSUME NEW s \in Seq(Entries), NEW q
  PROVE  IsFiniteSet(At(s, q)) /\ EntriesOf(s, q) \in Nat
<1>1. DOMAIN s = 1..Len(s) /\ Len(s) \in Nat
  BY LenProperties
<1>2. IsFiniteSet(1..Len(s))
  BY <1>1, FS_Interval
<1>3. IsFiniteSet(At(s, q))
  BY <1>1, <1>2, FS_Subset DEF At
<1> QED
  BY <1>3, FS_CardinalityType DEF EntriesOf

\* A list that has the entries of q, each at a place of its own, has as many.
LEMMA CountInjected ==
  ASSUME NEW s \in Seq(Entries), NEW t \in Seq(Entries), NEW q,
         NEW f \in [At(s, q) -> At(t, q)], IsInjective(f)
  PROVE  EntriesOf(s, q) <= EntriesOf(t, q)
<1>1. IsFiniteSet(At(t, q)) /\ IsFiniteSet(At(s, q))
  BY AtFinite
<1>2. f \in Injection(At(s, q), At(t, q))
  BY DEF Injection
<1>3. Cardinality(At(s, q)) <= Cardinality(At(t, q))
  BY <1>1, <1>2, FS_Injection
<1> QED
  BY <1>3 DEF EntriesOf

\* A list is spared when nothing happens to it.
LEMMA SparedAsItIs ==
  ASSUME NEW s \in Seq(Entries), NEW p PROVE Spares(s, s, p)
<1>1. \A q : EntriesOf(s, q) \in Nat
  BY AtFinite
<1>2. \A n \in Nat : n <= n
  OBVIOUS
<1> QED
  BY Zenon, <1>1, <1>2 DEF Spares

\* Two changes on account of the same property.
LEMMA SparedTwice ==
  ASSUME NEW s \in Seq(Entries), NEW t, NEW u, NEW p, Spares(s, t, p), Spares(t, u, p)
  PROVE  Spares(s, u, p)
<1>1. t \in Seq(Entries) /\ u \in Seq(Entries)
  BY DEF Spares
<1>2. ASSUME NEW q, q # p PROVE EntriesOf(s, q) <= EntriesOf(u, q)
  <2>1. EntriesOf(s, q) \in Nat /\ EntriesOf(t, q) \in Nat /\ EntriesOf(u, q) \in Nat
    BY <1>1, AtFinite
  <2>2. EntriesOf(s, q) <= EntriesOf(t, q) /\ EntriesOf(t, q) <= EntriesOf(u, q)
    BY Zenon, <1>2 DEF Spares
  <2> QED
    BY <2>1, <2>2
<1> QED
  BY <1>1, <1>2 DEF Spares

\* One list behind another: the entries of both.
LEMMA SparedByConcat ==
  ASSUME NEW s \in Seq(Entries), NEW t \in Seq(Entries), NEW p
  PROVE  /\ Spares(s, s \o t, p)
         /\ PropsOf(s \o t) = PropsOf(s) \cup PropsOf(t)
<1> DEFINE n == Len(s)
           k == Len(t)
           new == s \o t
<1>1. /\ new \in Seq(Entries) /\ Len(new) = n + k
      /\ \A i \in 1..(n + k) : new[i] = IF i <= n THEN s[i] ELSE t[i - n]
  BY ConcatProperties
<1>2. /\ n \in Nat /\ k \in Nat /\ DOMAIN s = 1..n /\ DOMAIN t = 1..k
      /\ DOMAIN new = 1..Len(new)
  BY <1>1, LenProperties
<1> HIDE DEF new, n, k
<1>3. \A i \in 1..n : i \in 1..(n + k) /\ new[i] = s[i]
  BY <1>1, <1>2
<1>4. \A j \in 1..k : j + n \in 1..(n + k) /\ new[j + n] = t[j]
  <2>1. ASSUME NEW j \in 1..k PROVE j + n \in 1..(n + k) /\ ~(j + n <= n) /\ (j + n) - n = j
    BY <1>2
  <2> QED
    BY <1>1, <2>1
<1>5. \A i \in 1..(n + k) : i \in 1..n \/ i - n \in 1..k
  BY <1>2
<1>6. ASSUME NEW q PROVE EntriesOf(s, q) <= EntriesOf(new, q)
  <2>1. At(s, q) \subseteq At(new, q)
    BY <1>1, <1>2, <1>3 DEF At
  <2>2. IsFiniteSet(At(new, q))
    BY <1>1, AtFinite
  <2> QED
    BY <2>1, <2>2, FS_Subset DEF EntriesOf
<1>7. PropsOf(new) = PropsOf(s) \cup PropsOf(t)
  <2>1. ASSUME NEW i \in 1..(n + k) PROVE new[i].prop \in PropsOf(s) \cup PropsOf(t)
    <3>1. CASE i <= n
      <4>1. i \in 1..n
        BY <1>2, <3>1
      <4>2. new[i] = s[i]
        BY <1>3, <4>1
      <4> QED
        BY <1>2, <4>1, <4>2 DEF PropsOf
    <3>2. CASE ~(i <= n)
      <4>1. i - n \in 1..k /\ new[i] = t[i - n]
        BY <1>1, <1>2, <3>2
      <4> QED
        BY <1>2, <4>1 DEF PropsOf
    <3> QED
      BY <3>1, <3>2
  <2>2. PropsOf(new) \subseteq PropsOf(s) \cup PropsOf(t)
    BY <1>1, <1>2, <2>1 DEF PropsOf
  <2>3. PropsOf(s) \subseteq PropsOf(new)
    BY <1>1, <1>2, <1>3 DEF PropsOf
  <2>4. PropsOf(t) \subseteq PropsOf(new)
    <3>1. ASSUME NEW j \in 1..k PROVE t[j].prop \in PropsOf(new)
      <4>1. j + n \in DOMAIN new /\ new[j + n] = t[j]
        BY <1>1, <1>2, <1>4
      <4>2. new[j + n].prop \in PropsOf(new)
        BY Zenon, <4>1 DEF PropsOf
      <4> QED
        BY <4>1, <4>2
    <3> QED
      BY <1>2, <3>1 DEF PropsOf
  <2> QED
    BY <2>2, <2>3, <2>4
<1> QED
  BY <1>1, <1>6, <1>7 DEF Spares, new

\* One entry more.
LEMMA SparedByAppend ==
  ASSUME NEW s \in Seq(Entries), NEW x \in Entries, NEW p
  PROVE  /\ Spares(s, Append(s, x), p)
         /\ PropsOf(Append(s, x)) = PropsOf(s) \cup {x.prop}
<1>1. Append(s, x) = s \o <<x>>
  BY AppendIsConcat
<1>2. <<x>> \in Seq(Entries)
  OBVIOUS
<1>3. PropsOf(<<x>>) = {x.prop}
  BY DEF PropsOf
<1> QED
  BY <1>1, <1>2, <1>3, SparedByConcat

\* Without its first match a list has all entries of the other properties.
LEMMA SparedByRemoval ==
  ASSUME NEW s \in Seq(Entries), NEW p, NEW options
  PROVE  /\ Spares(s, WithoutFirst(s, p, options), p)
         /\ PropsOf(WithoutFirst(s, p, options)) \subseteq PropsOf(s)
<1> DEFINE i == IndexOfEntry(s, p, options)
           new == WithoutFirst(s, p, options)
<1>1. Len(s) \in Nat /\ DOMAIN s = 1..Len(s)
  BY LenProperties
<1>2. i = 0 \/ i \in Matches(s, p, options)
  BY Zenon, <1>1, FirstMatch
<1>3. CASE i = 0
  <2>1. new = s
    BY <1>3 DEF WithoutFirst
  <2> QED
    BY <2>1, SparedAsItIs
<1>4. CASE i \in Matches(s, p, options)
  <2> HIDE DEF i
  <2>1. i \in 1..Len(s) /\ s[i].prop = p
    BY <1>4 DEF Matches
  <2>2. new = RemoveAt(s, i)
    <3>1. i # 0
      BY <1>1, <2>1
    <3> QED
      BY <3>1 DEF WithoutFirst, i
  <2> HIDE DEF new
  <2>3. /\ new \in Seq(Entries) /\ Len(new) = Len(s) - 1
        /\ \A j \in 1..(i - 1) : new[j] = s[j]
        /\ \A j \in i..(Len(s) - 1) : new[j] = s[j + 1]
    BY <2>1, <2>2, RemovedAt
  <2>4. DOMAIN new = 1..(Len(s) - 1)
    BY <2>3, LenProperties
  <2>5. ASSUME NEW q, q # p PROVE EntriesOf(s, q) <= EntriesOf(new, q)
    <3> DEFINE f == [j \in At(s, q) |-> IF j < i THEN j ELSE j - 1]
    <3>1. ASSUME NEW j \in At(s, q)
          PROVE  j \in 1..Len(s) /\ j # i /\ f[j] \in At(new, q)
      <4>1. j \in 1..Len(s) /\ s[j].prop = q
        BY <1>1 DEF At
      <4>2. j # i
        BY <2>1, <2>5, <4>1
      <4>3. CASE j < i
        <5>1. j \in 1..(i - 1) /\ j \in 1..(Len(s) - 1)
          BY <1>1, <2>1, <4>1, <4>3
        <5> QED
          BY <2>3, <2>4, <4>1, <4>2, <4>3, <5>1 DEF At
      <4>4. CASE ~(j < i)
        <5>1. j - 1 \in i..(Len(s) - 1) /\ (j - 1) + 1 = j /\ j - 1 \in 1..(Len(s) - 1)
          BY <1>1, <2>1, <4>1, <4>2, <4>4
        <5>2. new[j - 1] = s[j]
          BY <2>3, <5>1
        <5> QED
          BY <2>4, <4>1, <4>2, <4>4, <5>1, <5>2 DEF At
      <4> QED
        BY <4>3, <4>4
    <3>2. f \in [At(s, q) -> At(new, q)]
      BY <3>1
    <3>3. IsInjective(f)
      <4>1. \A j \in At(s, q) : f[j] = IF j < i THEN j ELSE j - 1
        OBVIOUS
      <4>2. DOMAIN f = At(s, q)
        OBVIOUS
      <4>3. \A j, k \in 1..Len(s) : j # i /\ k # i
              /\ (IF j < i THEN j ELSE j - 1) = (IF k < i THEN k ELSE k - 1) => j = k
        BY <1>1, <2>1
      <4> QED
        BY <3>1, <4>1, <4>2, <4>3 DEF IsInjective
    <3> HIDE DEF f
    <3> QED
      BY <2>3, <3>2, <3>3, CountInjected
  <2>6. PropsOf(new) \subseteq PropsOf(s)
    <3>1. ASSUME NEW j \in 1..(Len(s) - 1) PROVE \E k \in 1..Len(s) : new[j] = s[k]
      <4>1. CASE j < i
        BY <1>1, <2>1, <2>3, <4>1
      <4>2. CASE ~(j < i)
        <5>1. j \in i..(Len(s) - 1) /\ j + 1 \in 1..Len(s)
          BY <1>1, <2>1, <4>2
        <5> QED
          BY <2>3, <5>1
      <4> QED
        BY <4>1, <4>2
    <3> QED
      BY <1>1, <2>4, <3>1 DEF PropsOf
  <2> QED
    BY <2>3, <2>5, <2>6 DEF Spares, new
<1> QED
  BY <1>2, <1>3, <1>4

\* What the options of a caller replace of an entry; they keep its property when they give
\* none, or the same.
LEMMA OverTyped ==
  ASSUME NEW x \in Entries, NEW o \in Given
  PROVE  /\ Over(x, o) \in Entries
         /\ o.prop \in {NotGiven, x.prop} => Over(x, o).prop = x.prop
<1> DEFINE p == IF o.prop = NotGiven THEN x.prop ELSE o.prop
           n == IF o.name = NotGiven THEN x.name ELSE o.name
           a == (x.attrs \ o.cleared) \cup o.attrs
<1>1. p \in PropOrNone /\ n \in NameOrNone /\ a \in SomeOptions
  BY DEF Entries, Given, SomeOptions
<1>2. Over(x, o) = [prop |-> p, name |-> n, attrs |-> a]
  BY DEF Over, Entry
<1>3. o.prop \in {NotGiven, x.prop} => p = x.prop
  OBVIOUS
<1> HIDE DEF p, n, a
<1> QED
  BY <1>1, <1>2, <1>3 DEF Entries

\* New options of an entry leave those of the other properties; and its own property, unless
\* they give another.
LEMMA SparedByAssignment ==
  ASSUME NEW s \in Seq(Entries), NEW p, NEW options, NEW o \in Given
  PROVE  /\ Spares(s, Assigned(s, p, options, o), p)
         /\ o.prop \in {NotGiven, p} => PropsOf(Assigned(s, p, options, o)) = PropsOf(s)
<1> DEFINE i == IndexOfEntry(s, p, options)
           new == Assigned(s, p, options, o)
<1>1. Len(s) \in Nat /\ DOMAIN s = 1..Len(s)
  BY LenProperties
<1>2. i = 0 \/ i \in Matches(s, p, options)
  BY Zenon, <1>1, FirstMatch
<1>3. CASE i = 0
  <2>1. new = s
    BY <1>3 DEF Assigned
  <2> QED
    BY <2>1, SparedAsItIs
<1>4. CASE i \in Matches(s, p, options)
  <2> HIDE DEF i
  <2>1. i \in 1..Len(s) /\ s[i].prop = p
    BY <1>4 DEF Matches
  <2>2. new = [s EXCEPT ![i] = Over(s[i], o)]
    <3>1. i # 0
      BY <1>1, <2>1
    <3> QED
      BY <3>1 DEF Assigned, i
  <2> HIDE DEF new
  <2>3. s[i] \in Entries
    BY <2>1, ElementOfSeq
  <2>4. PICK x \in Entries : x = Over(s[i], o) /\ (o.prop \in {NotGiven, p} => x.prop = s[i].prop)
    BY Zenon, <2>1, <2>3, OverTyped
  <2>5. new = [s EXCEPT ![i] = x]
    BY <2>2, <2>4
  <2>6. /\ new \in Seq(Entries) /\ Len(new) = Len(s)
        /\ \A j \in 1..Len(s) : new[j] = IF j = i THEN x ELSE s[j]
    BY ONLY <2>1, <2>4, <2>5, ExceptSeq, s \in Seq(Entries)
  <2>7. DOMAIN new = 1..Len(s)
    BY <2>6, LenProperties
  <2>8. ASSUME o.prop \in {NotGiven, p} PROVE PropsOf(new) = PropsOf(s)
    <3>1. \A j \in 1..Len(s) : new[j].prop = s[j].prop
      BY <2>4, <2>6, <2>8
    <3> QED
      BY <1>1, <2>7, <3>1 DEF PropsOf
  <2>9. ASSUME NEW q, q # p PROVE EntriesOf(s, q) <= EntriesOf(new, q)
    <3>1. At(s, q) \subseteq At(new, q)
      BY <1>1, <2>1, <2>6, <2>7, <2>9 DEF At
    <3>2. IsFiniteSet(At(new, q))
      BY <2>6, AtFinite
    <3> QED
      BY <3>1, <3>2, FS_Subset DEF EntriesOf
  <2> QED
    BY <2>6, <2>8, <2>9 DEF Spares, new
<1> QED
  BY <1>2, <1>3, <1>4

-----------------------------------------------------------------------------
(* What happens to the lists of an entity                                   *)

\* Metadata n is what a change on account of property p may leave of metadata m.
Alters(m, n, p) == IsTableMeta(n) /\ \A l \in ListNames : Spares(m[l], n[l], p)

\* Every primary key is of a column, and a change from m to n leaves it at that.
KeysOfColumns(m) == PropsOf(m.primaryKeys) \subseteq ColumnsOf(m)
KeysKept(m, n)   == KeysOfColumns(m) => KeysOfColumns(n)

\* The lists, and what an entry is.
LEMMA ListsTyped ==
  ASSUME NEW m, IsTableMeta(m)
  PROVE  /\ \A l \in ListNames : m[l] \in Seq(Entries)
         /\ IsTable(m)
  BY MetadataAssumption DEF IsTableMeta, IsTable

\* An entry made of a property, a name and options.
LEMMA EntryTyped ==
  ASSUME NEW p \in PropOrNone, NEW n \in NameOrNone, NEW a \in SomeOptions
  PROVE  Entry(p, n, a) \in Entries /\ Entry(p, n, a).prop = p
  BY DEF Entry, Entries

\* A property may stand as a name, and so may none.
LEMMA NamesTyped ==
  /\ NoProp \in PropOrNone /\ NoName \in NameOrNone
  /\ \A p \in PropOrNone : p \in NameOrNone
  /\ \A n \in NameOrNone, p \in PropOrNone : NameOr(n, p) \in NameOrNone
  BY DEF PropOrNone, NameOrNone, Names, NoName, NameOr

\* The metadata as it is.
LEMMA AltersNothing ==
  ASSUME NEW m, IsTableMeta(m), NEW p PROVE Alters(m, m, p) /\ KeysKept(m, m)
  BY Zenon, ListsTyped, SparedAsItIs DEF Alters, KeysKept

\* One list changes.
LEMMA AltersOne ==
  ASSUME NEW m, IsTableMeta(m), NEW l \in ListNames, NEW s, NEW p, Spares(m[l], s, p)
  PROVE  Alters(m, [m EXCEPT ![l] = s], p)
<1> DEFINE n == [m EXCEPT ![l] = s]
<1>1. s \in Seq(Entries)
  BY DEF Spares
<1>2. IsTableMeta(n)
  BY <1>1 DEF IsTableMeta
<1>3. n[l] = s /\ \A k \in ListNames : k # l => n[k] = m[k]
  BY DEF IsTableMeta
<1> HIDE DEF n
<1>4. ASSUME NEW k \in ListNames PROVE Spares(m[k], n[k], p)
  <2>1. CASE k = l
    BY Zenon, <1>3, <2>1
  <2>2. CASE k # l
    <3>1. Spares(m[k], m[k], p)
      BY Zenon, ListsTyped, SparedAsItIs
    <3> QED
      BY Zenon, <1>3, <2>2, <3>1
  <2> QED
    BY <2>1, <2>2
<1> QED
  BY <1>2, <1>4 DEF Alters, n

\* A change of a list that is neither the columns nor the keys keeps the keys.
LEMMA KeptElsewhere ==
  ASSUME NEW m, IsTableMeta(m), NEW l \in ListNames, NEW s,
         l # "columns", l # "primaryKeys"
  PROVE  KeysKept(m, [m EXCEPT ![l] = s])
<1> DEFINE n == [m EXCEPT ![l] = s]
<1>1. n.columns = m.columns /\ n.primaryKeys = m.primaryKeys
  BY DEF IsTableMeta, ListNames
<1> HIDE DEF n
<1> QED
  BY Zenon, <1>1 DEF KeysKept, KeysOfColumns, ColumnsOf, n

\* The lists a column fills change together.
WithLists(m, c, k, x, d) ==
  [m EXCEPT !.columns = c, !.primaryKeys = k, !.indexedColumns = x, !.defaultValues = d]

\* They are all that changes.
LEMMA AltersColumn ==
  ASSUME NEW m, IsTableMeta(m), NEW p, NEW c, NEW k, NEW x, NEW d,
         Spares(m.columns, c, p), Spares(m.primaryKeys, k, p),
         Spares(m.indexedColumns, x, p), Spares(m.defaultValues, d, p)
  PROVE  /\ Alters(m, WithLists(m, c, k, x, d), p)
         /\ WithLists(m, c, k, x, d).columns = c /\ WithLists(m, c, k, x, d).primaryKeys = k
<1> DEFINE n == WithLists(m, c, k, x, d)
<1>1. c \in Seq(Entries) /\ k \in Seq(Entries) /\ x \in Seq(Entries) /\ d \in Seq(Entries)
  BY DEF Spares
<1>2. IsTableMeta(n)
  BY <1>1 DEF IsTableMeta, ListNames, WithLists
<1>3. /\ n.columns = c /\ n.primaryKeys = k /\ n.indexedColumns = x /\ n.defaultValues = d
      /\ \A l \in ListNames : l \notin {"columns", "primaryKeys", "indexedColumns", "defaultValues"}
                                => n[l] = m[l]
  BY DEF IsTableMeta, ListNames, WithLists
<1> HIDE DEF n
<1>4. ASSUME NEW l \in ListNames PROVE Spares(m[l], n[l], p)
  <2>1. CASE l \in {"columns", "primaryKeys", "indexedColumns", "defaultValues"}
    BY Zenon, <1>3, <2>1
  <2>2. CASE l \notin {"columns", "primaryKeys", "indexedColumns", "defaultValues"}
    <3>1. Spares(m[l], m[l], p)
      BY Zenon, ListsTyped, SparedAsItIs
    <3> QED
      BY Zenon, <1>3, <2>2, <3>1
  <2> QED
    BY <2>1, <2>2
<1> QED
  BY <1>2, <1>3, <1>4 DEF Alters, n

-----------------------------------------------------------------------------
(* The handlers                                                            *)

\* An entry pushed into a list.
LEMMA PushedEntry ==
  ASSUME NEW m, IsTableMeta(m), NEW l \in ListNames, NEW x \in Entries, NEW r
  PROVE  /\ Alters(m, Pushed(m, l, x), r)
         /\ l \notin {"columns", "primaryKeys"} => KeysKept(m, Pushed(m, l, x))
<1>1. Pushed(m, l, x) = [m EXCEPT ![l] = Append(m[l], x)]
  BY ListsTyped DEF Pushed
<1>2. Spares(m[l], Append(m[l], x), r)
  BY ListsTyped, SparedByAppend
<1>3. Alters(m, [m EXCEPT ![l] = Append(m[l], x)], r)
  BY Zenon, <1>2, AltersOne
<1>4. l \notin {"columns", "primaryKeys"} => KeysKept(m, [m EXCEPT ![l] = Append(m[l], x)])
  BY Zenon, KeptElsewhere
<1> QED
  BY Zenon, <1>1, <1>3, <1>4

\* The options some handlers and decorators give an entry.
LEMMA FixedOptions ==
  /\ {} \in SomeOptions /\ {"unique"} \in SomeOptions /\ {"typed"} \in SomeOptions
  /\ {"typed", "unique"} \in SomeOptions /\ {"table"} \in SomeOptions /\ {"view"} \in SomeOptions
  /\ \A a : a \cap {"unique"} \in SomeOptions
  /\ \A a : {"referenced"} \cup (a \cap {"uneven"}) \in SomeOptions
  /\ \A a \in SomeOptions : a \cup {"typed"} \in SomeOptions
  BY DEF SomeOptions, Options

\* An entry of a property with fixed options, as it is and with those of a caller over it.
LEMMA EntryOver ==
  ASSUME NEW p \in PropOrNone, NEW o \in Given
  PROVE  /\ \A a \in {{}, {"unique"}, {"typed"}, {"typed", "unique"}} :
              \A n \in {NoName, p} :
                /\ Entry(p, n, a) \in Entries /\ Entry(p, n, a).prop = p
                /\ Over(Entry(p, n, a), o) \in Entries
                /\ o.prop \in {NotGiven, p} => Over(Entry(p, n, a), o).prop = p
<1> SUFFICES ASSUME NEW a \in {{}, {"unique"}, {"typed"}, {"typed", "unique"}}, NEW n \in {NoName, p}
             PROVE  /\ Entry(p, n, a) \in Entries /\ Entry(p, n, a).prop = p
                    /\ Over(Entry(p, n, a), o) \in Entries
                    /\ o.prop \in {NotGiven, p} => Over(Entry(p, n, a), o).prop = p
  BY Zenon
<1>1. n \in NameOrNone
  BY NamesTyped
<1>2. a \in SomeOptions
  BY FixedOptions
<1>3. Entry(p, n, a) \in Entries /\ Entry(p, n, a).prop = p
  BY Zenon, <1>1, <1>2, EntryTyped
<1> QED
  BY Zenon, <1>3, OverTyped

\* The set of a sequence of distinct elements.
LEMMA SequenceOfSet ==
  ASSUME NEW S, IsFiniteSet(S) PROVE SetToSeq(S) \in Seq(S)
<1>1. Cardinality(S) \in Nat
  BY FS_CardinalityType
<1>2. \E f \in [1..Cardinality(S) -> S] : IsInjective(f)
  <2>1. PICK f : f \in Bijection(1..Cardinality(S), S)
    BY FS_CardinalityType DEF ExistsBijection
  <2>2. f \in [1..Cardinality(S) -> S] /\ IsInjective(f)
    BY <2>1 DEF Bijection, Injection
  <2> QED
    BY <2>2
<1>3. SetToSeq(S) \in [1..Cardinality(S) -> S]
  BY Zenon, <1>2 DEF SetToSeq
<1> HIDE DEF SetToSeq
<1> QED
  BY <1>1, <1>3

\* The setters that push an entry, with or without a test before.
LEMMA SetterAlters ==
  ASSUME NEW m, IsTableMeta(m), NEW p \in PropOrNone, NEW o \in Given,
         NEW nm \in NameOrNone, NEW ks \in SUBSET Props, NEW n,
         n \in {SetDefaultValue(m, p), SetIndex(m, p, o), SetForeignKey(m, p, o),
                SetConstraint(m, p, nm), SetUniqueConstraint(m, p), SetCheckConstraint(m, p),
                SetCompositeKey(m, ks), SetOneToMany(m, p, o), SetManyToOne(m, p, o),
                SetManyToMany(m, p, o), SetOneToOne(m, p, o), SetOneToOneUnique(m, p, o),
                SetOneToOneFunctional(m, p, o)}
  PROVE  Alters(m, n, p) /\ KeysKept(m, n)
<1> DEFINE Good(x) == Alters(m, x, p) /\ KeysKept(m, x)
<1>1. Good(m)
  BY Zenon, AltersNothing
<1>2. \A l \in ListNames, x \in Entries : l \notin {"columns", "primaryKeys"} => Good(Pushed(m, l, x))
  BY Zenon, PushedEntry
<1>3. Entry(p, NoName, {}) \in Entries /\ Over(Entry(p, p, {}), o) \in Entries
      /\ Over(Entry(p, NoName, {}), o) \in Entries /\ Over(Entry(p, NoName, {"unique"}), o) \in Entries
  BY EntryOver
<1>4. \A x : Good(x) => Good(OnColumn(m, p, x))
  BY Zenon, <1>1 DEF OnColumn
<1>5. \A x : PropertyDecorator(m, "foreignKeys", x) \in {m, Pushed(m, "foreignKeys", x)}
  BY Zenon, ListsTyped DEF PropertyDecorator, AddMetadata, Known, Pushed, IsTable
<1>14. Entry(p, nm, {"typed"}) \in Entries /\ Entry(p, p, {"typed"}) \in Entries
  BY EntryTyped, NamesTyped, FixedOptions
<1>15. Entry(NoProp, NoName, ks) \in Entries
  BY EntryTyped, NamesTyped DEF SomeOptions
<1> HIDE DEF Good
<1>6. /\ "defaultValues" \in ListNames /\ "indexedColumns" \in ListNames
      /\ "foreignKeys" \in ListNames /\ "constraints" \in ListNames
      /\ "compositeKeys" \in ListNames /\ "oneToManyRelations" \in ListNames
      /\ "manyToOneRelations" \in ListNames /\ "manyToManyRelations" \in ListNames
      /\ "oneToOneRelations" \in ListNames
  BY DEF ListNames, RelationLists
<1>7. Good(SetDefaultValue(m, p))
  BY <1>1, <1>2, <1>3, <1>4, <1>6 DEF SetDefaultValue
<1>8. Good(SetIndex(m, p, o))
  BY <1>1, <1>2, <1>3, <1>4, <1>6 DEF SetIndex
<1>9. Good(SetForeignKey(m, p, o))
  BY <1>1, <1>2, <1>3, <1>5, <1>6 DEF SetForeignKey
<1>10. Good(SetConstraint(m, p, nm)) /\ Good(SetUniqueConstraint(m, p)) /\ Good(SetCheckConstraint(m, p))
  BY <1>2, <1>6, <1>14 DEF SetConstraint, SetUniqueConstraint, SetCheckConstraint
<1>11. Good(SetCompositeKey(m, ks))
  BY <1>1, <1>2, <1>6, <1>15 DEF SetCompositeKey
<1>12. /\ Good(SetOneToMany(m, p, o)) /\ Good(SetManyToOne(m, p, o)) /\ Good(SetManyToMany(m, p, o))
       /\ Good(SetOneToOne(m, p, o)) /\ Good(SetOneToOneUnique(m, p, o))
       /\ Good(SetOneToOneFunctional(m, p, o))
  BY <1>2, <1>3, <1>6
  DEF SetOneToMany, SetManyToOne, SetManyToMany, SetOneToOne, SetOneToOneUnique,
      SetOneToOneFunctional, SetRelation
<1>13. Good(n)
  BY Zenon, <1>7, <1>8, <1>9, <1>10, <1>11, <1>12
<1> QED
  BY Zenon, <1>13 DEF Good

\* The removals of one default value, one index or one foreign key.
LEMMA RemoverAlters ==
  ASSUME NEW m, IsTableMeta(m), NEW p \in PropOrNone, NEW n,
         n \in {RemoveDefaultValue(m, p), RemoveIndex(m, p), RemoveForeignKey(m, p)}
  PROVE  Alters(m, n, p) /\ KeysKept(m, n)
<1>1. ASSUME NEW s, IsTableMeta(s), NEW l \in ListNames, l \notin {"columns", "primaryKeys"}
      PROVE  /\ Alters(s, [s EXCEPT ![l] = WithoutFirst(s[l], p, {})], p)
             /\ KeysKept(s, [s EXCEPT ![l] = WithoutFirst(s[l], p, {})])
  <2>1. Spares(s[l], WithoutFirst(s[l], p, {}), p)
    BY <1>1, ListsTyped, SparedByRemoval
  <2>2. l # "columns" /\ l # "primaryKeys"
    BY <1>1
  <2> QED
    BY Zenon, <1>1, <2>1, <2>2, AltersOne, KeptElsewhere
<1>2. /\ "defaultValues" \in ListNames /\ "indexedColumns" \in ListNames
      /\ "foreignKeys" \in ListNames
  BY DEF ListNames
<1>3. Alters(m, RemoveDefaultValue(m, p), p) /\ KeysKept(m, RemoveDefaultValue(m, p))
  <2>1. RemoveDefaultValue(m,
    p) = [m EXCEPT !["defaultValues"] = WithoutFirst(m["defaultValues"], p, {})]
    BY DEF RemoveDefaultValue, Without, IsTableMeta
  <2> QED
    BY <1>1, <1>2, <2>1
<1>4. Alters(m, RemoveIndex(m, p), p) /\ KeysKept(m, RemoveIndex(m, p))
  <2>1. RemoveIndex(m,
    p) = [m EXCEPT !["indexedColumns"] = WithoutFirst(m["indexedColumns"], p, {})]
    BY DEF RemoveIndex, Without, IsTableMeta
  <2> QED
    BY <1>1, <1>2, <2>1
<1>5. Alters(m, RemoveForeignKey(m, p), p) /\ KeysKept(m, RemoveForeignKey(m, p))
  <2> DEFINE s == Pushed(m, "foreignKeys", Entry(NoProp, NoName, {}))
             t == RemoveMetadata(s, "foreignKeys", p)
  <2>1. Entry(NoProp, NoName, {}) \in Entries
    BY EntryTyped, NamesTyped, FixedOptions
  <2>2. Alters(m, s, p) /\ KeysKept(m, s)
    BY <1>2, <2>1, PushedEntry
  <2>3. IsTableMeta(s)
    BY Zenon, <2>2 DEF Alters
  <2> HIDE DEF s
  <2>4. t = [s EXCEPT !["foreignKeys"] = WithoutFirst(s["foreignKeys"], p, {})]
    <3>1. Known(s) = s
      BY Zenon, <2>3, ListsTyped DEF Known, IsTable
    <3> QED
      BY <2>3, <3>1 DEF RemoveMetadata, IsTableMeta
  <2>5. Alters(s, t, p) /\ KeysKept(s, t)
    BY <1>1, <1>2, <2>3, <2>4
  <2> HIDE DEF t
  <2>6. \A l \in ListNames : Spares(m[l], t[l], p)
    <3> SUFFICES ASSUME NEW l \in ListNames PROVE Spares(m[l], t[l], p)
      OBVIOUS
    <3>1. m[l] \in Seq(Entries) /\ Spares(m[l], s[l], p) /\ Spares(s[l], t[l], p)
      BY Zenon, <2>2, <2>5, ListsTyped DEF Alters
    <3> QED
      BY Zenon, <3>1, SparedTwice
  <2>7. Alters(m, t, p) /\ KeysKept(m, t)
    BY Zenon, <2>2, <2>5, <2>6 DEF Alters, KeysKept
  <2> QED
    BY Zenon, <2>7 DEF s, t, RemoveForeignKey
<1> QED
  BY Zenon, <1>3, <1>4, <1>5

\* A new column comes with its key, its index and its default value, if it has them:
\* a key it makes is of the column it makes.
LEMMA AddColumnAlters ==
  ASSUME NEW m, IsTableMeta(m), NEW p \in PropOrNone, NEW o \in Given
  PROVE  /\ Alters(m, AddColumn(m, p, o), p)
         /\ o.prop \in {NotGiven, p} => KeysKept(m, AddColumn(m, p, o))
<1> DEFINE col == Over(Entry(p, NoName, {"typed"}), o)
           key == Over(Entry(p, NoName, {}), o)
           idx == Entry(p, p, {"unique"})
           def == Entry(p, NoName, {})
           c == Append(m.columns, col)
           k == IF "primary" \in o.attrs THEN Append(m.primaryKeys, key) ELSE m.primaryKeys
           x == IF "unique" \in o.attrs THEN Append(m.indexedColumns, idx) ELSE m.indexedColumns
           d == IF "default" \in o.attrs THEN Append(m.defaultValues, def) ELSE m.defaultValues
           n == WithLists(m, c, k, x, d)
<1>1. AddColumn(m, p, o) = n
  BY ListsTyped DEF AddColumn, WithLists
<1>2. /\ m.columns \in Seq(Entries) /\ m.primaryKeys \in Seq(Entries)
      /\ m.indexedColumns \in Seq(Entries) /\ m.defaultValues \in Seq(Entries)
  BY DEF IsTableMeta, ListNames
<1>3. /\ col \in Entries /\ key \in Entries /\ idx \in Entries /\ def \in Entries
      /\ o.prop \in {NotGiven, p} => col.prop = p /\ key.prop = p
  BY EntryOver
<1> HIDE DEF col, key, idx, def
<1>4. ASSUME NEW s \in Seq(Entries)
      PROVE  /\ Spares(s, s, p)
             /\ \A y \in Entries : /\ Spares(s, Append(s, y), p)
                                   /\ PropsOf(Append(s, y)) = PropsOf(s) \cup {y.prop}
  BY SparedAsItIs, SparedByAppend
<1>5. Spares(m.columns, c, p) /\ PropsOf(c) = PropsOf(m.columns) \cup {col.prop}
  BY <1>2, <1>3, <1>4
<1>6. Spares(m.primaryKeys, k, p) /\ PropsOf(k) \subseteq PropsOf(m.primaryKeys) \cup {key.prop}
  <2>1. CASE "primary" \in o.attrs
    BY <1>2, <1>3, <1>4, <2>1
  <2>2. CASE "primary" \notin o.attrs
    BY <1>2, <1>4, <2>2
  <2> QED
    BY <2>1, <2>2
<1>7. Spares(m.indexedColumns, x, p)
  <2>1. CASE "unique" \in o.attrs
    BY <1>2, <1>3, <1>4, <2>1
  <2>2. CASE "unique" \notin o.attrs
    BY <1>2, <1>4, <2>2
  <2> QED
    BY <2>1, <2>2
<1>8. Spares(m.defaultValues, d, p)
  <2>1. CASE "default" \in o.attrs
    BY <1>2, <1>3, <1>4, <2>1
  <2>2. CASE "default" \notin o.attrs
    BY <1>2, <1>4, <2>2
  <2> QED
    BY <2>1, <2>2
<1> HIDE DEF c, k, x, d
<1>9. Alters(m, n, p) /\ n.columns = c /\ n.primaryKeys = k
  BY <1>5, <1>6, <1>7, <1>8, AltersColumn
<1> HIDE DEF n
<1>10. ASSUME o.prop \in {NotGiven, p} PROVE KeysKept(m, n)
  <2>1. col.prop = key.prop
    BY <1>3, <1>10
  <2> QED
    BY <1>5, <1>6, <1>9, <2>1 DEF KeysKept, KeysOfColumns, ColumnsOf
<1> QED
  BY Zenon, <1>1, <1>9, <1>10

\* removeColumn() takes entries of its property only.
LEMMA RemoveColumnAlters ==
  ASSUME NEW m, IsTableMeta(m), NEW p \in PropOrNone
  PROVE  Alters(m, RemoveColumn(m, p), p)
<1> DEFINE c == WithoutFirst(m.columns, p, {})
           k == WithoutFirst(m.primaryKeys, p, {})
           x == WithoutFirst(m.indexedColumns, p, {"unique"})
           d == WithoutFirst(m.defaultValues, p, {})
           n == WithLists(m, c, k, x, d)
<1>1. RemoveColumn(m, p) \in {m, n}
  BY DEF RemoveColumn, OnColumn, Without, WithLists
<1>2. /\ m.columns \in Seq(Entries) /\ m.primaryKeys \in Seq(Entries)
      /\ m.indexedColumns \in Seq(Entries) /\ m.defaultValues \in Seq(Entries)
  BY DEF IsTableMeta, ListNames
<1>3. /\ Spares(m.columns, c, p) /\ Spares(m.primaryKeys, k, p)
      /\ Spares(m.indexedColumns, x, p) /\ Spares(m.defaultValues, d, p)
  BY <1>2, SparedByRemoval
<1> HIDE DEF c, k, x, d
<1>4. Alters(m, n, p)
  BY Zenon, <1>3, AltersColumn
<1> HIDE DEF n
<1> QED
  BY Zenon, <1>1, <1>4, AltersNothing

\* updateColumn() changes entries of its property only; and when its options give no other
\* property, each keeps its own.
LEMMA UpdateColumnAlters ==
  ASSUME NEW m, IsTableMeta(m), NEW p \in PropOrNone, NEW o \in Given
  PROVE  /\ Alters(m, UpdateColumn(m, p, o), p)
         /\ o.prop \in {NotGiven, p} => KeysKept(m, UpdateColumn(m, p, o))
<1> DEFINE c == Assigned(m.columns, p, {}, o)
           k == Assigned(m.primaryKeys, p, {}, o)
           x == Assigned(m.indexedColumns, p, {"unique"}, o)
           d == Assigned(m.defaultValues, p, {}, o)
           n == WithLists(m, c, k, x, d)
<1>1. UpdateColumn(m, p, o) \in {m, n}
  BY DEF UpdateColumn, OnColumn, WithLists
<1>2. /\ m.columns \in Seq(Entries) /\ m.primaryKeys \in Seq(Entries)
      /\ m.indexedColumns \in Seq(Entries) /\ m.defaultValues \in Seq(Entries)
  BY DEF IsTableMeta, ListNames
<1>3. \A b : \A s \in Seq(Entries) :
        /\ Spares(s, Assigned(s, p, b, o), p)
        /\ o.prop \in {NotGiven, p} => PropsOf(Assigned(s, p, b, o)) = PropsOf(s)
  BY SparedByAssignment
<1>4. /\ Spares(m.columns, c, p) /\ Spares(m.primaryKeys, k, p)
      /\ Spares(m.indexedColumns, x, p) /\ Spares(m.defaultValues, d, p)
      /\ o.prop \in {NotGiven, p}
           => PropsOf(c) = PropsOf(m.columns) /\ PropsOf(k) = PropsOf(m.primaryKeys)
  BY <1>2, <1>3
<1> HIDE DEF c, k, x, d
<1>5. Alters(m, n, p) /\ n.columns = c /\ n.primaryKeys = k
  BY <1>4, AltersColumn
<1> HIDE DEF n
<1>6. o.prop \in {NotGiven, p} => KeysKept(m, n)
  BY <1>4, <1>5 DEF KeysKept, KeysOfColumns, ColumnsOf
<1> QED
  BY Zenon, <1>1, <1>5, <1>6, AltersNothing

\* The keys that setPrimaryKey() accepts before the first it refuses are of columns.
LEMMA SetPrimaryKeysAlters ==
  ASSUME NEW m, IsTableMeta(m), NEW ps \in Seq(PropOrNone), NEW o \in Given, NEW r
  PROVE  /\ Alters(m, SetPrimaryKeys(m, ps, o), r)
         /\ o.prop \in {NotGiven, ps[1]} => KeysKept(m, SetPrimaryKeys(m, ps, o))
<1> DEFINE bad      == {i \in 1..Len(ps) : ps[i] \notin ColumnsOf(m)}
           refused  == SelectInSeq(ps, LAMBDA p : p \notin ColumnsOf(m))
           accepted == IF refused = 0 THEN Len(ps) ELSE refused - 1
           added    == [i \in 1..accepted |-> PrimaryKeyOf(ps[i], o)]
           k        == m.primaryKeys \o added
           n        == [m EXCEPT !["primaryKeys"] = k]
<1>1. SetPrimaryKeys(m, ps, o) = n
  <2>1. SetPrimaryKeys(m, ps, o) = [m EXCEPT !.primaryKeys = k]
    BY Zenon, ListsTyped DEF SetPrimaryKeys
  <2> QED
    BY Zenon, <2>1
<1>2. refused = IF bad # {} THEN Min(bad) ELSE 0
  BY Zenon DEF SelectInSeq
<1>3. Len(ps) \in Nat /\ \A i \in 1..Len(ps) : ps[i] \in PropOrNone
  BY LenProperties, ElementOfSeq
<1> HIDE DEF refused
<1>4. accepted \in Nat /\ \A i \in 1..accepted : i \in 1..Len(ps) /\ ps[i] \in ColumnsOf(m)
  <2>1. CASE bad = {}
    BY <1>2, <1>3, <2>1
  <2>2. CASE bad # {}
    <3>1. bad \subseteq Nat
      OBVIOUS
    <3>2. Min(bad) \in bad /\ \A i \in bad : Min(bad) <= i
      BY Zenon, <2>2, <3>1, MinOfNumbers
    <3>3. refused \in 1..Len(ps) /\ \A i \in 1..Len(ps) : i < refused => i \notin bad
      <4>1. refused = Min(bad)
        BY Zenon, <1>2, <2>2
      <4>2. refused \in bad /\ \A i \in bad : refused <= i
        BY Zenon, <3>2, <4>1
      <4> QED
        BY <1>3, <4>2
    <3> QED
      BY <1>3, <3>3
  <2> QED
    BY <2>1, <2>2
<1> HIDE DEF accepted, bad
<1>5. /\ added \in Seq(Entries)
      /\ o.prop \in {NotGiven, ps[1]} => PropsOf(added) \subseteq ColumnsOf(m)
  <2>1. ASSUME NEW i \in 1..accepted
        PROVE  /\ PrimaryKeyOf(ps[i], o) \in Entries
               /\ o.prop \in {NotGiven, ps[i]} => PrimaryKeyOf(ps[i], o).prop = ps[i]
               /\ o.prop # NotGiven => PrimaryKeyOf(ps[i], o).prop = o.prop
    <3>1. ps[i] \in PropOrNone
      BY <1>3, <1>4
    <3>2. o.prop # NotGiven => PrimaryKeyOf(ps[i], o).prop = o.prop
      BY DEF PrimaryKeyOf, Over, Entry
    <3> QED
      BY <3>1, <3>2, EntryOver DEF PrimaryKeyOf
  <2>2. added \in Seq(Entries)
    BY <1>4, <2>1
  <2>3. DOMAIN added = 1..accepted /\ \A i \in 1..accepted : added[i] = PrimaryKeyOf(ps[i], o)
    OBVIOUS
  <2> HIDE DEF added
  <2>4. ASSUME o.prop \in {NotGiven, ps[1]}, NEW i \in 1..accepted PROVE added[i].prop \in ColumnsOf(m)
    <3>1. CASE o.prop = NotGiven
      BY <1>4, <2>1, <2>3, <3>1
    <3>2. CASE o.prop # NotGiven
      <4>1. 1 \in 1..accepted
        BY <1>4
      <4>2. added[i].prop = ps[1]
        BY <2>1, <2>3, <2>4, <3>2
      <4> QED
        BY <1>4, <4>1, <4>2
    <3> QED
      BY <3>1, <3>2
  <2>5. o.prop \in {NotGiven, ps[1]} => PropsOf(added) \subseteq ColumnsOf(m)
    BY <2>3, <2>4 DEF PropsOf
  <2> QED
    BY <2>2, <2>5
<1> HIDE DEF added
<1>6. "primaryKeys" \in ListNames /\ m.primaryKeys \in Seq(Entries)
  BY DEF IsTableMeta, ListNames
<1>7. Spares(m["primaryKeys"], k,
  r) /\ PropsOf(k) = PropsOf(m.primaryKeys) \cup PropsOf(added)
  BY <1>5, <1>6, SparedByConcat
<1>8. n.columns = m.columns /\ n.primaryKeys = k
  BY DEF IsTableMeta, ListNames
<1> HIDE DEF k
<1>9. Alters(m, n, r)
  BY Zenon, <1>6, <1>7, AltersOne
<1> HIDE DEF n
<1>10. o.prop \in {NotGiven, ps[1]} => KeysKept(m, n)
  BY <1>5, <1>7, <1>8 DEF KeysKept, KeysOfColumns, ColumnsOf
<1> QED
  BY Zenon, <1>1, <1>9, <1>10

\* Clearing a list empties it and no other.
LEMMA ClearerEmpties ==
  ASSUME NEW m, IsTableMeta(m), NEW n,
         n \in {ClearDefaultValues(m), ClearIndexes(m), RemovePrimaryKey(m)}
  PROVE  /\ \E l \in ListNames : n = [m EXCEPT ![l] = <<>>]
         /\ IsTableMeta(n) /\ KeysKept(m, n)
<1>1. PICK l \in {"defaultValues", "indexedColumns",
  "primaryKeys"} : n = [m EXCEPT ![l] = <<>>]
  BY DEF ClearDefaultValues, ClearIndexes, RemovePrimaryKey
<1>2. l \in ListNames
  BY DEF ListNames
<1>3. IsTableMeta([m EXCEPT ![l] = <<>>])
  <2>1. <<>> \in Seq(Entries)
    OBVIOUS
  <2> QED
    BY <1>2, <2>1 DEF IsTableMeta
<1>4. KeysKept(m, n)
  <2>1. CASE l = "primaryKeys"
    <3>1. n.primaryKeys = <<>>
      BY <1>1, <2>1 DEF IsTableMeta, ListNames
    <3> QED
      BY <3>1 DEF KeysKept, KeysOfColumns, PropsOf
  <2>2. CASE l # "primaryKeys"
    <3>1. l # "columns"
      OBVIOUS
    <3> QED
      BY Zenon, <1>1, <1>2, <2>2, <3>1, KeptElsewhere
  <2> QED
    BY <2>1, <2>2
<1> QED
  BY <1>1, <1>2, <1>3, <1>4

\* The calls of the handlers.
HandlerCalls ==
  {c \in [op : Handlers, entity : Entities, prop : PropOrNone, keys : SUBSET Props, opts : Given] :
     c.op = "setConstraint" => c.opts.name # NotGiven}

\* Every call takes entries of its own property only, or empties one list; and one that
\* moves no column keeps every primary key on a column.
LEMMA PerformedCall ==
  ASSUME NEW m, IsTableMeta(m), NEW c \in HandlerCalls
  PROVE  /\ IsTableMeta(Performed(m, c))
         /\ \/ Alters(m, Performed(m, c), c.prop)
            \/ \E l \in ListNames : Performed(m, c) = [m EXCEPT ![l] = <<>>]
         /\ ~Moves(c) => KeysKept(m, Performed(m, c))
<1> DEFINE n == Performed(m, c)
           p == c.prop
           o == c.opts
           ks == c.keys
<1>1. c.op \in Handlers /\ p \in PropOrNone /\ o \in Given /\ ks \in SUBSET Props
  BY DEF HandlerCalls
<1>2. n = Performed(m, c)
  OBVIOUS
<1>10. ~Moves(c) => c.op # "removeColumn" /\ o.prop \in {NotGiven, p}
  BY DEF Moves
<1> HIDE DEF n, p, o, ks
<1>3. CASE c.op = "addColumn"
  <2>1. n = AddColumn(m, p, o)
    BY <1>2, <1>3 DEF Performed, p, o
  <2> QED
    BY Zenon, <1>1, <1>2, <1>10, <2>1, AddColumnAlters DEF Alters, p
<1>4. CASE c.op = "removeColumn"
  <2>1. n = RemoveColumn(m, p)
    BY <1>2, <1>4 DEF Performed, p
  <2> QED
    BY Zenon, <1>1, <1>2, <1>4, <1>10, <2>1, RemoveColumnAlters DEF Alters, p
<1>5. CASE c.op = "updateColumn"
  <2>1. n = UpdateColumn(m, p, o)
    BY <1>2, <1>5 DEF Performed, p, o
  <2> QED
    BY Zenon, <1>1, <1>2, <1>10, <2>1, UpdateColumnAlters DEF Alters, p
<1>6. CASE c.op \in {"setDefaultValue", "setIndex", "setForeignKey", "setConstraint",
                     "setUniqueConstraint", "setCheckConstraint", "setCompositeKey",
                     "setOneToMany", "setManyToOne", "setManyToMany", "setOneToOne",
                     "setOneToOneUnique", "setOneToOneFunctional"}
  <2> DEFINE nm == IF o.name = NotGiven THEN NoName ELSE o.name
  <2>1. n \in {SetDefaultValue(m, p), SetIndex(m, p, o), SetForeignKey(m, p, o),
               SetConstraint(m, p, nm), SetUniqueConstraint(m, p), SetCheckConstraint(m, p),
               SetCompositeKey(m, ks), SetOneToMany(m, p, o), SetManyToOne(m, p, o),
               SetManyToMany(m, p, o), SetOneToOne(m, p, o), SetOneToOneUnique(m, p, o),
               SetOneToOneFunctional(m, p, o)}
    <3>1. c.op = "setConstraint" => nm = o.name
      BY DEF HandlerCalls, o
    <3> HIDE DEF nm
    <3> QED
      BY <1>2, <1>6, <3>1 DEF Performed, p, o, ks
  <2>2. nm \in NameOrNone
    BY <1>1, NamesTyped DEF Given
  <2> HIDE DEF nm
  <2> QED
    BY Zenon, <1>1, <1>2, <2>1, <2>2, SetterAlters DEF Alters, p
<1>7. CASE c.op \in {"removeDefaultValue", "removeIndex", "removeForeignKey"}
  <2>1. n \in {RemoveDefaultValue(m, p), RemoveIndex(m, p), RemoveForeignKey(m, p)}
    BY <1>2, <1>7 DEF Performed, p
  <2> QED
    BY Zenon, <1>1, <1>2, <2>1, RemoverAlters DEF Alters, p
<1>8. CASE c.op \in {"clearDefaultValues", "clearIndexes", "removePrimaryKey"}
  <2>1. n \in {ClearDefaultValues(m), ClearIndexes(m), RemovePrimaryKey(m)}
    BY <1>2, <1>8 DEF Performed
  <2> QED
    BY Zenon, <1>2, <2>1, ClearerEmpties
<1>9. CASE c.op = "setPrimaryKeys"
  <2> DEFINE ps == <<p>> \o SetToSeq(ks)
  <2>1. n = SetPrimaryKeys(m, ps, o)
    BY <1>2, <1>9 DEF Performed, p, o, ks
  <2>2. ps \in Seq(PropOrNone) /\ ps[1] = p
    <3>1. IsFiniteSet(ks)
      BY <1>1, FS_Subset, MetadataAssumption
    <3>2. SetToSeq(ks) \in Seq(ks)
      BY <3>1, SequenceOfSet
    <3>3. SetToSeq(ks) \in Seq(PropOrNone)
      BY <1>1, <3>2 DEF PropOrNone
    <3>4. <<p>> \in Seq(PropOrNone) /\ Len(<<p>>) = 1 /\ <<p>>[1] = p
      BY <1>1
    <3>5. PICK t \in Seq(PropOrNone) : t = SetToSeq(ks)
      BY <3>3
    <3> QED
      BY <3>4, <3>5, ConcatProperties, LenProperties
  <2> HIDE DEF ps
  <2> QED
    BY Zenon, <1>1, <1>2, <1>10, <2>1, <2>2, SetPrimaryKeysAlters DEF Alters, p
<1> QED
  BY Zenon, <1>1, <1>3, <1>4, <1>5, <1>6, <1>7, <1>8, <1>9 DEF Handlers, Async

-----------------------------------------------------------------------------
(* The decorators                                                          *)

\* Metadata as the storage may have it: none, or lists in which every primary key is
\* of a column.
Sound(m) == m = NoMeta \/ (IsTableMeta(m) /\ KeysOfColumns(m))

\* A class met for the first time gets empty lists.
LEMMA KnownTyped ==
  ASSUME NEW m, m = NoMeta \/ IsTableMeta(m)
  PROVE  /\ IsTableMeta(Known(m))
         /\ Sound(m) => KeysOfColumns(Known(m))
<1>1. CASE m = NoMeta
  <2>1. Known(m) = EmptyTable
    BY <1>1 DEF Known
  <2>2. <<>> \in Seq(Entries)
    OBVIOUS
  <2>3. IsTableMeta(EmptyTable)
    BY <2>2 DEF IsTableMeta, EmptyTable
  <2>4. EmptyTable.primaryKeys = <<>>
    BY DEF EmptyTable, ListNames
  <2>5. KeysOfColumns(EmptyTable)
    BY <2>4 DEF KeysOfColumns, PropsOf
  <2> QED
    BY Zenon, <2>1, <2>3, <2>5
<1>2. CASE m # NoMeta
  BY Zenon, <1>2 DEF Known, Sound
<1> QED
  BY <1>1, <1>2

\* What a decorator adds goes to one list.
LEMMA AddedToOneList ==
  ASSUME NEW m, m = NoMeta \/ IsTableMeta(m), NEW l \in ListNames, NEW x \in Entries,
    NEW present
  PROVE  LET n == AddMetadata(m, l, x, present)
         IN  /\ IsTableMeta(n)
             /\ \A k \in ListNames : k # l => n[k] = Known(m)[k]
             /\ n[l] = IF present THEN Known(m)[l] ELSE Append(Known(m)[l], x)
<1> DEFINE o == Known(m)
           n == AddMetadata(m, l, x, present)
<1>1. IsTableMeta(o)
  BY KnownTyped
<1>2. n = IF present THEN o ELSE [o EXCEPT ![l] = Append(o[l], x)]
  BY DEF AddMetadata
<1> HIDE DEF o, n
<1>3. Append(o[l], x) \in Seq(Entries)
  <2>1. o[l] \in Seq(Entries)
    BY <1>1, ListsTyped
  <2> QED
    BY <2>1, AppendProperties
<1>4. /\ IsTableMeta(n)
      /\ \A k \in ListNames : k # l => n[k] = o[k]
      /\ n[l] = IF present THEN o[l] ELSE Append(o[l], x)
  <2>1. CASE present
    BY <1>1, <1>2, <2>1
  <2>2. CASE ~present
    <3>1. n = [o EXCEPT ![l] = Append(o[l], x)]
      BY <1>2, <2>2
    <3> QED
      BY <1>1, <1>3, <2>2, <3>1 DEF IsTableMeta
  <2> QED
    BY <2>1, <2>2
<1> QED
  BY <1>4 DEF o, n

\* Metadata n has a property in a list, and is otherwise what m was.
Receives(m, n, l, p) ==
  /\ IsTableMeta(n)
  /\ \A k \in ListNames : k # l => n[k] = Known(m)[k]
  /\ PropsOf(n[l]) = PropsOf(Known(m)[l]) \cup {p}

\* A property decorator leaves its property in its list.
LEMMA PropertyAdded ==
  ASSUME NEW m, m = NoMeta \/ IsTableMeta(m), NEW l \in ListNames, NEW x \in Entries
  PROVE  Receives(m, PropertyDecorator(m, l, x), l, x.prop)
<1> DEFINE o == Known(m)
           p == x.prop
           n == PropertyDecorator(m, l, x)
<1>1. IsTableMeta(o) /\ o[l] \in Seq(Entries)
  BY KnownTyped, ListsTyped
<1>2. n = AddMetadata(m, l, x, HasProp(m, l, p))
  BY DEF PropertyDecorator
<1> HIDE DEF n
<1>3. /\ IsTableMeta(n)
      /\ \A k \in ListNames : k # l => n[k] = o[k]
      /\ n[l] = IF HasProp(m, l, p) THEN o[l] ELSE Append(o[l], x)
  BY <1>1, <1>2, AddedToOneList
<1>4. HasProp(m, l, p) <=> p \in PropsOf(o[l])
  BY DEF HasProp
<1>5. PropsOf(Append(o[l], x)) = PropsOf(o[l]) \cup {p}
  BY <1>1, SparedByAppend
<1> HIDE DEF o
<1>6. PropsOf(n[l]) = PropsOf(o[l]) \cup {p}
  <2>1. CASE HasProp(m, l, p)
    BY <1>3, <1>4, <2>1
  <2>2. CASE ~HasProp(m, l, p)
    BY <1>3, <1>5, <2>2
  <2> QED
    BY <2>1, <2>2
<1> QED
  BY <1>3, <1>6 DEF o, n, Receives

\* Adding to a list other than the keys keeps the metadata sound.
LEMMA SoundlyAdded ==
  ASSUME NEW m, Sound(m), NEW l \in ListNames, l # "primaryKeys", NEW n, IsTableMeta(n),
         \A k \in ListNames : k # l => n[k] = Known(m)[k],
         l = "columns" => PropsOf(Known(m)[l]) \subseteq PropsOf(n[l])
  PROVE  Sound(n)
<1>1. KeysOfColumns(Known(m))
  BY KnownTyped DEF Sound
<1>2. n["primaryKeys"] = Known(m)["primaryKeys"]
  BY DEF ListNames
<1>3. ColumnsOf(Known(m)) \subseteq ColumnsOf(n)
  <2>1. CASE l = "columns"
    BY <2>1 DEF ColumnsOf
  <2>2. CASE l # "columns"
    <3>1. n["columns"] = Known(m)["columns"]
      BY <2>2 DEF ListNames
    <3> QED
      BY <3>1 DEF ColumnsOf
  <2> QED
    BY <2>1, <2>2
<1> QED
  BY <1>1, <1>2, <1>3 DEF Sound, KeysOfColumns

\* Every decorator keeps the metadata sound: @PrimaryKey makes the column with the key.
LEMMA DecoratedSound ==
  ASSUME NEW m, Sound(m), NEW d \in Decorators PROVE Sound(Decorated(m, d))
<1> DEFINE p == d.prop
           nm == d.name
           a == d.attrs
           n == Decorated(m, d)
<1>1. d.dec \in DecoratorNames /\ p \in PropOrNone /\ nm \in NameOrNone /\ a \in SomeOptions
  BY DEF Decorators
<1>2. m = NoMeta \/ IsTableMeta(m)
  BY DEF Sound
<1>3. ASSUME NEW l \in ListNames, l # "primaryKeys", NEW x \in Entries, NEW k, Sound(k)
      PROVE  Sound(PropertyDecorator(k, l, x))
  <2>1. k = NoMeta \/ IsTableMeta(k)
    BY <1>3 DEF Sound
  <2> DEFINE o == PropertyDecorator(k, l, x)
  <2>2. /\ IsTableMeta(o)
        /\ \A j \in ListNames : j # l => o[j] = Known(k)[j]
        /\ PropsOf(o[l]) = PropsOf(Known(k)[l]) \cup {x.prop}
    <3>1. Receives(k, o, l, x.prop)
      BY Zenon, <1>3, <2>1, PropertyAdded
    <3> QED
      BY Zenon, <3>1 DEF Receives
  <2> HIDE DEF o
  <2>3. Sound(o)
    BY <1>3, <2>2, SoundlyAdded
  <2> QED
    BY <2>3 DEF o
<1>4. ASSUME NEW l \in ListNames, l \notin {"primaryKeys", "columns"}, NEW x \in Entries,
  NEW present
      PROVE  Sound(AddMetadata(m, l, x, present))
  <2> DEFINE o == AddMetadata(m, l, x, present)
  <2>1. /\ IsTableMeta(o)
        /\ \A j \in ListNames : j # l => o[j] = Known(m)[j]
    BY <1>2, AddedToOneList
  <2> HIDE DEF o
  <2>2. Sound(o)
    BY <1>4, <2>1, SoundlyAdded
  <2> QED
    BY <2>2 DEF o
<1>5. /\ {"columns", "primaryKeys", "foreignKeys", "constraints", "defaultValues",
          "indexedColumns", "compositeKeys", "entity"} \cup RelationLists = ListNames
      /\ RelationLists = {"oneToOneRelations", "oneToManyRelations", "manyToOneRelations",
                          "manyToManyRelations"}
  BY DEF ListNames, RelationLists
<1>14. ASSUME NEW b \in SomeOptions, NEW x \in {nm, NameOr(nm, p), NoName}
       PROVE  /\ Entry(p, x, b) \in Entries /\ Entry(p, x, b).prop = p
              /\ Entry(NoProp, NoName, b) \in Entries
  <2>1. x \in NameOrNone /\ NoProp \in PropOrNone /\ NoName \in NameOrNone
    BY Zenon, <1>1, <1>14, NamesTyped
  <2> HIDE DEF p, nm
  <2> QED
    BY Zenon, <1>1, <2>1, EntryTyped
<1>15. nm \in {nm, NameOr(nm, p), NoName} /\ NameOr(nm, p) \in {nm, NameOr(nm, p), NoName}
       /\ NoName \in {nm, NameOr(nm, p), NoName}
  OBVIOUS
<1> HIDE DEF p, nm, a
<1>6. Sound(PrimaryKey(m, p, nm))
  <2> DEFINE x == Entry(p, nm, {"typed"})
             y == Entry(p, NameOr(nm, p), {"typed"})
             k == PropertyDecorator(m, "primaryKeys", x)
             o == PropertyDecorator(k, "columns", y)
             old == Known(m)
  <2>7. x \in Entries /\ x.prop = p /\ y \in Entries /\ y.prop = p
    BY Zenon, <1>14, <1>15, FixedOptions
  <2>8. "primaryKeys" \in ListNames /\ "columns" \in ListNames
    BY DEF ListNames
  <2>9. o = PrimaryKey(m, p, nm)
    BY DEF PrimaryKey
  <2> HIDE DEF x, y
  <2>1. /\ IsTableMeta(k)
        /\ \A j \in ListNames : j # "primaryKeys" => k[j] = old[j]
        /\ PropsOf(k["primaryKeys"]) = PropsOf(old["primaryKeys"]) \cup {p}
    <3>1. Receives(m, k, "primaryKeys", x.prop)
      BY Zenon, <1>2, <2>7, <2>8, PropertyAdded
    <3> QED
      BY Zenon, <2>7, <3>1 DEF Receives
  <2> HIDE DEF k
  <2>2. Known(k) = k
    BY Zenon, <2>1, ListsTyped DEF Known, IsTable
  <2>3. /\ IsTableMeta(o)
        /\ \A j \in ListNames : j # "columns" => o[j] = k[j]
        /\ PropsOf(o["columns"]) = PropsOf(k["columns"]) \cup {p}
    <3>1. Receives(k, o, "columns", y.prop)
      BY Zenon, <2>1, <2>7, <2>8, PropertyAdded
    <3> QED
      BY Zenon, <2>2, <2>7, <3>1 DEF Receives
  <2>4. KeysOfColumns(old)
    BY <1>2, KnownTyped
  <2> HIDE DEF o, old
  <2>5. k["columns"] = old["columns"] /\ o["primaryKeys"] = k["primaryKeys"]
    BY <2>1, <2>3, <2>8
  <2>6. Sound(o)
    BY <2>1, <2>3, <2>4, <2>5 DEF Sound, KeysOfColumns, ColumnsOf
  <2> QED
    BY Zenon, <2>6, <2>9
<1>16. /\ "columns" \in ListNames /\ "foreignKeys" \in ListNames /\ "constraints" \in ListNames
       /\ "defaultValues" \in ListNames /\ "indexedColumns" \in ListNames
       /\ "compositeKeys" \in ListNames /\ "entity" \in ListNames
       /\ RelationLists \subseteq ListNames /\ "primaryKeys" \notin RelationLists
  BY DEF ListNames, RelationLists
<1>7. Sound(Column(m, p, nm, a)) /\ Sound(ForeignKey(m, p, nm, a))
  BY <1>1, <1>3, <1>14, <1>15, <1>16, FixedOptions DEF Column, ForeignKey
<1>8. Sound(Default(m, p)) /\ Sound(Index(m, p, nm, a))
  BY <1>1, <1>3, <1>14, <1>15, <1>16, FixedOptions DEF Default, Index
<1>9. /\ Sound(OneToOne(m, p)) /\ Sound(OneToMany(m, p))
      /\ Sound(ManyToOne(m, p)) /\ Sound(ManyToMany(m, p))
  <2>1. \A l \in RelationLists : Sound(Relation(m, l, p))
    BY <1>3, <1>14, <1>15, <1>16, FixedOptions DEF Relation
  <2> QED
    BY <1>5, <2>1 DEF OneToOne, OneToMany, ManyToOne, ManyToMany
<1>10. Sound(Check(m, p, nm))
  BY <1>1, <1>4, <1>14, <1>15, <1>16, FixedOptions DEF Check
<1>11. /\ Sound(CompositeKey(m, a)) /\ Sound(Entity(m, a))
       /\ Sound(Table(m)) /\ Sound(View(m))
  <2>1. \A l \in {"compositeKeys", "entity"}, b \in SomeOptions : Sound(ClassDecorator(m, l, b))
    BY <1>4, <1>14, <1>15, <1>16 DEF ClassDecorator
  <2> QED
    BY <1>1, <2>1, FixedOptions DEF CompositeKey, Entity, Table, View
<1>12. n \in {Column(m, p, nm, a), PrimaryKey(m, p, nm), ForeignKey(m, p, nm, a), Check(m, p, nm),
              Default(m, p), Index(m, p, nm, a), OneToOne(m, p), OneToMany(m, p),
              ManyToOne(m, p), ManyToMany(m, p), CompositeKey(m, a), Entity(m, a),
              Table(m), View(m)}
  BY <1>1 DEF Decorated, DecoratorNames, p, nm, a
<1> HIDE DEF n
<1>13. Sound(n)
  BY Zenon, <1>6, <1>7, <1>8, <1>9, <1>10, <1>11, <1>12
<1> QED
  BY <1>13 DEF n

\* The first k decorators of a class body, one after the other.
BuiltUp(h, body, k) ==
  h = [n \in 0..k |-> IF n = 0 THEN NoMeta ELSE Decorated(h[n - 1], body[n])]

\* There is such a function for every k: for the least without, the one before can be
\* extended.
LEMMA BuiltUpExists ==
  ASSUME NEW body, NEW N \in Nat PROVE \E h : BuiltUp(h, body, N)
<1> DEFINE Bad == {k \in Nat : ~\E h : BuiltUp(h, body, k)}
           k == Min(Bad)
<1>1. SUFFICES ASSUME N \in Bad PROVE FALSE
  OBVIOUS
<1>2. k \in Bad /\ \A n \in Bad : k <= n
  <2>1. Bad \subseteq Nat /\ Bad # {}
    BY <1>1
  <2> HIDE DEF Bad
  <2> QED
    BY Zenon, <2>1, MinOfNumbers
<1> HIDE DEF k
<1>3. k \in Nat /\ ~\E h : BuiltUp(h, body, k)
  BY <1>2
<1>4. CASE k = 0
  <2> DEFINE h == [n \in 0..0 |-> NoMeta]
  <2>1. h = [n \in 0..0 |-> IF n = 0 THEN NoMeta ELSE Decorated(h[n - 1], body[n])]
    <3>1. \A n \in 0..0 : n = 0
      OBVIOUS
    <3> QED
      BY Zenon, <3>1
  <2> HIDE DEF h
  <2>2. BuiltUp(h, body, 0)
    BY <2>1 DEF BuiltUp
  <2> QED
    BY <1>3, <1>4, <2>2
<1>5. CASE k # 0
  <2>1. k - 1 \in Nat /\ ~(k <= k - 1) /\ (k - 1) + 1 = k
    BY <1>3, <1>5
  <2>2. k - 1 \notin Bad
    BY <1>2, <2>1
  <2>3. PICK h : BuiltUp(h, body, k - 1)
    BY <2>1, <2>2
  <2> DEFINE g == [n \in 0..k |-> IF n = k THEN Decorated(h[k - 1], body[k]) ELSE h[n]]
  <2>4. ASSUME NEW n \in 0..k
        PROVE  g[n] = IF n = 0 THEN NoMeta ELSE Decorated(g[n - 1], body[n])
    <3>1. CASE n = k
      <4>1. n # 0 /\ k - 1 \in 0..k /\ k - 1 # k
        BY <1>3, <1>5, <3>1
      <4>2. g[k - 1] = h[k - 1] /\ g[n] = Decorated(h[k - 1], body[k])
        BY Zenon, <3>1, <4>1
      <4> QED
        BY Zenon, <3>1, <4>1, <4>2
    <3>2. CASE n # k
      <4>1. n \in 0..(k - 1)
        BY <1>3, <3>2
      <4>2. h[n] = IF n = 0 THEN NoMeta ELSE Decorated(h[n - 1], body[n])
        BY Zenon, <2>3, <4>1 DEF BuiltUp
      <4>3. g[n] = h[n]
        BY Zenon, <3>2
      <4>4. n # 0 => n - 1 \in 0..k /\ n - 1 # k
        BY <1>3, <3>2
      <4>5. n # 0 => g[n - 1] = h[n - 1]
        BY Zenon, <4>4
      <4> HIDE DEF g
      <4> QED
        BY Zenon, <4>2, <4>3, <4>5
    <3> QED
      BY <3>1, <3>2
  <2>5. g = [n \in 0..k |-> g[n]]
    OBVIOUS
  <2> HIDE DEF g
  <2>6. BuiltUp(g, body, k)
    BY Zenon, <2>4, <2>5 DEF BuiltUp
  <2> QED
    BY Zenon, <1>3, <2>6
<1> QED
  BY <1>4, <1>5

\* What a class body leaves in the storage is sound, however many decorators it has
\* and in whatever order: there is no first decorator that makes it otherwise.
LEMMA DefinedClassSound ==
  ASSUME NEW body \in Seq(Decorators) PROVE Sound(DefinedClass(body))
<1> DEFINE N == Len(body)
           made == CHOOSE h : BuiltUp(h, body, N)
           Bad == {n \in 0..N : ~Sound(made[n])}
           k == Min(Bad)
<1>1. N \in Nat /\ \A i \in 1..N : body[i] \in Decorators
  BY LenProperties, ElementOfSeq
<1>2. DefinedClass(body) = made[N]
  BY Zenon DEF DefinedClass, BuiltUp
<1>3. BuiltUp(made, body, N)
  <2>1. \E h : BuiltUp(h, body, N)
    BY <1>1, BuiltUpExists
  <2> QED
    BY Zenon, <2>1
<1> HIDE DEF made, N
<1>4. /\ made[0] = NoMeta
      /\ \A n \in 1..N : made[n] = Decorated(made[n - 1], body[n])
  <2>1. \A n \in 0..N : made[n] = IF n = 0 THEN NoMeta ELSE Decorated(made[n - 1], body[n])
    BY Zenon, <1>3 DEF BuiltUp
  <2>2. 0 \in 0..N /\ \A n \in 1..N : n \in 0..N /\ n # 0
    BY <1>1
  <2> QED
    BY Zenon, <2>1, <2>2
<1>5. Bad = {}
  <2> SUFFICES ASSUME Bad # {} PROVE FALSE
    OBVIOUS
  <2>1. Bad \subseteq Nat
    BY <1>1
  <2>2. k \in Bad /\ \A n \in Bad : k <= n
    <3> HIDE DEF Bad
    <3> QED
      BY Zenon, <2>1, MinOfNumbers
  <2> HIDE DEF k
  <2>3. k \in 0..N /\ ~Sound(made[k])
    BY <2>2
  <2>4. k # 0
    <3>1. Sound(NoMeta)
      BY DEF Sound
    <3>2. made[0] = NoMeta
      BY <1>4
    <3>3. Sound(made[0])
      BY Zenon, <3>1, <3>2
    <3> QED
      BY <2>3, <3>3
  <2>5. k \in 1..N /\ k - 1 \in 0..N /\ ~(k <= k - 1)
    BY <1>1, <2>3, <2>4
  <2>6. Sound(made[k - 1])
    BY Zenon, <2>2, <2>5
  <2> QED
    BY Zenon, <1>1, <1>4, <2>3, <2>5, <2>6, DecoratedSound
<1>6. N \in 0..N
  BY <1>1
<1>7. Sound(made[N])
  BY Zenon, <1>5, <1>6
<1> QED
  BY Zenon, <1>2, <1>7

-----------------------------------------------------------------------------
(* The steps of a Schema                                                   *)

\* The metadata, the history and the tasks that wait, typed.
LEMMA SchemaTyped ==
  ASSUME SchemaTypeOK
  PROVE  /\ microtasks \in Seq(Tasks) /\ Len(microtasks) \in Nat
         /\ DOMAIN microtasks = 1..Len(microtasks)
         /\ \A i \in 1..Len(microtasks) : microtasks[i] \in Tasks
         /\ microtasks # <<>> =>
              /\ Len(microtasks) \in Nat \ {0} /\ Head(microtasks) = microtasks[1]
              /\ Head(microtasks) \in Tasks
<1>1. microtasks \in Seq(Tasks)
  BY DEF SchemaTypeOK
<1>2. microtasks # <<>> => Head(microtasks) = microtasks[1]
  BY <1>1
<1> QED
  BY <1>1, <1>2, LenProperties, ElementOfSeq, HeadTailProperties, EmptySeq

\* A call that waits, and one that is made, is a call of the handlers.
LEMMA CallsTyped ==
  /\ \A t \in Tasks : t.op \in Async => t \in HandlerCalls
  /\ \A e \in Entities, d \in Calls :
       LET c == Call(d.op, e, d.prop, d.keys, d.opts)
       IN  c \in HandlerCalls /\ c.op = d.op /\ (d.op \in Async => c \in Tasks)
<1>1. \A t \in Tasks : t.op \in Async => t \in HandlerCalls
  BY DEF Tasks, HandlerCalls, Handlers, Async
<1>2. ASSUME NEW e \in Entities, NEW d \in Calls
      PROVE  LET c == Call(d.op, e, d.prop, d.keys, d.opts)
             IN  c \in HandlerCalls /\ c.op = d.op /\ (d.op \in Async => c \in Tasks)
  <2>1. /\ d \in [op : Handlers, prop : PropOrNone, keys : SUBSET Props, opts : Given]
        /\ d.op = "setConstraint" => d.opts.name # NotGiven
    BY CallsAssumption
  <2> QED
    BY <2>1 DEF Call, HandlerCalls, Tasks
<1> QED
  BY <1>1, <1>2

\* The task that validates an entity.
LEMMA ValidateTyped ==
  ASSUME NEW e \in Entities
  PROVE  Validate(e) \in Tasks /\ Validate(e).entity = e /\ Validate(e).op = "finalize"
<1>1. NoOptions \in Given
  BY DEF NoOptions, Given, SomeOptions
<1>2. NoProp \in PropOrNone
  BY NamesTyped
<1> QED
  BY <1>1, <1>2 DEF Validate, Call, Tasks

\* What it takes that a call changes an entity only as it may.
Changed(e, p) ==
  \/ Alters(meta[e], meta'[e], p)
  \/ \E l \in ListNames : meta'[e] = [meta[e] EXCEPT ![l] = <<>>]

\* A call that is carried out on an entity changes no other.
LEMMA CarriedOut ==
  ASSUME SchemaTypeOK, NEW e \in Entities, NEW c \in HandlerCalls, CarryOut(e, c)
  PROVE  /\ DOMAIN meta' = Entities
         /\ \A x \in Entities : meta'[x] = NoMeta \/ IsTableMeta(meta'[x])
         /\ \A x \in Entities : x # e => meta'[x] = meta[x]
         /\ meta'[e] # meta[e] => IsTableMeta(meta[e]) /\ Changed(e, c.prop)
         /\ moved' \subseteq Entities /\ changed' \subseteq Entities /\ changed \subseteq changed'
         /\ \A x \in Entities \ changed' : meta'[x] = meta[x]
         /\ KeysAreColumns => KeysAreColumns'
<1> DEFINE m == meta[e]
           n == meta'[e]
<1>1. /\ DOMAIN meta = Entities
      /\ \A x \in Entities : meta[x] = NoMeta \/ IsTableMeta(meta[x])
      /\ moved \subseteq Entities /\ changed \subseteq Entities
  BY Zenon DEF SchemaTypeOK
<1>2. /\ meta' = [meta EXCEPT ![e] = IF @ = NoMeta THEN @ ELSE Performed(@, c)]
      /\ changed' = changed \cup {f \in Entities : meta'[f] # meta[f]}
      /\ moved' = IF Moves(c) THEN moved \cup {e} ELSE moved
  BY Zenon DEF CarryOut
<1>6. /\ moved' \subseteq Entities /\ moved \subseteq moved' /\ (Moves(c) => e \in moved')
      /\ changed' \subseteq Entities /\ changed \subseteq changed'
      /\ \A x \in Entities \ changed' : meta'[x] = meta[x]
  BY ONLY <1>1, <1>2, e \in Entities
<1>3. /\ DOMAIN meta' = Entities
      /\ \A x \in Entities : x # e => meta'[x] = meta[x]
      /\ n = IF m = NoMeta THEN m ELSE Performed(m, c)
  BY Zenon, <1>1, <1>2
<1> HIDE DEF m, n
<1>4. CASE m = NoMeta
  <2>1. n = m
    BY <1>3, <1>4
  <2>2. \A x \in Entities : meta'[x] = meta[x]
    BY Zenon, <1>3, <2>1 DEF m, n
  <2>4. KeysAreColumns => KeysAreColumns'
    BY <1>6, <2>2 DEF KeysAreColumns
  <2> QED
    BY <1>1, <1>3, <1>6, <2>1, <2>2, <2>4 DEF m, n
<1>5. CASE m # NoMeta
  <2>1. IsTableMeta(m) /\ n = Performed(m, c)
    BY Zenon, <1>1, <1>3, <1>5 DEF m
  <2>2. /\ IsTableMeta(n)
        /\ Alters(m, n, c.prop) \/ \E l \in ListNames : n = [m EXCEPT ![l] = <<>>]
        /\ ~Moves(c) => KeysKept(m, n)
    BY Zenon, <2>1, PerformedCall
  <2>3. IsTableMeta(m) /\ Changed(e, c.prop)
    BY Zenon, <2>1, <2>2 DEF Changed, m, n
  <2>4. \A x \in Entities : meta'[x] = NoMeta \/ IsTableMeta(meta'[x])
    <3> SUFFICES ASSUME NEW x \in Entities PROVE meta'[x] = NoMeta \/ IsTableMeta(meta'[x])
      OBVIOUS
    <3>1. CASE x = e
      BY Zenon, <2>2, <3>1 DEF n
    <3>2. CASE x # e
      <4>1. meta'[x] = meta[x]
        BY Zenon, <1>3, <3>2
      <4> QED
        BY Zenon, <1>1, <4>1
    <3> QED
      BY <3>1, <3>2
  <2>5. KeysAreColumns => KeysAreColumns'
    <3> SUFFICES ASSUME KeysAreColumns, NEW x \in Entities \ moved', IsTable(meta'[x])
                 PROVE  KeysOfColumns(meta'[x])
      BY Zenon DEF KeysAreColumns, KeysOfColumns
    <3>1. x \in Entities \ moved /\ (Moves(c) => x # e)
      BY <1>6
    <3>2. IsTable(meta[x]) => KeysOfColumns(meta[x])
      BY Zenon, <3>1 DEF KeysAreColumns, KeysOfColumns
    <3>3. CASE x = e
      <4>1. IsTable(meta[x])
        BY Zenon, <1>5, <3>3 DEF IsTable, m
      <4>2. KeysOfColumns(m)
        BY Zenon, <3>2, <3>3, <4>1 DEF m
      <4>3. ~Moves(c)
        BY Zenon, <3>1, <3>3
      <4>4. KeysOfColumns(n)
        BY Zenon, <2>2, <4>2, <4>3 DEF KeysKept
      <4> QED
        BY Zenon, <3>3, <4>4 DEF n
    <3>4. CASE x # e
      <4>1. meta'[x] = meta[x]
        BY Zenon, <1>3, <3>1, <3>4
      <4> QED
        BY Zenon, <3>2, <4>1 DEF IsTable
    <3> QED
      BY <3>3, <3>4
  <2> QED
    BY <1>3, <1>6, <2>3, <2>4, <2>5 DEF m, n
<1> QED
  BY <1>4, <1>5

\* The four ways a step of a Schema goes.
LEMMA StepKinds ==
  ASSUME SchemaTypeOK, SchemaNext
  PROVE  \/ \E e \in Entities, c \in HandlerCalls :
              CarryOut(e, c) /\ UNCHANGED <<tableNamed, handlerEntity, microtasks, final>>
         \/ \E t \in Tasks :
              /\ t.op \in Async /\ microtasks' = Append(microtasks, t)
              /\ UNCHANGED <<meta, tableNamed, handlerEntity, final, changed, moved>>
         \/ /\ microtasks # <<>> /\ Head(microtasks) \in HandlerCalls
            /\ Head(microtasks).op \in Async
            /\ CarryOut(Head(microtasks).entity, Head(microtasks))
            /\ handlerEntity' = [handlerEntity EXCEPT
                                   ![Head(microtasks).op] = Head(microtasks).entity]
            /\ microtasks' = Tail(microtasks) /\ UNCHANGED <<tableNamed, final>>
         \/ FinalizeSchema
         \/ ValidateNext
<1>1. ASSUME NEW e \in Entities, NEW d \in Calls, CallNow(e, d)
      PROVE  \E x \in Entities, c \in HandlerCalls :
               CarryOut(x, c) /\ UNCHANGED <<tableNamed, handlerEntity, microtasks, final>>
  BY Zenon, <1>1, CallsTyped DEF CallNow
<1>2. ASSUME NEW e \in Entities, NEW d \in Calls, CallLater(e, d)
      PROVE  \E t \in Tasks :
               /\ t.op \in Async /\ microtasks' = Append(microtasks, t)
               /\ UNCHANGED <<meta, tableNamed, handlerEntity, final, changed, moved>>
  <2> DEFINE t == Call(d.op, e, d.prop, d.keys, d.opts)
  <2>1. d.op \in Async /\ microtasks' = Append(microtasks, t)
        /\ UNCHANGED <<meta, tableNamed, handlerEntity, final, changed, moved>>
    BY Zenon, <1>2 DEF CallLater
  <2>2. t \in Tasks /\ t.op \in Async
    BY Zenon, <2>1, CallsTyped
  <2> HIDE DEF t
  <2> QED
    BY Zenon, <2>1, <2>2
<1>3. ASSUME Resume
      PROVE  /\ microtasks # <<>> /\ Head(microtasks) \in HandlerCalls
             /\ Head(microtasks).op \in Async
             /\ CarryOut(Head(microtasks).entity, Head(microtasks))
             /\ handlerEntity' = [handlerEntity EXCEPT
                                    ![Head(microtasks).op] = Head(microtasks).entity]
             /\ microtasks' = Tail(microtasks) /\ UNCHANGED <<tableNamed, final>>
  <2> DEFINE c == Head(microtasks)
  <2>1. /\ microtasks # <<>> /\ c.op \in Async
        /\ handlerEntity' = [handlerEntity EXCEPT ![c.op] = c.entity]
        /\ CarryOut(handlerEntity'[c.op], c)
        /\ microtasks' = Tail(microtasks) /\ UNCHANGED <<tableNamed, final>>
    BY Zenon, <1>3 DEF Resume
  <2>2. c \in HandlerCalls
    BY Zenon, <2>1, SchemaTyped, CallsTyped
  <2> HIDE DEF c
  <2>3. handlerEntity'[c.op] = c.entity
    <3>1. handlerEntity \in [Async -> Entities \cup {NoEntity}]
      BY DEF SchemaTypeOK
    <3> QED
      BY Zenon, <2>1, <3>1
  <2>4. CarryOut(c.entity, c)
    BY Zenon, <2>1, <2>3
  <2> QED
    BY Zenon, <2>1, <2>2, <2>4 DEF c
<1> QED
  BY Zenon, <1>1, <1>2, <1>3 DEF SchemaNext

-----------------------------------------------------------------------------
(* The finalisation, and the types                                         *)

\* An entity that has been validated, as its metadata is now.
Checked(e) == e \in tableNamed /\ ValidSchema(meta[e])

\* So is every entity that validation has gone past, unless it has changed since.
Settled(e) == e \in changed \/ Checked(e)

\* There is one task of validation at most, and that while a finalisation runs: the entities
\* before its own are settled, and after a finalisation that succeeded all are.
FinalizeInv ==
  /\ \A x, y \in DOMAIN microtasks :
       microtasks[x].op = "finalize" /\ microtasks[y].op = "finalize" => x = y
  /\ \A x \in DOMAIN microtasks : microtasks[x].op = "finalize" =>
       /\ final = "running"
       /\ \E i \in DOMAIN Listed :
            /\ microtasks[x].entity = Listed[i]
            /\ \A j \in 1..(i - 1) : Settled(Listed[j])
  /\ final = "done" => \A j \in DOMAIN Listed : Settled(Listed[j])

\* The entity that is validated, and its place.
LEMMA ValidatedPlace ==
  ASSUME SchemaTypeOK, FinalizeInv, microtasks # <<>>, Head(microtasks).op = "finalize"
  PROVE  LET i == CHOOSE j \in DOMAIN Listed : Listed[j] = Head(microtasks).entity
         IN  /\ i \in 1..Len(Listed) /\ Len(Listed) \in Nat /\ DOMAIN Listed = 1..Len(Listed)
             /\ Listed[i] = Head(microtasks).entity
             /\ \A j \in DOMAIN Listed : Listed[j] \in Entities
             /\ \A j \in 1..(i - 1) : Settled(Listed[j])
<1> DEFINE e == Head(microtasks).entity
           i == CHOOSE j \in DOMAIN Listed : Listed[j] = e
<1>1. /\ Len(Listed) \in Nat /\ DOMAIN Listed = 1..Len(Listed)
      /\ \A j \in DOMAIN Listed : Listed[j] \in Entities
  BY SchemaAssumption, LenProperties, ElementOfSeq
<1>2. 1 \in DOMAIN microtasks /\ Head(microtasks) = microtasks[1]
  BY SchemaTyped
<1>3. PICK k \in DOMAIN Listed :
        e = Listed[k] /\ \A j \in 1..(k - 1) : Settled(Listed[j])
  BY Zenon, <1>2 DEF FinalizeInv
<1> HIDE DEF e
<1>4. i \in DOMAIN Listed /\ Listed[i] = e
  BY Zenon, <1>3
<1> HIDE DEF i
<1>5. i = k
  BY <1>3, <1>4, SchemaAssumption DEF IsInjective
<1>6. \A j \in 1..(i - 1) : Settled(Listed[j])
  BY <1>3, <1>5
<1> QED
  BY <1>1, <1>4, <1>6 DEF e, i

\* Types, and keys that are of columns, last.
LEMMA SchemaStepTypes ==
  ASSUME SchemaTypeOK, FinalizeInv, SchemaNext
  PROVE  SchemaTypeOK' /\ (KeysAreColumns => KeysAreColumns')
<1> DEFINE MetaTyped == /\ DOMAIN meta' = Entities
                        /\ \A x \in Entities : meta'[x] = NoMeta \/ IsTableMeta(meta'[x])
                        /\ moved' \subseteq Entities /\ changed' \subseteq Entities
                        /\ KeysAreColumns => KeysAreColumns'
           RestTyped == /\ tableNamed' \subseteq Entities
                        /\ handlerEntity' \in [Async -> Entities \cup {NoEntity}]
                        /\ microtasks' \in Seq(Tasks)
                        /\ final' \in {"none", "running", "done", "failed"}
<1>1. /\ DOMAIN meta = Entities
      /\ \A x \in Entities : meta[x] = NoMeta \/ IsTableMeta(meta[x])
      /\ moved \subseteq Entities /\ changed \subseteq Entities
      /\ tableNamed \subseteq Entities
      /\ handlerEntity \in [Async -> Entities \cup {NoEntity}]
      /\ microtasks \in Seq(Tasks)
      /\ final \in {"none", "running", "done", "failed"}
  BY Zenon DEF SchemaTypeOK
<1>2. ASSUME UNCHANGED <<meta, moved>>, changed' \subseteq Entities PROVE MetaTyped
  BY Zenon, <1>1, <1>2 DEF KeysAreColumns
<1>3. ASSUME NEW e \in Entities, NEW c \in HandlerCalls, CarryOut(e, c) PROVE MetaTyped
  BY Zenon, <1>3, CarriedOut
<1>4. calls' \in 0..MaxCalls
  BY SchemaAssumption DEF SchemaNext, SchemaTypeOK
<1>5. MetaTyped /\ RestTyped
  <2>1. ASSUME NEW e \in Entities, NEW c \in HandlerCalls, CarryOut(e, c),
               UNCHANGED <<tableNamed, handlerEntity, microtasks, final>>
        PROVE  MetaTyped /\ RestTyped
    BY Zenon, <1>1, <1>3, <2>1
  <2>2. ASSUME NEW t \in Tasks, microtasks' = Append(microtasks, t),
               UNCHANGED <<meta, tableNamed, handlerEntity, final, changed, moved>>
        PROVE  MetaTyped /\ RestTyped
    <3>1. microtasks' \in Seq(Tasks)
      BY <1>1, <2>2, AppendProperties
    <3> QED
      BY Zenon, <1>1, <1>2, <2>2, <3>1
  <2>3. ASSUME microtasks # <<>>, Head(microtasks) \in HandlerCalls,
    Head(microtasks).op \in Async,
               CarryOut(Head(microtasks).entity, Head(microtasks)),
               handlerEntity' = [handlerEntity EXCEPT
                                   ![Head(microtasks).op] = Head(microtasks).entity],
               microtasks' = Tail(microtasks), UNCHANGED <<tableNamed, final>>
        PROVE  MetaTyped /\ RestTyped
    <3>1. microtasks' \in Seq(Tasks)
      BY <1>1, <2>3, HeadTailProperties
    <3>2. Head(microtasks).entity \in Entities
      BY <2>3 DEF HandlerCalls
    <3>3. handlerEntity' \in [Async -> Entities \cup {NoEntity}]
      BY <1>1, <2>3, <3>2
    <3> QED
      BY Zenon, <1>1, <1>3, <2>3, <3>1, <3>2, <3>3
  <2>4. ASSUME FinalizeSchema PROVE MetaTyped /\ RestTyped
    <3>1. Validate(Head(Listed)) \in Tasks
      <4>1. Head(Listed) \in Entities
        BY SchemaAssumption, HeadTailProperties
      <4> QED
        BY <4>1, ValidateTyped
    <3>2. microtasks' \in Seq(Tasks) /\ final' = "running"
      BY <1>1, <2>4, <3>1, AppendProperties DEF FinalizeSchema
    <3> QED
      BY Zenon, <1>1, <1>2, <2>4, <3>2 DEF FinalizeSchema
  <2>5. ASSUME ValidateNext PROVE MetaTyped /\ RestTyped
    <3> DEFINE e == Head(microtasks).entity
               i == CHOOSE j \in DOMAIN Listed : Listed[j] = e
    <3>1. microtasks # <<>> /\ Head(microtasks).op = "finalize"
      BY Zenon, <2>5 DEF ValidateNext
    <3>2. Head(microtasks) \in Tasks /\ Tail(microtasks) \in Seq(Tasks) /\ e \in Entities
      <4>1. Head(microtasks) \in Tasks /\ Tail(microtasks) \in Seq(Tasks)
        BY <1>1, <3>1, HeadTailProperties
      <4> QED
        BY <4>1 DEF Tasks
    <3>3. i \in 1..Len(Listed) /\ Len(Listed) \in Nat
          /\ \A j \in 1..Len(Listed) : Listed[j] \in Entities
      BY <3>1, ValidatedPlace
    <3>4. /\ tableNamed' = tableNamed \cup {e}
          /\ final' \in {"failed", "done", "running"}
          /\ final' = "running" => i # Len(Listed)
          /\ microtasks' = IF final' = "running"
               THEN Append(Tail(microtasks), Validate(Listed[i + 1])) ELSE Tail(microtasks)
          /\ changed' \subseteq changed
          /\ UNCHANGED <<meta, handlerEntity, moved>>
      BY <2>5 DEF ValidateNext
    <3> HIDE DEF i, e
    <3>5. final' = "running" => Validate(Listed[i + 1]) \in Tasks
      <4>1. final' = "running" => i + 1 \in 1..Len(Listed)
        BY <3>3, <3>4
      <4>2. final' = "running" => Listed[i + 1] \in Entities
        BY <3>3, <4>1
      <4> QED
        BY <4>2, ValidateTyped
    <3>6. microtasks' \in Seq(Tasks)
      <4>1. CASE final' = "running"
        BY <3>2, <3>4, <3>5, <4>1, AppendProperties
      <4>2. CASE final' # "running"
        BY <3>2, <3>4, <4>2
      <4> QED
        BY <4>1, <4>2
    <3>7. /\ tableNamed' \subseteq Entities /\ final' \in {"none", "running", "done", "failed"}
          /\ changed' \subseteq Entities
      BY <1>1, <3>2, <3>4
    <3> QED
      BY Zenon, <1>1, <1>2, <3>4, <3>6, <3>7
  <2> QED
    BY Zenon, StepKinds, <2>1, <2>2, <2>3, <2>4, <2>5
<1> QED
  BY Zenon, <1>4, <1>5 DEF SchemaTypeOK

\* Tasks that were waiting keep their order behind the one that was first.
LEMMA TailPlaces ==
  ASSUME SchemaTypeOK, microtasks # <<>>
  PROVE  /\ Tail(microtasks) \in Seq(Tasks) /\ Len(Tail(microtasks)) = Len(microtasks) - 1
         /\ DOMAIN Tail(microtasks) = 1..(Len(microtasks) - 1)
         /\ \A x \in DOMAIN Tail(microtasks) :
              /\ x + 1 \in DOMAIN microtasks /\ x + 1 # 1 /\ 1 \in DOMAIN microtasks
              /\ Tail(microtasks)[x] = microtasks[x + 1]
<1>1. microtasks \in Seq(Tasks) /\ Len(microtasks) \in Nat /\ DOMAIN microtasks = 1..Len(microtasks)
  BY SchemaTyped
<1> DEFINE t == Tail(microtasks)
<1>2. /\ t \in Seq(Tasks) /\ Len(t) = Len(microtasks) - 1
      /\ \A x \in 1..Len(t) : t[x] = microtasks[x + 1]
  BY <1>1, HeadTailProperties
<1>3. DOMAIN t = 1..Len(t)
  BY <1>2, LenProperties
<1> HIDE DEF t
<1>4. \A x \in 1..(Len(microtasks) - 1) :
        x + 1 \in 1..Len(microtasks) /\ x + 1 # 1 /\ 1 \in 1..Len(microtasks)
  BY <1>1
<1> QED
  BY <1>1, <1>2, <1>3, <1>4 DEF t

\* A step that leaves the tasks, or takes the first away, and neither puts a task of
\* validation in, nor ends a finalisation, nor leaves what is validated not so, keeps it.
LEMMA FinalizeKept ==
  ASSUME FinalizeInv,
         \A x \in DOMAIN microtasks' : microtasks'[x].op = "finalize" =>
           \E k \in DOMAIN microtasks : microtasks'[x] = microtasks[k],
         \A x, y \in DOMAIN microtasks' :
           microtasks'[x].op = "finalize" /\ microtasks'[y].op = "finalize" => x = y,
         final' = final,
         \A j \in DOMAIN Listed : Settled(Listed[j]) => Settled(Listed[j])'
  PROVE  FinalizeInv'
<1>1. ASSUME NEW x \in DOMAIN microtasks', microtasks'[x].op = "finalize"
      PROVE  /\ final' = "running"
             /\ \E i \in DOMAIN Listed :
                  /\ microtasks'[x].entity = Listed[i]
                  /\ \A j \in 1..(i - 1) : Settled(Listed[j])'
  <2>1. PICK k \in DOMAIN microtasks : microtasks'[x] = microtasks[k]
    BY Zenon, <1>1
  <2>2. final = "running"
    BY Zenon, <1>1, <2>1 DEF FinalizeInv
  <2>3. PICK i \in DOMAIN Listed :
          /\ microtasks[k].entity = Listed[i]
          /\ \A j \in 1..(i - 1) : Settled(Listed[j])
    BY Zenon, <1>1, <2>1 DEF FinalizeInv
  <2>4. \A j \in 1..(i - 1) : Settled(Listed[j])'
    <3>1. \A j \in 1..(i - 1) : j \in DOMAIN Listed
      BY SchemaAssumption, LenProperties
    <3> QED
      BY Zenon, <2>3, <3>1
  <2> QED
    BY Zenon, <2>1, <2>2, <2>3, <2>4
<1>2. final' = "done" => \A j \in DOMAIN Listed : Settled(Listed[j])'
  BY Zenon DEF FinalizeInv
<1> QED
  BY Zenon, <1>1, <1>2 DEF FinalizeInv

\* The finalisation goes through the entities in their order.
LEMMA FinalizeStep ==
  ASSUME SchemaTypeOK, FinalizeInv, SchemaNext
  PROVE  FinalizeInv'
<1>6. ASSUME NEW e \in Entities, NEW c \in HandlerCalls, CarryOut(e, c), tableNamed' = tableNamed
      PROVE  \A j \in DOMAIN Listed : Settled(Listed[j]) => Settled(Listed[j])'
  <2>1. \A j \in DOMAIN Listed : Listed[j] \in Entities
    BY SchemaAssumption, ElementOfSeq, LenProperties
  <2>2. changed \subseteq changed' /\ \A x \in Entities \ changed' : meta'[x] = meta[x]
    BY Zenon, <1>6, CarriedOut
  <2>3. \A x \in Entities : Settled(x) => Settled(x)'
    BY <1>6, <2>2 DEF Settled, Checked
  <2> QED
    BY Zenon, <2>1, <2>3 DEF Settled, Checked
<1>1. ASSUME NEW e \in Entities, NEW c \in HandlerCalls, CarryOut(e, c),
             UNCHANGED <<tableNamed, handlerEntity, microtasks, final>>
      PROVE  FinalizeInv'
  <2>2. \A j \in DOMAIN Listed : Settled(Listed[j]) => Settled(Listed[j])'
    BY Zenon, <1>1, <1>6
  <2> QED
    BY Zenon, <1>1, <2>2, FinalizeKept DEF FinalizeInv
<1>2. ASSUME NEW t \in Tasks, t.op \in Async, microtasks' = Append(microtasks, t),
             UNCHANGED <<meta, tableNamed, handlerEntity, final, changed, moved>>
      PROVE  FinalizeInv'
  <2>1. \A j \in DOMAIN Listed : Settled(Listed[j]) => Settled(Listed[j])'
    BY Zenon, <1>2 DEF Settled, Checked
  <2>2. ASSUME NEW x \in DOMAIN microtasks', microtasks'[x].op = "finalize"
        PROVE  x \in DOMAIN microtasks /\ microtasks'[x] = microtasks[x]
    <3>1. /\ microtasks \in Seq(Tasks) /\ Len(microtasks) \in Nat
          /\ DOMAIN microtasks = 1..Len(microtasks)
      BY SchemaTyped
    <3>2. /\ microtasks' \in Seq(Tasks) /\ Len(microtasks') = Len(microtasks) + 1
          /\ \A i \in 1..Len(microtasks) : microtasks'[i] = microtasks[i]
          /\ microtasks'[Len(microtasks) + 1] = t
      BY <1>2, <3>1, AppendProperties
    <3>3. DOMAIN microtasks' = 1..(Len(microtasks) + 1)
      BY <3>2, LenProperties
    <3>4. t.op # "finalize"
      BY <1>2 DEF Async
    <3>5. x # Len(microtasks) + 1
      BY <2>2, <3>2, <3>4
    <3>6. x \in 1..Len(microtasks)
      BY <2>2, <3>1, <3>3, <3>5
    <3> QED
      BY <3>1, <3>2, <3>6
  <2>3. \A x, y \in DOMAIN microtasks' :
          microtasks'[x].op = "finalize" /\ microtasks'[y].op = "finalize" => x = y
    BY Zenon, <2>2 DEF FinalizeInv
  <2> QED
    BY Zenon, <1>2, <2>1, <2>2, <2>3, FinalizeKept
<1>3. ASSUME microtasks # <<>>, Head(microtasks) \in HandlerCalls,
  Head(microtasks).op \in Async,
             CarryOut(Head(microtasks).entity, Head(microtasks)),
             microtasks' = Tail(microtasks), UNCHANGED <<tableNamed, final>>
      PROVE  FinalizeInv'
  <2>1. Head(microtasks).entity \in Entities
    BY <1>3 DEF HandlerCalls
  <2>3. \A j \in DOMAIN Listed : Settled(Listed[j]) => Settled(Listed[j])'
    BY Zenon, <1>3, <1>6, <2>1
  <2>4. \A x \in DOMAIN microtasks' : x + 1 \in DOMAIN microtasks /\ microtasks'[x] = microtasks[x + 1]
    BY Zenon, <1>3, TailPlaces
  <2>5. ASSUME NEW x \in DOMAIN microtasks', NEW y \in DOMAIN microtasks',
               microtasks'[x].op = "finalize", microtasks'[y].op = "finalize"
        PROVE  x = y
    <3>1. x + 1 = y + 1
      BY Zenon, <2>4, <2>5 DEF FinalizeInv
    <3>2. x \in Nat /\ y \in Nat
      BY <1>3, TailPlaces, SchemaTyped
    <3> QED
      BY <3>1, <3>2
  <2> QED
    BY Zenon, <1>3, <2>3, <2>4, <2>5, FinalizeKept
<1>4. ASSUME FinalizeSchema PROVE FinalizeInv'
  <2> DEFINE v == Validate(Head(Listed))
  <2>1. /\ final # "running" /\ final' = "running"
        /\ microtasks' = Append(microtasks, v) /\ UNCHANGED <<meta, tableNamed>>
    BY Zenon, <1>4 DEF FinalizeSchema
  <2>2. /\ Len(Listed) \in Nat \ {0} /\ DOMAIN Listed = 1..Len(Listed)
        /\ Head(Listed) = Listed[1] /\ Listed[1] \in Entities
    BY SchemaAssumption, LenProperties, ElementOfSeq, EmptySeq
  <2>3. v \in Tasks /\ v.entity = Listed[1] /\ v.op = "finalize"
    BY <2>2, ValidateTyped
  <2> HIDE DEF v
  <2>4. \A k \in DOMAIN microtasks : microtasks[k].op # "finalize"
    BY Zenon, <2>1 DEF FinalizeInv
  <2>5. /\ microtasks \in Seq(Tasks) /\ Len(microtasks) \in Nat
        /\ DOMAIN microtasks = 1..Len(microtasks)
    BY SchemaTyped
  <2>6. /\ microtasks' \in Seq(Tasks) /\ Len(microtasks') = Len(microtasks) + 1
        /\ \A i \in 1..Len(microtasks) : microtasks'[i] = microtasks[i]
        /\ microtasks'[Len(microtasks) + 1] = v
    BY <2>1, <2>3, <2>5, AppendProperties
  <2>7. DOMAIN microtasks' = 1..(Len(microtasks) + 1)
    BY <2>6, LenProperties
  <2>8. \A x \in DOMAIN microtasks' : microtasks'[x].op = "finalize" => x = Len(microtasks) + 1
    <3>1. \A x \in 1..(Len(microtasks) + 1) : x \in 1..Len(microtasks) \/ x = Len(microtasks) + 1
      BY <2>5
    <3> QED
      BY <2>4, <2>5, <2>6, <2>7, <3>1
  <2>9. 1 \in DOMAIN Listed /\ \A j \in 1..(1 - 1) : Settled(Listed[j])'
    BY <2>2
  <2>10. ASSUME NEW x \in DOMAIN microtasks', microtasks'[x].op = "finalize"
         PROVE  \E i \in DOMAIN Listed :
                  /\ microtasks'[x].entity = Listed[i]
                  /\ \A j \in 1..(i - 1) : Settled(Listed[j])'
    <3>1. microtasks'[x] = v
      BY <2>6, <2>8, <2>10
    <3>2. microtasks'[x].entity = Listed[1]
      BY <2>3, <3>1
    <3> QED
      BY Zenon, <2>9, <3>2
  <2>11. final' # "done"
    BY <2>1
  <2>12. \A x, y \in DOMAIN microtasks' :
           microtasks'[x].op = "finalize" /\ microtasks'[y].op = "finalize" => x = y
    BY Zenon, <2>8
  <2> QED
    BY Zenon, <2>1, <2>10, <2>11, <2>12 DEF FinalizeInv
<1>5. ASSUME ValidateNext PROVE FinalizeInv'
  <2> DEFINE e == Head(microtasks).entity
             i == CHOOSE j \in DOMAIN Listed : Listed[j] = e
             t == Tail(microtasks)
  <2>1. microtasks # <<>> /\ Head(microtasks).op = "finalize"
    BY Zenon, <1>5 DEF ValidateNext
  <2>2. /\ i \in 1..Len(Listed) /\ Len(Listed) \in Nat /\ DOMAIN Listed = 1..Len(Listed)
        /\ Listed[i] = e /\ \A j \in DOMAIN Listed : Listed[j] \in Entities
        /\ \A j \in 1..(i - 1) : Settled(Listed[j])
    BY Zenon, <2>1, ValidatedPlace
  <2>3. /\ tableNamed' = tableNamed \cup {e}
        /\ final' = "running" => ValidSchema(meta[e]) /\ i # Len(Listed)
        /\ final' = "done" => ValidSchema(meta[e]) /\ i = Len(Listed)
        /\ microtasks' = IF final' = "running" THEN Append(t, Validate(Listed[i + 1])) ELSE t
        /\ changed' = changed \ {e} /\ UNCHANGED meta
    BY <1>5 DEF ValidateNext
  <2>4. Head(microtasks) = microtasks[1] /\ 1 \in DOMAIN microtasks
    BY <2>1, SchemaTyped
  <2>5. /\ t \in Seq(Tasks) /\ Len(t) \in Nat /\ DOMAIN t = 1..Len(t)
        /\ \A x \in DOMAIN t : x + 1 \in DOMAIN microtasks /\ x + 1 # 1 /\ t[x] = microtasks[x + 1]
    BY Zenon, <2>1, TailPlaces, LenProperties
  <2>12. PICK k \in 1..Len(Listed) : k = i
    BY <2>2
  <2> HIDE DEF t, e, i
  <2>6. \A x \in DOMAIN t : t[x].op # "finalize"
    BY Zenon, <2>1, <2>4, <2>5 DEF FinalizeInv
  <2>7. \A x \in Entities : x # e /\ Settled(x) => Settled(x)'
    BY <2>3 DEF Settled, Checked
  <2>13. /\ k \in 1..Len(Listed) /\ Len(Listed) \in Nat /\ DOMAIN Listed = 1..Len(Listed)
         /\ Listed[k] = e /\ \A j \in DOMAIN Listed : Listed[j] \in Entities
         /\ \A j \in 1..(k - 1) : Settled(Listed[j])
    BY Zenon, <2>2, <2>12
  <2>14. /\ tableNamed' = tableNamed \cup {e}
         /\ final' = "running" => ValidSchema(meta[e]) /\ k # Len(Listed)
         /\ final' = "done" => ValidSchema(meta[e]) /\ k = Len(Listed)
         /\ microtasks' = IF final' = "running"
              THEN Append(t, Validate(Listed[k + 1])) ELSE t
         /\ changed' = changed \ {e} /\ UNCHANGED meta
    BY Zenon, <2>3, <2>12
  <2>8. final' \in {"running", "done"} => Checked(Listed[k])'
    <3>1. e \in tableNamed' /\ (final' \in {"running", "done"} => ValidSchema(meta[e]))
      BY <2>14
    <3>2. meta' = meta
      BY <2>14
    <3>3. Listed[k] = e
      BY Zenon, <2>13
    <3>4. ASSUME final' \in {"running", "done"} PROVE Checked(Listed[k])'
      <4>1. ValidSchema(meta[Listed[k]]) /\ Listed[k] \in tableNamed'
        BY Zenon, <3>1, <3>3, <3>4
      <4>2. meta'[Listed[k]] = meta[Listed[k]]
        BY Zenon, <3>2
      <4>3. ValidSchema(meta'[Listed[k]])
        BY Zenon, <4>1, <4>2
      <4> QED
        BY Zenon, <4>1, <4>3 DEF Checked
    <3> QED
      BY <3>4
  <2>9. final' \in {"running", "done"} => \A j \in 1..k : Settled(Listed[j])'
    <3> SUFFICES ASSUME final' \in {"running", "done"}, NEW j \in 1..k
                 PROVE  Settled(Listed[j])'
      OBVIOUS
    <3>1. j \in 1..Len(Listed) /\ (j = k \/ j \in 1..(k - 1))
      BY <2>13
    <3>2. Listed[j] \in Entities
      BY <2>13, <3>1
    <3>3. ASSUME Listed[j] = e PROVE Settled(Listed[j])'
      <4>1. Checked(Listed[k])'
        BY <2>8
      <4>2. Listed[j] = Listed[k]
        BY <2>13, <3>3
      <4> QED
        BY Zenon, <4>1, <4>2 DEF Checked, Settled
    <3>4. ASSUME Listed[j] # e PROVE Settled(Listed[j])'
      <4>1. j \in 1..(k - 1)
        BY Zenon, <2>13, <3>1, <3>4
      <4> QED
        BY Zenon, <2>7, <2>13, <3>2, <3>4, <4>1 DEF Settled, Checked
    <3> QED
      BY <3>3, <3>4
  <2>10. CASE final' = "running"
    <3>1. k + 1 \in 1..Len(Listed) /\ (k + 1) - 1 = k
      <4>1. k # Len(Listed)
        BY Zenon, <2>14, <2>10
      <4>2. k \in 1..Len(Listed) /\ Len(Listed) \in Nat
        BY Zenon, <2>13
      <4> QED
        BY <4>1, <4>2
    <3> DEFINE v == Validate(Listed[k + 1])
    <3>2. v \in Tasks /\ v.entity = Listed[k + 1] /\ v.op = "finalize"
      <4>1. Listed[k + 1] \in Entities
        BY <2>13, <3>1
      <4> QED
        BY <4>1, ValidateTyped
    <3>10. microtasks' = Append(t, v)
      BY Zenon, <2>10, <2>14
    <3> HIDE DEF v
    <3>3. /\ microtasks' \in Seq(Tasks) /\ Len(microtasks') = Len(t) + 1
          /\ \A x \in 1..Len(t) : microtasks'[x] = t[x]
          /\ microtasks'[Len(t) + 1] = v
      BY <2>5, <3>2, <3>10, AppendProperties
    <3>4. DOMAIN microtasks' = 1..(Len(t) + 1)
      BY <3>3, LenProperties
    <3>5. \A x \in DOMAIN microtasks' : microtasks'[x].op = "finalize" => x = Len(t) + 1
      <4>1. \A x \in 1..(Len(t) + 1) : x \in 1..Len(t) \/ x = Len(t) + 1
        BY <2>5
      <4> QED
        BY <2>5, <2>6, <3>3, <3>4, <4>1
    <3>6. \A x \in DOMAIN microtasks' : microtasks'[x].op = "finalize" => microtasks'[x].entity = Listed[k + 1]
      BY <3>2, <3>3, <3>5
    <3>7. k + 1 \in DOMAIN Listed
          /\ \A j \in 1..((k + 1) - 1) : Settled(Listed[j])'
      BY <2>13, <2>9, <2>10, <3>1
    <3>8. \A x, y \in DOMAIN microtasks' :
            microtasks'[x].op = "finalize" /\ microtasks'[y].op = "finalize" => x = y
      BY Zenon, <3>5
    <3>9. final' # "done"
      BY <2>10
    <3> QED
      BY Zenon, <2>10, <3>6, <3>7, <3>8, <3>9 DEF FinalizeInv
  <2>11. CASE final' # "running"
    <3>1. microtasks' = t
      BY <2>14, <2>11
    <3>2. final' = "done" => \A j \in DOMAIN Listed : Settled(Listed[j])'
      BY <2>13, <2>14, <2>9
    <3> QED
      BY Zenon, <2>6, <3>1, <3>2 DEF FinalizeInv
  <2> QED
    BY <2>10, <2>11
<1> QED
  BY Zenon, StepKinds, <1>1, <1>2, <1>3, <1>4, <1>5

\* When a finalisation has succeeded, what validation demands holds of every entity that has
\* not changed since: so a column is called by the property of each key, and only one is.
LEMMA FinalizedUsable ==
  ASSUME FinalizeInv PROVE FinalizedIsUsable
<1> SUFFICES ASSUME final = "done", NEW e \in ToSet(Listed) \ changed
             PROVE  /\ e \in tableNamed /\ meta[e].primaryKeys # <<>>
                    /\ \A k \in DOMAIN meta[e].primaryKeys :
                         Cardinality({i \in DOMAIN meta[e].columns :
                            CalledBy(meta[e].columns[i]) = meta[e].primaryKeys[k].prop}) = 1
  BY DEF FinalizedIsUsable
<1>1. PICK j \in DOMAIN Listed : e = Listed[j]
  BY DEF ToSet
<1>2. Checked(e)
  BY Zenon, <1>1 DEF FinalizeInv, Settled
<1> DEFINE keys == meta[e].primaryKeys
           cs   == meta[e].columns
<1>3. /\ e \in tableNamed /\ keys # <<>>
      /\ \A i, l \in DOMAIN cs : CalledBy(cs[i]) = CalledBy(cs[l]) => i = l
      /\ \A k \in DOMAIN keys : keys[k].prop # NoProp /\ \E l \in DOMAIN cs : cs[l].name = keys[k].prop
  BY Zenon, <1>2 DEF Checked, ValidSchema, ColumnsValid, PrimaryKeysValid
<1> HIDE DEF keys, cs
<1>4. ASSUME NEW k \in DOMAIN keys
      PROVE  Cardinality({i \in DOMAIN cs : CalledBy(cs[i]) = keys[k].prop}) = 1
  <2>1. PICK l \in DOMAIN cs : cs[l].name = keys[k].prop
    BY <1>3, <1>4
  <2>3. CalledBy(cs[l]) = keys[k].prop
    BY <1>3, <1>4, <2>1 DEF CalledBy, NameOr, NoName
  <2>2. {i \in DOMAIN cs : CalledBy(cs[i]) = keys[k].prop} = {l}
    BY <1>3, <2>3
  <2> QED
    BY <2>2, FS_Singleton
<1> QED
  BY <1>3, <1>4 DEF keys, cs

\* In the initial states the metadata is what the class bodies leave.
LEMMA SchemaInitially ==
  ASSUME SchemaInit PROVE SchemaTypeOK /\ KeysAreColumns /\ FinalizeInv
<1>1. PICK body \in [Entities -> UNION {Bodies[e] : e \in Entities}] :
        /\ \A e \in Entities : body[e] \in Bodies[e]
        /\ meta = [e \in Entities |-> DefinedClass(body[e])]
  BY DEF SchemaInit
<1>2. ASSUME NEW e \in Entities PROVE Sound(meta[e])
  <2>1. body[e] \in Seq(Decorators)
    BY <1>1, CallsAssumption
  <2>2. meta[e] = DefinedClass(body[e])
    BY Zenon, <1>1
  <2> QED
    BY <2>1, <2>2, DefinedClassSound
<1>3. DOMAIN meta = Entities
  BY Zenon, <1>1
<1>4. /\ tableNamed = {} /\ handlerEntity = [h \in Async |-> NoEntity]
      /\ microtasks = <<>> /\ final = "none" /\ calls = 0
      /\ changed = {} /\ moved = {}
  BY DEF SchemaInit
<1>5. SchemaTypeOK
  <2>1. \A e \in Entities : meta[e] = NoMeta \/ IsTableMeta(meta[e])
    BY Zenon, <1>2 DEF Sound
  <2>2. handlerEntity \in [Async -> Entities \cup {NoEntity}]
    BY <1>4
  <2>3. calls \in 0..MaxCalls
    BY <1>4, SchemaAssumption
  <2>4. microtasks \in Seq(Tasks)
    BY <1>4
  <2> QED
    BY <1>3, <1>4, <2>1, <2>2, <2>3, <2>4 DEF SchemaTypeOK
<1>6. KeysAreColumns
  BY Zenon, <1>2 DEF Sound, KeysAreColumns, KeysOfColumns, IsTable
<1>7. FinalizeInv
  <2>1. DOMAIN microtasks = {}
    BY <1>4
  <2> QED
    BY <1>4, <2>1 DEF FinalizeInv
<1> QED
  BY <1>5, <1>6, <1>7

-----------------------------------------------------------------------------
(* What a step may do to the metadata                                       *)

\* A step that takes a task away changes the entity of that task only.
LEMMA StepHitsItsEntity ==
  ASSUME SchemaTypeOK, SchemaNext, NEW e \in Entities, meta'[e] # meta[e],
         Len(microtasks') < Len(microtasks)
  PROVE  e = Head(microtasks).entity
<1>1. Len(microtasks) \in Nat /\ microtasks \in Seq(Tasks)
  BY SchemaTyped
<1>2. ASSUME microtasks' = microtasks PROVE FALSE
  BY <1>1, <1>2
<1>3. ASSUME NEW t \in Tasks, microtasks' = Append(microtasks, t) PROVE FALSE
  <2>1. Len(microtasks') = Len(microtasks) + 1
    BY <1>1, <1>3, AppendProperties
  <2> QED
    BY <1>1, <2>1
<1>4. ASSUME microtasks # <<>>, Head(microtasks) \in HandlerCalls,
             CarryOut(Head(microtasks).entity, Head(microtasks))
      PROVE  e = Head(microtasks).entity
  <2>1. Head(microtasks).entity \in Entities
    BY <1>4 DEF HandlerCalls
  <2> QED
    BY Zenon, <1>4, <2>1, CarriedOut
<1>5. ASSUME meta' = meta PROVE FALSE
  BY <1>5
<1> QED
  BY Zenon, StepKinds, <1>2, <1>3, <1>4, <1>5 DEF FinalizeSchema, ValidateNext

\* What the run counts is what is counted here.
LEMMA EnteredCounts ==
  \A m, l, p : Entered(m, l, p) = EntriesOf(m[l], p)
  BY DEF Entered, EntriesOf, At

\* A change on account of one property takes entries of that property only.
LEMMA LostOne ==
  ASSUME NEW e \in Entities, NEW p, IsTableMeta(meta[e]), Alters(meta[e], meta'[e], p)
  PROVE  Cardinality(Lost(e)) <= 1
<1> DEFINE m == meta[e]
           n == meta'[e]
<1>1. \A l \in ListNames : m[l] \in Seq(Entries) /\ n[l] \in Seq(Entries) /\ Spares(m[l],
  n[l], p)
  BY Zenon, ListsTyped DEF Alters
<1> HIDE DEF m, n
<1>2. ASSUME NEW q, q # p, NEW l \in ListNames PROVE ~(Entered(n, l, q) < Entered(m, l, q))
  <2>1. EntriesOf(m[l], q) \in Nat /\ EntriesOf(n[l], q) \in Nat
    BY <1>1, AtFinite
  <2>2. EntriesOf(m[l], q) <= EntriesOf(n[l], q)
    BY Zenon, <1>1, <1>2 DEF Spares
  <2>3. ~(EntriesOf(n[l], q) < EntriesOf(m[l], q))
    BY <2>1, <2>2
  <2> QED
    BY Zenon, <2>3, EnteredCounts
<1>3. Lost(e) \subseteq {p}
  BY Zenon, <1>2 DEF Lost, m, n
<1>4. IsFiniteSet({p}) /\ Cardinality({p}) = 1
  BY FS_Singleton
<1>5. Cardinality(Lost(e)) <= Cardinality({p})
  BY <1>3, <1>4, FS_Subset
<1> QED
  BY <1>4, <1>5

\* So does every step, or it empties one list.
LEMMA StepRemovesOne ==
  ASSUME SchemaTypeOK, SchemaNext, NEW e \in Entities, meta'[e] # meta[e]
  PROVE  \/ Cardinality(Lost(e)) <= 1
         \/ \E l \in ListNames : meta'[e] = [meta[e] EXCEPT ![l] = <<>>]
<1>1. ASSUME NEW x \in Entities, NEW c \in HandlerCalls, CarryOut(x, c)
      PROVE  \/ Cardinality(Lost(e)) <= 1
             \/ \E l \in ListNames : meta'[e] = [meta[e] EXCEPT ![l] = <<>>]
  <2>1. e = x
    BY Zenon, <1>1, CarriedOut
  <2>2. IsTableMeta(meta[e]) /\ Changed(e, c.prop)
    BY Zenon, <1>1, <2>1, CarriedOut
  <2> QED
    BY Zenon, <2>2, LostOne DEF Changed
<1>2. ASSUME Head(microtasks) \in HandlerCalls PROVE Head(microtasks).entity \in Entities
  BY <1>2 DEF HandlerCalls
<1>3. ASSUME meta' = meta PROVE FALSE
  BY <1>3
<1> QED
  BY Zenon, StepKinds, <1>1, <1>2, <1>3 DEF FinalizeSchema, ValidateNext

-----------------------------------------------------------------------------
(* Removal and addition                                                     *)

\* A list that had no entry of a property is as it was when the one that was appended
\* has been removed.
LEMMA AppendedThenRemoved ==
  ASSUME NEW s \in Seq(Entries), NEW x \in Entries, NEW options,
         x.prop \notin PropsOf(s), options \subseteq x.attrs
  PROVE  WithoutFirst(Append(s, x), x.prop, options) = s
<1> DEFINE t == Append(s, x)
           n == Len(s)
           i == IndexOfEntry(t, x.prop, options)
<1>1. n \in Nat /\ DOMAIN s = 1..n
  BY LenProperties
<1>2. /\ t \in Seq(Entries) /\ Len(t) = n + 1
      /\ \A j \in 1..n : t[j] = s[j]
      /\ t[n + 1] = x
  BY AppendProperties
<1> HIDE DEF t, n
<1>3. Matches(t, x.prop, options) = {n + 1}
  <2>1. \A j \in 1..n : t[j].prop # x.prop
    BY <1>1, <1>2 DEF PropsOf
  <2>2. 1..(n + 1) = 1..n \cup {n + 1}
    BY <1>1
  <2> QED
    BY <1>2, <2>1, <2>2 DEF Matches
<1>4. i = n + 1
  <2>1. Len(t) \in Nat
    BY <1>1, <1>2
  <2> QED
    BY <1>3, <2>1, FirstMatch
<1> HIDE DEF i
<1>5. WithoutFirst(t, x.prop, options) = RemoveAt(t, n + 1)
  <2>1. i # 0
    BY <1>1, <1>4
  <2> QED
    BY <1>4, <2>1 DEF WithoutFirst, i
<1>6. /\ RemoveAt(t, n + 1) \in Seq(Entries) /\ Len(RemoveAt(t, n + 1)) = n
      /\ \A j \in 1..n : RemoveAt(t, n + 1)[j] = t[j]
  <2>1. n + 1 \in 1..Len(t) /\ Len(t) - 1 = n /\ (n + 1) - 1 = n
    BY <1>1, <1>2
  <2> QED
    BY <1>2, <2>1, RemovedAt
<1>7. RemoveAt(t, n + 1) = s
  <2> DEFINE u == RemoveAt(t, n + 1)
  <2>1. u \in Seq(Entries) /\ Len(u) = Len(s) /\ \A j \in 1..Len(u) : u[j] = s[j]
    BY <1>1, <1>2, <1>6 DEF n
  <2> HIDE DEF u
  <2>2. u = s
    BY <2>1, SeqEqual
  <2> QED
    BY <2>2 DEF u
<1> QED
  BY <1>5, <1>7 DEF t

\* A list without a property is left as it is by a removal.
LEMMA NothingToRemove ==
  ASSUME NEW s \in Seq(Entries), NEW p, NEW options, p \notin PropsOf(s)
  PROVE  WithoutFirst(s, p, options) = s
<1>1. Len(s) \in Nat /\ DOMAIN s = 1..Len(s)
  BY LenProperties
<1>2. Matches(s, p, options) = {}
  BY <1>1 DEF Matches, PropsOf
<1>3. IndexOfEntry(s, p, options) = 0
  BY <1>1, <1>2, FirstMatch
<1> QED
  BY <1>3 DEF WithoutFirst

\* removeColumn() undoes addColumn() on metadata that has nothing about the property, when
\* the options give the same property or none, and clear nothing.
LEMMA ColumnUndone ==
  ASSUME NEW m, IsTableMeta(m), NEW p \in PropOrNone, NEW o \in Given,
         o.prop \in {NotGiven, p}, \A l \in ListNames : p \notin PropsOf(m[l])
  PROVE  RemoveColumn(AddColumn(m, p, o), p) = m
<1> DEFINE col == Over(Entry(p, NoName, {"typed"}), o)
           key == Over(Entry(p, NoName, {}), o)
           idx == Entry(p, p, {"unique"})
           def == Entry(p, NoName, {})
           c == Append(m.columns, col)
           k == IF "primary" \in o.attrs THEN Append(m.primaryKeys, key) ELSE m.primaryKeys
           x == IF "unique" \in o.attrs THEN Append(m.indexedColumns, idx) ELSE m.indexedColumns
           d == IF "default" \in o.attrs THEN Append(m.defaultValues, def) ELSE m.defaultValues
           n == WithLists(m, c, k, x, d)
<1>1. AddColumn(m, p, o) = n
  BY ListsTyped DEF AddColumn, WithLists
<1>2. /\ m.columns \in Seq(Entries) /\ m.primaryKeys \in Seq(Entries)
      /\ m.indexedColumns \in Seq(Entries) /\ m.defaultValues \in Seq(Entries)
      /\ p \notin PropsOf(m.columns) /\ p \notin PropsOf(m.primaryKeys)
      /\ p \notin PropsOf(m.indexedColumns) /\ p \notin PropsOf(m.defaultValues)
  BY DEF IsTableMeta, ListNames
<1>3. /\ col \in Entries /\ key \in Entries /\ idx \in Entries /\ def \in Entries
      /\ col.prop = p /\ key.prop = p /\ idx.prop = p /\ def.prop = p
  BY EntryOver
<1>13. {"unique"} \subseteq idx.attrs
  BY DEF Entry
<1> HIDE DEF col, key, idx, def
<1>4. ASSUME NEW s \in Seq(Entries), p \notin PropsOf(s)
      PROVE  /\ \A y \in Entries : \A b :
                  y.prop = p /\ b \subseteq y.attrs => WithoutFirst(Append(s, y), p, b) = s
             /\ \A b : WithoutFirst(s, p, b) = s
  <2>1. ASSUME NEW y \in Entries, NEW b, y.prop = p, b \subseteq y.attrs
        PROVE  WithoutFirst(Append(s, y), p, b) = s
    <3>1. WithoutFirst(Append(s, y), y.prop, b) = s
      BY <1>4, <2>1, AppendedThenRemoved
    <3> QED
      BY <2>1, <3>1
  <2>2. \A b : WithoutFirst(s, p, b) = s
    BY <1>4, NothingToRemove
  <2> QED
    BY Zenon, <2>1, <2>2
<1>14. \A y : {} \subseteq y.attrs
  OBVIOUS
<1>5. WithoutFirst(c, p, {}) = m.columns
  BY <1>2, <1>3, <1>4, <1>14
<1>6. WithoutFirst(k, p, {}) = m.primaryKeys
  <2>1. CASE "primary" \in o.attrs
    BY <1>2, <1>3, <1>4, <1>14, <2>1
  <2>2. CASE "primary" \notin o.attrs
    BY <1>2, <1>4, <2>2
  <2> QED
    BY <2>1, <2>2
<1>7. WithoutFirst(x, p, {"unique"}) = m.indexedColumns
  <2>1. CASE "unique" \in o.attrs
    BY <1>2, <1>3, <1>4, <1>13, <2>1
  <2>2. CASE "unique" \notin o.attrs
    BY <1>2, <1>4, <2>2
  <2> QED
    BY <2>1, <2>2
<1>8. WithoutFirst(d, p, {}) = m.defaultValues
  <2>1. CASE "default" \in o.attrs
    BY <1>2, <1>3, <1>4, <1>14, <2>1
  <2>2. CASE "default" \notin o.attrs
    BY <1>2, <1>4, <2>2
  <2> QED
    BY <2>1, <2>2
<1>9. /\ c \in Seq(Entries) /\ k \in Seq(Entries) /\ x \in Seq(Entries) /\ d \in Seq(Entries)
      /\ PropsOf(c) = PropsOf(m.columns) \cup {p}
  <2>1. \A s \in Seq(Entries), y \in Entries :
          /\ Append(s, y) \in Seq(Entries)
          /\ PropsOf(Append(s, y)) = PropsOf(s) \cup {y.prop}
    BY SparedByAppend DEF Spares
  <2>2. c \in Seq(Entries) /\ PropsOf(c) = PropsOf(m.columns) \cup {p}
    BY <1>2, <1>3, <2>1
  <2>3. k \in Seq(Entries)
    BY <1>2, <1>3, <2>1
  <2>4. x \in Seq(Entries) /\ d \in Seq(Entries)
    BY <1>2, <1>3, <2>1
  <2> QED
    BY <2>2, <2>3, <2>4
<1> HIDE DEF c, k, x, d
<1>10. /\ IsTableMeta(n) /\ n.columns = c /\ n.primaryKeys = k /\ n.indexedColumns = x
       /\ n.defaultValues = d
       /\ \A l \in ListNames : l \notin {"columns", "primaryKeys", "indexedColumns", "defaultValues"}
                                 => n[l] = m[l]
  BY <1>9 DEF WithLists, IsTableMeta, ListNames
<1> HIDE DEF n
<1>11. RemoveColumn(n, p) = WithLists(n, m.columns, m.primaryKeys, m.indexedColumns,
  m.defaultValues)
  <2>1. IsTable(n) /\ p \in ColumnsOf(n)
    BY <1>9, <1>10, ListsTyped DEF ColumnsOf
  <2> QED
    BY <1>5, <1>6, <1>7, <1>8, <1>10, <2>1 DEF RemoveColumn, OnColumn, Without, WithLists
<1>12. WithLists(n, m.columns, m.primaryKeys, m.indexedColumns, m.defaultValues) = m
  <2> DEFINE r == WithLists(n, m.columns, m.primaryKeys, m.indexedColumns, m.defaultValues)
  <2>1. r \in [ListNames -> Seq(Entries)] /\ m \in [ListNames -> Seq(Entries)]
    BY <1>2, <1>10 DEF WithLists, IsTableMeta, ListNames
  <2>2. \A l \in ListNames : r[l] = m[l]
    BY <1>10 DEF WithLists, IsTableMeta, ListNames
  <2> HIDE DEF r
  <2>3. r = m
    BY <2>1, <2>2
  <2> QED
    BY <2>3 DEF r
<1> QED
  BY <1>1, <1>11, <1>12

\* So it does on the metadata of every entity.
LEMMA RemovalUndoes ==
  ASSUME SchemaTypeOK PROVE RemovalUndoesAddition
<1> SUFFICES ASSUME NEW e \in Entities, NEW p \in Props, IsTable(meta[e]),
                    \A l \in ListNames : p \notin PropsOf(meta[e][l]),
                    NEW a \in SUBSET {"primary", "unique", "default"}
             PROVE  LET o == [NoOptions EXCEPT !.prop = p, !.attrs = a]
                    IN  RemoveColumn(AddColumn(meta[e], p, o), p) = meta[e]
  BY Zenon DEF RemovalUndoesAddition
<1> DEFINE o == [NoOptions EXCEPT !.prop = p, !.attrs = a]
<1>1. IsTableMeta(meta[e])
  BY Zenon DEF SchemaTypeOK, IsTable
<1>2. p \in PropOrNone /\ o \in Given /\ o.prop = p
  BY DEF NoOptions, Given, PropOrNone, SomeOptions, Options
<1> HIDE DEF o
<1>3. RemoveColumn(AddColumn(meta[e], p, o), p) = meta[e]
  BY <1>1, <1>2, ColumnUndone
<1> QED
  BY <1>3 DEF o

=============================================================================
