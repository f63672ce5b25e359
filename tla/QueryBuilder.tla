---------------------------- MODULE QueryBuilder ----------------------------
(***************************************************************************)
(* The QueryBuilder of src/src/db/query-builder.ts.  Of the text of a query   *)
(* we keep its clauses, in their order, and the placeholders in each; a       *)
(* condition is its word (AND, OR or none), with its placeholders behind those *)
(* of the conditions before, and a placeholder is known by the name of the    *)
(* value that belongs there.                                                 *)
(***************************************************************************)
EXTENDS Naturals, SequencesExt

\* Clauses in the order of the text.  A count replaces the selected columns.
ClauseOrder == <<"select", "count", "schema", "table", "alias", "join", "where",
                 "groupBy", "having", "orderBy", "limit", "offset">>

\* new QueryBuilder(table)
EmptyBuilder(table) ==
  [table |-> table, clauses |-> {"table"},
   where |-> <<>>, whereMarks |-> <<>>, whereParams |-> <<>>,
   having |-> <<>>, havingMarks |-> <<>>, havingParams |-> <<>>]

\* Also the table is forgotten.
Reset(b) == [EmptyBuilder("none") EXCEPT !.clauses = {}]

Adding(b, clause) == [b EXCEPT !.clauses = @ \cup {clause}]

Select(b)     == Adding(b, "select")
Distinct(b)   == Adding(b, "select")
UseSchema(b)  == Adding(b, "schema")
From(b, table, aliased) ==
  [b EXCEPT !.table = table,
            !.clauses = (@ \ {"alias"}) \cup {"table"} \cup (IF aliased THEN {"alias"} ELSE {})]
OrderBy(b)    == Adding(b, "orderBy")
Limit(b)      == Adding(b, "limit")
Offset(b)     == Adding(b, "offset")
Join(b)       == Adding(b, "join")
GroupBy(b)    == Adding(b, "groupBy")
Count(b)      == Adding(b, "count")
UseFunction(b) == Adding(b, "select")

\* Meant for later: they return the builder as it is.
Unimplemented(b) == b

\* A condition of WHERE, with the word in front of it.
Condition(b, word, marks, params) ==
  [b EXCEPT !.where = Append(@, word), !.whereMarks = @ \o marks, !.whereParams = @ \o params]

Where(b, marks, params) == Condition(Adding(b, "where"), "", marks, params)

\* and() and or() throw without a condition before them.
AndWhere(b, marks, params) ==
  IF b.where = <<>> THEN b ELSE Condition(b, "AND", marks, params)

OrWhere(b, marks, params) ==
  IF b.where = <<>> THEN b ELSE Condition(b, "OR", marks, params)

Having(b, marks, params) ==
  [Adding(b, "having") EXCEPT !.having = Append(@, ""),
                              !.havingMarks = @ \o marks, !.havingParams = @ \o params]

BuildHavingFirstMutant(b) ==
  [text   |-> SelectSeq(ClauseOrder, LAMBDA c : c \in b.clauses),
   table  |-> b.table,
   marks  |-> b.whereMarks \o b.havingMarks,
   values |-> b.havingParams \o b.whereParams]

\* The clauses that are present, in order; the values of WHERE, then of HAVING.
Build(b) ==
  [text   |-> SelectSeq(ClauseOrder, LAMBDA c :
               c \in b.clauses /\ ~(c = "select" /\ "count" \in b.clauses)),
   table  |-> b.table,
   marks  |-> b.whereMarks \o b.havingMarks,
   values |-> b.whereParams \o b.havingParams]

=============================================================================
