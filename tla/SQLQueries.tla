----------------------------- MODULE SQLQueries -----------------------------
(***************************************************************************)
(* internal/datastore/common: the queries that SQL datastores build over   *)
(* their relationship table, sql.go, and how relationships.go reads their  *)
(* rows. A column that the filters pin to one value is neither selected    *)
(* nor compared with the cursor: what is read for it is the pinned value.  *)
(*                                                                         *)
(* The reader, its transactions and its clock are RelationshipQueries'.    *)
(***************************************************************************)
EXTENDS RelationshipQueries

CONSTANT HintOrder  \* SortOrder() of the indexing hint, "unsorted" for none

ASSUME HintAssumption == HintOrder \in {"unsorted", "byResource", "bySubject"}

ASSUME FiltersAssumption ==
  \A q \in Queries :
    /\ IsFiniteSet(q.filter.ids) /\ IsFiniteSet(q.filter.selectors)
    /\ \A sel \in q.filter.selectors : IsFiniteSet(sel.ids)

\* Reverse queries are memdb's here; see Selected for the limit of 1.
ASSUME SQLAssumption ==
  \A q \in Queries :
    q.store = "sql" => /\ q.direction = "forward"
                       /\ q.order = "unsorted" => q.limit = 1

\* The columns, in the order they are selected.
ColNamespace == 1
ColObjectID == 2
ColRelation == 3
ColUsersetNamespace == 4
ColUsersetObjectID == 5
ColUsersetRelation == 6
SubjectColumns == {ColUsersetNamespace, ColUsersetObjectID, ColUsersetRelation}

Column(k, c) == IF c \in SubjectColumns THEN k[2][c - 3] ELSE k[1][c]

SortColumns(order) ==
  IF order = "bySubject" THEN <<4, 5, 6, 1, 2, 3>> ELSE <<1, 2, 3, 4, 5, 6>>

----------------------------------------------------------------------------
(***************************************************************************)
(* Filters                                                                 *)
(***************************************************************************)
selectorClause(sel, subject) ==
  /\ sel.type # Unset => subject[1] = sel.type
  /\ sel.ids # {} => subject[2] \in sel.ids
  /\ sel.onlyNonEllipsis => subject[3] # Ellipsis
  /\ ~sel.onlyNonEllipsis /\ SelectorRelations(sel) # {} =>
       subject[3] \in SelectorRelations(sel)

FilterWithSubjectsSelectors(selectors, subject) ==
  selectors # {} => \E sel \in selectors : selectorClause(sel, subject)

\* Filters that FilterWithRelationshipsFilter returns an error for, so that no
\* statement runs: an empty id, or ids beside a prefix. So it does for a prefix with
\* a percent sign, which a set of the ids with a prefix cannot show.
FilterRefused(f) ==
  \/ f.ids # {} /\ f.prefix # {}
  \/ Unset \in f.ids
  \/ \E sel \in f.selectors : Unset \in sel.ids

ASSUME AcceptedAssumption == \A q \in Queries : q.store = "sql" => ~FilterRefused(q.filter)

\* The WHERE of FilterWithRelationshipsFilter, for the others.
FilterKeeps(f, r) ==
  /\ f.type # Unset => r.resource[1] = f.type
  /\ f.relation # Unset => r.resource[3] = f.relation
  /\ f.ids # {} => r.resource[2] \in f.ids
  /\ f.prefix # {} => r.resource[2] \in f.prefix
  /\ FilterWithSubjectsSelectors(f.selectors, r.subject)
  /\ f.caveats # {} => r.caveat \in f.caveats
  /\ f.expiration = "has" => r.expires # Never
  /\ f.expiration = "none" => r.expires = Never

ExpirationKeeps(q, r) == q.skipExpiration \/ r.expires = Never \/ r.expires > now

\* What the filters record of each column, in whatever order: its values, ...
recordColumnValue(f, c) ==
  CASE c = ColNamespace        -> {f.type} \ {Unset}
    [] c = ColObjectID         -> f.ids
    [] c = ColRelation         -> {f.relation} \ {Unset}
    [] c = ColUsersetNamespace -> {sel.type : sel \in f.selectors} \ {Unset}
    [] c = ColUsersetObjectID  -> UNION {sel.ids : sel \in f.selectors}
    [] c = ColUsersetRelation  -> UNION {IF sel.onlyNonEllipsis THEN {}
                                         ELSE SelectorRelations(sel) : sel \in f.selectors}

\* ... and that it varies, for good.
recordVaryingColumnValue(f, c) ==
  \/ Cardinality(f.selectors) > 1 /\ c \in SubjectColumns
  \/ c = ColUsersetRelation /\ \E sel \in f.selectors : sel.onlyNonEllipsis

\* Mutant: the subjects of several selectors are not recorded as varying.
StaticInOneSelector(f, c) == Cardinality(recordColumnValue(f, c)) = 1

hasStaticValue(f, c) ==
  ~recordVaryingColumnValue(f, c) /\ Cardinality(recordColumnValue(f, c)) = 1

----------------------------------------------------------------------------
(***************************************************************************)
(* Pages                                                                   *)
(***************************************************************************)
sortOf(q) ==
  IF q.order # "chooseEfficient" THEN q.order
  ELSE IF HintOrder # "unsorted" THEN HintOrder ELSE "byResource"

\* The places in the order whose columns are compared with the cursor.
Compared(q) == {i \in 1..6 : ~hasStaticValue(q.filter, SortColumns(sortOf(q))[i])}

\* Mutant: the row of the cursor passes its own comparison.
AfterOrAt(q, cursor, k) ==
  LET cols == SortColumns(sortOf(q))
  IN \/ k = cursor
     \/ \E i \in Compared(q) :
          /\ Column(k, cols[i]) > Column(cursor, cols[i])
          /\ \A j \in Compared(q) : j < i => Column(k, cols[j]) = Column(cursor, cols[j])

\* A page with a limit has a column to compare: one that filters pin to a single
\* row has none, its cursor leaves nothing out, and its page comes again forever.
ASSUME ComparedAssumption ==
  \A q \in Queries : q.store = "sql" => Compared(q) # {} \/ q.limit = NoLimit

\* A comparison of tuples, or its expansion into ORs of ANDs: of none, nothing.
After(q, cursor, k) ==
  LET cols == SortColumns(sortOf(q))
  IN \/ Compared(q) = {}
     \/ \E i \in Compared(q) :
          /\ Column(k, cols[i]) > Column(cursor, cols[i])
          /\ \A j \in Compared(q) : j < i => Column(k, cols[j]) = Column(cursor, cols[j])

SelectedRows(q, cursor) ==
  {r \in table : /\ FilterKeeps(q.filter, r)
                 /\ ExpirationKeeps(q, r)
                 /\ cursor # NoCursor => After(q, cursor, Key(r))}

\* A row is read into its varying columns; the static ones hold their value.
ColumnsToSelect(f, k) ==
  LET field(c) == IF hasStaticValue(f, c) THEN CHOOSE v \in recordColumnValue(f, c) : TRUE
                  ELSE Column(k, c)
  IN <<<<field(1), field(2), field(3)>>, <<field(4), field(5), field(6)>>>>

\* Without an ORDER BY the database gives any rows in any order: a limit of 1 is
\* all that queries of this model give such a one.
Selected(q, cursor) ==
  LET found == SelectedRows(q, cursor)
  IN IF sortOf(q) # "unsorted"
     THEN {FirstOf(q.limit, Sorted(found, sortOf(q)))}
     ELSE IF found = {} THEN {<<>>} ELSE {<<r>> : r \in found}

\* The rows of the page as the iterator yields them.
RowsRead(f, page) == [i \in DOMAIN page |-> ColumnsToSelect(f, Key(page[i]))]

ExecuteQuery ==
  /\ query.store = "sql"
  /\ ~CursorRefused(query, after)
  /\ \E page \in Selected(query, after) : Got(RowsRead(query.filter, page))

SQLNext == ExecuteQuery \/ Next

SQLSpec == Init /\ [][SQLNext]_vars

----------------------------------------------------------------------------
\* What a query reads back for a row is the row, whatever columns it leaves out
\* because its filters pin them, and its WHERE selects the rows that memdb's
\* filter function keeps for the same filter.
StoresAgree ==
  query.store = "sql" =>
    \A r \in table :
      /\ FilterKeeps(query.filter, r) <=> ~FilterDrops(query.filter, r)
      /\ FilterKeeps(query.filter, r) => ColumnsToSelect(query.filter, Key(r)) = Key(r)
=============================================================================
