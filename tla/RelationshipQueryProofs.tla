---------------------- MODULE RelationshipQueryProofs ----------------------
(* The orders that pages and cursors go by, the columns that SQL queries leave
   out, and what a reader gets over all its pages from either store while
   transactions write between them, for all rows, queries and deletes. *)
EXTENDS SQLQueries, FiniteSetTheorems, SequenceTheorems, TLAPS

Keys == Triple \X Triple

\* less and eq split the triples three ways: exactly one of less, eq and greater.
LEMMA Trichotomy ==
  ASSUME NEW a \in Triple, NEW b \in Triple
  PROVE  /\ less(a, b) \/ eq(a, b) \/ less(b, a)
         /\ ~(less(a, b) /\ less(b, a))
         /\ ~(less(a, b) /\ eq(a, b))
  BY DEF less, eq, Triple

\* less is transitive.
LEMMA LessTransitive ==
  ASSUME NEW a \in Triple, NEW b \in Triple, NEW c \in Triple, less(a, b), less(b, c)
  PROVE  less(a, c)
  BY DEF less, Triple

\* Both sort orders are strict total orders on the keys, so a sorted page has
\* one order and a cursor one place in it.
THEOREM TotalOrders ==
  ASSUME NEW j \in Keys, NEW k \in Keys, NEW l \in Keys
  PROVE  /\ ResourceLess(j, k) \/ j = k \/ ResourceLess(k, j)
         /\ ~ResourceLess(j, j)
         /\ ResourceLess(j, k) /\ ResourceLess(k, l) => ResourceLess(j, l)
         /\ SubjectLess(j, k) \/ j = k \/ SubjectLess(k, j)
         /\ ~SubjectLess(j, j)
         /\ SubjectLess(j, k) /\ SubjectLess(k, l) => SubjectLess(j, l)
<1>1. /\ j[1] \in Triple /\ j[2] \in Triple /\ k[1] \in Triple /\ k[2] \in Triple
      /\ l[1] \in Triple /\ l[2] \in Triple
      /\ j = <<j[1], j[2]>> /\ k = <<k[1], k[2]>> /\ l = <<l[1], l[2]>>
  BY DEF Keys
<1>2. \A a, b \in Triple : /\ less(a, b) \/ a = b \/ less(b, a)
                           /\ ~(less(a, b) /\ less(b, a))
                           /\ ~less(a, a)
  BY Trichotomy DEF eq
<1>3. \A a, b, c \in Triple : less(a, b) /\ less(b, c) => less(a, c)
  BY LessTransitive
<1> QED
  BY <1>1, <1>2, <1>3 DEF ResourceLess, SubjectLess, eq

\* What a cursor leaves out of a sorted page is exactly what does not come after
\* it: the next page neither repeats a row nor steps over one.
THEOREM CursorCutsExactly ==
  ASSUME NEW k \in Keys, NEW cursor \in Keys, cursor # NoCursor
  PROVE  /\ CursorDrops(k, cursor, "byResource") <=> ~ResourceLess(cursor, k)
         /\ CursorDrops(k, cursor, "bySubject") <=> ~SubjectLess(cursor, k)
<1>1. /\ CursorDrops(k, cursor, "byResource") <=> ResourceLess(k, cursor) \/ k = cursor
      /\ CursorDrops(k, cursor, "bySubject") <=> SubjectLess(k, cursor) \/ k = cursor
  BY DEF CursorDrops, eq
<1>2. /\ ~(ResourceLess(k, cursor) /\ ResourceLess(cursor, k))
      /\ ~(SubjectLess(k, cursor) /\ SubjectLess(cursor, k))
  BY TotalOrders
<1> QED
  BY <1>1, <1>2, TotalOrders

\* A column that the filters pin holds, in every row they keep, what they pin it to.
LEMMA PinnedColumns ==
  ASSUME NEW q \in Queries, NEW r \in Rows, FilterKeeps(q.filter, r),
         NEW c \in 1..6, hasStaticValue(q.filter, c)
  PROVE  recordColumnValue(q.filter, c) = {Column(Key(r), c)}
<1> DEFINE f == q.filter
           k == Key(r)
<1> HIDE DEF f, k
<1> SUFFICES recordColumnValue(f, c) = {Column(k, c)}
  BY DEF f, k
<1>1. /\ Column(k, 1) = r.resource[1] /\ Column(k, 2) = r.resource[2]
      /\ Column(k, 3) = r.resource[3] /\ Column(k, 4) = r.subject[1]
      /\ Column(k, 5) = r.subject[2] /\ Column(k, 6) = r.subject[3]
  BY DEF k, Key, Column, SubjectColumns, ColUsersetNamespace, ColUsersetObjectID,
         ColUsersetRelation
<1>2. \A S : IsFiniteSet(S) /\ Cardinality(S) = 1 => \E x : S = {x}
  BY FS_Singleton
<1>3. /\ IsFiniteSet(f.ids) /\ IsFiniteSet(f.selectors)
      /\ \A sel \in f.selectors : IsFiniteSet(sel.ids)
  BY FiltersAssumption DEF f
<1>4. /\ Cardinality(recordColumnValue(f, c)) = 1
      /\ ~recordVaryingColumnValue(f, c)
  BY DEF hasStaticValue, f
<1>5. Cardinality({}) = 0
  BY FS_EmptySet
<1>6. FilterKeeps(f, r)
  BY DEF f
<1>7. /\ recordColumnValue(f, 1) = {f.type} \ {Unset}
      /\ recordColumnValue(f, 2) = f.ids
      /\ recordColumnValue(f, 3) = {f.relation} \ {Unset}
      /\ recordColumnValue(f, 4) = {sel.type : sel \in f.selectors} \ {Unset}
      /\ recordColumnValue(f, 5) = UNION {sel.ids : sel \in f.selectors}
      /\ recordColumnValue(f, 6) = UNION {IF sel.onlyNonEllipsis THEN {}
                                          ELSE SelectorRelations(sel) : sel \in f.selectors}
  <2>1. recordColumnValue(f, 1) = {f.type} \ {Unset}
    BY DEF recordColumnValue, ColNamespace, ColObjectID, ColRelation,
             ColUsersetNamespace, ColUsersetObjectID, ColUsersetRelation
  <2>2. recordColumnValue(f, 2) = f.ids
    BY DEF recordColumnValue, ColNamespace, ColObjectID, ColRelation,
             ColUsersetNamespace, ColUsersetObjectID, ColUsersetRelation
  <2>3. recordColumnValue(f, 3) = {f.relation} \ {Unset}
    BY DEF recordColumnValue, ColNamespace, ColObjectID, ColRelation,
             ColUsersetNamespace, ColUsersetObjectID, ColUsersetRelation
  <2>4. recordColumnValue(f, 4) = {sel.type : sel \in f.selectors} \ {Unset}
    BY DEF recordColumnValue, ColNamespace, ColObjectID, ColRelation,
             ColUsersetNamespace, ColUsersetObjectID, ColUsersetRelation
  <2>5. recordColumnValue(f, 5) = UNION {sel.ids : sel \in f.selectors}
    BY DEF recordColumnValue, ColNamespace, ColObjectID, ColRelation,
             ColUsersetNamespace, ColUsersetObjectID, ColUsersetRelation
  <2>6. recordColumnValue(f, 6) = UNION {IF sel.onlyNonEllipsis THEN {}
                                             ELSE SelectorRelations(sel) : sel \in f.selectors}
    BY DEF recordColumnValue, ColNamespace, ColObjectID, ColRelation,
             ColUsersetNamespace, ColUsersetObjectID, ColUsersetRelation
  <2> QED
    BY <2>1, <2>2, <2>3, <2>4, <2>5, <2>6
<1>8. CASE c = 1
  <2>1. f.type # Unset
    <3>1. ASSUME f.type = Unset PROVE recordColumnValue(f, c) = {}
      BY <3>1, <1>7, <1>8
    <3> QED
      BY <3>1, <1>4, <1>5
  <2>2. r.resource[1] = f.type
    BY <2>1, <1>6 DEF FilterKeeps
  <2> QED
    BY <2>1, <2>2, <1>1, <1>8, <1>7
<1>9. CASE c = 2
  <2>1. recordColumnValue(f, c) = f.ids
    BY <1>9, <1>7
  <2>2. PICK x : f.ids = {x}
    BY <2>1, <1>2, <1>3, <1>4
  <2>3. r.resource[2] = x
    BY <2>2, <1>6 DEF FilterKeeps
  <2> QED
    BY <2>1, <2>2, <2>3, <1>1, <1>9
<1>10. CASE c = 3
  <2>1. f.relation # Unset
    BY <1>4, <1>5, <1>10, <1>7
  <2>2. r.resource[3] = f.relation
    BY <2>1, <1>6 DEF FilterKeeps
  <2> QED
    BY <2>1, <2>2, <1>1, <1>10, <1>7
<1>11. CASE c \in 4..6
  <2>1. /\ c \in SubjectColumns /\ ~(Cardinality(f.selectors) > 1)
    BY <1>4, <1>11 DEF recordVaryingColumnValue, SubjectColumns, ColUsersetNamespace,
                       ColUsersetObjectID, ColUsersetRelation
  <2>2. f.selectors # {}
    <3>1. ASSUME f.selectors = {} PROVE recordColumnValue(f, c) = {}
      BY <3>1, <1>11, <1>7
    <3> QED
      BY <3>1, <1>4, <1>5
  <2>3. Cardinality(f.selectors) = 1
    BY <2>1, <2>2, <1>3, FS_EmptySet, FS_CardinalityType
  <2>4. PICK sel : f.selectors = {sel}
    BY <2>3, <1>2, <1>3
  <2>5. selectorClause(sel, r.subject)
    BY <2>4, <1>6 DEF FilterKeeps, FilterWithSubjectsSelectors
  <2>6. CASE c = 4
    <3>1. recordColumnValue(f, c) = {sel.type} \ {Unset}
      BY <2>4, <2>6, <1>7
    <3>2. sel.type # Unset
      BY <3>1, <1>4, <1>5
    <3>3. r.subject[1] = sel.type
      BY <3>2, <2>5 DEF selectorClause
    <3> QED
      BY <3>1, <3>2, <3>3, <2>6, <1>1
  <2>7. CASE c = 5
    <3>1. recordColumnValue(f, c) = sel.ids
      <4>1. recordColumnValue(f, c) = UNION {t.ids : t \in {sel}}
        BY <2>4, <2>7, <1>7
      <4>2. {t.ids : t \in {sel}} = {sel.ids}
        OBVIOUS
      <4> QED
        BY <4>1, <4>2
    <3>2. PICK x : sel.ids = {x}
      BY <3>1, <2>4, <1>2, <1>3, <1>4
    <3>3. r.subject[2] = x
      BY <3>2, <2>5 DEF selectorClause
    <3> QED
      BY <3>1, <3>2, <3>3, <2>7, <1>1
  <2>8. CASE c = 6
    <3>1. ~sel.onlyNonEllipsis
      BY <2>4, <2>8, <1>4 DEF recordVaryingColumnValue, ColUsersetRelation
    <3>2. recordColumnValue(f, c) = SelectorRelations(sel)
      <4>1. recordColumnValue(f, c) =
              UNION {IF t.onlyNonEllipsis THEN {} ELSE SelectorRelations(t) : t \in {sel}}
        BY <2>4, <2>8, <1>7
      <4>2. {IF t.onlyNonEllipsis THEN {} ELSE SelectorRelations(t) : t \in {sel}}
              = {SelectorRelations(sel)}
        BY <3>1
      <4> QED
        BY <4>1, <4>2
    <3>3. IsFiniteSet(SelectorRelations(sel))
      <4>1. SelectorRelations(sel) \in SUBSET ({Ellipsis} \cup {sel.relation})
        BY DEF SelectorRelations
      <4>2. IsFiniteSet({Ellipsis})
        BY FS_Singleton
      <4>3. IsFiniteSet({Ellipsis} \cup {sel.relation})
        BY <4>2, FS_AddElement
      <4> QED
        BY <4>1, <4>3, FS_Subset
    <3>4. PICK x : SelectorRelations(sel) = {x}
      BY <3>2, <3>3, <1>2, <1>4
    <3>5. r.subject[3] = x
      BY <3>1, <3>4, <2>5 DEF selectorClause
    <3> QED
      BY <3>2, <3>4, <3>5, <2>8, <1>1
  <2> QED
    BY <1>11, <2>6, <2>7, <2>8
<1> QED
  BY <1>8, <1>9, <1>10, <1>11

\* What is read back for a row that the filters keep is the row.
LEMMA ReadBack ==
  ASSUME NEW q \in Queries, NEW r \in Rows, FilterKeeps(q.filter, r)
  PROVE  ColumnsToSelect(q.filter, Key(r)) = Key(r)
<1> DEFINE field(c) == IF hasStaticValue(q.filter, c)
                       THEN CHOOSE v \in recordColumnValue(q.filter, c) : TRUE
                       ELSE Column(Key(r), c)
<1>1. ASSUME NEW c \in 1..6 PROVE field(c) = Column(Key(r), c)
  BY PinnedColumns
<1>2. ColumnsToSelect(q.filter, Key(r)) =
        <<<<field(1), field(2), field(3)>>, <<field(4), field(5), field(6)>>>>
  BY DEF ColumnsToSelect
<1> HIDE DEF field
<1>3. /\ field(1) = Column(Key(r), 1) /\ field(2) = Column(Key(r), 2)
      /\ field(3) = Column(Key(r), 3) /\ field(4) = Column(Key(r), 4)
      /\ field(5) = Column(Key(r), 5) /\ field(6) = Column(Key(r), 6)
  BY <1>1
<1>4. r.resource \in Triple /\ r.subject \in Triple
  BY RowsAssumption
<1> QED
  BY <1>2, <1>3, <1>4 DEF Column, Key, Triple, SubjectColumns, ColUsersetNamespace,
                          ColUsersetObjectID, ColUsersetRelation

\* The WHERE of a filter is memdb's filter function.
LEMMA SameFilter ==
  ASSUME NEW f, NEW r
  PROVE  FilterKeeps(f, r) <=> ~FilterDrops(f, r)
<1>1. \A sel : selectorClause(sel, r.subject) <=> applySubjectSelector(sel, r.subject)
  BY DEF selectorClause, applySubjectSelector
<1> QED
  BY <1>1 DEF FilterKeeps, FilterDrops, FilterWithSubjectsSelectors

\* The rows of the table and the query are among those of the model.
Known == table \subseteq Rows /\ query \in Queries

\* Transactions and pages keep to them.
LEMMA RowsKnown == SQLSpec => []Known
<1>1. Init => Known
  BY DEF Init, Known
<1>2. Known /\ [SQLNext]_vars => Known'
  <2> SUFFICES ASSUME Known, [SQLNext]_vars PROVE Known'
    OBVIOUS
  <2>1. CASE ExecuteQuery
    BY <2>1 DEF ExecuteQuery, Got, Known
  <2>2. CASE NextPage
    BY <2>2 DEF NextPage, Got, Known
  <2>3. CASE PageRefused
    BY <2>3 DEF PageRefused, Known
  <2>4. ASSUME NEW r \in Rows, Touch(r) PROVE Known'
    BY <2>4 DEF Touch, Change, readerVars, Known
  <2>5. ASSUME NEW d \in Deletes, DeleteRelationships(d.filter, d.limit) PROVE Known'
    BY <2>5 DEF DeleteRelationships, Change, readerVars, Known
  <2>6. CASE Tick
    BY <2>6 DEF Tick, readerVars, Known
  <2>7. CASE UNCHANGED vars
    BY <2>7 DEF vars, readerVars, Known
  <2> QED
    BY <2>1, <2>2, <2>3, <2>4, <2>5, <2>6, <2>7 DEF SQLNext, Next
<1> QED
  BY <1>1, <1>2, PTL DEF SQLSpec

\* Leaving pinned columns out of what is selected changes nothing that is read,
\* and SQL stores keep the rows that memdb keeps, for all tables and filters.
THEOREM StoresReadAlike == SQLSpec => []StoresAgree
<1>1. Known => StoresAgree
  BY SameFilter, ReadBack DEF Known, StoresAgree
<1> QED
  BY <1>1, RowsKnown, PTL

\* A lexicographic comparison of all six columns is the order of the keys.
LEMMA AllColumns ==
  ASSUME NEW j \in Keys, NEW k \in Keys, NEW order
  PROVE  Before(order, j, k) <=>
           \E i \in 1..6 :
             /\ Column(k, SortColumns(order)[i]) > Column(j, SortColumns(order)[i])
             /\ \A n \in 1..(i - 1) :
                  Column(k, SortColumns(order)[n]) = Column(j, SortColumns(order)[n])
<1> DEFINE a(i) == Column(j, SortColumns(order)[i])
           b(i) == Column(k, SortColumns(order)[i])
<1>1. /\ j[1] \in Triple /\ j[2] \in Triple /\ k[1] \in Triple /\ k[2] \in Triple
  BY DEF Keys
<1>2. CASE order = "bySubject"
  <2>1. /\ a(1) = j[2][1] /\ a(2) = j[2][2] /\ a(3) = j[2][3]
        /\ a(4) = j[1][1] /\ a(5) = j[1][2] /\ a(6) = j[1][3]
        /\ b(1) = k[2][1] /\ b(2) = k[2][2] /\ b(3) = k[2][3]
        /\ b(4) = k[1][1] /\ b(5) = k[1][2] /\ b(6) = k[1][3]
    BY <1>2 DEF Column, SortColumns, SubjectColumns, ColUsersetNamespace,
                ColUsersetObjectID, ColUsersetRelation
  <2>2. Before(order, j, k) <=> SubjectLess(j, k)
    BY <1>2 DEF Before
  <2> HIDE DEF a, b
  <2>3. Before(order, j, k) <=>
          \/ b(1) > a(1)
          \/ b(1) = a(1) /\ b(2) > a(2)
          \/ b(1) = a(1) /\ b(2) = a(2) /\ b(3) > a(3)
          \/ b(1) = a(1) /\ b(2) = a(2) /\ b(3) = a(3) /\ b(4) > a(4)
          \/ b(1) = a(1) /\ b(2) = a(2) /\ b(3) = a(3) /\ b(4) = a(4) /\ b(5) > a(5)
          \/ b(1) = a(1) /\ b(2) = a(2) /\ b(3) = a(3) /\ b(4) = a(4) /\ b(5) = a(5) /\ b(6) > a(6)
    BY <1>1, <2>1, <2>2 DEF SubjectLess, less, eq, Triple
  <2>4. Before(order, j, k) <=> \E i \in 1..6 : b(i) > a(i) /\ \A n \in 1..(i - 1) : b(n) = a(n)
    BY <2>3
  <2> QED
    BY <2>4 DEF a, b
<1>3. CASE order # "bySubject"
  <2>1. /\ a(1) = j[1][1] /\ a(2) = j[1][2] /\ a(3) = j[1][3]
        /\ a(4) = j[2][1] /\ a(5) = j[2][2] /\ a(6) = j[2][3]
        /\ b(1) = k[1][1] /\ b(2) = k[1][2] /\ b(3) = k[1][3]
        /\ b(4) = k[2][1] /\ b(5) = k[2][2] /\ b(6) = k[2][3]
    BY <1>3 DEF Column, SortColumns, SubjectColumns, ColUsersetNamespace,
                ColUsersetObjectID, ColUsersetRelation
  <2>2. Before(order, j, k) <=> ResourceLess(j, k)
    BY <1>3 DEF Before
  <2> HIDE DEF a, b
  <2>3. Before(order, j, k) <=>
          \/ b(1) > a(1)
          \/ b(1) = a(1) /\ b(2) > a(2)
          \/ b(1) = a(1) /\ b(2) = a(2) /\ b(3) > a(3)
          \/ b(1) = a(1) /\ b(2) = a(2) /\ b(3) = a(3) /\ b(4) > a(4)
          \/ b(1) = a(1) /\ b(2) = a(2) /\ b(3) = a(3) /\ b(4) = a(4) /\ b(5) > a(5)
          \/ b(1) = a(1) /\ b(2) = a(2) /\ b(3) = a(3) /\ b(4) = a(4) /\ b(5) = a(5) /\ b(6) > a(6)
    BY <1>1, <2>1, <2>2 DEF ResourceLess, less, eq, Triple
  <2>4. Before(order, j, k) <=> \E i \in 1..6 : b(i) > a(i) /\ \A n \in 1..(i - 1) : b(n) = a(n)
    BY <2>3
  <2> QED
    BY <2>4 DEF a, b
<1> QED
  BY <1>2, <1>3

\* A cursor that is compared only in the columns that filters leave open cuts a
\* page of SQL where one compared in all columns would.
THEOREM PinnedColumnsNeedNoComparison ==
  ASSUME NEW q \in Queries, NEW r \in Rows, NEW s \in Rows,
         FilterKeeps(q.filter, r), FilterKeeps(q.filter, s), Compared(q) # {}
  PROVE  After(q, Key(r), Key(s)) <=> Before(sortOf(q), Key(r), Key(s))
<1> DEFINE cols == SortColumns(sortOf(q))
           a(i) == Column(Key(r), cols[i])
           b(i) == Column(Key(s), cols[i])
<1>1. Key(r) \in Keys /\ Key(s) \in Keys
  BY RowsAssumption DEF Keys, Key
<1>2. \A i \in 1..6 : cols[i] \in 1..6
  BY DEF SortColumns
<1>3. ASSUME NEW i \in 1..6, i \notin Compared(q) PROVE a(i) = b(i)
  <2>1. hasStaticValue(q.filter, cols[i])
    BY <1>3 DEF Compared
  <2>2. {Column(Key(r), cols[i])} = {Column(Key(s), cols[i])}
    BY <1>2, <2>1, PinnedColumns
  <2> QED
    BY <2>2
<1>4. After(q, Key(r), Key(s)) <=>
        \E i \in Compared(q) : b(i) > a(i) /\ \A n \in Compared(q) : n < i => b(n) = a(n)
  BY DEF After
<1>5. Before(sortOf(q), Key(r), Key(s)) <=>
        \E i \in 1..6 : b(i) > a(i) /\ \A n \in 1..(i - 1) : b(n) = a(n)
  BY <1>1, AllColumns
<1>6. Compared(q) \subseteq 1..6
  BY DEF Compared
<1>7. ASSUME NEW i \in 1..6 PROVE ~(a(i) > a(i))
  <2>1. cols[i] \in 1..6 /\ r.resource \in Triple /\ r.subject \in Triple
    BY <1>2, RowsAssumption
  <2>2. a(i) \in Nat
    BY <2>1 DEF Column, Key, Triple, SubjectColumns, ColUsersetNamespace,
                ColUsersetObjectID, ColUsersetRelation
  <2> QED
    BY <2>2
<1> HIDE DEF a, b
<1>8. (\E i \in Compared(q) : b(i) > a(i) /\ \A n \in Compared(q) : n < i => b(n) = a(n))
      <=> (\E i \in 1..6 : b(i) > a(i) /\ \A n \in 1..(i - 1) : b(n) = a(n))
  BY <1>3, <1>6, <1>7
<1> QED
  BY <1>4, <1>5, <1>8

----------------------------------------------------------------------------
(***************************************************************************)
(* Sorted pages                                                            *)
(***************************************************************************)
\* Before is a strict total order on the keys.
LEMMA BeforeOrders ==
  ASSUME NEW order, NEW j \in Keys, NEW k \in Keys
  PROVE  /\ Before(order, j, k) \/ j = k \/ Before(order, k, j)
         /\ ~Before(order, j, j)
         /\ \A l \in Keys : Before(order, j, k) /\ Before(order, k, l) => Before(order, j, l)
  BY TotalOrders DEF Before

\* The rows of a table have keys of their own.
Distinct(S) == \A r, s \in S : Key(r) = Key(s) => r = s

\* The key of a row is a pair of triples.
LEMMA KeysOfRows ==
  ASSUME NEW r \in Rows
  PROVE  Key(r) \in Keys
  BY RowsAssumption DEF Key, Keys

\* Sorted lists all rows of S, each once, in the order.
LEMMA SortedRows ==
  ASSUME NEW S \in SUBSET Rows, IsFiniteSet(S), Distinct(S), NEW order
  PROVE  /\ Sorted(S, order) \in [1..Cardinality(S) -> S]
         /\ \A r \in S : \E i \in 1..Cardinality(S) : Sorted(S, order)[i] = r
         /\ \A i, j \in 1..Cardinality(S) :
              i < j => Before(order, Key(Sorted(S, order)[i]), Key(Sorted(S, order)[j]))
<1> DEFINE before(q, r) == Before(order, Key(q), Key(r))
           Preceding(r) == {q \in S : before(q, r)}
           rank(r) == Cardinality(Preceding(r))
           n == Cardinality(S)
           ranks == [r \in S |-> rank(r)]
<1>1. \A q, r, s \in S : /\ before(q, r) \/ q = r \/ before(r, q)
                         /\ ~before(q, q)
                         /\ before(q, r) /\ before(r, s) => before(q, s)
  <2> SUFFICES ASSUME NEW q \in S, NEW r \in S, NEW s \in S
               PROVE  /\ before(q, r) \/ q = r \/ before(r, q)
                      /\ ~before(q, q)
                      /\ before(q, r) /\ before(r, s) => before(q, s)
    OBVIOUS
  <2>1. Key(q) \in Keys /\ Key(r) \in Keys /\ Key(s) \in Keys
    BY KeysOfRows
  <2>2. Key(q) = Key(r) => q = r
    BY DEF Distinct
  <2> QED
    BY <2>1, <2>2, BeforeOrders
<1>2. n \in Nat
  BY FS_CardinalityType
<1> HIDE DEF before
<1>3. ASSUME NEW r \in S
      PROVE  /\ Preceding(r) \in SUBSET S /\ r \notin Preceding(r)
             /\ IsFiniteSet(Preceding(r)) /\ rank(r) \in 0..(n - 1)
  <2>1. Preceding(r) \in SUBSET S /\ r \notin Preceding(r)
    BY <1>1
  <2> HIDE DEF Preceding
  <2>2. /\ IsFiniteSet(Preceding(r)) /\ Cardinality(Preceding(r)) <= n
        /\ Cardinality(Preceding(r)) # n
    BY <2>1, FS_Subset
  <2> QED
    BY <1>2, <2>1, <2>2, FS_CardinalityType
<1>4. ASSUME NEW q \in S, NEW r \in S, before(q, r)
      PROVE  rank(q) < rank(r)
  <2>1. Preceding(q) \in SUBSET Preceding(r) /\ q \in Preceding(r) /\ q \notin Preceding(q)
    BY <1>1, <1>4
  <2>2. IsFiniteSet(Preceding(r))
    BY <1>3
  <2> HIDE DEF Preceding
  <2>3. rank(q) \in 0..(n - 1) /\ rank(r) \in 0..(n - 1)
    BY <1>3
  <2>4. rank(q) <= rank(r) /\ rank(q) # rank(r)
    BY <2>1, <2>2, FS_Subset
  <2> QED
    BY <2>4, <2>3
<1>5. \A r \in S : rank(r) \in 0..(n - 1)
  BY <1>3
<1> HIDE DEF rank
<1>6. ASSUME NEW q \in S, NEW r \in S, rank(q) = rank(r)
      PROVE  q = r
  <2>1. rank(q) \in Nat /\ rank(r) \in Nat
    BY <1>5
  <2> QED
    BY <1>1, <1>4, <1>6, <2>1
<1>7. \A i \in 1..n : \E r \in S : rank(r) = i - 1
  <2> DEFINE T == 0..(n - 1)
  <2>1. ranks \in Injection(S, T)
    BY <1>5, <1>6 DEF Injection, IsInjective
  <2>2. IsFiniteSet(T) /\ Cardinality(T) = n
    BY <1>2, FS_Interval
  <2>3. \A i \in 1..n : i - 1 \in T
    BY <1>2
  <2> HIDE DEF T, ranks
  <2>4. ranks \in Surjection(S, T)
    BY <2>1, <2>2, FS_Injection
  <2> QED
    BY <2>3, <2>4 DEF Surjection, ranks
<1> DEFINE s == Sorted(S, order)
<1>8. s = [i \in 1..n |-> CHOOSE r \in S : rank(r) = i - 1]
  BY DEF Sorted, rank, before
<1> HIDE DEF s
<1>9. ASSUME NEW i \in 1..n
      PROVE  s[i] \in S /\ rank(s[i]) = i - 1
  <2>1. s[i] = CHOOSE r \in S : rank(r) = i - 1
    BY <1>8
  <2> QED
    BY <1>7, <2>1
<1>10. s \in [1..n -> S]
  BY <1>8, <1>9
<1>11. ASSUME NEW r \in S
       PROVE  \E i \in 1..n : s[i] = r
  <2>1. rank(r) + 1 \in 1..n /\ (rank(r) + 1) - 1 = rank(r)
    BY <1>2, <1>5
  <2> QED
    BY <1>6, <1>9, <2>1
<1>12. ASSUME NEW i \in 1..n, NEW j \in 1..n, i < j
       PROVE  before(s[i], s[j])
  <2>1. s[i] \in S /\ s[j] \in S /\ rank(s[i]) = i - 1 /\ rank(s[j]) = j - 1
    BY <1>9
  <2>2. ~before(s[j], s[i]) /\ s[i] # s[j]
    BY <1>4, <1>12, <2>1
  <2> QED
    BY <1>1, <2>1, <2>2
<1> QED
  BY <1>10, <1>11, <1>12 DEF s, before

\* Of the rows of S all are in p, or p is full and the others come after it.
Covers(p, S, order, limit) ==
  \A r \in S : \/ \E i \in 1..Len(p) : p[i] = r
              \/ /\ limit # NoLimit /\ Len(p) = limit
                 /\ Before(order, Key(p[Len(p)]), Key(r))

\* The first rows of a sorted list: all that are not among them come after the
\* last of a full page.
LEMMA FirstRows ==
  ASSUME NEW S \in SUBSET Rows, IsFiniteSet(S), Distinct(S), NEW order,
         NEW limit \in (Nat \ {0}) \cup {NoLimit},
         NEW p, p = FirstOf(limit, Sorted(S, order))
  PROVE  /\ p \in Seq(S)
         /\ \A i, j \in 1..Len(p) : i < j => Before(order, Key(p[i]), Key(p[j]))
         /\ limit # NoLimit => Len(p) <= limit
         /\ Covers(p, S, order, limit)
<1> DEFINE s == Sorted(S, order)
           n == Cardinality(S)
<1>1. n \in Nat
  BY FS_CardinalityType
<1>2. /\ s \in [1..n -> S]
      /\ \A r \in S : \E i \in 1..n : s[i] = r
      /\ \A i, j \in 1..n : i < j => Before(order, Key(s[i]), Key(s[j]))
  BY SortedRows
<1> HIDE DEF s, n
<1>3. s \in Seq(S) /\ Len(s) = n
  BY <1>1, <1>2
<1>4. CASE limit = NoLimit \/ ~(limit < n)
  <2>1. p = s
    BY <1>3, <1>4 DEF FirstOf, s
  <2> QED
    BY <1>1, <1>2, <1>3, <1>4, <2>1 DEF Covers
<1>5. CASE limit # NoLimit /\ limit < n
  <2>1. p = SubSeq(s, 1, limit) /\ limit \in Nat \ {0}
    BY <1>3, <1>5 DEF FirstOf, s
  <2>2. /\ p \in Seq(S) /\ Len(p) = limit
        /\ \A i \in 1..limit : p[i] = s[i] /\ i \in 1..n
    BY <1>1, <1>2, <1>3, <1>5, <2>1
  <2>3. ASSUME NEW r \in S, ~\E i \in 1..Len(p) : p[i] = r
        PROVE  Before(order, Key(p[Len(p)]), Key(r))
    <3>1. PICK i \in 1..n : s[i] = r
      BY <1>2
    <3>2. ~(i \in 1..limit)
      BY <2>2, <2>3, <3>1
    <3>3. limit < i /\ limit \in 1..n /\ limit \in 1..limit
      BY <1>1, <1>5, <2>1, <3>2
    <3>4. p[Len(p)] = s[limit]
      BY <2>2, <3>3
    <3> QED
      BY <1>2, <3>1, <3>3, <3>4
  <2> QED
    BY <1>2, <1>5, <2>1, <2>2, <2>3 DEF Covers
<1> QED
  BY <1>4, <1>5

----------------------------------------------------------------------------
(***************************************************************************)
(* Pages of memdb                                                          *)
(***************************************************************************)
\* The order a query's rows come in.
OrderOf(q) ==
  IF q.store = "sql" THEN sortOf(q)
  ELSE IF q.order = "bySubject" THEN "bySubject" ELSE "byResource"

\* The filter function keeps what the query asks for.
LEMMA FilterMeaning ==
  ASSUME NEW q \in Queries, NEW r
  PROVE  Wants(q, r) <=> ~FilterDrops(q.filter, r)
<1>1. ASSUME NEW sel
      PROVE  Matches(sel, r.subject) <=> applySubjectSelector(sel, r.subject)
  BY DEF Matches, applySubjectSelector, SelectorRelations
<1>2. (\E sel \in q.filter.selectors : Matches(sel, r.subject))
        <=> ~(\A sel \in q.filter.selectors : ~applySubjectSelector(sel, r.subject))
  BY <1>1
<1>3. q.filter.expiration \in {"any", "has", "none"}
  BY QueriesAssumption
<1> QED
  BY <1>2, <1>3 DEF Wants, FilterDrops

\* The iterators leave out what memdb does not give.
LEMMA IteratorMeaning ==
  ASSUME NEW q \in Queries, NEW r \in Rows, q.store = "memdb", now \in Nat
  PROVE  Gives(q, r, now) <=> ~IteratorDrops(q, r)
<1>1. r.expires \in Nat
  BY RowsAssumption
<1> QED
  BY <1>1 DEF Gives, IteratorDrops, Never

\* The rows a page of memdb is cut from.
Found(q, cursor) ==
  {r \in table : /\ ~FilterDrops(q.filter, r)
                 /\ ~CursorDrops(Key(r), cursor, q.order)
                 /\ ~IteratorDrops(q, r)}

\* Whatever index finds the candidates, if it finds all that the filter keeps.
LEMMA AnswerFound ==
  ASSUME NEW q, q.store = "memdb", NEW cursor, NEW C \in SUBSET table,
         \A r \in table : ~FilterDrops(q.filter, r) => r \in C
  PROVE  Answer(q, C, cursor) = FirstOf(q.limit, Sorted(Found(q, cursor), OrderOf(q)))
<1> DEFINE F == {r \in C : ~FilterDrops(q.filter, r) /\ ~CursorDrops(Key(r), cursor, q.order)}
<1>1. {r \in F : ~IteratorDrops(q, r)} = Found(q, cursor)
  BY DEF Found
<1>2. Answer(q, C, cursor) = IF q.order = "bySubject" THEN newSubjectSortedIterator(q, F)
                             ELSE newMemdbTupleIterator(q, F)
  BY DEF Answer
<1> HIDE DEF F
<1> QED
  BY <1>1, <1>2 DEF newSubjectSortedIterator, newMemdbTupleIterator, OrderOf

\* QueryRelationships finds through its index of resources, or the whole table,
\* all rows its filter keeps.
LEMMA ForwardFound ==
  ASSUME NEW q, q.store = "memdb", NEW cursor
  PROVE  QueryRelationships(q, cursor) = FirstOf(q.limit, Sorted(Found(q, cursor), OrderOf(q)))
<1>1. iteratorForFilter(q.filter) \in SUBSET table
  BY DEF iteratorForFilter
<1>2. \A r \in table : ~FilterDrops(q.filter, r) => r \in iteratorForFilter(q.filter)
  <2>1. \A r : ~FilterDrops(q.filter, r) =>
                /\ q.filter.type # Unset => r.resource[1] = q.filter.type
                /\ q.filter.relation # Unset => r.resource[3] = q.filter.relation
    <3> SUFFICES ASSUME NEW r, ~FilterDrops(q.filter, r)
                 PROVE  /\ q.filter.type # Unset => r.resource[1] = q.filter.type
                        /\ q.filter.relation # Unset => r.resource[3] = q.filter.relation
      OBVIOUS
    <3>1. /\ ~(q.filter.type # Unset /\ q.filter.type # r.resource[1])
          /\ ~(q.filter.relation # Unset /\ q.filter.relation # r.resource[3])
      BY Zenon DEF FilterDrops
    <3> QED
      BY <3>1
  <2> QED
    BY <2>1 DEF iteratorForFilter
<1> QED
  BY <1>1, <1>2, AnswerFound DEF QueryRelationships

\* ReverseQueryRelationships finds them all through the index of subject types.
LEMMA ReverseFound ==
  ASSUME NEW q \in Queries, q.store = "memdb", q.direction = "reverse", NEW cursor
  PROVE  ReverseQueryRelationships(q, cursor)
           = FirstOf(q.limit, Sorted(Found(q, cursor), OrderOf(q)))
<1>1. PICK sel \in q.filter.selectors : q.filter.selectors = {sel} /\ sel.type # Unset
  BY QueriesAssumption
<1>2. (CHOOSE s \in q.filter.selectors : TRUE) = sel
  BY <1>1
<1> DEFINE C == {r \in table : r.subject[1] = sel.type}
<1>3. ReverseQueryRelationships(q, cursor) = Answer(q, C, cursor)
  BY <1>2 DEF ReverseQueryRelationships
<1>4. \A r \in table : ~FilterDrops(q.filter, r) => r \in C
  BY <1>1 DEF FilterDrops, applySubjectSelector
<1> QED
  BY <1>3, <1>4, AnswerFound

----------------------------------------------------------------------------
(***************************************************************************)
(* The reader                                                              *)
(***************************************************************************)
\* The keys of the rows that transactions write.
KeysIn == {Key(r) : r \in Rows}

\* The table, the query, and what the reader keeps.
ReaderTypes ==
  /\ table \subseteq Rows /\ IsFiniteSet(table) /\ Distinct(table)
  /\ now \in 1..MaxTime /\ edits \in 0..MaxEdits
  /\ query \in Queries
  /\ phase \in {"paging", "done", "refused"}
  /\ returned \in Seq(KeysIn)
  /\ after = IF returned = <<>> THEN NoCursor ELSE returned[Len(returned)]
  /\ \A i \in 1..Len(returned) : \E r \in Rows : Wants(query, r) /\ returned[i] = Key(r)
  /\ steady \subseteq Wanted(table, now)
  /\ phase = "paging" /\ returned # <<>> => query.limit # NoLimit

\* What was returned is in the order of the query.
InOrder ==
  \A i, j \in 1..Len(returned) :
    i < j => Before(OrderOf(query), returned[i], returned[j])

\* Of the rows that answer throughout, those not returned are still to come.
StillToCome ==
  phase = "paging" /\ ~CursorRefused(query, after) =>
    \A k \in steady : \/ \E i \in 1..Len(returned) : returned[i] = k
                      \/ after = NoCursor \/ Before(OrderOf(query), after, k)

PagingInv == ReaderTypes /\ InOrder /\ StillToCome /\ NoneSkipped

\* A page: rows that answer the query, in its order and after the cursor; all of
\* them, or as many as the limit lets, and the others come after those.
GoodPage(keys) ==
  /\ keys \in Seq(KeysIn)
  /\ \A i \in 1..Len(keys) : /\ keys[i] \in Wanted(table, now)
                             /\ after = NoCursor \/ Before(OrderOf(query), after, keys[i])
  /\ \A i, j \in 1..Len(keys) : i < j => Before(OrderOf(query), keys[i], keys[j])
  /\ \A k \in Wanted(table, now) :
       after = NoCursor \/ Before(OrderOf(query), after, k) =>
         \/ \E i \in 1..Len(keys) : keys[i] = k
         \/ /\ query.limit # NoLimit /\ Len(keys) = query.limit
            /\ \/ CursorRefused(query, keys[Len(keys)])
               \/ Before(OrderOf(query), keys[Len(keys)], k)

\* Keys are pairs of triples, and none is the missing cursor.
LEMMA KeysKnown ==
  /\ KeysIn \subseteq Keys
  /\ \A k \in Keys : k # NoCursor
  /\ ReaderTypes => Wanted(table, now) \subseteq KeysIn
  BY KeysOfRows DEF KeysIn, Keys, NoCursor, ReaderTypes, Wanted

\* The page of memdb.
LEMMA MemDBPage ==
  ASSUME PagingInv, phase = "paging", query.store = "memdb", ~CursorRefused(query, after),
         NEW page, page = Page(query, after),
         NEW keys, keys = [i \in DOMAIN page |-> Key(page[i])]
  PROVE  GoodPage(keys)
<1> DEFINE S == Found(query, after)
           o == OrderOf(query)
<1>1. /\ query \in Queries /\ table \subseteq Rows /\ IsFiniteSet(table) /\ Distinct(table)
      /\ now \in Nat
  BY DEF PagingInv, ReaderTypes
<1>2. page = FirstOf(query.limit, Sorted(S, o))
  <2>1. query.direction \in {"forward", "reverse"}
    BY <1>1, QueriesAssumption
  <2> QED
    BY <1>1, <2>1, ForwardFound, ReverseFound DEF Page
<1>3. S \in SUBSET Rows /\ IsFiniteSet(S) /\ Distinct(S)
  <2>1. S \in SUBSET table
    BY DEF Found
  <2> QED
    BY <1>1, <2>1, FS_Subset DEF Distinct
<1>4. after = NoCursor \/ after \in Keys
  BY KeysKnown DEF PagingInv, ReaderTypes
<1>5. ASSUME NEW r \in table
      PROVE  /\ Wants(query, r) /\ Gives(query, r, now) <=>
                  ~FilterDrops(query.filter, r) /\ ~IteratorDrops(query, r)
             /\ ~CursorDrops(Key(r), after, query.order) <=>
                  after = NoCursor \/ Before(o, after, Key(r))
  <2>1. r \in Rows /\ Key(r) \in Keys
    BY <1>1, KeysOfRows
  <2>2. Wants(query, r) /\ Gives(query, r, now) <=>
          ~FilterDrops(query.filter, r) /\ ~IteratorDrops(query, r)
    <3>1. Wants(query, r) <=> ~FilterDrops(query.filter, r)
      BY <1>1, FilterMeaning
    <3>2. Gives(query, r, now) <=> ~IteratorDrops(query, r)
      BY <1>1, <2>1, IteratorMeaning
    <3> QED
      BY <3>1, <3>2
  <2> SUFFICES ~CursorDrops(Key(r), after, query.order) <=>
                 after = NoCursor \/ Before(o, after, Key(r))
    BY <2>2
  <2>3. CASE after = NoCursor
    BY <2>3 DEF CursorDrops
  <2>4. CASE after # NoCursor
    <3>1. query.order # "unsorted"
      <4>1. CASE query.direction = "forward"
        BY <2>4, <4>1 DEF CursorRefused
      <4>2. CASE query.direction = "reverse"
        <5>1. query.limit # NoLimit
          BY <2>4 DEF PagingInv, ReaderTypes
        <5> QED
          BY <1>1, <4>2, <5>1, QueriesAssumption
      <4> QED
        BY <1>1, <4>1, <4>2, QueriesAssumption
    <3>2. query.order \in {"byResource", "bySubject", "chooseEfficient"}
      BY <1>1, <3>1, QueriesAssumption
    <3>3. CASE query.order = "bySubject"
      <4>1. o = "bySubject"
        BY <3>3 DEF OrderOf
      <4>2. CursorDrops(Key(r), after, "bySubject") <=> ~SubjectLess(after, Key(r))
        BY <1>4, <2>1, <2>4, CursorCutsExactly
      <4> QED
        BY <2>4, <3>3, <4>1, <4>2 DEF Before
    <3>4. CASE query.order \in {"byResource", "chooseEfficient"}
      <4>1. o = "byResource"
        BY <3>4 DEF OrderOf
      <4>2. CursorDrops(Key(r), after, query.order) <=> CursorDrops(Key(r), after, "byResource")
        BY <3>4 DEF CursorDrops
      <4>3. CursorDrops(Key(r), after, "byResource") <=> ~ResourceLess(after, Key(r))
        BY <1>4, <2>1, <2>4, CursorCutsExactly
      <4> QED
        BY <2>4, <4>1, <4>2, <4>3 DEF Before
    <3> QED
      BY <3>2, <3>3, <3>4
  <2> QED
    BY <2>3, <2>4
<1>6. \A r \in table : r \in S <=> /\ Wants(query, r) /\ Gives(query, r, now)
                                   /\ after = NoCursor \/ Before(o, after, Key(r))
  BY <1>5 DEF Found
<1>7. S \in SUBSET table
  BY DEF Found
<1>8. Wanted(table, now) = {Key(r) : r \in {s \in table : Wants(query, s) /\ Gives(query, s, now)}}
  BY DEF Wanted
<1>9. query.limit \in (Nat \ {0}) \cup {NoLimit}
  BY <1>1, QueriesAssumption
<1> HIDE DEF S, o
<1>10. /\ page \in Seq(S)
       /\ \A i, j \in 1..Len(page) : i < j => Before(o, Key(page[i]), Key(page[j]))
       /\ Covers(page, S, o, query.limit)
  <2> DEFINE lim == query.limit
  <2>1. lim \in (Nat \ {0}) \cup {NoLimit} /\ page = FirstOf(lim, Sorted(S, o))
    BY <1>2, <1>9
  <2> HIDE DEF lim
  <2>2. /\ page \in Seq(S)
        /\ \A i, j \in 1..Len(page) : i < j => Before(o, Key(page[i]), Key(page[j]))
        /\ Covers(page, S, o, lim)
    BY <1>3, <2>1, FirstRows
  <2> QED
    BY <2>2 DEF lim
<1>11. /\ keys \in Seq(KeysIn) /\ Len(keys) = Len(page) /\ Len(page) \in Nat
       /\ \A i \in 1..Len(page) : page[i] \in S /\ keys[i] = Key(page[i])
  <2>1. DOMAIN page = 1..Len(page) /\ \A i \in 1..Len(page) : page[i] \in S
    BY <1>10
  <2>2. \A i \in 1..Len(page) : Key(page[i]) \in KeysIn
    BY <1>3, <2>1 DEF KeysIn
  <2>3. Len(page) \in Nat
    BY <1>10
  <2> QED
    BY <2>1, <2>2, <2>3
<1>12. ASSUME NEW i \in 1..Len(keys)
       PROVE  /\ keys[i] \in Wanted(table, now)
              /\ after = NoCursor \/ Before(o, after, keys[i])
  BY <1>6, <1>7, <1>8, <1>11
<1>13. ASSUME NEW k \in Wanted(table, now), after = NoCursor \/ Before(o, after, k)
       PROVE  \/ \E i \in 1..Len(keys) : keys[i] = k
              \/ /\ query.limit # NoLimit /\ Len(keys) = query.limit
                 /\ Before(o, keys[Len(keys)], k)
  <2>1. PICK r \in table : k = Key(r) /\ Wants(query, r) /\ Gives(query, r, now)
    BY <1>8
  <2>2. r \in S
    BY <1>6, <1>13, <2>1
  <2>3. query.limit # NoLimit /\ Len(page) = query.limit => Len(page) \in 1..Len(page)
    BY <1>9, <1>11
  <2> QED
    BY <1>10, <1>11, <2>1, <2>2, <2>3 DEF Covers
<1>14. \A i, j \in 1..Len(keys) : i < j => Before(o, keys[i], keys[j])
  BY <1>10, <1>11
<1>15. keys \in Seq(KeysIn)
  BY <1>11
<1> QED
  BY <1>12, <1>13, <1>14, <1>15 DEF GoodPage, o

\* The page of a SQL store.
LEMMA SQLPage ==
  ASSUME PagingInv, phase = "paging", query.store = "sql", ~CursorRefused(query, after),
         NEW page \in Selected(query, after),
         NEW keys, keys = RowsRead(query.filter, page)
  PROVE  GoodPage(keys)
<1> DEFINE S == SelectedRows(query, after)
           o == OrderOf(query)
<1>1. /\ query \in Queries /\ table \subseteq Rows /\ IsFiniteSet(table) /\ Distinct(table)
      /\ now \in Nat
  BY DEF PagingInv, ReaderTypes
<1>2. S \in SUBSET Rows /\ IsFiniteSet(S) /\ Distinct(S) /\ S \in SUBSET table
  <2>1. S \in SUBSET table
    BY DEF SelectedRows
  <2> QED
    BY <1>1, <2>1, FS_Subset DEF Distinct
<1>3. after = NoCursor \/ \E r \in Rows : FilterKeeps(query.filter, r) /\ after = Key(r)
  <2>1. CASE after # NoCursor
    <3>1. returned # <<>> /\ after = returned[Len(returned)] /\ returned \in Seq(KeysIn)
      BY <2>1 DEF PagingInv, ReaderTypes
    <3>2. Len(returned) \in 1..Len(returned)
      BY <3>1
    <3>3. PICK r \in Rows : Wants(query, r) /\ returned[Len(returned)] = Key(r)
      BY <3>2 DEF PagingInv, ReaderTypes
    <3> QED
      BY <1>1, <3>1, <3>3, FilterMeaning, SameFilter
  <2> QED
    BY <2>1
<1>4. query.direction = "forward" /\ (query.order = "unsorted" => query.limit = 1)
  BY <1>1, SQLAssumption
<1>5. o = sortOf(query) /\ (o = "unsorted" => query.order = "unsorted")
  BY DEF OrderOf, sortOf
<1>6. ASSUME NEW r \in table
      PROVE  r \in S <=> /\ Wants(query, r) /\ Gives(query, r, now)
                         /\ after = NoCursor \/ Before(o, after, Key(r))
  <2>1. r \in Rows /\ r.expires \in Nat
    BY <1>1, RowsAssumption
  <2>2. Wants(query, r) <=> FilterKeeps(query.filter, r)
    BY <1>1, FilterMeaning, SameFilter
  <2>3. Gives(query, r, now) <=> ExpirationKeeps(query, r)
    BY <1>1, <2>1 DEF Gives, ExpirationKeeps, Never
  <2>4. ASSUME FilterKeeps(query.filter, r), after # NoCursor
        PROVE  After(query, after, Key(r)) <=> Before(o, after, Key(r))
    <3>1. PICK c \in Rows : FilterKeeps(query.filter, c) /\ after = Key(c)
      BY <1>3, <2>4
    <3>2. query.limit # NoLimit
      BY <2>4 DEF PagingInv, ReaderTypes
    <3>3. Compared(query) # {}
      BY <1>1, <3>2, ComparedAssumption
    <3>4. After(query, Key(c), Key(r)) <=> Before(sortOf(query), Key(c), Key(r))
      BY <1>1, <2>1, <2>4, <3>1, <3>3, PinnedColumnsNeedNoComparison
    <3> QED
      BY <1>5, <3>1, <3>4
  <2>5. r \in S <=> /\ FilterKeeps(query.filter, r) /\ ExpirationKeeps(query, r)
                    /\ after # NoCursor => After(query, after, Key(r))
    BY DEF SelectedRows
  <2> QED
    BY <2>2, <2>3, <2>4, <2>5
<1>7. \A r \in S : ColumnsToSelect(query.filter, Key(r)) = Key(r)
  <2>1. \A r \in S : FilterKeeps(query.filter, r)
    BY DEF SelectedRows
  <2> QED
    BY <1>1, <1>2, <2>1, ReadBack
<1>8. Wanted(table, now) = {Key(r) : r \in {s \in table : Wants(query, s) /\ Gives(query, s, now)}}
  BY DEF Wanted
<1>9. Selected(query, after) =
        IF o # "unsorted" THEN {FirstOf(query.limit, Sorted(S, o))}
        ELSE IF S = {} THEN {<<>>} ELSE {<<r>> : r \in S}
  BY <1>5 DEF Selected
<1>10. query.limit \in (Nat \ {0}) \cup {NoLimit}
  BY <1>1, QueriesAssumption
<1> HIDE DEF S, o
<1>11. ASSUME page \in Seq(S),
              \A i, j \in 1..Len(page) : i < j => Before(o, Key(page[i]), Key(page[j])),
              Covers(page, S, o, query.limit) \/
                (CursorRefused(query, Key(page[Len(page)])) /\ Len(page) = 1 /\ query.limit = 1)
       PROVE  GoodPage(keys)
  <2>1. /\ keys \in Seq(KeysIn) /\ Len(keys) = Len(page) /\ Len(page) \in Nat
        /\ \A i \in 1..Len(page) : page[i] \in S /\ keys[i] = Key(page[i])
    <3>1. DOMAIN page = 1..Len(page) /\ \A i \in 1..Len(page) : page[i] \in S
      BY <1>11
    <3>2. \A i \in 1..Len(page) : Key(page[i]) \in KeysIn
      BY <1>2, <3>1 DEF KeysIn
    <3>3. keys = [i \in 1..Len(page) |-> Key(page[i])]
      BY <1>7, <3>1 DEF RowsRead
    <3>4. Len(page) \in Nat
      BY <1>11
    <3> QED
      BY <3>1, <3>2, <3>3, <3>4
  <2>2. ASSUME NEW i \in 1..Len(keys)
        PROVE  /\ keys[i] \in Wanted(table, now)
               /\ after = NoCursor \/ Before(o, after, keys[i])
    BY <1>2, <1>6, <1>8, <2>1
  <2>3. ASSUME NEW k \in Wanted(table, now), after = NoCursor \/ Before(o, after, k)
        PROVE  \/ \E i \in 1..Len(keys) : keys[i] = k
               \/ /\ query.limit # NoLimit /\ Len(keys) = query.limit
                  /\ \/ CursorRefused(query, keys[Len(keys)])
                     \/ Before(o, keys[Len(keys)], k)
    <3>1. PICK r \in table : k = Key(r) /\ Wants(query, r) /\ Gives(query, r, now)
      BY <1>8
    <3>2. r \in S
      BY <1>6, <2>3, <3>1
    <3>3. query.limit # NoLimit /\ Len(page) = query.limit => Len(page) \in 1..Len(page)
      BY <1>10, <2>1
    <3>4. CASE Covers(page, S, o, query.limit)
      BY <2>1, <3>1, <3>2, <3>3, <3>4 DEF Covers
    <3>5. CASE CursorRefused(query, Key(page[Len(page)])) /\ Len(page) = 1 /\ query.limit = 1
      BY <2>1, <3>5, BoundsAssumption
    <3> QED
      BY <1>11, <3>4, <3>5
  <2>4. \A i, j \in 1..Len(keys) : i < j => Before(o, keys[i], keys[j])
    BY <1>11, <2>1
  <2> QED
    BY <2>1, <2>2, <2>3, <2>4 DEF GoodPage, o
<1>12. CASE o # "unsorted"
  <2> DEFINE lim == query.limit
  <2>1. lim \in (Nat \ {0}) \cup {NoLimit} /\ page = FirstOf(lim, Sorted(S, o))
    BY <1>9, <1>10, <1>12
  <2> HIDE DEF lim
  <2>2. /\ page \in Seq(S)
        /\ \A i, j \in 1..Len(page) : i < j => Before(o, Key(page[i]), Key(page[j]))
        /\ Covers(page, S, o, lim)
    BY <1>2, <2>1, FirstRows
  <2> QED
    BY <1>11, <2>2 DEF lim
<1>13. CASE o = "unsorted" /\ S = {}
  <2>1. page = <<>>
    BY <1>9, <1>13
  <2> QED
    BY <1>11, <1>13, <2>1 DEF Covers
<1>14. CASE o = "unsorted" /\ S # {}
  <2>1. PICK r \in S : page = <<r>>
    BY <1>9, <1>14
  <2>2. /\ page \in Seq(S) /\ Len(page) = 1 /\ page[Len(page)] = r
        /\ \A i, j \in 1..Len(page) : ~(i < j)
    BY <2>1
  <2>3. Key(r) # NoCursor
    BY <1>2, KeysOfRows, KeysKnown
  <2>4. CursorRefused(query, Key(r)) /\ query.limit = 1
    BY <1>4, <1>5, <1>14, <2>3 DEF CursorRefused
  <2> QED
    BY <1>11, <2>2, <2>4
<1> QED
  BY <1>12, <1>13, <1>14

\* The keys of a good page come after those returned, and bring the reader
\* past all that they leave out.
LEMMA PageKept ==
  ASSUME PagingInv, NEW keys, GoodPage(keys), Got(keys), ~CursorRefused(query, after)
  PROVE  PagingInv'
<1> DEFINE o == OrderOf(query)
           m == Len(returned)
           n == Len(keys)
<1>1. /\ query' = query /\ table' = table /\ now' = now /\ steady' = steady /\ edits' = edits
      /\ phase = "paging" /\ returned' = returned \o keys
      /\ after' = IF keys = <<>> THEN after ELSE keys[Len(keys)]
      /\ phase' = IF query.limit # NoLimit /\ Len(keys) = query.limit /\ keys # <<>>
                  THEN "paging" ELSE "done"
  BY DEF Got
<1>2. /\ keys \in Seq(KeysIn) /\ returned \in Seq(KeysIn) /\ query \in Queries
      /\ after = IF returned = <<>> THEN NoCursor ELSE returned[m]
  BY DEF GoodPage, PagingInv, ReaderTypes
<1>3. m \in Nat /\ n \in Nat /\ (returned = <<>> <=> m = 0) /\ (keys = <<>> <=> n = 0)
  BY <1>2
<1>4. /\ returned' \in Seq(KeysIn) /\ Len(returned') = m + n
      /\ \A i \in 1..m : returned'[i] = returned[i]
      /\ \A i \in 1..n : returned'[m + i] = keys[i]
  BY <1>1, <1>2
<1>5. \A i \in 1..(m + n) : i \in 1..m \/ \E j \in 1..n : i = m + j
  <2> SUFFICES ASSUME NEW i \in 1..(m + n), ~(i \in 1..m)
               PROVE  i - m \in 1..n /\ i = m + (i - m)
    OBVIOUS
  <2> QED
    BY <1>3
<1>6. after' = IF returned' = <<>> THEN NoCursor ELSE returned'[Len(returned')]
  <2>1. CASE n = 0
    <3>1. returned' = returned /\ after' = after
      BY <1>1, <1>2, <1>3, <2>1
    <3> QED
      BY <1>2, <3>1
  <2>2. CASE n # 0
    <3>1. n \in 1..n /\ returned' # <<>>
      BY <1>3, <1>4, <2>2
    <3> QED
      BY <1>1, <1>3, <1>4, <2>2, <3>1
  <2> QED
    BY <2>1, <2>2
<1>7. (\A k, l \in KeysIn : OrderOf(query)' = o) /\ Wanted(table, now)' = Wanted(table, now)
  BY <1>1 DEF OrderOf, sortOf, Wanted, Wants, Gives
<1> HIDE DEF m, n, o
<1>8. InOrder'
  <2>1. ASSUME NEW i \in 1..(m + n), NEW j \in 1..(m + n), i < j
        PROVE  Before(o, returned'[i], returned'[j])
    <3>1. CASE i \in 1..m /\ j \in 1..m
      BY <1>4, <2>1, <3>1 DEF PagingInv, InOrder, m, o
    <3>2. ASSUME NEW k \in 1..n, i \in 1..m, j = m + k
          PROVE  Before(o, returned'[i], returned'[j])
      <4>1. m \in 1..m /\ after = returned[m] /\ after # NoCursor
        <5>1. m \in 1..m /\ after = returned[m]
          BY <1>2, <1>3, <3>2
        <5> QED
          BY <1>2, <5>1, KeysKnown DEF m
      <4>2. Before(o, after, keys[k])
        BY <4>1 DEF GoodPage, n, o
      <4>3. i = m \/ Before(o, returned[i], after)
        BY <1>3, <3>2, <4>1 DEF PagingInv, InOrder, m, o
      <4>4. returned[i] \in Keys /\ after \in Keys /\ keys[k] \in Keys
        BY <1>2, <3>2, <4>1, KeysKnown DEF m, n
      <4>5. Before(o, returned[i], keys[k])
        BY <4>1, <4>2, <4>3, <4>4, BeforeOrders
      <4> QED
        BY <1>4, <3>2, <4>5
    <3>3. ASSUME NEW h \in 1..n, NEW k \in 1..n, i = m + h, j = m + k
          PROVE  Before(o, returned'[i], returned'[j])
      <4>1. h < k
        BY <1>3, <2>1, <3>3
      <4>2. Before(o, keys[h], keys[k])
        BY <4>1 DEF GoodPage, n, o
      <4> QED
        BY <1>4, <3>3, <4>2
    <3>4. ~(j \in 1..m /\ ~(i \in 1..m))
      BY <1>3, <2>1
    <3> QED
      BY <1>5, <3>1, <3>2, <3>3, <3>4
  <2>2. OrderOf(query)' = o
    BY <1>1 DEF OrderOf, sortOf, o
  <2> QED
    BY <1>4, <2>1, <2>2 DEF InOrder
<1>9. ReaderTypes'
  <2>1. ASSUME NEW i \in 1..(m + n)
        PROVE  \E r \in Rows : Wants(query, r) /\ returned'[i] = Key(r)
    <3>1. CASE i \in 1..m
      BY <1>4, <3>1 DEF PagingInv, ReaderTypes, m
    <3>2. ASSUME NEW k \in 1..n, i = m + k
          PROVE  \E r \in Rows : Wants(query, r) /\ returned'[i] = Key(r)
      <4>1. keys[k] \in Wanted(table, now)
        BY DEF GoodPage, n
      <4> QED
        BY <1>4, <3>2, <4>1 DEF Wanted, PagingInv, ReaderTypes
    <3> QED
      BY <1>5, <3>1, <3>2
  <2>2. \A i \in 1..Len(returned') : \E r \in Rows : Wants(query', r) /\ returned'[i] = Key(r)
    BY <1>1, <1>4, <2>1
  <2>3. phase' = "paging" /\ returned' # <<>> => query'.limit # NoLimit
    BY <1>1
  <2>4. phase' \in {"paging", "done", "refused"}
    BY <1>1
  <2>5. /\ table' \subseteq Rows /\ IsFiniteSet(table') /\ Distinct(table)'
        /\ now' \in 1..MaxTime /\ edits' \in 0..MaxEdits
        /\ query' \in Queries
        /\ steady' \subseteq Wanted(table, now)'
    BY <1>1, <1>7 DEF PagingInv, ReaderTypes, Distinct
  <2> QED
    BY <1>4, <1>6, <2>2, <2>3, <2>4, <2>5 DEF ReaderTypes
<1>10. ASSUME NEW k \in steady
       PROVE  \/ \E i \in 1..(m + n) : returned'[i] = k
              \/ /\ query.limit # NoLimit /\ n = query.limit
                 /\ CursorRefused(query, keys[n]) \/ Before(o, keys[n], k)
  <2>1. k \in Wanted(table, now)
    BY DEF PagingInv, ReaderTypes
  <2>2. \/ \E i \in 1..m : returned[i] = k
        \/ after = NoCursor \/ Before(o, after, k)
    BY <1>1 DEF PagingInv, StillToCome, m, o
  <2>3. CASE \E i \in 1..m : returned[i] = k
    <3>1. PICK i \in 1..m : returned[i] = k
      BY <2>3
    <3> QED
      BY <1>3, <1>4, <3>1
  <2>4. CASE after = NoCursor \/ Before(o, after, k)
    <3>1. \/ \E i \in 1..n : keys[i] = k
          \/ /\ query.limit # NoLimit /\ n = query.limit
             /\ CursorRefused(query, keys[n]) \/ Before(o, keys[n], k)
      BY <2>1, <2>4 DEF GoodPage, n, o
    <3>2. ASSUME NEW i \in 1..n, keys[i] = k
          PROVE  \E j \in 1..(m + n) : returned'[j] = k
      <4>1. m + i \in 1..(m + n) /\ returned'[m + i] = k
        BY <1>3, <1>4, <3>2
      <4> QED
        BY <4>1
    <3> QED
      BY <3>1, <3>2
  <2> QED
    BY <2>2, <2>3, <2>4
<1>11. StillToCome'
  <2> SUFFICES ASSUME phase' = "paging", ~CursorRefused(query, after'), NEW k \in steady
               PROVE  \/ \E i \in 1..Len(returned') : returned'[i] = k
                      \/ Before(o, after', k)
    BY <1>1 DEF StillToCome, OrderOf, sortOf, o, CursorRefused
  <2>1. after' = keys[n]
    BY <1>1 DEF n
  <2> QED
    BY <1>4, <1>10, <2>1
<1>12. NoneSkipped'
  <2> SUFFICES ASSUME phase' = "done", NEW k \in steady
               PROVE  \E i \in 1..Len(returned') : returned'[i] = k
    <3>1. DOMAIN returned' = 1..Len(returned')
      BY <1>4
    <3> QED
      BY <1>1, <3>1 DEF NoneSkipped
  <2>1. ~(query.limit # NoLimit /\ n = query.limit)
    <3>1. query.limit # 0 \/ query.limit = NoLimit
      BY <1>2, QueriesAssumption
    <3> QED
      BY <1>1, <1>3, <3>1 DEF n
  <2> QED
    BY <1>4, <1>10, <2>1
<1> QED
  BY <1>8, <1>9, <1>11, <1>12 DEF PagingInv

\* A refused page keeps what the reader has; it gets no other.
LEMMA RefusalKept ==
  ASSUME PagingInv, PageRefused
  PROVE  PagingInv'
<1>1. /\ query' = query /\ table' = table /\ now' = now /\ steady' = steady /\ edits' = edits
      /\ phase = "paging" /\ phase' = "refused" /\ returned' = returned /\ after' = after
  BY DEF PageRefused
<1>2. ReaderTypes'
  BY <1>1 DEF PagingInv, ReaderTypes, Distinct, Wanted, Wants, Gives
<1>3. InOrder'
  BY <1>1 DEF PagingInv, InOrder, OrderOf, sortOf
<1>4. StillToCome' /\ NoneSkipped'
  BY <1>1 DEF StillToCome, NoneSkipped
<1> QED
  BY <1>2, <1>3, <1>4 DEF PagingInv

\* The reader keeps its invariant when the table or the clock changes, and what
\* is steady loses what no longer answers.
LEMMA WritesKept ==
  ASSUME PagingInv, UNCHANGED readerVars,
         table' \subseteq Rows, IsFiniteSet(table'), Distinct(table'),
         now' \in 1..MaxTime, edits' \in 0..MaxEdits,
         steady' = steady \cap Wanted(table', now')
  PROVE  PagingInv'
<1>1. query' = query /\ phase' = phase /\ returned' = returned /\ after' = after
  BY DEF readerVars
<1>2. /\ Wanted(table, now)' = Wanted(table', now') /\ Distinct(table)' = Distinct(table')
      /\ OrderOf(query)' = OrderOf(query)
  BY <1>1 DEF Wanted, Wants, Gives, Distinct, OrderOf, sortOf
<1>3. ReaderTypes'
  BY <1>1, <1>2 DEF PagingInv, ReaderTypes
<1>4. InOrder'
  BY <1>1, <1>2 DEF PagingInv, InOrder
<1>5. StillToCome'
  BY <1>1, <1>2 DEF PagingInv, StillToCome, CursorRefused
<1>6. NoneSkipped'
  BY <1>1 DEF PagingInv, NoneSkipped
<1> QED
  BY <1>3, <1>4, <1>5, <1>6 DEF PagingInv

\* A reader starts with nothing behind it and all rows to come.
LEMMA PagingInit == Init => PagingInv
<1> SUFFICES ASSUME Init PROVE PagingInv
  OBVIOUS
<1>1. ReaderTypes
  BY BoundsAssumption DEF Init, ReaderTypes, Distinct
<1>2. InOrder /\ StillToCome /\ NoneSkipped
  BY DEF Init, InOrder, StillToCome, NoneSkipped
<1> QED
  BY <1>1, <1>2 DEF PagingInv

\* A page of either store is a good one: the only two ways a reader gets rows.
LEMMA PageRead ==
  ASSUME PagingInv, ExecuteQuery \/ NextPage
  PROVE  \E keys : GoodPage(keys) /\ Got(keys) /\ ~CursorRefused(query, after)
<1>1. CASE ExecuteQuery
  <2>1. PICK page \in Selected(query, after) : Got(RowsRead(query.filter, page))
    BY <1>1 DEF ExecuteQuery
  <2>2. phase = "paging"
    BY <2>1 DEF Got
  <2> DEFINE keys == RowsRead(query.filter, page)
  <2>3. query.store = "sql" /\ ~CursorRefused(query, after)
    BY <1>1 DEF ExecuteQuery
  <2>4. GoodPage(keys)
    BY <2>2, <2>3, SQLPage
  <2> QED
    BY <2>1, <2>3, <2>4
<1>2. CASE NextPage
  <2> DEFINE page == Page(query, after)
             keys == [i \in DOMAIN page |-> Key(page[i])]
  <2>1. query.store = "memdb" /\ ~CursorRefused(query, after) /\ Got(keys)
    BY <1>2 DEF NextPage
  <2>2. phase = "paging"
    BY <2>1 DEF Got
  <2>3. GoodPage(keys)
    BY <2>1, <2>2, MemDBPage
  <2> QED
    BY <2>1, <2>3
<1> QED
  BY <1>1, <1>2

\* Every step of the reader, of a transaction and of the clock keeps it.
LEMMA PagingStep == PagingInv /\ [SQLNext]_vars => PagingInv'
<1> SUFFICES ASSUME PagingInv, [SQLNext]_vars PROVE PagingInv'
  OBVIOUS
<1>1. /\ table \subseteq Rows /\ IsFiniteSet(table) /\ Distinct(table)
      /\ now \in 1..MaxTime /\ edits \in 0..MaxEdits /\ MaxTime \in Nat /\ MaxEdits \in Nat
  BY BoundsAssumption DEF PagingInv, ReaderTypes
<1>2. CASE ExecuteQuery \/ NextPage
  BY <1>2, PageRead, PageKept
<1>3. CASE PageRefused
  BY <1>3, RefusalKept
<1>4. ASSUME NEW rows \in SUBSET Rows, IsFiniteSet(rows), Distinct(rows), Change(rows)
      PROVE  PagingInv'
  <2>1. /\ table' = rows /\ now' = now /\ edits' \in 0..MaxEdits /\ UNCHANGED readerVars
        /\ steady' = steady \cap Wanted(rows, now)
    BY <1>1, <1>4 DEF Change
  <2> QED
    BY <1>1, <1>4, <2>1, WritesKept
<1>5. ASSUME NEW r \in Rows, Touch(r)
      PROVE  PagingInv'
  <2> DEFINE kept == {s \in table : Key(s) # Key(r)}
             rows == kept \cup {r}
  <2>1. rows \in SUBSET Rows /\ Distinct(rows)
    BY <1>1 DEF Distinct
  <2>2. kept \in SUBSET table
    OBVIOUS
  <2>3. Change(rows)
    BY <1>5 DEF Touch
  <2> HIDE DEF kept
  <2>4. IsFiniteSet(rows)
    BY <1>1, <2>2, FS_Subset, FS_AddElement
  <2> HIDE DEF rows
  <2> QED
    BY <1>4, <2>1, <2>3, <2>4
<1>6. ASSUME NEW d \in Deletes, DeleteRelationships(d.filter, d.limit)
      PROVE  PagingInv'
  <2> DEFINE rows == table \ {Doomed(d.filter, d.limit)[i] : i \in DOMAIN Doomed(d.filter, d.limit)}
  <2>1. rows \in SUBSET table /\ Change(rows)
    BY <1>6 DEF DeleteRelationships
  <2> HIDE DEF rows
  <2>2. rows \in SUBSET Rows /\ IsFiniteSet(rows) /\ Distinct(rows)
    BY <1>1, <2>1, FS_Subset DEF Distinct
  <2> QED
    BY <1>4, <2>1, <2>2
<1>7. CASE Tick
  <2>1. /\ table' = table /\ now' = now + 1 /\ now' \in 1..MaxTime /\ edits' = edits
        /\ UNCHANGED readerVars /\ steady' = steady \cap Wanted(table, now')
    BY <1>1, <1>7 DEF Tick
  <2> QED
    BY <1>1, <2>1, WritesKept
<1>8. CASE UNCHANGED vars
  <2>1. /\ table' = table /\ now' = now /\ edits' = edits
        /\ UNCHANGED readerVars /\ steady' = steady
    BY <1>8 DEF vars
  <2>2. steady \subseteq Wanted(table, now)
    BY DEF PagingInv, ReaderTypes
  <2>3. Wanted(table', now') = Wanted(table, now)
    BY <2>1
  <2> QED
    BY <1>1, <2>1, <2>2, <2>3, WritesKept
<1> QED
  BY <1>2, <1>3, <1>5, <1>6, <1>7, <1>8 DEF SQLNext, Next

\* Whatever is written between its pages, the reader is where its cursor says.
LEMMA PagingInvariant == SQLSpec => []PagingInv
  BY PagingInit, PagingStep, PTL DEF SQLSpec

----------------------------------------------------------------------------
(***************************************************************************)
(* What readers and deletes are promised                                   *)
(***************************************************************************)
\* The table keeps one row for each key, as its unique index id has it, and a
\* cursor is the key of a row.
THEOREM QueriesTyped == SQLSpec => []TypeOK
<1>1. PagingInv => TypeOK
  <2> SUFFICES ASSUME PagingInv PROVE TypeOK
    OBVIOUS
  <2>1. /\ table \subseteq Rows /\ Distinct(table) /\ returned \in Seq(KeysIn)
        /\ after = IF returned = <<>> THEN NoCursor ELSE returned[Len(returned)]
        /\ now \in 1..MaxTime /\ edits \in 0..MaxEdits /\ query \in Queries
        /\ phase \in {"paging", "done", "refused"} /\ steady \subseteq KeysIn
    BY KeysKnown DEF PagingInv, ReaderTypes
  <2>2. returned # <<>> => Len(returned) \in DOMAIN returned
    BY <2>1
  <2>3. \A i \in DOMAIN returned : returned[i] \in KeysIn
    BY <2>1
  <2>4. after \in {NoCursor} \cup KeysIn
    BY <2>1, <2>2, <2>3
  <2> QED
    BY <2>1, <2>3, <2>4 DEF TypeOK, KeysIn, Distinct
<1> QED
  BY <1>1, PagingInvariant, PTL

\* Pages follow one another in the order asked for, or that the store chose, and
\* repeat no row: by memdb's iterators and filterFuncForFilters's cursor, and by
\* SQL's ORDER BY and the comparison of the columns that no filter pins.
THEOREM ReadersInOrder == SQLSpec => []PagesInOrder
<1>1. PagingInv => PagesInOrder
  <2> SUFFICES ASSUME PagingInv PROVE PagesInOrder
    OBVIOUS
  <2>1. query \in Queries /\ DOMAIN returned = 1..Len(returned)
    BY DEF PagingInv, ReaderTypes
  <2>2. \A i, j \in DOMAIN returned : i < j => Before(OrderOf(query), returned[i], returned[j])
    BY <2>1 DEF PagingInv, InOrder
  <2>3. CASE query.order = "chooseEfficient"
    <3>1. OrderOf(query) \in {"byResource", "bySubject"}
      BY <2>3, HintAssumption DEF OrderOf, sortOf
    <3> QED
      BY <2>2, <2>3, <3>1 DEF PagesInOrder
  <2>4. CASE query.order # "chooseEfficient"
    <3>1. \A j, k : Before(OrderOf(query), j, k) => Before(query.order, j, k)
      BY <2>1, <2>4, QueriesAssumption DEF OrderOf, sortOf, Before
    <3> QED
      BY <2>2, <2>4, <3>1 DEF PagesInOrder
  <2> QED
    BY <2>3, <2>4
<1> QED
  BY <1>1, PagingInvariant, PTL

\* A reader whose pages ended has every row that answered from its first page to
\* its last: no limit, index or cursor of either store steps over one.
THEOREM ReadersComplete == SQLSpec => []NoneSkipped
<1>1. PagingInv => NoneSkipped
  BY DEF PagingInv
<1> QED
  BY <1>1, PagingInvariant, PTL

\* ReverseQueryRelationships, by the index of subject types, gives the page that
\* QueryRelationships gives for the same filter by the indexes of resources.
THEOREM DirectionsFindAlike == SQLSpec => []DirectionsAgree
<1>1. PagingInv => DirectionsAgree
  <2> SUFFICES ASSUME PagingInv, query.direction = "reverse"
               PROVE  ReverseQueryRelationships(query, NoCursor) = QueryRelationships(query, NoCursor)
    BY DEF DirectionsAgree
  <2>1. query \in Queries
    BY DEF PagingInv, ReaderTypes
  <2>2. query.store = "memdb"
    BY <2>1, QueriesAssumption, SQLAssumption
  <2> QED
    BY <2>1, <2>2, ForwardFound, ReverseFound
<1> QED
  BY <1>1, PagingInvariant, PTL

\* Whatever index or columns serve a page, its rows answer the query as they are
\* when it is read: filters, expiration and skip options leave nothing else in.
THEOREM PagesAnswer == SQLSpec => OnlyAnswers
<1> DEFINE Answers == \A i \in DOMAIN returned' \ DOMAIN returned : returned'[i] \in Wanted(table, now)
<1>1. PagingInv /\ [SQLNext]_vars => [Answers]_vars
  <2> SUFFICES ASSUME PagingInv, [SQLNext]_vars, returned' # returned PROVE Answers
    OBVIOUS
  <2>1. ExecuteQuery \/ NextPage
    BY DEF SQLNext, Next, PageRefused, Touch, DeleteRelationships, Change, Tick, vars, readerVars
  <2>2. PICK keys : GoodPage(keys) /\ Got(keys)
    BY <2>1, PageRead
  <2>3. /\ returned \in Seq(KeysIn) /\ keys \in Seq(KeysIn) /\ returned' = returned \o keys
        /\ \A i \in 1..Len(keys) : keys[i] \in Wanted(table, now)
    BY <2>2 DEF PagingInv, ReaderTypes, GoodPage, Got
  <2>4. ASSUME NEW i \in DOMAIN returned' \ DOMAIN returned
        PROVE  returned'[i] \in Wanted(table, now)
    <3>1. i - Len(returned) \in 1..Len(keys) /\ returned'[i] = keys[i - Len(returned)]
      BY <2>3
    <3> QED
      BY <2>3, <3>1
  <2> QED
    BY <2>4
<1> QED
  BY <1>1, PagingInvariant, PTL DEF SQLSpec, OnlyAnswers

\* A sequence has no more values than places.
LEMMA ValuesCounted ==
  ASSUME NEW S, NEW s \in Seq(S)
  PROVE  LET D == {s[i] : i \in DOMAIN s} IN IsFiniteSet(D) /\ Cardinality(D) <= Len(s)
<1> DEFINE D == {s[i] : i \in DOMAIN s}
<1>1. DOMAIN s = 1..Len(s) /\ Len(s) \in Nat
  OBVIOUS
<1>2. IsFiniteSet(1..Len(s)) /\ Cardinality(1..Len(s)) = Len(s)
  BY <1>1, FS_Interval
<1>3. [i \in 1..Len(s) |-> s[i]] \in Surjection(1..Len(s), D)
  BY <1>1 DEF Surjection
<1> HIDE DEF D
<1>4. IsFiniteSet(D) /\ Cardinality(D) <= Len(s)
  BY <1>2, <1>3, FS_Surjection
<1> QED
  BY <1>4 DEF D

\* The rows a delete by filter is after.
Meant(f) == {r \in iteratorForFilter(f) : ~PublicFilterDrops(f, r)}

\* The index a delete scans has all rows of its filter.
LEMMA MeantRows ==
  ASSUME NEW f
  PROVE  /\ Meant(f) \in SUBSET table
         /\ \A r \in table : r \notin Meant(f) => PublicFilterDrops(f, r)
<1>1. ASSUME NEW r \in table, ~PublicFilterDrops(f, r)
      PROVE  r \in iteratorForFilter(f)
  <2>1. /\ ~(f.type # Unset /\ f.type # r.resource[1])
        /\ ~(f.relation # Unset /\ f.relation # r.resource[3])
    BY <1>1, Zenon DEF PublicFilterDrops
  <2> QED
    BY <2>1 DEF iteratorForFilter
<1> QED
  BY <1>1 DEF Meant, iteratorForFilter

\* deleteWithLock with a limit deletes no more than it, and one that does not say
\* it met its limit leaves no row of its filter, whichever index it scanned.
THEOREM DeletesInBatches == SQLSpec => BatchesComplete
<1> DEFINE Complete(d) ==
             /\ metLimit(d.filter, d.limit) \/ \A r \in table' : PublicFilterDrops(d.filter, r)
             /\ d.limit > 0 => Cardinality(table) <= Cardinality(table') + d.limit
<1>1. ASSUME PagingInv, NEW d \in Deletes, DeleteRelationships(d.filter, d.limit)
      PROVE  Complete(d)
  <2> DEFINE f == d.filter
             lim == IF d.limit = 0 THEN NoLimit ELSE d.limit
             doomed == Doomed(f, d.limit)
             D == {doomed[i] : i \in DOMAIN doomed}
             S == Meant(f)
  <2>1. table \subseteq Rows /\ IsFiniteSet(table) /\ Distinct(table)
    BY <1>1 DEF PagingInv, ReaderTypes
  <2>2. d.limit \in Nat /\ NoLimit \notin Nat
    BY DeletesAssumption, BoundsAssumption
  <2>3. table' = table \ D
    BY <1>1 DEF DeleteRelationships, Change
  <2>4. /\ S \in SUBSET table
        /\ \A r \in table : r \notin S => PublicFilterDrops(f, r)
    BY MeantRows
  <2>5. doomed = FirstOf(lim, Sorted(S, "byResource"))
    BY DEF Doomed, Meant
  <2>6. metLimit(f, d.limit) <=> d.limit > 0 /\ Len(doomed) = d.limit
    BY DEF metLimit
  <2> HIDE DEF f, doomed, S
  <2>7. lim \in (Nat \ {0}) \cup {NoLimit} /\ (d.limit > 0 => lim = d.limit)
        /\ (d.limit = 0 => lim = NoLimit)
    BY <2>2
  <2> HIDE DEF lim
  <2>8. S \in SUBSET Rows /\ IsFiniteSet(S) /\ Distinct(S)
    BY <2>1, <2>4, FS_Subset DEF Distinct
  <2>9. /\ doomed \in Seq(S)
        /\ lim # NoLimit => Len(doomed) <= lim
        /\ Covers(doomed, S, "byResource", lim)
    BY <2>5, <2>7, <2>8, FirstRows
  <2>10. ASSUME ~metLimit(f, d.limit), NEW r \in table'
         PROVE  PublicFilterDrops(f, r)
    <3>1. r \in table /\ r \notin D
      BY <2>3, <2>10
    <3>2. lim = NoLimit \/ Len(doomed) # lim
      BY <2>2, <2>6, <2>7, <2>10
    <3>3. S \subseteq D
      BY <2>9, <3>2 DEF Covers
    <3> QED
      BY <2>4, <3>1, <3>3
  <2>11. ASSUME d.limit > 0
         PROVE  Cardinality(table) <= Cardinality(table') + d.limit
    <3>1. IsFiniteSet(D) /\ Cardinality(D) <= Len(doomed)
      BY <2>9, ValuesCounted
    <3>2. Len(doomed) <= d.limit /\ Len(doomed) \in Nat
      BY <2>2, <2>7, <2>9, <2>11
    <3> HIDE DEF D
    <3>3. Cardinality(table') = Cardinality(table) - Cardinality(table \cap D)
      BY <2>1, <2>3, FS_Difference
    <3>4. Cardinality(table \cap D) <= Cardinality(D)
      BY <3>1, FS_Subset
    <3>5. IsFiniteSet(table \cap D)
      BY <2>1, FS_Subset
    <3>6. Cardinality(table) \in Nat /\ Cardinality(D) \in Nat /\ Cardinality(table \cap D) \in Nat
      BY <2>1, <3>1, <3>5, FS_CardinalityType
    <3> QED
      BY <2>2, <3>1, <3>2, <3>3, <3>4, <3>6
  <2> QED
    BY <2>10, <2>11 DEF f
<1> DEFINE Batches == \A d \in Deletes : DeleteRelationships(d.filter, d.limit) => Complete(d)
<1>2. PagingInv => Batches
  <2> HIDE DEF Complete
  <2> QED
    BY <1>1
<1>3. PagingInv /\ [SQLNext]_vars => [Batches]_vars
  <2> HIDE DEF Batches
  <2> QED
    BY <1>2
<1> QED
  BY <1>3, PagingInvariant, PTL DEF SQLSpec, BatchesComplete
=============================================================================
