------------------------ MODULE RelationshipQueries ------------------------
(***************************************************************************)
(* Queries of internal/datastore/memdb over the relationship table: the    *)
(* index a query scans, the filter, the cursor and the limit, forward from *)
(* resources and in reverse from subjects, and deletes by filter.          *)
(*                                                                         *)
(* A reader asks for a query page by page, each page after the last row of *)
(* the one before, while transactions change the table between pages. The  *)
(* store it asks is memdb, or the SQL store of SQLQueries.                 *)
(*                                                                         *)
(* Strings are numbers in the order of the strings; a resource or subject  *)
(* is the triple <<type, id, relation>> that less and eq compare.          *)
(***************************************************************************)
EXTENDS Naturals, Sequences, FiniteSets

CONSTANTS
  Rows,       \* the relationships transactions write
  Queries,    \* the queries a reader asks
  NoLimit,    \* a limit that is not set
  Deletes,    \* the filters and limits transactions delete by
  MaxTime,    \* bound: the clock
  MaxEdits    \* bound: transactions

Unset == 0     \* the string "" or a nil pointer, in a filter
Ellipsis == 1  \* the relation "...", which sorts before every name
NoCaveat == 0
Never == 0     \* the expiration of a row that does not expire
NoCursor == <<>>

Triple == Nat \X Nat \X Nat

\* The columns of a row that the unique index id is made of.
Key(r) == <<r.resource, r.subject>>

ASSUME RowsAssumption ==
  Rows \subseteq [resource : Triple, subject : Triple, caveat : Nat, expires : Nat]

ASSUME BoundsAssumption ==
  NoLimit \notin Nat /\ MaxTime \in Nat \ {0} /\ MaxEdits \in Nat

\* Pages have room for a row. A reverse query has one selector, which names a
\* type; without an order it drops nothing by a cursor, and is asked for one page.
ASSUME QueriesAssumption ==
  \A q \in Queries :
    /\ q.store \in {"memdb", "sql"} /\ q.direction \in {"forward", "reverse"}
    /\ q.order \in {"unsorted", "byResource", "bySubject", "chooseEfficient"}
    /\ q.limit \in (Nat \ {0}) \cup {NoLimit}
    /\ q.filter.expiration \in {"any", "has", "none"}
    /\ q.direction = "reverse" =>
         /\ \E sel \in q.filter.selectors : q.filter.selectors = {sel} /\ sel.type # Unset
         /\ q.order = "unsorted" => q.limit = NoLimit

ASSUME DeletesAssumption == \A d \in Deletes : d.limit \in Nat

VARIABLES
  table,     \* the relationship table of the live database
  now,       \* the clock
  edits,     \* transactions so far
  query,     \* the query the reader asks
  phase,     \* where the reader is with it
  after,     \* the cursor: the key of the last row it got
  returned,  \* the keys it got, in order
  steady     \* the keys that answered the query ever since it was asked

readerVars == <<query, phase, after, returned>>
vars == <<table, now, edits, readerVars, steady>>

----------------------------------------------------------------------------
(***************************************************************************)
(* Order                                                                   *)
(***************************************************************************)
less(lhs, rhs) ==
  \/ lhs[1] < rhs[1]
  \/ lhs[1] = rhs[1] /\ lhs[2] < rhs[2]
  \/ lhs[1] = rhs[1] /\ lhs[2] = rhs[2] /\ lhs[3] < rhs[3]

eq(lhs, rhs) == lhs = rhs

\* Every index of the table lists rows with equal index values by their key.
ResourceLess(j, k) == less(j[1], k[1]) \/ (eq(j[1], k[1]) /\ less(j[2], k[2]))

SubjectLess(j, k) == less(j[2], k[2]) \/ (eq(j[2], k[2]) /\ less(j[1], k[1]))

Before(order, j, k) == IF order = "bySubject" THEN SubjectLess(j, k) ELSE ResourceLess(j, k)

\* The rows of S, of distinct keys, in an order.
Sorted(S, order) ==
  LET rank(r) == Cardinality({q \in S : Before(order, Key(q), Key(r))})
  IN [i \in 1..Cardinality(S) |-> CHOOSE r \in S : rank(r) = i - 1]

FirstOf(n, s) == IF n # NoLimit /\ n < Len(s) THEN SubSeq(s, 1, n) ELSE s

\* A cursor drops the rows up to and including its own; unsorted, none.
CursorDrops(k, cursor, order) ==
  /\ cursor # NoCursor
  /\ \/ order \in {"byResource", "chooseEfficient"} /\ (ResourceLess(k, cursor) \/ eq(k, cursor))
     \/ order = "bySubject" /\ (SubjectLess(k, cursor) \/ eq(k, cursor))

----------------------------------------------------------------------------
(***************************************************************************)
(* Filters                                                                 *)
(***************************************************************************)
\* iteratorForFilter: by type and relation, by type, or the whole table.
iteratorForFilter(f) ==
  IF f.type = Unset THEN table
  ELSE {r \in table : /\ r.resource[1] = f.type
                      /\ f.relation # Unset => r.resource[3] = f.relation}

SelectorRelations(sel) ==
  (IF sel.ellipsis THEN {Ellipsis} ELSE {}) \cup
  (IF sel.relation # Unset THEN {sel.relation} ELSE {})

applySubjectSelector(sel, subject) ==
  /\ sel.type # Unset => sel.type = subject[1]
  /\ sel.ids # {} => subject[2] \in sel.ids
  /\ IF sel.onlyNonEllipsis
     THEN subject[3] # Ellipsis
     ELSE SelectorRelations(sel) = {} \/ subject[3] \in SelectorRelations(sel)

\* The rows filterFuncForFilters drops, before it asks the cursor.
FilterDrops(f, r) ==
  \/ f.type # Unset /\ f.type # r.resource[1]
  \/ f.ids # {} /\ r.resource[2] \notin f.ids
  \/ f.prefix # {} /\ r.resource[2] \notin f.prefix
  \/ f.relation # Unset /\ f.relation # r.resource[3]
  \/ f.caveats # {} /\ r.caveat \notin f.caveats
  \/ f.expiration = "has" /\ r.expires = Never
  \/ f.expiration = "none" /\ r.expires # Never
  \/ f.selectors # {} /\ \A sel \in f.selectors : ~applySubjectSelector(sel, r.subject)

\* Mutant: expired rows are left in.
IteratorKeepsExpired(q, r) ==
  \/ q.skipCaveats /\ r.caveat # NoCaveat
  \/ q.skipExpiration /\ r.expires # Never

\* What the iterators leave out of what the filter kept.
IteratorDrops(q, r) ==
  \/ q.skipCaveats /\ r.caveat # NoCaveat
  \/ q.skipExpiration /\ r.expires # Never
  \/ r.expires # Never /\ r.expires < now

newMemdbTupleIterator(q, found) ==
  FirstOf(q.limit, Sorted({r \in found : ~IteratorDrops(q, r)}, "byResource"))

\* Mutant: the limit cuts before the rows are sorted by subject.
SubjectSortedAfterLimit(q, found) ==
  LET cut == newMemdbTupleIterator(q, found)
  IN Sorted({cut[i] : i \in DOMAIN cut}, "bySubject")

newSubjectSortedIterator(q, found) ==
  FirstOf(q.limit, Sorted({r \in found : ~IteratorDrops(q, r)}, "bySubject"))

Answer(q, candidates, cursor) ==
  LET found == {r \in candidates : ~FilterDrops(q.filter, r)
                                   /\ ~CursorDrops(Key(r), cursor, q.order)}
  IN IF q.order = "bySubject" THEN newSubjectSortedIterator(q, found)
                              ELSE newMemdbTupleIterator(q, found)

CursorRefused(q, cursor) ==
  q.direction = "forward" /\ q.order = "unsorted" /\ cursor # NoCursor

QueryRelationships(q, cursor) == Answer(q, iteratorForFilter(q.filter), cursor)

\* Mutant: the subject type is looked up in the index of resource types.
ReverseScanMixedUp(q, cursor) ==
  LET sel == CHOOSE s \in q.filter.selectors : TRUE
  IN Answer(q, {r \in table : r.resource[1] = sel.type}, cursor)

\* A reverse query has one selector, whose subject type its index looks up.
ReverseQueryRelationships(q, cursor) ==
  LET sel == CHOOSE s \in q.filter.selectors : TRUE
  IN Answer(q, {r \in table : r.subject[1] = sel.type}, cursor)

Page(q, cursor) ==
  IF q.direction = "forward" THEN QueryRelationships(q, cursor)
                             ELSE ReverseQueryRelationships(q, cursor)

----------------------------------------------------------------------------
(***************************************************************************)
(* The reader                                                              *)
(***************************************************************************)
\* What a query asks for, whatever index, cursor or iterator serves it.
Matches(sel, subject) ==
  /\ sel.type \in {Unset, subject[1]}
  /\ sel.ids = {} \/ subject[2] \in sel.ids
  /\ sel.onlyNonEllipsis => subject[3] # Ellipsis
  /\ sel.onlyNonEllipsis \/ (~sel.ellipsis /\ sel.relation = Unset)
     \/ (sel.ellipsis /\ subject[3] = Ellipsis)
     \/ (sel.relation # Unset /\ subject[3] = sel.relation)

Wants(q, r) ==
  LET f == q.filter
  IN /\ f.type \in {Unset, r.resource[1]} /\ f.relation \in {Unset, r.resource[3]}
     /\ f.ids = {} \/ r.resource[2] \in f.ids
     /\ f.prefix = {} \/ r.resource[2] \in f.prefix
     /\ f.caveats = {} \/ r.caveat \in f.caveats
     /\ f.expiration \in {"any", IF r.expires = Never THEN "none" ELSE "has"}
     /\ f.selectors = {} \/ \E sel \in f.selectors : Matches(sel, r.subject)

\* Which rows a store gives at a time: skipping caveats or expiration leaves the
\* rows that have them out of memdb's pages, and only their columns out of SQL's.
Gives(q, r, time) ==
  IF q.store = "memdb"
  THEN /\ q.skipCaveats => r.caveat = NoCaveat
       /\ r.expires = Never \/ (~q.skipExpiration /\ time <= r.expires)
  ELSE q.skipExpiration \/ r.expires = Never \/ time < r.expires

Wanted(rows, time) == {Key(r) : r \in {s \in rows : Wants(query, s) /\ Gives(query, s, time)}}

\* The caller asks for another page while the last was full.
Got(keys) ==
  /\ phase = "paging"
  /\ returned' = returned \o keys
  /\ after' = IF keys = <<>> THEN after ELSE keys[Len(keys)]
  /\ phase' = IF query.limit # NoLimit /\ Len(keys) = query.limit /\ keys # <<>>
              THEN "paging" ELSE "done"
  /\ UNCHANGED <<table, now, edits, query, steady>>

NextPage ==
  /\ query.store = "memdb"
  /\ ~CursorRefused(query, after)
  /\ LET page == Page(query, after) IN Got([i \in DOMAIN page |-> Key(page[i])])

\* ErrCursorsWithoutSorting
PageRefused ==
  /\ phase = "paging"
  /\ CursorRefused(query, after)
  /\ phase' = "refused"
  /\ UNCHANGED <<table, now, edits, query, after, returned, steady>>

----------------------------------------------------------------------------
(***************************************************************************)
(* Transactions and time                                                   *)
(***************************************************************************)
Change(rows) ==
  /\ edits < MaxEdits
  /\ edits' = edits + 1
  /\ table' = rows
  /\ steady' = steady \cap Wanted(rows, now)
  /\ UNCHANGED <<now, readerVars>>

\* Mutant: the row is inserted beside the one that has its key.
TouchBeside(r) == r \notin table /\ Change(table \cup {r})

\* A touch of a row as it is writes nothing; any other replaces the key's row.
Touch(r) ==
  /\ r \notin table
  /\ Change({s \in table : Key(s) # Key(r)} \cup {r})

\* relationshipFilterFilterFunc
PublicFilterDrops(f, r) ==
  \/ f.type # Unset /\ f.type # r.resource[1]
  \/ f.id # Unset /\ f.id # r.resource[2]
  \/ f.prefix # {} /\ r.resource[2] \notin f.prefix
  \/ f.relation # Unset /\ f.relation # r.resource[3]
  \/ /\ f.hasSubject
     /\ \/ f.subjectType # r.subject[1]
        \/ f.subjectId # Unset /\ f.subjectId # r.subject[2]
        \/ f.subjectRelation # Unset /\ f.subjectRelation # r.subject[3]

\* What deleteWithLock collects: a limit of 0 is none.
Doomed(f, limit) ==
  LET s == Sorted({r \in iteratorForFilter(f) : ~PublicFilterDrops(f, r)}, "byResource")
  IN FirstOf(IF limit = 0 THEN NoLimit ELSE limit, s)

\* Mutant: the batch met its limit only when more rows are left.
metLimitExceeded(f, limit) == limit > 0 /\ Len(Doomed(f, limit)) > limit

metLimit(f, limit) == limit > 0 /\ Len(Doomed(f, limit)) = limit

DeleteRelationships(f, limit) ==
  LET doomed == Doomed(f, limit)
  IN /\ doomed # <<>>
     /\ Change(table \ {doomed[i] : i \in DOMAIN doomed})

Tick ==
  /\ now < MaxTime
  /\ now' = now + 1
  /\ steady' = steady \cap Wanted(table, now + 1)
  /\ UNCHANGED <<table, edits, readerVars>>

Init ==
  /\ table \in {rows \in SUBSET Rows : /\ IsFiniteSet(rows)
                                      /\ \A r, s \in rows : Key(r) = Key(s) => r = s}
  /\ now = 1
  /\ edits = 0
  /\ query \in Queries
  /\ phase = "paging"
  /\ after = NoCursor
  /\ returned = <<>>
  /\ steady = Wanted(table, now)

Next ==
  \/ NextPage
  \/ PageRefused
  \/ \E r \in Rows : Touch(r)
  \/ \E d \in Deletes : DeleteRelationships(d.filter, d.limit)
  \/ Tick

Spec == Init /\ [][Next]_vars

----------------------------------------------------------------------------
(***************************************************************************)
(* Properties                                                              *)
(***************************************************************************)
TypeOK ==
  /\ table \subseteq Rows /\ \A r, s \in table : Key(r) = Key(s) => r = s
  /\ now \in 1..MaxTime /\ edits \in 0..MaxEdits
  /\ query \in Queries
  /\ phase \in {"paging", "done", "refused"}
  /\ after \in {NoCursor} \cup {Key(r) : r \in Rows}
  /\ \A i \in DOMAIN returned : returned[i] \in {Key(r) : r \in Rows}
  /\ steady \subseteq {Key(r) : r \in Rows}

\* Over all its pages a reader gets the rows in the order it asked for, or in one
\* and the same if it left the choice to the store, none of them twice, whatever
\* is written between two pages.
PagesInOrder ==
  \E order \in IF query.order = "chooseEfficient" THEN {"byResource", "bySubject"}
              ELSE {query.order} :
    \A i, j \in DOMAIN returned : i < j => Before(order, returned[i], returned[j])

\* A row that answers the query from the first page to the last is on one of
\* them: no cursor, limit, index or sort steps over it.
NoneSkipped ==
  phase = "done" => steady \subseteq {returned[i] : i \in DOMAIN returned}

\* A page holds only rows that answer the query when it is read: none that the
\* filter, the expiration or the skip options exclude.
OnlyAnswers ==
  [][\A i \in DOMAIN returned' \ DOMAIN returned : returned'[i] \in Wanted(table, now)]_vars

\* What a reverse query finds through the index of subject types is what the
\* forward query with the same filter finds through the indexes of resources.
DirectionsAgree ==
  query.direction = "reverse" =>
    ReverseQueryRelationships(query, NoCursor) = QueryRelationships(query, NoCursor)

\* A delete that says it did not meet its limit left no row its filter matches,
\* and one with a limit deletes no more than it: a caller that repeats the
\* delete until the limit is not met ends with the filter's rows gone.
BatchesComplete ==
  [][\A d \in Deletes : DeleteRelationships(d.filter, d.limit) =>
       /\ metLimit(d.filter, d.limit) \/ \A r \in table' : PublicFilterDrops(d.filter, r)
       /\ d.limit > 0 => Cardinality(table) <= Cardinality(table') + d.limit]_vars
=============================================================================
