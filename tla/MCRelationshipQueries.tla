----------------------- MODULE MCRelationshipQueries -----------------------
(* A small relationship table, and queries that tell its rows apart, for TLC. *)
EXTENDS SQLQueries

\* document:1 and document:2 with two relations; user:1 and group:1#member.
User == <<1, 1, Ellipsis>>
Group == <<2, 1, 2>>
Row(r, s) == [resource |-> r, subject |-> s, caveat |-> NoCaveat, expires |-> Never]

SomeRows ==
  { Row(<<1, 1, 2>>, User),
    [Row(<<1, 1, 2>>, User) EXCEPT !.caveat = 1],
    [Row(<<1, 1, 2>>, Group) EXCEPT !.expires = 1],
    Row(<<1, 1, 2>>, Group),
    Row(<<1, 2, 3>>, User),
    [Row(<<2, 1, 2>>, User) EXCEPT !.caveat = 1] }

AnyRow ==
  [type |-> Unset, ids |-> {}, prefix |-> {}, relation |-> Unset, caveats |-> {},
   expiration |-> "any", selectors |-> {}]

Subjects(type) ==
  [type |-> type, ids |-> {}, ellipsis |-> FALSE, relation |-> Unset,
   onlyNonEllipsis |-> FALSE]

Filters ==
  { AnyRow,
    [AnyRow EXCEPT !.type = 1, !.relation = 2],
    [AnyRow EXCEPT !.type = 1, !.ids = {1}, !.expiration = "has"],
    [AnyRow EXCEPT !.prefix = {1, 2}, !.caveats = {NoCaveat}],
    [AnyRow EXCEPT !.caveats = {1}],
    [AnyRow EXCEPT !.expiration = "none",
                   !.selectors = {[Subjects(1) EXCEPT !.ellipsis = TRUE],
                                  [Subjects(Unset) EXCEPT !.onlyNonEllipsis = TRUE]}] }

SubjectFilters ==
  { [AnyRow EXCEPT !.selectors = {Subjects(1)}],
    [AnyRow EXCEPT !.type = 1, !.relation = 2,
                   !.selectors = {[Subjects(2) EXCEPT !.ids = {1}, !.relation = 2]}] }

Asked(direction, filters, orders, limits) ==
  [store : {"memdb"}, direction : {direction}, filter : filters, order : orders, limit : limits,
   skipCaveats : {FALSE}, skipExpiration : {FALSE}]

MemDBQueries ==
  Asked("forward", Filters, {"byResource", "bySubject"}, {1, 2})
  \cup Asked("forward", {AnyRow}, {"unsorted", "chooseEfficient"}, {1, NoLimit})
  \cup Asked("reverse", SubjectFilters, {"byResource", "bySubject"}, {1, 2, NoLimit})
  \cup {[q EXCEPT !.skipCaveats = TRUE, !.skipExpiration = TRUE] :
          q \in Asked("forward", {AnyRow}, {"byResource", "bySubject"}, {1})}

\* SQL queries: columns static one by one, by selector, and varying between
\* selectors. A row remains to be compared with the cursor in each.
SQLFilters ==
  Filters \cup SubjectFilters \cup
  { [AnyRow EXCEPT !.selectors = {[Subjects(1) EXCEPT !.ids = {1}, !.ellipsis = TRUE],
                                  [Subjects(2) EXCEPT !.relation = 2]}],
    [AnyRow EXCEPT !.type = 1, !.selectors = {[Subjects(Unset) EXCEPT !.onlyNonEllipsis = TRUE,
                                                                      !.relation = 2]}] }

SQLQueriesAsked ==
  {[q EXCEPT !.store = "sql"] :
     q \in Asked("forward", SQLFilters, {"byResource", "bySubject"}, {1, 2})
           \cup Asked("forward", {AnyRow}, {"unsorted"}, {1})
           \cup Asked("forward", {AnyRow}, {"chooseEfficient"}, {1})
           \cup {[o EXCEPT !.skipCaveats = TRUE, !.skipExpiration = TRUE] :
                    o \in Asked("forward", {AnyRow}, {"byResource"}, {1, NoLimit})}}

SomeQueries == MemDBQueries \cup SQLQueriesAsked

AnyPublic ==
  [type |-> Unset, id |-> Unset, prefix |-> {}, relation |-> Unset, hasSubject |-> FALSE,
   subjectType |-> Unset, subjectId |-> Unset, subjectRelation |-> Unset]

SomeDeletes ==
  { [filter |-> [AnyPublic EXCEPT !.type = 1, !.relation = 2], limit |-> 1],
    [filter |-> [AnyPublic EXCEPT !.hasSubject = TRUE, !.subjectType = 1,
                                  !.subjectRelation = Ellipsis], limit |-> 2],
    [filter |-> [AnyPublic EXCEPT !.type = 1, !.id = 1, !.prefix = {1}], limit |-> 0] }
=============================================================================
