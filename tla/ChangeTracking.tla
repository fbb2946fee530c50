--------------------------- MODULE ChangeTracking ---------------------------
(***************************************************************************)
(* internal/datastore/common/changes.go: Changes, which nets out the       *)
(* changes of each revision, bounds their size, and gives up those before  *)
(* a bound. Goroutines add changes while another takes some: every call    *)
(* that adds is one section under recordsMutex, the one that takes is four.*)
(*                                                                         *)
(* Revisions are those of a hybrid logical clock, whose logical clocks fit.*)
(* One goroutine takes changes, up to later and later bounds, and nobody   *)
(* adds one before a bound that was asked for: a bound is a revision the   *)
(* datastore has resolved.  That is up to the callers: CallerAdds and      *)
(* CallerAsks say so.                                                      *)
(***************************************************************************)
EXTENDS HLCRevision, Sequences, FiniteSets

CONSTANTS
  Rels,         \* relationships
  Namespaces,   \* names of namespaces
  Caveats,      \* names of caveats, none that of a namespace
  Metadatas,    \* metadata of transactions, none of them empty
  Size,         \* SizeVT() of each relationship and definition
  MaxByteSize,  \* maxByteSize, 0 for no limit
  Contents,     \* the contents a tracker may be made for
  Decimals,     \* bound: the revisions that change something, as texts
  Bounds,       \* bound: those up to which changes are taken
  MaxAdds       \* bound: changes added

Things == Rels \cup Namespaces \cup Caveats
Revisions == {HLCRevisionFromString(d) : d \in Decimals}
NoBound == [time |-> 0, logical |-> 0]

ASSUME ThingsAssumption ==
  /\ Rels \cap Namespaces = {} /\ Rels \cap Caveats = {} /\ Namespaces \cap Caveats = {}
  /\ Size \in [Things -> Nat]
  /\ MaxByteSize \in Nat /\ MaxAdds \in Nat
  /\ Decimals \cup Bounds \subseteq Decimal
  /\ \A d \in Decimals \cup Bounds : Fits(d)
  /\ IsFiniteSet(Decimals)
  /\ \A content \in Contents : content \subseteq {"relationships", "schema"}

VARIABLES
  content,          \* what the tracker keeps
  records,          \* the record of each revision that has one
  currentByteSize,
  refused,          \* has a call returned that the changes are too large?
  taker,            \* where FilterAndRemoveRevisionChanges is
  changes,          \* what its calls have returned
  added,            \* history: what was added at each revision
  adds              \* changes added so far

vars == <<content, records, currentByteSize, refused, taker, changes, added, adds>>

changeRecord(touched, deleted, metadatas) ==
  [touched |-> touched, deleted |-> deleted, metadatas |-> metadatas]

NoChange == changeRecord({}, {}, {})

recordForRevision(rev) == IF rev \in DOMAIN records THEN records[rev] ELSE NoChange

WithRecord(rev, record) ==
  [r \in DOMAIN records \cup {rev} |-> IF r = rev THEN record ELSE records[r]]

\* The size is not kept without a limit.
adjustByteSize(size) ==
  /\ currentByteSize' = IF MaxByteSize = 0 THEN 0 ELSE currentByteSize + size
  /\ refused' = (MaxByteSize # 0 /\ currentByteSize' > MaxByteSize)

\* What the callers keep to and no method checks: they give up once a change was
\* refused, and add none before a bound that was asked for.
CallerAdds(rev) ==
  /\ ~refused
  /\ ~GreaterThan(taker.bound, rev)
  /\ adds < MaxAdds

Tracks(rev, c) ==
  /\ adds' = adds + 1
  /\ added' = [added EXCEPT ![rev] = @ \cup {c}]
  /\ UNCHANGED <<content, taker, changes>>

\* Mutant: the size of a delete is given back whether there was one or not.
TouchGivesBack(rev, rel) ==
  LET record == recordForRevision(rev)
  IN /\ Tracks(rev, [op |-> "touch", item |-> rel])
     /\ records' = WithRecord(rev, changeRecord(record.touched \cup {rel},
                                               record.deleted \ {rel}, record.metadatas))
     /\ adjustByteSize(0)

\* A touch drops the delete of the same relationship; a second one counts again.
Touch(rev, rel) ==
  LET record == recordForRevision(rev)
  IN /\ Tracks(rev, [op |-> "touch", item |-> rel])
     /\ records' = WithRecord(rev, changeRecord(record.touched \cup {rel},
                                               record.deleted \ {rel}, record.metadatas))
     /\ adjustByteSize(IF rel \in record.deleted THEN 0 ELSE Size[rel])

\* Mutant: a delete after a touch is kept beside it.
DeleteBeside(rev, rel) ==
  LET record == recordForRevision(rev)
  IN /\ Tracks(rev, [op |-> "delete", item |-> rel])
     /\ records' = WithRecord(rev, changeRecord(record.touched, record.deleted \cup {rel},
                                               record.metadatas))
     /\ adjustByteSize(Size[rel])

Delete(rev, rel) ==
  LET record == recordForRevision(rev)
  IN /\ Tracks(rev, [op |-> "delete", item |-> rel])
     /\ IF rel \in record.touched
        THEN records' = WithRecord(rev, record) /\ adjustByteSize(0)
        ELSE /\ records' = WithRecord(rev, changeRecord(record.touched, record.deleted \cup {rel},
                                               record.metadatas))
             /\ adjustByteSize(Size[rel])

AddRelationshipChange(rev) ==
  /\ "relationships" \in content
  /\ \E rel \in Rels : Touch(rev, rel) \/ Delete(rev, rel)

\* AddDeletedNamespace, AddDeletedCaveat: no size is counted.
AddDeleted(rev, name) ==
  LET record == recordForRevision(rev)
  IN /\ Tracks(rev, [op |-> "delete", item |-> name])
     /\ records' = WithRecord(rev, IF name \in record.touched THEN record
                                   ELSE changeRecord(record.touched, record.deleted \cup {name},
                                                     record.metadatas))
     /\ UNCHANGED <<currentByteSize, refused>>

\* A namespace that changed before gives its size back. A caveat does not: what
\* is looked for is a namespace of its name.
AddChangedDefinition(rev, name) ==
  LET record == recordForRevision(rev)
  IN /\ Tracks(rev, [op |-> "touch", item |-> name])
     /\ records' = WithRecord(rev, changeRecord(record.touched \cup {name},
                                               record.deleted \ {name}, record.metadatas))
     /\ adjustByteSize(IF name \in Namespaces \cap record.touched THEN 0 ELSE Size[name])

AddSchemaChange(rev) ==
  /\ "schema" \in content
  /\ \E name \in Namespaces \cup Caveats : AddDeleted(rev, name) \/ AddChangedDefinition(rev, name)

\* Whatever the content; the same metadata is kept once.
AddRevisionMetadata(rev) ==
  \E metadata \in Metadatas :
    /\ Tracks(rev, [op |-> "metadata", item |-> metadata])
    /\ LET record == recordForRevision(rev)
       IN records' = WithRecord(rev, changeRecord(record.touched, record.deleted,
                                                  record.metadatas \cup {metadata}))
    /\ UNCHANGED <<currentByteSize, refused>>

----------------------------------------------------------------------------
(***************************************************************************)
(* FilterAndRemoveRevisionChanges                                          *)
(***************************************************************************)
takerLeaves == UNCHANGED <<content, currentByteSize, refused, added, adds>>

Taker(at, boundRev, revisions, given) ==
  [at |-> at, bound |-> boundRev, revisions |-> revisions, changes |-> given]

\* Nor does any method check that a caller asks for later and later bounds.
CallerAsks(boundRev) == ~GreaterThan(taker.bound, boundRev)

\* A tracker that is empty has nothing to list, but is still cleared.
IsEmpty(boundRev) ==
  /\ taker.at = "idle"
  /\ taker' = Taker(IF DOMAIN records = {} THEN "removing" ELSE "listing", boundRev, {}, <<>>)
  /\ UNCHANGED <<records, changes>>
  /\ takerLeaves

\* The revisions before the bound.
ListRevisions ==
  /\ taker.at = "listing"
  /\ LET listed == {r \in DOMAIN records : GreaterThan(taker.bound, r)}
     IN taker' = Taker(IF listed = {} THEN "removing" ELSE "collecting", taker.bound, listed, <<>>)
  /\ UNCHANGED <<records, changes>>
  /\ takerLeaves

\* What sort.Slice may make of the listed revisions.
Sorted(revs) ==
  {s \in [1..Cardinality(revs) -> revs] :
     \A i, j \in DOMAIN s : i < j => HLCKeyLessThanFunc(s[i], s[j])}

\* What revisionChanges returns of each of them.
RevisionChanges(revs) ==
  [i \in DOMAIN revs |->
     LET record == recordForRevision(revs[i])
     IN [revision |-> revs[i], touched |-> record.touched, deleted |-> record.deleted,
         metadatas |-> record.metadatas]]

CollectChanges ==
  /\ taker.at = "collecting"
  /\ \E revs \in Sorted(taker.revisions) :
       taker' = Taker("removing", taker.bound, {}, RevisionChanges(revs))
  /\ UNCHANGED <<records, changes>>
  /\ takerLeaves

\* Mutant: the record at the bound goes too.
KeptAfter == {r \in DOMAIN records : HLCKeyLessThanFunc(taker.bound, r)}

Kept == {r \in DOMAIN records : ~GreaterThan(taker.bound, r)}

removeAllChangesBefore ==
  /\ taker.at = "removing"
  /\ records' = [r \in Kept |-> records[r]]
  /\ changes' = changes \o taker.changes
  /\ taker' = Taker("idle", taker.bound, {}, <<>>)
  /\ takerLeaves

Take ==
  \/ \E d \in Bounds : /\ CallerAsks(HLCRevisionFromString(d))
                      /\ IsEmpty(HLCRevisionFromString(d))
  \/ ListRevisions
  \/ CollectChanges
  \/ removeAllChangesBefore

Init ==
  /\ content \in Contents
  /\ records = <<>>
  /\ currentByteSize = 0
  /\ refused = FALSE
  /\ taker = Taker("idle", NewHLCForTime(0), {}, <<>>)
  /\ changes = <<>>
  /\ added = [r \in Revisions |-> {}]
  /\ adds = 0

Next ==
  \/ \E rev \in Revisions :
       /\ CallerAdds(rev)
       /\ AddRelationshipChange(rev) \/ AddSchemaChange(rev) \/ AddRevisionMetadata(rev)
  \/ Take

Spec == Init /\ [][Next]_vars

----------------------------------------------------------------------------
(***************************************************************************)
(* Properties                                                              *)
(***************************************************************************)
TypeOK ==
  /\ DOMAIN records \subseteq Revisions
  /\ \A r \in DOMAIN records :
       /\ records[r].touched \cup records[r].deleted \subseteq Things
       /\ records[r].touched \cap records[r].deleted = {}
       /\ records[r] # NoChange
  /\ taker.revisions \subseteq DOMAIN records
  /\ taker.at = "idle" => \A r \in DOMAIN records : ~GreaterThan(taker.bound, r)

\* What counts of a record: all but the deletes of definitions.
Counted(record) == record.touched \cup (record.deleted \cap Rels)

\* The bytes of the changes that are held.
Held ==
  UNION {UNION {{<<r, i>>} \X (1..Size[i]) : i \in Counted(records[r])} : r \in DOMAIN records}

\* The size that is kept is never below that of the changes that are held, so a
\* tracker that refused none of them holds no more than its limit.
LimitHolds ==
  MaxByteSize # 0 =>
    /\ Cardinality(Held) <= currentByteSize
    /\ ~refused => Cardinality(Held) <= MaxByteSize

\* Taking changes in four sections while others are added is taking them at once:
\* nothing that is added is lost, given twice or given in part, and each
\* revision is given as what its changes net out to in any order, in the order of
\* the texts of the revisions.
Log == INSTANCE ChangeLog WITH
  Revisions <- Decimals,
  Precedes <- Precedes,
  First <- NoBound,
  log <- [d \in Decimals |-> LET rev == HLCRevisionFromString(d)
                             IN IF rev \in DOMAIN records THEN added[rev] ELSE {}],
  bound <- String(taker.bound),
  changes <- [i \in DOMAIN changes |-> [changes[i] EXCEPT !.revision = String(@)]],
  Relevant <- [op : {"touch", "delete"}, item : Things] \cup [op : {"metadata"}, item : Metadatas]

TakesAtOnce == Log!Spec
=============================================================================
