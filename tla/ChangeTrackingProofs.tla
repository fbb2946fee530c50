------------------------ MODULE ChangeTrackingProofs ------------------------
(* How far revisions of a hybrid logical clock are ordered as their texts, and
   that Changes implements ChangeLog for those whose logical clocks fit. *)
EXTENDS ChangeTracking, FiniteSetTheorems, SequenceTheorems, TLAPS

(***************************************************************************)
(* Revisions of a hybrid logical clock                                     *)
(***************************************************************************)
\* The offset is taken off again as long as the sum did not wrap.
LEMMA NoWrap ==
  ASSUME NEW d \in Decimal, Fits(d)
  PROVE  /\ HLCRevisionFromString(d) = [time |-> d.time, logicalclock |-> d.logical + Offset]
         /\ HLCRevisionFromString(d) \in HLC
         /\ ~Refused(d)
<1>1. d.logical \in Nat /\ d.logical + Offset \in 0..(Width - 1)
  BY WidthAssumption DEF Decimal, Fits
<1>2. (d.logical + Offset) % Width = d.logical + Offset
  BY <1>1, WidthAssumption
<1> QED
  BY <1>1, <1>2, WidthAssumption DEF HLCRevisionFromString, HLC, Decimal, Refused

\* Below the room the offset leaves, revisions are ordered as their decimals and
\* print as what they were parsed from (hlcrevision.go:32-77, 105-150).
THEOREM OrderKept ==
  ASSUME NEW c \in Decimal, NEW d \in Decimal, Fits(c), Fits(d)
  PROVE  /\ HLCKeyLessThanFunc(HLCRevisionFromString(c), HLCRevisionFromString(d))
              <=> Precedes(c, d)
         /\ GreaterThan(HLCRevisionFromString(d), HLCRevisionFromString(c)) <=> Precedes(c, d)
         /\ String(HLCRevisionFromString(d)) = d
<1>1. /\ HLCRevisionFromString(c) = [time |-> c.time, logicalclock |-> c.logical + Offset]
      /\ HLCRevisionFromString(d) = [time |-> d.time, logicalclock |-> d.logical + Offset]
  BY NoWrap
<1>2. c.logical \in Nat /\ d.logical \in Nat /\ c.time \in Nat /\ d.time \in Nat /\ Offset \in Nat
  BY WidthAssumption DEF Decimal
<1>3. [time |-> d.time, logical |-> (d.logical + Offset) - Offset] = d
  BY <1>2 DEF Decimal
<1> QED
  BY <1>1, <1>2, <1>3 DEF HLCKeyLessThanFunc, GreaterThan, Precedes, String

\* Above it, what is not refused is parsed to a revision before that of the same
\* time without a logical clock, and has no text (hlcrevision.go:77, 129).
THEOREM OrderLost ==
  ASSUME NEW d \in Decimal, ~Fits(d), ~Refused(d)
  PROVE  /\ HLCKeyLessThanFunc(HLCRevisionFromString(d), NewHLCForTime(d.time))
         /\ String(HLCRevisionFromString(d)).logical < 0
<1>1. /\ d.logical \in Nat /\ d.time \in Nat /\ Offset \in Nat /\ Width \in Nat \ {0}
      /\ d.logical < Width /\ Offset < Width /\ d.logical + Offset >= Width
  BY WidthAssumption DEF Decimal, Fits, Refused
<1>2. (d.logical + Offset) % Width = d.logical + Offset - Width
  <2>1. \A n \in 0..(Width - 1) : (n + Width) % Width = n
    BY <1>1
  <2> QED
    BY <1>1, <2>1
<1> QED
  BY <1>1, <1>2 DEF HLCKeyLessThanFunc, HLCRevisionFromString, NewHLCForTime, String

----------------------------------------------------------------------------
(***************************************************************************)
(* Changes and ChangeLog                                                   *)
(***************************************************************************)
Known == Decimals \cup Bounds \cup {NoBound}
Rev(d) == HLCRevisionFromString(d)

\* What was parsed from a text that occurs prints as that text.
LEMMA KnownFit ==
  ASSUME NEW d \in Known
  PROVE  d \in Decimal /\ Fits(d) /\ String(Rev(d)) = d
<1>1. NoBound \in Decimal /\ Fits(NoBound)
  BY WidthAssumption DEF NoBound, Decimal, Fits
<1>2. d \in Decimal /\ Fits(d)
  BY <1>1, ThingsAssumption DEF Known
<1> QED
  BY <1>2, OrderKept DEF Rev

\* Revisions are ordered as their texts, and differ as they do.
LEMMA SameOrder ==
  ASSUME NEW c \in Known, NEW d \in Known
  PROVE  /\ GreaterThan(Rev(d), Rev(c)) <=> Precedes(c, d)
         /\ HLCKeyLessThanFunc(Rev(c), Rev(d)) <=> Precedes(c, d)
         /\ Rev(c) = Rev(d) => c = d
<1>1. /\ c \in Decimal /\ Fits(c) /\ String(Rev(c)) = c
      /\ d \in Decimal /\ Fits(d) /\ String(Rev(d)) = d
  BY KnownFit
<1> QED
  BY <1>1, OrderKept DEF Rev

\* The taker starts from the revision of time 0.
LEMMA NoBoundRev == NewHLCForTime(0) = Rev(NoBound)
  BY WidthAssumption DEF NewHLCForTime, Rev, HLCRevisionFromString, NoBound

----------------------------------------------------------------------------
\* What the changes added at a revision net out to.
ItemsOf(op, cs) == {c.item : c \in {e \in cs : e.op = op}}

NetOf(cs) ==
  changeRecord(ItemsOf("touch", cs), ItemsOf("delete", cs) \ ItemsOf("touch", cs),
               ItemsOf("metadata", cs))

Relevants == [op : {"touch", "delete"}, item : Things] \cup [op : {"metadata"}, item : Metadatas]

\* One more change adds its thing, and is of no other kind.
LEMMA OneMore ==
  ASSUME NEW cs, NEW c
  PROVE  /\ ItemsOf(c.op, cs \cup {c}) = ItemsOf(c.op, cs) \cup {c.item}
         /\ \A o : o # c.op => ItemsOf(o, cs \cup {c}) = ItemsOf(o, cs)
BY DEF ItemsOf

\* The records before the taker's bound, which nobody adds to.
Below == {r \in DOMAIN records : GreaterThan(taker.bound, r)}

\* What is given of revisions that have records.
Given == [revision : Revisions, touched : SUBSET Things, deleted : SUBSET Things,
          metadatas : SUBSET Metadatas]

Types ==
  /\ records = [r \in DOMAIN records |-> records[r]]
  /\ DOMAIN records \subseteq Revisions
  /\ added \in [Revisions -> SUBSET Relevants]
  /\ taker \in [at : {"idle", "listing", "collecting", "removing"}, bound : {Rev(d) : d \in Known},
                revisions : SUBSET Revisions,
                changes : Seq(Given)]
  /\ changes \in Seq(Given)

RecordsInv ==
  \A r \in DOMAIN records : records[r] = NetOf(added[r]) /\ added[r] # {}

\* A revision without a record that may still change has not changed yet.
FreshInv ==
  \A r \in Revisions \ DOMAIN records : ~GreaterThan(taker.bound, r) => added[r] = {}

TakerInv ==
  /\ taker.at = "idle" => Below = {}
  /\ taker.at # "collecting" => taker.revisions = {}
  /\ taker.at = "collecting" => taker.revisions = Below
  /\ taker.at = "removing" => \E revs \in Sorted(Below) : taker.changes = RevisionChanges(revs)

TrackInv == Types /\ RecordsInv /\ FreshInv /\ TakerInv

\* A revision is recorded as what its changes net out to, if it may still change.
LEMMA RecordIsNet ==
  ASSUME TrackInv, NEW r \in Revisions, ~GreaterThan(taker.bound, r)
  PROVE  recordForRevision(r) = NetOf(added[r])
<1>1. NetOf({}) = NoChange
  BY DEF NetOf, ItemsOf, NoChange
<1> QED
  BY <1>1 DEF TrackInv, RecordsInv, FreshInv, recordForRevision

\* Every call that adds a change nets it out with those of its revision.
AddsNet(rev, c) ==
  /\ CallerAdds(rev)
  /\ Tracks(rev, c)
  /\ records' = WithRecord(rev, NetOf(added[rev] \cup {c}))

\* Every call that adds leaves the record its changes net out to.
LEMMA CallsAddNet ==
  ASSUME TrackInv, NEW rev \in Revisions, CallerAdds(rev),
         AddRelationshipChange(rev) \/ AddSchemaChange(rev) \/ AddRevisionMetadata(rev)
  PROVE  \E c \in Relevants : AddsNet(rev, c)
<1> DEFINE old == ItemsOf("touch", added[rev])
           gone == ItemsOf("delete", added[rev])
           meta == ItemsOf("metadata", added[rev])
           record == recordForRevision(rev)
<1>1. ASSUME NEW c, Tracks(rev, c)
      PROVE  record.touched = old /\ record.deleted = gone \ old /\ record.metadatas = meta
             /\ record = changeRecord(old, gone \ old, meta)
  BY <1>1, RecordIsNet DEF NetOf, CallerAdds, changeRecord
<1>2. ASSUME NEW item \in Things
      PROVE  /\ NetOf(added[rev] \cup {[op |-> "touch", item |-> item]}) =
                  changeRecord(old \cup {item}, gone \ (old \cup {item}), meta)
             /\ NetOf(added[rev] \cup {[op |-> "delete", item |-> item]}) =
                  changeRecord(old, (gone \cup {item}) \ old, meta)
             /\ [op |-> "touch", item |-> item] \in Relevants
             /\ [op |-> "delete", item |-> item] \in Relevants
  <2>1. \A op \in {"touch", "delete"} : [op |-> op, item |-> item] \in Relevants
    BY DEF Relevants
  <2>2. NetOf(added[rev] \cup {[op |-> "touch", item |-> item]}) =
          changeRecord(old \cup {item}, gone \ (old \cup {item}), meta)
    <3> DEFINE c == [op |-> "touch", item |-> item]
               more == added[rev] \cup {c}
    <3>1. c.op = "touch" /\ c.item = item
      OBVIOUS
    <3> HIDE DEF c
    <3>2. ItemsOf("touch", more) = old \cup {item}
      BY <3>1, OneMore, ZenonT(60)
    <3>3. ItemsOf("delete", more) = gone /\ ItemsOf("metadata", more) = meta
      BY <3>1, OneMore, ZenonT(60)
    <3> QED
      BY <3>2, <3>3 DEF NetOf, c
  <2>3. NetOf(added[rev] \cup {[op |-> "delete", item |-> item]}) =
          changeRecord(old, (gone \cup {item}) \ old, meta)
    <3> DEFINE c == [op |-> "delete", item |-> item]
               more == added[rev] \cup {c}
    <3>1. c.op = "delete" /\ c.item = item
      OBVIOUS
    <3> HIDE DEF c
    <3>2. ItemsOf("delete", more) = gone \cup {item}
      BY <3>1, OneMore, ZenonT(60)
    <3>3. ItemsOf("touch", more) = old /\ ItemsOf("metadata", more) = meta
      BY <3>1, OneMore, ZenonT(60)
    <3> QED
      BY <3>2, <3>3 DEF NetOf, c
  <2> QED
    BY <2>1, <2>2, <2>3
<1>3. ASSUME NEW item \in Metadatas
      PROVE  /\ NetOf(added[rev] \cup {[op |-> "metadata", item |-> item]}) =
                  changeRecord(old, gone \ old, meta \cup {item})
             /\ [op |-> "metadata", item |-> item] \in Relevants
  <2>1. [op |-> "metadata", item |-> item] \in Relevants
    BY DEF Relevants
  <2>2. NetOf(added[rev] \cup {[op |-> "metadata", item |-> item]}) =
          changeRecord(old, gone \ old, meta \cup {item})
    <3> DEFINE c == [op |-> "metadata", item |-> item]
               more == added[rev] \cup {c}
    <3>1. c.op = "metadata" /\ c.item = item
      OBVIOUS
    <3> HIDE DEF c
    <3>2. ItemsOf("metadata", more) = meta \cup {item}
      BY <3>1, OneMore, ZenonT(60)
    <3>3. ItemsOf("touch", more) = old /\ ItemsOf("delete", more) = gone
      BY <3>1, OneMore, ZenonT(60)
    <3> QED
      BY <3>2, <3>3 DEF NetOf, c
  <2> QED
    BY <2>1, <2>2
<1>4. ASSUME NEW item \in Things, Touch(rev, item) \/ AddChangedDefinition(rev, item)
      PROVE  AddsNet(rev, [op |-> "touch", item |-> item])
  <2>1. /\ Tracks(rev, [op |-> "touch", item |-> item])
        /\ records' = WithRecord(rev, changeRecord(record.touched \cup {item},
                                                  record.deleted \ {item}, record.metadatas))
    BY <1>4 DEF Touch, AddChangedDefinition
  <2>2. (gone \ old) \ {item} = gone \ (old \cup {item})
    OBVIOUS
  <2> QED
    BY <1>1, <1>2, <2>1, <2>2 DEF AddsNet
<1>5. ASSUME NEW item \in Things, Delete(rev, item) \/ AddDeleted(rev, item)
      PROVE  AddsNet(rev, [op |-> "delete", item |-> item])
  <2>1. /\ Tracks(rev, [op |-> "delete", item |-> item])
        /\ IF item \in record.touched
           THEN records' = WithRecord(rev, record)
           ELSE records' = WithRecord(rev, changeRecord(record.touched, record.deleted \cup {item},
                                                        record.metadatas))
    BY <1>5 DEF Delete, AddDeleted
  <2>2. /\ item \in old => (gone \cup {item}) \ old = gone \ old
        /\ item \notin old => (gone \cup {item}) \ old = (gone \ old) \cup {item}
    OBVIOUS
  <2>3. record.touched = old /\ record.deleted = gone \ old /\ record.metadatas = meta
        /\ record = changeRecord(old, gone \ old, meta)
    BY <1>1, <2>1
  <2> HIDE DEF old, gone, meta, record
  <2>4. records' = WithRecord(rev, changeRecord(old, (gone \cup {item}) \ old, meta))
    BY <2>1, <2>2, <2>3
  <2> QED
    BY <1>2, <2>1, <2>4 DEF AddsNet
<1>6. CASE AddRelationshipChange(rev)
  BY <1>2, <1>4, <1>5, <1>6 DEF AddRelationshipChange, Things
<1>7. CASE AddSchemaChange(rev)
  BY <1>2, <1>4, <1>5, <1>7 DEF AddSchemaChange, Things
<1>8. CASE AddRevisionMetadata(rev)
  BY <1>1, <1>3, <1>8 DEF AddRevisionMetadata, AddsNet
<1> QED
  BY <1>6, <1>7, <1>8

----------------------------------------------------------------------------
\* The steps of the log that a call stands for.
LogOf == [d \in Decimals |-> IF Rev(d) \in DOMAIN records THEN added[Rev(d)] ELSE {}]

\* Every revision and the bound have a text.
LEMMA RevisionsKnown ==
  ASSUME TrackInv
  PROVE  /\ \A r \in Revisions : \E d \in Decimals : r = Rev(d)
         /\ \E b \in Known : taker.bound = Rev(b)
  BY DEF Revisions, Rev, TrackInv, Types

\* Adding a change keeps the invariant: the taker's revisions are not touched.
LEMMA AddKeeps ==
  ASSUME TrackInv, NEW rev \in Revisions, NEW c \in Relevants, AddsNet(rev, c)
  PROVE  TrackInv'
<1>1. /\ DOMAIN records' = DOMAIN records \cup {rev}
      /\ records'[rev] = NetOf(added[rev] \cup {c})
      /\ \A r \in DOMAIN records \ {rev} : records'[r] = records[r]
      /\ records' = [r \in DOMAIN records' |-> records'[r]]
  BY DEF AddsNet, WithRecord
<1>2. /\ added' \in [Revisions -> SUBSET Relevants]
      /\ added'[rev] = added[rev] \cup {c}
      /\ \A r \in Revisions \ {rev} : added'[r] = added[r]
      /\ ~GreaterThan(taker.bound, rev) /\ UNCHANGED <<taker, changes>>
  BY DEF AddsNet, CallerAdds, Tracks, TrackInv, Types
<1>3. Types'
  BY <1>1, <1>2 DEF TrackInv, Types
<1>4. RecordsInv'
  BY <1>1, <1>2 DEF TrackInv, Types, RecordsInv
<1>5. FreshInv'
  BY <1>1, <1>2 DEF TrackInv, FreshInv
<1>6. Below' = Below /\ \A r \in Below : records'[r] = records[r] /\ r # rev
  BY <1>1, <1>2 DEF Below
<1>7. ASSUME NEW revs \in Sorted(Below) PROVE RevisionChanges(revs)' = RevisionChanges(revs)
  <2>1. ASSUME NEW i \in DOMAIN revs PROVE recordForRevision(revs[i])' = recordForRevision(revs[i])
    <3>1. revs[i] \in Below
      BY DEF Sorted
    <3>2. revs[i] \in DOMAIN records /\ revs[i] \in DOMAIN records'
      BY <1>1, <3>1 DEF Below
    <3> QED
      BY <1>6, <3>1, <3>2 DEF recordForRevision
  <2> QED
    BY <2>1 DEF RevisionChanges
<1>8. TakerInv'
  <2>1. ASSUME taker.at = "removing"
        PROVE  \E revs \in Sorted(Below') : taker.changes = RevisionChanges(revs)'
    BY <1>6, <1>7, <2>1 DEF TrackInv, TakerInv
  <2> QED
    BY <1>2, <1>6, <2>1 DEF TrackInv, TakerInv, Sorted
<1> QED
  BY <1>3, <1>4, <1>5, <1>8 DEF TrackInv

\* What is tracked before the bound, as the log has it.
LEMMA LogRead ==
  ASSUME TrackInv, NEW d \in Decimals
  PROVE  /\ Rev(d) \in Revisions /\ d \in Known
         /\ GreaterThan(taker.bound, Rev(d)) <=> Precedes(d, String(taker.bound))
         /\ LogOf[d] # {} /\ Precedes(d, String(taker.bound)) <=> Rev(d) \in Below
<1>1. PICK b \in Known : taker.bound = Rev(b)
  BY RevisionsKnown
<1>2. Rev(d) \in Revisions /\ d \in Known
  BY DEF Revisions, Rev, Known
<1>3. String(taker.bound) = b
  BY <1>1, KnownFit
<1>4. GreaterThan(taker.bound, Rev(d)) <=> Precedes(d, b)
  BY <1>1, <1>2, SameOrder
<1>5. LogOf[d] # {} <=> Rev(d) \in DOMAIN records
  BY DEF LogOf, TrackInv, RecordsInv
<1> QED
  BY <1>2, <1>3, <1>4, <1>5 DEF Below

\* A call that adds a change adds it to the log.
LEMMA AddRefines ==
  ASSUME TrackInv, NEW rev \in Revisions, NEW c \in Relevants, AddsNet(rev, c)
  PROVE  Log!Next
<1>1. PICK d \in Decimals : rev = Rev(d)
  BY RevisionsKnown
<1>2. /\ DOMAIN records' = DOMAIN records \cup {rev}
      /\ added' \in [Revisions -> SUBSET Relevants]
      /\ added'[rev] = added[rev] \cup {c}
      /\ \A r \in Revisions \ {rev} : added'[r] = added[r]
      /\ ~GreaterThan(taker.bound, rev) /\ UNCHANGED <<taker, changes>>
  BY DEF AddsNet, CallerAdds, WithRecord, Tracks, TrackInv, Types
<1>3. \A e \in Decimals : LogOf'[e] = IF e = d THEN LogOf[e] \cup {c} ELSE LogOf[e]
  <2> SUFFICES ASSUME NEW e \in Decimals
               PROVE  LogOf'[e] = IF e = d THEN LogOf[e] \cup {c} ELSE LogOf[e]
    OBVIOUS
  <2>1. Rev(e) = rev <=> e = d
    BY <1>1, LogRead, SameOrder
  <2>2. Rev(e) \in Revisions
    BY LogRead
  <2>3. rev \notin DOMAIN records => added[rev] = {}
    BY <1>2 DEF TrackInv, FreshInv
  <2>4. /\ LogOf[e] = IF Rev(e) \in DOMAIN records THEN added[Rev(e)] ELSE {}
        /\ LogOf'[e] = IF Rev(e) \in DOMAIN records' THEN added'[Rev(e)] ELSE {}
    BY DEF LogOf
  <2>5. CASE e = d
    BY <1>1, <1>2, <2>3, <2>4, <2>5
  <2>6. CASE e # d
    BY <1>2, <2>1, <2>2, <2>4, <2>6
  <2> QED
    BY <2>5, <2>6
<1>4. LogOf' = [LogOf EXCEPT ![d] = @ \cup {c}]
  BY <1>3 DEF LogOf
<1>5. ~Precedes(d, String(taker.bound))
  BY <1>1, <1>2, LogRead
<1>6. Log!Add(d, c)
  BY <1>2, <1>4, <1>5 DEF Log!Add, LogOf, Rev
<1> QED
  BY <1>6 DEF Log!Next, Relevants

\* The log counts as the tracker does.
LEMMA SameCardinality == \A S : Log!Cardinality(S) = Cardinality(S)
  BY DEF Log!Cardinality, Cardinality

\* As many revisions are before the bound as decimals are.
LEMMA BelowFinite ==
  ASSUME TrackInv
  PROVE  /\ Cardinality(Below) \in Nat
         /\ Log!Taken = {String(r) : r \in Below}
         /\ Cardinality(Log!Taken) = Cardinality(Below)
<1>1. Log!Taken = {d \in Decimals : Rev(d) \in Below}
  BY LogRead DEF Log!Taken, LogOf, Rev
<1>2. \A r \in Below : String(r) \in Decimals /\ Rev(String(r)) = r
  BY RevisionsKnown, KnownFit DEF Below, TrackInv, Types, Known
<1>3. \A d \in Decimals : String(Rev(d)) = d
  BY KnownFit DEF Known
<1>4. Log!Taken = {String(r) : r \in Below}
  BY <1>1, <1>2, <1>3
<1>5. IsFiniteSet(Log!Taken)
  BY <1>1, ThingsAssumption, FS_Subset
<1>6. ExistsBijection(Log!Taken, Below)
  <2> DEFINE f == [d \in Log!Taken |-> Rev(d)]
  <2>1. f \in [Log!Taken -> Below]
    BY <1>1
  <2>2. \A c, d \in Log!Taken : f[c] = f[d] => c = d
    BY <1>1, <1>3
  <2>3. \A r \in Below : \E d \in Log!Taken : f[d] = r
    BY <1>2, <1>4
  <2>4. f \in Bijection(Log!Taken, Below)
    BY <2>1, <2>2, <2>3 DEF Bijection, Injection, Surjection, IsInjective
  <2> QED
    BY <2>4 DEF ExistsBijection
<1> QED
  BY <1>4, <1>5, <1>6, FS_Bijection, FS_CardinalityType

\* What is given has its type.
LEMMA GivenTyped ==
  ASSUME TrackInv, NEW revs \in Sorted(Below)
  PROVE  RevisionChanges(revs) \in Seq(Given)
<1>1. ASSUME NEW r \in Below
      PROVE  /\ r \in Revisions /\ recordForRevision(r) = NetOf(added[r])
             /\ NetOf(added[r]).touched \subseteq Things
             /\ NetOf(added[r]).deleted \subseteq Things
             /\ NetOf(added[r]).metadatas \subseteq Metadatas
  <2>1. r \in Revisions /\ recordForRevision(r) = NetOf(added[r]) /\ added[r] \subseteq Relevants
    BY DEF Below, TrackInv, Types, RecordsInv, recordForRevision
  <2>2. \A c \in Relevants : /\ c.op \in {"touch", "delete"} => c.item \in Things
                             /\ c.op = "metadata" => c.item \in Metadatas
    BY DEF Relevants
  <2>3. /\ ItemsOf("touch", added[r]) \subseteq Things
        /\ ItemsOf("delete", added[r]) \subseteq Things
        /\ ItemsOf("metadata", added[r]) \subseteq Metadatas
    BY <2>1, <2>2 DEF ItemsOf
  <2> QED
    BY <2>1, <2>3 DEF NetOf, changeRecord
<1>2. DOMAIN revs = 1..Cardinality(Below) /\ \A i \in DOMAIN revs : revs[i] \in Below
  BY DEF Sorted
<1>3. Cardinality(Below) \in Nat
  BY BelowFinite
<1>4. \A i \in DOMAIN revs : RevisionChanges(revs)[i] \in Given
  BY <1>1, <1>2 DEF RevisionChanges, Given
<1> QED
  BY <1>2, <1>3, <1>4 DEF RevisionChanges

\* Asking for changes, and listing and collecting them, keeps the invariant.
LEMMA TakeKeeps ==
  ASSUME TrackInv, Take
  PROVE  TrackInv'
<1>1. ASSUME NEW b \in Bounds, CallerAsks(HLCRevisionFromString(b)),
             IsEmpty(HLCRevisionFromString(b))
      PROVE  TrackInv'
  <2>1. /\ UNCHANGED <<records, changes, added>>
        /\ taker' = Taker(IF DOMAIN records = {} THEN "removing" ELSE "listing", Rev(b), {}, <<>>)
        /\ ~GreaterThan(taker.bound, Rev(b))
    BY <1>1 DEF CallerAsks, IsEmpty, takerLeaves, Rev
  <2>2. /\ taker'.at = IF DOMAIN records = {} THEN "removing" ELSE "listing"
        /\ taker'.bound = Rev(b) /\ taker'.revisions = {} /\ taker'.changes = <<>>
    BY <2>1 DEF Taker
  <2>3. Rev(b) \in {Rev(d) : d \in Known}
    BY DEF Known
  <2>4. Types'
    BY <2>1, <2>3 DEF TrackInv, Types, Taker
  <2>5. RecordsInv'
    BY <2>1 DEF TrackInv, RecordsInv, NetOf, ItemsOf
  <2>6. FreshInv'
    <3>1. ASSUME NEW r \in Revisions, GreaterThan(taker.bound, r) PROVE GreaterThan(Rev(b), r)
      <4>1. PICK d \in Decimals : r = Rev(d)
        BY RevisionsKnown
      <4>2. PICK c \in Known : taker.bound = Rev(c)
        BY RevisionsKnown
      <4>3. d \in Known /\ b \in Known
        BY DEF Known
      <4>4. Precedes(d, c) /\ ~Precedes(b, c)
        BY <2>1, <3>1, <4>1, <4>2, <4>3, SameOrder
      <4>5. b \in Decimal /\ c \in Decimal /\ d \in Decimal
        BY <4>3, KnownFit
      <4>6. Precedes(d, b)
        BY <4>4, <4>5 DEF Precedes, Decimal
      <4> QED
        BY <4>1, <4>3, <4>6, SameOrder
    <3> QED
      BY <2>1, <2>2, <3>1 DEF TrackInv, FreshInv
  <2>7. TakerInv'
    <3>1. CASE DOMAIN records # {}
      BY <2>2, <3>1 DEF TakerInv
    <3>2. CASE DOMAIN records = {}
      <4>1. Below' = {}
        BY <2>1, <3>2 DEF Below
      <4>2. <<>> \in Sorted({}) /\ <<>> = RevisionChanges(<<>>)'
        BY FS_EmptySet DEF Sorted, RevisionChanges
      <4> QED
        BY <2>2, <3>2, <4>1, <4>2 DEF TakerInv
    <3> QED
      BY <3>1, <3>2
  <2> QED
    BY <2>4, <2>5, <2>6, <2>7 DEF TrackInv
<1>2. ASSUME ListRevisions PROVE TrackInv'
  <2>1. /\ UNCHANGED <<records, changes, added>> /\ taker.at = "listing"
        /\ taker' = Taker(IF Below = {} THEN "removing" ELSE "collecting", taker.bound, Below, <<>>)
    BY <1>2 DEF ListRevisions, takerLeaves, Below
  <2>2. /\ taker'.at = IF Below = {} THEN "removing" ELSE "collecting"
        /\ taker'.bound = taker.bound /\ taker'.revisions = Below /\ taker'.changes = <<>>
    BY <2>1 DEF Taker
  <2>3. Below' = Below
    BY <2>1, <2>2 DEF Below
  <2>4. Types'
    BY <2>1 DEF TrackInv, Types, Below, Taker
  <2>5. RecordsInv' /\ FreshInv'
    BY <2>1, <2>2 DEF TrackInv, RecordsInv, FreshInv, NetOf, ItemsOf
  <2>6. <<>> \in Sorted({}) /\ <<>> = RevisionChanges(<<>>)'
    BY FS_EmptySet DEF Sorted, RevisionChanges
  <2>7. TakerInv'
    BY <2>2, <2>3, <2>6 DEF TakerInv
  <2> QED
    BY <2>4, <2>5, <2>7 DEF TrackInv
<1>3. ASSUME CollectChanges PROVE TrackInv'
  <2>1. /\ UNCHANGED <<records, changes, added>> /\ taker.at = "collecting"
        /\ \E revs \in Sorted(Below) :
             taker' = Taker("removing", taker.bound, {}, RevisionChanges(revs))
    BY <1>3 DEF CollectChanges, takerLeaves, TrackInv, TakerInv
  <2>2. PICK revs \in Sorted(Below) :
          taker' = Taker("removing", taker.bound, {}, RevisionChanges(revs))
    BY <2>1
  <2>3. Below' = Below /\ RevisionChanges(revs)' = RevisionChanges(revs)
    BY <2>1, <2>2 DEF Below, RevisionChanges, recordForRevision, Taker
  <2>4. RevisionChanges(revs) \in Seq(Given)
    BY GivenTyped
  <2>5. Types' /\ RecordsInv' /\ FreshInv'
    BY <2>1, <2>2, <2>4 DEF TrackInv, Types, RecordsInv, FreshInv, NetOf, ItemsOf, Taker, Given
  <2>6. TakerInv'
    BY <2>2, <2>3 DEF TakerInv, Taker
  <2> QED
    BY <2>5, <2>6 DEF TrackInv
<1>4. ASSUME removeAllChangesBefore PROVE TrackInv'
  <2>1. /\ UNCHANGED added /\ taker.at = "removing" /\ taker' = Taker("idle", taker.bound, {}, <<>>)
        /\ changes' = changes \o taker.changes
        /\ records' = [r \in Kept |-> records[r]]
    BY <1>4 DEF removeAllChangesBefore, takerLeaves
  <2>2. changes' \in Seq(Given)
    BY <2>1 DEF TrackInv, Types, Given
  <2>3. Types'
    BY <2>1, <2>2 DEF TrackInv, Types, Kept, Taker, Given
  <2>4. RecordsInv'
    BY <2>1 DEF TrackInv, RecordsInv, NetOf, ItemsOf, Kept
  <2>5. FreshInv'
    BY <2>1 DEF TrackInv, FreshInv, Kept, Taker
  <2>6. TakerInv'
    BY <2>1 DEF TakerInv, Below, Kept, Taker
  <2> QED
    BY <2>3, <2>4, <2>5, <2>6 DEF TrackInv
<1> QED
  BY <1>1, <1>2, <1>3, <1>4 DEF Take

----------------------------------------------------------------------------
\* What was taken, as the log has it.
Texts(given) == [i \in DOMAIN given |-> [given[i] EXCEPT !.revision = String(@)]]

\* The texts of what was given first and of what was given then.
LEMMA TextsAppended ==
  ASSUME NEW s \in Seq(Given), NEW t \in Seq(Given)
  PROVE  Texts(s \o t) = Texts(s) \o Texts(t)
<1> DEFINE Any == {Texts(s)[i] : i \in DOMAIN s} \cup {Texts(t)[i] : i \in DOMAIN t}
<1>1. /\ DOMAIN s = 1..Len(s) /\ DOMAIN t = 1..Len(t)
      /\ Len(s) \in Nat /\ Len(t) \in Nat
  BY LenProperties
<1>2. /\ DOMAIN (s \o t) = 1..(Len(s) + Len(t))
      /\ \A i \in 1..(Len(s) + Len(t)) : (s \o t)[i] = IF i <= Len(s) THEN s[i] ELSE t[i - Len(s)]
  BY <1>1, ConcatProperties, LenProperties
<1>3. /\ Texts(s) \in Seq(Any) /\ Len(Texts(s)) = Len(s)
      /\ Texts(t) \in Seq(Any) /\ Len(Texts(t)) = Len(t)
  <2>1. /\ Texts(s) \in [1..Len(s) -> Any] /\ Texts(t) \in [1..Len(t) -> Any]
    BY <1>1 DEF Texts
  <2> HIDE DEF Any
  <2>2. ASSUME NEW n \in Nat, NEW f \in [1..n -> Any]
        PROVE  f \in Seq(Any) /\ Len(f) = n
    OBVIOUS
  <2> QED
    BY <1>1, <2>1, <2>2
<1> HIDE DEF Any
<1>4. /\ DOMAIN (Texts(s) \o Texts(t)) = 1..(Len(s) + Len(t))
      /\ \A i \in 1..(Len(s) + Len(t)) :
           (Texts(s) \o Texts(t))[i] = IF i <= Len(s) THEN Texts(s)[i] ELSE Texts(t)[i - Len(s)]
      /\ Texts(s) \o Texts(t) = [i \in 1..(Len(s) + Len(t)) |-> (Texts(s) \o Texts(t))[i]]
  <2>1. /\ Texts(s) \o Texts(t) \in Seq(Any)
        /\ Len(Texts(s) \o Texts(t)) = Len(s) + Len(t)
        /\ \A i \in 1..(Len(s) + Len(t)) :
             (Texts(s) \o Texts(t))[i] = IF i <= Len(s) THEN Texts(s)[i] ELSE Texts(t)[i - Len(s)]
    <3> DEFINE u == Texts(s)
               v == Texts(t)
    <3>1. u \in Seq(Any) /\ v \in Seq(Any) /\ Len(u) = Len(s) /\ Len(v) = Len(t)
      BY <1>3
    <3> HIDE DEF u, v
    <3>2. /\ u \o v \in Seq(Any)
          /\ Len(u \o v) = Len(u) + Len(v)
          /\ \A i \in 1..(Len(u) + Len(v)) :
               (u \o v)[i] = IF i <= Len(u) THEN u[i] ELSE v[i - Len(u)]
      BY <3>1, ConcatProperties, Zenon
    <3> QED
      BY <3>1, <3>2 DEF u, v
  <2>2. Texts(s) \o Texts(t) \in [1..(Len(s) + Len(t)) -> Any]
    BY <2>1, LenProperties
  <2> QED
    BY <2>1, <2>2
<1>5. ASSUME NEW i \in 1..(Len(s) + Len(t))
      PROVE  Texts(s \o t)[i] = (Texts(s) \o Texts(t))[i]
  <2>1. Texts(s \o t)[i] = [(s \o t)[i] EXCEPT !.revision = String(@)]
    BY <1>2 DEF Texts
  <2>2. CASE i <= Len(s)
    <3>1. i \in DOMAIN s
      BY <1>1, <2>2
    <3> QED
      BY <1>2, <1>4, <2>1, <2>2, <3>1 DEF Texts
  <2>3. CASE ~(i <= Len(s))
    <3>1. i - Len(s) \in DOMAIN t
      BY <1>1, <2>3
    <3> QED
      BY <1>2, <1>4, <2>1, <2>3, <3>1 DEF Texts
  <2> QED
    BY <2>2, <2>3
<1> QED
  BY <1>2, <1>4, <1>5 DEF Texts

\* Removing what was collected takes it from the log.
LEMMA RemovingTakes ==
  ASSUME TrackInv, removeAllChangesBefore
  PROVE  Log!Take
<1>1. /\ UNCHANGED added /\ taker.at = "removing" /\ taker' = Taker("idle", taker.bound, {}, <<>>)
      /\ changes' = changes \o taker.changes
      /\ DOMAIN records' = Kept
  BY DEF removeAllChangesBefore, takerLeaves
<1>2. PICK revs \in Sorted(Below) : taker.changes = RevisionChanges(revs)
  BY <1>1 DEF TrackInv, TakerInv
<1>3. /\ DOMAIN revs = 1..Cardinality(Below) /\ \A i \in DOMAIN revs : revs[i] \in Below
      /\ \A i, j \in DOMAIN revs : i < j => HLCKeyLessThanFunc(revs[i], revs[j])
  BY <1>2 DEF Sorted
<1> DEFINE texts == [i \in DOMAIN revs |-> String(revs[i])]
<1>4. ASSUME NEW i \in DOMAIN revs
      PROVE  texts[i] \in Log!Taken /\ texts[i] \in Decimals /\ Rev(texts[i]) = revs[i]
  <2>1. texts[i] \in Log!Taken
    BY <1>3, BelowFinite
  <2>2. revs[i] \in Revisions
    BY <1>3 DEF Below, TrackInv, Types
  <2>3. PICK d \in Decimals : revs[i] = Rev(d)
    BY <2>2, RevisionsKnown
  <2> QED
    BY <2>1, <2>3, KnownFit DEF Known
<1>5. texts \in Log!InOrder(Log!Taken)
  <2>1. texts \in [1..Cardinality(Log!Taken) -> Log!Taken]
    BY <1>3, <1>4, BelowFinite
  <2>2. ASSUME NEW i \in DOMAIN texts, NEW j \in DOMAIN texts, i < j
        PROVE  Precedes(texts[i], texts[j])
    <3>1. HLCKeyLessThanFunc(Rev(texts[i]), Rev(texts[j]))
      BY <1>3, <1>4, <2>2
    <3>2. texts[i] \in Known /\ texts[j] \in Known
      BY <1>4, <2>2 DEF Known
    <3> QED
      BY <3>1, <3>2, SameOrder
  <2> HIDE DEF texts
  <2>3. texts \in {s \in [1..Cardinality(Log!Taken) -> Log!Taken] :
                    \A i, j \in DOMAIN s : i < j => Precedes(s[i], s[j])}
    BY <2>1, <2>2
  <2> QED
    BY <2>3, SameCardinality, Zenon DEF Log!InOrder
<1>6. ASSUME NEW i \in DOMAIN revs
      PROVE  Texts(RevisionChanges(revs))[i] = Log!Net(texts[i], LogOf[texts[i]])
  <2>1. revs[i] \in DOMAIN records
    BY <1>3 DEF Below
  <2>2. LogOf[texts[i]] = added[revs[i]] /\ recordForRevision(revs[i]) = NetOf(added[revs[i]])
    BY <1>4, <2>1 DEF LogOf, TrackInv, RecordsInv, recordForRevision
  <2>3. Texts(RevisionChanges(revs))[i] =
          [revision |-> String(revs[i]), touched |-> NetOf(added[revs[i]]).touched,
           deleted |-> NetOf(added[revs[i]]).deleted, metadatas |-> NetOf(added[revs[i]]).metadatas]
    BY <2>2 DEF Texts, RevisionChanges
  <2> QED
    BY <2>2, <2>3 DEF NetOf, changeRecord, Log!Net, ItemsOf
<1>7. Texts(changes') = Texts(changes) \o Texts(RevisionChanges(revs))
  BY <1>1, <1>2, TextsAppended, GivenTyped DEF TrackInv, Types
<1>8. Texts(RevisionChanges(revs)) = [i \in DOMAIN texts |-> Log!Net(texts[i], LogOf[texts[i]])]
  <2>1. /\ DOMAIN Texts(RevisionChanges(revs)) = DOMAIN revs
        /\ Texts(RevisionChanges(revs)) =
             [i \in DOMAIN revs |-> Texts(RevisionChanges(revs))[i]]
    BY DEF Texts, RevisionChanges
  <2> QED
    BY <1>6, <2>1
<1>9. LogOf' = [d \in Decimals |-> IF d \in Log!Taken THEN {} ELSE LogOf[d]]
  <2>1. ASSUME NEW d \in Decimals
        PROVE  LogOf'[d] = IF d \in Log!Taken THEN {} ELSE LogOf[d]
    <3>1. d \in Log!Taken <=> Rev(d) \in Below
      BY LogRead DEF Log!Taken, LogOf, Rev
    <3>2. Rev(d) \in DOMAIN records' <=> Rev(d) \in DOMAIN records \ Below
      BY <1>1 DEF Kept, Below
    <3> QED
      BY <1>1, <3>1, <3>2 DEF LogOf, Below
  <2> QED
    BY <2>1 DEF LogOf
<1>10. taker'.bound = taker.bound
  BY <1>1 DEF Taker
<1> QED
  BY <1>5, <1>7, <1>8, <1>9, <1>10 DEF Log!Take, LogOf, Texts, Rev

\* Every other section of taking changes is asking for them, or no step of the log.
LEMMA TakeRefines ==
  ASSUME TrackInv, Take
  PROVE  [Log!Next]_Log!logVars
<1>1. ASSUME NEW b \in Bounds, CallerAsks(HLCRevisionFromString(b)),
             IsEmpty(HLCRevisionFromString(b))
      PROVE  Log!AskBefore
  <2>1. /\ UNCHANGED <<records, changes, added>> /\ taker'.bound = Rev(b)
        /\ ~GreaterThan(taker.bound, Rev(b))
    BY <1>1 DEF CallerAsks, IsEmpty, takerLeaves, Rev, Taker
  <2>2. b \in Known /\ String(Rev(b)) = b
    BY KnownFit DEF Known
  <2>3. ~Precedes(b, String(taker.bound))
    BY <2>1, <2>2, RevisionsKnown, SameOrder, KnownFit
  <2> QED
    BY <2>1, <2>2, <2>3 DEF Log!AskBefore
<1>2. ASSUME ListRevisions \/ CollectChanges PROVE UNCHANGED Log!logVars
  BY <1>2 DEF ListRevisions, CollectChanges, takerLeaves, Taker, Log!logVars
<1>3. ASSUME removeAllChangesBefore PROVE Log!Take
  BY <1>3, RemovingTakes
<1> QED
  BY <1>1, <1>2, <1>3 DEF Take, Log!Next

----------------------------------------------------------------------------
\* An empty tracker is an empty log.
LEMMA InitRefines ==
  ASSUME Init
  PROVE  TrackInv /\ Log!Init
<1>1. /\ DOMAIN records = {} /\ records = <<>> /\ changes = <<>>
      /\ taker.at = "idle" /\ taker.bound = Rev(NoBound) /\ taker.revisions = {}
      /\ added = [r \in Revisions |-> {}]
  BY NoBoundRev DEF Init, Taker
<1>2. Types
  BY <1>1 DEF Init, Types, Taker, Known
<1>3. TrackInv
  BY <1>1, <1>2 DEF TrackInv, RecordsInv, FreshInv, TakerInv, Below
<1>4. String(taker.bound) = NoBound
  BY <1>1, KnownFit DEF Known
<1> QED
  BY <1>1, <1>3, <1>4 DEF Log!Init

\* A step keeps the invariant, and is a step of the log or none.
LEMMA NextRefines ==
  ASSUME TrackInv, [Next]_vars
  PROVE  TrackInv' /\ [Log!Next]_Log!logVars
<1>1. ASSUME NEW rev \in Revisions, CallerAdds(rev),
             AddRelationshipChange(rev) \/ AddSchemaChange(rev) \/ AddRevisionMetadata(rev)
      PROVE  TrackInv' /\ Log!Next
  BY <1>1, CallsAddNet, AddKeeps, AddRefines
<1>2. CASE Take
  BY <1>2, TakeKeeps, TakeRefines
<1>3. CASE UNCHANGED vars
  <2>1. Types' /\ RecordsInv' /\ FreshInv'
    BY <1>3 DEF vars, TrackInv, Types, RecordsInv, FreshInv, NetOf, ItemsOf
  <2>2. Below' = Below /\ \A revs : RevisionChanges(revs)' = RevisionChanges(revs)
    BY <1>3 DEF vars, Below, RevisionChanges, recordForRevision
  <2>3. TakerInv'
    BY <1>3, <2>2 DEF vars, TrackInv, TakerInv
  <2>4. UNCHANGED Log!logVars
    BY <1>3 DEF vars, Log!logVars
  <2> QED
    BY <2>1, <2>3, <2>4 DEF TrackInv
<1> QED
  BY <1>1, <1>2, <1>3 DEF Next

\* Taking changes in four sections, while others are added, is taking them at
\* once: for any tracker, changes and limit, and any revisions whose logical
\* clocks fit (changes.go:297-386).
THEOREM TakingIsAtOnce == Spec => TakesAtOnce
<1>1. Init => TrackInv /\ Log!Init
  BY InitRefines
<1>2. TrackInv /\ [Next]_vars => TrackInv' /\ [Log!Next]_Log!logVars
  BY NextRefines
<1> QED
  BY <1>1, <1>2, PTL DEF Spec, TakesAtOnce, Log!Spec

----------------------------------------------------------------------------
\* What is netted out is both touched and deleted of nothing, and is something.
LEMMA NetTyped ==
  ASSUME NEW cs \in SUBSET Relevants, cs # {}
  PROVE  /\ NetOf(cs).touched \cup NetOf(cs).deleted \subseteq Things
         /\ NetOf(cs).touched \cap NetOf(cs).deleted = {}
         /\ NetOf(cs) # NoChange
<1>1. \A c \in Relevants : c.op \in {"touch", "delete", "metadata"}
                           /\ (c.op # "metadata" => c.item \in Things)
  BY DEF Relevants
<1>2. ItemsOf("touch", cs) \cup ItemsOf("delete", cs) \subseteq Things
  BY <1>1 DEF ItemsOf
<1>3. PICK c \in cs : TRUE
  OBVIOUS
<1>4. \/ c.item \in ItemsOf("touch", cs)
      \/ c.item \in ItemsOf("delete", cs)
      \/ c.item \in ItemsOf("metadata", cs)
  BY <1>1, <1>3 DEF ItemsOf
<1>5. NetOf(cs) # NoChange
  BY <1>4 DEF NetOf, NoChange, changeRecord
<1> QED
  BY <1>2, <1>5 DEF NetOf, changeRecord

\* A record has a thing once, as touched or as deleted, and is never empty; and
\* nothing is tracked before a bound once its changes are taken
\* (changes.go:119-141, 166-184, 362-372).
THEOREM TrackerTyped == Spec => []TypeOK
<1>1. TrackInv => TypeOK
  <2> SUFFICES ASSUME TrackInv PROVE TypeOK
    OBVIOUS
  <2>1. ASSUME NEW r \in DOMAIN records
        PROVE  /\ records[r].touched \cup records[r].deleted \subseteq Things
               /\ records[r].touched \cap records[r].deleted = {}
               /\ records[r] # NoChange
    <3>1. added[r] \in SUBSET Relevants /\ added[r] # {} /\ records[r] = NetOf(added[r])
      BY DEF TrackInv, Types, RecordsInv
    <3> QED
      BY <3>1, NetTyped
  <2>2. taker.revisions \subseteq DOMAIN records
    BY DEF TrackInv, TakerInv, Below
  <2>3. taker.at = "idle" => \A r \in DOMAIN records : ~GreaterThan(taker.bound, r)
    BY DEF TrackInv, TakerInv, Below
  <2>4. DOMAIN records \subseteq Revisions
    BY DEF TrackInv, Types
  <2> QED
    BY <2>1, <2>2, <2>3, <2>4 DEF TypeOK
<1>2. Init => TrackInv
  BY InitRefines
<1>3. TrackInv /\ [Next]_vars => TrackInv'
  BY NextRefines
<1> QED
  BY <1>1, <1>2, <1>3, PTL DEF Spec

----------------------------------------------------------------------------
\* What a record at a revision holds.
LEMMA HeldThings ==
  \A b : b \in Held <=> \E r \in DOMAIN records : \E i \in Counted(records[r]) :
                          \E n \in 1..Size[i] : b = <<<<r, i>>, n>>
  BY DEF Held

\* The bytes of a thing at a revision.
BytesAt(r, i, k) == {<<r, i>>} \X (1..k)

\* A thing that is held at a revision takes as many bytes as its size.
LEMMA BytesOf ==
  ASSUME NEW r, NEW i, NEW k \in Nat
  PROVE  IsFiniteSet(BytesAt(r, i, k)) /\ Cardinality(BytesAt(r, i, k)) = k
<1> DEFINE S == BytesAt(r, i, k)
           f == [n \in 1..k |-> <<<<r, i>>, n>>]
<1>1. f \in Bijection(1..k, S)
  <2>1. f \in [1..k -> S]
    BY DEF BytesAt
  <2>2. \A m, n \in 1..k : f[m] = f[n] => m = n
    OBVIOUS
  <2>3. \A b \in S : \E n \in 1..k : f[n] = b
    BY DEF BytesAt
  <2> QED
    BY <2>1, <2>2, <2>3 DEF Bijection, Injection, Surjection, IsInjective
<1>2. ExistsBijection(1..k, S)
  BY <1>1 DEF ExistsBijection
<1> QED
  BY <1>2, FS_NatBijection, FS_CountingElements

\* The size that is kept counts all that is held, and is within the limit unless
\* a call was refused.
SizeInv ==
  /\ currentByteSize \in Nat
  /\ IsFiniteSet(Held)
  /\ MaxByteSize # 0 => Cardinality(Held) <= currentByteSize
  /\ MaxByteSize # 0 /\ ~refused => currentByteSize <= MaxByteSize

\* What is held grows by no more than the size that is added.
LEMMA Grows ==
  ASSUME SizeInv, NEW k \in Nat, NEW r, NEW i, Held' \subseteq Held \cup BytesAt(r, i, k),
         adjustByteSize(k)
  PROVE  SizeInv'
<1> DEFINE T == BytesAt(r, i, k)
<1>1. IsFiniteSet(T) /\ Cardinality(T) = k
  BY BytesOf
<1> HIDE DEF T
<1>2. /\ IsFiniteSet(Held \cup T)
      /\ Cardinality(Held \cup T) = Cardinality(Held) + k - Cardinality(Held \cap T)
      /\ IsFiniteSet(Held \cap T) /\ IsFiniteSet(Held)
  BY <1>1, FS_Union, FS_Intersection DEF T, SizeInv
<1>3. Cardinality(Held) \in Nat /\ Cardinality(Held \cap T) \in Nat
  BY <1>2, FS_CardinalityType
<1>4. /\ IsFiniteSet(Held') /\ Cardinality(Held') <= Cardinality(Held \cup T)
      /\ Cardinality(Held') \in Nat
  BY <1>2, FS_Subset, FS_CardinalityType DEF T
<1>5. Cardinality(Held') <= Cardinality(Held) + k
  BY <1>2, <1>3, <1>4
<1>6. /\ currentByteSize' = IF MaxByteSize = 0 THEN 0 ELSE currentByteSize + k
      /\ MaxByteSize # 0 /\ ~refused' => ~(currentByteSize' > MaxByteSize)
  BY Zenon DEF adjustByteSize
<1> QED
  BY <1>3, <1>4, <1>5, <1>6, ThingsAssumption DEF SizeInv

\* What is held does not grow and no size is added.
LEMMA KeepsSize ==
  ASSUME SizeInv, Held' \subseteq Held, UNCHANGED <<currentByteSize, refused>> \/ adjustByteSize(0)
  PROVE  SizeInv'
<1>1. CASE adjustByteSize(0)
  BY <1>1, Grows
<1>2. CASE UNCHANGED <<currentByteSize, refused>>
  <2>1. /\ IsFiniteSet(Held') /\ Cardinality(Held') <= Cardinality(Held)
        /\ Cardinality(Held') \in Nat /\ Cardinality(Held) \in Nat
    BY FS_Subset, FS_CardinalityType DEF SizeInv
  <2> QED
    BY <1>2, <2>1, ThingsAssumption DEF SizeInv
<1> QED
  BY <1>1, <1>2

\* A record that is replaced: what counts of it and did not count before is all
\* that is new.
LEMMA HeldOf ==
  ASSUME NEW rev, NEW record, records' = WithRecord(rev, record), NEW x,
         Counted(record) \subseteq Counted(recordForRevision(rev)) \cup x
  PROVE  \A b \in Held' : b \in Held \/ \E i \in x : b \in BytesAt(rev, i, Size[i])
<1>1. /\ DOMAIN records' = DOMAIN records \cup {rev}
      /\ records'[rev] = record
      /\ \A r \in DOMAIN records \ {rev} : records'[r] = records[r]
  BY DEF WithRecord
<1>2. Counted(recordForRevision(rev)) = IF rev \in DOMAIN records THEN Counted(records[rev]) ELSE {}
  BY DEF recordForRevision, Counted, NoChange, changeRecord
<1>3. ASSUME NEW b \in Held'
      PROVE  b \in Held \/ \E i \in x : b \in BytesAt(rev, i, Size[i])
  <2>1. PICK r \in DOMAIN records' : \E i \in Counted(records'[r]) :
               \E n \in 1..Size[i] : b = <<<<r, i>>, n>>
    BY <1>3 DEF Held, Counted
  <2>2. PICK i \in Counted(records'[r]) : \E n \in 1..Size[i] : b = <<<<r, i>>, n>>
    BY <2>1
  <2>3. CASE r # rev
    BY <1>1, <2>1, <2>2, <2>3, HeldThings
  <2>4. CASE r = rev /\ i \in x
    BY <2>2, <2>4 DEF BytesAt
  <2>5. CASE r = rev /\ i \notin x
    BY <1>1, <1>2, <2>2, <2>5, HeldThings
  <2> QED
    BY <2>3, <2>4, <2>5
<1> QED
  BY <1>3

\* What counts of a record.
LEMMA CountedOf ==
  ASSUME NEW t, NEW d, NEW m
  PROVE  Counted(changeRecord(t, d, m)) = t \cup (d \cap Rels)
BY DEF Counted, changeRecord

\* A call that adds keeps the account.
LEMMA AddKeepsSize ==
  ASSUME SizeInv, NEW rev \in Revisions,
         AddRelationshipChange(rev) \/ AddSchemaChange(rev) \/ AddRevisionMetadata(rev)
  PROVE  SizeInv'
<1> DEFINE record == recordForRevision(rev)
<1>1. Counted(record) = record.touched \cup (record.deleted \cap Rels)
  BY DEF Counted
<1>2. ASSUME NEW new, records' = WithRecord(rev, new), Counted(new) \subseteq Counted(record),
             UNCHANGED <<currentByteSize, refused>> \/ adjustByteSize(0)
      PROVE  SizeInv'
  <2>1. Held' \subseteq Held
    <3> DEFINE x == {}
    <3>1. Counted(new) \subseteq Counted(recordForRevision(rev)) \cup x
      BY <1>2
    <3> HIDE DEF x
    <3>2. \A b \in Held' : b \in Held \/ \E i \in x : b \in BytesAt(rev, i, Size[i])
      BY <1>2, <3>1, HeldOf
    <3> QED
      BY <3>2 DEF x
  <2> QED
    BY <1>2, <2>1, KeepsSize
<1>3. ASSUME NEW new, NEW item \in Things, records' = WithRecord(rev, new),
             Counted(new) \subseteq Counted(record) \cup {item}, adjustByteSize(Size[item])
      PROVE  SizeInv'
  <2>1. Held' \subseteq Held \cup BytesAt(rev, item, Size[item])
    <3> DEFINE x == {item}
    <3>1. Counted(new) \subseteq Counted(recordForRevision(rev)) \cup x
      BY <1>3
    <3> HIDE DEF x
    <3>2. \A b \in Held' : b \in Held \/ \E i \in x : b \in BytesAt(rev, i, Size[i])
      BY <1>3, <3>1, HeldOf
    <3> QED
      BY <3>2 DEF x
  <2>2. Size[item] \in Nat
    BY ThingsAssumption
  <2> QED
    BY <1>3, <2>1, <2>2, Grows
<1>4. ASSUME NEW rel \in Rels, Touch(rev, rel)
      PROVE  SizeInv'
  <2> DEFINE new == changeRecord(record.touched \cup {rel}, record.deleted \ {rel}, record.metadatas)
  <2>1. /\ records' = WithRecord(rev, new)
        /\ adjustByteSize(IF rel \in record.deleted THEN 0 ELSE Size[rel])
    BY <1>4 DEF Touch
  <2>2. Counted(new) = (record.touched \cup {rel}) \cup ((record.deleted \ {rel}) \cap Rels)
    BY CountedOf
  <2> HIDE DEF new, record
  <2>3. CASE rel \in record.deleted
    BY <1>1, <1>2, <2>1, <2>2, <2>3
  <2>4. CASE rel \notin record.deleted
    <3>1. Counted(new) \subseteq Counted(record) \cup {rel}
      BY <1>1, <2>2
    <3> QED
      BY <1>3, <2>1, <2>4, <3>1 DEF Things
  <2> QED
    BY <2>3, <2>4
<1>5. ASSUME NEW rel \in Rels, Delete(rev, rel)
      PROVE  SizeInv'
  <2> DEFINE new == changeRecord(record.touched, record.deleted \cup {rel}, record.metadatas)
  <2>1. IF rel \in record.touched
        THEN records' = WithRecord(rev, record) /\ adjustByteSize(0)
        ELSE records' = WithRecord(rev, new) /\ adjustByteSize(Size[rel])
    BY <1>5 DEF Delete
  <2>2. Counted(new) = record.touched \cup ((record.deleted \cup {rel}) \cap Rels)
    BY CountedOf
  <2> HIDE DEF new, record
  <2>3. CASE rel \in record.touched
    BY <1>2, <2>1, <2>3
  <2>4. CASE rel \notin record.touched
    <3>1. Counted(new) \subseteq Counted(record) \cup {rel}
      BY <1>1, <2>2
    <3> QED
      BY <1>3, <2>1, <2>4, <3>1 DEF Things
  <2> QED
    BY <2>3, <2>4
<1>6. ASSUME NEW name \in Namespaces \cup Caveats, AddDeleted(rev, name)
      PROVE  SizeInv'
  <2> DEFINE new == changeRecord(record.touched, record.deleted \cup {name}, record.metadatas)
  <2>1. /\ records' = WithRecord(rev, IF name \in record.touched THEN record ELSE new)
        /\ UNCHANGED <<currentByteSize, refused>>
    BY <1>6 DEF AddDeleted
  <2>2. Counted(new) = record.touched \cup ((record.deleted \cup {name}) \cap Rels)
    BY CountedOf
  <2>3. name \notin Rels
    BY ThingsAssumption
  <2> HIDE DEF new, record
  <2>4. Counted(new) \subseteq Counted(record)
    BY <1>1, <2>2, <2>3
  <2>5. CASE name \in record.touched
    BY <1>2, <2>1, <2>5
  <2>6. CASE name \notin record.touched
    BY <1>2, <2>1, <2>4, <2>6
  <2> QED
    BY <2>5, <2>6
<1>7. ASSUME NEW name \in Namespaces \cup Caveats, AddChangedDefinition(rev, name)
      PROVE  SizeInv'
  <2> DEFINE new == changeRecord(record.touched \cup {name}, record.deleted \ {name}, record.metadatas)
  <2>1. /\ records' = WithRecord(rev, new)
        /\ adjustByteSize(IF name \in Namespaces \cap record.touched THEN 0 ELSE Size[name])
    BY <1>7 DEF AddChangedDefinition
  <2>2. Counted(new) = (record.touched \cup {name}) \cup ((record.deleted \ {name}) \cap Rels)
    BY CountedOf
  <2> HIDE DEF new, record
  <2>3. CASE name \in Namespaces \cap record.touched
    BY <1>1, <1>2, <2>1, <2>2, <2>3
  <2>4. CASE name \notin Namespaces \cap record.touched
    <3>1. Counted(new) \subseteq Counted(record) \cup {name}
      BY <1>1, <2>2
    <3> QED
      BY <1>3, <2>1, <2>4, <3>1 DEF Things
  <2> QED
    BY <2>3, <2>4
<1>8. ASSUME NEW metadata \in Metadatas,
             records' = WithRecord(rev, changeRecord(record.touched, record.deleted,
                                                     record.metadatas \cup {metadata})),
             UNCHANGED <<currentByteSize, refused>>
      PROVE  SizeInv'
  BY <1>1, <1>2, <1>8, CountedOf
<1> HIDE DEF record
<1> QED
  BY <1>4, <1>5, <1>6, <1>7, <1>8
  DEF AddRelationshipChange, AddSchemaChange, AddRevisionMetadata, record

\* A tracker that refused no change holds no more than its limit, however its
\* changes come and are taken (changes.go:66-141, 362-372).
THEOREM LimitKept == Spec => []LimitHolds
<1>1. Init => SizeInv
  <2> SUFFICES ASSUME Init PROVE SizeInv
    OBVIOUS
  <2>1. Held = {} /\ currentByteSize = 0
    BY DEF Init, Held
  <2> QED
    BY <2>1, FS_EmptySet, ThingsAssumption DEF SizeInv
<1>2. SizeInv /\ [Next]_vars => SizeInv'
  <2> SUFFICES ASSUME SizeInv, [Next]_vars PROVE SizeInv'
    OBVIOUS
  <2>1. ASSUME NEW rev \in Revisions,
               AddRelationshipChange(rev) \/ AddSchemaChange(rev) \/ AddRevisionMetadata(rev)
        PROVE  SizeInv'
    BY <2>1, AddKeepsSize
  <2>2. CASE removeAllChangesBefore
    <3>1. /\ records' = [r \in Kept |-> records[r]] /\ Kept \subseteq DOMAIN records
          /\ UNCHANGED <<currentByteSize, refused>>
      BY <2>2 DEF removeAllChangesBefore, takerLeaves, Kept
    <3>2. Held' \subseteq Held
      BY <3>1 DEF Held, Counted
    <3> QED
      BY <3>1, <3>2, KeepsSize
  <2>3. CASE UNCHANGED <<records, currentByteSize, refused>>
    <3>1. Held' = Held
      BY <2>3 DEF Held, Counted
    <3> QED
      BY <2>3, <3>1, KeepsSize
  <2>4. CASE Take
    BY <2>2, <2>3, <2>4 DEF Take, IsEmpty, ListRevisions, CollectChanges, takerLeaves
  <2>5. CASE UNCHANGED vars
    BY <2>3, <2>5 DEF vars
  <2> QED
    BY <2>1, <2>4, <2>5 DEF Next
<1>3. SizeInv => LimitHolds
  <2> SUFFICES ASSUME SizeInv, MaxByteSize # 0
               PROVE  Cardinality(Held) <= currentByteSize
                      /\ (~refused => Cardinality(Held) <= MaxByteSize)
    BY DEF LimitHolds
  <2>1. Cardinality(Held) \in Nat
    BY FS_CardinalityType DEF SizeInv
  <2> QED
    BY <2>1, ThingsAssumption DEF SizeInv
<1> QED
  BY <1>1, <1>2, <1>3, PTL DEF Spec

=============================================================================
