------------------------------- MODULE MemDB -------------------------------
(***************************************************************************)
(* The in-memory datastore of internal/datastore/memdb: concurrent         *)
(* ReadWriteTx calls, Close, and what a reader of a revision is given.     *)
(*                                                                         *)
(* go-memdb is a persistent tree: every commit publishes a new root and    *)
(* the old roots stay readable.  roots is the sequence of the roots        *)
(* published so far, so the live database is roots[Len(roots)] and a       *)
(* Snapshot() is an index into roots.                                      *)
(***************************************************************************)
EXTENDS Naturals, Sequences, FiniteSets

CONSTANTS
  Writers,      \* goroutines that call ReadWriteTx, one call after another
  Rels,         \* keys of the relationship table
  Defs,         \* keys of the namespace and caveat tables
  NamespaceOf,  \* the namespace a relationship's resource belongs to
  Payloads,     \* what a row carries beside its key
  Absent,       \* no row under a key
  Untouched,    \* a key a transaction has not read, or not changed
  NoWriter,     \* nobody holds a lock; no active write transaction
  ClockSteps,   \* how far the wall clock moves between two readings
  NumAttempts,  \* numAttempts
  GCWindow,     \* gcWindow
  Quantum,      \* quantizationPeriod
  MayBeEmpty,   \* may a transaction body return without using rwt?
  MaxCalls,     \* bound: calls of ReadWriteTx
  MaxCloses     \* bound: calls of Close

Keys == Rels \cup Defs
Cells == Payloads \cup {Absent}
Deltas == Cells \cup {Untouched}
Live == 0       \* the db of a snapshot entry that holds the live database

ASSUME ValuesAssumption ==
  /\ Absent \notin Payloads
  /\ Untouched \notin Cells
  /\ NoWriter \notin Writers
  /\ NamespaceOf \in [Rels -> Defs]
  /\ Rels \cap Defs = {}

ASSUME NumbersAssumption ==
  /\ ClockSteps \subseteq Nat
  /\ ClockSteps # {}
  /\ NumAttempts \in Nat \ {0}
  /\ GCWindow \in Nat
  /\ Quantum \in Nat \ {0}
  /\ Quantum <= GCWindow \/ Quantum = 1
  /\ MayBeEmpty \in BOOLEAN
  /\ MaxCalls \in Nat
  /\ MaxCloses \in Nat

VARIABLES
  isOpen,         \* mdb.db # nil
  revisions,      \* mdb.revisions
  activeWriteTxn, \* mdb.activeWriteTxn: the writer whose transaction it is
  lock,           \* who keeps mdb.RWMutex write-locked across steps
  roots,          \* the roots published so far
  writerMutex,    \* go-memdb's own writer mutex
  clock,          \* the wall clock, in nanoseconds
  closes,         \* calls of Close so far
  pc,             \* where each writer's ReadWriteTx call is
  calls,          \* calls of ReadWriteTx begun so far
  attempt,        \* the retry loop's index, from 1
  newRevision,    \* newRevision of the running attempt
  tx,             \* tx of the running attempt
  acked           \* revisions returned to callers, with the root they acknowledge

dbVars   == <<isOpen, revisions, activeWriteTxn, lock, closes>>
memVars  == <<roots, writerMutex>>
callVars == <<pc, attempt, newRevision, tx>>
vars == <<dbVars, memVars, clock, calls, callVars, acked>>
allButPc == <<dbVars, memVars, clock, calls, attempt, newRevision, tx, acked>>

(***************************************************************************)
(* Shapes                                                                  *)
(***************************************************************************)
Entry == [revision : Nat, changes : [Keys -> Deltas]]

\* A root: its tables, and which transaction published it (its revision,
\* what it observed before writing, and its net changes).
Root == [rows : [Keys -> Cells], changelog : SUBSET Entry,
         revision : Nat, reads : [Keys -> Deltas], changes : [Keys -> Deltas]]

\* An attempt's transaction: base is the root it started from, 0 for nil.
Tx == [base : Nat, rows : [Keys -> Cells], touched : SUBSET Keys,
       reads : [Keys -> Deltas]]

\* An entry of revisions; an acknowledgement, by the number of its root.
Snapshot == [revision : Nat, db : Nat]
Ack == [revision : Nat, root : Nat]

EmptyRows == [k \in Keys |-> Absent]
NoDelta   == [k \in Keys |-> Untouched]
NoTx == [base |-> 0, rows |-> EmptyRows, touched |-> {}, reads |-> NoDelta]

InTx(w) == tx[w].base # 0
Current == roots[Len(roots)]

TypeOK ==
  /\ isOpen \in BOOLEAN
  /\ revisions \in Seq(Snapshot)
  /\ activeWriteTxn \in Writers \cup {NoWriter}
  /\ lock \in Writers \cup {NoWriter}
  /\ roots \in Seq(Root) /\ roots # <<>>
  /\ writerMutex \in Writers \cup {NoWriter}
  /\ clock \in Nat
  /\ closes \in Nat
  /\ pc \in [Writers -> {"idle", "body", "conflict", "opening", "intx",
                         "returned", "failed", "panicked"}]
  /\ calls \in Nat
  /\ attempt \in [Writers -> Nat]
  /\ newRevision \in [Writers -> Nat]
  /\ tx \in [Writers -> Tx] /\ \A w \in Writers : tx[w].base <= Len(roots)
  /\ acked \subseteq Ack

----------------------------------------------------------------------------
(***************************************************************************)
(* Revisions                                                               *)
(***************************************************************************)
headRevision == revisions[Len(revisions)].revision

newRevisionID(now) == IF now = headRevision THEN now + 1 ELSE now

ReadClock == \E d \in ClockSteps : clock' = clock + d

OptimizedRevision(now) == now - (now % Quantum)

\* Mutant: the head is not excepted, and the window's own edge is outside.
outsideGCWindowEarly(now, dr) == dr + GCWindow <= now

outsideGCWindow(now, dr) == dr # headRevision /\ dr + GCWindow < now

CheckRevision(now, dr) ==
  /\ ~outsideGCWindow(now, dr)
  /\ dr > now => dr <= headRevision

\* sort.Search: the bisection it does, whether or not revisions is sorted.
SearchRevision(dr) ==
  LET n == Len(revisions)
      bisect[b \in (0..n) \X (0..n)] ==
        IF b[1] >= b[2] THEN b[1]
        ELSE LET h == (b[1] + b[2]) \div 2
             IN  IF revisions[h + 1].revision >= dr
                 THEN bisect[<<b[1], h>>] ELSE bisect[<<h + 1, b[2]>>]
  IN  bisect[<<0, n>>]

RootOf(s) == IF s.db = Live THEN Len(roots) ELSE s.db

\* Mutant: the snapshot before the requested revision.
SnapshotRootBefore(dr) ==
  LET i == SearchRevision(dr)
  IN  RootOf(revisions[IF i = 0 THEN 1 ELSE i])

\* The root SnapshotReader(dr) reads, once its checks have passed.
SnapshotRoot(dr) ==
  LET n == Len(revisions)
      i == SearchRevision(dr)
  IN  RootOf(revisions[IF i = n THEN n ELSE i + 1])

----------------------------------------------------------------------------
(***************************************************************************)
(* One attempt of ReadWriteTx                                              *)
(***************************************************************************)
Unlocked == lock = NoWriter

Goto(w, from, to) == pc[w] = from /\ pc' = [pc EXCEPT ![w] = to]

\* The call returns, with a revision or an error: its locals are gone.
Return(w, from) ==
  /\ Goto(w, from, "idle")
  /\ attempt' = [attempt EXCEPT ![w] = 0]
  /\ newRevision' = [newRevision EXCEPT ![w] = 0]
  /\ tx' = [tx EXCEPT ![w] = NoTx]

\* newRevisionID runs in a critical section of its own, before the body.
\* A datastore closed twice has no revisions left to index.
TakeRevision(w) ==
  /\ Unlocked
  /\ ReadClock
  /\ IF revisions = <<>>
     THEN /\ pc' = [pc EXCEPT ![w] = "panicked"]
          /\ UNCHANGED newRevision
     ELSE /\ pc' = [pc EXCEPT ![w] = "body"]
          /\ newRevision' = [newRevision EXCEPT ![w] = newRevisionID(clock')]

Start(w) ==
  /\ pc[w] = "idle"
  /\ calls < MaxCalls
  /\ calls' = calls + 1
  /\ TakeRevision(w)
  /\ attempt' = [attempt EXCEPT ![w] = 1]
  /\ UNCHANGED <<dbVars, memVars, tx, acked>>

\* Mutant: txSrc does not look for another write transaction.
ConflictsNever == FALSE

Conflicts == activeWriteTxn # NoWriter

\* txSrc, its first call in the attempt: the three ways out of the Once.
TxConflict(w) ==
  /\ Unlocked
  /\ Conflicts
  /\ Goto(w, "body", "conflict")
  /\ UNCHANGED allButPc

TxClosed(w) ==
  /\ Unlocked
  /\ ~Conflicts /\ ~isOpen
  /\ Goto(w, "body", "failed")
  /\ UNCHANGED allButPc

TxLock(w) ==
  /\ Unlocked
  /\ ~Conflicts /\ isOpen
  /\ Goto(w, "body", "opening")
  /\ lock' = w
  /\ UNCHANGED <<isOpen, revisions, activeWriteTxn, closes, memVars, clock,
                 calls, attempt, newRevision, tx, acked>>

MutexFree == writerMutex = NoWriter

\* Mutant: the transaction starts from the database of the first revision.
FreshTxOfFirst == [base |-> 1, rows |-> roots[1].rows, touched |-> {}, reads |-> NoDelta]

FreshTx == [base |-> Len(roots), rows |-> Current.rows, touched |-> {}, reads |-> NoDelta]

\* db.Txn(true): waits for go-memdb's writer mutex, mdb.Lock still held.
TxBegin(w) ==
  /\ MutexFree
  /\ Goto(w, "opening", "intx")
  /\ writerMutex' = w
  /\ activeWriteTxn' = w
  /\ lock' = NoWriter
  /\ tx' = [tx EXCEPT ![w] = FreshTx]
  /\ UNCHANGED <<isOpen, revisions, closes, roots, clock, calls, attempt,
                 newRevision, acked>>

\* A first read of a key, before the transaction's own write of it, is an
\* observation of the root the transaction started from.
Observe(t, K) ==
  [t EXCEPT !.reads = [k \in Keys |->
     IF k \in K \ t.touched /\ t.reads[k] = Untouched
     THEN t.rows[k] ELSE t.reads[k]]]

\* Mutant: a deleted row is stored as a key never written.
PutForgetting(t, K, c) ==
  [t EXCEPT !.rows = [k \in Keys |-> IF k \notin K THEN t.rows[k]
                                     ELSE IF c = Absent THEN Untouched ELSE c],
            !.touched = t.touched \cup K]

Put(t, K, c) ==
  [t EXCEPT !.rows = [k \in Keys |-> IF k \in K THEN c ELSE t.rows[k]],
            !.touched = t.touched \cup K]

\* The body works on t, its own transaction, and nothing shared.
Body(w, t) ==
  /\ pc[w] = "intx"
  /\ tx' = [tx EXCEPT ![w] = t]
  /\ UNCHANGED <<dbVars, memVars, clock, pc, calls, attempt, newRevision, acked>>

Read(w, k) == Body(w, Observe(tx[w], {k}))

Create(w, k, p) ==
  /\ tx[w].rows[k] = Absent
  /\ Body(w, Put(Observe(tx[w], {k}), {k}, p))

Touch(w, k, p) ==
  Body(w, IF tx[w].rows[k] = p THEN Observe(tx[w], {k})
          ELSE Put(Observe(tx[w], {k}), {k}, p))

\* DeleteRelationships: all the rows present under a filter, or, when a limit
\* cuts the iteration short, some of them.
DeleteRelationships(w, F) ==
  LET found == {k \in F : tx[w].rows[k] # Absent}
  IN  \E S \in SUBSET found :
        /\ found # {} => S # {}
        /\ Body(w, Put(Observe(tx[w], IF S = found THEN F ELSE S), S, Absent))

\* WriteNamespaces and WriteCaveats overwrite without looking.
WriteDefinition(w, d, p) == Body(w, Put(tx[w], {d}, p))

DeleteDefinition(w, d, cascade) ==
  LET owned == {k \in Rels : NamespaceOf[k] = d}
      gone  == {d} \cup {k \in owned : cascade /\ tx[w].rows[k] # Absent}
  IN  /\ tx[w].rows[d] # Absent
      /\ Body(w, Put(Observe(tx[w], {d} \cup (IF cascade THEN owned ELSE {})),
                     gone, Absent))

\* The body returns an error: its own, or that of a Create of an existing
\* relationship, a delete of a missing definition, a closed datastore.  A body
\* that gets ErrSerialization from rwt and returns another error, or none, is
\* one that fails, or returns, without having used rwt; one that goes on with
\* rwt finds no transaction and panics, which is left out.
BodyFails(w) ==
  /\ pc[w] \in {"body", "intx"}
  /\ pc' = [pc EXCEPT ![w] = "failed"]
  /\ UNCHANGED allButPc

\* The body returns ErrSerialization itself, its transaction maybe under way:
\* that is rolled back, and the next attempt is due as after a conflict.
BodyConflicts(w) ==
  /\ Unlocked
  /\ pc[w] \in {"body", "intx"}
  /\ pc' = [pc EXCEPT ![w] = "conflict"]
  /\ tx' = [tx EXCEPT ![w] = NoTx]
  /\ IF InTx(w)
     THEN /\ writerMutex' = NoWriter
          /\ activeWriteTxn' = NoWriter
     ELSE UNCHANGED <<writerMutex, activeWriteTxn>>
  /\ UNCHANGED <<isOpen, revisions, lock, closes, roots, clock, calls, attempt,
                 newRevision, acked>>

BodyReturns(w) ==
  /\ \/ pc[w] = "intx"
     \/ MayBeEmpty /\ pc[w] = "body"
  /\ pc' = [pc EXCEPT ![w] = "returned"]
  /\ UNCHANGED allButPc

----------------------------------------------------------------------------
(***************************************************************************)
(* The end of an attempt                                                   *)
(***************************************************************************)
\* After ErrSerialization, nothing being left to roll back: sleep, next attempt.
Retry(w) ==
  /\ pc[w] = "conflict"
  /\ attempt[w] < NumAttempts
  /\ TakeRevision(w)
  /\ attempt' = [attempt EXCEPT ![w] = @ + 1]
  /\ UNCHANGED <<dbVars, memVars, calls, tx, acked>>

GiveUp(w) ==
  /\ Unlocked
  /\ attempt[w] = NumAttempts
  /\ Return(w, "conflict")
  /\ UNCHANGED <<dbVars, memVars, clock, calls, acked>>

Rollback(w) ==
  /\ Unlocked
  /\ Return(w, "failed")
  /\ IF InTx(w)
     THEN /\ writerMutex' = NoWriter
          /\ activeWriteTxn' = NoWriter
     ELSE UNCHANGED <<writerMutex, activeWriteTxn>>
  /\ UNCHANGED <<isOpen, revisions, lock, closes, roots, clock, calls, acked>>

\* Mutant: the changelog forgets deletions.
ChangesWithoutDeletes(t) ==
  [k \in Keys |-> IF k \in t.touched /\ t.rows[k] # Absent
                  THEN t.rows[k] ELSE Untouched]

\* tx.Changes(): the net change of each key written, none for a key that
\* was absent before and is absent after.
Changes(t) ==
  [k \in Keys |->
     IF /\ k \in t.touched
        /\ roots[t.base].rows[k] # Absent \/ t.rows[k] # Absent
     THEN t.rows[k] ELSE Untouched]

\* Mutant: the entry before it is lost.
InsertOnlyEntry(log, e) == {e}

\* The changelog table is unique on the revision: Insert replaces.
InsertEntry(log, e) == {x \in log : x.revision # e.revision} \cup {e}

CommittedRoot(w) ==
  [rows |-> tx[w].rows,
   changelog |-> InsertEntry(roots[tx[w].base].changelog,
                   [revision |-> newRevision[w], changes |-> Changes(tx[w])]),
   revision |-> newRevision[w],
   reads |-> tx[w].reads,
   changes |-> Changes(tx[w])]

\* Mutant: the snapshot of a commit is taken before the commit.
SnapshotEarly(w) == [revision |-> newRevision[w], db |-> Len(roots)]

\* db.Snapshot() after tx.Commit().
SnapshotAfter(w) == [revision |-> newRevision[w], db |-> Len(roots')]

Finish(w) ==
  /\ Unlocked
  /\ Return(w, "returned")
  /\ IF InTx(w)
     THEN /\ roots' = Append(roots, CommittedRoot(w))
          /\ writerMutex' = NoWriter
     ELSE UNCHANGED <<roots, writerMutex>>
  /\ activeWriteTxn' = NoWriter
  /\ IF isOpen
     THEN /\ revisions' = Append(revisions, SnapshotAfter(w))
          /\ acked' = acked \cup {[revision |-> newRevision[w], root |-> Len(roots')]}
     ELSE UNCHANGED <<revisions, acked>>
  /\ UNCHANGED <<isOpen, lock, closes, clock, calls>>

\* Mutant: the first call of Close already leaves no revision.
CloseEmptying ==
  /\ Unlocked
  /\ closes < MaxCloses
  /\ closes' = closes + 1
  /\ ReadClock
  /\ revisions' = <<>>
  /\ isOpen' = FALSE
  /\ UNCHANGED <<activeWriteTxn, lock, memVars, calls, callVars, acked>>

Close ==
  /\ Unlocked
  /\ closes < MaxCloses
  /\ closes' = closes + 1
  /\ ReadClock
  /\ revisions' = IF isOpen THEN <<[revision |-> clock', db |-> Live]>> ELSE <<>>
  /\ isOpen' = FALSE
  /\ UNCHANGED <<activeWriteTxn, lock, memVars, calls, callVars, acked>>

----------------------------------------------------------------------------
Init ==
  /\ isOpen = TRUE
  /\ clock = 0
  /\ revisions = <<[revision |-> 0, db |-> Live]>>
  /\ activeWriteTxn = NoWriter
  /\ lock = NoWriter
  /\ roots = <<[rows |-> EmptyRows, changelog |-> {}, revision |-> 0,
                reads |-> NoDelta, changes |-> NoDelta]>>
  /\ writerMutex = NoWriter
  /\ closes = 0
  /\ pc = [w \in Writers |-> "idle"]
  /\ calls = 0
  /\ attempt = [w \in Writers |-> 0]
  /\ newRevision = [w \in Writers |-> 0]
  /\ tx = [w \in Writers |-> NoTx]
  /\ acked = {}

\* What the body of a transaction may do with rwt.
BodyStep(w) ==
  \/ \E k \in Keys : Read(w, k)
  \/ \E k \in Rels, p \in Payloads : Create(w, k, p) \/ Touch(w, k, p)
  \/ \E F \in SUBSET Rels : DeleteRelationships(w, F)
  \/ \E d \in Defs, p \in Payloads : WriteDefinition(w, d, p)
  \/ \E d \in Defs, cascade \in BOOLEAN : DeleteDefinition(w, d, cascade)

\* What the datastore does for a call that is under way.
CallStep(w) ==
  \/ TxConflict(w) \/ TxClosed(w) \/ TxLock(w) \/ TxBegin(w)
  \/ Retry(w) \/ GiveUp(w) \/ Rollback(w) \/ Finish(w)

\* How a body ends.
BodyEnds(w) == BodyFails(w) \/ BodyConflicts(w) \/ BodyReturns(w)

Writer(w) == Start(w) \/ CallStep(w) \/ BodyStep(w) \/ BodyEnds(w)

Next == Close \/ \E w \in Writers : Writer(w)

Spec == Init /\ [][Next]_vars

\* The scheduler runs every goroutine, and a body comes to an end.
Fairness == \A w \in Writers :
              WF_vars(CallStep(w)) /\ WF_vars(BodyEnds(w))

FairSpec == Spec /\ Fairness

----------------------------------------------------------------------------
(***************************************************************************)
(* Properties                                                              *)
(***************************************************************************)
\* An open write transaction started from the live root: nothing was
\* committed under it, so its commit overwrites no other commit
\* (memdb.go:176-187 and 316, with the writer mutex of go-memdb).
NoLostUpdate == \A w \in Writers : InTx(w) => tx[w].base = Len(roots)

\* The revisions slice is appended to in commit order: a later entry never
\* holds an older database, the last one always holds the live rows, and none
\* holds a database that was not published (memdb.go:316-326).
SnapshotsInCommitOrder ==
  /\ \A i, j \in DOMAIN revisions :
       /\ RootOf(revisions[i]) \in DOMAIN roots
       /\ (i < j /\ revisions[i].db # Live) => revisions[i].db <= RootOf(revisions[j])
  /\ isOpen => RootOf(revisions[Len(revisions)]) = Len(roots)

\* A call waiting for go-memdb's writer mutex holds mdb.Lock, which the
\* transaction that owns the mutex needs in order to finish: it must never
\* have to wait. activeWriteTxn is there to refuse it first (memdb.go:173-187).
NeverWaitsUnderLock ==
  \A w \in Writers : pc[w] = "opening" => writerMutex = NoWriter

\* Two transactions never get the same revision, nor does one get a revision
\* HeadRevision already returned (the comment in newRevisionID,
\* revisions.go:24-33).
RevisionsUnique ==
  \A i, j \in DOMAIN revisions :
    i # j => revisions[i].revision # revisions[j].revision

\* Inside the GC window the revision ReadWriteTx returned is accepted, and
\* reading at it gives the database that call committed, neither an older nor a
\* newer one (memdb.go:126-144 and revisions.go:85-118 against memdb.go:325-327).
ReadsOwnCommit ==
  \A a \in acked :
    isOpen /\ clock <= a.revision + GCWindow =>
      /\ CheckRevision(clock, a.revision)
      /\ SnapshotRoot(a.revision) = a.root

\* The quantized revision readers share is accepted, and shows every commit
\* acknowledged at or before it: it is stale by less than a quantum
\* (revisions.go:64-118 and memdb.go:126-144).
OptimizedSeesCommits ==
  LET dr == OptimizedRevision(clock)
  IN  isOpen =>
        /\ CheckRevision(clock, dr)
        /\ \A a \in acked : a.revision <= dr => a.root <= SnapshotRoot(dr)

\* Every commit keeps its changelog entry, with its own changes, in every
\* later root: what Watch resumes from (memdb.go:308-314, watch.go:113).
ChangelogComplete ==
  \A i \in 2..Len(roots) : \A j \in i..Len(roots) :
    [revision |-> roots[i].revision, changes |-> roots[i].changes] \in roots[j].changelog

\* Whatever else goes on, no ReadWriteTx call panics, before or after the
\* datastore is closed (memdb_test.go:120 against revisions.go:21, which indexes
\* the last revision without asking whether there is one).
CallsNeverPanic == \A w \in Writers : pc[w] # "panicked"

\* Every ReadWriteTx call returns to its caller, whatever the other calls do:
\* it gets its locks, and its attempts come to an end (memdb.go:168-331).
CallsReturn == \A w \in Writers : pc[w] # "idle" ~> pc[w] = "idle"

(***************************************************************************)
(* ReadWriteTx implements the store whose transactions are atomic.         *)
(***************************************************************************)
Committed(r) == [revision |-> r.revision, reads |-> r.reads, changes |-> r.changes]

Store == INSTANCE SerialStore WITH
  store <- Current.rows,
  log <- [i \in 1..(Len(roots) - 1) |-> Committed(roots[i + 1])],
  serving <- isOpen

\* The commits are serializable in the order of their roots, each revision is
\* acknowledged at the moment its commit takes effect, and a commit goes
\* unanswered only if the datastore was closed meanwhile (memdb.go:217-327).
Serializable == Store!Spec
=============================================================================
