---------------------------- MODULE MemDBProofs ----------------------------
(***************************************************************************)
(* Theorems about MemDB, for every set of writers, keys and payloads and   *)
(* every bound: the locks of a ReadWriteTx call and what they protect, the *)
(* order of revisions, and that ReadWriteTx implements the atomic          *)
(* transactions of SerialStore.                                            *)
(***************************************************************************)
EXTENDS MemDB, SequenceTheorems, TLAPS

(***************************************************************************)
(* Helpers                                                                 *)
(***************************************************************************)
\* The values rows and changes take.
LEMMA EmptyShapes ==
  /\ EmptyRows \in [Keys -> Cells]
  /\ NoDelta \in [Keys -> Deltas]
  /\ NoTx \in Tx
  /\ NoTx.base = 0
  BY DEF EmptyRows, NoDelta, NoTx, Tx, Cells, Deltas

\* Observing keys and writing a cell keep the shape of a transaction.
LEMMA ObserveType ==
  ASSUME NEW t \in Tx, NEW K
  PROVE  Observe(t, K) \in Tx /\ Observe(t, K).base = t.base
  BY DEF Observe, Tx, Cells, Deltas

\* Writing keys keeps the shape of a transaction, and its base.
LEMMA PutType ==
  ASSUME NEW t \in Tx, NEW K \in SUBSET Keys, NEW c \in Cells
  PROVE  Put(t, K, c) \in Tx /\ Put(t, K, c).base = t.base
  BY DEF Put, Tx

\* A transaction's rows follow a root except where it wrote, and what it
\* observed is what the root holds.
Tracks(t, r) ==
  \A k \in Keys : /\ k \notin t.touched => t.rows[k] = r.rows[k]
                  /\ t.reads[k] \in {Untouched, r.rows[k]}

\* Observing keeps what a transaction knows of its root.
LEMMA ObserveTracks ==
  ASSUME NEW t \in Tx, NEW r, NEW K, Tracks(t, r)
  PROVE  Tracks(Observe(t, K), r)
  BY DEF Tracks, Observe, Tx

\* So does writing.
LEMMA PutTracks ==
  ASSUME NEW t \in Tx, NEW r, NEW K \in SUBSET Keys, NEW c, Tracks(t, r)
  PROVE  Tracks(Put(t, K, c), r)
  BY DEF Tracks, Put, Tx

\* The net changes of a transaction are deltas.
LEMMA ChangesType ==
  ASSUME NEW t \in Tx
  PROVE  Changes(t) \in [Keys -> Deltas]
  BY DEF Changes, Tx, Deltas

\* The revision of an attempt is a natural number.
LEMMA NewRevisionType ==
  ASSUME revisions \in Seq(Snapshot), revisions # <<>>,
         NEW now \in Nat
  PROVE  newRevisionID(now) \in Nat
  BY DEF newRevisionID, headRevision, Snapshot

\* The clock stays a number.
LEMMA ClockType ==
  ASSUME clock \in Nat, ReadClock
  PROVE  clock' \in Nat
  BY NumbersAssumption DEF ReadClock

\* Where the call of a writer can be.
PcValues == {"idle", "body", "conflict", "opening", "intx",
             "returned", "failed", "panicked"}

\* Its locals are reset, to values of their types.
LEMMA ReturnType ==
  ASSUME TypeOK, NEW w \in Writers, NEW from, Return(w, from)
  PROVE  /\ pc' \in [Writers -> PcValues]
         /\ attempt' \in [Writers -> Nat]
         /\ newRevision' \in [Writers -> Nat]
         /\ tx' \in [Writers -> Tx]
         /\ \A v \in Writers : tx'[v].base <= Len(roots)
<1>1. tx' = [tx EXCEPT ![w] = NoTx]  BY DEF Return
<1>2. Len(roots) \in Nat  BY DEF TypeOK
<1>3. \A v \in Writers : tx'[v] = IF v = w THEN NoTx ELSE tx[v]
  BY <1>1 DEF TypeOK
<1>4. \A v \in Writers : tx'[v].base <= Len(roots)
  <2> SUFFICES ASSUME NEW v \in Writers
               PROVE  tx'[v].base <= Len(roots)
    OBVIOUS
  <2>1. CASE v = w
    BY <1>2, <1>3, <2>1, EmptyShapes
  <2>2. CASE v # w
    BY <1>3, <2>2 DEF TypeOK
  <2>3. QED  BY <2>1, <2>2
<1>5. QED  BY <1>1, <1>4, EmptyShapes DEF Return, Goto, TypeOK, PcValues

\* Every step of a body puts a well-formed transaction in place of the old one,
\* which follows the live root if the old one did.
LEMMA BodyStepShape ==
  ASSUME TypeOK, NEW w \in Writers, BodyStep(w)
  PROVE  \E t \in Tx : /\ Body(w, t)
                       /\ t.base = tx[w].base
                       /\ Tracks(tx[w], Current) => Tracks(t, Current)
<1> DEFINE Result == \E t \in Tx : /\ Body(w, t)
                                   /\ t.base = tx[w].base
                                   /\ Tracks(tx[w], Current) => Tracks(t, Current)
<1> USE DEF Keys, Cells
<1>0. tx[w] \in Tx  BY DEF TypeOK
<1>1. ASSUME NEW k \in Keys, Read(w, k)
      PROVE  Result
  BY <1>0, <1>1, ObserveType, ObserveTracks DEF Read
<1>2. ASSUME NEW k \in Rels, NEW p \in Payloads, Create(w, k, p)
      PROVE  Result
  BY <1>0, <1>2, ObserveType, PutType, ObserveTracks, PutTracks DEF Create
<1>3. ASSUME NEW k \in Rels, NEW p \in Payloads, Touch(w, k, p)
      PROVE  Result
  BY <1>0, <1>3, ObserveType, PutType, ObserveTracks, PutTracks DEF Touch
<1>4. ASSUME NEW F \in SUBSET Rels, DeleteRelationships(w, F)
      PROVE  Result
  BY <1>0, <1>4, ObserveType, PutType, ObserveTracks, PutTracks DEF DeleteRelationships
<1>5. ASSUME NEW d \in Defs, NEW p \in Payloads, WriteDefinition(w, d, p)
      PROVE  Result
  BY <1>0, <1>5, PutType, PutTracks DEF WriteDefinition
<1>6. ASSUME NEW d \in Defs, NEW cascade \in BOOLEAN, DeleteDefinition(w, d, cascade)
      PROVE  Result
  BY <1>0, <1>6, ObserveType, PutType, ObserveTracks, PutTracks DEF DeleteDefinition
<1>7. QED
  BY <1>1, <1>2, <1>3, <1>4, <1>5, <1>6 DEF BodyStep

----------------------------------------------------------------------------
(***************************************************************************)
(* Type correctness                                                        *)
(***************************************************************************)
LEMMA TypeInit == Init => TypeOK
<1> SUFFICES ASSUME Init
             PROVE  TypeOK
  OBVIOUS
<1>1. Current \in Root /\ roots = <<Current>>
  BY EmptyShapes DEF Init, Current, Root, Entry
<1>2. roots \in Seq(Root) /\ roots # <<>> /\ Len(roots) = 1
  BY <1>1
<1>3. revisions \in Seq(Snapshot)
  BY DEF Init, Live, Snapshot
<1>4. tx \in [Writers -> Tx] /\ \A w \in Writers : tx[w].base <= Len(roots)
  BY <1>2, EmptyShapes DEF Init
<1>5. QED
  BY <1>2, <1>3, <1>4, NumbersAssumption DEF Init, TypeOK

\* Every step keeps the types.
LEMMA TypeStep == TypeOK /\ [Next]_vars => TypeOK'
<1> SUFFICES ASSUME TypeOK, [Next]_vars
             PROVE  TypeOK'
  OBVIOUS
<1> USE DEF dbVars, memVars, callVars, allButPc
<1>1. ASSUME NEW w \in Writers, TakeRevision(w)
      PROVE  /\ clock' \in Nat
             /\ newRevision' \in [Writers -> Nat]
             /\ pc' \in [Writers -> {"idle", "body", "conflict", "opening", "intx",
                                     "returned", "failed", "panicked"}]
  BY <1>1, ClockType, NewRevisionType DEF TakeRevision, TypeOK
<1>2. ASSUME NEW w \in Writers, Start(w)
      PROVE  TypeOK'
  <2>1. TakeRevision(w)  BY <1>2 DEF Start
  <2>2. QED  BY <1>1, <1>2, <2>1, SMTT(30) DEF Start, TypeOK
<1>3. ASSUME NEW w \in Writers, TxConflict(w) \/ TxClosed(w)
      PROVE  TypeOK'
  BY <1>3 DEF TxConflict, TxClosed, Goto, TypeOK
<1>4. ASSUME NEW w \in Writers, TxLock(w)
      PROVE  TypeOK'
  BY <1>4 DEF TxLock, Goto, TypeOK
<1>5. ASSUME NEW w \in Writers, TxBegin(w)
      PROVE  TypeOK'
  <2>1. Current \in Root  BY DEF TypeOK, Current
  <2>2. FreshTx \in Tx
    BY <2>1, EmptyShapes, SMTT(30) DEF FreshTx, Tx, Root, TypeOK
  <2>3. FreshTx.base = Len(roots)
    BY DEF FreshTx
  <2>4. tx' \in [Writers -> Tx] /\ \A v \in Writers : tx'[v].base <= Len(roots')
    BY <1>5, <2>2, <2>3 DEF TxBegin, TypeOK
  <2>5. QED  BY <1>5, <2>4 DEF TxBegin, Goto, TypeOK
<1>6. ASSUME NEW w \in Writers, Retry(w)
      PROVE  TypeOK'
  <2>1. TakeRevision(w)  BY <1>6 DEF Retry
  <2>2. attempt' \in [Writers -> Nat]  BY <1>6 DEF Retry, TypeOK
  <2>3. QED  BY <1>1, <1>6, <2>1, <2>2 DEF Retry, TypeOK
<1>7. ASSUME NEW w \in Writers, GiveUp(w)
      PROVE  TypeOK'
  BY <1>7, ReturnType DEF GiveUp, TypeOK, PcValues
<1>8. ASSUME NEW w \in Writers, Rollback(w)
      PROVE  TypeOK'
  BY <1>8, ReturnType DEF Rollback, TypeOK, PcValues
<1>9. ASSUME NEW w \in Writers, Finish(w)
      PROVE  TypeOK'
  <2>1. InTx(w) => CommittedRoot(w) \in Root
    <3>1. tx[w] \in Tx /\ newRevision[w] \in Nat  BY DEF TypeOK
    <3>2. Changes(tx[w]) \in [Keys -> Deltas]  BY <3>1, ChangesType
    <3>3. InTx(w) => roots[tx[w].base] \in Root
      BY <3>1 DEF InTx, Tx, TypeOK
    <3>4. InTx(w) => CommittedRoot(w).changelog \in SUBSET Entry
      BY <3>1, <3>2, <3>3 DEF CommittedRoot, InsertEntry, Root, Entry
    <3>5. QED  BY <3>1, <3>2, <3>4 DEF CommittedRoot, Root, Tx
  <2>2. /\ roots' \in Seq(Root) /\ roots' # <<>>
        /\ Len(roots') \in Nat /\ Len(roots) <= Len(roots')
    <3>1. CASE InTx(w)
      <4>1. roots' = Append(roots, CommittedRoot(w))  BY <1>9, <3>1 DEF Finish
      <4>2. roots \in Seq(Root) /\ Len(roots) \in Nat  BY DEF TypeOK
      <4>3. QED  BY <2>1, <3>1, <4>1, <4>2, AppendProperties
    <3>2. CASE ~InTx(w)
      BY <1>9, <3>2 DEF Finish, TypeOK
    <3>3. QED  BY <3>1, <3>2
  <2>3. Return(w, "returned")  BY <1>9 DEF Finish
  <2>4. \A v \in Writers : tx'[v].base <= Len(roots')
    <3>1. Len(roots) \in Nat /\ tx' \in [Writers -> Tx]
      BY <2>3, ReturnType, SMTT(30) DEF TypeOK
    <3>2. \A v \in Writers : tx'[v].base \in Nat /\ tx'[v].base <= Len(roots)
      BY <2>3, <3>1, ReturnType DEF Tx
    <3>3. QED  BY <2>2, <3>1, <3>2
  <2>5. revisions' \in Seq(Snapshot)
    <3>1. SnapshotAfter(w) \in Snapshot
      BY <2>2 DEF SnapshotAfter, Snapshot, TypeOK
    <3>2. revisions \in Seq(Snapshot)  BY DEF TypeOK
    <3>3. revisions' = revisions \/ revisions' = Append(revisions, SnapshotAfter(w))
      BY <1>9 DEF Finish
    <3>4. QED  BY <3>1, <3>2, <3>3, AppendProperties
  <2>6. acked' \subseteq Ack
    <3>1. [revision |-> newRevision[w], root |-> Len(roots')] \in Ack
      BY <2>2 DEF Ack, TypeOK
    <3>2. QED  BY <1>9, <3>1 DEF Finish, TypeOK
  <2>7. QED
    BY <1>9, <2>2, <2>3, <2>4, <2>5, <2>6, ReturnType DEF Finish, TypeOK, PcValues
<1>10. ASSUME Close
       PROVE  TypeOK'
  <2>1. clock' \in Nat  BY <1>10, ClockType DEF Close, TypeOK
  <2>2. [revision |-> clock', db |-> Live] \in Snapshot
    BY <2>1 DEF Live, Snapshot
  <2>3. revisions' \in Seq(Snapshot)
    <3>1. revisions' = Append(<<>>, [revision |-> clock', db |-> Live]) \/ revisions' = <<>>
      BY <1>10 DEF Close
    <3>2. <<>> \in Seq(Snapshot)  OBVIOUS
    <3>3. QED  BY <2>2, <3>1, <3>2, AppendProperties
  <2>4. closes' \in Nat
    <3>1. closes' = closes + 1 /\ closes \in Nat  BY <1>10 DEF Close, TypeOK
    <3>2. QED  BY <3>1
  <2>5. isOpen' \in BOOLEAN  BY <1>10 DEF Close
  <2>6. QED  BY <1>10, <2>1, <2>3, <2>4, <2>5 DEF Close, TypeOK
<1>11. ASSUME NEW w \in Writers, BodyStep(w)
       PROVE  TypeOK'
  <2>2. PICK t \in Tx : /\ Body(w, t)
                        /\ t.base = tx[w].base
                        /\ Tracks(tx[w], Current) => Tracks(t, Current)
    BY <1>11, BodyStepShape
  <2>3. tx' \in [Writers -> Tx] /\ \A v \in Writers : tx'[v].base <= Len(roots')
    BY <2>2 DEF Body, TypeOK, memVars
  <2>4. QED  BY <2>2, <2>3 DEF Body, TypeOK
<1>12. ASSUME NEW w \in Writers, BodyFails(w) \/ BodyReturns(w)
       PROVE  TypeOK'
  BY <1>12 DEF BodyFails, BodyReturns, TypeOK
<1>13. ASSUME NEW w \in Writers, BodyConflicts(w)
       PROVE  TypeOK'
  <2>1. tx' \in [Writers -> Tx] /\ \A v \in Writers : tx'[v].base <= Len(roots')
    <3>1. tx' = [tx EXCEPT ![w] = NoTx] /\ UNCHANGED roots
      BY <1>13 DEF BodyConflicts
    <3>2. \A v \in Writers : tx'[v] = IF v = w THEN NoTx ELSE tx[v]
      BY <3>1 DEF TypeOK
    <3>3. Len(roots) \in Nat  BY DEF TypeOK
    <3>4. QED  BY <3>1, <3>2, <3>3, EmptyShapes DEF TypeOK
  <2>2. QED  BY <1>13, <2>1 DEF BodyConflicts, TypeOK
<1>14. CASE UNCHANGED vars
  BY <1>14 DEF vars, TypeOK
<1>15. QED
  BY <1>2, <1>3, <1>4, <1>5, <1>6, <1>7, <1>8, <1>9, <1>10, <1>11, <1>12, <1>13, <1>14
     DEF Next, Writer, CallStep, BodyEnds

\* Every reachable state is well formed (memdb.go:85-99).
THEOREM TypeCorrect == Spec => []TypeOK
  BY TypeInit, TypeStep, PTL DEF Spec

----------------------------------------------------------------------------
(***************************************************************************)
(* The locks: who holds what, and where its call is                        *)
(***************************************************************************)
\* mdb.Lock is kept across steps only while waiting for the writer mutex.
LockHolder == \A w \in Writers : lock = w <=> pc[w] = "opening"

\* go-memdb's writer mutex belongs to the one open transaction.
MutexHolder == \A w \in Writers : writerMutex = w <=> InTx(w)

\* A transaction is open from txSrc to the end of its attempt.
TxPlaces ==
  \A w \in Writers : /\ InTx(w) => pc[w] \in {"intx", "returned", "failed"}
                     /\ pc[w] = "intx" => InTx(w)

\* activeWriteTxn is the open transaction, or has been cleared under it.
ActiveHolder == activeWriteTxn # NoWriter => activeWriteTxn = writerMutex

LockInv == TypeOK /\ LockHolder /\ MutexHolder /\ TxPlaces /\ ActiveHolder

\* At first nobody holds a lock.
LEMMA LockInit == Init => LockInv
<1> SUFFICES ASSUME Init
             PROVE  LockInv
  OBVIOUS
<1>1. \A w \in Writers : ~InTx(w) /\ pc[w] = "idle"
  BY EmptyShapes DEF Init, InTx
<1>2. lock = NoWriter /\ writerMutex = NoWriter /\ activeWriteTxn = NoWriter
  BY DEF Init
<1>3. QED
  BY <1>1, <1>2, TypeInit, ValuesAssumption
     DEF LockInv, LockHolder, MutexHolder, TxPlaces, ActiveHolder

\* The variables the locks are about, after a call has returned.
LEMMA ReturnEffect ==
  ASSUME TypeOK, NEW w \in Writers, NEW from, Return(w, from)
  PROVE  /\ pc[w] = from
         /\ \A v \in Writers : /\ pc'[v] = IF v = w THEN "idle" ELSE pc[v]
                               /\ tx'[v] = IF v = w THEN NoTx ELSE tx[v]
<1>1. /\ pc[w] = from
      /\ pc' = [pc EXCEPT ![w] = "idle"]
      /\ tx' = [tx EXCEPT ![w] = NoTx]
  BY DEF Return, Goto
<1>2. \A v \in Writers : pc'[v] = IF v = w THEN "idle" ELSE pc[v]
  <2>1. pc \in [Writers -> PcValues]  BY DEF TypeOK, PcValues
  <2>2. QED  BY <1>1, <2>1
<1>3. \A v \in Writers : tx'[v] = IF v = w THEN NoTx ELSE tx[v]
  <2>1. tx \in [Writers -> Tx]  BY DEF TypeOK
  <2>2. QED  BY <1>1, <2>1
<1>4. QED  BY <1>1, <1>2, <1>3

\* Every step hands the locks on as the code does.
LEMMA LockStep == LockInv /\ [Next]_vars => LockInv'
<1> SUFFICES ASSUME LockInv, [Next]_vars
             PROVE  LockInv'
  OBVIOUS
<1> USE DEF dbVars, memVars, callVars, allButPc
<1> DEFINE Rest == LockHolder /\ MutexHolder /\ TxPlaces /\ ActiveHolder
<1>0. TypeOK /\ TypeOK' /\ Rest
  BY TypeStep DEF LockInv
<1>t. /\ pc \in [Writers -> PcValues] /\ tx \in [Writers -> Tx]
      /\ NoWriter \notin Writers /\ NoTx.base = 0
  BY <1>0, EmptyShapes, ValuesAssumption DEF TypeOK, PcValues
<1> USE DEF LockHolder, MutexHolder, TxPlaces, ActiveHolder, InTx
<1>1. ASSUME NEW w \in Writers, Start(w) \/ Retry(w)
      PROVE  Rest'
  <2>1. /\ pc[w] \in {"idle", "conflict"} /\ UNCHANGED <<lock, writerMutex, activeWriteTxn, tx>>
        /\ \E p \in {"body", "panicked"} : pc' = [pc EXCEPT ![w] = p]
    BY <1>1 DEF Start, Retry, TakeRevision
  <2>2. QED  BY <1>0, <1>t, <2>1
<1>2. ASSUME NEW w \in Writers, TxConflict(w) \/ TxClosed(w)
      PROVE  Rest'
  BY <1>0, <1>t, <1>2 DEF TxConflict, TxClosed, Goto
<1>3. ASSUME NEW w \in Writers, TxLock(w)
      PROVE  Rest'
  BY <1>0, <1>t, <1>3 DEF TxLock, Goto, Unlocked
<1>4. ASSUME NEW w \in Writers, TxBegin(w)
      PROVE  Rest'
  <2>1. FreshTx.base # 0
    BY <1>0 DEF FreshTx, TypeOK
  <2>2. QED  BY <1>0, <1>t, <1>4, <2>1 DEF TxBegin, Goto, MutexFree
<1>5. ASSUME NEW w \in Writers, GiveUp(w)
      PROVE  Rest'
  <2>1. Return(w, "conflict")  BY <1>5 DEF GiveUp
  <2>2. /\ pc[w] = "conflict"
        /\ \A v \in Writers : /\ pc'[v] = IF v = w THEN "idle" ELSE pc[v]
                              /\ tx'[v] = IF v = w THEN NoTx ELSE tx[v]
    BY <1>0, <2>1, ReturnEffect
  <2>3. UNCHANGED lock  BY <1>5 DEF GiveUp
  <2>4. QED  BY <1>0, <1>t, <1>5, <2>2, <2>3 DEF GiveUp
<1>6. ASSUME NEW w \in Writers, Rollback(w)
      PROVE  Rest'
  <2>1. Return(w, "failed")  BY <1>6 DEF Rollback
  <2>2. /\ pc[w] = "failed"
        /\ \A v \in Writers : /\ pc'[v] = IF v = w THEN "idle" ELSE pc[v]
                              /\ tx'[v] = IF v = w THEN NoTx ELSE tx[v]
    BY <1>0, <2>1, ReturnEffect
  <2>3. UNCHANGED lock  BY <1>6 DEF Rollback
  <2>4. QED  BY <1>0, <1>t, <1>6, <2>2, <2>3 DEF Rollback
<1>7. ASSUME NEW w \in Writers, Finish(w)
      PROVE  Rest'
  <2>1. Return(w, "returned")  BY <1>7 DEF Finish
  <2>2. /\ pc[w] = "returned"
        /\ \A v \in Writers : /\ pc'[v] = IF v = w THEN "idle" ELSE pc[v]
                              /\ tx'[v] = IF v = w THEN NoTx ELSE tx[v]
    BY <1>0, <2>1, ReturnEffect
  <2>3. UNCHANGED lock  BY <1>7 DEF Finish
  <2>4. QED  BY <1>0, <1>t, <1>7, <2>2, <2>3 DEF Finish
<1>8. ASSUME Close
      PROVE  Rest'
  BY <1>0, <1>8 DEF Close
<1>9. ASSUME NEW w \in Writers, BodyStep(w)
      PROVE  Rest'
  <2>2. PICK t \in Tx : /\ Body(w, t)
                        /\ t.base = tx[w].base
                        /\ Tracks(tx[w], Current) => Tracks(t, Current)
    BY <1>0, <1>9, BodyStepShape
  <2>3. QED  BY <1>0, <1>t, <2>2 DEF Body
<1>10. ASSUME NEW w \in Writers, BodyFails(w) \/ BodyReturns(w)
       PROVE  Rest'
  BY <1>0, <1>t, <1>10 DEF BodyFails, BodyReturns
<1>11. ASSUME NEW w \in Writers, BodyConflicts(w)
       PROVE  Rest'
  <2>1. /\ pc[w] \in {"body", "intx"} /\ UNCHANGED lock
        /\ \A v \in Writers : /\ pc'[v] = IF v = w THEN "conflict" ELSE pc[v]
                              /\ tx'[v] = IF v = w THEN NoTx ELSE tx[v]
    BY <1>t, <1>11 DEF BodyConflicts
  <2>2. QED  BY <1>0, <1>t, <1>11, <2>1 DEF BodyConflicts
<1>12. ASSUME UNCHANGED vars
       PROVE  Rest'
  <2>1. UNCHANGED <<lock, writerMutex, activeWriteTxn, pc, tx>>  BY <1>12 DEF vars
  <2>2. QED  BY <1>0, <2>1
<1> HIDE DEF Rest
<1>13. Rest'
  BY <1>1, <1>2, <1>3, <1>4, <1>5, <1>6, <1>7, <1>8, <1>9, <1>10, <1>11, <1>12
     DEF Next, Writer, CallStep, BodyEnds
<1>14. QED  BY <1>0, <1>13 DEF LockInv, Rest

\* So the locks always belong to whom they should.
LEMMA LockInvariant == Spec => []LockInv
  BY LockInit, LockStep, PTL DEF Spec

----------------------------------------------------------------------------
(***************************************************************************)
(* What an open transaction knows of the live database                     *)
(***************************************************************************)
\* It started from the live root, and has not drifted from it.
TxView == \A w \in Writers : InTx(w) => /\ tx[w].base = Len(roots)
                                        /\ Tracks(tx[w], Current)

ViewInv == LockInv /\ TxView

\* At first no transaction is open.
LEMMA ViewInit == Init => ViewInv
<1> SUFFICES ASSUME Init
             PROVE  ViewInv
  OBVIOUS
<1>1. \A w \in Writers : ~InTx(w)
  BY EmptyShapes DEF Init, InTx
<1>2. QED  BY <1>1, LockInit DEF ViewInv, TxView

\* A call that returns takes its transaction with it.
LEMMA ReturnView ==
  ASSUME ViewInv, NEW w \in Writers, NEW from, Return(w, from), UNCHANGED roots
  PROVE  TxView'
<1>1. \A v \in Writers : tx'[v] = IF v = w THEN NoTx ELSE tx[v]
  BY ReturnEffect DEF ViewInv, LockInv
<1>2. QED  BY <1>1, EmptyShapes DEF ViewInv, TxView, InTx, Current

\* Nothing is committed under an open transaction.
LEMMA ViewStep == ViewInv /\ [Next]_vars => ViewInv'
<1> SUFFICES ASSUME ViewInv, [Next]_vars
             PROVE  ViewInv'
  OBVIOUS
<1>0. LockInv /\ LockInv' /\ TxView /\ TypeOK
  BY LockStep DEF ViewInv, LockInv
<1>1. ASSUME UNCHANGED <<tx, roots>>
      PROVE  TxView'
  BY <1>0, <1>1 DEF TxView, InTx, Current
<1>2. ASSUME NEW w \in Writers,
             \/ Start(w) \/ Retry(w) \/ TxConflict(w) \/ TxClosed(w) \/ TxLock(w)
             \/ BodyFails(w) \/ BodyReturns(w)
      PROVE  TxView'
  <2>1. UNCHANGED <<tx, roots>>
    BY <1>2 DEF Start, Retry, TxConflict, TxClosed, TxLock, BodyFails, BodyReturns,
                allButPc, memVars
  <2>2. QED  BY <1>1, <2>1
<1>3. ASSUME NEW w \in Writers, TxBegin(w)
      PROVE  TxView'
  <2>1. FreshTx.base = Len(roots) /\ Tracks(FreshTx, Current)
    BY DEF FreshTx, Tracks, NoDelta
  <2>2. \A v \in Writers : tx'[v] = IF v = w THEN FreshTx ELSE tx[v]
    BY <1>0, <1>3 DEF TxBegin, TypeOK
  <2>3. UNCHANGED roots  BY <1>3 DEF TxBegin
  <2>4. QED  BY <1>0, <2>1, <2>2, <2>3 DEF TxView, InTx, Current
<1>4. ASSUME NEW w \in Writers, GiveUp(w) \/ Rollback(w)
      PROVE  TxView'
  <2>1. UNCHANGED roots
    BY <1>4 DEF GiveUp, Rollback, memVars
  <2>2. CASE GiveUp(w)  BY <2>1, <2>2, ReturnView DEF GiveUp
  <2>3. CASE Rollback(w)  BY <2>1, <2>3, ReturnView DEF Rollback
  <2>4. QED  BY <1>4, <2>2, <2>3
<1>5. ASSUME NEW w \in Writers, Finish(w)
      PROVE  TxView'
  <2>1. Return(w, "returned")  BY <1>5 DEF Finish
  <2>2. CASE ~InTx(w)
    <3>1. UNCHANGED roots  BY <1>5, <2>2 DEF Finish
    <3>2. QED  BY <2>1, <3>1, ReturnView
  \* Nobody else is in a transaction: the writer mutex is w's.
  <2>3. CASE InTx(w)
    <3>1. \A v \in Writers \ {w} : ~InTx(v)
      BY <1>0, <2>3 DEF LockInv, MutexHolder
    <3>2. \A v \in Writers : tx'[v] = IF v = w THEN NoTx ELSE tx[v]
      BY <1>0, <2>1, ReturnEffect
    <3>3. \A v \in Writers : ~InTx(v)'
      BY <3>1, <3>2, EmptyShapes DEF InTx
    <3>4. QED  BY <3>3 DEF TxView
  <2>4. QED  BY <2>2, <2>3
<1>6. ASSUME NEW w \in Writers, BodyStep(w)
      PROVE  TxView'
  <2>1. PICK t \in Tx : /\ Body(w, t)
                        /\ t.base = tx[w].base
                        /\ Tracks(tx[w], Current) => Tracks(t, Current)
    BY <1>0, <1>6, BodyStepShape
  <2>2. \A v \in Writers : tx'[v] = IF v = w THEN t ELSE tx[v]
    BY <1>0, <2>1 DEF Body, TypeOK
  <2>3. UNCHANGED roots  BY <2>1 DEF Body, memVars
  <2>4. Current' = Current  BY <2>3 DEF Current
  <2>5. ASSUME NEW v \in Writers, InTx(v)'
        PROVE  tx'[v].base = Len(roots') /\ Tracks(tx'[v], Current')
    <3>1. CASE v = w
      <4>1. InTx(w)  BY <2>1, <2>2, <2>5, <3>1 DEF InTx
      <4>2. QED  BY <1>0, <2>1, <2>2, <2>3, <2>4, <3>1, <4>1 DEF TxView
    <3>2. CASE v # w
      BY <1>0, <2>2, <2>3, <2>4, <2>5, <3>2 DEF TxView, InTx
    <3>3. QED  BY <3>1, <3>2
  <2>6. QED  BY <2>5 DEF TxView, InTx
<1>7. ASSUME Close
      PROVE  TxView'
  <2>1. UNCHANGED <<tx, roots>>  BY <1>7 DEF Close, memVars, callVars
  <2>2. QED  BY <1>1, <2>1
<1>8. ASSUME UNCHANGED vars
      PROVE  TxView'
  <2>1. UNCHANGED <<tx, roots>>  BY <1>8 DEF vars, memVars, callVars
  <2>2. QED  BY <1>1, <2>1
<1>9. ASSUME NEW w \in Writers, BodyConflicts(w)
      PROVE  TxView'
  <2>1. \A v \in Writers : tx'[v] = IF v = w THEN NoTx ELSE tx[v]
    BY <1>0, <1>9 DEF BodyConflicts, TypeOK
  <2>2. UNCHANGED roots  BY <1>9 DEF BodyConflicts
  <2>3. QED  BY <1>0, <2>1, <2>2, EmptyShapes DEF TxView, InTx, Current
<1>10. TxView'
  BY <1>2, <1>3, <1>4, <1>5, <1>6, <1>7, <1>8, <1>9 DEF Next, Writer, CallStep, BodyEnds
<1>11. QED  BY <1>0, <1>10 DEF ViewInv

\* So an open transaction always knows the live database.
LEMMA ViewInvariant == Spec => []ViewInv
  BY ViewInit, ViewStep, PTL DEF Spec

\* No commit overwrites a commit its transaction has not seen, for any number
\* of writers, with empty transactions and Close (memdb.go:176-187, 316).
THEOREM NoUpdateLost == Spec => []NoLostUpdate
<1>1. ViewInv => NoLostUpdate
  BY DEF ViewInv, TxView, NoLostUpdate
<1>2. QED  BY <1>1, ViewInvariant, PTL

----------------------------------------------------------------------------
(***************************************************************************)
(* Waiting for go-memdb's writer mutex                                     *)
(***************************************************************************)
\* When every body uses rwt, activeWriteTxn is exactly the holder of the
\* writer mutex, and txSrc has looked at it under mdb.Lock.
Announced ==
  /\ writerMutex # NoWriter => activeWriteTxn = writerMutex
  /\ \A w \in Writers : /\ pc[w] = "returned" => InTx(w)
                        /\ pc[w] = "opening" => activeWriteTxn = NoWriter

WaitInv == LockInv /\ Announced

\* At first nobody waits.
LEMMA WaitInit == Init => WaitInv
<1> SUFFICES ASSUME Init
             PROVE  WaitInv
  OBVIOUS
<1>1. writerMutex = NoWriter /\ \A w \in Writers : pc[w] = "idle"
  BY DEF Init
<1>2. QED  BY <1>1, LockInit DEF WaitInv, Announced

\* Without empty transactions, activeWriteTxn names whoever owns the mutex.
LEMMA WaitStep ==
  ASSUME ~MayBeEmpty
  PROVE  WaitInv /\ [Next]_vars => WaitInv'
<1> SUFFICES ASSUME WaitInv, [Next]_vars
             PROVE  WaitInv'
  OBVIOUS
<1>0. LockInv /\ LockInv' /\ Announced /\ TypeOK
  BY LockStep DEF WaitInv, LockInv
<1>t. /\ pc \in [Writers -> PcValues] /\ tx \in [Writers -> Tx]
      /\ NoWriter \notin Writers
  BY <1>0, ValuesAssumption DEF TypeOK, PcValues
<1>l. LockHolder /\ MutexHolder /\ TxPlaces
  BY <1>0 DEF LockInv
<1> USE DEF Announced, InTx
\* Steps that move one call and change nothing the invariant is about.
<1>1. ASSUME NEW w \in Writers,
             NEW p \in {"idle", "body", "panicked", "conflict", "failed"},
             pc' = [pc EXCEPT ![w] = p],
             UNCHANGED <<writerMutex, activeWriteTxn, tx>>
      PROVE  Announced'
  BY <1>0, <1>t, <1>1
<1>2. ASSUME NEW w \in Writers, Start(w) \/ Retry(w)
      PROVE  Announced'
  <2>1. /\ \E p \in {"body", "panicked"} : pc' = [pc EXCEPT ![w] = p]
        /\ UNCHANGED <<writerMutex, activeWriteTxn, tx>>
    BY <1>2 DEF Start, Retry, TakeRevision, dbVars, memVars
  <2>2. QED  BY <1>1, <2>1
<1>3. ASSUME NEW w \in Writers, TxConflict(w) \/ TxClosed(w) \/ BodyFails(w)
      PROVE  Announced'
  <2>1. /\ \E p \in {"conflict", "failed"} : pc' = [pc EXCEPT ![w] = p]
        /\ UNCHANGED <<writerMutex, activeWriteTxn, tx>>
    BY <1>3 DEF TxConflict, TxClosed, BodyFails, Goto, allButPc, dbVars, memVars
  <2>2. QED  BY <1>1, <2>1
<1>4. ASSUME NEW w \in Writers, TxLock(w)
      PROVE  Announced'
  <2>1. /\ activeWriteTxn = NoWriter /\ pc' = [pc EXCEPT ![w] = "opening"]
        /\ UNCHANGED <<writerMutex, activeWriteTxn, tx>>
    BY <1>4 DEF TxLock, Conflicts, Goto, memVars
  <2>2. QED  BY <1>0, <1>t, <2>1
\* mdb.Lock was w's, so nobody else has looked and not opened yet.
<1>5. ASSUME NEW w \in Writers, TxBegin(w)
      PROVE  Announced'
  <2>1. /\ pc[w] = "opening" /\ pc' = [pc EXCEPT ![w] = "intx"]
        /\ writerMutex' = w /\ activeWriteTxn' = w
        /\ tx' = [tx EXCEPT ![w] = FreshTx]
    BY <1>5 DEF TxBegin, Goto
  <2>2. \A v \in Writers \ {w} : pc[v] # "opening"
    BY <1>l, <2>1 DEF LockHolder
  <2>3. QED  BY <1>0, <1>t, <2>1, <2>2
<1>6. ASSUME NEW w \in Writers, GiveUp(w) \/ Rollback(w) \/ Finish(w)
      PROVE  Announced'
  <2>1. /\ pc[w] \in {"conflict", "failed", "returned"}
        /\ \A v \in Writers : /\ pc'[v] = IF v = w THEN "idle" ELSE pc[v]
                              /\ tx'[v] = IF v = w THEN NoTx ELSE tx[v]
    BY <1>0, <1>6, ReturnEffect DEF GiveUp, Rollback, Finish
  <2>2. \A v \in Writers : pc[v] # "opening"
    BY <1>6, <1>l, <1>t DEF GiveUp, Rollback, Finish, Unlocked, LockHolder
  <2>3. \A v \in Writers : /\ pc'[v] # "opening"
                           /\ pc'[v] = "returned" => tx'[v].base # 0
    BY <1>0, <2>1, <2>2
  <2>4. \/ UNCHANGED <<writerMutex, activeWriteTxn>>
        \/ writerMutex' = NoWriter /\ activeWriteTxn' = NoWriter
    <3>1. CASE GiveUp(w)  BY <3>1 DEF GiveUp, dbVars, memVars
    <3>2. CASE Rollback(w)  BY <3>2 DEF Rollback
    <3>3. CASE Finish(w)
      <4>1. InTx(w)  BY <1>0, <3>3, ReturnEffect DEF Finish
      <4>2. QED  BY <3>3, <4>1 DEF Finish
    <3>4. QED  BY <1>6, <3>1, <3>2, <3>3
  <2>5. QED  BY <1>0, <2>3, <2>4
<1>7. ASSUME NEW w \in Writers, BodyReturns(w)
      PROVE  Announced'
  <2>1. /\ pc[w] = "intx" /\ pc' = [pc EXCEPT ![w] = "returned"]
        /\ UNCHANGED <<writerMutex, activeWriteTxn, tx>>
    BY <1>7, ~MayBeEmpty DEF BodyReturns, allButPc, dbVars, memVars
  <2>2. QED  BY <1>0, <1>t, <1>l, <2>1 DEF TxPlaces
<1>8. ASSUME NEW w \in Writers, BodyStep(w)
      PROVE  Announced'
  <2>1. PICK t \in Tx : /\ Body(w, t)
                        /\ t.base = tx[w].base
                        /\ Tracks(tx[w], Current) => Tracks(t, Current)
    BY <1>0, <1>8, BodyStepShape
  <2>2. /\ tx' = [tx EXCEPT ![w] = t]
        /\ UNCHANGED <<pc, writerMutex, activeWriteTxn>>
    BY <2>1 DEF Body, dbVars, memVars
  <2>3. QED  BY <1>0, <1>t, <2>1, <2>2
<1>9. ASSUME Close \/ UNCHANGED vars
      PROVE  Announced'
  <2>1. UNCHANGED <<pc, tx, writerMutex, activeWriteTxn>>
    BY <1>9 DEF Close, vars, dbVars, memVars, callVars
  <2>2. QED  BY <1>0, <2>1
<1>10. ASSUME NEW w \in Writers, BodyConflicts(w)
       PROVE  Announced'
  <2>1. /\ pc[w] \in {"body", "intx"}
        /\ \A v \in Writers : /\ pc'[v] = IF v = w THEN "conflict" ELSE pc[v]
                              /\ tx'[v] = IF v = w THEN NoTx ELSE tx[v]
    BY <1>t, <1>10 DEF BodyConflicts
  <2>2. \/ UNCHANGED <<writerMutex, activeWriteTxn>>
        \/ writerMutex' = NoWriter /\ activeWriteTxn' = NoWriter
    BY <1>10 DEF BodyConflicts
  <2>3. QED  BY <1>0, <2>1, <2>2
<1> HIDE DEF Announced, InTx
<1>11. Announced'
  BY <1>2, <1>3, <1>4, <1>5, <1>6, <1>7, <1>8, <1>9, <1>10
     DEF Next, Writer, CallStep, BodyEnds
<1>12. QED  BY <1>0, <1>11 DEF WaitInv

\* If no body returns without using rwt, then no call ever waits for the writer
\* mutex while it holds mdb.Lock, for any number of writers: activeWriteTxn
\* refuses them all (memdb.go:173-187).
THEOREM NoWaitUnderLock ==
  ASSUME ~MayBeEmpty
  PROVE  Spec => []NeverWaitsUnderLock
<1>1. WaitInv /\ [Next]_vars => WaitInv'
  BY ~MayBeEmpty, WaitStep
<1>2. WaitInv => NeverWaitsUnderLock
  BY DEF WaitInv, Announced, NeverWaitsUnderLock
<1>3. QED  BY <1>1, <1>2, WaitInit, PTL DEF Spec

----------------------------------------------------------------------------
(***************************************************************************)
(* The revisions slice                                                     *)
(***************************************************************************)
SnapshotInv ==
  /\ TypeOK
  /\ SnapshotsInCommitOrder
  /\ isOpen => revisions # <<>>

\* The first revision holds the live database.
LEMMA SnapshotInit == Init => SnapshotInv
<1> SUFFICES ASSUME Init
             PROVE  SnapshotInv
  OBVIOUS
<1>1. Len(roots) = 1 /\ Len(revisions) = 1 /\ revisions[1].db = Live
  BY DEF Init
<1>2. QED
  BY <1>1, TypeInit DEF Init, SnapshotInv, SnapshotsInCommitOrder, RootOf

\* The databases of revisions are numbers of roots, or Live.
LEMMA SnapshotDb ==
  ASSUME TypeOK
  PROVE  \A i \in DOMAIN revisions : revisions[i].db \in Nat
<1>1. \A i \in DOMAIN revisions : revisions[i] \in Snapshot
  BY DEF TypeOK
<1>2. QED  BY <1>1 DEF Snapshot

\* Roots may be published while the revisions stay, unless the datastore is
\* open: the order is kept.
LEMMA OrderKept ==
  ASSUME SnapshotInv, TypeOK', UNCHANGED revisions, Len(roots) <= Len(roots'),
         isOpen' => isOpen /\ UNCHANGED roots
  PROVE  SnapshotsInCommitOrder'
<1>0. roots \in Seq(Root) /\ roots' \in Seq(Root)
  BY DEF SnapshotInv, TypeOK
<1>1. /\ Len(roots) \in Nat /\ Len(roots') \in Nat
      /\ DOMAIN roots = 1..Len(roots) /\ DOMAIN roots' = 1..Len(roots')
  BY <1>0
<1>2. \A i \in DOMAIN revisions : revisions[i].db \in Nat
  BY SnapshotDb DEF SnapshotInv
<1>3. QED
  BY <1>1, <1>2 DEF SnapshotInv, SnapshotsInCommitOrder, RootOf, Live

\* Every step appends its snapshots in commit order.
LEMMA SnapshotStep == SnapshotInv /\ [Next]_vars => SnapshotInv'
<1> SUFFICES ASSUME SnapshotInv, [Next]_vars
             PROVE  SnapshotInv'
  OBVIOUS
<1> DEFINE Rest == SnapshotsInCommitOrder /\ (isOpen => revisions # <<>>)
<1>0. TypeOK /\ TypeOK' /\ Rest
  BY TypeStep DEF SnapshotInv
<1>1. ASSUME UNCHANGED <<revisions, roots, isOpen>>
      PROVE  Rest'
  BY <1>0, <1>1 DEF SnapshotsInCommitOrder, RootOf
<1>2. ASSUME NEW w \in Writers, Finish(w)
      PROVE  Rest'
  <2>1. Len(roots) \in Nat /\ Len(roots') \in Nat /\ Len(roots) <= Len(roots')
    <3>1. CASE InTx(w)
      <4>1. roots' = Append(roots, CommittedRoot(w))  BY <1>2, <3>1 DEF Finish
      <4>2. Len(roots') = Len(roots) + 1 /\ Len(roots) \in Nat
        BY <1>0, <4>1 DEF TypeOK
      <4>3. QED  BY <4>2
    <3>2. CASE ~InTx(w)
      BY <1>0, <1>2, <3>2 DEF Finish, TypeOK
    <3>3. QED  BY <3>1, <3>2
  <2>2. UNCHANGED isOpen  BY <1>2 DEF Finish
  <2>3. CASE ~isOpen
    <3>1. UNCHANGED revisions  BY <1>2, <2>3 DEF Finish
    <3>2. QED  BY <1>0, <2>1, <2>2, <2>3, <3>1, OrderKept
  <2>4. CASE isOpen
    <3>1. revisions' = Append(revisions, SnapshotAfter(w))  BY <1>2, <2>4 DEF Finish
    <3>2. revisions \in Seq(Snapshot) /\ SnapshotAfter(w).db = Len(roots')
      BY <1>0 DEF TypeOK, SnapshotAfter
    <3>3. /\ Len(revisions') = Len(revisions) + 1 /\ Len(revisions) \in Nat
          /\ revisions'[Len(revisions) + 1].db = Len(roots')
          /\ \A i \in 1..Len(revisions) : revisions'[i] = revisions[i]
          /\ revisions' # <<>>
      BY <3>1, <3>2
    <3>4. /\ DOMAIN roots = 1..Len(roots) /\ DOMAIN roots' = 1..Len(roots')
          /\ DOMAIN revisions = 1..Len(revisions)
          /\ DOMAIN revisions' = 1..(Len(revisions) + 1)
          /\ Len(roots') # 0
      BY <1>0, <3>3 DEF TypeOK
    <3>5. \A i \in DOMAIN revisions :
            /\ revisions[i].db \in Nat
            /\ RootOf(revisions[i]) \in 1..Len(roots)
      BY <1>0, <3>4, SnapshotDb DEF SnapshotsInCommitOrder
    <3>6. \A i \in DOMAIN revisions' : RootOf(revisions[i])' \in 1..Len(roots')
      BY <2>1, <3>3, <3>4, <3>5 DEF RootOf, Live
    <3>7. ASSUME NEW i \in DOMAIN revisions', NEW j \in DOMAIN revisions', i < j,
                 revisions'[i].db # Live
          PROVE  revisions'[i].db <= RootOf(revisions[j])'
      <4>1. i \in DOMAIN revisions /\ revisions'[i] = revisions[i]
        BY <3>3, <3>4, <3>7
      <4>2. revisions[i].db \in Nat /\ revisions[i].db <= Len(roots')
        BY <2>1, <3>5, <3>7, <4>1 DEF RootOf
      <4>3. CASE j = Len(revisions) + 1
        BY <3>3, <3>4, <4>1, <4>2, <4>3 DEF RootOf, Live
      <4>4. CASE j # Len(revisions) + 1
        <5>1. j \in DOMAIN revisions /\ revisions'[j] = revisions[j]
          BY <3>3, <3>4, <4>4
        <5>2. revisions[i].db <= RootOf(revisions[j])
          BY <1>0, <3>7, <4>1, <5>1 DEF SnapshotsInCommitOrder
        <5>3. QED  BY <2>1, <4>1, <4>2, <5>1, <5>2 DEF RootOf
      <4>5. QED  BY <4>3, <4>4
    <3>8. RootOf(revisions[Len(revisions)])' = Len(roots')
      BY <3>3 DEF RootOf, Live
    <3>9. QED  BY <3>3, <3>4, <3>6, <3>7, <3>8 DEF SnapshotsInCommitOrder
  <2>5. QED  BY <2>3, <2>4
<1>3. ASSUME Close
      PROVE  Rest'
  <2>1. /\ \/ revisions' = <<>>
           \/ revisions' = <<[revision |-> clock', db |-> Live]>>
        /\ UNCHANGED roots /\ ~isOpen'
    BY <1>3 DEF Close, memVars
  <2>2. Len(roots') \in DOMAIN roots'  BY <1>0, <2>1 DEF TypeOK
  <2>3. QED  BY <2>1, <2>2 DEF SnapshotsInCommitOrder, RootOf
<1>4. ASSUME NEW w \in Writers,
             \/ Start(w) \/ TxConflict(w) \/ TxClosed(w) \/ TxLock(w) \/ TxBegin(w)
             \/ Retry(w) \/ GiveUp(w) \/ Rollback(w) \/ BodyEnds(w)
      PROVE  Rest'
  <2>1. UNCHANGED <<revisions, roots, isOpen>>
    BY <1>4 DEF Start, TxConflict, TxClosed, TxLock, TxBegin, Retry, GiveUp, Rollback,
                BodyEnds, BodyFails, BodyConflicts, BodyReturns, allButPc, dbVars, memVars
  <2>2. QED  BY <1>1, <2>1
<1>5. ASSUME NEW w \in Writers, BodyStep(w)
      PROVE  Rest'
  <2>1. PICK t \in Tx : /\ Body(w, t)
                        /\ t.base = tx[w].base
                        /\ Tracks(tx[w], Current) => Tracks(t, Current)
    BY <1>0, <1>5, BodyStepShape
  <2>2. UNCHANGED <<revisions, roots, isOpen>>
    BY <2>1 DEF Body, dbVars, memVars
  <2>3. QED  BY <1>1, <2>2
<1>6. ASSUME UNCHANGED vars
      PROVE  Rest'
  <2>1. UNCHANGED <<revisions, roots, isOpen>>
    BY <1>6 DEF vars, dbVars, memVars
  <2>2. QED  BY <1>1, <2>1
<1> HIDE DEF Rest
<1>7. Rest'
  BY <1>2, <1>3, <1>4, <1>5, <1>6 DEF Next, Writer, CallStep
<1>8. QED  BY <1>0, <1>7 DEF SnapshotInv, Rest

\* However calls and Close interleave, the revisions slice follows the order of
\* the commits and its last entry shows the live database (memdb.go:316-327).
THEOREM SnapshotsOrdered == Spec => []SnapshotsInCommitOrder
<1>1. SnapshotInv => SnapshotsInCommitOrder
  BY DEF SnapshotInv
<1>2. QED  BY <1>1, SnapshotInit, SnapshotStep, PTL DEF Spec

----------------------------------------------------------------------------
(***************************************************************************)
(* Calls of a closed datastore                                             *)
(***************************************************************************)
\* A datastore closed at most once keeps a revision to index.
PanicInv ==
  /\ closes \in Nat /\ closes <= MaxCloses
  /\ closes = 0 => isOpen
  /\ revisions # <<>>
  /\ pc \in [Writers -> PcValues]
  /\ CallsNeverPanic

\* At first nothing is closed, and there is the first revision.
LEMMA PanicInit == Init => PanicInv
  BY NumbersAssumption DEF Init, PanicInv, PcValues, CallsNeverPanic

\* The first call of Close leaves the revision of the closed database, and only
\* a second one would take it away.
LEMMA PanicStep ==
  ASSUME MaxCloses <= 1
  PROVE  TypeOK /\ TypeOK' /\ PanicInv /\ [Next]_vars => PanicInv'
<1> SUFFICES ASSUME TypeOK, TypeOK', PanicInv, [Next]_vars
             PROVE  PanicInv'
  OBVIOUS
<1> USE DEF PanicInv, CallsNeverPanic
\* Steps of one call that leave the datastore open or closed as it is.
<1>1. ASSUME NEW w \in Writers, NEW p \in PcValues \ {"panicked"},
             pc' = [pc EXCEPT ![w] = p], UNCHANGED <<closes, isOpen>>,
             revisions' # <<>>
      PROVE  PanicInv'
  BY <1>1
<1>2. ASSUME NEW w \in Writers, Start(w) \/ Retry(w)
      PROVE  PanicInv'
  <2>1. pc' = [pc EXCEPT ![w] = "body"] /\ UNCHANGED <<closes, isOpen, revisions>>
    BY <1>2 DEF Start, Retry, TakeRevision, dbVars
  <2>2. QED  BY <1>1, <2>1 DEF PcValues
<1>3. ASSUME NEW w \in Writers,
             \/ TxConflict(w) \/ TxClosed(w) \/ TxLock(w) \/ TxBegin(w)
             \/ GiveUp(w) \/ Rollback(w) \/ BodyEnds(w)
      PROVE  PanicInv'
  <2>1. /\ \E p \in PcValues \ {"panicked"} : pc' = [pc EXCEPT ![w] = p]
        /\ UNCHANGED <<closes, isOpen, revisions>>
    BY <1>3 DEF TxConflict, TxClosed, TxLock, TxBegin, GiveUp, Rollback, BodyEnds,
                BodyFails, BodyConflicts, BodyReturns, Return, Goto, PcValues,
                allButPc, dbVars
  <2>2. QED  BY <1>1, <2>1
<1>4. ASSUME NEW w \in Writers, Finish(w)
      PROVE  PanicInv'
  <2>1. /\ pc' = [pc EXCEPT ![w] = "idle"] /\ UNCHANGED <<closes, isOpen>>
        /\ revisions' = revisions \/ revisions' = Append(revisions, SnapshotAfter(w))
    BY <1>4 DEF Finish, Return, Goto
  <2>2. revisions' # <<>>  BY <2>1 DEF TypeOK
  <2>3. QED  BY <1>1, <2>1, <2>2 DEF PcValues
<1>5. ASSUME Close
      PROVE  PanicInv'
  <2>1. closes = 0 /\ isOpen
    BY <1>5, MaxCloses <= 1, NumbersAssumption DEF Close
  <2>2. /\ closes' = 1 /\ MaxCloses = 1
        /\ revisions' = <<[revision |-> clock', db |-> Live]>>
    BY <1>5, <2>1, MaxCloses <= 1, NumbersAssumption DEF Close
  <2>3. UNCHANGED pc  BY <1>5 DEF Close, callVars
  <2>4. QED  BY <2>2, <2>3
<1>6. ASSUME NEW w \in Writers, BodyStep(w)
      PROVE  PanicInv'
  <2>1. PICK t \in Tx : Body(w, t)  BY <1>6, BodyStepShape
  <2>2. UNCHANGED <<closes, isOpen, revisions, pc>>  BY <2>1 DEF Body, dbVars
  <2>3. QED  BY <2>2
<1>7. ASSUME UNCHANGED vars
      PROVE  PanicInv'
  <2>1. UNCHANGED <<closes, isOpen, revisions, pc>>
    BY <1>7 DEF vars, dbVars, callVars
  <2>2. QED  BY <2>1
<1> HIDE DEF PanicInv
<1>8. QED
  BY <1>2, <1>3, <1>4, <1>5, <1>6, <1>7 DEF Next, Writer, CallStep

\* If the datastore is closed at most once, no call panics, at whatever moment
\* that happens (memdb_test.go:120 against revisions.go:21 and memdb.go:364-382).
THEOREM OneCloseNoPanic ==
  ASSUME MaxCloses <= 1
  PROVE  Spec => []CallsNeverPanic
<1>1. TypeOK /\ PanicInv /\ [Next]_vars => (TypeOK /\ PanicInv)'
  BY MaxCloses <= 1, TypeStep, PanicStep
<1>2. PanicInv => CallsNeverPanic
  BY DEF PanicInv
<1>3. QED  BY <1>1, <1>2, TypeInit, PanicInit, PTL DEF Spec

----------------------------------------------------------------------------
(***************************************************************************)
(* ReadWriteTx implements SerialStore                                      *)
(***************************************************************************)
\* The log of the atomic store: the transactions behind the roots.
CommitLog == [i \in 1..(Len(roots) - 1) |-> Committed(roots[i + 1])]

\* The first root is an empty store.
LEMMA StoreInit == Init => Store!Init
<1> SUFFICES ASSUME Init
             PROVE  Store!Init
  OBVIOUS
<1>1. Len(roots) = 1 /\ Current.rows = EmptyRows
  BY DEF Init, Current
<1>2. CommitLog = <<>>
  BY <1>1 DEF CommitLog
<1>3. QED
  BY <1>1, <1>2 DEF Init, Store!Init, EmptyRows, CommitLog

\* The rows a transaction leaves are the live rows with its net changes.
LEMMA ChangesApply ==
  ASSUME NEW t \in Tx, t.base = Len(roots), Tracks(t, Current)
  PROVE  /\ t.rows = [k \in Keys |-> IF Changes(t)[k] = Untouched
                                     THEN Current.rows[k] ELSE Changes(t)[k]]
         /\ \A k \in Keys : t.reads[k] \in {Untouched, Current.rows[k]}
<1>1. t.rows \in [Keys -> Cells] /\ roots[t.base] = Current
  BY DEF Tx, Current
<1>2. \A k \in Keys :
        t.rows[k] = IF Changes(t)[k] = Untouched
                    THEN Current.rows[k] ELSE Changes(t)[k]
  BY <1>1, ValuesAssumption DEF Tracks, Changes
<1>3. QED  BY <1>1, <1>2 DEF Tracks

\* A commit appends its transaction to the log and its changes to the rows.
LEMMA CommitTakesEffect ==
  ASSUME ViewInv, NEW w \in Writers, Finish(w), InTx(w)
  PROVE  /\ Store!TakesEffect
         /\ CommitLog'[Len(CommitLog')].revision = newRevision[w]
         /\ Len(CommitLog') + 1 = Len(roots')
<1>1. /\ tx[w] \in Tx /\ tx[w].base = Len(roots) /\ Tracks(tx[w], Current)
      /\ roots \in Seq(Root) /\ Len(roots) \in Nat \ {0}
  BY DEF ViewInv, TxView, LockInv, TypeOK
<1>2. roots' = Append(roots, CommittedRoot(w))
  BY DEF Finish
<1>3. /\ Len(roots') = Len(roots) + 1
      /\ \A i \in 1..Len(roots) : roots'[i] = roots[i]
      /\ roots'[Len(roots) + 1] = CommittedRoot(w)
  BY <1>1, <1>2
<1>4. /\ CommitLog = [i \in 1..(Len(roots) - 1) |-> Committed(roots[i + 1])]
      /\ CommitLog' = [i \in 1..Len(roots) |-> Committed(roots'[i + 1])]
  BY <1>1, <1>3 DEF CommitLog, Committed
<1>5. /\ DOMAIN CommitLog = 1..(Len(roots) - 1)
      /\ Len(CommitLog) = Len(roots) - 1 /\ Len(CommitLog') = Len(roots)
      /\ \A i \in 1..(Len(roots) - 1) : CommitLog'[i] = CommitLog[i]
      /\ CommitLog'[Len(roots)] = Committed(CommittedRoot(w))
  BY <1>1, <1>3, <1>4
<1>6. /\ Committed(CommittedRoot(w)).reads = tx[w].reads
      /\ Committed(CommittedRoot(w)).changes = Changes(tx[w])
      /\ Committed(CommittedRoot(w)).revision = newRevision[w]
  BY DEF Committed, CommittedRoot
<1>7. Current'.rows = tx[w].rows
  BY <1>1, <1>3 DEF Current, CommittedRoot
<1>8. Store!TakesEffect
  <2>1. /\ Len(CommitLog') = Len(CommitLog) + 1
        /\ \A i \in DOMAIN CommitLog : CommitLog'[i] = CommitLog[i]
    BY <1>1, <1>5
  <2>2. \A k \in Keys :
          CommitLog'[Len(CommitLog')].reads[k] \in {Untouched, Current.rows[k]}
    <3>1. CommitLog'[Len(CommitLog')].reads = tx[w].reads
      BY <1>5, <1>6
    <3>2. \A k \in Keys : tx[w].reads[k] \in {Untouched, Current.rows[k]}
      BY <1>1, ChangesApply
    <3>3. QED  BY <3>1, <3>2
  <2>3. CommitLog'[Len(CommitLog')].changes = Changes(tx[w])
    BY <1>5, <1>6
  <2>4. tx[w].rows = [k \in Keys |-> IF Changes(tx[w])[k] = Untouched
                                    THEN Current.rows[k] ELSE Changes(tx[w])[k]]
    BY <1>1, ChangesApply
  <2>5. Current'.rows = [k \in Keys |->
                           IF CommitLog'[Len(CommitLog')].changes[k] = Untouched
                           THEN Current.rows[k]
                           ELSE CommitLog'[Len(CommitLog')].changes[k]]
    BY <1>7, <2>3, <2>4
  <2>6. QED  BY <2>1, <2>2, <2>5 DEF Store!TakesEffect, CommitLog
<1>9. QED  BY <1>1, <1>3, <1>5, <1>6, <1>8

\* Steps that publish nothing and acknowledge nothing do nothing there.
LEMMA StoreStutters ==
  ASSUME UNCHANGED <<roots, isOpen, acked>>
  PROVE  UNCHANGED Store!storeVars
  BY DEF Store!storeVars, Current, Committed

\* A commit is a transaction of the store, Close closes it, and every other step
\* leaves it alone.
LEMMA StoreStep == ViewInv /\ [Next]_vars => [Store!Next]_(Store!storeVars)
<1> SUFFICES ASSUME ViewInv, [Next]_vars
             PROVE  Store!Next \/ UNCHANGED Store!storeVars
  OBVIOUS
<1>0. TypeOK  BY DEF ViewInv, LockInv
<1>1. ASSUME NEW w \in Writers, Finish(w)
      PROVE  Store!Next \/ UNCHANGED Store!storeVars
  <2>1. UNCHANGED isOpen  BY <1>1 DEF Finish
  <2> DEFINE ack == [revision |-> newRevision[w], root |-> Len(roots')]
  <2>2. isOpen => ack \in acked' /\ acked' = acked \cup {ack}
    BY <1>1 DEF Finish
  <2>3. CASE isOpen /\ InTx(w)
    <3>1. /\ Store!TakesEffect
          /\ CommitLog'[Len(CommitLog')].revision = ack.revision
          /\ ack.root = Len(CommitLog') + 1
      BY <1>1, <2>3, CommitTakesEffect
    <3>2. Store!Commit
      BY <2>1, <2>2, <2>3, <3>1 DEF Store!Commit, Store!NamesNewState, CommitLog
    <3>3. QED  BY <3>2 DEF Store!Next
  <2>4. CASE isOpen /\ ~InTx(w)
    <3>1. UNCHANGED roots  BY <1>1, <2>4 DEF Finish
    <3>2. CommitLog' = CommitLog /\ Current' = Current
      BY <3>1 DEF CommitLog, Committed, Current
    <3>3. Len(CommitLog) = Len(roots) - 1 /\ Len(roots) \in Nat \ {0}
      BY <1>0 DEF CommitLog, TypeOK
    <3>4. ack.root = Len(CommitLog') + 1
      BY <3>1, <3>2, <3>3
    <3>5. Store!CommitNothing
      BY <2>1, <2>2, <2>4, <3>2, <3>4
         DEF Store!CommitNothing, Store!NamesNewState, CommitLog
    <3>6. QED  BY <3>5 DEF Store!Next
  <2>5. CASE ~isOpen /\ InTx(w)
    <3>1. Store!TakesEffect  BY <1>1, <2>5, CommitTakesEffect
    <3>2. UNCHANGED acked  BY <1>1, <2>5 DEF Finish
    <3>3. Store!CommitUnanswered
      BY <2>1, <2>5, <3>1, <3>2 DEF Store!CommitUnanswered
    <3>4. QED  BY <3>3 DEF Store!Next
  <2>6. CASE ~isOpen /\ ~InTx(w)
    <3>1. UNCHANGED <<roots, isOpen, acked>>  BY <1>1, <2>1, <2>6 DEF Finish
    <3>2. QED  BY <3>1, StoreStutters
  <2>7. QED  BY <2>3, <2>4, <2>5, <2>6
<1>2. ASSUME Close
      PROVE  Store!Next
  <2>1. UNCHANGED <<roots, acked>> /\ isOpen' = FALSE
    BY <1>2 DEF Close, memVars
  <2>2. Store!Close
    BY <2>1 DEF Store!Close, Current, Committed
  <2>3. QED  BY <2>2 DEF Store!Next
<1>3. ASSUME NEW w \in Writers,
             \/ Start(w) \/ TxConflict(w) \/ TxClosed(w) \/ TxLock(w) \/ TxBegin(w)
             \/ Retry(w) \/ GiveUp(w) \/ Rollback(w) \/ BodyEnds(w)
      PROVE  UNCHANGED Store!storeVars
  <2>1. UNCHANGED <<roots, isOpen, acked>>
    BY <1>3 DEF Start, TxConflict, TxClosed, TxLock, TxBegin, Retry, GiveUp, Rollback,
                BodyEnds, BodyFails, BodyConflicts, BodyReturns, allButPc, dbVars, memVars
  <2>2. QED  BY <2>1, StoreStutters
<1>4. ASSUME NEW w \in Writers, BodyStep(w)
      PROVE  UNCHANGED Store!storeVars
  <2>1. PICK t \in Tx : /\ Body(w, t)
                        /\ t.base = tx[w].base
                        /\ Tracks(tx[w], Current) => Tracks(t, Current)
    BY <1>0, <1>4, BodyStepShape
  <2>2. UNCHANGED <<roots, isOpen, acked>>
    BY <2>1 DEF Body, dbVars, memVars
  <2>3. QED  BY <2>2, StoreStutters
<1>5. ASSUME UNCHANGED vars
      PROVE  UNCHANGED Store!storeVars
  <2>1. UNCHANGED <<roots, isOpen, acked>>  BY <1>5 DEF vars, dbVars, memVars
  <2>2. QED  BY <2>1, StoreStutters
<1>6. QED
  BY <1>1, <1>2, <1>3, <1>4, <1>5 DEF Next, Writer, CallStep

\* For any number of writers, keys and retries, and with Close at any moment,
\* ReadWriteTx implements the store whose transactions are atomic: committed
\* transactions are serializable in commit order (memdb.go:156-331).
THEOREM WritersSerializable == Spec => Serializable
  BY StoreInit, StoreStep, ViewInvariant, PTL DEF Spec, Serializable, Store!Spec
=============================================================================
