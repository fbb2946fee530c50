------------------------ MODULE CollectedStoreProofs ------------------------
(* What a run of garbage collection deletes and what it leaves to be read, for any
   number of nodes, failures and writes, and any values and chunks. *)
EXTENDS CollectedStore, WellFoundedInduction, FiniteSetTheorems, SequenceTheorems, TLAPS

Places == {"waiting", "locked", "dated", "deleting", "expiring", "unlocking", "stopped"}

Worker == [at : Places, now : Nat, watermark : Int, failed : BOOLEAN]

Types ==
  /\ time \in 1..MaxTime
  /\ writeMode \in WriteModes
  /\ worker \in [Nodes -> Worker]
  /\ collectedTo \in [Nodes -> Int]
  /\ written \in Seq([at : Nat, value : Values \cup {Missing}])

\* A row has died at a time of the past, or lives.
RowsInv ==
  \A r \in rows : /\ {"deleted"} \subseteq DOMAIN r
                  /\ r.deleted \in 1..AliveValue

\* What a worker knows of the clock: its watermark is before the window, and
\* the first transaction is after any garbage of none.
WorkerInv(n) ==
  /\ worker[n].at = "dated" => worker[n].now <= time
  /\ worker[n].at \in {"deleting", "expiring"} =>
       worker[n].watermark = 0 \/ worker[n].watermark < time - Window
  /\ worker[n].at = "expiring" /\ ~worker[n].failed => Garbage(worker[n].watermark) = {}
  /\ collectedTo[n] # Never => /\ collectedTo[n] < time
                               /\ Garbage(collectedTo[n]) = {}

\* Who is in a run holds the lock.
LockInv ==
  \A n \in Nodes :
    worker[n].at \in {"locked", "dated", "deleting", "expiring", "unlocking"} => gcLock = n

GCInv == Types /\ RowsInv /\ LockInv /\ \A n \in Nodes : WorkerInv(n)

\* The bounds of the clock.
LEMMA Constants ==
  /\ Window \in Nat /\ MaxTime \in Nat \ {0} /\ AliveValue = MaxTime + 1
  BY ClockAssumption DEF AliveValue

\* A set of numbers up to m that is not empty has a greatest one.
LEMMA GreatestExists ==
  ASSUME NEW m \in Nat, NEW T \in SUBSET (1..m), T # {}
  PROVE  \E i \in T : \A j \in T : j <= i
<1> DEFINE D == {m - i : i \in T}
<1>1. D \in SUBSET Nat /\ D # {}
  <2>1. ASSUME NEW i \in T PROVE m - i \in Nat
    OBVIOUS
  <2> QED
    BY <2>1
<1>2. PICK d \in D : \A e \in D : <<e, d>> \notin OpToRel(<, Nat)
  BY <1>1, NatLessThanWellFounded, WFMin
<1>3. \A e \in D : ~(e < d)
  BY <1>1, <1>2 DEF OpToRel
<1>4. PICK i \in T : d = m - i
  OBVIOUS
<1>5. ASSUME NEW j \in T PROVE j <= i
  <2>1. m - j \in D
    OBVIOUS
  <2>2. ~(m - j < m - i)
    BY <2>1, <1>3, <1>4
  <2> QED
    BY <2>2
<1> QED
  BY <1>5

\* The watermark is the date of a transaction from before the window, or none.
LEMMA WatermarkBefore ==
  ASSUME Types, NEW n \in Nodes, worker[n].now <= time
  PROVE  /\ Watermark(n) \in Nat
         /\ Watermark(n) = 0 \/ Watermark(n) < time - Window
<1> DEFINE before == {i \in DOMAIN written : written[i].at < worker[n].now - Window}
           last == CHOOSE i \in before : \A j \in before : j <= i
<1>1. CASE before = {}
  BY <1>1 DEF Watermark
<1>2. CASE before # {}
  <2>1. before \in SUBSET (1..Len(written)) /\ Len(written) \in Nat
    BY DEF Types
  <2> HIDE DEF before
  <2>2. last \in before
    BY <2>1, <1>2, GreatestExists
  <2>3. Watermark(n) = written[last].at
    BY <1>2 DEF Watermark, before
  <2> HIDE DEF last
  <2>4. last \in DOMAIN written /\ written[last].at < worker[n].now - Window
    BY <2>2 DEF before
  <2>5. written[last].at \in Nat
    <3> DEFINE Entry == [at : Nat, value : Values \cup {Missing}]
    <3>1. \A e \in Entry : e.at \in Nat
      OBVIOUS
    <3>2. written \in Seq(Entry)
      BY DEF Types
    <3> HIDE DEF Entry
    <3>3. written[last] \in Entry
      BY <3>2, <2>4
    <3> QED
      BY <3>1, <3>3
  <2>6. worker[n].now \in Nat /\ time \in Nat
    <3>1. worker[n] \in Worker
      BY DEF Types
    <3> QED
      BY <3>1 DEF Worker, Types
  <2> QED
    BY <2>3, <2>4, <2>5, <2>6, Constants
<1> QED
  BY <1>1, <1>2

\* What the invariant says of one worker.
LEMMA OneWorker ==
  ASSUME GCInv, NEW n \in Nodes
  PROVE  /\ worker[n] \in Worker /\ worker[n].at \in Places /\ worker[n].now \in Nat
         /\ worker[n].watermark \in Int /\ worker[n].failed \in BOOLEAN
         /\ collectedTo[n] \in Int /\ time \in 1..MaxTime
         /\ \A place : Goes(n, place) => worker'[n] = place
  BY DEF GCInv, Types, Worker, Goes

\* Rows that are not garbage stay so, of watermarks of the past, when new rows
\* live and old ones die now.
LEMMA NoNewGarbage ==
  ASSUME GCInv, NEW w \in Int, w < time, Garbage(w) = {},
         \A r \in rows' : \/ r.deleted \in {time, AliveValue}
                          \/ r \in rows
  PROVE  Garbage(w)' = {}
<1>1. \A r \in rows' : ~(r.deleted <= w)
  BY Constants, SMTT(30) DEF Garbage, GCInv, Types
<1> QED
  BY <1>1 DEF Garbage

\* A step of one worker that leaves the table alone keeps what the others know.
LEMMA PlaceKeeps ==
  ASSUME GCInv, NEW n \in Nodes, NEW place \in Worker, Goes(n, place),
         UNCHANGED <<time, storeVars>>,
         place.at \in {"locked", "dated", "deleting", "expiring", "unlocking"} => gcLock' = n,
         \A m \in Nodes \ {n} : gcLock = m => gcLock' = m,
         collectedTo' \in [Nodes -> Int],
         \A m \in Nodes \ {n} : collectedTo'[m] = collectedTo[m],
         WorkerInv(n)'
  PROVE  GCInv'
<1>1. /\ worker' \in [Nodes -> Worker] /\ worker'[n] = place
      /\ \A m \in Nodes \ {n} : worker'[m] = worker[m]
  BY DEF GCInv, Types, Goes
<1>2. Types' /\ RowsInv'
  BY <1>1 DEF GCInv, Types, RowsInv, storeVars
<1>3. LockInv'
  BY <1>1 DEF GCInv, LockInv
<1>4. ASSUME NEW m \in Nodes PROVE WorkerInv(m)'
  BY <1>1 DEF GCInv, WorkerInv, Garbage, storeVars
<1> QED
  BY <1>2, <1>3, <1>4 DEF GCInv

\* Every call of a run but the one that deletes.
LEMMA RunKeeps ==
  ASSUME GCInv, NEW n \in Nodes, Run(n)
  PROVE  GCInv'
<1> USE DEF Run
<1> DEFINE Goal(at, now, watermark) ==
        /\ Goes(n, Place(at, now, watermark, FALSE))
        /\ at \in {"locked", "dated", "deleting", "expiring", "unlocking"} => gcLock' = n
        /\ \A m \in Nodes \ {n} : gcLock = m => gcLock' = m
        /\ at = "dated" => now <= time
        /\ at = "deleting" => watermark = 0 \/ watermark < time - Window
        /\ at # "expiring"
        /\ \/ collectedTo' = collectedTo
           \/ /\ worker[n].at = "expiring" /\ ~worker[n].failed
              /\ collectedTo' = [collectedTo EXCEPT ![n] = worker[n].watermark]
<1>1. PICK at \in Places, now \in Nat, watermark \in Int : Goal(at, now, watermark)
  <2>1. worker[n].at \in {"locked", "dated", "deleting", "expiring", "unlocking"} => gcLock = n
    BY DEF GCInv, LockInv
  <2>2. Never \in Int /\ time \in Nat /\ 0 \in Nat /\ Places = {"waiting", "locked", "dated",
                 "deleting", "expiring", "unlocking", "stopped"}
    BY Constants DEF Never, GCInv, Types, Places
  <2>3. CASE BeginInVain(n)
    <3>1. Goal("waiting", 0, Never)
      BY <2>1, <2>3 DEF BeginInVain, Waiting, Never
    <3> HIDE DEF Goal
    <3> QED
      BY <2>2, <3>1
  <2>4. CASE LockForGCRun(n)
    <3>1. Goal("locked", 0, Never)
      BY <2>1, <2>4, NodesAssumption DEF LockForGCRun, Never
    <3> HIDE DEF Goal
    <3> QED
      BY <2>2, <3>1
  <2>5. CASE Now(n)
    <3>1. /\ Goes(n, Place("dated", time, Never, FALSE)) /\ worker[n].at = "locked"
          /\ gcLock' = gcLock /\ collectedTo' = collectedTo
      BY <2>5 DEF Now
    <3>2. time <= time
      BY Constants DEF GCInv, Types
    <3>3. Goal("dated", time, Never)
      BY <2>1, <3>1, <3>2
    <3> HIDE DEF Goal
    <3> QED
      BY <2>2, <3>3
  <2>6. CASE Fails(n)
    <3>1. Goal("unlocking", 0, Never)
      BY <2>1, <2>6 DEF Fails, Never
    <3> HIDE DEF Goal
    <3> QED
      BY <2>2, <3>1
  <2>7. CASE TxIDBefore(n)
    <3>1. worker[n].now <= time /\ Types /\ worker[n].at = "dated"
      BY <2>7 DEF TxIDBefore, GCInv, WorkerInv
    <3>2. Watermark(n) \in Nat /\ (Watermark(n) = 0 \/ Watermark(n) < time - Window)
      BY <3>1, WatermarkBefore
    <3>3. Goal("deleting", 0, Watermark(n))
      BY <2>1, <2>7, <3>1, <3>2 DEF TxIDBefore
    <3> HIDE DEF Goal
    <3> QED
      BY <2>2, <3>2, <3>3
  <2>8. CASE DeleteExpiredRels(n)
    <3>1. Goal("unlocking", 0, Never)
      BY <2>1, <2>8 DEF DeleteExpiredRels, MarkGCCompleted, Never
    <3> HIDE DEF Goal
    <3> QED
      BY <2>2, <3>1
  <2>9. CASE UnlockAfterGCRun(n)
    <3>1. Goal("waiting", 0, Never)
      BY <2>1, <2>9, NodesAssumption DEF UnlockAfterGCRun, Waiting, Never
    <3> HIDE DEF Goal
    <3> QED
      BY <2>2, <3>1
  <2>10. CASE Stop(n)
    <3>1. Goal("stopped", 0, Never)
      BY <2>1, <2>10 DEF Stop, Never
    <3> HIDE DEF Goal
    <3> QED
      BY <2>2, <3>1
  <2> QED
    BY <2>3, <2>4, <2>5, <2>6, <2>7, <2>8, <2>9, <2>10 DEF RunStep
<1>2. Goal(at, now, watermark)
  BY <1>1
<1> DEFINE place == Place(at, now, watermark, FALSE)
<1>3. /\ place \in Worker /\ place.at = at /\ place.now = now
      /\ place.watermark = watermark /\ place.failed = FALSE
  BY DEF Place, Worker
<1>4. Goes(n, place) /\ worker'[n] = place
  BY <1>2, OneWorker
<1> HIDE DEF place
<1>5. /\ collectedTo' \in [Nodes -> Int]
      /\ \A m \in Nodes \ {n} : collectedTo'[m] = collectedTo[m]
      /\ \/ collectedTo'[n] = collectedTo[n]
         \/ /\ worker[n].at = "expiring" /\ ~worker[n].failed
            /\ collectedTo'[n] = worker[n].watermark
  BY <1>2, OneWorker DEF GCInv, Types
<1>6. rows' = rows /\ time' = time
  BY DEF storeVars
<1>7. (collectedTo[n] # Never => collectedTo[n] < time /\ Garbage(collectedTo[n]) = {})'
  <2>1. CASE collectedTo'[n] = collectedTo[n]
    BY <2>1, <1>6 DEF GCInv, WorkerInv, Garbage
  <2>2. CASE worker[n].at = "expiring" /\ ~worker[n].failed /\ collectedTo'[n] = worker[n].watermark
    BY <2>2, <1>6, OneWorker, Constants DEF GCInv, WorkerInv, Garbage
  <2> QED
    BY <1>5, <2>1, <2>2
<1>8. WorkerInv(n)'
  BY <1>2, <1>3, <1>4, <1>6, <1>7 DEF WorkerInv
<1> QED
  BY <1>2, <1>3, <1>4, <1>5, <1>8, PlaceKeeps

\* A deletion, whole or in part, takes garbage away.
LEMMA CollectKeeps ==
  ASSUME GCInv, NEW n \in Nodes, Collect(n)
  PROVE  GCInv'
<1> USE DEF Collect
<1>1. PICK failed \in BOOLEAN :
        /\ Goes(n, Place("expiring", 0, worker[n].watermark, failed))
        /\ ~failed => rows' = rows \ Garbage(worker[n].watermark)
  BY DEF DeleteBeforeTx
<1>2. /\ rows' \subseteq rows /\ worker[n].at = "deleting"
      /\ UNCHANGED <<writeMode, time, written, gcLock, canceled, collectedTo>>
  BY DEF DeleteBeforeTx
<1> DEFINE place == Place("expiring", 0, worker[n].watermark, failed)
<1>3. /\ place \in Worker /\ place.at = "expiring"
      /\ place.watermark = worker[n].watermark /\ place.failed = failed
  BY OneWorker DEF Place, Worker, Places
<1>4. Goes(n, place)
  BY <1>1
<1> HIDE DEF place
<1>5. /\ worker' \in [Nodes -> Worker] /\ worker'[n] = place
      /\ \A m \in Nodes \ {n} : worker'[m] = worker[m]
  BY <1>3, <1>4 DEF GCInv, Types, Goes
<1>6. Types' /\ RowsInv'
  BY <1>2, <1>5 DEF GCInv, Types, RowsInv
<1>7. LockInv'
  BY <1>2, <1>3, <1>5 DEF GCInv, LockInv
<1>8. \A w : Garbage(w) = {} => Garbage(w)' = {}
  BY <1>2 DEF Garbage
<1>9. ~failed => Garbage(worker[n].watermark)' = {}
  <2>1. ~failed => \A r \in rows' : ~(r.deleted <= worker[n].watermark)
    BY <1>1 DEF Garbage
  <2> QED
    BY <1>5, <1>3, <2>1 DEF Garbage
<1>10. ASSUME NEW m \in Nodes PROVE WorkerInv(m)'
  <2>1. CASE m = n
    BY <1>2, <1>3, <1>5, <1>8, <1>9, <2>1 DEF GCInv, WorkerInv
  <2>2. CASE m # n
    BY <1>2, <1>5, <1>8, <2>2 DEF GCInv, WorkerInv
  <2> QED
    BY <2>1, <2>2
<1> QED
  BY <1>6, <1>7, <1>10 DEF GCInv

\* A write or a delete of the value makes rows die now.
LEMMA StoreKeeps ==
  ASSUME GCInv, Write \/ Delete
  PROVE  GCInv'
<1>1. PICK new :
        /\ rows' = Retired(time) \cup new
        /\ \A r \in new : {"deleted"} \subseteq DOMAIN r /\ r.deleted = AliveValue
  <2>1. \A data : \A r \in Inserted(time, data) :
          {"deleted"} \subseteq DOMAIN r /\ r.deleted = AliveValue
    BY DEF Inserted
  <2>2. CASE Write
    BY <2>1, <2>2 DEF Write, WriteChunkedBytes
  <2>3. CASE Delete
    <3>1. PICK none : none = {}
      OBVIOUS
    <3>2. rows' = Retired(time) \cup none
      BY <2>3, <3>1 DEF Delete, DeleteChunkedBytes
    <3> QED
      BY <3>1, <3>2
  <2> QED
    BY <2>2, <2>3
<1>2. \A r \in Retired(time) :
        \/ r \in rows
        \/ {"deleted"} \subseteq DOMAIN r /\ r.deleted = time
  BY DEF Retired, GCInv, RowsInv
<1>3. UNCHANGED <<time, writeMode, worker, gcLock, collectedTo>>
  BY DEF Write, Delete, WriteChunkedBytes, DeleteChunkedBytes, gcVars
<1>4. RowsInv'
  BY <1>1, <1>2, <1>3, Constants DEF GCInv, Types, RowsInv
<1>5. Types'
  <2>1. PICK v \in Values \cup {Missing} : written' = Append(written, [at |-> time, value |-> v])
    BY DEF Write, Delete, WriteChunkedBytes, DeleteChunkedBytes
  <2>2. [at |-> time, value |-> v] \in [at : Nat, value : Values \cup {Missing}]
    BY DEF GCInv, Types
  <2> QED
    BY <1>3, <2>1, <2>2 DEF GCInv, Types
<1>6. LockInv'
  BY <1>3 DEF GCInv, LockInv
<1>7. ASSUME NEW w \in Int, w < time, Garbage(w) = {} PROVE Garbage(w)' = {}
  BY <1>1, <1>2, <1>7, NoNewGarbage
<1>8. ASSUME NEW n \in Nodes PROVE WorkerInv(n)'
  <2>1. worker[n].watermark = 0 \/ worker[n].watermark < time - Window
          => worker[n].watermark < time
    BY OneWorker, Constants
  <2> QED
    BY <1>3, <1>7, <2>1, OneWorker DEF GCInv, WorkerInv
<1> QED
  BY <1>4, <1>5, <1>6, <1>8 DEF GCInv

\* The runs of all nodes keep what each of them knows.
LEMMA GCInductive == Spec => []GCInv
<1>1. Init => GCInv
  <2> SUFFICES ASSUME Init PROVE GCInv
    OBVIOUS
  <2>1. /\ time = 1 /\ rows = {} /\ written = <<>> /\ writeMode \in WriteModes
        /\ gcLock = NoNode /\ worker = [n \in Nodes |-> Waiting]
        /\ collectedTo = [n \in Nodes |-> Never]
    BY DEF Init, StoreInit, GCInit
  <2>2. Waiting \in Worker /\ Waiting.at = "waiting"
    BY DEF Waiting, Place, Worker, Places, Never
  <2>3. Types
    BY <2>1, <2>2, Constants DEF Types, Never
  <2>4. RowsInv /\ LockInv /\ \A n \in Nodes : WorkerInv(n)
    BY <2>1, <2>2, NodesAssumption DEF RowsInv, LockInv, WorkerInv
  <2> QED
    BY <2>3, <2>4 DEF GCInv
<1>2. GCInv /\ [Next]_vars => GCInv'
  <2> SUFFICES ASSUME GCInv, [Next]_vars PROVE GCInv'
    OBVIOUS
  <2>1. CASE Write \/ Delete
    BY <2>1, StoreKeeps
  <2>2. CASE Shutdown
    BY <2>2 DEF Shutdown, Cancel, storeVars, GCInv, Types, RowsInv, LockInv, WorkerInv, Garbage
  <2>3. CASE Tick
    <3>1. /\ time' = time + 1 /\ time < MaxTime
          /\ UNCHANGED <<writeMode, rows, written, worker, gcLock, collectedTo>>
      BY <2>3 DEF Tick, storeVars, gcVars
    <3>2. Types' /\ RowsInv' /\ LockInv'
      BY <3>1, Constants DEF GCInv, Types, RowsInv, LockInv
    <3>3. ASSUME NEW n \in Nodes PROVE WorkerInv(n)'
      BY <3>1, OneWorker, Constants DEF GCInv, WorkerInv, Garbage
    <3> QED
      BY <3>2, <3>3 DEF GCInv
  <2>4. ASSUME NEW n \in Nodes, Run(n) PROVE GCInv'
    BY <2>4, RunKeeps
  <2>5. ASSUME NEW n \in Nodes, Collect(n) PROVE GCInv'
    BY <2>5, CollectKeeps
  <2>6. CASE UNCHANGED vars
    BY <2>6 DEF vars, storeVars, gcVars, GCInv, Types, RowsInv, LockInv, WorkerInv, Garbage
  <2> QED
    BY <2>1, <2>2, <2>3, <2>4, <2>5, <2>6 DEF Next
<1> QED
  BY <1>1, <1>2, PTL DEF Spec

\* A node whose last completed run had a watermark has no garbage before it,
\* whatever failed since and whoever else collects or writes.
THEOREM CompletedRunsCollected == Spec => []CompletedIsCollected
<1>1. GCInv => CompletedIsCollected
  BY DEF GCInv, WorkerInv, CompletedIsCollected
<1> QED
  BY <1>1, GCInductive, PTL

\* Two workers are never in a run at once: whoever is has the datastore's lock.
OneCollector ==
  \A n, m \in Nodes :
    worker[n].at \notin {"waiting", "stopped"} /\ worker[m].at \notin {"waiting", "stopped"}
      => n = m

\* The datastore's lock admits one run at a time (gc.go:230-248).
THEOREM CollectorsExclude == Spec => []OneCollector
<1>1. GCInv => OneCollector
  <2> SUFFICES ASSUME GCInv, NEW n \in Nodes, NEW m \in Nodes,
                      worker[n].at \notin {"waiting", "stopped"},
                      worker[m].at \notin {"waiting", "stopped"}
               PROVE  n = m
    BY DEF OneCollector
  <2>1. /\ worker[n].at \in {"locked", "dated", "deleting", "expiring", "unlocking"}
        /\ worker[m].at \in {"locked", "dated", "deleting", "expiring", "unlocking"}
    BY OneWorker DEF Places
  <2> QED
    BY <2>1 DEF GCInv, LockInv
<1> QED
  BY <1>1, GCInductive, PTL

\* What a run deletes, no revision that CheckRevision accepts can read: however
\* long the run took since it read the clock.
OnlyUnreadable ==
  \A n \in Nodes : Collect(n) =>
    \A r \in rows \ rows' : \A revision \in Int :
      CheckRevision(revision) = "ok" => ~(revision < r.deleted)

\* A deletion takes nothing that an accepted revision reads (gc.go:255-260).
THEOREM CollectsOnlyUnreadable == Spec => [][OnlyUnreadable]_vars
<1>1. GCInv /\ [Next]_vars => [OnlyUnreadable]_vars
  <2> SUFFICES ASSUME GCInv, NEW n \in Nodes, Collect(n), NEW r \in rows, r \notin rows',
                      NEW revision \in Int, CheckRevision(revision) = "ok"
               PROVE  ~(revision < r.deleted)
    BY DEF OnlyUnreadable
  <2>1. r.deleted <= worker[n].watermark /\ worker[n].at = "deleting"
    BY DEF Collect, DeleteBeforeTx, Garbage
  <2>2. r.deleted \in Nat /\ r.deleted >= 1
    BY Constants DEF GCInv, RowsInv
  <2>3. worker[n].watermark = 0 \/ worker[n].watermark < time - Window
    BY <2>1 DEF GCInv, WorkerInv
  <2>4. ~(revision < time - Window)
    BY DEF CheckRevision
  <2> QED
    BY <2>1, <2>2, <2>3, <2>4, OneWorker, Constants
<1> QED
  BY <1>1, GCInductive, PTL DEF Spec

----------------------------------------------------------------------------
\* Division by the size of a chunk.
LEMMA DivFacts ==
  ASSUME NEW a \in Nat, NEW m \in Nat \ {0}
  PROVE  /\ a \div m \in Nat
         /\ (a \div m) * m <= a
         /\ a < (a \div m) * m + m
OBVIOUS

\* As many chunks as the bytes need, the last one not empty.
LEMMA ChunkCount ==
  ASSUME NEW L \in Nat, NEW M \in Nat \ {0}, NEW N, N = (L + M - 1) \div M
  PROVE  /\ N \in Nat
         /\ L <= N * M
         /\ N # 0 => (N - 1) * M < L
         /\ N = 0 <=> L = 0
<1>1. L + M - 1 \in Nat
  OBVIOUS
<1>2. N \in Nat /\ N * M <= L + M - 1 /\ L + M - 1 < N * M + M
  BY <1>1, DivFacts
<1> QED BY <1>2


\* What the first n chunks of a value hold.
UpTo(v, n) == SubSeq(v, 1, IF n * MaxChunkSize < Len(v) THEN n * MaxChunkSize ELSE Len(v))

\* The chunks of a value, one after the other, are the value.
LEMMA ChunksJoin ==
  ASSUME NEW S, NEW v \in Seq(S)
  PROVE  \E k \in Nat \ {0} :
           /\ DOMAIN chunksOf(v) = 1..k
           /\ UpTo(v, 0) = <<>> /\ UpTo(v, k) = v
           /\ \A n \in 1..k : UpTo(v, n) = UpTo(v, n - 1) \o chunksOf(v)[n]
<1> DEFINE N == (Len(v) + MaxChunkSize - 1) \div MaxChunkSize
           M == MaxChunkSize
           L == Len(v)
           end(n) == IF n * M < L THEN n * M ELSE L
<1>1. M \in Nat \ {0} /\ L \in Nat
  BY ChunkAssumption
<1>2. N \in Nat /\ L <= N * M /\ (N # 0 => (N - 1) * M < L) /\ (N = 0 <=> L = 0)
  <2>1. N = (L + M - 1) \div M
    OBVIOUS
  <2> HIDE DEF N, M, L
  <2> QED
    BY <1>1, <2>1, ChunkCount
<1>3. chunkData(v) = [i \in 1..N |-> SubSeq(v, (i - 1) * M + 1, end(i))]
  BY DEF chunkData
<1>4. UpTo(v, 0) = <<>>
  <2>1. end(0) = 0
    BY <1>1
  <2> QED
    BY <2>1, SubSeqEmpty DEF UpTo
<1>5. UpTo(v, 1) = v \/ L # 0
  BY <1>1, SubSeqFull DEF UpTo
<1>6. CASE L = 0
  <2>1. N = 0 /\ v = <<>>
    BY <1>2, <1>6
  <2>2. chunkData(v) = <<>>
    BY <1>3, <2>1
  <2>3. chunksOf(v) = << <<>> >>
    BY <2>2 DEF chunksOf
  <2>4. DOMAIN chunksOf(v) = 1..1 /\ chunksOf(v)[1] = <<>>
    BY <2>3
  <2>5. UpTo(v, 1) = <<>>
    BY <1>5, <1>6, <2>1
  <2>6. <<>> \o <<>> = <<>>
    OBVIOUS
  <2>7. ASSUME NEW n \in 1..1 PROVE UpTo(v, n) = UpTo(v, n - 1) \o chunksOf(v)[n]
    <3>1. n = 1 /\ n - 1 = 0
      OBVIOUS
    <3> QED
      BY <1>4, <2>4, <2>5, <2>6, <3>1
  <2>8. UpTo(v, 1) = v /\ 1 \in Nat \ {0}
    BY <1>5, <1>6
  <2> HIDE DEF N
  <2> QED
    BY <1>4, <2>4, <2>7, <2>8
<1>7. CASE L # 0
  <2>1. N \in Nat \ {0}
    BY <1>2, <1>7
  <2>2. DOMAIN chunkData(v) = 1..N /\ chunkData(v) # <<>>
    BY <1>3, <2>1
  <2>3. chunksOf(v) = chunkData(v)
    BY <2>2 DEF chunksOf
  <2>4. UpTo(v, N) = v
    <3>1. end(N) = L
      BY <1>1, <1>2
    <3> QED
      BY <3>1, SubSeqFull DEF UpTo
  <2>5. ASSUME NEW n \in 1..N
        PROVE  UpTo(v, n) = UpTo(v, n - 1) \o chunksOf(v)[n]
    <3> DEFINE a == (n - 1) * M
               b == end(n)
    <3>1. a \in Nat /\ a < L
      <4>1. n - 1 \in Nat /\ N - 1 \in Nat /\ n - 1 <= N - 1
        BY <2>1
      <4>2. (n - 1) * M <= (N - 1) * M /\ (n - 1) * M \in Nat
        BY <1>1, <4>1
      <4>3. (N - 1) * M < L /\ (N - 1) * M \in Nat
        BY <1>1, <1>2, <2>1, <4>1
      <4> QED
        BY <1>1, <4>2, <4>3
    <3>2. n * M = a + M
      BY <1>1
    <3>3. end(n - 1) = a
      BY <3>1
    <3> HIDE DEF a
    <3>4. b \in a..L
      BY <1>1, <3>1, <3>2
    <3> HIDE DEF b
    <3>5. SubSeq(v, 1, a) \o SubSeq(v, a + 1, b) = SubSeq(v, 1, b)
      BY <1>1, <3>1, <3>4, ConcatAdjacentSubSeq
    <3>6. chunksOf(v)[n] = SubSeq(v, a + 1, b)
      BY <1>3, <2>3 DEF a, b
    <3>7. UpTo(v, n) = SubSeq(v, 1, b) /\ UpTo(v, n - 1) = SubSeq(v, 1, a)
      BY <3>3 DEF UpTo, b
    <3> QED
      BY <3>5, <3>6, <3>7
  <2> QED
    BY <1>4, <2>1, <2>2, <2>3, <2>4, <2>5
<1> QED
  BY <1>6, <1>7

\* The rows a write of v makes, at `created`, once they died at `deleted`.
RowsFor(v, created, deleted) ==
  {[index |-> j - 1, chunk |-> chunksOf(v)[j], deleted |-> deleted, created |-> created] :
     j \in DOMAIN chunksOf(v)}

\* The rows of one write are reassembled to its value.
LEMMA RoundTrip ==
  ASSUME NEW S, NEW v \in Seq(S), NEW created, NEW deleted
  PROVE  reassembleChunks(RowsFor(v, created, deleted)) = v
<1> DEFINE chunks == RowsFor(v, created, deleted)
           indexes == {r.index : r \in chunks}
           piece(i) == (CHOOSE r \in chunks : r.index = i).chunk
           upto[n \in 0..Cardinality(indexes)] ==
             IF n = 0 THEN <<>> ELSE upto[n - 1] \o piece(n - 1)
<1>1. PICK k \in Nat \ {0} :
        /\ DOMAIN chunksOf(v) = 1..k
        /\ UpTo(v, 0) = <<>> /\ UpTo(v, k) = v
        /\ \A n \in 1..k : UpTo(v, n) = UpTo(v, n - 1) \o chunksOf(v)[n]
  BY ChunksJoin
<1> DEFINE row(j) == [index |-> j - 1, chunk |-> chunksOf(v)[j], deleted |-> deleted,
                      created |-> created]
<1>2. chunks = {row(j) : j \in 1..k}
  BY <1>1 DEF RowsFor
<1>3. indexes = 0..(k - 1)
  <2>1. ASSUME NEW r \in chunks PROVE r.index \in 0..(k - 1)
    <3>1. PICK j \in 1..k : r = row(j)
      BY <1>2
    <3>2. r.index = j - 1
      BY <3>1
    <3> QED
      BY <1>1, <3>2
  <2>2. ASSUME NEW i \in 0..(k - 1) PROVE \E r \in chunks : r.index = i
    <3>1. i + 1 \in 1..k /\ (i + 1) - 1 = i
      BY <1>1
    <3>2. row(i + 1) \in chunks /\ row(i + 1).index = (i + 1) - 1
      BY <1>2, <3>1
    <3> QED
      BY <3>1, <3>2
  <2> HIDE DEF chunks
  <2> QED
    BY <2>1, <2>2
<1>4. Cardinality(indexes) = k
  <2>1. Cardinality(0..(k - 1)) = k
    <3>1. 0 \in Int /\ k - 1 \in Int /\ ~(0 > k - 1) /\ (k - 1) - 0 + 1 = k
      BY <1>1
    <3> QED
      BY <3>1, FS_Interval
  <2> HIDE DEF indexes
  <2> QED
    BY <1>3, <2>1
<1>5. ASSUME NEW n \in 1..k PROVE piece(n - 1) = chunksOf(v)[n]
  <2> DEFINE one == row(n)
             i == n - 1
  <2>1. one \in chunks /\ one.index = i /\ one.chunk = chunksOf(v)[n]
    BY <1>2
  <2>2. \A r \in chunks : r.index = i => r = one
    <3> SUFFICES ASSUME NEW j \in 1..k, row(j).index = i PROVE row(j) = row(n)
      BY <1>2
    <3>1. j - 1 = n - 1
      OBVIOUS
    <3>2. j = n
      BY <3>1
    <3> QED
      BY <3>2
  <2> HIDE DEF chunks, one, i
  <2>3. (CHOOSE r \in chunks : r.index = i) = one
    BY <2>1, <2>2, Zenon
  <2>4. piece(i) = chunksOf(v)[n]
    BY <2>1, <2>3
  <2> QED
    BY <2>4 DEF i
<1>6. chunks # {}
  <2>1. row(1) \in chunks
    BY <1>1, <1>2
  <2> HIDE DEF chunks
  <2> QED
    BY <2>1
<1> HIDE DEF chunks, indexes, piece
<1> DEFINE f == [n \in 0..k |-> UpTo(v, n)]
           Rec(g) == g = [n \in 0..k |-> IF n = 0 THEN <<>> ELSE g[n - 1] \o piece(n - 1)]
<1>7. Rec(f)
  <2>1. ASSUME NEW n \in 0..k
        PROVE  f[n] = IF n = 0 THEN <<>> ELSE f[n - 1] \o piece(n - 1)
    <3>1. CASE n = 0
      BY <1>1, <3>1
    <3>2. CASE n # 0
      <4>1. n \in 1..k /\ n - 1 \in 0..k
        BY <3>2
      <4> QED
        BY <1>1, <1>5, <3>2, <4>1
    <3> QED
      BY <3>1, <3>2
  <2> QED
    BY <2>1
<1>8. upto = CHOOSE g : Rec(g)
  BY <1>4 DEF upto
<1>9. Rec(upto)
  <2> HIDE DEF f, Rec, upto
  <2>1. \E g : Rec(g)
    BY <1>7
  <2> QED
    BY <1>8, <2>1, Zenon
<1> HIDE DEF upto, f
<1>10. \A n \in 0..k : upto[n] = UpTo(v, n)
  <2> DEFINE D == {n \in 0..k : upto[n] # UpTo(v, n)}
  <2> SUFFICES ASSUME D # {} PROVE FALSE
    OBVIOUS
  <2>1. D \in SUBSET Nat
    BY <1>1
  <2>2. PICK n \in D : \A m \in D : <<m, n>> \notin OpToRel(<, Nat)
    BY <2>1, NatLessThanWellFounded, WFMin
  <2>3. \A m \in D : ~(m < n)
    BY <2>1, <2>2 DEF OpToRel
  <2>4. upto[n] = IF n = 0 THEN <<>> ELSE upto[n - 1] \o piece(n - 1)
    BY <1>9
  <2>5. n # 0
    BY <1>1, <2>4
  <2>6. n \in 1..k /\ n - 1 \in 0..k
    BY <2>5
  <2>7. upto[n - 1] = UpTo(v, n - 1)
    BY <2>3, <2>6
  <2>8. upto[n] = UpTo(v, n)
    BY <1>1, <1>5, <2>4, <2>5, <2>6, <2>7
  <2> QED
    BY <2>8
<1>11. reassembleChunks(chunks) = upto[Cardinality(indexes)]
  BY <1>3, <1>4, <1>6 DEF reassembleChunks, indexes, piece, upto
<1> QED
  BY <1>1, <1>4, <1>10, <1>11 DEF chunks

----------------------------------------------------------------------------
\* When the rows of the i-th write died, or will not before the next.
Died(i) == IF i = Len(written) THEN AliveValue ELSE written[i + 1].at

\* The rows of the i-th write, if it did not delete the value.
RowsOf(i) ==
  IF written[i].value = Missing THEN {}
  ELSE RowsFor(written[i].value, written[i].at, Died(i))

\* The writes are dated one after the other.
DatesInv ==
  /\ \A i \in DOMAIN written : written[i].at \in 1..time
  /\ \A i, j \in DOMAIN written : i < j => written[i].at < written[j].at

\* A table with tombstones has no rows but those of writes, and all those that
\* did not die before the window.
TombstonesInv ==
  /\ \A r \in rows : \E i \in DOMAIN written : r \in RowsOf(i)
  /\ \A i \in DOMAIN written : ~(Died(i) < time - Window) => RowsOf(i) \subseteq rows

\* A table without has those of the last write.
InsertsInv ==
  rows = IF written = <<>> \/ written[Len(written)].value = Missing THEN {}
         ELSE RowsFor(written[Len(written)].value, Always, AliveValue)

HistoryInv ==
  /\ DatesInv
  /\ writeMode = "insertWithTombstones" => TombstonesInv
  /\ writeMode = "deleteAndInsert" => InsertsInv

\* What the history is made of.
LEMMA HistoryTypes ==
  ASSUME Types
  PROVE  /\ Len(written) \in Nat /\ DOMAIN written = 1..Len(written)
         /\ \A i \in DOMAIN written : written[i].at \in Nat /\ written[i].value \in Values \cup {Missing}
         /\ writeMode \in {"insertWithTombstones", "deleteAndInsert"} /\ time \in Nat
<1> DEFINE Entry == [at : Nat, value : Values \cup {Missing}]
<1>1. written \in Seq(Entry) /\ \A e \in Entry : e.at \in Nat /\ e.value \in Values \cup {Missing}
  BY DEF Types
<1> HIDE DEF Entry
<1>2. /\ Len(written) \in Nat /\ DOMAIN written = 1..Len(written)
      /\ \A i \in DOMAIN written : written[i] \in Entry
  BY <1>1
<1> QED
  BY <1>1, <1>2, ModeAssumption, ClockAssumption DEF Types

\* A row of a write: its dates.
LEMMA RowOfWrite ==
  ASSUME NEW i, NEW r \in RowsOf(i)
  PROVE  /\ r.created = written[i].at /\ r.deleted = Died(i)
         /\ written[i].value # Missing
         /\ r \in RowsFor(written[i].value, written[i].at, Died(i))
BY DEF RowsOf, RowsFor

\* A write's rows died after it was made.
LEMMA DiesAfter ==
  ASSUME Types, DatesInv, NEW i \in DOMAIN written
  PROVE  /\ written[i].at < Died(i) /\ Died(i) \in 1..AliveValue
         /\ Died(i) = AliveValue <=> i = Len(written)
<1>1. /\ Len(written) \in Nat /\ DOMAIN written = 1..Len(written) /\ time \in 1..MaxTime
      /\ written[i].at \in 1..time
  BY HistoryTypes DEF DatesInv, Types
<1>2. i # Len(written) => i + 1 \in DOMAIN written /\ i < i + 1
  BY <1>1
<1>3. i # Len(written) => written[i + 1].at \in 1..time /\ written[i].at < written[i + 1].at
  BY <1>2 DEF DatesInv
<1> QED
  BY <1>1, <1>3, Constants DEF Died

\* What CheckRevision accepts lies within the window.
LEMMA Accepted ==
  ASSUME NEW revision \in Nat, CheckRevision(revision) = "ok"
  PROVE  ~(revision < time - Window)
BY DEF CheckRevision

\* A read at an accepted revision finds all rows of the last write up to it, and
\* none of another.
LEMMA ReadsOneWrite ==
  ASSUME GCInv, HistoryInv, writeMode = "insertWithTombstones",
         NEW revision \in 0..time, CheckRevision(revision) = "ok"
  PROVE  LET before == {i \in DOMAIN written : written[i].at <= revision}
             read == {r \in rows : r.created <= revision /\ revision < r.deleted}
         IN /\ before = {} => read = {}
            /\ before # {} => /\ (CHOOSE i \in before : \A j \in before : j <= i) \in before
                              /\ read = RowsOf(CHOOSE i \in before : \A j \in before : j <= i)
<1> DEFINE before == {i \in DOMAIN written : written[i].at <= revision}
           read == {r \in rows : r.created <= revision /\ revision < r.deleted}
           last == CHOOSE i \in before : \A j \in before : j <= i
<1>1. /\ Types /\ DatesInv /\ TombstonesInv
      /\ Len(written) \in Nat /\ DOMAIN written = 1..Len(written)
      /\ time \in 1..MaxTime /\ revision \in Nat
  BY HistoryTypes, Constants DEF GCInv, HistoryInv, Types
<1>2. ASSUME NEW r \in read
      PROVE  \E i \in before : r \in RowsOf(i) /\ \A j \in before : j <= i
  <2>1. PICK i \in DOMAIN written : r \in RowsOf(i)
    BY <1>1 DEF TombstonesInv
  <2>2. written[i].at <= revision /\ revision < Died(i)
    BY <2>1, RowOfWrite
  <2>3. ASSUME NEW j \in DOMAIN written, written[j].at <= revision, ~(j <= i)
        PROVE  FALSE
    <3>1. i + 1 \in DOMAIN written /\ i # Len(written)
      BY <1>1, <2>3
    <3>2. Died(i) = written[i + 1].at
      BY <3>1 DEF Died
    <3>3. i + 1 = j \/ i + 1 < j
      BY <1>1, <2>3
    <3>4. written[i + 1].at <= written[j].at
      <4>1. written[i + 1].at \in Nat /\ written[j].at \in Nat
        BY <3>1, <1>1 DEF DatesInv
      <4> QED
        BY <4>1, <3>1, <3>3, <1>1 DEF DatesInv
    <3>5. written[i + 1].at \in Nat /\ written[j].at \in Nat
      BY <3>1, <1>1 DEF DatesInv
    <3> QED
      BY <1>1, <2>2, <2>3, <3>2, <3>4, <3>5
  <2> QED
    BY <2>1, <2>2, <2>3
<1>3. CASE before = {}
  <2>1. read = {}
    BY <1>2, <1>3
  <2> QED
    BY <1>3, <2>1
<1>4. CASE before # {}
  <2>1. before \in SUBSET (1..Len(written))
    BY <1>1
  <2> HIDE DEF before, read
  <2>2. last \in before /\ \A j \in before : j <= last
    BY <2>1, <1>1, <1>4, GreatestExists, Zenon
  <2> HIDE DEF last
  <2>3. \A i \in before : (\A j \in before : j <= i) => i = last
    BY <1>1, <2>1, <2>2
  <2>4. read \subseteq RowsOf(last)
    BY <1>2, <2>3
  <2>5. last \in DOMAIN written /\ written[last].at <= revision
    BY <2>2 DEF before
  <2>6. revision < Died(last)
    <3>1. CASE last = Len(written)
      BY <1>1, <3>1, Constants DEF Died
    <3>2. CASE last # Len(written)
      <4>1. last + 1 \in DOMAIN written /\ ~(last + 1 <= last)
        BY <1>1, <2>5, <3>2
      <4>2. ~(written[last + 1].at <= revision)
        BY <2>2, <4>1 DEF before
      <4>3. written[last + 1].at \in Nat
        BY <1>1, <4>1 DEF DatesInv
      <4> QED
        BY <1>1, <3>2, <4>2, <4>3 DEF Died
    <3> QED
      BY <3>1, <3>2
  <2>7. Died(last) \in Nat /\ ~(Died(last) < time - Window)
    <3>1. Died(last) \in Nat
      BY <1>1, <2>5, DiesAfter, Constants
    <3> QED
      BY <1>1, <2>6, <3>1, Accepted, Constants
  <2>8. RowsOf(last) \subseteq rows
    BY <1>1, <2>5, <2>7 DEF TombstonesInv
  <2>9. RowsOf(last) \subseteq read
    BY <2>5, <2>6, <2>8, RowOfWrite DEF read
  <2> QED
    BY <1>4, <2>2, <2>4, <2>9 DEF before, read, last
<1> QED
  BY <1>3, <1>4

\* The history is added to: the last write dies now, and a new one is alive.
LEMMA OneMoreWrite ==
  ASSUME Types, DatesInv, MayCommit, NEW v \in Values \cup {Missing}, UNCHANGED <<writeMode, time>>,
         written' = Append(written, [at |-> time, value |-> v]), NEW n, n = Len(written)
  PROVE  /\ n \in Nat /\ DOMAIN written = 1..n /\ DOMAIN written' = 1..(n + 1)
         /\ Len(written') = n + 1
         /\ \A i \in 1..n : written'[i] = written[i]
         /\ written'[n + 1].at = time /\ written'[n + 1].value = v
         /\ DatesInv'
         /\ \A i \in 1..n : Died(i)' = IF i = n THEN time ELSE Died(i)
         /\ Died(n + 1)' = AliveValue
<1> DEFINE entry == [at |-> time, value |-> v]
<1>1. /\ n \in Nat /\ DOMAIN written = 1..n /\ time \in 1..MaxTime
      /\ entry.at = time /\ entry.value = v
  BY HistoryTypes DEF Types
<1>2. entry \in [at : Nat, value : Values \cup {Missing}]
  BY <1>1, HistoryTypes
<1>3. /\ Len(written') = n + 1 /\ DOMAIN written' = 1..(n + 1)
      /\ \A i \in 1..n : written'[i] = written[i]
      /\ written'[n + 1] = entry
  BY <1>1, <1>2 DEF Types
<1> HIDE DEF entry
<1>4. \A i \in 1..n : written[i].at < time /\ written[i].at \in 1..time
  BY <1>1 DEF MayCommit, DatesInv
<1>5. DatesInv'
  <2>1. \A i \in DOMAIN written' : written'[i].at \in 1..time'
    BY <1>1, <1>3, <1>4
  <2>2. ASSUME NEW i \in DOMAIN written', NEW j \in DOMAIN written', i < j
        PROVE  written'[i].at < written'[j].at
    <3>1. CASE j = n + 1
      BY <1>1, <1>3, <1>4, <2>2, <3>1
    <3>2. CASE j # n + 1
      <4>1. i \in 1..n /\ j \in 1..n
        BY <1>1, <1>3, <2>2, <3>2
      <4> QED
        BY <1>1, <1>3, <2>2, <4>1 DEF DatesInv
    <3> QED
      BY <3>1, <3>2
  <2> QED
    BY <2>1, <2>2 DEF DatesInv
<1>6. ASSUME NEW i \in 1..n PROVE Died(i)' = IF i = n THEN time ELSE Died(i)
  <2>1. i # n + 1 /\ i + 1 \in 1..(n + 1) /\ (i # n => i + 1 \in 1..n)
    BY <1>1
  <2>2. Died(i)' = written'[i + 1].at
    BY <1>3, <2>1 DEF Died
  <2> QED
    BY <1>1, <1>3, <2>1, <2>2 DEF Died
<1>7. Died(n + 1)' = AliveValue
  BY <1>3 DEF Died
<1> QED
  BY <1>1, <1>3, <1>5, <1>6, <1>7

\* A write or a delete of the value, in a table with tombstones.
LEMMA TombstonesKept ==
  ASSUME Types, DatesInv, TombstonesInv, MayCommit, writeMode = "insertWithTombstones",
         NEW v \in Values \cup {Missing}, UNCHANGED <<writeMode, time>>,
         written' = Append(written, [at |-> time, value |-> v]),
         rows' = Retired(time) \cup (IF v = Missing THEN {} ELSE Inserted(time, v)),
         NEW n, n = Len(written)
  PROVE  TombstonesInv'
<1>1. /\ n \in Nat /\ DOMAIN written = 1..n /\ DOMAIN written' = 1..(n + 1)
      /\ \A i \in 1..n : written'[i] = written[i]
      /\ written'[n + 1].at = time /\ written'[n + 1].value = v
      /\ \A i \in 1..n : Died(i)' = IF i = n THEN time ELSE Died(i)
      /\ Died(n + 1)' = AliveValue
  BY OneMoreWrite
<1>2. time \in 1..MaxTime /\ time # AliveValue
  BY Constants DEF Types
<1> DEFINE retired(r) == IF r.deleted = AliveValue THEN [r EXCEPT !.deleted = time] ELSE r
<1>3. Retired(time) = {retired(r) : r \in rows}
  BY DEF Retired
<1>4. RowsOf(n + 1)' = IF v = Missing THEN {} ELSE Inserted(time, v)
  BY <1>1, ZenonT(60) DEF RowsOf, RowsFor, Inserted
<1>5. ASSUME NEW i \in 1..n, i # n PROVE RowsOf(i)' = RowsOf(i) /\ \A r \in RowsOf(i) : retired(r) = r
  <2>1. RowsOf(i)' = RowsOf(i)
    BY <1>1, <1>5 DEF RowsOf, RowsFor
  <2>2. Died(i) # AliveValue
    BY <1>1, <1>5, DiesAfter
  <2> QED
    BY <2>1, <2>2, RowOfWrite
<1>6. ASSUME n # 0 PROVE RowsOf(n)' = {retired(r) : r \in RowsOf(n)}
  <2>1. n \in 1..n
    BY <1>1, <1>6
  <2>2. Died(n)' = time /\ Died(n) = AliveValue /\ written'[n] = written[n]
    BY <1>1, <2>1, DiesAfter
  <2>3. CASE written[n].value = Missing
    BY <2>2, <2>3 DEF RowsOf
  <2>4. CASE written[n].value # Missing
    <3> DEFINE alive(j) == [index |-> j - 1, chunk |-> chunksOf(written[n].value)[j],
                            deleted |-> AliveValue, created |-> written[n].at]
               dead(j) == [index |-> j - 1, chunk |-> chunksOf(written[n].value)[j],
                           deleted |-> time, created |-> written[n].at]
               C == DOMAIN chunksOf(written[n].value)
    <3>1. RowsOf(n) = {alive(j) : j \in C}
      BY <2>2, <2>4 DEF RowsOf, RowsFor
    <3>2. RowsOf(n)' = RowsFor(written[n].value, written[n].at, time)
      BY <2>2, <2>4 DEF RowsOf
    <3>3. RowsOf(n)' = {dead(j) : j \in C}
      BY <3>2 DEF RowsFor
    <3>4. \A j \in C : retired(alive(j)) = dead(j)
      OBVIOUS
    <3> HIDE DEF retired, alive, dead, C
    <3>5. {retired(r) : r \in {alive(j) : j \in C}} = {retired(alive(j)) : j \in C}
      OBVIOUS
    <3> QED
      BY <3>1, <3>3, <3>4, <3>5
  <2> QED
    BY <2>3, <2>4
<1> HIDE DEF retired
<1>7. ASSUME NEW r \in rows'
      PROVE  \E i \in DOMAIN written' : r \in RowsOf(i)'
  <2>1. CASE r \in Retired(time)
    <3>1. PICK q \in rows : r = retired(q)
      BY <1>3, <2>1
    <3>2. PICK i \in 1..n : q \in RowsOf(i)
      BY <1>1 DEF TombstonesInv
    <3>3. r \in RowsOf(i)'
      BY <1>1, <1>5, <1>6, <3>1, <3>2
    <3> QED
      BY <1>1, <3>3
  <2>2. CASE r \notin Retired(time)
    <3>1. r \in RowsOf(n + 1)' /\ n + 1 \in DOMAIN written'
      BY <1>1, <1>4, <2>2
    <3> QED
      BY <3>1
  <2> QED
    BY <2>1, <2>2
<1>8. ASSUME NEW i \in DOMAIN written', ~(Died(i)' < time' - Window)
      PROVE  RowsOf(i)' \subseteq rows'
  <2>1. CASE i = n + 1
    BY <1>4, <2>1
  <2>2. CASE i \in 1..n /\ i # n
    <3>1. RowsOf(i) \subseteq rows
      BY <1>1, <1>8, <2>2 DEF TombstonesInv
    <3> QED
      BY <1>3, <1>5, <2>2, <3>1
  <2>3. CASE i = n /\ n # 0
    <3>1. n \in DOMAIN written /\ Died(n) = AliveValue
      BY <1>1, <2>3, DiesAfter
    <3>2. ~(AliveValue < time - Window)
      BY <1>2, Constants
    <3>3. RowsOf(n) \subseteq rows
      BY <3>1, <3>2 DEF TombstonesInv
    <3> QED
      BY <1>3, <1>6, <2>3, <3>3
  <2> QED
    BY <1>1, <2>1, <2>2, <2>3
<1> QED
  BY <1>7, <1>8 DEF TombstonesInv

\* What a write or a delete of the value does to the table and the history.
LEMMA CommitOf ==
  ASSUME Write \/ Delete
  PROVE  /\ MayCommit /\ UNCHANGED <<writeMode, time, gcVars>>
         /\ \E v \in Values \cup {Missing} :
              /\ written' = Append(written, [at |-> time, value |-> v])
              /\ rows' = Retired(time) \cup (IF v = Missing THEN {} ELSE Inserted(time, v))
<1>1. CASE Write
  BY <1>1, ValueAssumption DEF Write, WriteChunkedBytes
<1>2. CASE Delete
  BY <1>2 DEF Delete, DeleteChunkedBytes
<1> QED
  BY <1>1, <1>2

\* Every step keeps the table and the history in step.
LEMMA HistoryKept ==
  ASSUME GCInv, HistoryInv, [Next]_vars
  PROVE  HistoryInv'
<1>1. CASE Write \/ Delete
  <2>1. /\ MayCommit /\ UNCHANGED <<writeMode, time>> /\ Types /\ DatesInv
    BY <1>1, CommitOf DEF GCInv, HistoryInv
  <2>2. PICK v \in Values \cup {Missing} :
          /\ written' = Append(written, [at |-> time, value |-> v])
          /\ rows' = Retired(time) \cup (IF v = Missing THEN {} ELSE Inserted(time, v))
    BY <1>1, CommitOf
  <2>3. DatesInv'
    BY <2>1, <2>2, OneMoreWrite
  <2>4. writeMode = "insertWithTombstones" => TombstonesInv'
    BY <2>1, <2>2, TombstonesKept DEF HistoryInv
  <2>5. ASSUME writeMode = "deleteAndInsert" PROVE InsertsInv'
    <3>1. written' # <<>> /\ written'[Len(written')].value = v
      <4>1. Len(written) \in Nat /\ Len(written') = Len(written) + 1
            /\ written'[Len(written) + 1].value = v
        BY <2>1, <2>2, OneMoreWrite
      <4>2. written' # <<>>
        BY <4>1
      <4> QED
        BY <4>1, <4>2
    <3>2. rows' = IF v = Missing THEN {} ELSE Inserted(time, v)
      BY <2>2, <2>5 DEF Retired
    <3>3. Inserted(time, v) = RowsFor(v, Always, AliveValue)
      BY <2>5 DEF Inserted, RowsFor
    <3>4. InsertsInv' <=> rows' = IF v = Missing THEN {} ELSE RowsFor(v, Always, AliveValue)
      BY <3>1 DEF InsertsInv, RowsFor
    <3> QED
      BY <3>2, <3>3, <3>4
  <2> QED
    BY <2>1, <2>3, <2>4, <2>5 DEF HistoryInv
<1>2. ASSUME NEW n \in Nodes, Collect(n)
      PROVE  HistoryInv'
  <2>1. /\ UNCHANGED <<writeMode, time, written>> /\ worker[n].at = "deleting"
        /\ rows' \subseteq rows
        /\ \A r \in rows \ rows' : r.deleted <= worker[n].watermark
    BY <1>2 DEF Collect, DeleteBeforeTx, Garbage
  <2>2. worker[n].watermark = 0 \/ worker[n].watermark < time - Window
    BY <2>1 DEF GCInv, WorkerInv
  <2>3. /\ worker[n].watermark \in Int /\ time \in 1..MaxTime
        /\ \A r \in rows : r.deleted \in 1..AliveValue
    BY OneWorker DEF GCInv, RowsInv
  <2>4. \A r \in rows \ rows' : r.deleted < time - Window
    BY <2>1, <2>2, <2>3, Constants
  <2>5. DatesInv'
    BY <2>1 DEF HistoryInv, DatesInv
  <2>6. ASSUME writeMode = "insertWithTombstones" PROVE TombstonesInv'
    <3>1. \A i : RowsOf(i)' = RowsOf(i) /\ Died(i)' = Died(i)
      BY <2>1 DEF RowsOf, RowsFor, Died
    <3>2. \A i : \A r \in RowsOf(i) : r.deleted = Died(i)
      BY RowOfWrite
    <3> QED
      BY <2>1, <2>4, <2>6, <3>1, <3>2 DEF HistoryInv, TombstonesInv
  <2>7. ASSUME writeMode = "deleteAndInsert" PROVE InsertsInv'
    <3>1. \A r \in rows : r.deleted = AliveValue
      BY <2>7 DEF HistoryInv, InsertsInv, RowsFor
    <3>2. ~(AliveValue < time - Window)
      BY <2>3, Constants
    <3>3. rows' = rows
      BY <2>1, <2>4, <3>1, <3>2
    <3> QED
      BY <2>1, <2>7, <3>3 DEF HistoryInv, InsertsInv, RowsFor
  <2> QED
    BY <2>1, <2>5, <2>6, <2>7 DEF HistoryInv
<1>3. ASSUME UNCHANGED storeVars, time' = time \/ (time' = time + 1 /\ time < MaxTime)
      PROVE  HistoryInv'
  <2>1. \A i : RowsOf(i)' = RowsOf(i) /\ Died(i)' = Died(i)
    BY <1>3 DEF RowsOf, RowsFor, Died, storeVars
  <2>2. time \in 1..MaxTime
    BY DEF GCInv, Types
  <2>3. DatesInv'
    BY <1>3, <2>2, Constants DEF HistoryInv, DatesInv, storeVars
  <2>4. ASSUME NEW i \in DOMAIN written, ~(Died(i) < time' - Window)
        PROVE  ~(Died(i) < time - Window)
    <3>1. Died(i) \in 1..AliveValue
      BY DiesAfter DEF GCInv, HistoryInv
    <3> QED
      BY <1>3, <2>2, <2>4, <3>1, Constants
  <2>5. writeMode = "insertWithTombstones" => TombstonesInv'
    BY <1>3, <2>1, <2>4 DEF HistoryInv, TombstonesInv, storeVars
  <2>6. writeMode = "deleteAndInsert" => InsertsInv'
    BY <1>3 DEF HistoryInv, InsertsInv, storeVars, RowsFor
  <2> QED
    BY <1>3, <2>3, <2>5, <2>6 DEF HistoryInv, storeVars
<1>4. CASE Shutdown \/ Tick \/ UNCHANGED vars
  BY <1>3, <1>4 DEF Shutdown, Tick, vars
<1>5. ASSUME NEW n \in Nodes, Run(n)
      PROVE  HistoryInv'
  BY <1>3, <1>5 DEF Run
<1> QED
  BY <1>1, <1>2, <1>4, <1>5 DEF Next

\* The table and the history are in step in every reachable state.
LEMMA HistoryInductive == Spec => [](GCInv /\ HistoryInv)
<1>1. Init => HistoryInv
  <2> SUFFICES ASSUME Init PROVE HistoryInv
    OBVIOUS
  <2>1. rows = {} /\ written = <<>>
    BY DEF Init, StoreInit
  <2> QED
    BY <2>1 DEF HistoryInv, DatesInv, TombstonesInv, InsertsInv
<1>2. GCInv /\ GCInv' /\ HistoryInv /\ [Next]_vars => HistoryInv'
  BY HistoryKept
<1> QED
  BY <1>1, <1>2, GCInductive, PTL DEF Spec

\* A row of a write: its index, and that there is one of each.
LEMMA RowIndexes ==
  ASSUME NEW v \in Values, NEW created, NEW deleted
  PROVE  /\ \A r \in RowsFor(v, created, deleted) :
              r.index \in Nat /\ r.created = created /\ r.deleted = deleted
         /\ \A r, s \in RowsFor(v, created, deleted) : r.index = s.index => r = s
<1>1. PICK k \in Nat : DOMAIN chunksOf(v) = 1..k
  BY ChunksJoin, ValueAssumption
<1> DEFINE row(j) == [index |-> j - 1, chunk |-> chunksOf(v)[j], deleted |-> deleted,
                      created |-> created]
<1>2. RowsFor(v, created, deleted) = {row(j) : j \in 1..k}
  BY <1>1 DEF RowsFor
<1>3. \A j \in 1..k : row(j).index = j - 1 /\ row(j).created = created /\ row(j).deleted = deleted
  OBVIOUS
<1> HIDE DEF row
<1>4. ASSUME NEW j \in 1..k, NEW l \in 1..k, row(j).index = row(l).index PROVE j = l
  BY <1>3, <1>4
<1> QED
  BY <1>1, <1>2, <1>3, <1>4

\* Each write reads back as what it wrote.
LEMMA WriteReadsBack ==
  ASSUME NEW v \in Values, NEW created, NEW deleted
  PROVE  reassembleChunks(RowsFor(v, created, deleted)) = v
  BY RoundTrip, ValueAssumption

\* Where each row of the table is from.
LEMMA RowFrom ==
  ASSUME GCInv, HistoryInv, NEW r \in rows
  PROVE  \E v \in Values, created \in 0..time, deleted \in 1..AliveValue :
           /\ created < deleted
           /\ r \in RowsFor(v, created, deleted)
           /\ deleted = AliveValue => v = written[Len(written)].value /\
                created = IF writeMode = "deleteAndInsert" THEN Always ELSE written[Len(written)].at
<1>1. /\ Types /\ DatesInv /\ time \in 1..MaxTime /\ Len(written) \in Nat
      /\ DOMAIN written = 1..Len(written)
      /\ writeMode \in {"insertWithTombstones", "deleteAndInsert"}
  BY HistoryTypes DEF GCInv, HistoryInv, Types
<1>2. CASE writeMode = "insertWithTombstones"
  <2>1. PICK i \in DOMAIN written : r \in RowsOf(i)
    BY <1>2 DEF HistoryInv, TombstonesInv
  <2>2. /\ written[i].value \in Values /\ r \in RowsFor(written[i].value, written[i].at, Died(i))
        /\ written[i].at \in 1..time /\ written[i].at < Died(i) /\ Died(i) \in 1..AliveValue
        /\ Died(i) = AliveValue <=> i = Len(written)
    BY <1>1, <2>1, RowOfWrite, HistoryTypes, DiesAfter DEF DatesInv
  <2> QED
    BY <1>1, <1>2, <2>2
<1>3. CASE writeMode = "deleteAndInsert"
  <2>1. written # <<>> /\ written[Len(written)].value # Missing
        /\ r \in RowsFor(written[Len(written)].value, Always, AliveValue)
    BY <1>3 DEF HistoryInv, InsertsInv
  <2>2. Len(written) \in DOMAIN written
    BY <1>1, <2>1
  <2>3. written[Len(written)].value \in Values
    BY <1>1, <2>1, <2>2, HistoryTypes
  <2>4. Always \in 0..time /\ AliveValue \in 1..AliveValue /\ Always < AliveValue
    BY <1>1, Constants DEF Always
  <2> QED
    BY <1>3, <2>1, <2>3, <2>4
<1> QED
  BY <1>1, <1>2, <1>3

\* No two rows that live have one index, and every row died after it was made
\* (chunkbytes.go:136-272).
THEOREM StoreTyped == Spec => []TypeOK
<1>1. GCInv /\ HistoryInv => TypeOK
  <2> SUFFICES ASSUME GCInv, HistoryInv PROVE TypeOK
    OBVIOUS
  <2>1. ASSUME NEW r \in rows
        PROVE  /\ r.index \in Nat /\ r.created \in 0..time
               /\ r.created < r.deleted /\ r.deleted \in 1..AliveValue
    BY RowFrom, RowIndexes
  <2>2. ASSUME NEW r \in rows, NEW s \in rows, r.index = s.index,
               r.deleted = AliveValue, s.deleted = AliveValue
        PROVE  r = s
    <3> DEFINE last == written[Len(written)]
               created == IF writeMode = "deleteAndInsert" THEN Always ELSE last.at
    <3>1. ASSUME NEW q \in rows, q.deleted = AliveValue
          PROVE  last.value \in Values /\ q \in RowsFor(last.value, created, AliveValue)
      BY <3>1, RowFrom, RowIndexes
    <3> HIDE DEF last, created
    <3> QED
      BY <2>2, <3>1, RowIndexes
  <2>3. \A n \in Nodes : worker[n].at \in {"waiting", "locked", "dated", "deleting", "expiring",
                                           "unlocking", "stopped"}
    BY OneWorker DEF Places
  <2> QED
    BY <2>1, <2>2, <2>3 DEF TypeOK, GCInv, Types
<1> QED
  BY <1>1, HistoryInductive, PTL

\* Every revision CheckRevision accepts reads the value as the last write up to
\* it left it, whole, whatever was collected and whichever runs failed
\* (chunkbytes.go:136-341, gc.go:230-260, remoteclock.go:88-126).
THEOREM AcceptedReads == Spec => []AcceptedReadable
<1>1. GCInv /\ HistoryInv => AcceptedReadable
  <2> SUFFICES ASSUME GCInv, HistoryInv, NEW revision \in 0..time, CheckRevision(revision) = "ok"
               PROVE  ReadChunkedBytes(revision) = ValueAt(revision)
    BY DEF AcceptedReadable
  <2>1. /\ Len(written) \in Nat /\ DOMAIN written = 1..Len(written) /\ time \in 1..MaxTime
        /\ writeMode \in {"insertWithTombstones", "deleteAndInsert"}
        /\ \A i \in DOMAIN written : written[i].value \in Values \cup {Missing}
    BY HistoryTypes DEF GCInv, Types
  <2> DEFINE read == {r \in rows : r.created <= revision /\ revision < r.deleted}
  <2>2. reassembleChunks({}) = Missing
    BY DEF reassembleChunks
  <2>3. ReadChunkedBytes(revision) = reassembleChunks(read)
    BY DEF ReadChunkedBytes
  <2>4. CASE writeMode = "insertWithTombstones"
    <3> DEFINE before == {i \in DOMAIN written : written[i].at <= revision}
               last == CHOOSE i \in before : \A j \in before : j <= i
    <3>1. ValueAt(revision) = IF before = {} THEN Missing ELSE written[last].value
      BY <2>4 DEF ValueAt
    <3>2. /\ before = {} => read = {}
          /\ before # {} => last \in before /\ read = RowsOf(last)
      BY <2>4, ReadsOneWrite
    <3> HIDE DEF read, last
    <3>3. CASE before = {}
      BY <2>2, <2>3, <3>1, <3>2, <3>3
    <3>4. CASE before # {}
      <4>1. last \in DOMAIN written
        BY <3>2, <3>4
      <4>2. CASE written[last].value = Missing
        BY <2>2, <2>3, <3>1, <3>2, <3>4, <4>2 DEF RowsOf
      <4>3. CASE written[last].value # Missing
        <5>1. written[last].value \in Values
          BY <2>1, <4>1, <4>3
        <5>2. read = RowsFor(written[last].value, written[last].at, Died(last))
          BY <3>2, <3>4, <4>3 DEF RowsOf
        <5>3. reassembleChunks(read) = written[last].value
          BY <5>1, <5>2, WriteReadsBack
        <5> QED
          BY <2>3, <3>1, <3>4, <5>3
      <4> QED
        BY <4>2, <4>3
    <3> QED
      BY <3>3, <3>4
  <2>5. CASE writeMode = "deleteAndInsert"
    <3> DEFINE before == {i \in DOMAIN written : written[i].at <= time}
               last == CHOOSE i \in before : \A j \in before : j <= i
    <3>1. ValueAt(revision) = IF before = {} THEN Missing ELSE written[last].value
      BY <2>5 DEF ValueAt
    <3>2. before = 1..Len(written)
      BY <2>1 DEF HistoryInv, DatesInv
    <3>3. read = rows
      <4>1. \A r \in rows : r.created = Always /\ r.deleted = AliveValue
        BY <2>5 DEF HistoryInv, InsertsInv, RowsFor
      <4> QED
        BY <2>1, <4>1, Constants DEF Always
    <3>4. CASE written = <<>>
      <4>1. before = {} /\ rows = {}
        BY <2>5, <3>2, <3>4 DEF HistoryInv, InsertsInv
      <4> HIDE DEF read, before
      <4> QED
        BY <2>2, <2>3, <3>1, <3>3, <4>1
    <3>5. CASE written # <<>>
      <4> DEFINE n == Len(written)
      <4>1. n \in before /\ \A j \in before : j <= n
        BY <2>1, <3>2, <3>5
      <4> HIDE DEF before, n
      <4>2. last \in before /\ \A j \in before : j <= last
        BY <4>1, Zenon
      <4>3. before \subseteq Nat
        BY <2>1, <3>2
      <4> HIDE DEF last
      <4>4. last = n
        BY <4>1, <4>2, <4>3
      <4>5. ValueAt(revision) = written[n].value
        BY <3>1, <4>1, <4>4
      <4>6. n \in DOMAIN written
        BY <2>1, <3>2, <4>1 DEF before
      <4> HIDE DEF read
      <4>7. CASE written[n].value = Missing
        <5>1. rows = {}
          BY <2>5, <4>7 DEF HistoryInv, InsertsInv, n
        <5> QED
          BY <2>2, <2>3, <3>3, <4>5, <4>7, <5>1
      <4>8. CASE written[n].value # Missing
        <5>1. rows = RowsFor(written[n].value, Always, AliveValue)
          BY <2>5, <3>5, <4>8 DEF HistoryInv, InsertsInv, n
        <5>2. written[n].value \in Values
          BY <2>1, <4>6, <4>8
        <5> QED
          BY <2>3, <3>3, <4>5, <5>1, <5>2, WriteReadsBack
      <4> QED
        BY <4>7, <4>8
    <3> QED
      BY <3>4, <3>5
  <2> QED
    BY <2>1, <2>4, <2>5
<1> QED
  BY <1>1, HistoryInductive, PTL
=============================================================================
