------------------------- MODULE GarbageCollection -------------------------
(***************************************************************************)
(* internal/datastore/common/gc.go: one garbage collection worker on each  *)
(* node, all collecting the same datastore under the datastore's lock.     *)
(* How long a worker waits between runs, by its interval or after failures *)
(* by its backoff, is not modelled: a run may begin at any time.           *)
(***************************************************************************)
EXTENDS ChunkStore

CONSTANTS
  Nodes,   \* the nodes that run a worker
  NoNode   \* nobody holds the lock

ASSUME NodesAssumption == NoNode \notin Nodes

VARIABLES
  worker,      \* where each node's worker is in RunGarbageCollection
  gcLock,      \* the datastore's lock for garbage collection
  canceled,    \* is the workers' context canceled?
  collectedTo  \* the watermark of each node's last completed run

gcVars == <<worker, gcLock, canceled, collectedTo>>

Never == -1   \* HasGCRun() is false

\* A worker: its place, the time Now gave it, the watermark of its run, and
\* whether a step of the run has failed.
Place(at, now, watermark, failed) ==
  [at |-> at, now |-> now, watermark |-> watermark, failed |-> failed]

Waiting == Place("waiting", 0, Never, FALSE)

Goes(n, place) == worker' = [worker EXCEPT ![n] = place]

\* The run ends before it has the lock: an error, a datastore that is not
\* ready, or another node collecting.
BeginInVain(n) ==
  /\ worker[n].at = "waiting"
  /\ Goes(n, Waiting)
  /\ UNCHANGED <<gcLock, canceled, collectedTo>>

\* The datastore is ready, a collector is built and has the lock.
LockForGCRun(n) ==
  /\ worker[n].at = "waiting"
  /\ gcLock = NoNode
  /\ gcLock' = n
  /\ Goes(n, Place("locked", 0, Never, FALSE))
  /\ UNCHANGED <<canceled, collectedTo>>

\* Now, or its error: the deferred calls still give the lock back.
Now(n) ==
  /\ worker[n].at = "locked"
  /\ Goes(n, Place("dated", time, Never, FALSE))
  /\ UNCHANGED <<gcLock, canceled, collectedTo>>

\* Mutant: an error before the watermark returns past the unlock.
FailsLocked(n) ==
  /\ worker[n].at \in {"locked", "dated"}
  /\ Goes(n, Waiting)
  /\ UNCHANGED <<gcLock, canceled, collectedTo>>

Fails(n) ==
  /\ worker[n].at \in {"locked", "dated"}
  /\ Goes(n, Place("unlocking", 0, Never, FALSE))
  /\ UNCHANGED <<gcLock, canceled, collectedTo>>

\* Mutant: the window is left out.
WatermarkOfNow(n) ==
  LET before == {i \in DOMAIN written : written[i].at < worker[n].now}
  IN IF before = {} THEN 0 ELSE written[CHOOSE i \in before : \A j \in before : j <= i].at

\* TxIDBefore(now - window): the last transaction before the window.
Watermark(n) ==
  LET before == {i \in DOMAIN written : written[i].at < worker[n].now - Window}
  IN IF before = {} THEN 0 ELSE written[CHOOSE i \in before : \A j \in before : j <= i].at

TxIDBefore(n) ==
  /\ worker[n].at = "dated"
  /\ Goes(n, Place("deleting", 0, Watermark(n), FALSE))
  /\ UNCHANGED <<gcLock, canceled, collectedTo>>

Garbage(watermark) == {r \in rows : r.deleted <= watermark}

\* A failed DeleteBeforeTx may have deleted some; DeleteExpiredRels runs anyway.
DeleteBeforeTx(n) ==
  /\ worker[n].at = "deleting"
  /\ \/ /\ rows' = rows \ Garbage(worker[n].watermark)
        /\ Goes(n, Place("expiring", 0, worker[n].watermark, FALSE))
     \/ /\ \E some \in SUBSET Garbage(worker[n].watermark) : rows' = rows \ some
        /\ Goes(n, Place("expiring", 0, worker[n].watermark, TRUE))
  /\ UNCHANGED <<writeMode, time, written, gcLock, canceled, collectedTo>>

\* Mutant: the error of DeleteBeforeTx is overwritten by DeleteExpiredRels'.
MarkGCCompletedAnyway(n) == collectedTo' = [collectedTo EXCEPT ![n] = worker[n].watermark]

MarkGCCompleted(n) ==
  collectedTo' = IF worker[n].failed THEN collectedTo
                 ELSE [collectedTo EXCEPT ![n] = worker[n].watermark]

\* The expired relationships are another table; only its error matters here.
DeleteExpiredRels(n) ==
  /\ worker[n].at = "expiring"
  /\ Goes(n, Place("unlocking", 0, Never, FALSE))
  /\ \/ MarkGCCompleted(n)
     \/ UNCHANGED collectedTo
  /\ UNCHANGED <<gcLock, canceled>>

\* The deferred UnlockAfterGCRun, which needs no context, and Close. An error of the
\* unlock is only logged: the lock may be left behind, and no later call gives it back.
UnlockAfterGCRun(n) ==
  /\ worker[n].at = "unlocking"
  /\ gcLock' \in {NoNode, gcLock}
  /\ Goes(n, Waiting)
  /\ UNCHANGED <<canceled, collectedTo>>

\* Mutant: a worker whose runs failed retries without looking at the context.
StopAfterSuccess(n) ==
  /\ worker[n].at = "waiting"
  /\ canceled
  /\ collectedTo[n] # Never
  /\ Goes(n, Place("stopped", 0, Never, FALSE))
  /\ UNCHANGED <<gcLock, canceled, collectedTo>>

\* The worker's loop ends where it waits for the next run, unless its timer has
\* expired too and the select takes that: what it runs is then a run as any other.
Stop(n) ==
  /\ worker[n].at = "waiting"
  /\ canceled
  /\ Goes(n, Place("stopped", 0, Never, FALSE))
  /\ UNCHANGED <<gcLock, canceled, collectedTo>>

Cancel ==
  /\ ~canceled
  /\ canceled' = TRUE
  /\ UNCHANGED <<worker, gcLock, collectedTo>>

GCInit ==
  /\ worker = [n \in Nodes |-> Waiting]
  /\ gcLock = NoNode
  /\ canceled = FALSE
  /\ collectedTo = [n \in Nodes |-> Never]

\* The steps of a run that leave the datastore's tables alone.
RunStep(n) ==
  \/ BeginInVain(n) \/ LockForGCRun(n) \/ Now(n) \/ Fails(n) \/ TxIDBefore(n)
  \/ DeleteExpiredRels(n) \/ UnlockAfterGCRun(n) \/ Stop(n)
=============================================================================
