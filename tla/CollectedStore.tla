--------------------------- MODULE CollectedStore ---------------------------
(***************************************************************************)
(* A datastore that writes a value in chunks while its nodes collect what  *)
(* no revision within the window needs: ChunkStore and GarbageCollection   *)
(* over the clock of RemoteClock.                                          *)
(***************************************************************************)
EXTENDS GarbageCollection

vars == <<time, storeVars, gcVars>>

Init == time = 1 /\ StoreInit /\ GCInit

Write == \E v \in Values : WriteChunkedBytes(v) /\ UNCHANGED <<time, gcVars>>
Delete == DeleteChunkedBytes /\ UNCHANGED <<time, gcVars>>
Run(n) == RunStep(n) /\ UNCHANGED <<time, storeVars>>
Collect(n) == DeleteBeforeTx(n) /\ UNCHANGED time
Shutdown == Cancel /\ UNCHANGED <<time, storeVars>>

Tick ==
  /\ time < MaxTime
  /\ time' = time + 1
  /\ UNCHANGED <<storeVars, gcVars>>

Next ==
  \/ Write \/ Delete \/ Shutdown \/ Tick
  \/ \E n \in Nodes : Run(n) \/ Collect(n)

\* A worker's goroutine runs on: each of its calls returns, if with an error, and a
\* worker that comes back to its select over and over takes the canceled context
\* in the end, since a select chooses at random among what is ready. Nothing makes
\* a worker that waits begin a run.
Fairness ==
  \A n \in Nodes :
    /\ WF_vars((worker[n].at # "waiting" /\ Run(n)) \/ Collect(n))
    /\ SF_vars(Stop(n) /\ UNCHANGED <<time, storeVars>>)

Spec == Init /\ [][Next]_vars
FairSpec == Spec /\ Fairness

----------------------------------------------------------------------------
(***************************************************************************)
(* Properties                                                              *)
(***************************************************************************)
TypeOK ==
  /\ writeMode \in WriteModes /\ time \in 1..MaxTime
  /\ \A r \in rows : /\ r.index \in Nat /\ r.created \in 0..time
                     /\ r.created < r.deleted /\ r.deleted \in 1..AliveValue
  /\ \A r, s \in rows :
       r.index = s.index /\ r.deleted = AliveValue /\ s.deleted = AliveValue => r = s
  /\ \A n \in Nodes : worker[n].at \in {"waiting", "locked", "dated", "deleting", "expiring",
                                        "unlocking", "stopped"}

\* Every revision that CheckRevision accepts reads the value as the last write up
\* to it left it, whole: never chunks of two writes, one too few, or a chunk that
\* a node has collected, however its runs and those of others fail and overlap.
AcceptedReadable ==
  \A revision \in 0..time :
    CheckRevision(revision) = "ok" => ReadChunkedBytes(revision) = ValueAt(revision)

\* A node whose HasGCRun is true has collected all garbage up to its watermark,
\* whatever failed in the runs since.
CompletedIsCollected ==
  \A n \in Nodes : collectedTo[n] # Never => Garbage(collectedTo[n]) = {}

\* A run that takes the lock comes to UnlockAfterGCRun, whichever of its steps
\* fails (gc.go:230-258). Whether the datastore then frees the lock is up to it: the
\* code logs an error of that call and goes on (gc.go:241-248).
UnlockCalled ==
  \A n \in Nodes : worker[n].at = "locked" ~> worker[n].at = "unlocking"

\* Every worker stops when its context is canceled.
WorkersStop ==
  canceled ~> \A n \in Nodes : worker[n].at = "stopped"
=============================================================================
