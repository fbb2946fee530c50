--------------------------- MODULE RevisionCache ---------------------------
(***************************************************************************)
(* internal/datastore/revisions/optimized.go: CachedOptimizedRevisions     *)
(* hands out the revisions of RemoteClock, keeps them while they are valid *)
(* and computes one revision for all the callers that wait for it.         *)
(*                                                                         *)
(* A caller's own clock differs from the datastore's by a constant at      *)
(* most, which cancels out: time stands for both.                          *)
(***************************************************************************)
EXTENDS RemoteClock

CONSTANTS
  Callers,       \* goroutines that call OptimizedRevision
  NoCaller,      \* no revision is being computed
  CallTime       \* the deadline of a request, from its call to its last read

ASSUME CacheAssumption ==
  /\ NoCaller \notin Callers
  /\ CallTime \in Nat

VARIABLES
  candidates,  \* cached revisions, in the order they were computed
  flight,      \* whose call computes a revision for all
  caller       \* what each caller has read and been handed

cacheVars == <<candidates, flight, caller>>

Candidate == [revision : Int, validThrough : Int]

\* A call: its place, when it began, the time it looks up, and what it has got.
Call(at, localNow, adjustedNow, revision, valid) ==
  [at |-> at, localNow |-> localNow, adjustedNow |-> adjustedNow,
   revision |-> revision, validFor |-> valid]

Idle == Call("idle", 0, 0, 0, 0)

Busy(p) == caller[p].at # "idle"

\* rand.Int63n(maxRevisionStaleness), or nothing.
Slack == IF maxRevisionStaleness > 0 THEN 0..(maxRevisionStaleness - 1) ELSE {0}

Goes(p, call) == caller' = [caller EXCEPT ![p] = call]

Ask(p) ==
  /\ ~Busy(p)
  /\ \E slack \in Slack :
       Goes(p, Call("asked", time, time - slack, 0, 0))
  /\ UNCHANGED <<candidates, flight>>

Valid(p) == {i \in DOMAIN candidates : candidates[i].validThrough > caller[p].adjustedNow}

\* The first candidate that is still valid.
Hit(p) ==
  /\ caller[p].at = "asked"
  /\ \E i \in Valid(p) :
       /\ \A j \in Valid(p) : i <= j
       /\ Goes(p, Call("handed", caller[p].localNow, 0, candidates[i].revision, 0))
  /\ UNCHANGED <<candidates, flight>>

Miss(p) ==
  /\ caller[p].at = "asked"
  /\ Valid(p) = {}
  /\ Goes(p, Call("missed", caller[p].localNow, 0, 0, 0))
  /\ UNCHANGED <<candidates, flight>>

\* Mutant: every caller that misses computes for itself.
LeadAnyway(p) ==
  /\ caller[p].at = "missed"
  /\ flight' = p
  /\ Goes(p, Call("leading", caller[p].localNow, 0, 0, 0))
  /\ UNCHANGED candidates

\* updateGroup.Do: the first to call it computes, the others wait for it.
Lead(p) ==
  /\ caller[p].at = "missed"
  /\ flight = NoCaller
  /\ flight' = p
  /\ Goes(p, Call("leading", caller[p].localNow, 0, 0, 0))
  /\ UNCHANGED candidates

Join(p) ==
  /\ caller[p].at = "missed"
  /\ flight # NoCaller
  /\ Goes(p, Call("waiting", caller[p].localNow, 0, 0, 0))
  /\ UNCHANGED <<candidates, flight>>

Compute(p) ==
  /\ caller[p].at = "leading"
  /\ Goes(p, Call("computed", caller[p].localNow, 0, optimizedRevision(time), validFor(time)))
  /\ UNCHANGED <<candidates, flight>>

\* The flight is for its leader and for those who wait.
Landed(p) == {p} \cup {q \in Callers : caller[q].at = "waiting"}

ComputeFails(p) ==
  /\ caller[p].at = "leading"
  /\ caller' = [q \in Callers |-> IF q \in Landed(p) THEN Idle ELSE caller[q]]
  /\ flight' = NoCaller
  /\ UNCHANGED candidates

Expired(c, localNow) == c.validThrough + maxRevisionStaleness < localNow

\* The candidates from the first that has not definitely expired.
Pruned(localNow) ==
  LET kept == {i \in DOMAIN candidates : ~Expired(candidates[i], localNow)}
  IN IF kept = {} THEN <<>>
     ELSE SubSeq(candidates, CHOOSE i \in kept : \A j \in kept : i <= j, Len(candidates))

\* Mutant: the revision is valid from when it is published.
validThroughPublished(p) == time + caller[p].validFor

validThrough(p) == caller[p].localNow + caller[p].validFor

Publish(p) ==
  /\ caller[p].at = "computed"
  /\ candidates' = Append(Pruned(caller[p].localNow),
                          [revision |-> caller[p].revision, validThrough |-> validThrough(p)])
  /\ caller' = [q \in Callers |->
                  IF q \in Landed(p)
                  THEN Call("handed", caller[q].localNow, 0, caller[p].revision, 0)
                  ELSE caller[q]]
  /\ flight' = NoCaller

\* The request reads at its revision, and is answered.
Answered(p) ==
  /\ caller[p].at = "handed"
  /\ Goes(p, Idle)
  /\ UNCHANGED <<candidates, flight>>

\* A request in progress has not reached its deadline.
Tick ==
  /\ time < MaxTime
  /\ \A p \in Callers : Busy(p) => time < caller[p].localNow + CallTime
  /\ time' = time + 1

CacheInit ==
  /\ candidates = <<>>
  /\ flight = NoCaller
  /\ caller = [p \in Callers |-> Idle]

CacheStep(p) ==
  \/ Ask(p) \/ Hit(p) \/ Miss(p) \/ Lead(p) \/ Join(p)
  \/ Compute(p) \/ ComputeFails(p) \/ Publish(p) \/ Answered(p)

cacheAllVars == <<time, cacheVars>>

Init == time = 1 /\ CacheInit

Next ==
  \/ \E p \in Callers : CacheStep(p) /\ UNCHANGED time
  \/ Tick /\ UNCHANGED cacheVars

Spec == Init /\ [][Next]_cacheAllVars

----------------------------------------------------------------------------
(***************************************************************************)
(* Properties                                                              *)
(***************************************************************************)
\* How far quantization takes a new revision back at most.
Coarseness == IF Quantum > 0 THEN Quantum - 1 ELSE 0

\* The window leaves room for the oldest revision that a request may still read
\* at when its time is up: one from the cache, stale by MaxStaleness, or one
\* that the call it waited for computed.
ASSUME RoomAssumption ==
  /\ maxRevisionStaleness + CallTime + Delay + Quantum <= Window + 2
  /\ 2 * CallTime + Delay + Coarseness <= Window

TypeOK ==
  /\ time \in 1..MaxTime
  /\ candidates \in Seq(Candidate)
  /\ flight \in Callers \cup {NoCaller}
  /\ \A p \in Callers : caller[p].at \in {"leading", "computed"} <=> flight = p
  /\ \A p \in Callers : caller[p].revision \in Int /\ caller[p].validFor \in 0..Quantum

\* A revision that OptimizedRevision hands out passes CheckRevision until the
\* request that asked for it has to be answered, from the cache or not, alone or
\* waiting for another caller's computation.
HandedOutAccepted ==
  \A p \in Callers : caller[p].at = "handed" => CheckRevision(caller[p].revision) = "ok"
=============================================================================
