------------------------ MODULE RevisionCacheProofs ------------------------
(* What OptimizedRevision hands out is acceptable, for all windows and quanta. *)
EXTENDS RevisionCache, WellFoundedInduction, TLAPS

\* The most that is subtracted from a caller's clock to make it look up the past.
MaxSlack == IF maxRevisionStaleness > 0 THEN maxRevisionStaleness - 1 ELSE 0

Places == {"idle", "asked", "missed", "leading", "waiting", "computed", "handed"}

CallRecord == [at : Places, localNow : Int, adjustedNow : Int, revision : Int, validFor : Int]

Types ==
  /\ time \in 1..MaxTime
  /\ candidates \in Seq(Candidate)
  /\ flight \in Callers \cup {NoCaller}
  /\ caller \in [Callers -> CallRecord]
  /\ \A p \in Callers : caller[p].validFor \in 0..Quantum

OneFlight == \A p \in Callers : caller[p].at \in {"leading", "computed"} <=> flight = p

\* A candidate is of the past, and no longer valid once its revision is older
\* than the delay and the quantum.
CandidatesInv ==
  \A i \in DOMAIN candidates :
    /\ candidates[i].revision <= time
    /\ candidates[i].validThrough <= candidates[i].revision + Delay + Quantum

\* What a call knows of the clock at each of its places.
InTime(p) ==
  /\ caller[p].localNow <= time
  /\ time <= caller[p].localNow + CallTime

AskedInv(p) == caller[p].adjustedNow + MaxSlack >= caller[p].localNow

ComputedInv(p) ==
  /\ caller[p].revision <= time
  /\ caller[p].localNow <= caller[p].revision + Delay + Coarseness
  /\ caller[p].localNow + caller[p].validFor <= caller[p].revision + Delay + Quantum

\* The revision is in the window until the call is over.
HandedInv(p) ==
  /\ caller[p].revision <= time
  /\ caller[p].localNow + CallTime <= caller[p].revision + Window

CallInv(p) ==
  /\ Busy(p) => InTime(p)
  /\ caller[p].at = "asked" => AskedInv(p)
  /\ caller[p].at = "computed" => ComputedInv(p)
  /\ caller[p].at = "handed" => HandedInv(p)

CacheInv == Types /\ OneFlight /\ CandidatesInv /\ \A p \in Callers : CallInv(p)

\* The bound on staleness is an integer, and so is the slack.
LEMMA Staleness == maxRevisionStaleness \in Int /\ MaxSlack \in Nat
  BY ClockAssumption DEF maxRevisionStaleness, MaxSlack

\* The room the window leaves, in the two forms the proof needs.
LEMMA Room ==
  /\ Quantum \in Nat /\ Delay \in Nat /\ Window \in Nat /\ CallTime \in Nat
  /\ Coarseness \in Nat /\ Coarseness <= Quantum
  /\ MaxSlack + CallTime + Delay + Quantum <= Window + 1
  /\ 2 * CallTime + Delay + Coarseness <= Window
  BY Staleness, ClockAssumption, CacheAssumption, RoomAssumption DEF MaxSlack, Coarseness

\* An optimized revision is a quantum's start, valid until the next one; without
\* quanta it is the delayed now, and not valid at all.
LEMMA Quantized ==
  ASSUME NEW t \in Int
  PROVE  /\ AfterLastQuantization(t) \in 0..Coarseness
         /\ optimizedRevision(t) = t - Delay - AfterLastQuantization(t)
         /\ validFor(t) = Quantum - AfterLastQuantization(t)
<1>1. CASE Quantum > 0
  <2>1. (t - Delay) % Quantum \in 0..(Quantum - 1)
    BY <1>1, Room
  <2> QED
    BY <1>1, <2>1, Room DEF AfterLastQuantization, optimizedRevision, validFor, Coarseness
<1>2. CASE Quantum = 0
  BY <1>2, Room DEF AfterLastQuantization, optimizedRevision, validFor, Coarseness
<1> QED
  BY <1>1, <1>2, Room

\* A set of numbers that is not empty has a least one.
LEMMA LeastExists ==
  ASSUME NEW T \in SUBSET Nat, T # {}
  PROVE  \E i \in T : \A j \in T : i <= j
<1>1. PICK i \in T : \A j \in T : <<j, i>> \notin OpToRel(<, Nat)
  BY NatLessThanWellFounded, WFMin
<1>2. \A j \in T : ~(j < i)
  BY <1>1 DEF OpToRel
<1> QED
  BY <1>2

\* Pruning takes a part of the candidates.
LEMMA PrunedCandidates ==
  ASSUME NEW now \in Int, candidates \in Seq(Candidate)
  PROVE  /\ Pruned(now) \in Seq(Candidate)
         /\ \A i \in DOMAIN Pruned(now) : \E j \in DOMAIN candidates :
              Pruned(now)[i] = candidates[j]
<1> DEFINE kept == {i \in DOMAIN candidates : ~Expired(candidates[i], now)}
           first == CHOOSE i \in kept : \A j \in kept : i <= j
<1>1. CASE kept = {}
  <2>1. Pruned(now) = <<>>
    BY <1>1 DEF Pruned
  <2> QED
    BY <2>1
<1>2. CASE kept # {}
  <2>1. first \in 1..Len(candidates)
    <3>1. kept \in SUBSET Nat /\ kept \subseteq 1..Len(candidates)
      OBVIOUS
    <3> HIDE DEF kept
    <3>2. \E i \in kept : \A j \in kept : i <= j
      BY <3>1, <1>2, LeastExists
    <3>3. first \in kept
      BY <3>2
    <3> QED
      BY <3>1, <3>3
  <2>2. Pruned(now) = SubSeq(candidates, first, Len(candidates))
    BY <1>2 DEF Pruned
  <2> HIDE DEF first
  <2>3. Pruned(now) \in Seq(Candidate)
    BY <2>1, <2>2
  <2>4. /\ DOMAIN Pruned(now) = 1..(Len(candidates) - first + 1)
        /\ \A i \in 1..(Len(candidates) - first + 1) : Pruned(now)[i] = candidates[first + i - 1]
    BY <2>1, <2>2
  <2>5. \A i \in 1..(Len(candidates) - first + 1) : first + i - 1 \in DOMAIN candidates
    BY <2>1
  <2> QED
    BY <2>3, <2>4, <2>5
<1> QED
  BY <1>1, <1>2

\* A step that moves one caller and starts or ends no flight keeps the rest.
LEMMA GoesKeeps ==
  ASSUME CacheInv, NEW p \in Callers, NEW to \in CallRecord, UNCHANGED <<time, candidates>>,
         Goes(p, to), CallInv(p)', to.validFor \in 0..Quantum,
         flight' \in Callers \cup {NoCaller},
         \A q \in Callers \ {p} : flight' = q <=> flight = q,
         to.at \in {"leading", "computed"} <=> flight' = p
  PROVE  CacheInv'
<1>1. /\ caller' \in [Callers -> CallRecord] /\ caller'[p] = to
      /\ \A q \in Callers \ {p} : caller'[q] = caller[q]
  BY DEF CacheInv, Types, Goes
<1>2. Types' /\ OneFlight' /\ CandidatesInv'
  BY <1>1 DEF CacheInv, Types, OneFlight, CandidatesInv
<1>3. ASSUME NEW q \in Callers PROVE CallInv(q)'
  BY <1>1 DEF CacheInv, CallInv, Busy, InTime, AskedInv, ComputedInv, HandedInv
<1> QED
  BY <1>2, <1>3 DEF CacheInv

\* What the invariant says of one caller.
LEMMA OneCaller ==
  ASSUME CacheInv, NEW p \in Callers
  PROVE  /\ caller[p] \in CallRecord /\ caller[p].validFor \in 0..Quantum /\ time \in Int
         /\ caller[p].at \in Places
         /\ caller[p].localNow \in Int /\ caller[p].adjustedNow \in Int
         /\ caller[p].revision \in Int
         /\ caller[p].at \in {"leading", "computed"} <=> flight = p
         /\ \A to : Goes(p, to) => caller'[p] = to
  BY DEF CacheInv, Types, OneFlight, CallRecord, Goes

\* A caller that asks subtracts no more than MaxSlack from its clock.
LEMMA AskStep ==
  ASSUME CacheInv, NEW p \in Callers, UNCHANGED <<time, candidates>>, Ask(p)
  PROVE  CacheInv'
<1>1. PICK slack \in Slack :
        Goes(p, Call("asked", time, time - slack, 0, 0))
  BY DEF Ask
<1> DEFINE to == Call("asked", time, time - slack, 0, 0)
<1>2. slack \in 0..MaxSlack
  BY Staleness DEF Slack, MaxSlack
<1>3. Goes(p, to) /\ caller'[p] = to
  BY <1>1, OneCaller
<1>4. /\ to \in CallRecord /\ to.validFor = 0 /\ to.at = "asked"
      /\ to.localNow = time /\ to.adjustedNow = time - slack
  BY <1>2, OneCaller, Staleness DEF Call, CallRecord, Places
<1> HIDE DEF to
<1>5. CallInv(p)'
  BY <1>2, <1>3, <1>4, OneCaller, Staleness, Room DEF CallInv, Busy, InTime, AskedInv
<1>6. flight' = flight /\ flight # p
  BY OneCaller DEF Ask, Busy
<1>7. flight \in Callers \cup {NoCaller} /\ 0 \in 0..Quantum
  BY Room DEF CacheInv, Types
<1> QED
  BY <1>3, <1>4, <1>5, <1>6, <1>7, GoesKeeps

\* A cached revision that is still valid for the caller is young enough for it.
LEMMA HitStep ==
  ASSUME CacheInv, NEW p \in Callers, UNCHANGED <<time, candidates>>, Hit(p)
  PROVE  CacheInv'
<1>1. PICK i \in Valid(p) :
        Goes(p, Call("handed", caller[p].localNow, 0, candidates[i].revision, 0))
  BY DEF Hit
<1> DEFINE to == Call("handed", caller[p].localNow, 0, candidates[i].revision, 0)
<1>2. /\ i \in DOMAIN candidates /\ candidates[i].validThrough > caller[p].adjustedNow
      /\ candidates[i] \in Candidate
  BY DEF Valid, CacheInv, Types
<1>3. /\ candidates[i].revision \in Int /\ candidates[i].validThrough \in Int
      /\ candidates[i].revision <= time
      /\ candidates[i].validThrough <= candidates[i].revision + Delay + Quantum
  BY <1>2 DEF Candidate, CacheInv, CandidatesInv
<1>4. caller[p].at = "asked" /\ AskedInv(p) /\ InTime(p)
  BY DEF Hit, CacheInv, CallInv, Busy
<1>5. /\ to \in CallRecord /\ to.at = "handed" /\ to.localNow = caller[p].localNow
      /\ to.revision = candidates[i].revision /\ to.validFor = 0
  BY <1>3, OneCaller DEF Call, CallRecord, Places
<1>6. Goes(p, to) /\ caller'[p] = to
  BY <1>1, OneCaller
<1> HIDE DEF to
<1>7. CallInv(p)'
  BY <1>2, <1>3, <1>4, <1>5, <1>6, OneCaller, Room, Staleness
     DEF CallInv, Busy, InTime, AskedInv, HandedInv
<1>8. flight' = flight /\ flight # p /\ flight \in Callers \cup {NoCaller} /\ 0 \in 0..Quantum
  BY <1>4, OneCaller, Room DEF Hit, CacheInv, Types
<1> QED
  BY <1>5, <1>6, <1>7, <1>8, OneCaller, GoesKeeps

\* To miss, to lead and to join leave what a caller knows of the clock.
LEMMA WaitStep ==
  ASSUME CacheInv, NEW p \in Callers, UNCHANGED <<time, candidates>>,
         Miss(p) \/ Lead(p) \/ Join(p)
  PROVE  CacheInv'
<1>1. PICK at \in Places :
        /\ Goes(p, Call(at, caller[p].localNow, 0, 0, 0))
        /\ \/ at \in {"missed", "waiting"} /\ flight' = flight
           \/ at = "leading" /\ flight = NoCaller /\ flight' = p
  BY DEF Miss, Lead, Join, Places
<1> DEFINE to == Call(at, caller[p].localNow, 0, 0, 0)
<1>2. to \in CallRecord /\ to.at = at /\ to.localNow = caller[p].localNow /\ to.validFor = 0
  BY OneCaller DEF Call, CallRecord
<1>3. Goes(p, to) /\ caller'[p] = to
  BY <1>1, OneCaller
<1> HIDE DEF to
<1>4. caller[p].at \in {"asked", "missed"} /\ InTime(p) /\ flight # p
  BY OneCaller DEF Miss, Lead, Join, CacheInv, CallInv, Busy
<1>5. CallInv(p)'
  BY <1>1, <1>2, <1>3, <1>4 DEF CallInv, Busy, InTime
<1>6. flight \in Callers \cup {NoCaller} /\ 0 \in 0..Quantum
  BY Room DEF CacheInv, Types
<1>7. flight' \in Callers \cup {NoCaller} /\ (\A q \in Callers \ {p} : flight' = q <=> flight = q)
  BY <1>1, <1>6, CacheAssumption
<1>8. to.at \in {"leading", "computed"} <=> flight' = p
  BY <1>1, <1>2, <1>4
<1> QED
  BY <1>2, <1>3, <1>5, <1>6, <1>7, <1>8, GoesKeeps

\* The leader of a flight computes a revision of now, which is after it asked.
LEMMA ComputeStep ==
  ASSUME CacheInv, NEW p \in Callers, UNCHANGED <<time, candidates>>, Compute(p)
  PROVE  CacheInv'
<1> DEFINE to == Call("computed", caller[p].localNow, 0, optimizedRevision(time), validFor(time))
<1>1. optimizedRevision(time) \in Int /\ validFor(time) \in 0..Quantum
  BY OneCaller, Quantized, Room
<1>2. /\ to \in CallRecord /\ to.at = "computed" /\ to.localNow = caller[p].localNow
      /\ to.revision = optimizedRevision(time) /\ to.validFor = validFor(time)
  BY <1>1, OneCaller, Room DEF Call, CallRecord, Places
<1>3. Goes(p, to) /\ caller'[p] = to
  BY OneCaller DEF Compute
<1> HIDE DEF to
<1>4. InTime(p) /\ flight' = flight /\ flight = p
  BY OneCaller DEF Compute, CacheInv, CallInv, Busy
<1>5. ComputedInv(p)'
  BY <1>2, <1>3, <1>4, OneCaller, Quantized, Room DEF ComputedInv, InTime
<1>6. CallInv(p)'
  BY <1>2, <1>3, <1>4, <1>5 DEF CallInv, Busy, InTime
<1> QED
  BY <1>1, <1>2, <1>3, <1>4, <1>6, GoesKeeps

\* A request that has been answered asks nothing of the cache.
LEMMA AnsweredStep ==
  ASSUME CacheInv, NEW p \in Callers, UNCHANGED <<time, candidates>>, Answered(p)
  PROVE  CacheInv'
<1>1. Idle \in CallRecord /\ Idle.validFor = 0 /\ Idle.at = "idle"
  BY DEF Idle, Call, CallRecord, Places
<1>2. Goes(p, Idle) /\ caller'[p] = Idle /\ flight' = flight /\ flight # p
  BY OneCaller DEF Answered
<1>3. CallInv(p)'
  BY <1>1, <1>2 DEF CallInv, Busy
<1>4. flight \in Callers \cup {NoCaller} /\ 0 \in 0..Quantum
  BY Room DEF CacheInv, Types
<1> QED
  BY <1>1, <1>2, <1>3, <1>4, GoesKeeps

\* A computation that fails sends those who waited for it back.
LEMMA FailureStep ==
  ASSUME CacheInv, NEW p \in Callers, UNCHANGED <<time, candidates>>, ComputeFails(p)
  PROVE  CacheInv'
<1> USE DEF CacheInv
<1>1. /\ flight = p /\ flight' = NoCaller
      /\ \A q \in Callers : caller'[q] = IF q \in Landed(p) THEN Idle ELSE caller[q]
  BY DEF ComputeFails, OneFlight
<1>2. OneFlight' /\ CandidatesInv'
  BY <1>1, CacheAssumption DEF OneFlight, CandidatesInv, Landed, Idle, Call
<1>3. Types'
  <2>1. Idle \in CallRecord /\ Idle.validFor \in 0..Quantum
    BY Room DEF Idle, Call, CallRecord, Places
  <2> QED
    BY <1>1, <2>1 DEF ComputeFails, Types
<1>4. ASSUME NEW q \in Callers PROVE CallInv(q)'
  BY <1>1 DEF CallInv, Busy, InTime, AskedInv, ComputedInv, HandedInv, Idle, Call
<1> QED
  BY <1>2, <1>3, <1>4

\* A computed revision is good for its leader, for all who wait, and for the cache.
LEMMA PublishStep ==
  ASSUME CacheInv, NEW p \in Callers, UNCHANGED time, Publish(p)
  PROVE  CacheInv'
<1> USE DEF CacheInv
<1> DEFINE new == [revision |-> caller[p].revision, validThrough |-> validThrough(p)]
           pruned == Pruned(caller[p].localNow)
<1>1. /\ caller[p] \in CallRecord /\ caller[p].at = "computed" /\ ComputedInv(p) /\ InTime(p)
      /\ caller[p].validFor \in 0..Quantum /\ flight = p /\ flight' = NoCaller
      /\ time \in Int
  BY OneCaller DEF Publish, CallInv, Busy
<1>2. /\ caller' \in [Callers -> CallRecord]
      /\ \A q \in Landed(p) : /\ caller'[q].at = "handed" /\ caller'[q].validFor = 0
                              /\ caller'[q].localNow = caller[q].localNow
                              /\ caller'[q].revision = caller[p].revision
      /\ \A q \in Callers \ Landed(p) : caller'[q] = caller[q]
  <2>1. ASSUME NEW q \in Callers
        PROVE  LET to == Call("handed", caller[q].localNow, 0, caller[p].revision, 0)
               IN /\ to \in CallRecord /\ to.at = "handed" /\ to.validFor = 0
                  /\ to.localNow = caller[q].localNow /\ to.revision = caller[p].revision
    BY OneCaller DEF Call, CallRecord, Places
  <2>2. Landed(p) \subseteq Callers /\ caller \in [Callers -> CallRecord]
    BY DEF Landed, Types
  <2> QED
    BY <2>1, <2>2 DEF Publish
<1>3. OneFlight'
  BY <1>1, <1>2, CacheAssumption DEF OneFlight, Landed
<1>4. new \in Candidate /\ new.revision <= time
      /\ new.validThrough <= new.revision + Delay + Quantum
  BY <1>1, Room DEF Candidate, ComputedInv, validThrough, CallRecord
<1>5. /\ pruned \in Seq(Candidate)
      /\ \A i \in DOMAIN pruned : \E j \in DOMAIN candidates : pruned[i] = candidates[j]
  BY <1>1, PrunedCandidates DEF Types, CallRecord
<1>6. candidates' = Append(pruned, new)
  BY DEF Publish
<1> HIDE DEF new, pruned
<1>7. /\ candidates' \in Seq(Candidate)
      /\ \A i \in DOMAIN candidates' :
           candidates'[i] = new \/ \E j \in DOMAIN candidates : candidates'[i] = candidates[j]
  <2>1. /\ candidates' \in Seq(Candidate) /\ Len(candidates') = Len(pruned) + 1
        /\ candidates'[Len(pruned) + 1] = new
        /\ \A i \in 1..Len(pruned) : candidates'[i] = pruned[i]
    BY <1>4, <1>5, <1>6
  <2>2. DOMAIN candidates' = 1..(Len(pruned) + 1) /\ Len(pruned) \in Nat
        /\ DOMAIN pruned = 1..Len(pruned)
    BY <1>5, <2>1
  <2> QED
    BY <1>5, <2>1, <2>2
<1>8. CandidatesInv'
  BY <1>4, <1>7 DEF CandidatesInv
<1>9. Types'
  BY <1>1, <1>2, <1>7, Room DEF Types
<1>10. ASSUME NEW q \in Callers PROVE CallInv(q)'
  <2>1. CASE q \in Landed(p)
    <3>1. caller[q] \in CallRecord /\ InTime(q)
      BY <1>1, <2>1 DEF Types, CallInv, Busy, Landed
    <3>2. caller[q].localNow + CallTime <= caller[p].revision + Window
      BY <1>1, <3>1, Room DEF ComputedInv, InTime, CallRecord
    <3> QED
      BY <1>1, <1>2, <2>1, <3>1, <3>2 DEF CallInv, Busy, InTime, HandedInv, ComputedInv
  <2>2. CASE q \notin Landed(p)
    BY <1>2, <2>2 DEF CallInv, Busy, InTime, AskedInv, ComputedInv, HandedInv
  <2> QED
    BY <2>1, <2>2
<1> QED
  BY <1>3, <1>8, <1>9, <1>10

\* The clock moves on while no request is at its deadline.
LEMMA TickStep ==
  ASSUME CacheInv, Tick, UNCHANGED cacheVars
  PROVE  CacheInv'
<1> USE DEF CacheInv, cacheVars, Tick
<1>1. Types' /\ OneFlight'
  BY ClockAssumption DEF Types, OneFlight
<1>2. CandidatesInv'
  <2>1. ASSUME NEW i \in DOMAIN candidates PROVE candidates[i].revision \in Int
    <3>1. candidates[i] \in Candidate
      BY DEF Types
    <3> QED
      BY <3>1 DEF Candidate
  <2>2. time \in Int
    BY DEF Types
  <2> QED
    BY <2>1, <2>2 DEF CandidatesInv
<1>3. ASSUME NEW q \in Callers PROVE CallInv(q)'
  <2>1. caller[q] \in CallRecord /\ time \in Int
    BY DEF Types
  <2> QED
    BY <2>1, Room DEF CallInv, Busy, InTime, AskedInv, ComputedInv, HandedInv, CallRecord
<1> QED
  BY <1>1, <1>2, <1>3

\* So what the cache holds is always a revision it may still serve.
LEMMA CacheInductive == Spec => []CacheInv
<1>1. Init => CacheInv
  <2> SUFFICES ASSUME Init PROVE CacheInv
    OBVIOUS
  <2>1. Idle \in CallRecord /\ Idle.validFor = 0 /\ Idle.at = "idle"
    BY DEF Idle, Call, CallRecord, Places
  <2>2. \A p \in Callers : caller[p] = Idle
    BY DEF Init, CacheInit
  <2>3. candidates = <<>> /\ flight = NoCaller /\ time = 1 /\ 1 \in 1..MaxTime /\ 0 \in 0..Quantum
    BY ClockAssumption, Room DEF Init, CacheInit
  <2>4. Types
    BY <2>1, <2>2, <2>3 DEF Init, CacheInit, Types
  <2>5. OneFlight /\ CandidatesInv /\ \A p \in Callers : CallInv(p)
    BY <2>1, <2>2, <2>3, CacheAssumption DEF OneFlight, CandidatesInv, CallInv, Busy
  <2> QED
    BY <2>4, <2>5 DEF CacheInv
<1>2. CacheInv /\ [Next]_cacheAllVars => CacheInv'
  <2> SUFFICES ASSUME CacheInv, [Next]_cacheAllVars PROVE CacheInv'
    OBVIOUS
  <2>1. ASSUME NEW p \in Callers, CacheStep(p), UNCHANGED time PROVE CacheInv'
    <3>1. CASE Publish(p)
      BY <2>1, <3>1, PublishStep
    <3>2. CASE ~Publish(p)
      <4>1. UNCHANGED candidates
        BY <2>1, <3>2 DEF CacheStep, Ask, Hit, Miss, Lead, Join, Compute, ComputeFails, Answered
      <4> QED
        BY <2>1, <3>2, <4>1, AskStep, HitStep, WaitStep, ComputeStep, FailureStep, AnsweredStep
           DEF CacheStep
    <3> QED
      BY <3>1, <3>2
  <2>2. CASE Tick /\ UNCHANGED cacheVars
    BY <2>2, TickStep
  <2>3. CASE UNCHANGED cacheAllVars
    BY <2>3 DEF cacheAllVars, cacheVars, CacheInv, Types, OneFlight, CandidatesInv, CallInv,
                Busy, InTime, AskedInv, ComputedInv, HandedInv
  <2> QED
    BY <2>1, <2>2, <2>3 DEF Next
<1> QED
  BY <1>1, <1>2, PTL DEF Spec

\* The cache, the flight and every caller have their types in every state.
THEOREM CacheTypes == Spec => []TypeOK
<1>1. CacheInv => TypeOK
  BY DEF CacheInv, Types, OneFlight, TypeOK, CallRecord
<1> QED
  BY <1>1, CacheInductive, PTL

\* Whatever OptimizedRevision hands out, cached, computed or shared, is accepted
\* by CheckRevision until the request is answered, if the window has the room.
THEOREM HandedOutIsAccepted == Spec => []HandedOutAccepted
<1>1. CacheInv => HandedOutAccepted
  <2> SUFFICES ASSUME CacheInv, NEW p \in Callers, caller[p].at = "handed"
               PROVE  CheckRevision(caller[p].revision) = "ok"
    BY DEF HandedOutAccepted
  <2>1. /\ HandedInv(p) /\ InTime(p) /\ time \in Int
        /\ caller[p].revision \in Int /\ caller[p].localNow \in Int
    BY DEF CacheInv, CallInv, Busy, Types, CallRecord
  <2>2. caller[p].revision >= time - Window /\ caller[p].revision <= time
    BY <2>1, Room DEF HandedInv, InTime
  <2> QED
    BY <2>1, <2>2, Room DEF CheckRevision
<1> QED
  BY <1>1, CacheInductive, PTL
=============================================================================
