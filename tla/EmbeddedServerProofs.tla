------------------------ MODULE EmbeddedServerProofs ------------------------
(* Start, Stop, reloads and timers of the server, for any files and callers. *)
EXTENDS EmbeddedServer, FiniteSetTheorems, SequenceTheorems, TLAPS

StartPhases == {"complete", "dial", "abort", "initial", "watch", "health"}
StopPhases == {"stopHealth", "stopWatcher", "closeWatcher", "waitLoop",
               "closeConn", "waitServer", "closeDatastore"}

\* What each variable holds, but for the timers and what was read.
FlagTypes ==
  /\ watched \in [Files -> {"none", "file", "directory"}]
  /\ events \subseteq Files /\ event \subseteq Files
  /\ loop \in {"off", "select", "handle", "exited"}
  /\ stopped \in BOOLEAN /\ fwDone \in BOOLEAN
  /\ pending \subseteq Files
  /\ esMu \in Users \cup {NoProc}
  /\ phase \in {"none"} \cup StartPhases \cup StopPhases
  /\ started \in BOOLEAN /\ hasWatcher \in BOOLEAN /\ health \in BOOLEAN
  /\ conn \in {"nil", "open", "closed"} /\ srv \in {"off", "running", "stopped"}
  /\ esDone \in BOOLEAN /\ dsOpen \in BOOLEAN
  /\ at \in [Procs -> {"idle", "starting", "stopping", "reload", "reading", "collect",
                       "callback", "head", "count", "panicked"}]

\* A goroutine in Start or Stop holds es.mu.
HolderInv ==
  /\ (esMu = NoProc) <=> (phase = "none")
  /\ \A p \in Procs : at[p] \in {"starting", "stopping"} => esMu = p
  /\ phase \in StartPhases => at[esMu] = "starting"
  /\ phase \in StopPhases => at[esMu] = "stopping"

\* A timer in a reload holds fw.mu.
TimerInv ==
  /\ timers \in [Timers -> {"unused", "set", "expired", "reloading", "over"}]
  /\ timer \in Timers \cup {NoTimer}
  /\ fwMu \in Timers \cup {NoTimer}
  /\ \A t \in Timers :
       /\ timers[t] = "reloading" <=> fwMu = t
       /\ at[t] # "idle" <=> fwMu = t
       /\ at[t] \in {"idle", "reload", "reading", "collect", "callback"}
  /\ stopped => fwMu = NoTimer
  /\ loop = "off" => \A t \in Timers : timers[t] = "unused"

\* What is there at which point of the server's life.
LifeInv ==
  /\ phase \in StartPhases => ~started
  /\ phase \in StartPhases \ {"health"} => ~hasWatcher
  /\ srv = "off" => phase \in {"none", "complete"} /\ ~started /\ ~hasWatcher
  /\ phase \in {"initial", "watch", "health"} => conn = "open"
  /\ phase \in StopPhases => started
  /\ loop # "off" <=> hasWatcher
  /\ hasWatcher /\ ~stopped =>
       conn = "open" /\ dsOpen /\ phase \in {"none", "health", "stopHealth", "stopWatcher"}
  /\ phase \in {"closeConn", "waitServer", "closeDatastore"} => LoopGone
  /\ phase \in {"waitServer", "closeDatastore"} => conn = "closed"
  /\ phase = "closeDatastore" => srv = "stopped"
  /\ ~dsOpen => srv = "stopped" /\ conn = "closed" /\ LoopGone /\ phase = "none" /\ ~started

\* Every timer that was set is for an event of its own, and every event for an edit.
CountInv ==
  /\ edits \in 0..MaxEdits
  /\ loop = "handle" <=> event # {}
  /\ \E n \in 0..MaxEdits :
       /\ \A t \in Timers : timers[t] # "unused" <=> t <= n
       /\ n + Cardinality(events) + (IF loop = "handle" THEN 1 ELSE 0) <= edits

\* What is read of the files, and served.
ReadInv ==
  /\ disk \in [Files -> Nat]
  /\ served \in [Files -> Nat] /\ unwritten \in [Files -> Nat]
  /\ read \in [Procs -> Seq(Nat)]
  /\ \A p \in Procs : Len(read[p]) <= Len(FileList)

ServerInv == FlagTypes /\ HolderInv /\ TimerInv /\ LifeInv /\ CountInv /\ ReadInv

\* The goroutine that holds es.mu is a user's, and no timer's.
LEMMA Apart ==
  /\ \A u \in Users : u \in Procs /\ u \notin Timers /\ u # NoProc
  /\ \A h \in Handlers : h \in Procs /\ h \notin Timers /\ h # NoProc
  /\ \A t \in Timers : t \in Procs /\ t # NoTimer /\ t # NoProc /\ t \notin Users
  /\ NoProc \notin Procs
BY ServerAssumption, FilesAssumption DEF Procs, Timers, NoTimer

----------------------------------------------------------------------------
\* A step of Start keeps the invariant.
LEMMA StartKeepsTypes ==
  ASSUME ServerInv, NEW p \in Procs, StartStep(p)
  PROVE  FlagTypes' /\ HolderInv'
<1> USE Apart DEF ServerInv, FlagTypes, HolderInv, Holds, StartPhases, StopPhases, StartVars,
                  boundVars, fileVars, fwVars, loopVars, diskVars
<1>1. CASE Complete(p)
  BY <1>1 DEF Complete, Unlock, Moves
<1>2. CASE Dial(p)
  <2>1. CASE conn' = "open" /\ phase' = "initial" /\ UNCHANGED esDone
    BY <1>2, <2>1 DEF Dial
  <2>2. CASE esDone' = TRUE /\ phase' = "abort" /\ UNCHANGED conn
    BY <1>2, <2>2 DEF Dial
  <2> QED
    BY <1>2, <2>1, <2>2 DEF Dial
<1>3. CASE AbortStart(p)
  BY <1>3 DEF AbortStart, Unlock, Moves
<1>4. CASE InitialRead(p)
  BY <1>4 DEF InitialRead
<1>5. CASE InitialWrite(p)
  BY <1>5 DEF InitialWrite
<1>6. CASE NoWatcher(p)
  BY <1>6 DEF NoWatcher, CloseWatcher
<1>7. CASE StartWatching(p)
  <2>1. ASSUME NEW f \in Files, AddWatch(f), UNCHANGED <<phase, hasWatcher>>
        PROVE  FlagTypes' /\ HolderInv'
    BY <1>7, <2>1 DEF StartWatching, AddWatch
  <2>2. CASE StartLoop /\ phase' = "health" /\ hasWatcher' = TRUE
    BY <1>7, <2>2 DEF StartWatching, StartLoop
  <2> QED
    BY <1>7, <2>1, <2>2 DEF StartWatching
<1>8. CASE FinishStart(p)
  BY <1>8 DEF FinishStart, Unlock, Moves
<1> QED
  BY <1>1, <1>2, <1>3, <1>4, <1>5, <1>6, <1>7, <1>8 DEF StartStep

\* Start keeps what holds of the debounce timer and of the server's life.
LEMMA StartKeepsTimers ==
  ASSUME ServerInv, NEW p \in Procs, StartStep(p)
  PROVE  TimerInv' /\ LifeInv'
<1> USE Apart DEF ServerInv, FlagTypes, HolderInv, TimerInv, LifeInv, Holds, StartPhases,
                  StopPhases, StartVars, fileVars, fwVars, loopVars, diskVars, LoopGone
<1>1. CASE Complete(p)
  BY <1>1 DEF Complete, Unlock, Moves
<1>2. CASE Dial(p)
  BY <1>2 DEF Dial
<1>3. CASE AbortStart(p)
  BY <1>3 DEF AbortStart, Unlock, Moves
<1>4. CASE InitialRead(p)
  BY <1>4 DEF InitialRead
<1>5. CASE InitialWrite(p)
  BY <1>5 DEF InitialWrite
<1>6. CASE NoWatcher(p)
  BY <1>6 DEF NoWatcher, CloseWatcher
<1>7. CASE StartWatching(p)
  BY <1>7 DEF StartWatching, AddWatch, StartLoop
<1>8. CASE FinishStart(p)
  BY <1>8 DEF FinishStart, Unlock, Moves
<1> QED
  BY <1>1, <1>2, <1>3, <1>4, <1>5, <1>6, <1>7, <1>8 DEF StartStep

\* A step of Stop keeps the invariant.
LEMMA StopKeepsTypes ==
  ASSUME ServerInv, NEW p \in Procs, StopStep(p)
  PROVE  FlagTypes' /\ HolderInv'
<1> USE Apart DEF ServerInv, FlagTypes, HolderInv, Holds, StartPhases, StopPhases, StartVars,
                  boundVars, fileVars, fwVars, loopVars, diskVars, lifeVars, ReloadVars,
                  HealthVars, esVars
<1>1. CASE StopHealth(p)
  BY <1>1, ZenonT(60) DEF StopHealth
<1>2. CASE Holds(p, "stopWatcher") /\ StopWatcher(p)
  BY <1>2 DEF StopWatcher, MarkStopped, CallbackAway, TimersWithout
<1>3. CASE Holds(p, "closeWatcher") /\ StopWatcher(p)
  BY <1>3 DEF StopWatcher, CloseWatcher
<1>4. CASE Holds(p, "waitLoop") /\ StopWatcher(p)
  BY <1>4 DEF StopWatcher
<1>5. CASE CloseConn(p)
  BY <1>5 DEF CloseConn, CloseAndCancel
<1>6. CASE WaitServer(p)
  BY <1>6 DEF WaitServer, ServerGone
<1>7. CASE CloseDatastore(p)
  BY <1>7, ZenonT(60) DEF CloseDatastore, Unlock, Moves
<1> QED
  BY <1>1, <1>2, <1>3, <1>4, <1>5, <1>6, <1>7 DEF StopStep, StopWatcher

\* The timers, and what is there.
LEMMA StopKeepsTimers ==
  ASSUME ServerInv, NEW p \in Procs, StopStep(p)
  PROVE  TimerInv' /\ LifeInv'
<1> USE Apart DEF ServerInv, FlagTypes, HolderInv, TimerInv, LifeInv, Holds, StartPhases,
                  StopPhases, StartVars, boundVars, fileVars, fwVars, loopVars, diskVars,
                  lifeVars, ReloadVars, HealthVars, esVars, LoopGone
<1>1. CASE StopHealth(p)
  BY <1>1 DEF StopHealth
<1>2. CASE Holds(p, "stopWatcher") /\ StopWatcher(p)
  BY <1>2 DEF StopWatcher, MarkStopped, CallbackAway, TimersWithout
<1>3. CASE Holds(p, "closeWatcher") /\ StopWatcher(p)
  BY <1>3 DEF StopWatcher, CloseWatcher
<1>4. CASE Holds(p, "waitLoop") /\ StopWatcher(p)
  BY <1>4 DEF StopWatcher
<1>5. CASE CloseConn(p)
  BY <1>5 DEF CloseConn, CloseAndCancel
<1>6. CASE WaitServer(p)
  BY <1>6 DEF WaitServer, ServerGone
<1>7. CASE CloseDatastore(p)
  BY <1>7 DEF CloseDatastore, Unlock, Moves
<1> QED
  BY <1>1, <1>2, <1>3, <1>4, <1>5, <1>6, <1>7 DEF StopStep, StopWatcher

\* A step of a reload keeps the invariant.
LEMMA ReloadKeepsTypes ==
  ASSUME ServerInv, NEW p \in Procs, ReloadStep(p)
  PROVE  FlagTypes' /\ HolderInv'
<1> USE Apart DEF ServerInv, FlagTypes, HolderInv, Holds, StartPhases, StopPhases, StartVars,
                  boundVars, fileVars, fwVars, loopVars, diskVars, lifeVars, ReloadVars,
                  HealthVars, esVars
<1>1. CASE ReloadRefused(p)
  BY <1>1 DEF ReloadRefused, Readable, Returns, Moves, CallbackReturns
<1>2. CASE ReloadAdmitted(p)
  BY <1>2 DEF ReloadAdmitted, Readable, Moves
<1>3. CASE ReloadReads(p)
  BY <1>3 DEF ReloadReads, Moves
<1>4. CASE ReloadWrites(p)
  BY <1>4 DEF ReloadWrites, Moves
<1>5. CASE CollectCallbacks(p)
  BY <1>5 DEF CollectCallbacks, Moves
<1>6. CASE CallCallbacks(p)
  BY <1>6 DEF CallCallbacks, Returns, Moves, CallbackReturns
<1> QED
  BY <1>1, <1>2, <1>3, <1>4, <1>5, <1>6 DEF ReloadStep

\* The timers, and what is there.
LEMMA ReloadKeepsTimers ==
  ASSUME ServerInv, NEW p \in Procs, ReloadStep(p)
  PROVE  TimerInv' /\ LifeInv'
<1> USE Apart DEF ServerInv, FlagTypes, HolderInv, TimerInv, LifeInv, Holds, StartPhases,
                  StopPhases, StartVars, boundVars, fileVars, fwVars, loopVars, diskVars,
                  lifeVars, ReloadVars, HealthVars, esVars, LoopGone
<1>1. CASE ReloadRefused(p)
  BY <1>1 DEF ReloadRefused, Readable, Returns, Moves, CallbackReturns
<1>2. CASE ReloadAdmitted(p)
  BY <1>2 DEF ReloadAdmitted, Readable, Moves
<1>3. CASE ReloadReads(p)
  BY <1>3 DEF ReloadReads, Moves
<1>4. CASE ReloadWrites(p)
  BY <1>4 DEF ReloadWrites, Moves
<1>5. CASE CollectCallbacks(p)
  BY <1>5 DEF CollectCallbacks, Moves
<1>6. CASE CallCallbacks(p)
  BY <1>6 DEF CallCallbacks, Returns, Moves, CallbackReturns
<1> QED
  BY <1>1, <1>2, <1>3, <1>4, <1>5, <1>6 DEF ReloadStep

\* A call, and a step of a health check, keep the invariant.
LEMMA CallKeepsTypes ==
  ASSUME ServerInv, NEW p \in Procs, Call(p) \/ HealthStep(p)
  PROVE  FlagTypes' /\ HolderInv'
<1> USE Apart DEF ServerInv, FlagTypes, HolderInv, Holds, StartPhases, StopPhases, StartVars,
                  boundVars, fileVars, fwVars, loopVars, diskVars, lifeVars, ReloadVars,
                  HealthVars, esVars
<1>1. CASE Start(p)
  BY <1>1 DEF Start, Readable, Moves
<1>2. CASE Stop(p)
  BY <1>2 DEF Stop, Readable, Moves
<1>3. CASE CallReload(p)
  BY <1>3 DEF CallReload, Moves
<1>4. CASE CallHealthCheck(p)
  BY <1>4 DEF CallHealthCheck, Readable, Moves
<1>5. CASE HeadRevision(p)
  BY <1>5 DEF HeadRevision, Moves
<1>6. CASE CountRelationships(p)
  BY <1>6 DEF CountRelationships, Moves
<1> QED
  BY <1>1, <1>2, <1>3, <1>4, <1>5, <1>6 DEF Call, HealthStep

\* The timers, and what is there.
LEMMA CallKeepsTimers ==
  ASSUME ServerInv, NEW p \in Procs, Call(p) \/ HealthStep(p)
  PROVE  TimerInv' /\ LifeInv'
<1> USE Apart DEF ServerInv, FlagTypes, HolderInv, TimerInv, LifeInv, Holds, StartPhases,
                  StopPhases, StartVars, boundVars, fileVars, fwVars, loopVars, diskVars,
                  lifeVars, ReloadVars, HealthVars, esVars, LoopGone
<1>1. CASE Start(p)
  BY <1>1 DEF Start, Readable, Moves
<1>2. CASE Stop(p)
  BY <1>2 DEF Stop, Readable, Moves
<1>3. CASE CallReload(p)
  BY <1>3 DEF CallReload, Moves
<1>4. CASE CallHealthCheck(p)
  BY <1>4 DEF CallHealthCheck, Readable, Moves
<1>5. CASE HeadRevision(p)
  BY <1>5 DEF HeadRevision, Moves
<1>6. CASE CountRelationships(p)
  BY <1>6 DEF CountRelationships, Moves
<1> QED
  BY <1>1, <1>2, <1>3, <1>4, <1>5, <1>6 DEF Call, HealthStep

\* What is done beside the calls: edits, the loop, the timers, the server's end.
ApartFromCalls ==
  EditFile \/ Background \/ ServerExits \/ \E t \in Timers : TimerReload(t)

\* A timer of its own is there for the change that is handled.
NextTimerThere ==
  loop = "handle" => NextTimer \in Timers /\ timers[NextTimer] = "unused"

\* What is done beside the calls keeps the invariant.
LEMMA RestKeepsTypes ==
  ASSUME ServerInv, NextTimerThere, ApartFromCalls
  PROVE  FlagTypes' /\ HolderInv'
<1> USE Apart DEF ServerInv, FlagTypes, HolderInv, Holds, StartPhases, StopPhases, StartVars,
                  boundVars, fileVars, fwVars, loopVars, diskVars, lifeVars, ReloadVars,
                  HealthVars, esVars
<1>1. ASSUME NEW f \in Files, NEW how \in Edits, Edit(f, how), UNCHANGED esVars
      PROVE  FlagTypes' /\ HolderInv'
  BY <1>1 DEF Edit
<1>2. ASSUME NEW f \in Files, TakeEvent(f), UNCHANGED esVars
      PROVE  FlagTypes' /\ HolderInv'
  BY <1>2 DEF TakeEvent
<1>3. CASE ExitLoop /\ UNCHANGED esVars
  BY <1>3 DEF ExitLoop
<1>4. CASE HandleFileChange /\ UNCHANGED esVars
  BY <1>4 DEF HandleFileChange, Rearm, TimersWithout
<1>5. ASSUME NEW t \in Timers, Expire(t), UNCHANGED esVars
      PROVE  FlagTypes' /\ HolderInv'
  BY <1>5 DEF Expire
<1>6. ASSUME NEW t \in Timers, CallbackFindsNothing(t), UNCHANGED esVars
      PROVE  FlagTypes' /\ HolderInv'
  BY <1>6 DEF CallbackFindsNothing
<1>7. CASE ServerExits
  BY <1>7 DEF ServerExits
<1>8. ASSUME NEW t \in Timers, TimerReload(t)
      PROVE  FlagTypes' /\ HolderInv'
  BY <1>8 DEF TimerReload, CallbackLocks, Moves
<1> QED
  BY <1>1, <1>2, <1>3, <1>4, <1>5, <1>6, <1>7, <1>8
  DEF ApartFromCalls, EditFile, Background, WatcherStep

\* The timers, and what is there.
LEMMA RestKeepsTimers ==
  ASSUME ServerInv, NextTimerThere, ApartFromCalls
  PROVE  TimerInv' /\ LifeInv'
<1> USE Apart DEF NextTimerThere, ServerInv, FlagTypes, HolderInv, TimerInv, LifeInv, Holds, StartPhases,
                  StopPhases, StartVars, boundVars, fileVars, fwVars, loopVars, diskVars,
                  lifeVars, ReloadVars, HealthVars, esVars, LoopGone
<1>1. ASSUME NEW f \in Files, NEW how \in Edits, Edit(f, how), UNCHANGED esVars
      PROVE  TimerInv' /\ LifeInv'
  BY <1>1 DEF Edit
<1>2. ASSUME NEW f \in Files, TakeEvent(f), UNCHANGED esVars
      PROVE  TimerInv' /\ LifeInv'
  BY <1>2 DEF TakeEvent
<1>3. CASE ExitLoop /\ UNCHANGED esVars
  BY <1>3 DEF ExitLoop
<1>4. CASE HandleFileChange /\ UNCHANGED esVars
  <2>1. CASE stopped
    BY <1>4, <2>1 DEF HandleFileChange
  <2>2. CASE ~stopped
    <3>1. timers' \in [Timers -> {"unused", "set", "expired", "reloading", "over"}]
      BY <1>4, <2>2, ZenonT(60) DEF HandleFileChange, Rearm, TimersWithout
    <3>2. timer' \in Timers
      BY <1>4, <2>2 DEF HandleFileChange, Rearm
    <3>3. \A t \in Timers : timers'[t] = "reloading" <=> timers[t] = "reloading"
      BY <1>4, <2>2, ZenonT(60) DEF HandleFileChange, Rearm, TimersWithout
    <3>4. TimerInv'
      BY <1>4, <2>2, <3>1, <3>2, <3>3 DEF HandleFileChange
    <3>5. LifeInv'
      BY <1>4, <2>2 DEF HandleFileChange
    <3> QED
      BY <3>4, <3>5
  <2> QED
    BY <2>1, <2>2
<1>5. ASSUME NEW t \in Timers, Expire(t), UNCHANGED esVars
      PROVE  TimerInv' /\ LifeInv'
  BY <1>5 DEF Expire
<1>6. ASSUME NEW t \in Timers, CallbackFindsNothing(t), UNCHANGED esVars
      PROVE  TimerInv' /\ LifeInv'
  BY <1>6 DEF CallbackFindsNothing
<1>7. CASE ServerExits
  BY <1>7 DEF ServerExits
<1>8. ASSUME NEW t \in Timers, TimerReload(t)
      PROVE  TimerInv' /\ LifeInv'
  BY <1>8 DEF TimerReload, CallbackLocks, Moves
<1> QED
  BY <1>1, <1>2, <1>3, <1>4, <1>5, <1>6, <1>7, <1>8
  DEF ApartFromCalls, EditFile, Background, WatcherStep

----------------------------------------------------------------------------
\* FileList names every file, so there are finitely many.
LEMMA FilesFinite == IsFiniteSet(Files)
<1> DEFINE g == [i \in 1..Len(FileList) |-> FileList[i]]
<1>1. /\ Len(FileList) \in Nat /\ DOMAIN FileList = 1..Len(FileList)
      /\ Files = {FileList[i] : i \in 1..Len(FileList)}
  BY ServerAssumption
<1>2. g \in Surjection(1..Len(FileList), Files)
  BY <1>1, Zenon DEF Surjection
<1>3. ExistsSurjection(1..Len(FileList), Files)
  BY <1>2, Zenon DEF ExistsSurjection
<1> QED
  BY <1>1, <1>3, FS_NatSurjection

\* While a change is handled there is a timer nobody has used.
LEMMA TimersSuffice ==
  ASSUME CountInv, FlagTypes, loop = "handle",
         NEW n \in 0..MaxEdits,
         \A t \in Timers : timers[t] # "unused" <=> t <= n,
         n + Cardinality(events) + 1 <= edits
  PROVE  n + 1 \in Timers /\ NextTimer = n + 1 /\ timers[NextTimer] = "unused"
<1>1. Cardinality(events) \in Nat
  BY FilesFinite, FS_Subset, FS_CardinalityType DEF FlagTypes
<1>2. n + 1 \in Timers
  BY <1>1, FilesAssumption DEF CountInv, Timers
<1>3. timers[n + 1] = "unused" /\ \A s \in 1..((n + 1) - 1) : timers[s] # "unused"
  BY <1>2, FilesAssumption DEF Timers
<1>4. ASSUME NEW t \in Timers, timers[t] = "unused",
             \A s \in 1..(t - 1) : timers[s] # "unused"
      PROVE  t = n + 1
  <2>1. ~(t <= n)
    BY <1>4
  <2>2. ~(n + 1 \in 1..(t - 1))
    BY <1>3, <1>4
  <2> QED
    BY <2>1, <2>2, <1>2, FilesAssumption DEF Timers
<1>5. NextTimer = n + 1
  BY <1>2, <1>3, <1>4, Zenon DEF NextTimer
<1> QED
  BY <1>2, <1>3, <1>5

\* The timer of a change is there.
LEMMA TimerThere ==
  ASSUME ServerInv
  PROVE  NextTimerThere
BY TimersSuffice DEF ServerInv, CountInv, NextTimerThere

\* A step that takes no timer, starts to handle no event and reports none.
LEMMA CountKept ==
  ASSUME FlagTypes, CountInv, edits' = edits, events' \subseteq events,
         loop' = "handle" <=> loop = "handle", event' = event,
         \A t \in Timers : timers'[t] = "unused" <=> timers[t] = "unused"
  PROVE  CountInv'
<1>1. PICK n \in 0..MaxEdits :
        /\ \A t \in Timers : timers[t] # "unused" <=> t <= n
        /\ n + Cardinality(events) + (IF loop = "handle" THEN 1 ELSE 0) <= edits
  BY DEF CountInv
<1>2. IsFiniteSet(events)
  BY FilesFinite, FS_Subset DEF FlagTypes
<1>3. Cardinality(events) \in Nat /\ Cardinality(events') \in Nat
      /\ Cardinality(events') <= Cardinality(events)
  BY <1>2, FS_Subset, FS_CardinalityType
<1>4. /\ \A t \in Timers : timers'[t] # "unused" <=> t <= n
      /\ n + Cardinality(events') + (IF loop' = "handle" THEN 1 ELSE 0) <= edits'
  BY <1>1, <1>3, FilesAssumption DEF CountInv
<1> QED
  BY <1>4 DEF CountInv

\* A change adds an event at most.
LEMMA EditKeepsCount ==
  ASSUME FlagTypes, CountInv, NEW f \in Files, NEW how \in Edits, Edit(f, how)
  PROVE  CountInv'
<1>1. PICK n \in 0..MaxEdits :
        /\ \A t \in Timers : timers[t] # "unused" <=> t <= n
        /\ n + Cardinality(events) + (IF loop = "handle" THEN 1 ELSE 0) <= edits
  BY DEF CountInv
<1>2. IsFiniteSet(events)
  BY FilesFinite, FS_Subset DEF FlagTypes
<1>3. events' = events \/ events' = events \cup {f}
  BY DEF Edit
<1>4. Cardinality(events) \in Nat /\ Cardinality(events') \in Nat
      /\ Cardinality(events') <= Cardinality(events) + 1
  <2>1. Cardinality(events) \in Nat
    BY <1>2, FS_CardinalityType
  <2>2. Cardinality(events \cup {f}) = IF f \in events THEN Cardinality(events)
                                       ELSE Cardinality(events) + 1
    BY <1>2, FS_AddElement
  <2>3. \/ Cardinality(events') = Cardinality(events)
        \/ Cardinality(events') = Cardinality(events) + 1
    BY <1>3, <2>2, Zenon
  <2> QED
    BY <2>1, <2>3
<1>5. n + Cardinality(events') + (IF loop' = "handle" THEN 1 ELSE 0) <= edits'
  BY <1>1, <1>4, FilesAssumption DEF CountInv, Edit
<1>6. edits' \in 0..MaxEdits
  BY FilesAssumption DEF CountInv, Edit
<1>7. \A t \in Timers : timers'[t] # "unused" <=> t <= n
  BY <1>1 DEF Edit
<1> QED
  BY <1>5, <1>6, <1>7 DEF CountInv, Edit

\* The event that is handled is one less to handle.
LEMMA TakeKeepsCount ==
  ASSUME FlagTypes, CountInv, NEW f \in Files, TakeEvent(f)
  PROVE  CountInv'
<1>1. PICK n \in 0..MaxEdits :
        /\ \A t \in Timers : timers[t] # "unused" <=> t <= n
        /\ n + Cardinality(events) + (IF loop = "handle" THEN 1 ELSE 0) <= edits
  BY DEF CountInv
<1>2. IsFiniteSet(events)
  BY FilesFinite, FS_Subset DEF FlagTypes
<1>3. Cardinality(events) \in Nat /\ Cardinality(events') = Cardinality(events) - 1
  BY <1>2, FS_RemoveElement, FS_CardinalityType DEF TakeEvent
<1>4. n + Cardinality(events') + (IF loop' = "handle" THEN 1 ELSE 0) <= edits'
  BY <1>1, <1>3, FilesAssumption DEF CountInv, TakeEvent, diskVars
<1> QED
  BY <1>1, <1>4 DEF CountInv, TakeEvent, diskVars

\* The timer is the next one, unless the watcher is stopped.
LEMMA HandleKeepsCount ==
  ASSUME FlagTypes, TimerInv, CountInv, HandleFileChange
  PROVE  CountInv'
<1>1. PICK n \in 0..MaxEdits :
        /\ \A t \in Timers : timers[t] # "unused" <=> t <= n
        /\ n + Cardinality(events) + (IF loop = "handle" THEN 1 ELSE 0) <= edits
  BY DEF CountInv
<1>2. Cardinality(events) \in Nat
  BY FilesFinite, FS_Subset, FS_CardinalityType DEF FlagTypes
<1>3. /\ n + Cardinality(events) + 1 <= edits /\ loop = "handle" /\ edits \in 0..MaxEdits
      /\ edits' = edits /\ events' = events /\ loop' = "select" /\ event' = {}
  BY <1>1 DEF HandleFileChange, diskVars, CountInv
<1>4. CASE stopped
  BY <1>1, <1>2, <1>3, <1>4, FilesAssumption DEF CountInv, HandleFileChange
<1>5. CASE ~stopped
  <2>1. n + 1 \in Timers /\ NextTimer = n + 1
    BY <1>1, <1>3, TimersSuffice
  <2>2. timers' = [TimersWithout(timer) EXCEPT ![n + 1] = "set"]
    BY <1>5, <2>1 DEF HandleFileChange, Rearm
  <2>3. \A t \in Timers : timers'[t] # "unused" <=> (timers[t] # "unused" \/ t = n + 1)
    BY <2>1, <2>2 DEF TimersWithout
  <2>4. \A t \in Timers : timers'[t] # "unused" <=> t <= n + 1
    BY <1>1, <2>3, FilesAssumption DEF Timers
  <2>5. n + 1 \in 0..MaxEdits /\ n + 1 + Cardinality(events') <= edits'
    BY <1>2, <1>3, <2>1, FilesAssumption DEF Timers
  <2>6. n + 1 + Cardinality(events') + (IF loop' = "handle" THEN 1 ELSE 0) <= edits'
    BY <1>2, <1>3, <2>5
  <2>7. \E m \in 0..MaxEdits :
          /\ \A t \in Timers : timers'[t] # "unused" <=> t <= m
          /\ m + Cardinality(events') + (IF loop' = "handle" THEN 1 ELSE 0) <= edits'
    BY <2>4, <2>5, <2>6
  <2> QED
    BY <1>3, <2>7 DEF CountInv
<1> QED
  BY <1>4, <1>5

----------------------------------------------------------------------------
\* Every step keeps the count of the timers.
LEMMA StepKeepsCount ==
  ASSUME ServerInv, ServerNext
  PROVE  CountInv'
<1> USE Apart DEF ServerInv, StartVars, boundVars, fileVars, fwVars, loopVars, diskVars,
                  lifeVars, ReloadVars, HealthVars, esVars
<1>1. ASSUME NEW p \in Procs, StartStep(p)
      PROVE  CountInv'
  <2>1. CASE StartWatching(p)
    <3>1. phase = "watch" /\ loop = "off"
      BY <2>1 DEF StartWatching, Holds, LifeInv, StartPhases
    <3>2. /\ edits' = edits /\ events' = events /\ event' = event /\ timers' = timers
          /\ loop' = loop \/ loop' = "select"
      BY <2>1 DEF StartWatching, AddWatch, StartLoop
    <3> QED
      BY <3>1, <3>2, CountKept
  <2>2. CASE NoWatcher(p)
    BY <2>2, CountKept DEF NoWatcher, CloseWatcher
  <2>3. CASE ~StartWatching(p) /\ ~NoWatcher(p)
    <3>1. UNCHANGED fileVars
      BY <1>1, <2>3 DEF StartStep, Complete, Dial, AbortStart, InitialRead, InitialWrite, FinishStart
    <3> QED
      BY <3>1, CountKept
  <2> QED
    BY <2>1, <2>2, <2>3
<1>2. ASSUME NEW p \in Procs, StopStep(p)
      PROVE  CountInv'
  <2>1. /\ edits' = edits /\ events' \subseteq events /\ event' = event /\ loop' = loop
        /\ \/ timers' = timers
           \/ timers' = TimersWithout(timer)
    BY <1>2 DEF StopStep, StopHealth, StopWatcher, MarkStopped, CloseWatcher, CloseConn,
                WaitServer, CloseDatastore
  <2>2. \A t \in Timers : timers'[t] = "unused" <=> timers[t] = "unused"
    BY <2>1 DEF TimersWithout
  <2> QED
    BY <2>1, <2>2, CountKept
<1>3. ASSUME NEW p \in Procs, ReloadStep(p)
      PROVE  CountInv'
  <2>1. CASE p \in Timers /\ CallbackReturns(p)
    <3>1. /\ edits' = edits /\ events' = events /\ event' = event /\ loop' = loop
          /\ \A t \in Timers : timers'[t] = "unused" <=> timers[t] = "unused"
      BY <2>1 DEF CallbackReturns, TimerInv
    <3> QED
      BY <3>1, CountKept
  <2>2. CASE UNCHANGED fileVars
    BY <2>2, CountKept
  <2>3. CASE ReloadReads(p)
    BY <2>3, CountKept DEF ReloadReads
  <2>4. CASE ReloadAdmitted(p) \/ ReloadWrites(p) \/ CollectCallbacks(p)
    BY <2>4, CountKept DEF ReloadAdmitted, ReloadWrites, CollectCallbacks
  <2>5. CASE ReloadRefused(p) \/ CallCallbacks(p)
    BY <2>1, <2>2, <2>5 DEF ReloadRefused, CallCallbacks, Returns
  <2> QED
    BY <1>3, <2>3, <2>4, <2>5 DEF ReloadStep
<1>4. ASSUME NEW p \in Procs, Call(p) \/ HealthStep(p)
      PROVE  CountInv'
  <2>1. UNCHANGED fileVars
    BY <1>4 DEF Call, Start, Stop, CallReload, CallHealthCheck, HealthStep, HeadRevision,
                CountRelationships
  <2> QED
    BY <2>1, CountKept
<1>5. CASE EditFile
  BY <1>5, EditKeepsCount DEF EditFile
<1>6. CASE Background
  <2>1. ASSUME NEW f \in Files, TakeEvent(f)
        PROVE  CountInv'
    BY <2>1, TakeKeepsCount
  <2>2. CASE ExitLoop
    BY <2>2, CountKept DEF ExitLoop
  <2>3. CASE HandleFileChange
    BY <2>3, HandleKeepsCount
  <2>4. ASSUME NEW t \in Timers, Expire(t) \/ CallbackFindsNothing(t)
        PROVE  CountInv'
    <3>1. /\ edits' = edits /\ events' = events /\ event' = event /\ loop' = loop
          /\ \A s \in Timers : timers'[s] = "unused" <=> timers[s] = "unused"
      BY <2>4 DEF Expire, CallbackFindsNothing, TimerInv
    <3> QED
      BY <3>1, CountKept
  <2> QED
    BY <1>6, <2>1, <2>2, <2>3, <2>4 DEF Background, WatcherStep
<1>7. CASE ServerExits
  BY <1>7, CountKept DEF ServerExits
<1>8. ASSUME NEW t \in Timers, TimerReload(t)
      PROVE  CountInv'
  <2>1. /\ edits' = edits /\ events' = events /\ event' = event /\ loop' = loop
        /\ \A s \in Timers : timers'[s] = "unused" <=> timers[s] = "unused"
    BY <1>8 DEF TimerReload, CallbackLocks, TimerInv
  <2> QED
    BY <2>1, CountKept
<1> QED
  BY <1>1, <1>2, <1>3, <1>4, <1>5, <1>6, <1>7, <1>8 DEF ServerNext, Step

----------------------------------------------------------------------------
\* What one more read does: the version of the next file is appended.
LEMMA ReadFileKeeps ==
  ASSUME ReadInv, NEW p \in Procs, ~AllRead(p), ReadFile(p)
  PROVE  /\ read' \in [Procs -> Seq(Nat)]
         /\ \A q \in Procs : Len(read'[q]) <= Len(FileList)
<1>1. /\ Len(FileList) \in Nat /\ DOMAIN FileList = 1..Len(FileList)
      /\ \A i \in 1..Len(FileList) : FileList[i] \in Files
  BY ServerAssumption
<1>2. read[p] \in Seq(Nat) /\ Len(read[p]) \in Nat /\ Len(read[p]) < Len(FileList)
  BY <1>1 DEF ReadInv, AllRead
<1>3. NextFile(p) \in Files
  BY <1>1, <1>2 DEF NextFile
<1>4. disk[NextFile(p)] \in Nat
  BY <1>3 DEF ReadInv
<1>5. /\ Append(read[p], disk[NextFile(p)]) \in Seq(Nat)
      /\ Len(Append(read[p], disk[NextFile(p)])) = Len(read[p]) + 1
  BY <1>2, <1>4
<1>6. read' = [read EXCEPT ![p] = Append(read[p], disk[NextFile(p)])]
  BY DEF ReadFile
<1>7. \A q \in Procs : read'[q] = IF q = p THEN Append(read[p], disk[NextFile(p)]) ELSE read[q]
  BY <1>6 DEF ReadInv
<1>8. read' \in [Procs -> Seq(Nat)]
  BY <1>5, <1>6 DEF ReadInv
<1> QED
  BY <1>1, <1>2, <1>5, <1>7, <1>8 DEF ReadInv

\* What is forgotten once it is written.
LEMMA ForgetKeeps ==
  ASSUME ReadInv, NEW p \in Procs, read' = [read EXCEPT ![p] = <<>>]
  PROVE  /\ read' \in [Procs -> Seq(Nat)]
         /\ \A q \in Procs : Len(read'[q]) <= Len(FileList)
<1>1. Len(FileList) \in Nat /\ <<>> \in Seq(Nat) /\ Len(<<>>) = 0
  BY ServerAssumption
<1>2. read' \in [Procs -> Seq(Nat)]
  BY <1>1 DEF ReadInv
<1>3. \A q \in Procs : read'[q] = IF q = p THEN <<>> ELSE read[q]
  BY DEF ReadInv
<1> QED
  BY <1>1, <1>2, <1>3 DEF ReadInv

\* A schema that is written has a version of every file.
LEMMA WriteKeeps ==
  ASSUME ReadInv, NEW p \in Procs, AllRead(p), WriteSchema(p)
  PROVE  served' \in [Files -> Nat] /\ unwritten' \in [Files -> Nat]
<1>1. /\ Len(FileList) \in Nat /\ DOMAIN FileList = 1..Len(FileList)
      /\ Files = {FileList[i] : i \in 1..Len(FileList)}
  BY ServerAssumption
<1>2. read[p] \in Seq(Nat) /\ Len(read[p]) = Len(FileList)
  BY DEF ReadInv, AllRead
<1>3. ASSUME NEW f \in Files
      PROVE  read[p][CHOOSE i \in DOMAIN FileList : FileList[i] = f] \in Nat
  <2>1. \E i \in DOMAIN FileList : FileList[i] = f
    BY <1>1
  <2>2. (CHOOSE i \in DOMAIN FileList : FileList[i] = f) \in DOMAIN FileList
    BY <2>1, Zenon
  <2> QED
    BY <1>1, <1>2, <2>2
<1>4. SchemaOf(p) \in [Files -> Nat]
  BY <1>3 DEF SchemaOf
<1> QED
  BY <1>4 DEF WriteSchema, ReadInv

\* Every step keeps what is read and served.
LEMMA StepKeepsReads ==
  ASSUME ServerInv, ServerNext
  PROVE  ReadInv'
<1> USE DEF ServerInv, StartVars, boundVars, fileVars, fwVars, loopVars, diskVars,
            lifeVars, schemaVars, ReloadVars, HealthVars, esVars
<1>1. ASSUME UNCHANGED <<disk, schemaVars, read>>
      PROVE  ReadInv'
  BY <1>1 DEF ReadInv
<1>2. ASSUME NEW p \in Procs, ReadFile(p), ~AllRead(p), UNCHANGED <<disk, schemaVars>>
      PROVE  ReadInv'
  BY <1>2, ReadFileKeeps DEF ReadInv
<1>3. ASSUME NEW p \in Procs, read' = [read EXCEPT ![p] = <<>>], UNCHANGED disk,
             UNCHANGED schemaVars \/ (AllRead(p) /\ WriteSchema(p))
      PROVE  ReadInv'
  BY <1>3, ForgetKeeps, WriteKeeps DEF ReadInv
<1>4. ASSUME NEW p \in Procs, AllRead(p), WriteSchema(p), UNCHANGED <<disk, read>>
      PROVE  ReadInv'
  BY <1>4, WriteKeeps DEF ReadInv
<1>5. ASSUME NEW p \in Procs, StartStep(p)
      PROVE  ReadInv'
  <2>1. CASE InitialRead(p)
    BY <2>1, <1>2, <1>3 DEF InitialRead
  <2>2. CASE InitialWrite(p)
    BY <2>2, <1>3 DEF InitialWrite
  <2>3. CASE ~InitialRead(p) /\ ~InitialWrite(p)
    BY <1>5, <2>3, <1>1 DEF StartStep, Complete, Dial, AbortStart, NoWatcher, CloseWatcher,
                            StartWatching, AddWatch, StartLoop, FinishStart
  <2> QED
    BY <2>1, <2>2, <2>3
<1>6. ASSUME NEW p \in Procs, StopStep(p)
      PROVE  ReadInv'
  BY <1>6, <1>1 DEF StopStep, StopHealth, StopWatcher, MarkStopped, CloseWatcher, CloseConn,
                    WaitServer, CloseDatastore
<1>7. ASSUME NEW p \in Procs, ReloadStep(p)
      PROVE  ReadInv'
  <2>1. CASE ReloadReads(p)
    BY <2>1, <1>1, <1>2 DEF ReloadReads
  <2>2. CASE ReloadWrites(p)
    BY <2>2, <1>4 DEF ReloadWrites
  <2>3. CASE CollectCallbacks(p)
    BY <2>3, <1>3 DEF CollectCallbacks
  <2>4. CASE ReloadRefused(p) \/ ReloadAdmitted(p) \/ CallCallbacks(p)
    BY <2>4, <1>1 DEF ReloadRefused, ReloadAdmitted, CallCallbacks, Returns, CallbackReturns
  <2> QED
    BY <1>7, <2>1, <2>2, <2>3, <2>4 DEF ReloadStep
<1>8. ASSUME NEW p \in Procs, Call(p) \/ HealthStep(p)
      PROVE  ReadInv'
  BY <1>8, <1>1 DEF Call, Start, Stop, CallReload, CallHealthCheck, HealthStep, HeadRevision,
                    CountRelationships
<1>9. CASE EditFile
  <2>1. PICK f \in Files : disk' = [disk EXCEPT ![f] = edits + 2]
    BY <1>9 DEF EditFile, Edit
  <2>2. edits + 2 \in Nat
    BY FilesAssumption DEF CountInv
  <2>3. disk' \in [Files -> Nat]
    BY <2>1, <2>2 DEF ReadInv
  <2>4. UNCHANGED <<schemaVars, read>>
    BY <1>9 DEF EditFile
  <2> QED
    BY <2>3, <2>4 DEF ReadInv
<1>10. CASE Background \/ ServerExits
  BY <1>10, <1>1 DEF Background, WatcherStep, TakeEvent, ExitLoop, HandleFileChange, Expire,
                     CallbackFindsNothing, ServerExits
<1>11. ASSUME NEW t \in Timers, TimerReload(t)
       PROVE  ReadInv'
  BY <1>11, <1>1 DEF TimerReload, CallbackLocks
<1> QED
  BY <1>5, <1>6, <1>7, <1>8, <1>9, <1>10, <1>11 DEF ServerNext, Step

----------------------------------------------------------------------------
\* Nothing has been started and no timer is set.
LEMMA InitServerInv == ServerInit => ServerInv
<1> SUFFICES ASSUME ServerInit PROVE ServerInv
  OBVIOUS
<1> USE Apart DEF ServerInit, FileInit
<1>1. FlagTypes
  BY DEF FlagTypes
<1>2. HolderInv
  BY DEF HolderInv, StartPhases, StopPhases
<1>3. TimerInv
  BY DEF TimerInv
<1>4. LifeInv
  BY DEF LifeInv, StartPhases, StopPhases
<1>5. CountInv
  <2>1. \A t \in Timers : timers[t] # "unused" <=> t <= 0
    BY FilesAssumption DEF Timers
  <2>2. 0 + Cardinality(events) + (IF loop = "handle" THEN 1 ELSE 0) <= edits
    BY FS_EmptySet
  <2> QED
    BY <2>1, <2>2, FilesAssumption DEF CountInv
<1>6. ReadInv
  <2>1. Len(FileList) \in Nat /\ <<>> \in Seq(Nat) /\ Len(<<>>) = 0
    BY ServerAssumption
  <2>2. disk \in [Files -> Nat] /\ served \in [Files -> Nat]
        /\ unwritten \in [Files -> Nat]
    OBVIOUS
  <2>3. read \in [Procs -> Seq(Nat)] /\ \A p \in Procs : read[p] = <<>>
    BY <2>1
  <2> QED
    BY <2>1, <2>2, <2>3 DEF ReadInv
<1> QED
  BY <1>1, <1>2, <1>3, <1>4, <1>5, <1>6 DEF ServerInv

\* Every step keeps the invariant.
LEMMA NextServerInv == ServerInv /\ [ServerNext]_allVars => ServerInv'
<1>1. ASSUME ServerInv, ServerNext
      PROVE  ServerInv'
  <2>1. FlagTypes' /\ HolderInv' /\ TimerInv' /\ LifeInv'
    BY <1>1, TimerThere, StartKeepsTypes, StartKeepsTimers, StopKeepsTypes, StopKeepsTimers,
       ReloadKeepsTypes, ReloadKeepsTimers, CallKeepsTypes, CallKeepsTimers,
       RestKeepsTypes, RestKeepsTimers
    DEF ServerNext, Step, ApartFromCalls
  <2> QED
    BY <1>1, <2>1, StepKeepsCount, StepKeepsReads DEF ServerInv
<1>2. ASSUME ServerInv, UNCHANGED allVars
      PROVE  ServerInv'
  <2> USE <1>2 DEF allVars, esVars, schemaVars, StartVars, boundVars, fileVars, fwVars, loopVars, diskVars,
                   lifeVars, ServerInv
  <2>1. FlagTypes' /\ HolderInv'
    BY DEF FlagTypes, HolderInv
  <2>2. TimerInv'
    BY DEF TimerInv
  <2>3. LifeInv'
    BY DEF LifeInv, LoopGone
  <2>4. CountInv'
    BY CountKept
  <2>5. ReadInv'
    BY DEF ReadInv
  <2> QED
    BY <2>1, <2>2, <2>3, <2>4, <2>5
<1> QED
  BY <1>1, <1>2

\* The invariant holds.
THEOREM ServerInvariant == ServerSpec => []ServerInv
BY InitServerInv, NextServerInv, PTL DEF ServerSpec

\* Types, and a timer is in a reload exactly while its callback holds fw.mu.
THEOREM ServerTyped == ServerSpec => []ServerTypeOK
<1>1. ServerInv => ServerTypeOK
  BY DEF ServerInv, FlagTypes, HolderInv, TimerInv, CountInv, ReadInv, ServerTypeOK, FileTypeOK,
         StartPhases, StopPhases
<1> QED
  BY <1>1, ServerInvariant, PTL

\* Stop ends the hot reload: no callback begins or goes on with a reload after it
\* has marked the watcher stopped, one that reads has its connection and its
\* datastore, and a reload by hand, which Stop does not wait for, has no connection
\* to a server whose datastore is closed (internal/watch/watcher.go:94-108, 144-190,
\* server.go:217-235).
THEOREM StopIsQuiet == ServerSpec => []QuietAfterStop
<1>1. ServerInv => QuietAfterStop
  <2> SUFFICES ASSUME ServerInv PROVE QuietAfterStop
    OBVIOUS
  <2>1. ASSUME stopped, NEW t \in Timers
        PROVE  at[t] = "idle"
    BY <2>1, Apart DEF ServerInv, TimerInv
  <2>2. ASSUME NEW t \in Timers, at[t] = "reading"
        PROVE  conn = "open" /\ dsOpen
    <3>1. fwMu = t /\ timers[t] = "reloading" /\ ~stopped
      BY <2>2, Apart DEF ServerInv, TimerInv
    <3>2. loop # "off"
      BY <3>1 DEF ServerInv, TimerInv
    <3> QED
      BY <3>1, <3>2 DEF ServerInv, LifeInv
  <2>3. ~dsOpen => conn = "closed"
    BY DEF ServerInv, LifeInv
  <2> QED
    BY <2>1, <2>2, <2>3 DEF QuietAfterStop
<1> QED
  BY <1>1, ServerInvariant, PTL

\* Reloads of the watcher do not overlap, and the datastore is closed last
\* (server.go:205-235).
THEOREM ShutdownInOrder == ServerSpec => []OrderlyShutdown
<1>1. ServerInv => OrderlyShutdown
  BY DEF ServerInv, TimerInv, LifeInv, LoopGone, OrderlyShutdown
<1> QED
  BY <1>1, ServerInvariant, PTL
=============================================================================
