--------------------------- MODULE EmbeddedServer ---------------------------
(***************************************************************************)
(* The embedded server of server.go and health.go over its file watcher,   *)
(* with the reloads of internal/schema/reloader.go: Start, Stop,           *)
(* ReloadSchema (by hand or from a debounce timer) and HealthCheck.        *)
(*                                                                         *)
(* es.mu is a read-write lock whose read sections do not block; each of    *)
(* them is one step, and esMu is the goroutine that holds it for writing.  *)
(***************************************************************************)
EXTENDS FileWatcher, Sequences

CONSTANTS
  Users,           \* goroutines of the application
  Handlers,        \* goroutines of the health HTTP server, one per request
  FileList,        \* config.SchemaFiles
  InvalidVersions, \* versions of a file that make WriteSchema fail
  EditsDuringStart,\* may files change before Start has returned?
  NoProc,
  MaxReloads,      \* bound: calls of ReloadSchema by hand
  MaxChecks        \* bound: calls of HealthCheck

ASSUME ServerAssumption ==
  /\ FileList \in Seq(Files) /\ Files = {FileList[i] : i \in DOMAIN FileList}
  /\ FileList # <<>>
  /\ InvalidVersions \subseteq Nat
  /\ EditsDuringStart \in BOOLEAN
  /\ NoProc \notin Users \cup Handlers \cup Timers
  /\ Users \cap Handlers = {} /\ (Users \cup Handlers) \cap Timers = {}
  /\ MaxReloads \in Nat /\ MaxChecks \in Nat

Procs == Users \cup Handlers \cup Timers

VARIABLES
  esMu,       \* who holds es.mu for writing
  started,    \* es.started
  phase,      \* how far the Start or Stop that holds es.mu has come
  conn,       \* es.conn
  hasWatcher, \* es.watcher # nil
  health,     \* es.healthSrv # nil, and it serves
  esDone,     \* es.ctx is canceled
  srv,        \* the goroutine that runs the SpiceDB server
  dsOpen,     \* es.datastore is open
  served,     \* the versions of the files in the schema last written
  unwritten,  \* those in the last schema written, if that returned an error, 0 if not
  at,         \* where each goroutine's call is
  read,       \* what a reload has read so far
  reloads,    \* reloads by hand so far
  checks      \* health checks so far

lifeVars == <<esMu, started, phase, conn, hasWatcher, health, esDone, srv, dsOpen>>
boundVars == <<reloads, checks>>
fileVars == <<diskVars, fwVars>>
schemaVars == <<served, unwritten>>
esVars == <<lifeVars, schemaVars, at, read, boundVars>>
allVars == <<fileVars, esVars>>

ServerTypeOK ==
  /\ FileTypeOK
  /\ esMu \in Users \cup {NoProc}
  /\ (esMu = NoProc) = (phase = "none")
  /\ started \in BOOLEAN /\ hasWatcher \in BOOLEAN /\ health \in BOOLEAN
  /\ phase \in {"none", "complete", "dial", "abort", "initial", "watch", "health",
                "stopHealth", "stopWatcher", "closeWatcher", "waitLoop",
                "closeConn", "waitServer", "closeDatastore"}
  /\ conn \in {"nil", "open", "closed"} /\ srv \in {"off", "running", "stopped"}
  /\ esDone \in BOOLEAN /\ dsOpen \in BOOLEAN
  /\ served \in [Files -> Nat] /\ unwritten \in [Files -> Nat]
  /\ at \in [Procs -> {"idle", "starting", "stopping", "reload", "reading", "collect",
                       "callback", "head", "count", "panicked"}]
  /\ \A p \in Procs : Len(read[p]) <= Len(FileList)
  /\ \A t \in Timers : timers[t] = "reloading" <=> at[t] # "idle"

ServerInit ==
  /\ FileInit
  /\ esMu = NoProc /\ started = FALSE /\ phase = "none"
  /\ conn = "nil" /\ hasWatcher = FALSE /\ health = FALSE
  /\ esDone = FALSE /\ srv = "off" /\ dsOpen = TRUE
  /\ served = [f \in Files |-> 0] /\ unwritten = served
  /\ at = [p \in Procs |-> "idle"]
  /\ read = [p \in Procs |-> <<>>]
  /\ reloads = 0 /\ checks = 0

----------------------------------------------------------------------------
Readable == esMu = NoProc           \* es.mu.RLock() can be had
Moves(p, from, to) == at[p] = from /\ at' = [at EXCEPT ![p] = to]
Holds(p, ph) == esMu = p /\ phase = ph

(***************************************************************************)
(* SchemaReloader.Reload                                                   *)
(***************************************************************************)
AllRead(p) == Len(read[p]) = Len(FileList)
NextFile(p) == FileList[Len(read[p]) + 1]

ReadFile(p) == read' = [read EXCEPT ![p] = Append(@, disk[NextFile(p)])]

\* The schema can reach the server and be taken by it.
Accepted(p) ==
  /\ conn = "open" /\ srv = "running"
  /\ \A i \in DOMAIN read[p] : read[p][i] \notin InvalidVersions

\* The combined schema: what was read of each file.
SchemaOf(p) ==
  [f \in Files |-> read[p][CHOOSE i \in DOMAIN FileList : FileList[i] = f]]

\* The call may return an error whatever the schema is: its context may be canceled,
\* as that of Start is for every reload of the watcher, or the server may fail,
\* before it has taken the schema or after. Nobody tries again.
WriteSchema(p) ==
  \/ Accepted(p) /\ served' = SchemaOf(p) /\ unwritten' = [f \in Files |-> 0]
  \/ /\ unwritten' = SchemaOf(p)
     /\ served' = served \/ (Accepted(p) /\ served' = SchemaOf(p))

(***************************************************************************)
(* Start: one goroutine, es.mu held throughout                             *)
(***************************************************************************)
StartVars == <<schemaVars, boundVars, fileVars>>

\* A server object is started once.
Start(p) ==
  /\ p \in Users
  /\ Readable /\ ~started /\ srv = "off" /\ ~esDone
  /\ Moves(p, "idle", "starting")
  /\ esMu' = p /\ phase' = "complete"
  /\ UNCHANGED <<started, conn, hasWatcher, health, esDone, srv, dsOpen, read, StartVars>>

Unlock(p, from) == Moves(p, from, "idle") /\ esMu' = NoProc /\ phase' = "none"

\* serverConfig.Complete; the server runs in a goroutine of its own.
Complete(p) ==
  /\ Holds(p, "complete")
  /\ \/ Unlock(p, "starting") /\ UNCHANGED srv
     \/ srv' = "running" /\ phase' = "dial" /\ UNCHANGED <<at, esMu>>
  /\ UNCHANGED <<started, conn, hasWatcher, health, esDone, dsOpen, read, StartVars>>

\* dialWithRetry.
Dial(p) ==
  /\ Holds(p, "dial")
  /\ \/ conn' = "open" /\ phase' = "initial" /\ UNCHANGED esDone
     \/ esDone' = TRUE /\ phase' = "abort" /\ UNCHANGED conn
  /\ UNCHANGED <<esMu, started, hasWatcher, health, srv, dsOpen, at, read, StartVars>>

AbortStart(p) ==
  /\ Holds(p, "abort") /\ srv = "stopped"
  /\ Unlock(p, "starting")
  /\ UNCHANGED <<started, conn, hasWatcher, health, esDone, srv, dsOpen, read, StartVars>>

\* The initial load; its error is only logged.
InitialRead(p) ==
  /\ Holds(p, "initial") /\ ~AllRead(p)
  /\ IF disk[NextFile(p)] = 0
     THEN phase' = "watch" /\ read' = [read EXCEPT ![p] = <<>>]
     ELSE ReadFile(p) /\ UNCHANGED phase
  /\ UNCHANGED <<esMu, started, conn, hasWatcher, health, esDone, srv, dsOpen, at, StartVars>>

InitialWrite(p) ==
  /\ Holds(p, "initial") /\ AllRead(p)
  /\ WriteSchema(p)
  /\ phase' = "watch"
  /\ read' = [read EXCEPT ![p] = <<>>]
  /\ UNCHANGED <<esMu, started, conn, hasWatcher, health, esDone, srv, dsOpen, at,
                 boundVars, fileVars>>

\* NewFileWatcher, then watcher.Start, file by file. If either fails the
\* watches made so far are dropped and the server starts all the same.
NoWatcher(p) ==
  /\ Holds(p, "watch")
  /\ CloseWatcher
  /\ phase' = "health"
  /\ UNCHANGED <<esMu, started, conn, hasWatcher, health, esDone, srv, dsOpen, at, read,
                 schemaVars, boundVars>>

StartWatching(p) ==
  /\ Holds(p, "watch")
  /\ \/ /\ \E f \in Files : AddWatch(f)
        /\ UNCHANGED <<phase, hasWatcher>>
     \/ /\ StartLoop
        /\ phase' = "health" /\ hasWatcher' = TRUE
  /\ UNCHANGED <<esMu, started, conn, health, esDone, srv, dsOpen, at, read,
                 schemaVars, boundVars>>

FinishStart(p) ==
  /\ Holds(p, "health")
  /\ health' \in BOOLEAN
  /\ started' = TRUE
  /\ Unlock(p, "starting")
  /\ UNCHANGED <<conn, hasWatcher, esDone, srv, dsOpen, read, StartVars>>

StartStep(p) ==
  \/ Complete(p) \/ Dial(p) \/ AbortStart(p) \/ InitialRead(p) \/ InitialWrite(p)
  \/ NoWatcher(p) \/ StartWatching(p) \/ FinishStart(p)

(***************************************************************************)
(* Stop: one goroutine, es.mu held throughout                              *)
(***************************************************************************)
Stop(p) ==
  /\ p \in Users
  /\ Readable /\ started
  /\ Moves(p, "idle", "stopping")
  /\ esMu' = p /\ phase' = "stopHealth"
  /\ UNCHANGED <<started, conn, hasWatcher, health, esDone, srv, dsOpen, read, StartVars>>

\* Shutdown takes no more requests and waits for those under way, five seconds at
\* most: whether they are gone when it returns is left open.
StopHealth(p) ==
  /\ Holds(p, "stopHealth")
  /\ phase' = IF hasWatcher THEN "stopWatcher" ELSE "closeConn"
  /\ health' = FALSE
  /\ UNCHANGED <<esMu, started, conn, hasWatcher, esDone, srv, dsOpen, at, read, StartVars>>

StopWatcher(p) ==
  /\ \/ Holds(p, "stopWatcher") /\ MarkStopped /\ phase' = "closeWatcher"
     \/ Holds(p, "closeWatcher") /\ CloseWatcher /\ phase' = "waitLoop"
     \/ Holds(p, "waitLoop") /\ LoopGone /\ phase' = "closeConn" /\ UNCHANGED fileVars
  /\ UNCHANGED <<esMu, started, conn, hasWatcher, health, esDone, srv, dsOpen, at, read,
                 schemaVars, boundVars>>

\* Mutant: es.cancel() is left out.
CloseConnOnly == conn' = "closed" /\ UNCHANGED esDone

CloseAndCancel == conn' = "closed" /\ esDone' = TRUE

CloseConn(p) ==
  /\ Holds(p, "closeConn")
  /\ CloseAndCancel
  /\ phase' = "waitServer"
  /\ UNCHANGED <<esMu, started, hasWatcher, health, srv, dsOpen, at, read, StartVars>>

\* Mutant: es.wg.Wait() is left out.
ServerGoneUnchecked == TRUE

ServerGone == srv = "stopped"

WaitServer(p) ==
  /\ Holds(p, "waitServer") /\ ServerGone
  /\ phase' = "closeDatastore"
  /\ UNCHANGED <<esMu, started, conn, hasWatcher, health, esDone, srv, dsOpen, at, read,
                 StartVars>>

CloseDatastore(p) ==
  /\ Holds(p, "closeDatastore")
  /\ dsOpen' = FALSE /\ started' = FALSE
  /\ Unlock(p, "stopping")
  /\ UNCHANGED <<conn, hasWatcher, health, esDone, srv, read, StartVars>>

StopStep(p) ==
  \/ StopHealth(p) \/ StopWatcher(p) \/ CloseConn(p) \/ WaitServer(p) \/ CloseDatastore(p)

\* server.Run returns when es.ctx is canceled.
ServerExits ==
  /\ srv = "running" /\ esDone
  /\ srv' = "stopped"
  /\ UNCHANGED <<esMu, started, phase, conn, hasWatcher, health, esDone, dsOpen, at, read,
                 StartVars>>

(***************************************************************************)
(* ReloadSchema                                                            *)
(***************************************************************************)
ReloadVars == <<lifeVars, boundVars>>

\* By hand, or from the callback of a timer that has just taken fw.mu.
CallReload(p) ==
  /\ p \in Users /\ reloads < MaxReloads
  /\ Moves(p, "idle", "reload")
  /\ reloads' = reloads + 1
  /\ UNCHANGED <<lifeVars, schemaVars, read, checks, fileVars>>

TimerReload(t) ==
  /\ CallbackLocks(t)
  /\ Moves(t, "idle", "reload")
  /\ UNCHANGED <<ReloadVars, schemaVars, read>>

\* Mutant: the callback of a timer keeps fw.mu.
ReturnsLocked(p, from) == Moves(p, from, "idle") /\ UNCHANGED fileVars

\* The call returns; a timer's callback gives fw.mu back.
Returns(p, from) ==
  /\ Moves(p, from, "idle")
  /\ IF p \in Timers THEN CallbackReturns(p) ELSE UNCHANGED fileVars

\* es.reloader is set before es.started is.
ReloadRefused(p) ==
  /\ Readable /\ ~started
  /\ Returns(p, "reload")
  /\ UNCHANGED <<ReloadVars, schemaVars, read>>

ReloadAdmitted(p) ==
  /\ Readable /\ started
  /\ Moves(p, "reload", "reading")
  /\ UNCHANGED <<ReloadVars, schemaVars, read, fileVars>>

ReloadReads(p) ==
  /\ at[p] = "reading" /\ ~AllRead(p)
  /\ IF disk[NextFile(p)] = 0
     THEN Moves(p, "reading", "collect") /\ UNCHANGED read
     ELSE ReadFile(p) /\ UNCHANGED at
  /\ UNCHANGED <<ReloadVars, schemaVars, fileVars>>

ReloadWrites(p) ==
  /\ AllRead(p)
  /\ Moves(p, "reading", "collect")
  /\ WriteSchema(p)
  /\ UNCHANGED <<ReloadVars, read, fileVars>>

\* The registered callbacks are copied under es.mu and called outside it.
CollectCallbacks(p) ==
  /\ Readable
  /\ Moves(p, "collect", "callback")
  /\ read' = [read EXCEPT ![p] = <<>>]
  /\ UNCHANGED <<ReloadVars, schemaVars, fileVars>>

CallCallbacks(p) ==
  /\ Returns(p, "callback")
  /\ UNCHANGED <<ReloadVars, schemaVars, read>>

ReloadStep(p) ==
  \/ ReloadRefused(p) \/ ReloadAdmitted(p) \/ ReloadReads(p) \/ ReloadWrites(p)
  \/ CollectCallbacks(p) \/ CallCallbacks(p)

(***************************************************************************)
(* HealthCheck                                                             *)
(***************************************************************************)
HealthVars == <<lifeVars, schemaVars, read, reloads, fileVars>>

\* The state is read under es.mu and used after it has been given back.
CallHealthCheck(p) ==
  /\ \/ p \in Users
     \/ p \in Handlers /\ health
  /\ checks < MaxChecks
  /\ Readable
  /\ IF started THEN Moves(p, "idle", "head") ELSE at[p] = "idle" /\ UNCHANGED at
  /\ checks' = checks + 1
  /\ UNCHANGED HealthVars

\* Statistics asks the datastore for its head revision, which looks whether it
\* is closed, and then counts the relationships, which does not.
HeadRevision(p) ==
  /\ Moves(p, "head", IF dsOpen THEN "count" ELSE "idle")
  /\ UNCHANGED <<HealthVars, checks>>

CountRelationships(p) ==
  /\ Moves(p, "count", IF dsOpen THEN "idle" ELSE "panicked")
  /\ UNCHANGED <<HealthVars, checks>>

HealthStep(p) == HeadRevision(p) \/ CountRelationships(p)

----------------------------------------------------------------------------
EditFile ==
  /\ started \/ EditsDuringStart
  /\ \E f \in Files, how \in Edits : Edit(f, how)
  /\ UNCHANGED esVars

Background == WatcherStep /\ UNCHANGED esVars

Call(p) == Start(p) \/ Stop(p) \/ CallReload(p) \/ CallHealthCheck(p)

Step(p) == StartStep(p) \/ StopStep(p) \/ ReloadStep(p) \/ HealthStep(p)

ServerNext ==
  \/ EditFile
  \/ Background
  \/ ServerExits
  \/ \E t \in Timers : TimerReload(t)
  \/ \E p \in Procs : Call(p) \/ Step(p)

ServerSpec == ServerInit /\ [][ServerNext]_allVars

\* Goroutines, timers and the server run; nobody has to call or to edit.
ServerFairness ==
  /\ WF_allVars(Background)
  /\ WF_allVars(ServerExits)
  /\ \A t \in Timers : WF_allVars(Expire(t) /\ UNCHANGED esVars) /\ WF_allVars(TimerReload(t))
  /\ \A p \in Procs : WF_allVars(Step(p))

FairServerSpec == ServerSpec /\ ServerFairness

----------------------------------------------------------------------------
(***************************************************************************)
(* Properties                                                              *)
(***************************************************************************)
\* Stop ends the hot reload: once it has marked the watcher stopped no callback
\* of a timer, however long it has been waiting for fw.mu, begins or goes on
\* with a reload, so none writes through the connection Stop closes
\* (internal/watch/watcher.go:94-108, 161-189). A reload by hand that was admitted
\* before may outlive Stop (server.go:283-287), but not reach the server: when the
\* datastore is closed, the connection is (server.go:217-235).
QuietAfterStop ==
  /\ stopped => \A t \in Timers : at[t] = "idle"
  /\ \A t \in Timers : at[t] = "reading" => conn = "open" /\ dsOpen
  /\ ~dsOpen => conn = "closed"

\* Reloads of the watcher do not overlap, and the datastore is closed only when
\* the server that uses it is gone (server.go:225-235).
OrderlyShutdown ==
  /\ \A t, u \in Timers : at[t] # "idle" /\ at[u] # "idle" => t = u
  /\ ~dsOpen => srv = "stopped" /\ loop \in {"off", "exited"}

\* The goroutine that holds es.mu in Stop and the callback that holds fw.mu
\* wait for each other.
LockCycle ==
  /\ phase = "stopWatcher"
  /\ fwMu # NoTimer /\ at[fwMu] \in {"reload", "collect"}

\* Start and Stop return, unless Stop runs into that cycle: there is no other
\* way to hang (server.go:93-241).
ReturnsUnlessCycle == (esMu # NoProc) ~> (esMu = NoProc \/ LockCycle)

\* Stop stops the server and returns ("Stops the server, file watchers, and
\* cleans up resources", README.md:279).
StopReturns == (phase = "stopHealth") ~> (phase = "none")

\* A change of a schema file ends up in the schema the server serves, unless
\* somebody stops the server, reloads by hand beside the watcher, a file is
\* missing, or WriteSchema fails for a schema with that very change. The next change
\* is served again, however many writes have failed before it
\* (server.go:157-173, internal/watch/watcher.go:110-189,
\* internal/schema/reloader.go:34-63).
Excused(f) ==
  \/ phase # "none" \/ ~started \/ reloads # 0
  \/ \E g \in Files : disk[g] = 0
  \/ unwritten[f] = disk[f]

HotReload ==
  \A f \in Files :
    (hasWatcher /\ served[f] # disk[f]) ~> (served[f] = disk[f] \/ Excused(f))

\* A health check survives whatever Stop does beside it: Statistics on a closed
\* datastore is an error, not a panic (memdb_test.go:120 and 142-143).
HealthCheckNeverPanics == \A p \in Procs : at[p] # "panicked"
=============================================================================
