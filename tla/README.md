# A TLA+ verification project for embedspicedb

embedspicedb runs a SpiceDB server inside a Go process, over an in-memory
datastore, and reloads the schema when its files change. These modules model the
parts of it whose behaviour depends on the order in which goroutines, timers,
commits and edits happen, and the helpers the repository keeps for SQL datastores;
TLC checks them on small instances and TLAPS proves their safety properties for every
value of the constants.

## 1. Inventory

| Part | Source | State | Operations | What makes it correct |
|---|---|---|---|---|
| memdb writers | `internal/datastore/memdb/memdb.go`, `readwrite.go`, `caveat.go` | `db`, `revisions`, `activeWriteTxn` under `mdb.RWMutex`; go-memdb's writer mutex and roots | `ReadWriteTx` (up to 10 attempts), the body's reads and writes, `Close` | transactions are serializable; a conflict is refused, never waited for; a call always returns; a commit keeps its changelog entry |
| memdb revisions | `memdb/revisions.go`, `memdb.go:114-150` | the `revisions` slice, the clock | `newRevisionID`, `HeadRevision`, `OptimizedRevision`, `CheckRevision`, `SnapshotReader` | a revision names one state; a revision just returned can be read; a quantized one is not staler than its quantum |
| memdb Watch | `memdb/watch.go` | the goroutine's cursor and staged updates, the channel | `Watch`: load, send, wait | no commit skipped or repeated out of order, checkpoints are final, no lost wake-up |
| memdb readers | `memdb/readonly.go`, deletes of `readwrite.go` | a read transaction | queries with filters, sort, cursor, limit; deletes by filter | the pages of a query are in order, repeat nothing and skip nothing; a batched delete ends with the rows gone |
| EmbeddedServer | `server.go`, `health.go` | `started`, `conn`, `watcher`, `healthSrv`, `ctx` under `es.mu` | `Start`, `Stop`, `ReloadSchema`, `HealthCheck` | Start and Stop return; nothing uses what Stop has closed |
| FileWatcher | `internal/watch/watcher.go` | `pending`, `timer`, `stopped` under `fw.mu` | `Start`, `Stop`, the event loop, the debounce callback | every edit is reloaded in the end; silence after Stop |
| SchemaReloader | `internal/schema/reloader.go` | none | `Reload` | the served schema is that of the files |
| revision cache | `datastore/revisions/optimized.go`, `remoteclock.go` | candidates, a flight | `OptimizedRevision`, `CheckRevision` | a revision handed out is acceptable until the caller is done with it |
| garbage collector | `datastore/common/gc.go` | a worker on each node, the datastore's lock | `StartGarbageCollector`, `RunGarbageCollection` | nothing readable is deleted; a failed run comes to its unlock and does not count; a canceled worker ends |
| chunked values | `common/chunkbytes.go` | the rows of a chunk table, alive or dead | `WriteChunkedBytes`, `DeleteChunkedBytes`, `ReadChunkedBytes` | an accepted revision reads the value as it was, whole |
| change tracking | `common/changes.go` | a record for each revision, the size counted | `AddRelationshipChange`, `AddChangedDefinition`, `AddDeleted*`, `AddRevisionMetadata`, `FilterAndRemoveRevisionChanges` | changes of a revision are netted out, none is lost or given twice; the byte limit bounds what is held |
| SQL queries | `common/sql.go`, `schema.go`, `relationships.go` | none | `ExecuteQuery`, `QueryRelationships` | the rows, order and pages of memdb; a column left out of a statement is known from the filter |
| revision flavours | `revisions/hlcrevision.go`, `txidrevision.go`, `commonrevision.go` | none | parse, format, compare | revisions are ordered as their texts, and a text parses to what printed it |
| telemetry, middleware, logging, demo | | | | not modelled |

How they meet. The application calls the server; the server owns the watcher, the
reloader, a gRPC connection to the SpiceDB server it runs in a goroutine, and the
datastore. The watcher calls back into the server (`ReloadSchema`) from a timer's
goroutine, holding its own lock; the server calls the watcher (`Stop`) holding its
own. The SpiceDB server, which is external, calls the datastore from any number of
goroutines.

What is hard: two locks taken in opposite orders in two places (`es.mu` and
`fw.mu`; `mdb.RWMutex` and go-memdb's writer mutex); a flag shared by transactions
(`activeWriteTxn`) that one of them may clear for another; revisions taken from a
clock before the lock that orders the commits; state read under a lock and used after
it; timers that cannot be recalled. `PROJECT.json` lists these under `hazards`.

## 2. Modules

### MemDB
The datastore under concurrent `ReadWriteTx` calls and `Close`.

go-memdb keeps immutable trees, so the model keeps the sequence `roots` of every root
published; the live database is the last, and a `Snapshot()` is an index. An entry of
`revisions` whose db is the live database itself has index `Live` (0): that is the
first entry, made by `NewMemdbDatastore`, and the one `Close` leaves.

A writer's `pc` follows its call: `idle`, `body` (the body runs, no transaction yet),
`conflict` (txSrc returned ErrSerialization), `opening` (txSrc holds `mdb.Lock` and is
in `db.Txn(true)`), `intx`, `returned` (the body returned nil), `failed`, or `panicked` (`newRevisionID`
found no revision, after which the call is neither under way nor back). Critical
sections that cannot block inside are one step; the one that can, in txSrc, is two, with
`lock` naming the writer that keeps `mdb.RWMutex` between them. Everything that needs
the lock has `Unlocked` as its guard.

| Action | Code |
|---|---|
| `Start`, `Retry` | the loop of `ReadWriteTx`, with `newRevisionID` in its own critical section |
| `TxConflict`, `TxClosed`, `TxLock`, `TxBegin` | txSrc, inside the Once |
| `Read`, `Create`, `Touch`, `DeleteRelationships`, `WriteDefinition`, `DeleteDefinition` | what a body may do; namespaces and caveats are both definitions |
| `BodyFails`, `BodyConflicts`, `BodyReturns` | the body's result: an error, ErrSerialization itself, nil; with `MayBeEmpty` it may return nil without having used `rwt` |
| `Rollback`, `GiveUp` | the error path, the exhausted retries |
| `Finish` | the commit path, from `mdb.Lock` to the return |
| `Close` | `Close` |

A transaction records what it read before writing (`reads`) and its net changes, so that
serializability can be stated. `Changes` drops keys absent before and after, as
`tx.Changes()` does.

### SerialStore
What `ReadWriteTx` promises: transactions take effect one at a time, on the state they
read, and a revision is handed out at that moment. `MemDB` maps to it: `store` is the
live rows, `log` the roots' transactions, `serving` whether it is open. `CommitUnanswered`
is there because the code commits and then returns ErrMemDBIsClosed when `Close` came
between (memdb.go:316-322).

### MemDBWatch
Extends `MemDB` with the goroutine of `Watch`. `WatchFires` holds when a root newer than
the one loaded from exists, since every commit inserts into the changelog table. `EventsOf`
keeps the condition of watch.go:127-128 as Go parses it; `ByRevision` is the iterator over the
changelog's index, `StagedUpdates` the loop that appends to what is staged. `Receive` and `Cancel`
belong to the consumer.

### FileWatcher and EmbeddedServer
`FileWatcher` has fsnotify's watches, the event loop, the timers and `Stop`, but not what a
reload does; `EmbeddedServer` extends it with the server. A file's content is a version
number, 0 for no file. Time is abstract: a timer that is set may expire at any moment, and
`timer.Stop()` works only on one that has not. `fwMu` names the callback that keeps `fw.mu`
during a reload, `esMu` the goroutine in `Start` or `Stop`, `phase` how far that one has come.
A section under `es.mu.RLock` does not block inside and is one step.

`WriteSchema` is refused if the connection, the server or the schema will not do (`Accepted`), and may also return an
error for reasons of its own, before the server has taken the schema or after: a canceled context (the watcher's reloads use
that of `Start`, server.go:160) or a failure on the way. The code tries nothing again. `unwritten` keeps what the last such write
was of, so that `HotReload` can tell a lost edit from a stuck watcher.

### RelationshipQueries
A query is a record: direction, filter, order, limit, skip options; strings are numbers in the order of
the strings, 0 the empty one. `Answer` is what either kind of query does with the rows of its index:
`FilterDrops`, `CursorDrops`, then one of the two iterators, which leave out expired rows before they
count to the limit. `NextPage` is a caller that asks again with the last row as cursor while pages are
full; `Touch`, `DeleteRelationships` and `Tick` happen between pages. A page is read in one step, as a
snapshot is. `Wants` states what a query asks for independently of indexes, cursors and iterators.

### SQLQueries
Extends `RelationshipQueries` with a second kind of store. A query's `store` is `memdb` or `sql`; the
second is answered by what the statement means: `FilterKeeps` is the WHERE clause of the filters, `After`
the comparison with the cursor, `SelectedRows` the ordered and limited rows, `ColumnsToSelect` a row read
back when the columns that filters pin are neither selected nor compared. `recordColumnValue` and
`hasStaticValue` are the tracker that decides which those are. `FilterRefused` are the filters for which the
builder returns an error and no statement runs; `AcceptedAssumption` keeps them out. The reader, the edits and the properties on
pages are those of `RelationshipQueries`.

### RemoteClock and RevisionCache
`RemoteClock` computes the quantized revision of a datastore's clock and checks revisions. `RevisionCache` is
`CachedOptimizedRevisions.OptimizedRevision` for any number of callers: `Ask` reads the clock and draws the
slack, `Hit` and `Miss` read the cache under its lock, `Lead` and `Join` are `updateGroup.Do`, `Compute` and
`ComputeFails` the call to the datastore, `Publish` prunes, appends and lands the flight. A caller that joined
gets the leader's revision, whatever it asked. `Answered` is the request that used the revision, `CallTime` how long
it may take.

### ChunkStore, GarbageCollection, CollectedStore
`ChunkStore` has the rows of a table of chunks with the revisions that created and deleted them, and the
three operations on them in both write modes. `GarbageCollection` is a worker on each node: `LockForGCRun`,
`Now`, `TxIDBefore`, `DeleteBeforeTx`, `DeleteExpiredRels`, `UnlockAfterGCRun` are a step each, `Fails` the
errors before the watermark, `BeginInVain` a run that does not get the lock, `Stop` the end on a canceled context.
A failed `DeleteBeforeTx` has deleted any part of the garbage. `UnlockAfterGCRun` may leave the lock taken: the code
only logs its error (gc.go:241-248). `CollectedStore` puts both over one clock.

### HLCRevision
Revisions of a hybrid logical clock as operators: what a decimal is parsed to and printed as, and how two compare. The offset
added to every logical clock is 10^11 converted to a uint32, which holds no such number: on 64-bit x86 it
becomes 1215752192, so the model takes any `Offset` below `Width`. The sum wraps, as uint32 does; `Fits` says when it does not.

### ChangeLog and ChangeTracking
`ChangeLog` is the specification of a change tracker: changes are added to revisions and the revisions before a
bound are taken at once, in order, each change netted against the others of its revision. `ChangeTracking` is
`Changes`: each exported method with its locked sections, records with their sizes, and
`FilterAndRemoveRevisionChanges` in four steps (look, list, read, remove), between which others add. `TakesAtOnce` is the
refinement. `CallerAdds` and `CallerAsks` are what the goroutines around it keep to. Records are keyed by the revisions of `HLCRevision`, the log by their texts.

### Proof modules
The theorems, and the lemmas they rest on, are in `MemDBProofs` (writers, and the refinement of `SerialStore`),
`MemDBReadProofs` (revisions and what is read at them), `MemDBWatchProofs`, `RelationshipQueryProofs` (over
`SQLQueries`, so of both stores), `RevisionCacheProofs`, `CollectedStoreProofs`, `ChangeTrackingProofs` (with
`HLCRevision`) and `EmbeddedServerProofs` (with `FileWatcher`). `MC*` modules give TLC its instances.

## 3. What is checked

| Run | Checks | Result |
|---|---|---|
| `memdb_writers` | `TypeOK`, `NoLostUpdate`, `SnapshotsInCommitOrder`, `NeverWaitsUnderLock`, `CallsNeverPanic`, `Serializable`, `CallsReturn` | hold |
| `memdb_watch` | `WatchTypeOK`, `StreamExact`, `CheckpointFinal`, `ReadsOwnCommit`, `OptimizedSeesCommits`, `ChangelogComplete`, `WatcherCatchesUp` | hold |
| `memdb_queries` | `TypeOK`, `PagesInOrder`, `NoneSkipped`, `DirectionsAgree`, `StoresAgree`, `OnlyAnswers`, `BatchesComplete` | hold |
| `server_lifecycle` | `ServerTypeOK`, `QuietAfterStop`, `OrderlyShutdown`, `ReturnsUnlessCycle`, `HotReload` | hold |
| `revision_cache` | `TypeOK`, `HandedOutAccepted` | hold |
| `collected_store` | `TypeOK`, `AcceptedReadable`, `CompletedIsCollected`, `UnlockCalled`, `WorkersStop` | hold |
| `change_tracking` | `TypeOK`, `LimitHolds`, `TakesAtOnce` | hold |
| `memdb_lock_inversion` | `NeverWaitsUnderLock` with empty transactions | violated |
| `memdb_coarse_clock` | `RevisionsUnique` on a clock that stands still | violated |
| `server_stop_deadlock` | `StopReturns` | violated |
| `server_replaced_file` | `HotReload` for a file replaced by a rename | violated |
| `server_health_panic` | `HealthCheckNeverPanics` | violated |

The violated ones are the findings of `PROJECT.json`, each with the line it contradicts.

Where a property needs a condition, the condition is a constant of the run or an assumption on constants. The one
exception is what callers of `Changes` keep to, which is about a state: it is in `CallerAdds` and `CallerAsks`, which `Next`
and `Take` put beside the methods, and no method has it as a guard.

- `ReadsOwnCommit`, `OptimizedSeesCommits`, `ChangelogComplete` and the properties of a watcher do not hold when calls
  overlap, because a revision is chosen (memdb.go:193) before the commit that carries it is
  ordered (memdb.go:217). `memdb_watch` has one writer, and a clock that advances between two readings.
- `NeverWaitsUnderLock` and `CallsReturn` do not hold with empty transactions, which is the lock inversion:
  `memdb_writers` has `MayBeEmpty = FALSE`.
- `CallsNeverPanic` and `CallsReturn` need that `Close` is called once (`MaxCloses = 1`): the code does panic after a
  second one, which leaves no revision for `newRevisionID` to look at (memdb.go:374-377, revisions.go:21); `memdb_writers` with
  `MaxCloses = 2` finds it. The test memdb_test.go:120, `TestAnythingAfterCloseDoesNotPanic`, closes once. A call that panics does not count as one that returns.
- `HotReload` is checked with edits after `Start` has returned, and excuses an edit whose own write returned an error, which nobody
  tries again (docs/GAPS.md:235-245). The edit after it is not excused.
- `HandedOutAccepted` needs `RoomAssumption`: the window must hold the staleness, the quantum, the follower delay and
  the time a request takes. A quantum of 0 is none, as in remoteclock.go:69. The code does not check it (it caps the staleness at the window,
  remoteclock.go:29-35), so it is a rule for whoever configures a datastore; the run sits at its edge.
- A query of a SQL store with a limit leaves at least one column unpinned (`ComparedAssumption`). If filters pin
  all six there is nothing to compare the cursor with, and a page of one row comes again and again. Filters for which the code
  returns an error are not asked with (`AcceptedAssumption`).
- `TakesAtOnce` has one taker, whose bounds do not go back, and nobody adds below a bound that was asked for. Otherwise a change may be removed that was
  never listed (changes.go:300). `LimitHolds` needs that no namespace and caveat have the same name, because a
  replaced caveat is looked up among the namespaces.
- Logical clocks fit beside their offset (`ThingsAssumption`). What happens to those that do not is the theorem `OrderLost`.

### Bounds
- `memdb_writers`: 2 writers, since a conflict has two parties as long as every body uses its transaction (the lock inversion needs three, which
  `memdb_lock_inversion` has); 3 calls and 2 attempts, so that retries happen and run out; one definition with two contents that both
  read, write and delete; one call of Close, between any two of their steps. Relationships, cascades and empty transactions
  are in `memdb_watch`, `memdb_lock_inversion` and `memdb_coarse_clock`, and in the theorems, which are about any number of writers.
- `memdb_watch`: one writer with 2 calls that may be empty, one relationship owned by one definition, Close, and one watcher
  with room for one event, so that sending blocks, times out and is overtaken by commits. The clock
  advances by 1 or 2 ticks; window and quantum are 2, so that revisions fall out of the window and on both sides of a quantum.
- `memdb_queries`: 4 keys in 6 rows that differ in caveat and expiration, queries with limits of 1, 2 and
  none, so that a query has up to 5 pages, and filters that pin columns by themselves, by one selector and by two that
  differ; 2 transactions and one tick, which expires a row, between pages. Every set of rows with distinct
  keys is a first table. `HintOrder` is the order an index hint asks for.
- `revision_cache`: 3 callers, so that one leads, one joins and one begins a flight after it; window 4, staleness 2, delay 1,
  quantum 2, a call of 1 tick: one more of any breaks `RoomAssumption`. 7 ticks let a candidate be made, handed out
  when stale, and pruned. The callers are symmetric.
- `collected_store`: 2 nodes, so that one collects after the other failed or finds the lock taken; 3 writes or deletes of a value of two
  full chunks and of an empty one, which replaces more chunks by fewer; both write modes; window 2 and time up to 5, so that a second write makes a
  row die, a collector deletes it, and a third write follows. Without tombstones earlier values are gone with the write that
  replaces them, and what an accepted revision reads is compared with the latest value only, since that is all the mode promises.
- `change_tracking`: 2 relationships, a namespace, a caveat, one metadata, 3 revisions and 4 additions, a limit of 8 bytes that 4
  additions may reach; 3 kinds of contents to watch. The revisions are 1.0, 1.2 and 2.0, in clocks of 8 values with offset 5 (a logical
  clock of 2 just fits), so that both parts of a revision decide an order; changes are taken up to one of them or 2.1.
- `server_lifecycle`: two files, one of which may be missing at first, two edits, the first of an invalid schema, any write of
  the schema failing or not; one user, whose calls follow one another beside the timers and a health request, and one reload by hand. Two
  edits give two timers, one of them stopped or too late, and an edit after one whose write failed. `Timers` is `1..MaxEdits`, as every handled
  event makes one. More users only wait for `es.mu`, or hold it in sections that do not block, and the invariants are proved for any number of them;
  the runs of the violated properties have two.
- `memdb_lock_inversion`: three writers with empty transactions, a relationship and a definition. `memdb_coarse_clock`: one writer, a clock that
  may stand still.

`CHECK_DEADLOCK FALSE` stands in the cfgs because calls are bounded: when all have returned the
system stops. The properties on liveness look for the deadlocks that matter.

### Fairness
Goroutines that can run do run: weak fairness of each writer's `CallStep`, of a body's end (`BodyEnds`), of
a watcher's loop, of timers, of the event loop and of each call of the server. A mutex here is
waited for by steps whose guard, once true, is taken in the end; Go's mutexes do not starve
waiters, which is what weak fairness of a step under a lock needs in runs where the lock is not
kept being taken: calls are bounded. Nobody has to start a call, edit a file or close the
datastore. A body is assumed to end. The consumer of a watch keeps reading and may be late.
Each call of a collector's run returns, if with an error, since its context has a timeout; a worker that waits
may find its timer and its canceled context ready at once, and Go's select chooses at random: strong fairness of `Stop` says that
it does not choose the timer forever. Nothing makes a worker begin a run, and `UnlockCalled` does not need it to.

## 4. What is proved

For all values of the constants that satisfy `ValuesAssumption` and `NumbersAssumption`:

- `TypeCorrect`: `Spec => []TypeOK`.
- `NoUpdateLost`: `Spec => []NoLostUpdate`.
- `NoWaitUnderLock`: if `~MayBeEmpty`, `Spec => []NeverWaitsUnderLock`. With the run
  `memdb_lock_inversion` this says that empty transactions are the one cause of the inversion.
- `OneCloseNoPanic`: if `MaxCloses <= 1`, `Spec => []CallsNeverPanic`. Only a second call of
  `Close` leads there, and it does (section 3).
- `SnapshotsOrdered`: `Spec => []SnapshotsInCommitOrder`.
- `WritersSerializable`: `Spec => Serializable`, that is, `MemDB` implements `SerialStore`.
- `WatchersTyped`: `WatchSpec => []WatchTypeOK`, which bounds every watcher's channel.

For those among them that satisfy `Sequential`, that is, at most one writer, whose calls come one after another, and a clock
that moves between two readings (`0 \notin ClockSteps`); section 3 says why nothing less will do:

- `SequentialUnique`: `Spec => []RevisionsUnique`. With the run `memdb_coarse_clock` this says what it takes to get one
  revision twice.
- `OwnCommitRead`, `OptimizedRead`, `ChangelogKept`: `Spec` implies `[]ReadsOwnCommit`, `[]OptimizedSeesCommits` and
  `[]ChangelogComplete`.
- `StreamsExact`, `CheckpointsFinal`: `WatchSpec` implies `[]StreamExact` and `[]CheckpointFinal`, for any number of watchers.

For all rows, cursors and filters that satisfy the assumptions of `RelationshipQueries` and `SQLQueries`:

- `TotalOrders`: both sort orders are strict total orders on keys.
- `CursorCutsExactly`: a cursor drops exactly the rows that do not come after it.
- `QueriesTyped`, `ReadersInOrder`, `ReadersComplete`, `DirectionsFindAlike`: `SQLSpec` implies `[]TypeOK`, `[]PagesInOrder`,
  `[]NoneSkipped` and `[]DirectionsAgree`: whatever is written, deleted or expires between its pages, a reader of either store
  gets its rows in order, none twice, and every row that answers from the first page to the last.
- `PagesAnswer`, `DeletesInBatches`: `SQLSpec` implies `OnlyAnswers` and `BatchesComplete`, of every step.
- `StoresReadAlike`: `SQLSpec => []StoresAgree`. A SQL store's filters keep the rows that memdb's keep, and a kept row
  is read back whole though the columns its filters pin were not selected.
- `PinnedColumnsNeedNoComparison`: on such rows, comparing only the columns that are not pinned gives the order of all six.

For all callers, nodes and clocks that satisfy `ClockAssumption`, `RoomAssumption` and `NodesAssumption`:

- `CacheTypes`: `Spec => []TypeOK` of `RevisionCache`.
- `HandedOutIsAccepted`: `Spec => []HandedOutAccepted`.
- `CompletedRunsCollected`: `Spec => []CompletedIsCollected` of `CollectedStore`.
- `CollectorsExclude`: two nodes are never in a run at once.
- `CollectsOnlyUnreadable`: a step of a run deletes no row that an accepted revision reads.
- `StoreTyped`, `AcceptedReads`: `Spec` implies `[]TypeOK` and `[]AcceptedReadable` of `CollectedStore`, for any chunk size
  and values, in both write modes.

For any revisions, things, sizes, contents and limit that satisfy `WidthAssumption` and `ThingsAssumption`:

- `OrderKept`: revisions whose logical clocks fit are ordered as their texts and print as what they were parsed from.
- `OrderLost`: a logical clock that parsing accepts but that does not fit sorts before its own time without a
  logical clock, and is printed from a negative number (hlcrevision.go:133), which panics or gives what cannot be parsed.
- `TakingIsAtOnce`: `Spec => TakesAtOnce`, that is, `ChangeTracking` implements `ChangeLog`.
- `TrackerTyped`, `LimitKept`: `Spec` implies `[]TypeOK` and `[]LimitHolds` of `ChangeTracking`.

For all files, users and handlers that satisfy `FilesAssumption` and `ServerAssumption`, and any edits:

- `ServerTyped`, `StopIsQuiet`, `ShutdownInOrder`: `ServerSpec` implies `[]ServerTypeOK`, `[]QuietAfterStop` and
  `[]OrderlyShutdown`. They hold in the states of the deadlock too; that Stop returns in every other
  behaviour is liveness and only model-checked (`ReturnsUnlessCycle`). `StopIsQuiet` is about the callbacks of timers, from the moment the
  watcher is marked stopped: a reload by hand may outlive `Stop`, and of it the theorem says only that the connection is closed when
  the datastore is, so that it has nothing to write through.

The argument. `NoLostUpdate` alone is not inductive: a step of one writer must not change the
roots under another. `LockInv` says who may hold what: whoever is `opening` holds `lock`
(`LockHolder`), whoever has a transaction holds go-memdb's mutex (`MutexHolder`), transactions
belong to the places of the call where they are open (`TxPlaces`). So at most one writer has a
transaction. `ViewInv` adds that this transaction started from the last root and that its rows
differ from it only at keys it has touched (`Tracks`); `Observe` and `Put` preserve that, by lemmas
of their own. The refinement follows: at `Finish` the reads still hold in the last root and the
net changes lead to the new one. `WaitInv` adds `Announced`: whoever holds the mutex is the
`activeWriteTxn`. It is the conjunct an empty transaction breaks. `PanicInv` says that there
is a revision as long as `Close` has at most once been called, that the datastore is closed only by it, and that nobody has panicked. `SnapshotInv` is `LockInv`
with the order of the snapshots.

What is read at a revision follows from `DatedInv`: no revision is ahead of the clock, that of the call under way is ahead of
every other (`Dated`), so roots and revisions are in the order of their revisions (`Increasing`) and what was acknowledged stays
among them (`AckedKept`). Two writers break `Dated` between the choice of a revision and the lock. On sorted revisions the
bisection of `SearchRevision` has exactly one solution (`BisectionUnique`) and finds the place that splits them (`Searched`); it is
defined by a function, and the proof takes a least pair of bounds on which a function could differ.

A watcher's stream needs `StreamInv`. The events sent and staged are in order and tell of exactly the entries of the
changelog between its start and its cursor (`StreamOf`); the cursor is `Past`: no call under way, or to come, has a revision at or
before it, so a commit adds nothing where the watcher has been. `StreamOf` is kept by `LoadChanges` because the entries after the cursor
come sorted, each once (`EntriesSorted`, from the cardinalities of ranks), and because what is staged for sorted entries is in order
and tells of them (`EntriesStaged`, by a least counterexample over the loop, with `EntryEvents` for one entry). Sending and
receiving pass an event from one sequence to the next (`PassedOn`). `LogExact` and `ChangelogComplete` then turn entries into commits.

Pages rest on `PagingInv`. `InOrder` says that what was read is in order and before the cursor, `StillToCome` that what answers
and has not been read is after the cursor and still in the table. A page keeps them if it is a `GoodPage`: the first rows, by the order, of
those that answer after the cursor, and all of them unless it is full. `FirstRows` of sorted rows are such a page, in both stores;
for unsorted queries the page is in the order of the iterator, for SQL `PinnedColumnsNeedNoComparison` gives the cursor its meaning.

`AcceptedReadable` needs `HistoryInv`, which says what the table holds in terms of what was written: with tombstones, nothing but
rows of writes and all of those that did not die before the window (`TombstonesInv`); without, the last write's (`InsertsInv`); and
the dates of writes follow one another (`DatesInv`). So the rows an accepted revision sees are those of one write, and
`RoundTrip` reads from them the value that was cut, by an induction over its chunks done as a least counterexample.

`LimitHolds` needs `SizeInv`: what is held is counted as a finite set of bytes, so that adding a change adds its size and replacing one
exchanges two, and the counter is never below its cardinality. A caveat replaced under a namespace's name would break it.

The server's properties need `ServerInv`. `HolderInv` ties `es.mu` to the one goroutine in Start or Stop, and how far it is;
`TimerInv` ties `fw.mu` to the one timer in a reload, and says that there is none once the watcher is stopped; `LifeInv` says what is
open, closed and running at each point of Start and Stop; `CountInv` bounds the timers by the edits, so that one is always unused
when an event is handled (the finite `Timers` of the model hide no behaviour); `ReadInv` types what was read.

`StoresAgree` follows from lemmas on the tracker: a column is static only if every selector gives it the one value
(`PinnedColumns`), so a kept row has that value. For `PinnedColumnsNeedNoComparison` a lexicographic comparison may skip
the columns on which both keys agree.

`HandedOutAccepted` needs `CacheInv`, which follows a revision from where it is computed: a candidate's `validThrough` is never
beyond its revision plus delay and quantum, for a candidate, for a leader that has computed but not published (its clock
reading is from before), and a caller looks at most the staleness back. With the room the window leaves (`RoomAssumption`), what is
handed out is then inside the window when the request ends.

`CompletedIsCollected` needs `GCInv`: whoever is in a run holds the lock (`LockInv`; the converse does not hold, since a failed unlock
leaves it behind); a worker's watermark is before the
window (`WatermarkBefore`, from the finite maximum of `GreatestExists`) and time only moves away from it; rows die at the
time of the write that replaces them, so no new garbage appears before a watermark (`NoNewGarbage`).

`TakesAtOnce` needs `TrackInv`: a record is what the changes added at its revision net out to (`RecordsInv`, preserved
since every call is `AddsNet`); a revision at or after the bound that has no record has had no change (`FreshInv`, or
a change would join others already taken); and in each section of a take, what was listed or read so far is what the records before the
bound still are (`TakerInv`), because nobody adds there. `RemovingTakes` then makes the removal the log's `Take`,
with `TextsAppended` and a bijection of revisions and texts; asking is `AskBefore`, listing and reading stutter.

Only checked by TLC: everything temporal under fairness (`CallsReturn`, `WatcherCatchesUp`,
`ReturnsUnlessCycle`, `HotReload`, `UnlockCalled`, `WorkersStop`), which is beyond the prover. Every invariant that a passing run
checks is also a theorem, as are `Serializable`, `TakesAtOnce`, `OnlyAnswers` and `BatchesComplete`.

## 5. Not modelled

- Counters, metadata of memdb's transactions, and errors between the commit lock and the commit (rows that cannot be decoded).
- A body of a transaction that drops ErrSerialization and goes on with `rwt`: there is no transaction, and it panics.
- A second `Start` of a server object, `Client`, `OnSchemaReloaded`. The contexts of callers show only as writes of the schema that fail.
- A watched file's events are coalesced (one pending event per file) and each file has a directory of its own.
  A write is atomic: no reload sees half of it.
- How long a collector waits between runs: its interval and backoff only delay a run, which may begin at any time.
- SQL: `FilterToSubjectFilter`, custom queries, column orders other than the default, integrity columns, explain, retries. A
  statement is what it means, not its text.
- Revisions by transaction id (`txidrevision.go`), and the parsers chosen by name: nothing in this repository calls them. The characters of
  a revision's text: a text is its two numbers.
- Text of schemas, YAML forms, the status a health check reports.
- Telemetry, usage metrics, logging, the demo and the helpers on errors: no state that other parts read. `PROJECT.json`
  lists them as `not_modelled`.

No datastore in this repository uses `datastore/common` and `datastore/revisions` beyond what memdb uses, so a transaction, a
clock and a table are modelled as these helpers call them and marked external.

## 6. Plan

Done: the core (`MemDB`, `SerialStore`, `MemDBWatch`, `FileWatcher`, `EmbeddedServer`); readers, paging and deletes; the helpers for SQL
datastores (queries, chunks, change tracking, revision cache, collector); proofs of every invariant and
action property that a run checks, and of the refinements of `SerialStore` and `ChangeLog`.

What is left:

1. `MemDB`: counters, whose values leak through snapshots, and metadata; the reads of definitions by name.
2. The server again: restart, failure of the server goroutine, callbacks that call back.
3. Proofs: what of the streams of watchers holds beside overlapping calls (order within one load, nothing that was not asked for);
   that `FilterDrops` and the indexes agree with `Wants` for deletes as for queries; the wait-for graph behind `ReturnsUnlessCycle`.
