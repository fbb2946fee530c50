----------------------------- MODULE MemDBWatch -----------------------------
(***************************************************************************)
(* The watchers of the memdb datastore (internal/datastore/memdb/watch.go) *)
(* beside the writers of MemDB: each Watch call is a goroutine that loads  *)
(* the changelog after its cursor, sends it into a bounded channel and     *)
(* waits for the changelog table to change.                                *)
(***************************************************************************)
EXTENDS MemDB

CONSTANTS
  Watchers,      \* Watch calls
  BufferLength,  \* options.WatchBufferLength
  Content        \* options.Content: the kinds of events asked for

ASSUME WatchAssumption ==
  /\ BufferLength \in Nat \ {0}
  /\ Content \subseteq {"relationships", "schema", "checkpoints"}

VARIABLES
  wpc,       \* where each watcher's goroutine is
  from,      \* the revision it was asked to start after
  cursor,    \* currentTxn
  staged,    \* stagedUpdates still to be sent
  seenRoot,  \* the root whose changelog watch channel it waits on
  updates,   \* the updates channel
  received,  \* what its consumer has taken from the channel
  canceled   \* its context has been canceled

watchVars == <<wpc, from, cursor, staged, seenRoot, updates, received, canceled>>

Event == [revision : Nat, checkpoint : BOOLEAN]

WatchTypeOK ==
  /\ wpc \in [Watchers -> {"off", "load", "send", "full", "wait",
                           "canceled", "disconnected", "closed"}]
  /\ from \in [Watchers -> Nat] /\ cursor \in [Watchers -> Nat]
  /\ seenRoot \in [Watchers -> Nat]
  /\ \A w \in Watchers :
       /\ \A s \in {staged[w], updates[w], received[w]} : \A i \in DOMAIN s : s[i] \in Event
       /\ Len(updates[w]) <= BufferLength
  /\ canceled \in [Watchers -> BOOLEAN]

----------------------------------------------------------------------------
RelationshipChanges(e) == {k \in Rels : e.changes[k] # Untouched}
ChangedDefinitions(e)  == {k \in Defs : e.changes[k] \in Payloads}
DeletedDefinitions(e)  == {k \in Defs : e.changes[k] = Absent}

Change(e) == [revision |-> e.revision, checkpoint |-> FALSE]
Checkpoint(e) == [revision |-> e.revision, checkpoint |-> TRUE]
When(cond, event) == IF cond THEN <<event>> ELSE <<>>

\* Mutant: an entry's checkpoint is staged before its changes.
EventsOfCheckpointFirst(e) ==
  When("checkpoints" \in Content, Checkpoint(e)) \o
  When("relationships" \in Content /\ RelationshipChanges(e) # {}, Change(e))

\* What loadChanges stages for one changelog entry. The condition on the
\* schema is (asked for and changed) or deleted, as && binds tighter than ||,
\* and an entry that meets two conditions is staged twice.
EventsOf(e) ==
  When("relationships" \in Content /\ RelationshipChanges(e) # {}, Change(e)) \o
  When(\/ "schema" \in Content /\ ChangedDefinitions(e) # {}
       \/ DeletedDefinitions(e) # {}, Change(e)) \o
  When("checkpoints" \in Content, Checkpoint(e))

\* Entries, of distinct revisions, in the order of their revisions.
ByRevision(entries) ==
  LET rank(e) == Cardinality({f \in entries : f.revision < e.revision})
  IN  [i \in 1..Cardinality(entries) |-> CHOOSE e \in entries : rank(e) = i - 1]

\* Mutant: LowerBound(currentTxn + 2).
EntriesAfterGap(after) == ByRevision({e \in Current.changelog : e.revision > after + 1})

\* LowerBound(currentTxn + 1) on the changelog of the live database.
EntriesAfter(after) == ByRevision({e \in Current.changelog : e.revision > after})

\* stagedUpdates: the events of one entry after those of another.
StagedUpdates(entries) ==
  LET upTo[n \in 0..Len(entries)] ==
        IF n = 0 THEN <<>> ELSE upTo[n - 1] \o EventsOf(entries[n])
  IN  upTo[Len(entries)]

----------------------------------------------------------------------------
At(w, p) == wpc[w] = p
WGoto(w, p) == wpc' = [wpc EXCEPT ![w] = p]

\* Watch(ctx, ar, options), with a revision a caller can hold.
Watch(w) ==
  /\ At(w, "off")
  /\ \E ar \in {0} \cup {a.revision : a \in acked} :
       /\ from' = [from EXCEPT ![w] = ar]
       /\ cursor' = [cursor EXCEPT ![w] = ar]
  /\ WGoto(w, "load")
  /\ UNCHANGED <<staged, seenRoot, updates, received, canceled>>

\* loadChanges, under mdb.RLock: the changes and the watch channel come from
\* one read transaction.
LoadChanges(w) ==
  /\ At(w, "load")
  /\ Unlocked
  /\ isOpen
  /\ LET entries == EntriesAfter(cursor[w])
     IN  /\ staged' = [staged EXCEPT ![w] = StagedUpdates(entries)]
         /\ cursor' = [cursor EXCEPT ![w] =
                         IF entries = <<>> THEN @ ELSE entries[Len(entries)].revision]
  /\ seenRoot' = [seenRoot EXCEPT ![w] = Len(roots)]
  /\ WGoto(w, "send")
  /\ UNCHANGED <<from, updates, received, canceled>>

LoadClosed(w) ==
  /\ At(w, "load")
  /\ Unlocked
  /\ ~isOpen
  /\ WGoto(w, "closed")
  /\ UNCHANGED <<from, cursor, staged, seenRoot, updates, received, canceled>>

\* Mutant: the channel takes one event too many.
HasRoomForOneMore(w) == Len(updates[w]) <= BufferLength

HasRoom(w) == Len(updates[w]) < BufferLength

\* sendChange; "full" is its second select, with the timer running.
Send(w) ==
  /\ At(w, "send") \/ At(w, "full")
  /\ staged[w] # <<>>
  /\ HasRoom(w)
  /\ updates' = [updates EXCEPT ![w] = Append(@, Head(staged[w]))]
  /\ staged' = [staged EXCEPT ![w] = Tail(@)]
  /\ WGoto(w, "send")
  /\ UNCHANGED <<from, cursor, seenRoot, received, canceled>>

FindFull(w) ==
  /\ At(w, "send")
  /\ staged[w] # <<>>
  /\ ~HasRoom(w)
  /\ WGoto(w, "full")
  /\ UNCHANGED <<from, cursor, staged, seenRoot, updates, received, canceled>>

SendTimeout(w) ==
  /\ At(w, "full")
  /\ WGoto(w, "disconnected")
  /\ UNCHANGED <<from, cursor, staged, seenRoot, updates, received, canceled>>

\* Mutant: the watch channel is taken after the changes have been sent.
SentAllThenWatch(w) ==
  /\ At(w, "send")
  /\ staged[w] = <<>>
  /\ WGoto(w, "wait")
  /\ seenRoot' = [seenRoot EXCEPT ![w] = Len(roots)]
  /\ UNCHANGED <<from, cursor, staged, updates, received, canceled>>

SentAll(w) ==
  /\ At(w, "send")
  /\ staged[w] = <<>>
  /\ WGoto(w, "wait")
  /\ UNCHANGED <<from, cursor, staged, seenRoot, updates, received, canceled>>

\* The watch channel closes when the changelog table changes, and every commit
\* inserts into it.
WatchFires(w) == seenRoot[w] < Len(roots)

Wake(w) ==
  /\ At(w, "wait")
  /\ WatchFires(w)
  /\ WGoto(w, "load")
  /\ UNCHANGED <<from, cursor, staged, seenRoot, updates, received, canceled>>

WatchCanceled(w) ==
  /\ At(w, "wait")
  /\ canceled[w]
  /\ WGoto(w, "canceled")
  /\ UNCHANGED <<from, cursor, staged, seenRoot, updates, received, canceled>>

\* The consumer of the channel, and its context.
Receive(w) ==
  /\ updates[w] # <<>>
  /\ received' = [received EXCEPT ![w] = Append(@, Head(updates[w]))]
  /\ updates' = [updates EXCEPT ![w] = Tail(@)]
  /\ UNCHANGED <<wpc, from, cursor, staged, seenRoot, canceled>>

Cancel(w) ==
  /\ ~At(w, "off")
  /\ ~canceled[w]
  /\ canceled' = [canceled EXCEPT ![w] = TRUE]
  /\ UNCHANGED <<wpc, from, cursor, staged, seenRoot, updates, received>>

----------------------------------------------------------------------------
WatchInit ==
  /\ Init
  /\ wpc = [w \in Watchers |-> "off"]
  /\ from = [w \in Watchers |-> 0] /\ cursor = [w \in Watchers |-> 0]
  /\ staged = [w \in Watchers |-> <<>>]
  /\ seenRoot = [w \in Watchers |-> 0]
  /\ updates = [w \in Watchers |-> <<>>] /\ received = [w \in Watchers |-> <<>>]
  /\ canceled = [w \in Watchers |-> FALSE]

Loop(w) ==
  \/ LoadChanges(w) \/ LoadClosed(w) \/ Send(w) \/ FindFull(w) \/ SentAll(w)
  \/ Wake(w) \/ WatchCanceled(w)

Watcher(w) == Watch(w) \/ Loop(w) \/ SendTimeout(w) \/ Receive(w) \/ Cancel(w)

WatchNext ==
  \/ Next /\ UNCHANGED watchVars
  \/ \E w \in Watchers : Watcher(w) /\ UNCHANGED vars

allVars == <<vars, watchVars>>

WatchSpec == WatchInit /\ [][WatchNext]_allVars

\* Goroutines run; the consumer keeps reading; a blocked send that is never
\* given room times out.
WatchFairness ==
  /\ \A w \in Writers : WF_allVars(CallStep(w) /\ UNCHANGED watchVars)
  /\ \A w \in Watchers :
       /\ WF_allVars((Loop(w) \/ SendTimeout(w)) /\ UNCHANGED vars)
       /\ WF_allVars(Receive(w) /\ UNCHANGED vars)

FairWatchSpec == WatchSpec /\ WatchFairness

----------------------------------------------------------------------------
(***************************************************************************)
(* Properties                                                              *)
(***************************************************************************)
Stream(w) == received[w] \o updates[w] \o staged[w]

\* What a watcher asked to be told of: the commits after its start that change
\* something it watches. Deletions of definitions reach every watcher.
Wanted(w) ==
  {i \in 2..Len(roots) :
     /\ roots[i].revision > from[w]
     /\ \/ "relationships" \in Content /\ RelationshipChanges(roots[i]) # {}
        \/ "schema" \in Content /\ ChangedDefinitions(roots[i]) # {}
        \/ DeletedDefinitions(roots[i]) # {}}

\* Nothing committed up to a watcher's cursor is skipped, nothing it did not
\* ask for is sent, and events come in the order of the revisions, whatever is
\* committed between loading, sending and waiting (watch.go:63-147).
StreamExact ==
  \A w \in Watchers :
    LET s == Stream(w)
    IN  /\ {s[i].revision : i \in {j \in DOMAIN s : ~s[j].checkpoint}}
             = {roots[i].revision : i \in {j \in Wanted(w) : roots[j].revision <= cursor[w]}}
        /\ \A i, j \in DOMAIN s : i < j => s[i].revision <= s[j].revision

\* A checkpoint a consumer has received is a promise: every wanted commit up to
\* its revision came before it, and nothing at or below it comes later
\* (watch.go:132-137).
CheckpointFinal ==
  \A w \in Watchers : \A c \in DOMAIN received[w] :
    received[w][c].checkpoint =>
      /\ \A i \in Wanted(w) : roots[i].revision <= received[w][c].revision =>
           \E j \in 1..(c - 1) : received[w][j].revision = roots[i].revision
      /\ \A j \in DOMAIN Stream(w) :
           j > c => Stream(w)[j].revision > received[w][c].revision

\* A commit does not get lost between loading and waiting: a watcher reaches
\* it, or its call ends with an error (watch.go:65-95).
WatcherCatchesUp ==
  \A w \in Watchers :
    wpc[w] # "off" /\ Current.revision > cursor[w]
      ~> \/ Current.revision <= cursor[w]
         \/ wpc[w] \in {"canceled", "disconnected", "closed"}
=============================================================================
