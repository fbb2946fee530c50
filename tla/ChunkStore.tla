----------------------------- MODULE ChunkStore -----------------------------
(***************************************************************************)
(* internal/datastore/common/chunkbytes.go: the table in which             *)
(* SQLByteChunker keeps a value cut into chunks.                           *)
(* Every query of the chunker names the value, so one name stands for all. *)
(* The transactions and the executor are the datastore's own and external: *)
(* a transaction commits whole or not at all, at its own revision, and     *)
(* ExecuteRead returns the rows that are alive at the reader's revision.   *)
(***************************************************************************)
EXTENDS RemoteClock

CONSTANTS
  Values,        \* the values written: sequences of bytes
  MaxChunkSize,  \* MaxChunkSize
  Missing,       \* what a read reports for a value that is not there
  Broken,        \* what a read reports when a chunk is missing
  WriteModes,    \* the write modes the datastore may be configured with
  MaxWrites      \* bound: writes and deletes of the value

AliveValue == MaxTime + 1   \* deleted_at of a row that is not deleted
Always == 0                 \* created_at of a row that has no such column

ASSUME ChunkAssumption == MaxChunkSize \in Nat \ {0}
ASSUME WritesAssumption == MaxWrites \in Nat
ASSUME ValueAssumption ==
  /\ Missing \notin Values /\ Broken \notin Values
  /\ \A v \in Values : v \in Seq({v[i] : i \in DOMAIN v})
ASSUME ModeAssumption == WriteModes \subseteq {"insertWithTombstones", "deleteAndInsert"}

VARIABLES
  writeMode,  \* the chunker's WriteMode
  rows,       \* the chunk table
  written     \* the history of the value: when it was set to what

storeVars == <<writeMode, rows, written>>

\* The data in pieces of MaxChunkSize, the last one shorter; none if it is empty.
chunkData(data) ==
  [i \in 1..((Len(data) + MaxChunkSize - 1) \div MaxChunkSize) |->
     SubSeq(data, (i - 1) * MaxChunkSize + 1,
            IF i * MaxChunkSize < Len(data) THEN i * MaxChunkSize ELSE Len(data))]

\* An empty value is one empty chunk.
chunksOf(data) == IF chunkData(data) = <<>> THEN << <<>> >> ELSE chunkData(data)

\* chunks is a set of rows, of distinct indexes 0 to N - 1 if none is missing.
reassembleChunks(chunks) ==
  LET indexes == {r.index : r \in chunks}
      piece(i) == (CHOOSE r \in chunks : r.index = i).chunk
      upto[n \in 0..Cardinality(indexes)] ==
        IF n = 0 THEN <<>> ELSE upto[n - 1] \o piece(n - 1)
  IN IF chunks = {} THEN Missing
     ELSE IF indexes # 0..(Cardinality(indexes) - 1) THEN Broken
     ELSE upto[Cardinality(indexes)]

ReadChunkedBytes(revision) ==
  reassembleChunks({r \in rows : r.created <= revision /\ revision < r.deleted})

\* Mutant: a write leaves the old value's rows alive.
RetiredNever(at) == rows

\* The table once a transaction at `at` has deleted or tombstoned the value.
Retired(at) ==
  IF writeMode = "deleteAndInsert"
  THEN {}
  ELSE {IF r.deleted = AliveValue THEN [r EXCEPT !.deleted = at] ELSE r : r \in rows}

Inserted(at, data) ==
  {[index |-> i - 1, chunk |-> chunksOf(data)[i], deleted |-> AliveValue,
    created |-> IF writeMode = "deleteAndInsert" THEN Always ELSE at] :
     i \in DOMAIN chunksOf(data)}

\* The datastore dates a transaction after every other.
MayCommit ==
  /\ Len(written) < MaxWrites
  /\ \A i \in DOMAIN written : written[i].at < time

WriteChunkedBytes(data) ==
  /\ MayCommit
  /\ rows' = Retired(time) \cup Inserted(time, data)
  /\ written' = Append(written, [at |-> time, value |-> data])
  /\ UNCHANGED <<writeMode, time>>

DeleteChunkedBytes ==
  /\ MayCommit
  /\ rows' = Retired(time)
  /\ written' = Append(written, [at |-> time, value |-> Missing])
  /\ UNCHANGED <<writeMode, time>>

StoreInit ==
  /\ writeMode \in WriteModes
  /\ rows = {}
  /\ written = <<>>

\* The value at a revision: what the last write up to it wrote. A chunker that
\* deletes and inserts keeps the last value only, for every revision.
ValueAt(revision) ==
  LET upTo == IF writeMode = "deleteAndInsert" THEN time ELSE revision
      before == {i \in DOMAIN written : written[i].at <= upTo}
  IN IF before = {} THEN Missing
     ELSE written[CHOOSE i \in before : \A j \in before : j <= i].value
=============================================================================
