------------------------------ MODULE Persister ------------------------------
(***************************************************************************)
(* Persister of influxdb3_write/src/persister.rs: the snapshot files and   *)
(* the parquet files of one node in the object store.                      *)
(*                                                                         *)
(* A snapshot file is known by its snapshot sequence number.  Its path     *)
(* holds the number counted down from the largest one, so that a listing   *)
(* in path order has the newest snapshot first.  load_snapshots reads the  *)
(* listing a page at a time; the model takes one step per page, and lets   *)
(* snapshots be persisted between the pages.  A parquet file is its path   *)
(* and the number of rows in it.  The pool that TrackedMemoryArrowWriter   *)
(* reserves its memory from is an UnboundedMemoryPool wherever these       *)
(* sources make one, so that a reservation is never refused.               *)
(***************************************************************************)
EXTENDS Integers, Sequences, FiniteSets

SeqX == INSTANCE SequencesExt
SetX == INSTANCE FiniteSetsExt

CONSTANTS
    NONE,
    PAGE,               \* 1000 in the code: the snapshots fetched per listing
    Wanted,             \* the values of most_recent_n that are asked for
    ParquetPaths,       \* the paths parquet files are written to
    Streams,            \* the record batch streams: what they yield, in order
    FAILED,             \* yielded by a stream: an error in place of a batch
    MISMATCH,           \* yielded by a stream: a batch that is not of its schema
    MaxSnapshots        \* bound: snapshots persisted

VARIABLES
    snapshots,          \* the sequence numbers that have a snapshot file
    parquet,            \* the parquet files: a function from paths to row counts
    load,               \* load_snapshots: its locals
    returned            \* what the last call of persist_parquet_file returned

vars == <<snapshots, parquet, load, returned>>

Ok(v)   == [err |-> "Ok", val |-> v]
Err(e)  == [err |-> e, val |-> NONE]
IsOk(r) == r.err = "Ok"

\* SnapshotInfoFilePath: the place of a snapshot in the order of the paths
Location(sequence_number) == MaxSnapshots - sequence_number

\* object_store.list and list_with_offset, sorted by location: the
\* snapshots whose path comes after the offset, newest first
Listing(files, offset) ==
    SeqX!SetToSortSeq({s \in files : offset = NONE \/ Location(s) > Location(offset)},
                      LAMBDA s1, s2 : Location(s1) < Location(s2))

NotLoading == [pc |-> "idle", wanted |-> 0, most_recent_n |-> 0, offset |-> NONE,
               futures |-> <<>>, results |-> NONE, at_start |-> {}]

\* A batch is the number of its rows.
\* TrackedMemoryArrowWriter::try_new: nothing written, nothing reserved
try_new == [num_rows |-> 0]

\* TrackedMemoryArrowWriter::write: the writer takes the batch, if it is of
\* its schema, and its reservation is resized, which the pool allows
write(writer, batch) ==
    IF batch = MISMATCH THEN Err("ParquetError")
    ELSE Ok([writer EXCEPT !.num_rows = @ + batch])

\* The loop of serialize_to_parquet: every batch of the stream is written;
\* an error of the stream or of the writer ends it
WriteAll(writer, batches) ==
    SeqX!FoldLeft(LAMBDA result, batch :
                      CASE ~IsOk(result) -> result
                        [] batch = FAILED -> Err("DataFusion")
                        [] OTHER -> write(result.val, batch),
                  Ok(writer), batches)

\* TrackedMemoryArrowWriter::close, and what serialize_to_parquet makes of
\* the metadata it returns
Closed(written) ==
    CASE ~IsOk(written) -> written
      [] written.val.num_rows = 0 -> Err("NoRows")
      [] OTHER -> Ok(written.val.num_rows)

ClosedWithoutRows(written) ==
    IF IsOk(written) THEN Ok(written.val.num_rows) ELSE written

SerializeAnything(batches) == ClosedWithoutRows(WriteAll(try_new, batches))

\* serialize_to_parquet: the rows of all the batches, or NoRows
serialize_to_parquet(batches) == Closed(WriteAll(try_new, batches))

With(f, k, v) == [i \in DOMAIN f \cup {k} |-> IF i = k THEN v ELSE f[i]]

-----------------------------------------------------------------------------

Init ==
    /\ snapshots = {}
    /\ parquet = <<>>
    /\ load = NotLoading
    /\ returned = NONE

\* persist_snapshot: the file of the next snapshot is put, unless the
\* object store fails the put.
persist_snapshot ==
    /\ Cardinality(snapshots) < MaxSnapshots
    /\ \E put_ok \in BOOLEAN :
          snapshots' = IF put_ok THEN snapshots \cup {Cardinality(snapshots) + 1}
                       ELSE snapshots
    /\ UNCHANGED <<parquet, load, returned>>

Persisted(path, parquet_bytes, put_ok) ==
    /\ parquet' = IF IsOk(parquet_bytes) /\ put_ok
                  THEN With(parquet, path, parquet_bytes.val) ELSE parquet
    /\ returned' = CASE ~IsOk(parquet_bytes) -> parquet_bytes
                     [] ~put_ok -> Err("ObjectStore")
                     [] OTHER -> Ok([path |-> path, rows |-> parquet_bytes.val])

\* persist_parquet_file: the stream is serialized and the bytes are put at
\* the path; the put may fail.
persist_parquet_file(path, batches) ==
    /\ \E put_ok \in BOOLEAN : Persisted(path, serialize_to_parquet(batches), put_ok)
    /\ UNCHANGED <<snapshots, load>>

\* load_snapshots is called; the result of an earlier call is with its caller.
load_snapshots(n) ==
    /\ load.pc \in {"idle", "done"}
    /\ load' = [NotLoading EXCEPT !.pc = "listing", !.wanted = n, !.most_recent_n = n,
                                  !.at_start = snapshots]
    /\ UNCHANGED <<snapshots, parquet, returned>>

PageTakesAll(list) ==
    LET count == SetX!Min({load.most_recent_n, PAGE})
        end   == Len(list)
    IN  load' = [load EXCEPT
                    !.most_recent_n = @ - count,
                    !.futures = @ \o SubSeq(list, 1, end),
                    !.offset = IF end = 0 THEN @ ELSE list[end],
                    !.pc = IF end = 0 \/ load.most_recent_n - count = 0
                           THEN "collecting" ELSE "listing"]

PageKeepsOffset(list) ==
    LET count == SetX!Min({load.most_recent_n, PAGE})
        end   == SetX!Min({Len(list), count})
    IN  load' = [load EXCEPT
                    !.most_recent_n = @ - count,
                    !.futures = @ \o SubSeq(list, 1, end),
                    !.pc = IF end = 0 \/ load.most_recent_n - count = 0
                           THEN "collecting" ELSE "listing"]

\* One turn of the loop: the listing after the offset, the first `count` of
\* it fetched, the last of them the next offset.
Page(list) ==
    LET count == SetX!Min({load.most_recent_n, PAGE})
        end   == SetX!Min({Len(list), count})
    IN  load' = [load EXCEPT
                    !.most_recent_n = @ - count,
                    !.futures = @ \o SubSeq(list, 1, end),
                    !.offset = IF end = 0 THEN @ ELSE list[end],
                    !.pc = IF end = 0 \/ load.most_recent_n - count = 0
                           THEN "collecting" ELSE "listing"]

ListPage ==
    /\ load.pc = "listing"
    /\ IF load.most_recent_n = 0
       THEN load' = [load EXCEPT !.pc = "collecting"]
       ELSE Page(Listing(snapshots, load.offset))
    /\ UNCHANGED <<snapshots, parquet, returned>>

\* Every get has answered: the snapshots in the order they were asked for.
Collect ==
    /\ load.pc = "collecting"
    /\ load' = [load EXCEPT !.pc = "done", !.results = Ok(load.futures)]
    /\ UNCHANGED <<snapshots, parquet, returned>>

\* A listing or a get has failed: the error is the result.
LoadFails ==
    /\ load.pc \in {"listing", "collecting"}
    /\ load' = [load EXCEPT !.pc = "done", !.results = Err("ObjectStore")]
    /\ UNCHANGED <<snapshots, parquet, returned>>

Next ==
    \/ persist_snapshot
    \/ \E path \in ParquetPaths, batches \in Streams : persist_parquet_file(path, batches)
    \/ \E n \in Wanted : load_snapshots(n)
    \/ ListPage
    \/ Collect
    \/ LoadFails

Spec == Init /\ [][Next]_vars

-----------------------------------------------------------------------------
(* Properties *)

TypeOK ==
    /\ snapshots \subseteq 1..MaxSnapshots
    /\ DOMAIN parquet \subseteq ParquetPaths
    /\ load.pc \in {"idle", "listing", "collecting", "done"}
    /\ load.most_recent_n \in 0..load.wanted
    /\ load.offset \in snapshots \cup {NONE}
    /\ Len(load.futures) <= load.wanted - load.most_recent_n

\* load_snapshots returns the newest snapshots, newest first, none twice
\* and none left out: at least as many as were asked for or were there when
\* it was called, whatever the number asked for is to the page size and
\* whichever snapshots are persisted while it pages through the listing.
LoadReturnsNewest ==
    (load.pc = "done" /\ IsOk(load.results)) =>
        LET results == load.results.val
        IN  /\ \A i \in 2..Len(results) : results[i] < results[i - 1]
            /\ Len(results) >= SetX!Min({load.wanted, Cardinality(load.at_start)})
            /\ Len(results) <= load.wanted
            /\ \A s \in snapshots :
                  (results # <<>> /\ s <= results[1] /\ s >= results[Len(results)])
                      => s \in SeqX!ToSet(results)
            /\ (load.wanted > 0 /\ load.at_start # {}) =>
                  results # <<>> /\ results[1] >= SetX!Max(load.at_start)

\* No parquet file is without rows, and what persist_parquet_file returns
\* as written is in the store: a stream without rows is refused before
\* anything is put (serialize_to_parquet, NoRows).
WrittenFilesHaveRows ==
    /\ \A path \in DOMAIN parquet : parquet[path] > 0
    /\ (returned # NONE /\ IsOk(returned)) =>
          /\ returned.val.path \in DOMAIN parquet
          /\ parquet[returned.val.path] = returned.val.rows

=============================================================================
