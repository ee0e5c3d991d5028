------------------------------ MODULE Compactor ------------------------------
(***************************************************************************)
(* CompactionService of influxdb3_write/src/compaction.rs: the background  *)
(* task that, on every tick of its interval, looks for tables whose files  *)
(* of one generation can be rewritten into the next generation, runs a     *)
(* bounded number of such jobs at a time, and deletes the files a job has  *)
(* rewritten.                                                              *)
(*                                                                         *)
(* A row is a pair <<series, time>>: the value of the tag columns, which   *)
(* come first in a table's sort key, and the timestamp, which comes last.  *)
(* A blob in the object store is the set of rows it holds.  A path is a    *)
(* record of what the path's text says: the table, the text between the    *)
(* first "/gen" and the next "/", the minute of the chunk time and the     *)
(* file index.  Sizes and row counts only reach the log and are left out.  *)
(***************************************************************************)
EXTENDS Integers, Sequences, FiniteSets

SeqX == INSTANCE SequencesExt
SetX == INSTANCE FiniteSetsExt

CONSTANTS
    NONE,                       \* Option::None
    UNPARSABLE,                 \* text after "/gen" that is no u8
    TableOrder,                 \* the tables, in the order the catalog lists them
    EmptySortKey,               \* the tables whose sort key is empty
    GenNamed,                   \* the tables whose name begins with "gen"
    FileRows,                   \* the row sets the write path may put in one file
    WrittenGenerations,         \* the generation texts of the paths it writes
    Times,                      \* the readings of the time provider
    Minute,                     \* nanoseconds in a minute
    enabled,                    \* CompactionConfig
    min_files_for_compaction,
    max_files_per_run,
    generation_durations,
    MAX_CONCURRENT,             \* 4 in the code
    MaxFiles                    \* bound: files the write path persists

VARIABLES
    deleted,        \* the tables the catalog shows as deleted (or of a deleted database)
    parquet_files,  \* write_buffer.parquet_files: the files listed per table
    object_store,   \* the blobs: a function from paths to row sets
    written,        \* how many files the write path has persisted
    cycle,          \* run_compaction_cycle: where it is, the jobs left, the count
    set,            \* the JoinSet: the tasks spawned and not yet joined
    shutdown        \* the shutdown token

vars == <<deleted, parquet_files, object_store, written, cycle, set, shutdown>>

Tables == SeqX!ToSet(TableOrder)

Ok(v)   == [err |-> "Ok", val |-> v]
Err(e)  == [err |-> e, val |-> NONE]
IsOk(r) == r.err = "Ok"

-----------------------------------------------------------------------------
(* The time range and the path of a compacted file *)

TimeColumn(batch) == [i \in DOMAIN batch |-> batch[i][2]]

RangeWithoutCheck(time_array) ==
    IF time_array = <<>> THEN Ok(<<0, 0>>)
    ELSE Ok(<<time_array[1], time_array[Len(time_array)]>>)

\* The first and the last value of the time column; the check of the order
\* compares every value with the first one.
calculate_time_range_from_batch(time_array) ==
    CASE time_array = <<>> -> Ok(<<0, 0>>)
      [] \E i \in 2..Len(time_array) : time_array[i] < time_array[1] -> Err("NotSorted")
      [] OTHER -> Ok(<<time_array[1], time_array[Len(time_array)]>>)

\* Integer division of Rust: towards zero
TruncDiv(x, y) == IF x >= 0 THEN x \div y ELSE -((-x) \div y)

calculate_chunk_time_for_generation(time_array, target_duration, now) ==
    LET range == calculate_time_range_from_batch(time_array)
    IN  CASE ~IsOk(range)        -> now
          [] range.val[1] = 0    -> now
          [] target_duration > 0 -> TruncDiv(range.val[1], target_duration) * target_duration
          [] OTHER               -> range.val[1]

\* "dbs/{table}-{db}/{table}-{id}/gen{generation}/{date}/{hour-minute}/{index}.parquet":
\* the first "/gen" of the text is that of the table name if it has one.
generate_file_path(job, generation, chunk_time, file_index) ==
    [table      |-> job.table,
     generation |-> IF job.table \in GenNamed THEN UNPARSABLE ELSE generation,
     minute     |-> chunk_time \div Minute,
     index      |-> file_index]

CompactedFile(job, batch, file_index, now) ==
    LET time_array == TimeColumn(batch)
        chunk_time == calculate_chunk_time_for_generation(
                          time_array, generation_durations[job.target_generation], now)
    IN  [path       |-> generate_file_path(job, job.target_generation, chunk_time, file_index),
         chunk_time |-> chunk_time,
         min_time   |-> calculate_time_range_from_batch(time_array).val[1],
         max_time   |-> calculate_time_range_from_batch(time_array).val[2],
         bytes      |-> SeqX!ToSet(batch)]

\* One file per batch that has rows, numbered by the place of the batch in
\* the stream.  The parquet bytes are made and not put anywhere.
write_compacted_files(job, data, now) ==
    CASE \E i \in DOMAIN data :
            data[i] # <<>> /\ ~IsOk(calculate_time_range_from_batch(TimeColumn(data[i])))
           -> Err("NotSorted")
      [] job.target_generation \notin DOMAIN generation_durations -> Err("NoDuration")
      [] OTHER ->
           Ok(SelectSeq([i \in DOMAIN data |->
                            IF data[i] = <<>> THEN NONE
                            ELSE CompactedFile(job, data[i], i - 1, now)],
                        LAMBDA file : file # NONE))

validate_compacted_data(compacted_files) ==
    \A i \in 2..Len(compacted_files) :
        compacted_files[i].min_time >= compacted_files[i - 1].min_time

-----------------------------------------------------------------------------
(* The jobs of a cycle *)

get_file_generation(file) ==
    CASE file.path.generation = NONE       -> Ok(1)
      [] file.path.generation = UNPARSABLE -> Err("InvalidGeneration")
      [] file.path.generation \in 1..5     -> Ok(file.path.generation)
      [] OTHER                             -> Err("InvalidGeneration")

get_next_generation(current_gen) == IF current_gen < 5 THEN current_gen + 1 ELSE NONE

\* The span is not negative, because no file has its min_time after its
\* max_time: the cast to u64 changes nothing.
can_compact_to_generation(files, target_duration) ==
    /\ Cardinality(files) >= min_files_for_compaction
    /\ files # {}
    /\ SetX!Max({f.max_time : f \in files}) - SetX!Min({f.min_time : f \in files})
          >= target_duration

BucketIgnoresGeneration(files, generation) == files

\* files_by_generation
Bucket(files, generation) == {f \in files : get_file_generation(f) = Ok(generation)}

IsJob(files, current_gen) ==
    /\ Bucket(files, current_gen) # {}
    /\ Cardinality(Bucket(files, current_gen)) >= min_files_for_compaction
    /\ get_next_generation(current_gen) # NONE
    /\ current_gen + 1 \in DOMAIN generation_durations
    /\ can_compact_to_generation(Bucket(files, current_gen),
                                 generation_durations[current_gen + 1])

CompactionJob(table, current_gen, files) ==
    [table |-> table, source_generation |-> current_gen,
     target_generation |-> current_gen + 1, files |-> Bucket(files, current_gen)]

\* The tables the loop does not pass over
Considered(listed, gone) ==
    {t \in Tables \ gone : Cardinality(listed[t]) >= min_files_for_compaction}

\* Every table in the catalog's order, every generation of its files in
\* rising order; one file whose generation cannot be read ends the search
\* with the error.
identify_compaction_jobs(listed, gone) ==
    LET candidates == [k \in 1..(5 * Len(TableOrder)) |->
                          <<TableOrder[((k - 1) \div 5) + 1], ((k - 1) % 5) + 1>>]
        chosen == SelectSeq(candidates,
                            LAMBDA c : /\ c[1] \in Considered(listed, gone)
                                       /\ IsJob(listed[c[1]], c[2]))
    IN  IF \E t \in Considered(listed, gone) :
              \E f \in listed[t] : ~IsOk(get_file_generation(f))
        THEN Err("InvalidGeneration")
        ELSE Ok([k \in DOMAIN chosen |->
                    CompactionJob(chosen[k][1], chosen[k][2], listed[chosen[k][1]])])

-----------------------------------------------------------------------------
(* The execution of one job *)

KeyOf(job) == <<job.table, job.source_generation>>

\* ReorgPlanner::compact_plan: the rows of all the chunks, ordered by the
\* sort key, rows of the same series and time being one row
SortKeyOrder(r1, r2) == r1[1] < r2[1] \/ (r1[1] = r2[1] /\ r1[2] < r2[2])
compact_plan(rows)   == SeqX!SetToSortSeq(rows, SortKeyOrder)

InputRows(job, store) == UNION {store[f.path] : f \in job.files}

\* The stream the plan is collected into: two batches, either may be empty
Batches(sorted, cut) ==
    <<SubSeq(sorted, 1, SetX!Min({cut, Len(sorted)})),
      SubSeq(sorted, SetX!Min({cut, Len(sorted)}) + 1, Len(sorted))>>

\* execute_compaction_job up to the end of the plan: the batches collected,
\* or the error of a job without sort key or of an input that is not there
Collected(job, store, cut) ==
    CASE job.table \in EmptySortKey -> Err("EmptySortKey")
      [] \E f \in job.files : f.path \notin DOMAIN store -> Err("FailedToExecute")
      [] OTHER -> Ok(Batches(compact_plan(InputRows(job, store)), cut))

Validated(compacted_files) ==
    IF IsOk(compacted_files) /\ ~validate_compacted_data(compacted_files.val)
    THEN Err("NotSortedByTime")
    ELSE compacted_files

-----------------------------------------------------------------------------
(* The tasks *)

Idle    == [pc |-> "idle", queue |-> <<>>, max_concurrent |-> 0, completed_jobs |-> 0]
Stopped == [Idle EXCEPT !.pc = "stopped"]

Spawned(job) ==
    [job |-> job, pc |-> "spawned", data |-> <<>>, todo |-> {}, compacted_files |-> <<>>]

Finished(k) == set[k].pc \in {"ok", "failed"}

Without(f, k) == [i \in DOMAIN f \ {k} |-> f[i]]
With(f, k, v) == [i \in DOMAIN f \cup {k} |-> IF i = k THEN v ELSE f[i]]

\* What join_next hands to the loop: a job that returned Ok is counted
Joined(k) == [cycle EXCEPT !.completed_jobs = IF set[k].pc = "ok" THEN @ + 1 ELSE @]

Init ==
    /\ deleted = {}
    /\ parquet_files = [t \in Tables |-> {}]
    /\ object_store = <<>>
    /\ written = 0
    /\ cycle = IF enabled THEN Idle ELSE Stopped
    /\ set = <<>>
    /\ shutdown = FALSE

\* The write path persists a file of a table and lists it.
PersistParquetFile(t, rows, generation) ==
    LET times == {r[2] : r \in rows}
        path  == [table |-> t,
                  generation |-> IF t \in GenNamed THEN UNPARSABLE ELSE generation,
                  minute |-> SetX!Min(times) \div Minute, index |-> written]
        file  == [path |-> path, chunk_time |-> SetX!Min(times),
                  min_time |-> SetX!Min(times), max_time |-> SetX!Max(times)]
    IN  /\ written < MaxFiles
        /\ t \notin deleted
        /\ object_store' = With(object_store, path, rows)
        /\ parquet_files' = [parquet_files EXCEPT ![t] = @ \cup {file}]
        /\ written' = written + 1
        /\ UNCHANGED <<deleted, cycle, set, shutdown>>

\* The catalog soft deletes a table, or its database.
SoftDelete(t) ==
    /\ t \notin deleted
    /\ deleted' = deleted \cup {t}
    /\ UNCHANGED <<parquet_files, object_store, written, cycle, set, shutdown>>

RequestShutdown ==
    /\ ~shutdown
    /\ shutdown' = TRUE
    /\ UNCHANGED <<deleted, parquet_files, object_store, written, cycle, set>>

CycleBegins(jobs) ==
    cycle' = IF ~IsOk(jobs) \/ jobs.val = <<>> THEN cycle
             ELSE [pc |-> "running",
                   queue |-> SubSeq(jobs.val, 1, SetX!Min({Len(jobs.val), max_files_per_run})),
                   max_concurrent |-> SetX!Min({Len(jobs.val), MAX_CONCURRENT}),
                   completed_jobs |-> 0]

\* The interval ticks: run_compaction_cycle up to its loop.  A search that
\* fails, or finds nothing, ends the cycle.
run_compaction_cycle ==
    /\ cycle.pc = "idle"
    /\ CycleBegins(identify_compaction_jobs(parquet_files, deleted))
    /\ UNCHANGED <<deleted, parquet_files, object_store, written, set, shutdown>>

SpawnAlways ==
    /\ cycle.pc = "running"
    /\ cycle.queue # <<>>
    /\ set' = With(set, KeyOf(Head(cycle.queue)), Spawned(Head(cycle.queue)))
    /\ cycle' = [cycle EXCEPT !.queue = Tail(@)]
    /\ UNCHANGED <<deleted, parquet_files, object_store, written, shutdown>>

\* The loop spawns the next job while the set has room.
Spawn ==
    /\ cycle.pc = "running"
    /\ cycle.queue # <<>>
    /\ Cardinality(DOMAIN set) < cycle.max_concurrent
    /\ set' = With(set, KeyOf(Head(cycle.queue)), Spawned(Head(cycle.queue)))
    /\ cycle' = [cycle EXCEPT !.queue = Tail(@)]
    /\ UNCHANGED <<deleted, parquet_files, object_store, written, shutdown>>

\* The set is full: the loop waits for one job to end, then spawns the next.
JoinThenSpawn(k) ==
    /\ cycle.pc = "running"
    /\ cycle.queue # <<>>
    /\ Cardinality(DOMAIN set) >= cycle.max_concurrent
    /\ k \in DOMAIN set
    /\ Finished(k)
    /\ set' = With(Without(set, k), KeyOf(Head(cycle.queue)), Spawned(Head(cycle.queue)))
    /\ cycle' = [Joined(k) EXCEPT !.queue = Tail(@)]
    /\ UNCHANGED <<deleted, parquet_files, object_store, written, shutdown>>

JoinNextOkOnly(k) ==
    /\ cycle.pc = "running"
    /\ cycle.queue = <<>>
    /\ k \in DOMAIN set
    /\ set[k].pc = "ok"
    /\ set' = Without(set, k)
    /\ cycle' = Joined(k)
    /\ UNCHANGED <<deleted, parquet_files, object_store, written, shutdown>>

\* Every job is spawned: the cycle waits for the ones that remain.
JoinNext(k) ==
    /\ cycle.pc = "running"
    /\ cycle.queue = <<>>
    /\ k \in DOMAIN set
    /\ Finished(k)
    /\ set' = Without(set, k)
    /\ cycle' = Joined(k)
    /\ UNCHANGED <<deleted, parquet_files, object_store, written, shutdown>>

CycleCompletes ==
    /\ cycle.pc = "running"
    /\ cycle.queue = <<>>
    /\ set = <<>>
    /\ cycle' = Idle
    /\ UNCHANGED <<deleted, parquet_files, object_store, written, set, shutdown>>

Executed(k, data) ==
    set' = [set EXCEPT ![k] = IF IsOk(data)
                              THEN [@ EXCEPT !.pc = "collected", !.data = data.val]
                              ELSE [@ EXCEPT !.pc = "failed"]]

\* A spawned job checks its sort key, reads its inputs and collects the
\* plan that orders their rows.
execute_compaction_job(k) ==
    /\ k \in DOMAIN set
    /\ set[k].pc = "spawned"
    /\ \E cut \in 0..Cardinality(UNION FileRows) :
          Executed(k, Collected(set[k].job, object_store, cut))
    /\ UNCHANGED <<deleted, parquet_files, object_store, written, cycle, shutdown>>

Written(k, compacted_files) ==
    set' = [set EXCEPT ![k] =
              IF IsOk(compacted_files)
              THEN [@ EXCEPT !.pc = "deleting", !.data = <<>>, !.todo = set[k].job.files,
                             !.compacted_files = compacted_files.val]
              ELSE [@ EXCEPT !.pc = "failed", !.data = <<>>]]

\* The job makes the compacted files of what it collected and validates
\* them; update_catalog_for_compaction then has the inputs to delete.
write_and_validate(k) ==
    /\ k \in DOMAIN set
    /\ set[k].pc = "collected"
    /\ \E now \in Times :
          Written(k, Validated(write_compacted_files(set[k].job, set[k].data, now)))
    /\ UNCHANGED <<deleted, parquet_files, object_store, written, cycle, shutdown>>

Deleted(k, file) ==
    set' = [set EXCEPT ![k].todo = @ \ {file},
                       ![k].pc = IF set[k].todo = {file} THEN "ok" ELSE @]

\* update_catalog_for_compaction deletes one input from the object store.
DeleteOldFile(k, file) ==
    /\ k \in DOMAIN set
    /\ set[k].pc = "deleting"
    /\ file \in set[k].todo
    /\ object_store' = Without(object_store, file.path)
    /\ Deleted(k, file)
    /\ UNCHANGED <<deleted, parquet_files, written, cycle, shutdown>>

\* The delete fails: a warning, and the loop goes on.
DeleteOldFileFails(k, file) ==
    /\ k \in DOMAIN set
    /\ set[k].pc = "deleting"
    /\ file \in set[k].todo
    /\ Deleted(k, file)
    /\ UNCHANGED <<deleted, parquet_files, object_store, written, cycle, shutdown>>

StopAnyTime ==
    /\ shutdown
    /\ cycle.pc # "stopped"
    /\ cycle' = Stopped
    /\ UNCHANGED <<deleted, parquet_files, object_store, written, set, shutdown>>

\* The select! of the service takes the shutdown branch.
Stop ==
    /\ shutdown
    /\ cycle.pc = "idle"
    /\ cycle' = Stopped
    /\ UNCHANGED <<deleted, parquet_files, object_store, written, set, shutdown>>

JobKeys == Tables \X (1..4)
Files   == UNION {parquet_files[t] : t \in Tables}

JobStep(k) ==
    \/ execute_compaction_job(k)
    \/ write_and_validate(k)
    \/ \E file \in Files : DeleteOldFile(k, file)
    \/ \E file \in Files : DeleteOldFileFails(k, file)

CycleStep ==
    \/ Spawn
    \/ CycleCompletes
    \/ \E k \in JobKeys : JoinThenSpawn(k) \/ JoinNext(k)

Next ==
    \/ \E t \in Tables, rows \in FileRows, generation \in WrittenGenerations :
          PersistParquetFile(t, rows, generation)
    \/ \E t \in Tables : SoftDelete(t)
    \/ RequestShutdown
    \/ run_compaction_cycle
    \/ CycleStep
    \/ \E k \in JobKeys : JobStep(k)
    \/ Stop

Spec == Init /\ [][Next]_vars

\* The runtime goes on polling the tasks that can go on: a job has only so
\* many steps, so none is left behind.  select! takes a branch that is
\* ready again and again.  The interval, the write path, the catalog and
\* the shutdown signal owe nothing.
FairSpec ==
    /\ Spec
    /\ WF_vars(CycleStep \/ \E k \in JobKeys : JobStep(k))
    /\ SF_vars(Stop)

-----------------------------------------------------------------------------
(* Properties *)

TypeOK ==
    /\ deleted \subseteq Tables
    /\ DOMAIN parquet_files = Tables
    /\ \A f \in Files : f.min_time <= f.max_time
    /\ written \in 0..MaxFiles
    /\ cycle.pc \in {"idle", "running", "stopped"}
    /\ cycle.completed_jobs \in 0..Cardinality(JobKeys)
    /\ shutdown \in BOOLEAN
    /\ DOMAIN set \subseteq JobKeys
    /\ \A k \in DOMAIN set :
          /\ set[k].pc \in {"spawned", "collected", "deleting", "ok", "failed"}
          /\ set[k].todo \subseteq set[k].job.files
          /\ \A i \in DOMAIN set[k].compacted_files :
                set[k].compacted_files[i].min_time <= set[k].compacted_files[i].max_time

JobsOfCycle == {set[k].job : k \in DOMAIN set} \cup SeqX!ToSet(cycle.queue)

\* No file is the input of two jobs of a cycle: the jobs that
\* run_compaction_cycle runs side by side, each deleting its inputs, come
\* from one identify_compaction_jobs that puts a file in one bucket only.
InputsNotShared ==
    \A j1, j2 \in JobsOfCycle : j1 # j2 => j1.files \cap j2.files = {}

\* No more than MAX_CONCURRENT jobs are in the JoinSet, however many jobs
\* the cycle has: the loop of run_compaction_cycle joins before it spawns.
ConcurrencyBounded == Cardinality(DOMAIN set) <= MAX_CONCURRENT

\* A cycle that has begun ends, whatever its jobs do: failed jobs are
\* joined like the others.
CycleEnds == (cycle.pc = "running") ~> (cycle.pc # "running")

\* After the shutdown signal the service stops, and not in the middle of a
\* cycle: the select! of start sees the token between two cycles.
ShutdownStops == shutdown ~> (cycle.pc = "stopped" /\ set = <<>>)

\* Every file the index lists can be read: compaction takes a file from
\* the object store only once the index no longer lists it
\* (update_catalog_for_compaction: "add new compacted files and remove old
\* files").
ListedFilesExist == \A f \in Files : f.path \in DOMAIN object_store

\* The time range of a compacted file covers the time of every row in it
\* (write_compacted_files with calculate_time_range_from_batch).
RangeCoversRows ==
    \A k \in DOMAIN set : \A i \in DOMAIN set[k].compacted_files :
        \A r \in set[k].compacted_files[i].bytes :
            /\ set[k].compacted_files[i].min_time <= r[2]
            /\ r[2] <= set[k].compacted_files[i].max_time

=============================================================================
