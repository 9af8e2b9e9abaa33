---------------------------- MODULE FileWatcher ----------------------------
(***************************************************************************)
(* How storage finds the files of one dataset and enters them in its       *)
(* database (modyn/storage/src/internal/file_watcher): the watchdog starts *)
(* one watcher per dataset; every round it lists the directory, deals the  *)
(* paths to insertion threads, waits for them, and moves the dataset's     *)
(* last_timestamp to the newest file in the database.                      *)
(*                                                                         *)
(* A file has an immutable modification time and number of samples; its    *)
(* samples are their indexes.  Deletion of data is left out.               *)
(***************************************************************************)
EXTENDS Integers, SequencesExt

CONSTANTS
  Files,                       \* paths that may appear in the directory
  NumSamples,                  \* number of samples of each file
  ThreadCounts,                \* values of storage.insertion_threads; 0 acts like 1
  sample_dbinsertion_batchsize,
  MaxClock,                    \* bound: the clock
  MaxDisturbances              \* bound: exceptions, crashes and shutdowns

ASSUME WatcherAssumption ==
  /\ IsFiniteSet(Files)
  /\ NumSamples \in [Files -> Nat]
  /\ ThreadCounts \subseteq Nat \ {0}
  /\ sample_dbinsertion_batchsize \in Nat \ {0}
  /\ MaxClock \in Nat \ {0} /\ MaxDisturbances \in Nat

VARIABLES
  insertion_threads, ignore_last_timestamp,   \* configuration
  clock, mtime,                \* file system: modification times, 0: no such file
  files,                       \* table files: rows [path, updated_at], by file_id
  samples,                     \* table samples: rows <<file_id, sample_index>>
  last_timestamp,              \* datasets.last_timestamp
  pc,                          \* where the watcher is; "down": storage is not running
  stop_file_watcher,
  timestamp,                   \* last_timestamp as the current round read it
  present, listed,             \* files at the start of the listing; what it returned
  index,                       \* join loop: the thread it is at
  state, paths, file_samples, labels,         \* insertion threads
  exception_thrown,
  disturbances,                \* exceptions, crashes and shutdowns so far
  in_time                      \* history: files that appeared in time, not while listing

configVars == <<insertion_threads, ignore_last_timestamp>>
fsVars == <<clock, mtime, in_time>>
threadVars == <<state, paths, file_samples, labels, exception_thrown>>
dbVars == <<files, samples, last_timestamp>>
roundVars == <<timestamp, present, listed, index>>
vars == <<configVars, fsVars, dbVars, pc, stop_file_watcher, roundVars, threadVars,
          disturbances>>

Threads == 1 .. insertion_threads
Exists == {f \in Files : mtime[f] # 0}
Known == {files[id].path : id \in DOMAIN files}
-----------------------------------------------------------------------------
(* The file system.  A file may arrive with an older modification time     *)
(* (moved or copied there).                                                *)
Tick ==
  /\ clock < MaxClock
  /\ clock' = clock + 1
  /\ UNCHANGED <<configVars, mtime, in_time, dbVars, pc, stop_file_watcher, roundVars,
                 threadVars, disturbances>>

CreateFile(f, m) ==
  /\ f \notin Exists /\ m <= clock
  /\ mtime' = [mtime EXCEPT ![f] = m]
  /\ in_time' = IF m = clock /\ pc # "listing" THEN in_time \cup {f} ELSE in_time
  /\ UNCHANGED <<configVars, clock, dbVars, pc, stop_file_watcher, roundVars, threadVars,
                 disturbances>>
-----------------------------------------------------------------------------
(* FileWatcherWatchdog.watch_file_watcher_threads: a dataset without a     *)
(* thread gets one.  A thread that ended stays joinable, so the watchdog   *)
(* takes it for running and leaves it alone.                               *)
StartFileWatcherThread ==
  /\ pc = "none"
  /\ pc' = "seek" /\ stop_file_watcher' = FALSE
  /\ UNCHANGED <<configVars, fsVars, dbVars, roundVars, threadVars, disturbances>>

(* FileWatcherWatchdog.run when storage shuts down.                        *)
RequestStop ==
  /\ pc \notin {"none", "down", "exited"} /\ disturbances < MaxDisturbances
  /\ disturbances' = disturbances + 1
  /\ stop_file_watcher' = TRUE
  /\ UNCHANGED <<configVars, fsVars, dbVars, pc, roundVars, threadVars>>

(* The storage process ends; what its threads had not written is lost.     *)
Die ==
  /\ pc' = "down"
  /\ state' = [t \in Threads |-> "idle"]
  /\ paths' = [t \in Threads |-> {}]
  /\ file_samples' = [t \in Threads |-> <<>>]
  /\ labels' = [t \in Threads |-> <<>>]
  /\ exception_thrown' = [t \in Threads |-> FALSE]
  /\ stop_file_watcher' = FALSE
  /\ timestamp' = 0 /\ present' = {} /\ listed' = <<>> /\ index' = 1

Crash ==
  /\ pc \notin {"none", "down"} /\ disturbances < MaxDisturbances
  /\ disturbances' = disturbances + 1
  /\ Die
  /\ UNCHANGED <<configVars, fsVars, dbVars>>

Restart ==
  /\ pc = "down"
  /\ pc' = "none"
  /\ UNCHANGED <<configVars, fsVars, dbVars, stop_file_watcher, roundVars, threadVars, disturbances>>
-----------------------------------------------------------------------------
(* seek_dataset and the listing.  The directory is not read at once: what  *)
(* appears meanwhile is found or not, whichever came first.                *)
SeekDataset ==
  /\ pc = "seek"
  /\ timestamp' = last_timestamp
  /\ present' = Exists
  /\ pc' = "listing"
  /\ UNCHANGED <<configVars, fsVars, dbVars, stop_file_watcher, listed, index, threadVars,
                 disturbances>>

(* Each thread is given an equal share of the paths, the last the rest.    *)
(* The listing is in any order, so a share is kept as a set.               *)
ChunkSize == Len(listed') \div insertion_threads
ChunkOf(t) ==
  {listed'[i] : i \in (t - 1) * ChunkSize + 1 ..
                        IF t < insertion_threads THEN t * ChunkSize ELSE Len(listed')}

SearchForNewFiles ==
  /\ pc = "listing"
  /\ \E S \in SUBSET (Exists \ present) : listed' \in SetToSeqs(present \cup S)
  /\ present' = {}
  /\ IF listed' = <<>>
       THEN /\ pc' = "update"
            /\ UNCHANGED <<index, threadVars>>
       ELSE /\ pc' = "join" /\ index' = 1
            /\ exception_thrown' = [t \in Threads |-> FALSE]
            /\ paths' = [t \in Threads |-> ChunkOf(t)]
            /\ state' = [t \in Threads |-> IF ChunkOf(t) = {} THEN "done" ELSE "filter"]
            /\ UNCHANGED <<file_samples, labels>>
  /\ UNCHANGED <<configVars, fsVars, dbVars, stop_file_watcher, timestamp,
                 disturbances>>
-----------------------------------------------------------------------------
(* handle_file_paths: the paths not in the database, modified since.       *)
ModifiedSinceStrictly(f) == mtime[f] > timestamp \/ timestamp = 0  \* mutant: > for >=
ModifiedSince(f) == mtime[f] >= timestamp \/ timestamp = 0
Wanted(f) == f \notin Known /\ (ignore_last_timestamp \/ ModifiedSince(f))

FilterPaths(t) ==
  /\ state[t] = "filter"
  /\ paths' = [paths EXCEPT ![t] = {f \in @ : Wanted(f)}]
  /\ state' = [state EXCEPT ![t] = IF paths'[t] = {} THEN "done" ELSE "insert"]
  /\ UNCHANGED <<configVars, fsVars, dbVars, pc, stop_file_watcher, roundVars, file_samples,
                 labels, exception_thrown, disturbances>>

(* handle_files_for_insertion: first the row of the file ...               *)
Labels(id, f) == [i \in 1 .. NumSamples[f] |-> <<id, i - 1>>]

InsertFile(t) ==
  /\ state[t] = "insert" /\ labels[t] = <<>>
  /\ \E f \in paths[t] :
       /\ files' = Append(files, [path |-> f, updated_at |-> mtime[f]])
       /\ labels' = [labels EXCEPT ![t] = Labels(Len(files) + 1, f)]
       /\ paths' = [paths EXCEPT ![t] = @ \ {f}]
  /\ UNCHANGED <<configVars, fsVars, samples, last_timestamp, pc, stop_file_watcher, roundVars, state,
                 file_samples, exception_thrown, disturbances>>

(* ... then its samples, into a buffer written to the database when full.  *)
InsertFileSamples(t) == samples' = samples \o file_samples[t]

BufferFull(t) == Len(file_samples[t]) = sample_dbinsertion_batchsize
EmptiedNotCleared(t) == file_samples[t]     \* mutant: file_samples.clear() is missing
Emptied(t) == <<>>

PushSample(t) ==
  /\ state[t] = "insert" /\ labels[t] # <<>>
  /\ IF BufferFull(t)
       THEN /\ InsertFileSamples(t)
            /\ file_samples' = [file_samples EXCEPT ![t] = Append(Emptied(t), Head(labels[t]))]
       ELSE /\ file_samples' = [file_samples EXCEPT ![t] = Append(@, Head(labels[t]))]
            /\ UNCHANGED samples
  /\ labels' = [labels EXCEPT ![t] = Tail(@)]
  /\ UNCHANGED <<configVars, fsVars, files, last_timestamp, pc, stop_file_watcher, roundVars,
                 state, paths, exception_thrown, disturbances>>

InsertRest(t) ==
  /\ state[t] = "insert" /\ labels[t] = <<>> /\ paths[t] = {}
  /\ InsertFileSamples(t)
  /\ file_samples' = [file_samples EXCEPT ![t] = <<>>]
  /\ state' = [state EXCEPT ![t] = "done"]
  /\ UNCHANGED <<configVars, fsVars, files, last_timestamp, pc, stop_file_watcher, roundVars,
                 paths, labels, exception_thrown, disturbances>>

(* The database or a file wrapper throws: the rest of the share is left.   *)
ThreadThrows(t) ==
  /\ state[t] \in {"filter", "insert"} /\ disturbances < MaxDisturbances
  /\ disturbances' = disturbances + 1
  /\ exception_thrown' = [exception_thrown EXCEPT ![t] = TRUE]
  /\ state' = [state EXCEPT ![t] = "done"]
  /\ paths' = [paths EXCEPT ![t] = {}]
  /\ labels' = [labels EXCEPT ![t] = <<>>]
  /\ file_samples' = [file_samples EXCEPT ![t] = <<>>]
  /\ UNCHANGED <<configVars, fsVars, dbVars, pc, stop_file_watcher, roundVars>>
-----------------------------------------------------------------------------
(* The end of search_for_new_files_in_directory.  With a single thread the *)
(* work is done in place and an exception stops the watcher.               *)
InlineDone ==
  /\ pc = "join" /\ insertion_threads = 1 /\ state[1] = "done"
  /\ stop_file_watcher' = (stop_file_watcher \/ exception_thrown[1])
  /\ pc' = "update"
  /\ UNCHANGED <<configVars, fsVars, dbVars, roundVars, threadVars, disturbances>>

(* Otherwise the flag of each thread is looked at before it is joined.     *)
CheckThread ==
  /\ pc = "join" /\ insertion_threads > 1 /\ index <= insertion_threads
  /\ ~exception_thrown[index]
  /\ pc' = "joining"
  /\ UNCHANGED <<configVars, fsVars, dbVars, stop_file_watcher, roundVars, threadVars,
                 disturbances>>

JoinThread ==
  /\ pc = "joining" /\ state[index] = "done"
  /\ index' = index + 1
  /\ pc' = IF index = insertion_threads THEN "update" ELSE "join"
  /\ UNCHANGED <<configVars, fsVars, dbVars, stop_file_watcher, timestamp, present, listed,
                 threadVars, disturbances>>

(* A flag that is set ends the loop, and insertion_thread_pool_.clear()    *)
(* destroys threads that were not joined: std::terminate.                  *)
TerminateOnException ==
  /\ pc = "join" /\ insertion_threads > 1 /\ index <= insertion_threads
  /\ exception_thrown[index]
  /\ Die
  /\ UNCHANGED <<configVars, fsVars, dbVars, disturbances>>

(* The rest of seek and of the loop in run.                                *)
NewestFile ==
  IF files = <<>> THEN last_timestamp ELSE Max({files[id].updated_at : id \in DOMAIN files})

UpdateLastTimestamp ==
  /\ pc = "update"
  /\ last_timestamp' = NewestFile
  /\ timestamp' = 0 /\ listed' = <<>> /\ index' = 1
  /\ pc' = IF stop_file_watcher THEN "exited" ELSE "sleep"
  /\ UNCHANGED <<configVars, fsVars, files, samples, stop_file_watcher, present, threadVars,
                 disturbances>>

Sleep ==
  /\ pc = "sleep"
  /\ pc' = IF stop_file_watcher THEN "exited" ELSE "seek"
  /\ UNCHANGED <<configVars, fsVars, dbVars, stop_file_watcher, roundVars, threadVars,
                 disturbances>>

(* The database or the listing throws in the watcher's own thread.         *)
SeekThrows ==
  /\ pc \in {"seek", "listing", "update"} /\ disturbances < MaxDisturbances
  /\ disturbances' = disturbances + 1
  /\ stop_file_watcher' = TRUE
  /\ pc' = "exited"
  /\ UNCHANGED <<configVars, fsVars, dbVars, roundVars, threadVars>>
-----------------------------------------------------------------------------
Init ==
  /\ insertion_threads \in ThreadCounts /\ ignore_last_timestamp \in BOOLEAN
  /\ clock = 1 /\ mtime = [f \in Files |-> 0] /\ in_time = {}
  /\ files = <<>> /\ samples = <<>> /\ last_timestamp = 0
  /\ pc = "none" /\ stop_file_watcher = FALSE
  /\ timestamp = 0 /\ present = {} /\ listed = <<>> /\ index = 1
  /\ state = [t \in Threads |-> "idle"] /\ paths = [t \in Threads |-> {}]
  /\ file_samples = [t \in Threads |-> <<>>] /\ labels = [t \in Threads |-> <<>>]
  /\ exception_thrown = [t \in Threads |-> FALSE]
  /\ disturbances = 0

Environment ==
  \/ Tick \/ \E f \in Files, m \in 1 .. MaxClock : CreateFile(f, m)
  \/ RequestStop \/ Crash \/ Restart
  \/ SeekThrows \/ \E t \in Threads : ThreadThrows(t)

Watcher ==
  \/ StartFileWatcherThread \/ SeekDataset \/ SearchForNewFiles
  \/ InlineDone \/ CheckThread \/ JoinThread \/ TerminateOnException
  \/ UpdateLastTimestamp \/ Sleep

InsertionThread(t) ==
  t \in Threads /\ (FilterPaths(t) \/ InsertFile(t) \/ PushSample(t) \/ InsertRest(t))

Next == Environment \/ Watcher \/ \E t \in Threads : InsertionThread(t)

(* Threads keep running; a listing ends.                                   *)
Spec ==
  /\ Init /\ [][Next]_vars
  /\ WF_vars(Watcher)
  /\ \A t \in 1 .. Max(ThreadCounts) : WF_vars(InsertionThread(t))
-----------------------------------------------------------------------------
(* The rows of table samples; those of a file are its indexes.             *)
Rows == (DOMAIN files) \X Nat
SamplesOf(id) == {<<id, i - 1>> : i \in 1 .. NumSamples[files[id].path]}

TypeOK ==
  /\ insertion_threads \in ThreadCounts /\ ignore_last_timestamp \in BOOLEAN
  /\ clock \in 1 .. MaxClock /\ mtime \in [Files -> 0 .. MaxClock] /\ in_time \subseteq Exists
  /\ files \in Seq([path : Files, updated_at : 1 .. MaxClock]) /\ samples \in Seq(Rows)
  /\ last_timestamp \in 0 .. MaxClock
  /\ pc \in {"none", "down", "seek", "listing", "join", "joining", "update", "sleep", "exited"}
  /\ stop_file_watcher \in BOOLEAN
  /\ timestamp \in 0 .. MaxClock /\ present \subseteq Exists /\ listed \in Seq(Exists)
  /\ index \in 1 .. insertion_threads + 1
  /\ state \in [Threads -> {"idle", "filter", "insert", "done"}]
  /\ paths \in [Threads -> SUBSET Exists]
  /\ file_samples \in [Threads -> Seq(Rows)] /\ labels \in [Threads -> Seq(Rows)]
  /\ \A t \in Threads : Len(file_samples[t]) <= sample_dbinsertion_batchsize
  /\ exception_thrown \in [Threads -> BOOLEAN]
  /\ disturbances \in 0 .. MaxDisturbances

(* However the paths were dealt to the threads, and over every exception,  *)
(* crash and restart: the database holds one row per file, and of each     *)
(* file a first part of its samples, in order and each once.               *)
InOrderOnce(rows) ==
  /\ \A p, q \in DOMAIN rows : rows[p] = rows[q] => p = q
  /\ \A p \in DOMAIN rows : \A i \in 0 .. rows[p][2] - 1 :
       \E q \in DOMAIN rows : q < p /\ rows[q] = <<rows[p][1], i>>

EachFileOnce ==
  /\ \A i, j \in DOMAIN files : files[i].path = files[j].path => i = j
  /\ \A p \in DOMAIN samples : samples[p] \in SamplesOf(samples[p][1])
  /\ InOrderOnce(samples)

(* A file that arrives with the current time, while no listing is under    *)
(* way, is in the database with all its samples in the end unless          *)
(* something fails or stops; if the dataset ignores last_timestamp, so is  *)
(* every file.                                                             *)
Undisturbed == disturbances = 0
Complete(f) ==
  \E id \in DOMAIN files : files[id].path = f /\ SamplesOf(id) \subseteq ToSet(samples)
FilesFound ==
  \A f \in Files :
    (f \in in_time \/ (ignore_last_timestamp /\ f \in Exists))
      ~> (Complete(f) \/ ~Undisturbed)
=============================================================================
