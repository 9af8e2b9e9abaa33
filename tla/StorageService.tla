--------------------------- MODULE StorageService ---------------------------
(***************************************************************************)
(* The storage server (modyn/storage): datasets, files and samples in its  *)
(* database, the files themselves on disk, and the requests that read and  *)
(* delete them while a file watcher enters new files.  Every statement on  *)
(* the database commits on its own, and nothing keeps requests apart.      *)
(*                                                                         *)
(* Modelled: Get by several retrieval threads, GetNewDataSince and         *)
(* GetDataInInterval, GetDataPerWorker, GetDatasetSize, RegisterNewDataset,*)
(* DeleteData, DeleteDataset, the watchdog and, path by path, the watcher  *)
(* (FileWatcher has its rounds and threads), and the end of the process.   *)
(* One client retrieves, one polls and one deletes at a time; one dataset  *)
(* is registered at a time.                                                *)
(***************************************************************************)
EXTENDS FileWrappers, FiniteSets

CONSTANTS
  Paths,               \* numbers; a path's number is also its modification time
  Rows,                \* what was written to each path: a sequence of [label, data]
  retrieval_threads,
  sample_batch_size,
  UnorderedQueries,    \* do queries without ORDER BY return rows in any order?
  UnorderedRequests,   \* may a request name its keys in any order?
  Requests,            \* numbers of keys a Get may ask for
  MaxDatasets,         \* bound: registrations
  MaxFiles,            \* bound: rows ever entered in table files
  MaxRequests,         \* bound: requests ever begun
  MaxCrashes           \* bound: ends of the process

ASSUME StorageAssumption ==
  /\ Paths \subseteq Nat /\ Rows \in [Paths -> Seq([label : Nat, data : Seq(Nat)])]
  /\ retrieval_threads \in Nat \ {0} /\ sample_batch_size \in Nat \ {0}
  /\ UnorderedQueries \in BOOLEAN /\ UnorderedRequests \in BOOLEAN

VARIABLES
  disk,                \* path -> content, of the paths that exist
  dataset,             \* table datasets: the id of the registered one, or 0
  tables,              \* the partition of table samples for it: see AddDataset
  files,               \* table files: id -> [ds, path, number_of_samples, updated_at]
  samples,             \* table samples: id -> [ds, file, index, label]
  next,                \* the next id of a dataset, a file and a sample
  watcher,             \* the watcher thread
  get,                 \* the request Get and its retrieval threads
  poll,                \* the request GetNewDataSince or GetDataInInterval
  del,                 \* the request DeleteData or DeleteDataset
  requests,            \* how many were begun
  crashes,
  origin,              \* history: which path and row a sample id stands for
  unfinished,          \* history: files whose samples were lost
  doomed,              \* history: datasets whose deletion was begun
  ghosts               \* history: files entered again while DeleteData removed them

dbVars == <<dataset, files, samples, next, origin>>
marks == <<tables, unfinished, doomed, ghosts>>
counts == <<requests, crashes>>
ssVars == <<disk, dbVars, watcher, get, poll, del, counts, marks>>

Threads == 1 .. retrieval_threads
SamplesOf(f) == {s \in DOMAIN samples : samples[s].file = f}
SamplesIn(ds) == {s \in DOMAIN samples : samples[s].ds = ds}
FilesIn(ds) == {f \in DOMAIN files : files[f].ds = ds}
SumCounts(F) == SumFunctionOnSet([f \in F |-> files[f].number_of_samples], F)

(* The numbers of a set in ascending order.                                *)
Sorted(S) ==
  [i \in 1 .. Cardinality(S) |-> CHOOSE x \in S : Cardinality({y \in S : y <= x}) = i]
Orders(S) ==
  {o \in SetToSeqs(S) : UnorderedQueries \/ \A i, j \in DOMAIN o : i < j => o[i] < o[j]}
Without(fun, S) == [x \in DOMAIN fun \ S |-> fun[x]]
With(table, rows) ==
  [x \in DOMAIN table \cup DOMAIN rows |-> IF x \in DOMAIN table THEN table[x] ELSE rows[x]]

(* get_dataset_data: without its row the requests find no dataset.         *)
DatasetExists == dataset # 0

(* set_file_path: the file has to be there, and to fit the format.         *)
CannotOpen(p) == p \notin DOMAIN disk \/ ~Opens(disk[p])

RemoveFromDisk(p) == disk' = Without(disk, {p})

(* What a wrapper reads of a file that it opened as doc: a csv file is     *)
(* read at once, of a binary one or a single sample only the size.         *)
ReadLater(p, doc) ==
  IF FileWrapperType # "csv" /\ p \in DOMAIN disk THEN disk[p] ELSE Vanished(doc)

NoWatcher == [pc |-> "none", ds |-> 0, path |-> 0, file |-> 0, doc |-> <<>>]
IdleThread == [pc |-> "idle", keys |-> <<>>, rows |-> <<>>, at |-> 1, doc |-> <<>>]
NoGet == [pc |-> "idle", ds |-> 0, keys |-> {}, failed |-> FALSE, answers |-> <<>>,
          threads |-> [t \in Threads |-> IdleThread]]
NoPoll == [pc |-> "idle", ids |-> {}, responses |-> <<>>]
NoDel == [pc |-> "idle", ds |-> 0, keys |-> {}, ids |-> <<>>, paths |-> <<>>,
          count |-> 0]
-----------------------------------------------------------------------------
(* RegisterNewDataset, by StorageDatabaseConnection.add_dataset: the row   *)
(* of the dataset, and then its partition of table samples.  A process     *)
(* that ends between the two leaves a dataset that exists already when it  *)
(* is registered again, without a partition for good.                      *)
AddDataset ==
  /\ dataset' = next.ds /\ tables' = "creating"
  /\ next' = [next EXCEPT !.ds = @ + 1]
RegisterNewDataset ==
  /\ dataset = 0 /\ next.ds <= MaxDatasets /\ tables # "creating"
  /\ AddDataset
  /\ UNCHANGED <<disk, files, samples, watcher, get, poll, del, counts, origin, unfinished,
                 doomed, ghosts>>

AddSampleDatasetPartition ==
  /\ tables = "creating"
  /\ tables' = IF dataset = 0 THEN "none" ELSE "there"
  /\ UNCHANGED <<disk, dbVars, watcher, get, poll, del, counts, unfinished, doomed, ghosts>>

(* FileWatcherWatchdog.watch_file_watcher_threads: start a watcher for a   *)
(* dataset without one, stop (and join) that of a dataset that is gone.  A *)
(* thread that returned is still joinable, and so is not started again.    *)
StartWatcher ==
  /\ dataset # 0 /\ watcher.pc = "none"
  /\ watcher' = [NoWatcher EXCEPT !.pc = "idle", !.ds = dataset]
  /\ UNCHANGED <<disk, dbVars, get, poll, del, counts, marks>>

StopWatcher ==
  /\ watcher.ds # dataset /\ watcher.pc \in {"idle", "exited"}
  /\ watcher' = NoWatcher
  /\ UNCHANGED <<disk, dbVars, get, poll, del, counts, marks>>

(* A path that the listing found and no row of the dataset names.          *)
FindFile(p) ==
  /\ watcher.pc = "idle"
  /\ p \in DOMAIN disk
  /\ \A f \in FilesIn(watcher.ds) : files[f].path # p
  /\ watcher' = [watcher EXCEPT !.pc = "found", !.path = p]
  /\ UNCHANGED <<disk, dbVars, get, poll, del, counts, marks>>

InsertFile ==
  /\ watcher.pc = "found"
  /\ IF CannotOpen(watcher.path)
     THEN /\ watcher' = [watcher EXCEPT !.pc = "exited"]     \* set_file_path throws
          /\ UNCHANGED <<files, next, ghosts>>
     ELSE /\ next.file <= MaxFiles
          /\ files' = With(files, [f \in {next.file} |->
               [ds |-> watcher.ds, path |-> watcher.path, updated_at |-> watcher.path,
                number_of_samples |-> GetNumberOfSamples(disk[watcher.path])]])
          /\ next' = [next EXCEPT !.file = @ + 1]
          /\ watcher' = [watcher EXCEPT !.pc = "filed", !.file = next.file,
                                            !.doc = disk[watcher.path]]
          /\ ghosts' = IF del.pc = "unlink" /\ Head(del.paths) = watcher.path
                       THEN ghosts \cup {next.file} ELSE ghosts
  /\ UNCHANGED <<disk, dataset, samples, origin, get, poll, del, counts, tables, unfinished, doomed>>

(* The labels are read when the row of the file is already there, as many  *)
(* as the file had rows when it was opened; ReadLater has what is read of  *)
(* a file that vanished meanwhile.  An error of the COPY into the database *)
(* is not looked at: without the partition, there are no samples, and the  *)
(* watcher goes on.                                                        *)
InsertSamples ==
  /\ watcher.pc = "filed"
  /\ LET p == watcher.path
         labels == IF tables = "there"
                   THEN GetAllLabels(ReadLater(p, watcher.doc), GetNumberOfSamples(watcher.doc))
                   ELSE <<>>
         new == next.sample .. next.sample + Len(labels) - 1
         index(s) == s - next.sample
     IN /\ samples' = With(samples, [s \in new |->
             [ds |-> watcher.ds, file |-> watcher.file, index |-> index(s),
              label |-> labels[index(s) + 1]]])
        /\ origin' = With(origin, [s \in new |-> <<p, index(s)>>])
        /\ next' = [next EXCEPT !.sample = @ + Len(labels)]
  /\ unfinished' = IF tables = "there" THEN unfinished ELSE unfinished \cup {watcher.file}
  /\ watcher' = [watcher EXCEPT !.pc = "idle", !.path = 0, !.file = 0, !.doc = <<>>]
  /\ UNCHANGED <<disk, dataset, tables, files, get, poll, del, counts, doomed, ghosts>>
-----------------------------------------------------------------------------
(* Get: the keys are cut into one run per retrieval thread, the last       *)
(* thread takes the rest.                                                  *)
KeysPerThread(keys) ==
  LET threads == IF Len(keys) < retrieval_threads THEN Len(keys) ELSE retrieval_threads
      size == Len(keys) \div threads
  IN [t \in Threads |->
        IF t > threads THEN <<>>
        ELSE SubSeq(keys, (t - 1) * size + 1, IF t = threads THEN Len(keys) ELSE t * size)]

(* Every request counts against the bound.                                 *)
Begin == requests < MaxRequests /\ requests' = requests + 1

Get(keys) ==
  /\ get.pc = "idle" /\ DatasetExists /\ Begin
  /\ LET parts == KeysPerThread(keys)
     IN get' = [NoGet EXCEPT
          !.pc = "running", !.ds = dataset, !.keys = Range(keys),
          !.threads = [t \in Threads |->
             [IdleThread EXCEPT !.pc = IF parts[t] = <<>> THEN "done" ELSE "query",
                                !.keys = parts[t]]]]
  /\ UNCHANGED <<disk, dbVars, watcher, poll, del, crashes, marks>>

(* send_sample_data_for_keys_and_file: the rows come ordered by file.      *)
ByFile(S) ==
  {o \in SetToSeqs(S) : \A i, j \in DOMAIN o : i < j =>
     LET a == samples[o[i]].file
         b == samples[o[j]].file
     IN a < b \/ (a = b /\ (UnorderedQueries \/ o[i] < o[j]))}

Thread(t) == get.threads[t]
SetThread(t, th) == get' = [get EXCEPT !.threads[t] = th]

Query(t) ==
  /\ Thread(t).pc = "query"
  /\ \E o \in ByFile({s \in SamplesIn(get.ds) : s \in Range(Thread(t).keys)}) :
       SetThread(t, [Thread(t) EXCEPT
         !.pc = "open",
         !.rows = [i \in DOMAIN o |-> [id |-> o[i]] @@ samples[o[i]]]])
  /\ UNCHANGED <<disk, dbVars, watcher, poll, del, counts, marks>>

(* An exception: without threads of its own Get answers it with status OK, *)
(* a retrieval thread takes the process down.                              *)
Down ==
  /\ watcher' = NoWatcher /\ get' = NoGet /\ poll' = NoPoll /\ del' = NoDel
  /\ tables' = IF tables = "creating" THEN "missing" ELSE tables
  /\ unfinished' = unfinished \cup (IF watcher.pc = "filed" THEN {watcher.file} ELSE {})
       \cup (IF del.pc \in {"deleted", "unlink"} THEN {Head(del.ids)} ELSE {})
  /\ UNCHANGED <<doomed, ghosts>>

Throw(t) ==
  IF retrieval_threads = 1
  THEN /\ get' = [get EXCEPT !.threads[t].pc = "done", !.failed = TRUE]
       /\ UNCHANGED <<watcher, poll, del, crashes, marks>>
  ELSE /\ crashes < MaxCrashes /\ crashes' = crashes + 1
       /\ Down

(* The run of rows of one file that starts at position at.  Fewer rows     *)
(* than keys: the code then reads past the rows, finds file id 0 there and *)
(* throws on its empty path once the found runs are sent.                  *)
RunEnd(th) == LET after == {i \in DOMAIN th.rows : i > th.at /\ th.rows[i].file # th.rows[th.at].file}
              IN IF after = {} THEN Len(th.rows) ELSE Min(after) - 1

Open(t) ==
  /\ Thread(t).pc = "open"
  /\ LET th == Thread(t)
         f == th.rows[th.at].file
         p == files[f].path
     IN IF th.at > Len(th.rows) \/ f \notin DOMAIN files \/ CannotOpen(p)
        THEN Throw(t)
        ELSE /\ SetThread(t, [th EXCEPT !.pc = "read", !.doc = <<p, disk[p]>>])
             /\ UNCHANGED <<watcher, poll, del, crashes, marks>>
  /\ UNCHANGED <<disk, dbVars, requests>>

(* The first file's stream is opened with it, those of later files only    *)
(* when they are read.                                                     *)
ReadAs(th) ==
  IF FileWrapperType = "binary" /\ th.at = 1 THEN th.doc[2]
  ELSE ReadLater(th.doc[1], th.doc[2])

(* The keys of a response are a run of the request, in the request's       *)
(* order; samples and labels are a run of the query's result.              *)
ResponseKeys(th) == SubSeq(th.keys, th.at, RunEnd(th))

BeingDeleted(s) == \/ s \notin DOMAIN samples
                   \/ samples[s].ds \in doomed \/ samples[s].file \in ghosts

SendFile(t) ==
  /\ Thread(t).pc = "read"
  /\ LET th == Thread(t)
         end == RunEnd(th)
         run == SubSeq(th.rows, th.at, end)
         indices == [i \in DOMAIN run |-> run[i].index]
         data == GetSamplesFromIndices(ReadAs(th), indices)
         response == [i \in DOMAIN run |->
            [key |-> ResponseKeys(th)[i], label |-> run[i].label, data |-> data[i],
             sample |-> run[i].id, excused |-> BeingDeleted(run[i].id)]]
     IN IF ~ValidIndices(th.doc[2], indices) THEN Throw(t)
        ELSE /\ get' = [get EXCEPT
                  !.answers = @ \o response,
                  !.threads[t] = IF end = Len(th.keys)
                                 THEN [IdleThread EXCEPT !.pc = "done"]
                                 ELSE [th EXCEPT !.pc = "open", !.at = end + 1, !.doc = <<>>]]
             /\ UNCHANGED <<watcher, poll, del, crashes, marks>>
  /\ UNCHANGED <<disk, dbVars, requests>>

GetReturns ==
  /\ get.pc = "running" /\ \A t \in Threads : Thread(t).pc = "done"
  /\ get' = NoGet
  /\ UNCHANGED <<disk, dbVars, watcher, poll, del, counts, marks>>
-----------------------------------------------------------------------------
(* GetNewDataSince and GetDataInInterval: first the ids of the files, then *)
(* their samples, by a cursor.                                             *)
InInterval(f, from, to) ==
  from <= files[f].updated_at /\ (to = -1 \/ files[f].updated_at <= to)
FileIds(from, to) == {f \in FilesIn(dataset) : InInterval(f, from, to)}

PollFiles(from, to) ==
  /\ poll.pc = "idle" /\ DatasetExists /\ Begin
  /\ LET ids == FileIds(from, to)
     IN /\ ids # {}
        /\ poll' = [NoPoll EXCEPT !.pc = "listed", !.ids = ids]
  /\ UNCHANGED <<disk, dbVars, watcher, get, del, crashes, marks>>

(* Full fetches of the cursor are sent as they are; what the last one      *)
(* leaves is sent at the end.                                              *)
YieldPer(rows, b) ==   \* the b-th fetch
  SubSeq(rows, (b - 1) * sample_batch_size + 1,
         IF b * sample_batch_size < Len(rows) THEN b * sample_batch_size ELSE Len(rows))

BatchesOnlyFull(rows) ==   \* mutant: the buffer is not sent at the end
  [b \in 1 .. Len(rows) \div sample_batch_size |-> YieldPer(rows, b)]
Batches(rows) ==
  [b \in 1 .. (Len(rows) + sample_batch_size - 1) \div sample_batch_size |-> YieldPer(rows, b)]

PollSamples ==
  /\ poll.pc = "listed"
  /\ LET S == {s \in DOMAIN samples : samples[s].file \in poll.ids \cap DOMAIN files}
         time(s) == files[samples[s].file].updated_at
     IN poll' = [poll EXCEPT
          !.pc = "answered",
          !.responses = Batches(SetToSortSeq(S, LAMBDA s, r :
             time(s) < time(r) \/ (time(s) = time(r) /\ s < r)))]
  /\ UNCHANGED <<disk, dbVars, watcher, get, del, counts, marks>>

PollReturns ==
  /\ poll.pc = "answered"
  /\ poll' = NoPoll
  /\ UNCHANGED <<disk, dbVars, watcher, get, del, counts, marks>>
-----------------------------------------------------------------------------
(* DeleteData: the files of the keys and their paths are two queries, and  *)
(* the i-th path is taken for that of the i-th file.                       *)
FileIdsForSamples(keys) == {samples[s].file : s \in keys \cap SamplesIn(dataset)}

DeleteData(keys) ==
  /\ del.pc = "idle" /\ DatasetExists /\ keys # {} /\ Begin
  /\ LET F == FileIdsForSamples(keys)
         P == {f \in F : f \in DOMAIN files}
     IN /\ P # {}
        /\ \E o \in Orders(F), q \in Orders(P) :
             IF F # P THEN del' = NoDel             \* "Could not find all files."
             ELSE del' = [NoDel EXCEPT
                    !.pc = "open", !.ds = dataset, !.keys = keys, !.ids = o,
                    !.paths = [i \in DOMAIN q |-> files[q[i]].path]]
  /\ UNCHANGED <<disk, dbVars, watcher, get, poll, crashes, marks>>

DelKeys == {s \in SamplesOf(Head(del.ids)) : s \in del.keys}

(* set_file_path, the rows of the file to delete, and delete_samples: it   *)
(* is given their ids where it expects indices.                            *)
DeleteFromFile ==
  /\ del.pc = "open"
  /\ LET p == Head(del.paths)
     IN IF CannotOpen(p)
           \/ (FileWrapperType = "csv" /\ \E s \in DelKeys : s >= GetNumberOfSamples(disk[p]))
        THEN del' = NoDel /\ UNCHANGED disk          \* "Error deleting data."
        ELSE /\ disk' = [disk EXCEPT ![p] = DeleteSamples(@, DelKeys)]
             /\ del' = [del EXCEPT !.pc = "rows", !.count = Cardinality(DelKeys)]
  /\ UNCHANGED <<dbVars, watcher, get, poll, counts, marks>>

DeleteRows ==
  /\ del.pc = "rows"
  /\ samples' = Without(samples, DelKeys)
  /\ del' = [del EXCEPT !.pc = "deleted"]
  /\ UNCHANGED <<disk, dataset, files, next, origin, watcher, get, poll, counts, marks>>

NextFile == IF Len(del.ids) = 1 THEN NoDel
            ELSE [del EXCEPT !.pc = "open", !.ids = Tail(@), !.paths = Tail(@)]

DeleteFileRowStays ==   \* mutant: the file goes, its row stays
  /\ del.pc = "deleted"
  /\ del' = [del EXCEPT !.pc = "unlink"]
  /\ UNCHANGED <<disk, dataset, samples, files, next, origin, watcher, get, poll, counts, marks>>

(* The last samples of the file: its row goes, then the file itself.       *)
DeleteFileRow ==
  /\ del.pc = "deleted"
  /\ LET f == Head(del.ids)
         left == files[f].number_of_samples - del.count
     IN IF f \notin DOMAIN files THEN del' = NextFile /\ UNCHANGED files
        ELSE IF left = 0
        THEN /\ files' = Without(files, {f})
             /\ del' = [del EXCEPT !.pc = "unlink"]
        ELSE /\ files' = [files EXCEPT ![f].number_of_samples = left]
             /\ del' = NextFile
  /\ UNCHANGED <<disk, dataset, samples, next, origin, watcher, get, poll, counts, marks>>

Unlink ==
  /\ del.pc = "unlink"
  /\ RemoveFromDisk(Head(del.paths))
  /\ del' = NextFile
  /\ UNCHANGED <<dbVars, watcher, get, poll, counts, marks>>

(* DeleteDataset: the files, then the rows, table by table.                *)
DeleteDataset ==
  /\ del.pc = "idle" /\ DatasetExists /\ Begin
  /\ \E o \in Orders(FilesIn(dataset)) :
       del' = [NoDel EXCEPT !.pc = "remove", !.ds = dataset,
                            !.paths = [i \in DOMAIN o |-> files[o[i]].path]]
  /\ doomed' = doomed \cup {dataset}
  /\ UNCHANGED <<disk, dbVars, watcher, get, poll, crashes, tables, unfinished, ghosts>>

RemoveFile ==
  /\ del.pc = "remove" /\ del.paths # <<>>
  /\ RemoveFromDisk(Head(del.paths))
  /\ del' = [del EXCEPT !.paths = Tail(@)]
  /\ UNCHANGED <<dbVars, watcher, get, poll, counts, marks>>

DropTables ==
  /\ \/ /\ del.pc = "remove" /\ del.paths = <<>>
        /\ samples' = Without(samples, SamplesIn(del.ds))
        /\ del' = [del EXCEPT !.pc = "files"] /\ UNCHANGED <<dataset, files>>
     \/ /\ del.pc = "files"
        /\ files' = Without(files, FilesIn(del.ds))
        /\ del' = [del EXCEPT !.pc = "dataset"] /\ UNCHANGED <<dataset, samples>>
     \/ /\ del.pc = "dataset"
        /\ dataset' = 0
        /\ del' = NoDel /\ UNCHANGED <<files, samples>>
  /\ UNCHANGED <<disk, next, origin, watcher, get, poll, counts, marks>>
-----------------------------------------------------------------------------
(* The process ends and is started again.                                  *)
Crash ==
  /\ crashes < MaxCrashes /\ crashes' = crashes + 1
  /\ Down
  /\ UNCHANGED <<disk, dbVars, requests>>

SSInit ==
  /\ disk = [p \in Paths |-> Encode(Rows[p])]
  /\ dataset = 0 /\ tables = "none" /\ files = <<>> /\ samples = <<>> /\ origin = <<>>
  /\ next = [ds |-> 1, file |-> 1, sample |-> 1]
  /\ watcher = NoWatcher /\ get = NoGet /\ poll = NoPoll /\ del = NoDel
  /\ requests = 0 /\ crashes = 0 /\ unfinished = {} /\ doomed = {} /\ ghosts = {}

KeySeqs == UNION {IF UnorderedRequests THEN SetToSeqs(K) ELSE {Sorted(K)} :
                    K \in {S \in SUBSET SamplesIn(dataset) : Cardinality(S) \in Requests}}

SSNext ==
  \/ RegisterNewDataset \/ AddSampleDatasetPartition \/ StartWatcher \/ StopWatcher
  \/ \E p \in Paths : FindFile(p)
  \/ InsertFile \/ InsertSamples
  \/ \E keys \in KeySeqs : Get(keys)
  \/ \E t \in Threads : Query(t) \/ Open(t) \/ SendFile(t)
  \/ GetReturns
  \/ \E from, to \in Paths \cup {-1} : PollFiles(from, to)
  \/ PollSamples \/ PollReturns
  \/ \E keys \in SUBSET SamplesIn(dataset) : DeleteData(keys)
  \/ DeleteFromFile \/ DeleteRows \/ DeleteFileRow \/ Unlink
  \/ DeleteDataset \/ RemoveFile \/ DropTables
  \/ Crash

SSSpec == SSInit /\ [][SSNext]_ssVars
-----------------------------------------------------------------------------
SSTypeOK ==
  /\ DOMAIN disk \subseteq Paths
  /\ dataset \in 0 .. MaxDatasets /\ tables \in {"none", "creating", "there", "missing"}
  /\ \A f \in DOMAIN files : /\ f \in 1 .. next.file - 1
                             /\ files[f].path \in Paths /\ files[f].number_of_samples \in Nat
  /\ \A s \in DOMAIN samples : s \in 1 .. next.sample - 1 /\ s \in DOMAIN origin
  /\ watcher.pc \in {"none", "idle", "found", "filed", "exited"}
  /\ \A t \in Threads : Thread(t).pc \in {"idle", "query", "open", "read", "done"}
  /\ poll.pc \in {"idle", "listed", "answered"}
  /\ del.pc \in {"idle", "open", "rows", "deleted", "unlink", "remove", "files", "dataset"}

(* GetDataPerWorker, get_partition_for_worker: the share of worker w of n  *)
(* is cut from the sum of the files' counts, not from the rows.            *)
PartitionNoThreshold(w, n, total) ==   \* mutant: the rest of the division is dealt to nobody
  [start |-> w * (total \div n), limit |-> total \div n]
Partition(w, n, total) ==
  LET size == total \div n
      threshold == total % n
  IN IF w < threshold THEN [start |-> w * (size + 1), limit |-> size + 1]
     ELSE [start |-> threshold * (size + 1) + (w - threshold) * size, limit |-> size]

DataPerWorker(w, n) ==
  LET rows == Sorted(SamplesIn(dataset))
      part == Partition(w, n, SumCounts(FilesIn(dataset)))
  IN {rows[i] : i \in (part.start + 1 .. part.start + part.limit) \cap DOMAIN rows}

(* Whatever the watcher and a deletion have got to, the workers asking for *)
(* their share of the dataset get every sample, and none gets another's:   *)
(* the counts in table files may run ahead of the rows in table samples,   *)
(* never behind, and agree with them when no file is being entered and no  *)
(* sample deleted, but for files whose samples the end of the process or a *)
(* missing partition lost.  (Unless its deletion was begun: that loses     *)
(* files first.)                                                           *)
GetDatasetSize == SumCounts(FilesIn(dataset))
SizeExactWhenQuiet ==
  watcher.pc # "filed" /\ del.pc = "idle" /\ unfinished = {} =>
    GetDatasetSize = Cardinality(SamplesIn(dataset))
SharedBy(n) ==
  /\ UNION {DataPerWorker(w, n) : w \in 0 .. n - 1} = SamplesIn(dataset)
  /\ \A w, v \in 0 .. n - 1 : w # v => DataPerWorker(w, n) \cap DataPerWorker(v, n) = {}
WorkersCoverDataset ==
  dataset # 0 /\ dataset \notin doomed => SizeExactWhenQuiet /\ \A n \in 1 .. 3 : SharedBy(n)

(* Every file in the database is on disk, so that its samples can be read: *)
(* DeleteData removes the row first.  Only a watcher that enters the file  *)
(* again between the two, or the deletion of the dataset, leaves a row     *)
(* without its file.                                                       *)
FilesOnDisk ==
  \A f \in FilesIn(dataset) : files[f].path \in DOMAIN disk \/ f \in ghosts \/ dataset \in doomed

(* What Get sends as the data and the label of a sample is what was        *)
(* written there, unless the sample is already gone from the database, its *)
(* dataset is being deleted, or it was entered again during its deletion;  *)
(* and to a request that names its keys in the order of their files, it    *)
(* sends them under the sample's key, unless one of the keys is gone.  A   *)
(* Get that met no exception sent every sample asked for once.             *)
AnswersRight ==
  /\ \A i \in DOMAIN get.answers :
       LET a == get.answers[i]
           o == origin[a.sample]
           written == Rows[o[1]][o[2] + 1]
       IN a.excused \/ /\ a.data = written.data /\ a.label = written.label
                       /\ \/ a.key = a.sample \/ UnorderedRequests
                          \/ ~ (get.keys \subseteq DOMAIN samples)
  /\ get.pc = "running" /\ ~get.failed /\ (\A t \in Threads : Thread(t).pc = "done") =>
       /\ {get.answers[i].sample : i \in DOMAIN get.answers} = get.keys
       /\ Len(get.answers) = Cardinality(get.keys)

(* A poll returns every sample of the files it found, the oldest first, in *)
(* batches no longer than sample_batch_size; it misses those of a file     *)
(* whose samples are not entered yet, or are being deleted.                *)
NewDataWhole ==
  [][PollSamples =>
       LET sent == FlattenSeq(poll'.responses)
           of(f) == Cardinality({i \in DOMAIN sent : samples[sent[i]].file = f})
           busy(f) == \/ f \in unfinished \/ watcher.file = f \/ dataset \in doomed
                      \/ (del.pc = "deleted" /\ f = Head(del.ids))
       IN /\ \A f \in poll.ids \cap DOMAIN files : of(f) = files[f].number_of_samples \/ busy(f)
          /\ \A i, j \in DOMAIN sent : i < j =>
               files[samples[sent[i]].file].updated_at <= files[samples[sent[j]].file].updated_at
          /\ \A b \in DOMAIN poll'.responses : Len(poll'.responses[b]) <= sample_batch_size
    ]_ssVars
=============================================================================
