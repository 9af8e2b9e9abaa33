---------------------------- MODULE TriggerSamples ----------------------------
(***************************************************************************)
(* How the samples of one partition of a trigger travel from the process   *)
(* that selected them to the dataloader workers (common/trigger_sample,    *)
(* and AbstractSelectionStrategy.trigger and LocalDatasetWriter that use   *)
(* it).  The writer splits the partition into files written in parallel.   *)
(* Each worker asks for its share: a selector process reads it from the    *)
(* files or cuts it out of its cache; a training that selected locally     *)
(* lets worker w read file w.                                              *)
(*                                                                         *)
(* A sample is the pair of its file and its index therein.                 *)
(***************************************************************************)
EXTENDS Integers, FiniteSets

CONSTANTS
  SampleCounts,      \* how many samples the partition may have; one without
                     \* samples is never yielded and would have no file
  InsertionThreads,  \* values of insertion_threads; none above 0: one file
  WorkerCounts       \* how many dataloader workers there may be

ASSUME SamplesAssumption ==
  /\ SampleCounts \subseteq Nat \ {0}
  /\ InsertionThreads \subseteq Int
  /\ WorkerCounts \subseteq Nat \ {0}

VARIABLES
  source,            \* who wrote the files, and serves them: see TSInit
  num_samples, threads, workers,
  written,           \* the files written so far
  state,             \* of each worker's request
  files_read,        \* the files its loop has passed
  current_index,     \* how many samples those held
  taken,             \* the samples it was given
  samples            \* and how many they are

configVars == <<source, num_samples, threads, workers>>
readVars == <<state, files_read, current_index, taken, samples>>
tsVars == <<configVars, written, readVars>>

Workers == 0 .. workers - 1
-----------------------------------------------------------------------------
(* trigger: how many samples go to each file, the rest to the last.        *)
SamplesPerProc == IF threads <= 0 THEN 0 ELSE num_samples \div threads
NumFiles == IF SamplesPerProc = 0 THEN 1 ELSE threads
Files == 0 .. NumFiles - 1
LastFile == num_samples - (NumFiles - 1) * SamplesPerProc
Length(f) == IF f < NumFiles - 1 THEN SamplesPerProc ELSE LastFile

(* _write_files: the slice of the partition that goes to file f.           *)
FileData(f) == {f} \X (0 .. Length(f) - 1)
Samples == UNION {FileData(f) : f \in Files}

(* parse_file: a file that does not exist holds nothing.                   *)
ParseFile(f) == IF f \in Files THEN FileData(f) ELSE {}

(* get_matching_files sorts the names, which end in the decimal index of   *)
(* the file and ".npy": 0, 1, 10, 11, .., 2, 20, ..  (below 100 files).    *)
NameKey(f) == IF f < 10 THEN 11 * f ELSE 11 * (f \div 10) + (f % 10) + 1
FilesBefore(f) == {g \in Files : NameKey(g) < NameKey(f)}

(* The first sample of file f in what get_all_samples returns.             *)
SamplesIn(F) ==
  Cardinality(F) * SamplesPerProc
    + (IF NumFiles - 1 \in F THEN LastFile - SamplesPerProc ELSE 0)
Position(s) == SamplesIn(FilesBefore(s[1])) + s[2]
GetAllSamples ==
  [p \in 0 .. num_samples - 1 |-> CHOOSE s \in Samples : Position(s) = p]

(* get_partition_for_worker.                                               *)
SubsetSizeFloor(w) == num_samples \div workers    \* mutant: the remainder is dropped
SubsetSize(w) ==
  num_samples \div workers + (IF w < num_samples % workers THEN 1 ELSE 0)

FirstOf(w) ==
  LET subset_size == num_samples \div workers
      threshold == num_samples % workers
  IN IF w < threshold THEN w * (subset_size + 1)
     ELSE threshold * (subset_size + 1) + (w - threshold) * subset_size
StartIndex(w) == IF FirstOf(w) >= num_samples THEN 0 ELSE FirstOf(w)
EndIndex(w) == StartIndex(w) + SubsetSize(w)
-----------------------------------------------------------------------------
(* write_files starts one task per file and waits for all of them.         *)
WriteFile(f) ==
  /\ f \in Files \ written
  /\ written' = written \cup {f}
  /\ UNCHANGED <<configVars, readVars>>

Stored == written = Files

(* get_worker_samples, one file of its loop.                               *)
NextFile(w) ==
  CHOOSE f \in Files \ files_read[w] :
    \A g \in Files \ files_read[w] : NameKey(f) <= NameKey(g)

StartInFile(w) ==
  IF StartIndex(w) >= current_index[w] THEN StartIndex(w) - current_index[w] ELSE 0
EndInFileInclusive(w, f) ==    \* mutant: the end index is taken as inclusive
  IF current_index[w] + Length(f) <= EndIndex(w)
    THEN Length(f) - 1 ELSE EndIndex(w) - current_index[w]
EndInFile(w, f) ==
  IF current_index[w] + Length(f) < EndIndex(w)
    THEN Length(f) ELSE EndIndex(w) - current_index[w]

LastOfWorker(w, f) == current_index[w] + Length(f) >= EndIndex(w)

(* parse_file_subset reads nothing when asked for more than the file has. *)
FileSubset(f, start, end) ==
  IF end > Length(f) THEN {} ELSE {<<f, i>> : i \in start .. end - 1}

SkipFile(w) ==
  /\ state[w] = "reading" /\ files_read[w] # Files
  /\ current_index[w] < EndIndex(w)
  /\ LET f == NextFile(w)
     IN /\ current_index[w] + Length(f) <= StartIndex(w)
        /\ files_read' = [files_read EXCEPT ![w] = @ \cup {f}]
        /\ current_index' = [current_index EXCEPT ![w] = @ + Length(f)]
  /\ UNCHANGED <<configVars, written, state, taken, samples>>

ReadFile(w) ==
  /\ state[w] = "reading" /\ files_read[w] # Files
  /\ current_index[w] < EndIndex(w)
  /\ LET f == NextFile(w)
     IN /\ current_index[w] + Length(f) > StartIndex(w)
        /\ taken' = [taken EXCEPT ![w] =
             @ \cup FileSubset(f, StartInFile(w), EndInFile(w, f))]
        /\ samples' = [samples EXCEPT ![w] = @ + EndInFile(w, f) - StartInFile(w)]
        /\ IF LastOfWorker(w, f)
             THEN /\ state' = [state EXCEPT ![w] = "done"]
                  /\ UNCHANGED <<files_read, current_index>>
             ELSE /\ files_read' = [files_read EXCEPT ![w] = @ \cup {f}]
                  /\ current_index' = [current_index EXCEPT ![w] = @ + Length(f)]
                  /\ UNCHANGED state
  /\ UNCHANGED <<configVars, written>>

NothingLeft(w) ==
  /\ state[w] = "reading"
  /\ files_read[w] = Files \/ current_index[w] >= EndIndex(w)
  /\ state' = [state EXCEPT ![w] = "done"]
  /\ UNCHANGED <<configVars, written, files_read, current_index, taken, samples>>

(* A selector process is asked for the share of worker w: it reads the     *)
(* files (get_trigger_samples) unless it is the one that has the trigger   *)
(* in its cache, where it put what get_all_samples returned.               *)
RequestFromFiles(w) ==
  /\ Stored /\ source = "selector" /\ state[w] = "waiting"
  /\ state' = [state EXCEPT ![w] = "reading"]
  /\ UNCHANGED <<configVars, written, files_read, current_index, taken, samples>>

Share(w) ==
  LET all == GetAllSamples
  IN {all[p] : p \in (StartIndex(w) .. EndIndex(w) - 1) \cap DOMAIN all}

RequestFromCache(w) ==
  /\ Stored /\ source = "selector" /\ state[w] = "waiting"
  /\ taken' = [taken EXCEPT ![w] = Share(w)]
  /\ samples' = [samples EXCEPT ![w] = SubsetSize(w)]
  /\ state' = [state EXCEPT ![w] = "done"]
  /\ UNCHANGED <<configVars, written, files_read, current_index>>

(* LocalKeySource.get_keys_and_weights: file w, empty if there is none.    *)
ReadOwnFile(w) ==
  /\ Stored /\ source = "local" /\ state[w] = "waiting"
  /\ taken' = [taken EXCEPT ![w] = ParseFile(w)]
  /\ samples' = [samples EXCEPT ![w] = IF w \in Files THEN Length(w) ELSE 0]
  /\ state' = [state EXCEPT ![w] = "done"]
  /\ UNCHANGED <<configVars, written, files_read, current_index>>
-----------------------------------------------------------------------------
(* The selector writes with insertion_threads; a training that samples     *)
(* locally with as many threads as it has dataloader workers.              *)
TSInit ==
  /\ source \in {"selector", "local"}
  /\ num_samples \in SampleCounts
  /\ workers \in WorkerCounts
  /\ threads \in IF source = "local" THEN {workers} ELSE InsertionThreads
  /\ written = {}
  /\ state = [w \in Workers |-> "waiting"]
  /\ files_read = [w \in Workers |-> {}]
  /\ current_index = [w \in Workers |-> 0]
  /\ taken = [w \in Workers |-> {}]
  /\ samples = [w \in Workers |-> 0]

TSNext ==
  \/ \E f \in Files : WriteFile(f)
  \/ \E w \in Workers :
       \/ RequestFromFiles(w) \/ SkipFile(w) \/ ReadFile(w) \/ NothingLeft(w)
       \/ RequestFromCache(w) \/ ReadOwnFile(w)

TSSpec == TSInit /\ [][TSNext]_tsVars
-----------------------------------------------------------------------------
TSTypeOK ==
  /\ source \in {"selector", "local"}
  /\ num_samples \in SampleCounts /\ workers \in WorkerCounts
  /\ threads \in InsertionThreads \cup WorkerCounts
  /\ written \subseteq Files
  /\ state \in [Workers -> {"waiting", "reading", "done"}]
  /\ files_read \in [Workers -> SUBSET Files]
  /\ current_index \in [Workers -> 0 .. num_samples]
  /\ taken \in [Workers -> SUBSET Samples]
  /\ samples \in [Workers -> Nat]

(* However the samples were split into files, in whatever order the names  *)
(* sort and whichever process serves a worker: no two workers are given    *)
(* the same sample, and once all are served every sample was given out.    *)
AllServed == \A w \in Workers : state[w] = "done"
EachSampleOnce ==
  /\ \A v, w \in Workers : v # w => taken[v] \cap taken[w] = {}
  /\ AllServed => \A s \in Samples : \E w \in Workers : s \in taken[w]

(* A worker is given as many samples as it is told (what it counts is what *)
(* it copies out of the C++ buffer), the files' loop and the cache agree   *)
(* on which, and the selector's service "splits the range of all elements  *)
(* evenly among all workers".                                              *)
ShareServed ==
  \A w \in Workers : state[w] = "done" =>
    /\ samples[w] = Cardinality(taken[w])
    /\ source = "selector" =>
         /\ taken[w] = Share(w)
         /\ \A v \in Workers : state[v] = "done" => samples[v] - samples[w] \in -1 .. 1
=============================================================================
