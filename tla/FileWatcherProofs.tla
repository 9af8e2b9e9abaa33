------------------------- MODULE FileWatcherProofs -------------------------
(***************************************************************************)
(* Proofs about FileWatcher: its types, and that the database holds one    *)
(* row per file and of each file a first part of its samples, for any      *)
(* files, any number of insertion threads and any batch size.              *)
(***************************************************************************)
EXTENDS FileWatcher, DataLemmas

(* What a thread still has to write of the files it has entered.           *)
Held(t) == file_samples[t] \o labels[t]

(* Threads work only while the watcher waits for them, and it has waited   *)
(* for those it has passed.                                                *)
WatcherInv ==
  /\ pc \notin {"join", "joining"} => \A t \in Threads : state[t] \in {"idle", "done"}
  /\ pc = "join" /\ insertion_threads = 1 => index = 1
  /\ pc = "joining" => index <= insertion_threads
  /\ pc \in {"join", "joining"} => \A t \in Threads : t < index => state[t] = "done"

(* A thread that does not work holds nothing; what it has to enter is not  *)
(* in the database and no other thread's.                                  *)
ThreadInv ==
  \A t \in Threads :
    /\ state[t] \in {"idle", "done"} => paths[t] = {}
    /\ state[t] # "insert" => labels[t] = <<>> /\ file_samples[t] = <<>>
    /\ state[t] = "insert" => paths[t] \cap Known = {}
    /\ \A u \in Threads \ {t} : paths[t] \cap paths[u] = {}

(* The rows of the table and those of each thread, put behind it, hold a   *)
(* first part of each file; no two threads hold rows of one file.          *)
RowsInv ==
  /\ \A p \in DOMAIN samples : samples[p] \in SamplesOf(samples[p][1])
  /\ \A t \in Threads :
       /\ \A p \in DOMAIN Held(t) : Held(t)[p] \in SamplesOf(Held(t)[p][1])
       /\ InOrderOnce(samples \o Held(t))
       /\ \A u \in Threads \ {t} : \A p \in DOMAIN Held(t), q \in DOMAIN Held(u) :
            Held(t)[p][1] # Held(u)[q][1]

OneRowPerFile == \A i, j \in DOMAIN files : files[i].path = files[j].path => i = j

IInv == TypeOK /\ WatcherInv /\ ThreadInv /\ OneRowPerFile /\ RowsInv
-----------------------------------------------------------------------------
(* Sets that occur in the steps.                                           *)
FileRow == [path : Files, updated_at : 1 .. MaxClock]

LEMMA ThreadsType ==
  ASSUME insertion_threads \in ThreadCounts
  PROVE  insertion_threads \in Nat \ {0} /\ Threads = 1 .. insertion_threads /\ Threads # {}
BY WatcherAssumption DEF Threads

LEMMA RowsGrow ==
  ASSUME NEW r, files \in Seq(FileRow), r \in FileRow, files' = Append(files, r)
  PROVE  /\ files' \in Seq(FileRow) /\ DOMAIN files' = DOMAIN files \cup {Len(files) + 1}
         /\ Len(files) \in Nat /\ Len(files) + 1 \notin DOMAIN files
         /\ files'[Len(files) + 1] = r /\ \A id \in DOMAIN files : files'[id] = files[id]
         /\ Rows \subseteq Rows' /\ Seq(Rows) \subseteq Seq(Rows')
<1>1. /\ files' \in Seq(FileRow) /\ DOMAIN files' = DOMAIN files \cup {Len(files) + 1}
      /\ Len(files) \in Nat /\ Len(files) + 1 \notin DOMAIN files
      /\ files'[Len(files) + 1] = r /\ \A id \in DOMAIN files : files'[id] = files[id]
  OBVIOUS
<1>2. Rows \subseteq Rows'
  BY <1>1 DEF Rows
<1>3. Seq(Rows) \subseteq Seq(Rows')
  BY <1>2, SeqMonotonic
<1> QED BY <1>1, <1>2, <1>3

(* The rows a file gets are its samples, in order.                         *)
LEMMA LabelsRows ==
  ASSUME NEW id, NEW f \in Files
  PROVE  /\ Labels(id, f) \in Seq({id} \X Nat) /\ Len(Labels(id, f)) = NumSamples[f]
         /\ NumSamples[f] \in Nat
         /\ \A i \in 1 .. NumSamples[f] : Labels(id, f)[i] = <<id, i - 1>>
BY WatcherAssumption DEF Labels
-----------------------------------------------------------------------------
(* Types.                                                                  *)
LEMMA NewestFileType ==
  ASSUME TypeOK
  PROVE  NewestFile \in 0 .. MaxClock
<1>1. CASE files = <<>>
  BY <1>1 DEF NewestFile, TypeOK
<1>2. CASE files # <<>>
  <2> DEFINE S == {files[id].updated_at : id \in DOMAIN files}
  <2>1. files \in Seq(FileRow)
    BY DEF TypeOK, FileRow
  <2>2. 1 \in DOMAIN files /\ \A id \in DOMAIN files : files[id] \in FileRow
    BY <1>2, <2>1
  <2>3. S \subseteq 1 .. MaxClock /\ S # {} /\ MaxClock \in Nat
    BY <2>2, WatcherAssumption DEF FileRow
  <2>4. NewestFile = Max(S)
    BY <1>2 DEF NewestFile
  <2>5. Max(S) \in S
    <3> HIDE DEF S
    <3>1. 1 \in Int /\ MaxClock \in Int
      BY <2>3
    <3> QED BY <2>3, <3>1, MaxBounded
  <2> QED BY <2>3, <2>4, <2>5
<1> QED BY <1>1, <1>2

LEMMA Listings ==
  ASSUME NEW S \in SUBSET Files, NEW s \in SetToSeqs(S)
  PROVE  /\ s \in Seq(S)
         /\ \A i, j \in 1 .. Len(s) : s[i] = s[j] => i = j
<1>1. IsFiniteSet(S)
  BY WatcherAssumption, FS_Subset
<1>2. Cardinality(S) \in Nat
  BY <1>1, FS_CardinalityType
<1>3. s \in [1 .. Cardinality(S) -> S] /\ \A i, j \in 1 .. Cardinality(S) : i # j => s[i] # s[j]
  BY DEF SetToSeqs
<1> QED BY <1>2, <1>3

(* The shares of the threads lie in the listing and do not meet.           *)
LEMMA ChunkPositions ==
  ASSUME NEW S, insertion_threads \in ThreadCounts, listed' \in Seq(S), NEW t \in Threads
  PROVE  /\ ChunkOf(t) \subseteq {listed'[i] : i \in 1 .. Len(listed')} /\ ChunkOf(t) \subseteq S
         /\ (\A i, j \in 1 .. Len(listed') : listed'[i] = listed'[j] => i = j)
              => \A u \in Threads \ {t} : ChunkOf(t) \cap ChunkOf(u) = {}
<1> DEFINE s == listed'
           n == insertion_threads
           c == ChunkSize
           lo == [v \in 1 .. n |-> (v - 1) * c]
           hi == [v \in 1 .. n |-> IF v < n THEN v * c ELSE Len(s)]
<1>1. n \in Nat \ {0} /\ Len(s) \in Nat /\ c = Len(s) \div n /\ s \in Seq(S) /\ Threads = 1 .. n
  BY ThreadsType DEF ChunkSize
<1>2. \A v \in 1 .. n : ChunkOf(v) = {s[i] : i \in lo[v] + 1 .. hi[v]}
  BY DEF ChunkOf
<1> HIDE DEF s, n, c
<1>3. \A v \in 1 .. n : lo[v] \in Nat /\ v * c \in Nat /\ hi[v] \in Nat /\ hi[v] <= Len(s) /\ c \in Nat
  <2> SUFFICES ASSUME NEW v \in 1 .. n
               PROVE  lo[v] \in Nat /\ v * c \in Nat /\ hi[v] \in Nat /\ hi[v] <= Len(s) /\ c \in Nat
    OBVIOUS
  <2> DEFINE len == Len(s)
  <2>1. len \in Nat /\ c = len \div n
    BY <1>1
  <2> HIDE DEF len
  <2>2. c \in Nat /\ lo[v] \in Nat /\ v * c \in Nat /\ v * c <= len
    BY <1>1, <2>1, SharesWithin
  <2> QED BY <2>1, <2>2 DEF len
<1>4. \A v \in 1 .. n : ChunkOf(v) \subseteq {s[i] : i \in 1 .. Len(s)}
  <2> SUFFICES ASSUME NEW v \in 1 .. n, NEW i \in lo[v] + 1 .. hi[v]
               PROVE  i \in 1 .. Len(s)
    BY <1>2
  <2> HIDE DEF lo, hi
  <2> QED BY <1>1, <1>3
<1>5. \A v, w \in 1 .. n : v < w => hi[v] <= lo[w]
  <2> SUFFICES ASSUME NEW v \in 1 .. n, NEW w \in 1 .. n, v < w
               PROVE  hi[v] <= lo[w]
    OBVIOUS
  <2>1. v < n /\ v \in Nat /\ w \in Nat
    BY <1>1
  <2> QED BY <1>3, <2>1, SharesApart
<1>6. ASSUME \A i, j \in 1 .. Len(s) : s[i] = s[j] => i = j, NEW v \in 1 .. n, NEW w \in 1 .. n, v < w
      PROVE  ChunkOf(v) \cap ChunkOf(w) = {}
  <2> SUFFICES ASSUME NEW i \in lo[v] + 1 .. hi[v], NEW j \in lo[w] + 1 .. hi[w], s[i] = s[j]
               PROVE  FALSE
    BY <1>2, <1>6
  <2>1. i \in 1 .. Len(s) /\ j \in 1 .. Len(s) /\ i < j
    <3>1. /\ lo[v] \in Nat /\ hi[v] \in Nat /\ hi[v] <= Len(s) /\ hi[v] <= lo[w]
          /\ lo[w] \in Nat /\ hi[w] \in Nat /\ hi[w] <= Len(s)
      BY <1>3, <1>5, <1>6
    <3>2. i >= lo[v] + 1 /\ i <= hi[v] /\ j >= lo[w] + 1 /\ j <= hi[w] /\ i \in Int /\ j \in Int
      <4> HIDE DEF lo, hi
      <4> QED BY <3>1
    <3>3. Len(s) \in Nat
      BY <1>1
    <3> HIDE DEF lo, hi
    <3>4. i \in 1 .. Len(s)
      BY <3>1, <3>2, <3>3
    <3>5. j \in 1 .. Len(s)
      BY <3>1, <3>2, <3>3
    <3>6. i < j
      BY <3>1, <3>2, <3>3
    <3> QED BY <3>4, <3>5, <3>6
  <2> QED BY <1>6, <2>1
<1>7. ChunkOf(t) \subseteq S
  BY <1>1, <1>4
<1>8. ASSUME \A i, j \in 1 .. Len(s) : s[i] = s[j] => i = j
      PROVE  \A u \in Threads \ {t} : ChunkOf(t) \cap ChunkOf(u) = {}
  <2> SUFFICES ASSUME NEW u \in Threads \ {t}
               PROVE  ChunkOf(t) \cap ChunkOf(u) = {}
    OBVIOUS
  <2>1. t < u \/ u < t
    BY <1>1
  <2> QED BY <1>1, <1>6, <1>8, <2>1
<1> QED BY <1>1, <1>4, <1>7, <1>8 DEF s

LEMMA DieType ==
  ASSUME TypeOK, Die, UNCHANGED <<configVars, fsVars, dbVars>>, disturbances' \in 0 .. MaxDisturbances
  PROVE  TypeOK'
<1> USE ThreadsType, WatcherAssumption DEF configVars, fsVars, dbVars, Die
<1>1. Threads' = Threads /\ Rows' = Rows /\ Exists' = Exists
  BY DEF Threads, Rows, Exists
<1>6. stop_file_watcher' \in BOOLEAN /\ ignore_last_timestamp' \in BOOLEAN
  BY DEF TypeOK
<1>2. listed' \in Seq(Exists) /\ index' \in 1 .. insertion_threads + 1
  BY DEF TypeOK
<1>3. state' \in [Threads -> {"idle", "filter", "insert", "done"}] /\ paths' \in [Threads -> SUBSET Exists]
  OBVIOUS
<1>4. /\ file_samples' \in [Threads -> Seq(Rows)] /\ labels' \in [Threads -> Seq(Rows)]
      /\ \A t \in Threads : Len(file_samples'[t]) <= sample_dbinsertion_batchsize
  OBVIOUS
<1>5. exception_thrown' \in [Threads -> BOOLEAN]
  OBVIOUS
<1>7. /\ pc' = "down" /\ timestamp' \in 0 .. MaxClock /\ present' \subseteq Exists /\ last_timestamp' \in 0 .. MaxClock
      /\ clock' \in 1 .. MaxClock /\ mtime' \in [Files -> 0 .. MaxClock] /\ in_time' \subseteq Exists
      /\ insertion_threads' \in ThreadCounts
  BY DEF TypeOK
<1> QED BY <1>1, <1>2, <1>3, <1>4, <1>5, <1>6, <1>7 DEF TypeOK

LEMMA TypeKept ==
  ASSUME TypeOK, UNCHANGED <<configVars, mtime, in_time, files, samples, listed, threadVars>>,
         clock' \in 1 .. MaxClock, last_timestamp' \in 0 .. MaxClock, timestamp' \in 0 .. MaxClock,
         pc' \in {"none", "down", "seek", "listing", "join", "joining", "update", "sleep", "exited"},
         stop_file_watcher' \in BOOLEAN, present' \subseteq Exists, index' \in 1 .. insertion_threads + 1,
         disturbances' \in 0 .. MaxDisturbances
  PROVE  TypeOK'
<1>1. Threads' = Threads /\ Rows' = Rows /\ Exists' = Exists
  BY DEF Threads, Rows, Exists, configVars
<1> QED BY <1>1 DEF TypeOK, configVars, threadVars

LEMMA TypeStep ==
  TypeOK /\ WatcherInv /\ ThreadInv /\ [Next]_vars => TypeOK'
<1> SUFFICES ASSUME TypeOK, WatcherInv, ThreadInv, [Next]_vars
             PROVE  TypeOK'
  OBVIOUS
<1> USE ThreadsType, WatcherAssumption
    DEF configVars, fsVars, dbVars, roundVars, threadVars
<1>1. CASE Tick
  <2>1. /\ UNCHANGED <<configVars, mtime, in_time, files, samples, listed, threadVars>>
        /\ clock' \in 1 .. MaxClock /\ last_timestamp' \in 0 .. MaxClock /\ timestamp' \in 0 .. MaxClock
        /\ pc' \in {"none", "down", "seek", "listing", "join", "joining", "update", "sleep", "exited"}
        /\ present' \subseteq Exists /\ index' \in 1 .. insertion_threads + 1
        /\ disturbances' \in 0 .. MaxDisturbances
    BY <1>1 DEF Tick, TypeOK
  <2>2. stop_file_watcher' \in BOOLEAN
    BY <1>1 DEF Tick, TypeOK
  <2> QED BY <2>1, <2>2, TypeKept
<1>2. ASSUME NEW f \in Files, NEW m \in 1 .. MaxClock, CreateFile(f, m)
      PROVE  TypeOK'
  <2>1. mtime' \in [Files -> 0 .. MaxClock] /\ Exists' = Exists \cup {f}
    BY <1>2 DEF CreateFile, TypeOK, Exists
  <2>2. Seq(Exists) \subseteq Seq(Exists') /\ SUBSET Exists \subseteq SUBSET Exists'
    BY <2>1, SeqMonotonic
  <2>3. in_time' \subseteq Exists' /\ present' \subseteq Exists' /\ listed' \in Seq(Exists')
    BY <1>2, <2>1, <2>2 DEF CreateFile, TypeOK
  <2>4. paths' \in [Threads' -> SUBSET Exists']
    BY <1>2, <2>2 DEF CreateFile, TypeOK, Threads
  <2> QED BY <1>2, <2>1, <2>3, <2>4 DEF CreateFile, TypeOK, Threads, Rows
<1>3. CASE StartFileWatcherThread
  <2>1. /\ UNCHANGED <<configVars, mtime, in_time, files, samples, listed, threadVars>>
        /\ clock' \in 1 .. MaxClock /\ last_timestamp' \in 0 .. MaxClock /\ timestamp' \in 0 .. MaxClock
        /\ pc' \in {"none", "down", "seek", "listing", "join", "joining", "update", "sleep", "exited"}
        /\ present' \subseteq Exists /\ index' \in 1 .. insertion_threads + 1
        /\ disturbances' \in 0 .. MaxDisturbances
    BY <1>3 DEF StartFileWatcherThread, TypeOK
  <2>2. stop_file_watcher' \in BOOLEAN
    BY <1>3 DEF StartFileWatcherThread, TypeOK
  <2> QED BY <2>1, <2>2, TypeKept
<1>4. CASE RequestStop
  <2>1. /\ UNCHANGED <<configVars, mtime, in_time, files, samples, listed, threadVars>>
        /\ clock' \in 1 .. MaxClock /\ last_timestamp' \in 0 .. MaxClock /\ timestamp' \in 0 .. MaxClock
        /\ pc' \in {"none", "down", "seek", "listing", "join", "joining", "update", "sleep", "exited"}
        /\ present' \subseteq Exists /\ index' \in 1 .. insertion_threads + 1
        /\ disturbances' \in 0 .. MaxDisturbances
    BY <1>4 DEF RequestStop, TypeOK
  <2>2. stop_file_watcher' \in BOOLEAN
    BY <1>4 DEF RequestStop, TypeOK
  <2> QED BY <2>1, <2>2, TypeKept
<1>5. CASE Crash
  <2>1. disturbances' \in 0 .. MaxDisturbances
    BY <1>5 DEF Crash, TypeOK
  <2> QED BY <1>5, <2>1, DieType DEF Crash
<1>6. CASE Restart
  <2>1. /\ UNCHANGED <<configVars, mtime, in_time, files, samples, listed, threadVars>>
        /\ clock' \in 1 .. MaxClock /\ last_timestamp' \in 0 .. MaxClock /\ timestamp' \in 0 .. MaxClock
        /\ pc' \in {"none", "down", "seek", "listing", "join", "joining", "update", "sleep", "exited"}
        /\ present' \subseteq Exists /\ index' \in 1 .. insertion_threads + 1
        /\ disturbances' \in 0 .. MaxDisturbances
    BY <1>6 DEF Restart, TypeOK
  <2>2. stop_file_watcher' \in BOOLEAN
    BY <1>6 DEF Restart, TypeOK
  <2> QED BY <2>1, <2>2, TypeKept
<1>7. CASE SeekThrows
  <2>1. /\ UNCHANGED <<configVars, mtime, in_time, files, samples, listed, threadVars>>
        /\ clock' \in 1 .. MaxClock /\ last_timestamp' \in 0 .. MaxClock /\ timestamp' \in 0 .. MaxClock
        /\ pc' \in {"none", "down", "seek", "listing", "join", "joining", "update", "sleep", "exited"}
        /\ present' \subseteq Exists /\ index' \in 1 .. insertion_threads + 1
        /\ disturbances' \in 0 .. MaxDisturbances
    BY <1>7 DEF SeekThrows, TypeOK
  <2>2. stop_file_watcher' \in BOOLEAN
    BY <1>7 DEF SeekThrows, TypeOK
  <2> QED BY <2>1, <2>2, TypeKept
<1>8. ASSUME NEW t \in Threads, ThreadThrows(t)
      PROVE  TypeOK'
  <2>1. disturbances' \in 0 .. MaxDisturbances
    BY <1>8 DEF ThreadThrows, TypeOK
  <2>2. Threads' = Threads /\ Rows' = Rows /\ Exists' = Exists
    BY <1>8 DEF ThreadThrows, Threads, Rows, Exists
  <2>3. state' \in [Threads -> {"idle", "filter", "insert", "done"}] /\ paths' \in [Threads -> SUBSET Exists]
    BY <1>8 DEF ThreadThrows, TypeOK
  <2>4. /\ file_samples' \in [Threads -> Seq(Rows)] /\ labels' \in [Threads -> Seq(Rows)]
        /\ \A u \in Threads : Len(file_samples'[u]) <= sample_dbinsertion_batchsize
    BY <1>8 DEF ThreadThrows, TypeOK
  <2>5. exception_thrown' \in [Threads -> BOOLEAN]
    BY <1>8 DEF ThreadThrows, TypeOK
  <2> QED BY <1>8, <2>1, <2>2, <2>3, <2>4, <2>5 DEF ThreadThrows, TypeOK
<1>9. CASE SeekDataset
  <2>1. /\ UNCHANGED <<configVars, mtime, in_time, files, samples, listed, threadVars>>
        /\ clock' \in 1 .. MaxClock /\ last_timestamp' \in 0 .. MaxClock /\ timestamp' \in 0 .. MaxClock
        /\ pc' \in {"none", "down", "seek", "listing", "join", "joining", "update", "sleep", "exited"}
        /\ present' \subseteq Exists /\ index' \in 1 .. insertion_threads + 1
        /\ disturbances' \in 0 .. MaxDisturbances
    BY <1>9 DEF SeekDataset, TypeOK
  <2>2. stop_file_watcher' \in BOOLEAN
    BY <1>9 DEF SeekDataset, TypeOK
  <2> QED BY <2>1, <2>2, TypeKept
<1>10. CASE SearchForNewFiles
  <2>1. PICK S \in SUBSET (Exists \ present) : listed' \in SetToSeqs(present \cup S)
    BY <1>10 DEF SearchForNewFiles
  <2>2. Threads' = Threads /\ Rows' = Rows /\ Exists' = Exists
    BY <1>10 DEF SearchForNewFiles, Threads, Rows, Exists
  <2>3. listed' \in Seq(Exists)
    <3>1. present \cup S \subseteq Exists /\ Exists \subseteq Files
      BY DEF TypeOK, Exists
    <3>2. listed' \in Seq(present \cup S)
      BY <2>1, <3>1, Listings
    <3> QED BY <3>1, <3>2, SeqMonotonic
  <2>4. CASE listed' = <<>>
    BY <1>10, <2>2, <2>3, <2>4 DEF SearchForNewFiles, TypeOK
  <2>5. CASE listed' # <<>>
    <3>1. /\ paths' = [t \in Threads |-> ChunkOf(t)]
          /\ state' = [t \in Threads |-> IF ChunkOf(t) = {} THEN "done" ELSE "filter"]
          /\ exception_thrown' = [t \in Threads |-> FALSE]
          /\ UNCHANGED <<file_samples, labels>> /\ index' = 1 /\ pc' = "join"
      BY <1>10, <2>5 DEF SearchForNewFiles
    <3>2. \A t \in Threads : ChunkOf(t) \subseteq Exists
      BY <2>3, ChunkPositions DEF TypeOK
    <3>3. state' \in [Threads -> {"idle", "filter", "insert", "done"}] /\ paths' \in [Threads -> SUBSET Exists]
      BY <3>1, <3>2
    <3>4. exception_thrown' \in [Threads -> BOOLEAN]
      BY <3>1
    <3> QED BY <1>10, <2>2, <2>3, <3>1, <3>3, <3>4 DEF SearchForNewFiles, TypeOK
  <2> QED BY <2>4, <2>5
<1>11. CASE InlineDone
  <2>1. /\ UNCHANGED <<configVars, mtime, in_time, files, samples, listed, threadVars>>
        /\ clock' \in 1 .. MaxClock /\ last_timestamp' \in 0 .. MaxClock /\ timestamp' \in 0 .. MaxClock
        /\ pc' \in {"none", "down", "seek", "listing", "join", "joining", "update", "sleep", "exited"}
        /\ present' \subseteq Exists /\ index' \in 1 .. insertion_threads + 1
        /\ disturbances' \in 0 .. MaxDisturbances
    BY <1>11 DEF InlineDone, TypeOK
  <2>2. stop_file_watcher' \in BOOLEAN
    BY <1>11 DEF InlineDone, TypeOK
  <2> QED BY <2>1, <2>2, TypeKept
<1>12. CASE CheckThread
  <2>1. /\ UNCHANGED <<configVars, mtime, in_time, files, samples, listed, threadVars>>
        /\ clock' \in 1 .. MaxClock /\ last_timestamp' \in 0 .. MaxClock /\ timestamp' \in 0 .. MaxClock
        /\ pc' \in {"none", "down", "seek", "listing", "join", "joining", "update", "sleep", "exited"}
        /\ present' \subseteq Exists /\ index' \in 1 .. insertion_threads + 1
        /\ disturbances' \in 0 .. MaxDisturbances
    BY <1>12 DEF CheckThread, TypeOK
  <2>2. stop_file_watcher' \in BOOLEAN
    BY <1>12 DEF CheckThread, TypeOK
  <2> QED BY <2>1, <2>2, TypeKept
<1>13. CASE JoinThread
  <2>1. /\ UNCHANGED <<configVars, mtime, in_time, files, samples, listed, threadVars>>
        /\ clock' \in 1 .. MaxClock /\ last_timestamp' \in 0 .. MaxClock /\ timestamp' \in 0 .. MaxClock
        /\ pc' \in {"none", "down", "seek", "listing", "join", "joining", "update", "sleep", "exited"}
        /\ present' \subseteq Exists /\ index' \in 1 .. insertion_threads + 1
        /\ disturbances' \in 0 .. MaxDisturbances
    BY <1>13 DEF JoinThread, TypeOK, WatcherInv
  <2>2. stop_file_watcher' \in BOOLEAN
    BY <1>13 DEF JoinThread, TypeOK
  <2> QED BY <2>1, <2>2, TypeKept
<1>14. CASE TerminateOnException
  <2>1. Die /\ UNCHANGED <<configVars, fsVars, dbVars, disturbances>>
    BY <1>14 DEF TerminateOnException
  <2>2. disturbances' \in 0 .. MaxDisturbances
    BY <2>1 DEF TypeOK
  <2> QED BY <2>1, <2>2, DieType
<1>15. CASE UpdateLastTimestamp
  <2>1. last_timestamp' \in 0 .. MaxClock
    BY <1>15, NewestFileType DEF UpdateLastTimestamp, TypeOK
  <2>2. listed' \in Seq(Exists') /\ index' \in 1 .. insertion_threads' + 1
    BY <1>15 DEF UpdateLastTimestamp, TypeOK
  <2>3. Threads' = Threads /\ Rows' = Rows /\ Exists' = Exists /\ timestamp' \in 0 .. MaxClock
    BY <1>15 DEF UpdateLastTimestamp, Threads, Rows, Exists, TypeOK
  <2> QED BY <1>15, <2>1, <2>2, <2>3 DEF UpdateLastTimestamp, TypeOK
<1>16. CASE Sleep
  <2>1. /\ UNCHANGED <<configVars, mtime, in_time, files, samples, listed, threadVars>>
        /\ clock' \in 1 .. MaxClock /\ last_timestamp' \in 0 .. MaxClock /\ timestamp' \in 0 .. MaxClock
        /\ pc' \in {"none", "down", "seek", "listing", "join", "joining", "update", "sleep", "exited"}
        /\ present' \subseteq Exists /\ index' \in 1 .. insertion_threads + 1
        /\ disturbances' \in 0 .. MaxDisturbances
    BY <1>16 DEF Sleep, TypeOK
  <2>2. stop_file_watcher' \in BOOLEAN
    BY <1>16 DEF Sleep, TypeOK
  <2> QED BY <2>1, <2>2, TypeKept
<1>17. ASSUME NEW t \in Threads, FilterPaths(t)
      PROVE  TypeOK'
  BY <1>17 DEF FilterPaths, TypeOK, Exists, Threads, Rows
<1>18. ASSUME NEW t \in Threads, InsertFile(t)
      PROVE  TypeOK'
  <2>1. PICK f \in paths[t] :
           /\ files' = Append(files, [path |-> f, updated_at |-> mtime[f]])
           /\ labels' = [labels EXCEPT ![t] = Labels(Len(files) + 1, f)]
           /\ paths' = [paths EXCEPT ![t] = @ \ {f}]
    BY <1>18 DEF InsertFile
  <2> DEFINE id == Len(files) + 1
             r == [path |-> f, updated_at |-> mtime[f]]
  <2>2. f \in Files /\ r \in FileRow /\ files \in Seq(FileRow)
    BY DEF TypeOK, Exists, FileRow
  <2>3. Threads' = Threads /\ Exists' = Exists
    BY <1>18 DEF InsertFile, Threads, Exists
  <2>4. /\ files' \in Seq(FileRow) /\ id \in DOMAIN files'
        /\ Rows \subseteq Rows' /\ Seq(Rows) \subseteq Seq(Rows')
    <3> HIDE DEF r
    <3>1. files' = Append(files, r)
      BY <2>1 DEF r
    <3> QED BY <2>2, <3>1, RowsGrow
  <2>5. Labels(id, f) \in Seq(Rows')
    <3>1. Labels(id, f) \in Seq({id} \X Nat)
      BY <2>2, LabelsRows
    <3>2. {id} \X Nat \subseteq Rows'
      BY <2>4 DEF Rows
    <3> QED BY <3>1, <3>2, SeqMonotonic
  <2> HIDE DEF id, r
  <2>6. /\ samples' \in Seq(Rows') /\ file_samples' \in [Threads -> Seq(Rows')]
        /\ \A u \in Threads : Len(file_samples'[u]) <= sample_dbinsertion_batchsize
    BY <1>18, <2>4 DEF InsertFile, TypeOK
  <2>7. labels' \in [Threads -> Seq(Rows')]
    BY <2>1, <2>4, <2>5 DEF TypeOK, id
  <2>8. paths' \in [Threads -> SUBSET Exists]
    BY <2>1 DEF TypeOK
  <2> QED BY <1>18, <2>3, <2>4, <2>6, <2>7, <2>8 DEF InsertFile, TypeOK, FileRow
<1>19. ASSUME NEW t \in Threads, PushSample(t)
      PROVE  TypeOK'
  <2> DEFINE h == Head(labels[t])
  <2>1. Threads' = Threads /\ Rows' = Rows /\ Exists' = Exists
    BY <1>19 DEF PushSample, Threads, Rows, Exists
  <2>2. /\ samples \in Seq(Rows) /\ file_samples[t] \in Seq(Rows) /\ labels[t] \in Seq(Rows) /\ labels[t] # <<>>
        /\ Len(file_samples[t]) <= sample_dbinsertion_batchsize
    BY <1>19 DEF TypeOK, PushSample
  <2>3. h \in Rows /\ Tail(labels[t]) \in Seq(Rows)
    BY <2>2
  <2>4. samples' \in Seq(Rows)
    <3>1. samples \o file_samples[t] \in Seq(Rows)
      BY <2>2, ConcatProperties
    <3> QED BY <1>19, <2>2, <3>1 DEF PushSample, InsertFileSamples
  <2> HIDE DEF h
  <2>5. file_samples' = [file_samples EXCEPT ![t] = Append(IF BufferFull(t) THEN <<>> ELSE @, h)]
    BY <1>19 DEF PushSample, Emptied, h
  <2>6. /\ Append(<<>>, h) \in Seq(Rows) /\ Append(file_samples[t], h) \in Seq(Rows)
        /\ Len(Append(<<>>, h)) <= sample_dbinsertion_batchsize
        /\ ~BufferFull(t) => Len(Append(file_samples[t], h)) <= sample_dbinsertion_batchsize
    BY <2>2, <2>3 DEF BufferFull
  <2>7. /\ file_samples' \in [Threads -> Seq(Rows)]
        /\ \A u \in Threads : Len(file_samples'[u]) <= sample_dbinsertion_batchsize
    BY <2>5, <2>6 DEF TypeOK
  <2>8. labels' \in [Threads -> Seq(Rows)]
    BY <1>19, <2>3 DEF PushSample, TypeOK
  <2> QED BY <1>19, <2>1, <2>4, <2>7, <2>8 DEF PushSample, TypeOK
<1>20. ASSUME NEW t \in Threads, InsertRest(t)
      PROVE  TypeOK'
  <2>1. Threads' = Threads /\ Rows' = Rows /\ Exists' = Exists
    BY <1>20 DEF InsertRest, Threads, Rows, Exists
  <2>2. samples \in Seq(Rows) /\ file_samples[t] \in Seq(Rows)
    BY DEF TypeOK
  <2>3. samples' \in Seq(Rows)
    BY <1>20, <2>2, ConcatProperties DEF InsertRest, InsertFileSamples
  <2>4. state' \in [Threads -> {"idle", "filter", "insert", "done"}]
    BY <1>20 DEF InsertRest, TypeOK
  <2>5. /\ file_samples' \in [Threads -> Seq(Rows)]
        /\ \A u \in Threads : Len(file_samples'[u]) <= sample_dbinsertion_batchsize
    <3>1. <<>> \in Seq(Rows) /\ Len(<<>>) <= sample_dbinsertion_batchsize
      OBVIOUS
    <3> QED BY <1>20, <3>1 DEF InsertRest, TypeOK
  <2> QED BY <1>20, <2>1, <2>3, <2>4, <2>5 DEF InsertRest, TypeOK
<1>21. CASE UNCHANGED vars
  BY <1>21 DEF vars, TypeOK, Exists, Threads, Rows
<1> QED BY <1>1, <1>2, <1>3, <1>4, <1>5, <1>6, <1>7, <1>8, <1>9, <1>10, <1>11, <1>12, <1>13, <1>14, <1>15,
           <1>16, <1>17, <1>18, <1>19, <1>20, <1>21 DEF Next, Environment, Watcher, InsertionThread
-----------------------------------------------------------------------------
(* Who works when, and on what.                                            *)
LEMMA KnownSame == UNCHANGED files => Known' = Known
BY DEF Known

LEMMA ControlStep ==
  TypeOK /\ WatcherInv /\ ThreadInv /\ [Next]_vars => WatcherInv' /\ ThreadInv'
<1> SUFFICES ASSUME TypeOK, WatcherInv, ThreadInv, [Next]_vars
             PROVE  WatcherInv' /\ ThreadInv'
  OBVIOUS
<1> USE ThreadsType DEF configVars, fsVars, dbVars, roundVars, threadVars
<1>t. /\ insertion_threads \in ThreadCounts /\ index \in 1 .. insertion_threads + 1
      /\ state \in [Threads -> {"idle", "filter", "insert", "done"}] /\ paths \in [Threads -> SUBSET Exists]
      /\ file_samples \in [Threads -> Seq(Rows)] /\ labels \in [Threads -> Seq(Rows)]
      /\ Exists \subseteq Files
  BY DEF TypeOK, Exists
<1>u. ASSUME UNCHANGED <<insertion_threads, index, state, paths, labels, file_samples, files>>,
             pc' = pc \/ (pc' \notin {"join", "joining"} /\ \A t \in Threads : state[t] \in {"idle", "done"})
      PROVE  WatcherInv' /\ ThreadInv'
  BY <1>t, <1>u, KnownSame DEF WatcherInv, ThreadInv, Threads
<1>d. ASSUME Die, UNCHANGED <<configVars, fsVars, dbVars>>
      PROVE  WatcherInv' /\ ThreadInv'
  BY <1>t, <1>d, KnownSame DEF Die, WatcherInv, ThreadInv, Threads
<1>1. CASE Tick \/ RequestStop
  BY <1>u, <1>1 DEF Tick, RequestStop
<1>2. ASSUME NEW f \in Files, NEW m \in 1 .. MaxClock, CreateFile(f, m)
      PROVE  WatcherInv' /\ ThreadInv'
  BY <1>u, <1>2 DEF CreateFile
<1>3. CASE StartFileWatcherThread \/ Restart \/ SeekThrows \/ SeekDataset \/ UpdateLastTimestamp \/ Sleep
  <2>1. \A t \in Threads : state[t] \in {"idle", "done"}
    BY <1>3 DEF WatcherInv, StartFileWatcherThread, Restart, SeekThrows, SeekDataset, UpdateLastTimestamp, Sleep
  <2>2. CASE ~UpdateLastTimestamp
    BY <1>u, <1>3, <2>1, <2>2 DEF StartFileWatcherThread, Restart, SeekThrows, SeekDataset, Sleep
  <2>3. CASE UpdateLastTimestamp
    BY <1>t, <2>1, <2>3, KnownSame DEF UpdateLastTimestamp, WatcherInv, ThreadInv, Threads
  <2> QED BY <2>2, <2>3
<1>4. CASE Crash \/ TerminateOnException
  BY <1>d, <1>4 DEF Crash, TerminateOnException
<1>5. ASSUME NEW t \in Threads, ThreadThrows(t)
      PROVE  WatcherInv' /\ ThreadInv'
  BY <1>t, <1>5, KnownSame DEF ThreadThrows, WatcherInv, ThreadInv, Threads
<1>6. CASE SearchForNewFiles
  <2>1. \A t \in Threads : state[t] \in {"idle", "done"} /\ labels[t] = <<>> /\ file_samples[t] = <<>>
    BY <1>6 DEF SearchForNewFiles, WatcherInv, ThreadInv
  <2>2. CASE listed' = <<>>
    <3>1. UNCHANGED <<insertion_threads, index, state, paths, labels, file_samples, files>> /\ pc' = "update"
      BY <1>6, <2>2 DEF SearchForNewFiles
    <3> QED BY <1>u, <2>1, <3>1
  <2>3. CASE listed' # <<>>
    <3>1. /\ paths' = [t \in Threads |-> ChunkOf(t)] /\ pc' = "join" /\ index' = 1
          /\ state' = [t \in Threads |-> IF ChunkOf(t) = {} THEN "done" ELSE "filter"]
          /\ UNCHANGED <<insertion_threads, file_samples, labels>> /\ Threads' = Threads
      BY <1>6, <2>3 DEF SearchForNewFiles, Threads
    <3>2. \A t \in Threads : \A u \in Threads \ {t} : ChunkOf(t) \cap ChunkOf(u) = {}
      <4>1. PICK S \in SUBSET (Exists \ present) : listed' \in SetToSeqs(present \cup S)
        BY <1>6 DEF SearchForNewFiles
      <4>2. present \cup S \subseteq Files
        BY <1>t DEF TypeOK
      <4>3. /\ listed' \in Seq(present \cup S)
            /\ \A i, j \in 1 .. Len(listed') : listed'[i] = listed'[j] => i = j
        BY <4>1, <4>2, Listings
      <4> QED BY <1>t, <4>3, ChunkPositions
    <3>3. WatcherInv'
      BY <1>t, <3>1 DEF WatcherInv
    <3>4. ThreadInv'
      BY <1>t, <2>1, <3>1, <3>2 DEF ThreadInv
    <3> QED BY <3>3, <3>4
  <2> QED BY <2>2, <2>3
<1>7. CASE InlineDone
  <2>1. \A t \in Threads : state[t] \in {"idle", "done"}
    BY <1>t, <1>7 DEF InlineDone
  <2> QED BY <1>u, <1>7, <2>1 DEF InlineDone
<1>8. CASE CheckThread
  BY <1>t, <1>8, KnownSame DEF CheckThread, WatcherInv, ThreadInv, Threads
<1>9. CASE JoinThread
  <2>1. index <= insertion_threads /\ \A t \in Threads : t < index + 1 => state[t] = "done"
    BY <1>t, <1>9 DEF JoinThread, WatcherInv
  <2>2. UNCHANGED <<insertion_threads, state, paths, labels, file_samples, files>> /\ Threads' = Threads
    BY <1>9 DEF JoinThread, Threads
  <2>3. WatcherInv'
    BY <1>t, <1>9, <2>1, <2>2 DEF JoinThread, WatcherInv
  <2>4. ThreadInv'
    BY <2>2, KnownSame DEF ThreadInv
  <2> QED BY <2>3, <2>4
<1>10. ASSUME NEW t \in Threads, FilterPaths(t)
       PROVE  WatcherInv' /\ ThreadInv'
  <2>1. /\ state[t] = "filter" /\ paths' = [paths EXCEPT ![t] = {f \in @ : Wanted(f)}]
        /\ state' = [state EXCEPT ![t] = IF paths'[t] = {} THEN "done" ELSE "insert"]
        /\ UNCHANGED <<insertion_threads, index, pc, labels, file_samples, files>> /\ Threads' = Threads
    BY <1>10 DEF FilterPaths, Threads
  <2>2. Known' = Known
    BY <2>1, KnownSame
  <2>3. paths'[t] \subseteq paths[t] /\ paths'[t] \cap Known = {}
    BY <1>t, <2>1 DEF Wanted
  <2>4. WatcherInv'
    BY <1>t, <2>1 DEF WatcherInv
  <2>5. ThreadInv'
    <3>1. /\ t \in DOMAIN paths /\ t \in DOMAIN state
          /\ \A u \in Threads : u # t => paths'[u] = paths[u] /\ state'[u] = state[u]
      BY <1>t, <2>1
    <3>2. \A u \in Threads : paths'[u] \subseteq paths[u]
      BY <2>3, <3>1
    <3>3. labels'[t] = <<>> /\ file_samples'[t] = <<>>
      BY <2>1 DEF ThreadInv
    <3>4. state'[t] = (IF paths'[t] = {} THEN "done" ELSE "insert")
      BY <2>1, <3>1
    <3> SUFFICES ASSUME NEW u \in Threads
                 PROVE  /\ state'[u] \in {"idle", "done"} => paths'[u] = {}
                        /\ state'[u] # "insert" => labels'[u] = <<>> /\ file_samples'[u] = <<>>
                        /\ state'[u] = "insert" => paths'[u] \cap Known = {}
                        /\ \A w \in Threads \ {u} : paths'[u] \cap paths'[w] = {}
      BY <2>1, <2>2 DEF ThreadInv
    <3>5. \A w \in Threads \ {u} : paths'[u] \cap paths'[w] = {}
      BY <3>2 DEF ThreadInv
    <3>6. CASE u = t
      BY <2>3, <3>3, <3>4, <3>5, <3>6
    <3>7. CASE u # t
      BY <2>1, <3>1, <3>5, <3>7 DEF ThreadInv
    <3> QED BY <3>6, <3>7
  <2> QED BY <2>4, <2>5
<1>11. ASSUME NEW t \in Threads, InsertFile(t)
       PROVE  WatcherInv' /\ ThreadInv'
  <2>1. PICK f \in paths[t] :
           /\ files' = Append(files, [path |-> f, updated_at |-> mtime[f]])
           /\ labels' = [labels EXCEPT ![t] = Labels(Len(files) + 1, f)]
           /\ paths' = [paths EXCEPT ![t] = @ \ {f}]
    BY <1>11 DEF InsertFile
  <2>2. state[t] = "insert" /\ UNCHANGED <<insertion_threads, index, pc, state, file_samples>> /\ Threads' = Threads
    BY <1>11 DEF InsertFile, Threads
  <2>3. Known' = Known \cup {f}
    <3> DEFINE r == [path |-> f, updated_at |-> mtime[f]]
    <3>1. files \in Seq(FileRow) /\ r \in FileRow /\ r.path = f
      BY <1>t DEF TypeOK, FileRow, Exists
    <3> HIDE DEF r
    <3>2. files' = Append(files, r)
      BY <2>1 DEF r
    <3> QED BY <3>1, <3>2, RowsGrow DEF Known
  <2>4. \A u \in Threads \ {t} : f \notin paths[u]
    BY <2>1 DEF ThreadInv
  <2>5. WatcherInv'
    BY <2>2 DEF WatcherInv
  <2>6. ThreadInv'
    <3>1. /\ paths'[t] = paths[t] \ {f} /\ paths[t] \cap Known = {}
          /\ \A u \in Threads \ {t} : paths'[u] = paths[u] /\ labels'[u] = labels[u]
      BY <1>t, <2>1, <2>2 DEF ThreadInv
    <3>2. ASSUME NEW v \in Threads
          PROVE  /\ state'[v] \in {"idle", "done"} => paths'[v] = {}
                 /\ state'[v] # "insert" => labels'[v] = <<>> /\ file_samples'[v] = <<>>
                 /\ state'[v] = "insert" => paths'[v] \cap Known' = {}
                 /\ \A u \in Threads \ {v} : paths'[v] \cap paths'[u] = {}
      <4>1. CASE v = t
        BY <2>2, <2>3, <3>1, <4>1 DEF ThreadInv
      <4>2. CASE v # t
        BY <2>2, <2>3, <2>4, <3>1, <4>2 DEF ThreadInv
      <4> QED BY <4>1, <4>2
    <3> QED BY <2>2, <3>2 DEF ThreadInv
  <2> QED BY <2>5, <2>6
<1>12. ASSUME NEW t \in Threads, PushSample(t)
       PROVE  WatcherInv' /\ ThreadInv'
  BY <1>t, <1>12, KnownSame DEF PushSample, WatcherInv, ThreadInv, Threads
<1>13. ASSUME NEW t \in Threads, InsertRest(t)
       PROVE  WatcherInv' /\ ThreadInv'
  BY <1>t, <1>13, KnownSame DEF InsertRest, WatcherInv, ThreadInv, Threads
<1>14. CASE UNCHANGED vars
  BY <1>u, <1>14 DEF vars
<1> QED BY <1>1, <1>2, <1>3, <1>4, <1>5, <1>6, <1>7, <1>8, <1>9, <1>10, <1>11, <1>12, <1>13, <1>14
        DEF Next, Environment, Watcher, InsertionThread
-----------------------------------------------------------------------------
(* Each path is entered once.                                              *)
LEMMA FilesStep ==
  TypeOK /\ ThreadInv /\ OneRowPerFile /\ [Next]_vars => OneRowPerFile'
<1> SUFFICES ASSUME TypeOK, ThreadInv, OneRowPerFile, [Next]_vars
             PROVE  OneRowPerFile'
  OBVIOUS
<1>1. CASE UNCHANGED files
  BY <1>1 DEF OneRowPerFile
<1>2. ASSUME NEW t \in Threads, InsertFile(t)
      PROVE  OneRowPerFile'
  <2>1. PICK f \in paths[t] : files' = Append(files, [path |-> f, updated_at |-> mtime[f]])
    BY <1>2 DEF InsertFile
  <2> DEFINE r == [path |-> f, updated_at |-> mtime[f]]
  <2>2. files \in Seq(FileRow) /\ r \in FileRow /\ r.path = f
    BY DEF TypeOK, FileRow, Exists
  <2>3. f \notin Known
    BY <1>2 DEF InsertFile, ThreadInv
  <2> HIDE DEF r
  <2>4. files' = Append(files, r)
    BY <2>1 DEF r
  <2> QED BY <2>2, <2>3, <2>4, RowsGrow DEF OneRowPerFile, Known
<1> QED BY <1>1, <1>2 DEF Next, Environment, Watcher, InsertionThread, vars, configVars, fsVars, dbVars,
         roundVars, threadVars, Tick, CreateFile, StartFileWatcherThread, RequestStop, Crash, Die,
         Restart, SeekDataset, SearchForNewFiles, FilterPaths, PushSample, InsertRest, ThreadThrows,
         InlineDone, CheckThread, JoinThread, TerminateOnException, UpdateLastTimestamp, Sleep, SeekThrows
-----------------------------------------------------------------------------
(* Each sample is entered once.                                            *)
LEMMA OncePrefix ==
  ASSUME NEW S, NEW a \in Seq(S), NEW b \in Seq(S), InOrderOnce(a \o b)
  PROVE  InOrderOnce(a)
<1> DEFINE c == a \o b
<1>1. /\ DOMAIN a = 1 .. Len(a) /\ DOMAIN c = 1 .. Len(a) + Len(b) /\ Len(a) \in Nat /\ Len(b) \in Nat
      /\ \A i \in 1 .. Len(a) : c[i] = a[i]
  BY Concatenation
<1>2. InOrderOnce(c)
  OBVIOUS
<1> HIDE DEF c
<1>3. \A p \in DOMAIN a : p \in DOMAIN c /\ c[p] = a[p] /\ p \in Nat
  BY <1>1
<1>4. \A p, q \in DOMAIN a : a[p] = a[q] => p = q
  BY <1>2, <1>3 DEF InOrderOnce
<1>5. ASSUME NEW p \in DOMAIN a, NEW i \in 0 .. a[p][2] - 1
      PROVE  \E q \in DOMAIN a : q < p /\ a[q] = <<a[p][1], i>>
  <2>1. PICK q \in DOMAIN c : q < p /\ c[q] = <<c[p][1], i>>
    BY <1>2, <1>3, <1>5 DEF InOrderOnce
  <2>2. q \in DOMAIN a
    BY <1>1, <2>1
  <2> QED BY <1>3, <2>1, <2>2
<1> QED BY <1>4, <1>5 DEF InOrderOnce

(* Rows of other files may be put in between.                              *)
LEMMA OnceWeave ==
  ASSUME NEW S, NEW a \in Seq(S), NEW b \in Seq(S), NEW c \in Seq(S),
         InOrderOnce(a \o b), InOrderOnce(a \o c),
         \A p \in DOMAIN b, q \in DOMAIN c : b[p][1] # c[q][1]
  PROVE  InOrderOnce((a \o b) \o c)
<1> DEFINE ab == a \o b
           ac == a \o c
           d == ab \o c
           m == Len(a)
           n == Len(b)
           l == Len(c)
<1>1. /\ m \in Nat /\ n \in Nat /\ l \in Nat /\ DOMAIN b = 1 .. n /\ DOMAIN c = 1 .. l
      /\ ab \in Seq(S) /\ Len(ab) = m + n /\ DOMAIN ab = 1 .. m + n
      /\ DOMAIN ac = 1 .. m + l /\ DOMAIN d = 1 .. m + n + l
  BY Concatenation
<1>2. /\ \A i \in 1 .. m : ab[i] = a[i] /\ ac[i] = a[i]
      /\ \A i \in 1 .. n : ab[m + i] = b[i]
      /\ \A i \in 1 .. l : ac[m + i] = c[i]
  BY Concatenation
<1>3. /\ \A i \in 1 .. m + n : d[i] = ab[i]
      /\ \A i \in 1 .. l : d[m + n + i] = c[i]
  <2> HIDE DEF ab
  <2>1. /\ \A i \in 1 .. Len(ab) : (ab \o c)[i] = ab[i]
        /\ \A i \in 1 .. Len(c) : (ab \o c)[Len(ab) + i] = c[i]
    BY <1>1, Concatenation
  <2>2. Len(ab) = m + n
    BY <1>1
  <2> HIDE DEF m, n
  <2> QED BY <2>1, <2>2
<1>4. InOrderOnce(ab) /\ InOrderOnce(ac)
  OBVIOUS
<1> HIDE DEF ab, ac, d, m, n, l
<1>5. ASSUME NEW p \in m + n + 1 .. m + n + l
      PROVE  p - n \in m + 1 .. m + l /\ d[p] = ac[p - n] /\ d[p] = c[p - n - m] /\ p - n - m \in 1 .. l
  <2> DEFINE i == p - n - m
  <2>1. i \in 1 .. l /\ p = m + n + i /\ p - n = m + i
    <3>1. m \in Nat /\ n \in Nat /\ l \in Nat
      BY <1>1
    <3> QED BY <3>1
  <2> HIDE DEF i
  <2> QED BY <1>1, <1>2, <1>3, <2>1
<1>6. \A p \in 1 .. m : d[p] = ac[p] /\ d[p] = ab[p] /\ p \in DOMAIN ab /\ p \in DOMAIN ac /\ p \in DOMAIN d
  BY <1>1, <1>2, <1>3
<1>7. ASSUME NEW p \in m + 1 .. m + n
      PROVE  d[p] = ab[p] /\ p - m \in 1 .. n /\ d[p] = b[p - m]
  <2> DEFINE i == p - m
  <2>1. i \in 1 .. n /\ p = m + i
    BY <1>1
  <2> HIDE DEF i
  <2> QED BY <1>1, <1>2, <1>3, <2>1
<1>8. ASSUME NEW p \in DOMAIN d, NEW q \in DOMAIN d, d[p] = d[q], p <= q
      PROVE  p = q
  <2>1. p \in Nat /\ q \in Nat
    BY <1>1
  <2>2. CASE q <= m + n
    BY <1>1, <1>3, <1>4, <1>8, <2>1, <2>2 DEF InOrderOnce
  <2>3. CASE q > m + n /\ p > m + n
    <3>0. p \in m + n + 1 .. m + n + l /\ q \in m + n + 1 .. m + n + l
      BY <1>1, <2>1, <2>3
    <3>1. ac[p - n] = ac[q - n] /\ p - n \in DOMAIN ac /\ q - n \in DOMAIN ac
      <4>1. /\ p - n \in m + 1 .. m + l /\ d[p] = ac[p - n]
            /\ q - n \in m + 1 .. m + l /\ d[q] = ac[q - n]
        BY <1>5, <3>0
      <4>2. p - n \in DOMAIN ac /\ q - n \in DOMAIN ac
        <5>1. \A i \in m + 1 .. m + l : i \in DOMAIN ac
          BY <1>1
        <5> QED BY <4>1, <5>1
      <4> QED BY <1>8, <4>1, <4>2
    <3>2. p - n = q - n
      BY <1>4, <3>1 DEF InOrderOnce
    <3> QED BY <1>1, <2>1, <3>2
  <2>4. CASE q > m + n /\ p <= m
    <3>0. p \in 1 .. m /\ q \in m + n + 1 .. m + n + l
      BY <1>1, <2>1, <2>4
    <3>1. ac[p] = ac[q - n] /\ p \in DOMAIN ac /\ q - n \in DOMAIN ac
      <4>1. q - n \in m + 1 .. m + l /\ d[q] = ac[q - n]
        BY <1>5, <3>0
      <4>2. d[p] = ac[p] /\ p \in DOMAIN ac
        BY <1>6, <3>0
      <4>3. \A i \in m + 1 .. m + l : i \in DOMAIN ac
        BY <1>1
      <4> QED BY <1>8, <4>1, <4>2, <4>3
    <3>2. p = q - n
      BY <1>4, <3>1 DEF InOrderOnce
    <3> QED BY <1>1, <2>1, <2>4, <3>2
  <2>5. CASE q > m + n /\ p > m /\ p <= m + n
    <3>1. b[p - m] = c[q - n - m] /\ p - m \in DOMAIN b /\ q - n - m \in DOMAIN c
      BY <1>1, <1>5, <1>7, <1>8, <2>1, <2>5
    <3> QED BY <3>1
  <2> QED BY <1>1, <2>1, <2>2, <2>3, <2>4, <2>5
<1>9. ASSUME NEW p \in DOMAIN d, NEW i \in 0 .. d[p][2] - 1
      PROVE  \E q \in DOMAIN d : q < p /\ d[q] = <<d[p][1], i>>
  <2>1. p \in Nat
    BY <1>1
  <2>2. CASE p <= m + n
    <3>1. p \in DOMAIN ab /\ d[p] = ab[p]
      BY <1>1, <1>3, <2>1, <2>2
    <3>2. PICK q \in DOMAIN ab : q < p /\ ab[q] = <<ab[p][1], i>>
      BY <1>4, <1>9, <3>1 DEF InOrderOnce
    <3>3. q \in DOMAIN d /\ d[q] = ab[q]
      BY <1>1, <1>3, <3>2
    <3> QED BY <3>1, <3>2, <3>3
  <2>3. CASE p > m + n
    <3>1. p - n \in DOMAIN ac /\ d[p] = ac[p - n]
      BY <1>1, <1>5, <2>1, <2>3
    <3>2. PICK q \in DOMAIN ac : q < p - n /\ ac[q] = <<ac[p - n][1], i>>
      BY <1>4, <1>9, <3>1 DEF InOrderOnce
    <3>3. q \in Nat /\ q >= 1
      BY <1>1, <3>2
    <3>4. CASE q <= m
      <4>1. q \in DOMAIN d /\ d[q] = ac[q] /\ q < p
        BY <1>1, <1>6, <2>1, <3>2, <3>3, <3>4
      <4> QED BY <3>1, <3>2, <4>1
    <3>5. CASE q > m
      <4> DEFINE r == q + n
      <4>1. r \in m + n + 1 .. m + n + l /\ r - n = q /\ r \in DOMAIN d /\ r < p
        BY <1>1, <2>1, <3>2, <3>3, <3>5
      <4> HIDE DEF r
      <4>2. d[r] = ac[q]
        BY <1>5, <4>1
      <4> QED BY <3>1, <3>2, <4>1, <4>2
    <3> QED BY <1>1, <3>3, <3>4, <3>5
  <2> QED BY <1>1, <2>1, <2>2, <2>3
<1>10. InOrderOnce(d)
  <2>1. \A p, q \in DOMAIN d : d[p] = d[q] => p = q
    <3> SUFFICES ASSUME NEW p \in DOMAIN d, NEW q \in DOMAIN d, d[p] = d[q]
                 PROVE  p = q
      OBVIOUS
    <3>1. p <= q \/ q <= p
      BY <1>1
    <3> QED BY <1>8, <3>1
  <2> QED BY <1>9, <2>1 DEF InOrderOnce
<1> QED BY <1>10 DEF d, ab

LEMMA OnceApart ==
  ASSUME NEW S, NEW a \in Seq(S), NEW b \in Seq(S), InOrderOnce(a), InOrderOnce(b),
         \A p \in DOMAIN a, q \in DOMAIN b : a[p][1] # b[q][1]
  PROVE  InOrderOnce(a \o b)
<1>1. <<>> \in Seq(S) /\ <<>> \o a = a /\ <<>> \o b = b
  BY ConcatEmptySeq
<1>2. InOrderOnce((<<>> \o a) \o b)
  BY <1>1, OnceWeave
<1> QED BY <1>1, <1>2

LEMMA LabelsOnce ==
  ASSUME NEW id, NEW f \in Files
  PROVE  InOrderOnce(Labels(id, f))
<1> DEFINE l == Labels(id, f)
           n == NumSamples[f]
<1>1. n \in Nat /\ DOMAIN l = 1 .. n /\ \A i \in 1 .. n : l[i] = <<id, i - 1>>
  BY LabelsRows DEF Labels
<1> HIDE DEF l, n
<1>2. \A p, q \in DOMAIN l : l[p] = l[q] => p = q
  BY <1>1
<1>3. ASSUME NEW p \in DOMAIN l, NEW i \in 0 .. l[p][2] - 1
      PROVE  \E q \in DOMAIN l : q < p /\ l[q] = <<l[p][1], i>>
  <2>1. l[p][1] = id /\ l[p][2] = p - 1
    BY <1>1
  <2>2. i + 1 \in DOMAIN l /\ i + 1 < p /\ l[i + 1] = <<id, i>>
    BY <1>1, <2>1
  <2> QED BY <2>1, <2>2
<1>4. InOrderOnce(l)
  BY <1>2, <1>3 DEF InOrderOnce
<1> QED BY <1>4 DEF l

LEMMA HeldType ==
  ASSUME TypeOK, NEW t \in Threads
  PROVE  /\ samples \in Seq(Rows) /\ file_samples[t] \in Seq(Rows) /\ labels[t] \in Seq(Rows)
         /\ Held(t) \in Seq(Rows) /\ samples \o Held(t) \in Seq(Rows)
         /\ samples \o Held(t) = (samples \o file_samples[t]) \o labels[t]
         /\ labels[t] = <<>> => Held(t) = file_samples[t]
<1>1. samples \in Seq(Rows) /\ file_samples[t] \in Seq(Rows) /\ labels[t] \in Seq(Rows)
  BY DEF TypeOK
<1>2. Held(t) \in Seq(Rows)
  BY <1>1, ConcatProperties DEF Held
<1>3. samples \o Held(t) \in Seq(Rows)
  BY <1>1, <1>2, ConcatProperties
<1>4. samples \o Held(t) = (samples \o file_samples[t]) \o labels[t]
  <2> DEFINE a == samples
             b == file_samples[t]
             c == labels[t]
  <2>1. a \in Seq(Rows) /\ b \in Seq(Rows) /\ c \in Seq(Rows)
    BY <1>1
  <2> HIDE DEF a, b, c
  <2>2. (a \o b) \o c = a \o (b \o c)
    BY <2>1, ConcatAssociative
  <2> QED BY <2>2 DEF Held, a, b, c
<1>5. labels[t] = <<>> => Held(t) = file_samples[t]
  BY <1>1, ConcatEmptySeq DEF Held
<1> QED BY <1>1, <1>2, <1>3, <1>4, <1>5

(* Threads may keep or lose what they hold.                                *)
LEMMA KeptOrLost ==
  ASSUME TypeOK, RowsInv, UNCHANGED <<files, samples, insertion_threads>>,
         \A t \in Threads : Held(t)' = Held(t) \/ Held(t)' = <<>>
  PROVE  RowsInv'
<1>1. Threads' = Threads
  BY DEF Threads
<1>2. \A p \in DOMAIN samples' : samples'[p] \in SamplesOf(samples'[p][1])
  BY <1>1 DEF RowsInv
<1>3. ASSUME NEW t \in Threads
      PROVE  /\ \A p \in DOMAIN Held(t)' : Held(t)'[p] \in SamplesOf(Held(t)'[p][1])
             /\ InOrderOnce(samples' \o Held(t)')
             /\ \A u \in Threads \ {t} : \A p \in DOMAIN Held(t)', q \in DOMAIN Held(u)' :
                  Held(t)'[p][1] # Held(u)'[q][1]
  <2>1. CASE Held(t)' = Held(t)
    <3>1. \A p \in DOMAIN Held(t)' : Held(t)'[p] \in SamplesOf(Held(t)'[p][1])
      BY <1>1, <2>1 DEF RowsInv
    <3>2. InOrderOnce(samples' \o Held(t)')
      BY <2>1 DEF RowsInv
    <3>3. ASSUME NEW u \in Threads \ {t}, NEW p \in DOMAIN Held(t)', NEW q \in DOMAIN Held(u)'
          PROVE  Held(t)'[p][1] # Held(u)'[q][1]
      BY <2>1, <3>3 DEF RowsInv
    <3> QED BY <3>1, <3>2, <3>3
  <2>2. CASE Held(t)' = <<>>
    <3>1. DOMAIN Held(t)' = {}
      BY <2>2
    <3>2. InOrderOnce(samples \o Held(t)) /\ samples \in Seq(Rows) /\ Held(t) \in Seq(Rows)
      BY HeldType DEF RowsInv
    <3>3. InOrderOnce(samples)
      BY <3>2, OncePrefix
    <3>4. samples' \o Held(t)' = samples
      BY <2>2, <3>2, ConcatEmptySeq
    <3> QED BY <3>1, <3>3, <3>4
  <2> QED BY <2>1, <2>2
<1> QED BY <1>1, <1>2, <1>3 DEF RowsInv, SamplesOf

(* A thread writes its buffer.                                             *)
LEMMA BufferWritten ==
  ASSUME TypeOK, RowsInv, UNCHANGED <<files, insertion_threads>>, NEW t \in Threads,
         samples' = samples \o file_samples[t], Held(t)' = labels[t],
         \A u \in Threads \ {t} : Held(u)' = Held(u)
  PROVE  RowsInv'
<1> DEFINE fs == file_samples[t]
           l == labels[t]
<1>1. Threads' = Threads
  BY DEF Threads
<1>2. /\ samples \in Seq(Rows) /\ fs \in Seq(Rows) /\ l \in Seq(Rows) /\ Held(t) = fs \o l
      /\ samples \o Held(t) = (samples \o fs) \o l
  BY HeldType DEF Held
<1> HIDE DEF fs, l
<1>3. samples' = samples \o fs /\ Held(t)' = l
  BY DEF fs, l
<1>4. /\ \A p \in DOMAIN fs : \E q \in DOMAIN Held(t) : fs[p] = Held(t)[q]
      /\ \A p \in DOMAIN l : \E q \in DOMAIN Held(t) : l[p] = Held(t)[q]
  <2> DEFINE h == Held(t)
  <2>1. /\ DOMAIN fs = 1 .. Len(fs) /\ DOMAIN l = 1 .. Len(l) /\ DOMAIN h = 1 .. Len(fs) + Len(l)
        /\ Len(fs) \in Nat /\ Len(l) \in Nat
        /\ \A i \in 1 .. Len(fs) : h[i] = fs[i]
        /\ \A i \in 1 .. Len(l) : h[Len(fs) + i] = l[i]
    BY <1>2, Concatenation
  <2> HIDE DEF h
  <2>2. \A p \in DOMAIN fs : p \in DOMAIN h /\ fs[p] = h[p]
    BY <2>1
  <2>3. \A p \in DOMAIN l : Len(fs) + p \in DOMAIN h /\ l[p] = h[Len(fs) + p]
    BY <2>1
  <2> QED BY <2>2, <2>3 DEF h
<1>5. /\ DOMAIN samples' = 1 .. Len(samples) + Len(fs) /\ DOMAIN samples = 1 .. Len(samples)
      /\ DOMAIN fs = 1 .. Len(fs) /\ Len(samples) \in Nat /\ Len(fs) \in Nat
      /\ \A i \in 1 .. Len(samples) : samples'[i] = samples[i]
      /\ \A i \in 1 .. Len(fs) : samples'[Len(samples) + i] = fs[i]
  BY <1>2, <1>3, Concatenation
<1>6. \A p \in DOMAIN samples' : samples'[p] \in SamplesOf(samples'[p][1])
  <2> SUFFICES ASSUME NEW p \in DOMAIN samples'
               PROVE  samples'[p] \in SamplesOf(samples'[p][1])
    BY <1>1
  <2>1. CASE p \in DOMAIN samples
    BY <1>5, <2>1 DEF RowsInv
  <2>2. CASE p \notin DOMAIN samples
    <3> DEFINE i == p - Len(samples)
    <3>1. i \in DOMAIN fs /\ p = Len(samples) + i
      BY <1>5, <2>2
    <3> HIDE DEF i
    <3>2. samples'[p] = fs[i]
      BY <1>5, <3>1
    <3> QED BY <1>4, <3>1, <3>2 DEF RowsInv
  <2> QED BY <2>1, <2>2
<1>7. ASSUME NEW u \in Threads
      PROVE  /\ \A p \in DOMAIN Held(u)' : \E q \in DOMAIN Held(u) : Held(u)'[p] = Held(u)[q]
             /\ InOrderOnce(samples' \o Held(u)')
  <2>1. CASE u = t
    <3>1. InOrderOnce(samples' \o Held(u)')
      BY <1>2, <1>3, <2>1 DEF RowsInv
    <3> QED BY <1>3, <1>4, <2>1, <3>1
  <2>2. CASE u # t
    <3>1. Held(u)' = Held(u) /\ Held(u) \in Seq(Rows) /\ InOrderOnce(samples \o Held(u))
      BY <2>2, HeldType DEF RowsInv
    <3>2. InOrderOnce(samples \o fs)
      <4>1. InOrderOnce((samples \o fs) \o l)
        BY <1>2 DEF RowsInv
      <4>2. samples \o fs \in Seq(Rows)
        BY <1>2, ConcatProperties
      <4> QED BY <1>2, <4>1, <4>2, OncePrefix
    <3>3. \A p \in DOMAIN fs, q \in DOMAIN Held(u) : fs[p][1] # Held(u)[q][1]
      BY <1>4, <2>2 DEF RowsInv
    <3>4. InOrderOnce((samples \o fs) \o Held(u))
      BY <1>2, <3>1, <3>2, <3>3, OnceWeave
    <3> QED BY <1>3, <3>1, <3>4
  <2> QED BY <2>1, <2>2
<1>8. ASSUME NEW u \in Threads
      PROVE  /\ \A p \in DOMAIN Held(u)' : Held(u)'[p] \in SamplesOf(Held(u)'[p][1])
             /\ \A v \in Threads \ {u} : \A p \in DOMAIN Held(u)', q \in DOMAIN Held(v)' :
                  Held(u)'[p][1] # Held(v)'[q][1]
  <2>1. ASSUME NEW p \in DOMAIN Held(u)'
        PROVE  Held(u)'[p] \in SamplesOf(Held(u)'[p][1])
    <3>1. PICK q \in DOMAIN Held(u) : Held(u)'[p] = Held(u)[q]
      BY <1>7, <2>1
    <3> QED BY <3>1 DEF RowsInv
  <2>2. ASSUME NEW v \in Threads \ {u}, NEW p \in DOMAIN Held(u)', NEW q \in DOMAIN Held(v)'
        PROVE  Held(u)'[p][1] # Held(v)'[q][1]
    <3>1. PICK i \in DOMAIN Held(u) : Held(u)'[p] = Held(u)[i]
      BY <1>7, <2>2
    <3>2. PICK j \in DOMAIN Held(v) : Held(v)'[q] = Held(v)[j]
      BY <1>7, <2>2
    <3> QED BY <2>2, <3>1, <3>2 DEF RowsInv
  <2> QED BY <1>1, <2>1, <2>2
<1> QED BY <1>1, <1>6, <1>7, <1>8 DEF RowsInv, SamplesOf

(* A thread enters a file: the rows it then holds are the file's.          *)
LEMMA FileEntered ==
  ASSUME TypeOK, RowsInv, NEW t \in Threads, InsertFile(t)
  PROVE  RowsInv'
<1>1. PICK f \in paths[t] :
         /\ files' = Append(files, [path |-> f, updated_at |-> mtime[f]])
         /\ labels' = [labels EXCEPT ![t] = Labels(Len(files) + 1, f)]
  BY DEF InsertFile
<1>2. labels[t] = <<>> /\ UNCHANGED <<samples, insertion_threads, file_samples>> /\ Threads' = Threads
  BY DEF InsertFile, configVars, Threads
<1> DEFINE id == Len(files) + 1
           r == [path |-> f, updated_at |-> mtime[f]]
           fs == file_samples[t]
           l == Labels(id, f)
<1>3. f \in Files /\ files \in Seq(FileRow) /\ r \in FileRow /\ r.path = f
  BY DEF TypeOK, FileRow, Exists
<1>4. /\ files' \in Seq(FileRow) /\ DOMAIN files' = DOMAIN files \cup {id} /\ id \notin DOMAIN files
      /\ files'[id].path = f /\ \A i \in DOMAIN files : files'[i] = files[i]
      /\ Rows \subseteq Rows' /\ Seq(Rows) \subseteq Seq(Rows')
  <2> HIDE DEF r
  <2>1. files' = Append(files, r)
    BY <1>1 DEF r
  <2> QED BY <1>3, <2>1, RowsGrow
<1>5. /\ l \in Seq({id} \X Nat) /\ Len(l) = NumSamples[f] /\ NumSamples[f] \in Nat
      /\ \A i \in 1 .. NumSamples[f] : l[i] = <<id, i - 1>>
  BY <1>3, LabelsRows
<1>6. InOrderOnce(l)
  BY <1>3, LabelsOnce
<1> HIDE DEF id, r, l
<1>7. l \in Seq(Rows')
  <2>1. {id} \X Nat \subseteq Rows'
    BY <1>4 DEF Rows
  <2> QED BY <1>5, <2>1, SeqMonotonic
<1>8. /\ samples \in Seq(Rows) /\ fs \in Seq(Rows) /\ Held(t) = fs /\ samples \o fs \in Seq(Rows)
      /\ \A u \in Threads : Held(u) \in Seq(Rows)
  BY <1>2, HeldType
<1>9. labels'[t] = l /\ Held(t)' = fs \o l /\ \A u \in Threads \ {t} : Held(u)' = Held(u)
  BY <1>1, <1>2 DEF Held, TypeOK, id, l
<1> HIDE DEF fs
<1> DEFINE SO(n) == {<<n, i - 1>> : i \in 1 .. NumSamples[files'[n].path]}
<1>10. ASSUME NEW row \in Rows, row \in SamplesOf(row[1])
       PROVE  row[1] # id /\ row \in SO(row[1])
  <2>1. row[1] \in DOMAIN files
    BY DEF Rows
  <2> QED BY <1>4, <1>10, <2>1 DEF SamplesOf
<1>11. DOMAIN l = 1 .. Len(l) /\ \A i \in DOMAIN l : l[i][1] = id /\ l[i] \in SO(id)
  <2>1. DOMAIN l = 1 .. NumSamples[f]
    BY <1>5
  <2>2. ASSUME NEW i \in DOMAIN l
        PROVE  l[i][1] = id /\ l[i] \in SO(id)
    <3>1. l[i] = <<id, i - 1>> /\ i \in 1 .. NumSamples[files'[id].path]
      BY <1>4, <1>5, <2>1
    <3> QED BY <3>1
  <2> QED BY <1>5, <2>1, <2>2
<1> HIDE DEF SO
<1>12. \A p \in DOMAIN samples : samples[p] \in Rows /\ samples[p] \in SamplesOf(samples[p][1])
  BY <1>8 DEF RowsInv
<1>13. ASSUME NEW u \in Threads
       PROVE  \A p \in DOMAIN Held(u) : Held(u)[p] \in Rows /\ Held(u)[p] \in SamplesOf(Held(u)[p][1])
  BY <1>8 DEF RowsInv
<1>14. \A p \in DOMAIN (fs \o l) : IF p <= Len(fs) THEN p \in DOMAIN fs /\ (fs \o l)[p] = fs[p]
                                                   ELSE (fs \o l)[p][1] = id /\ (fs \o l)[p] \in SO(id)
  <2> DEFINE h == fs \o l
  <2>1. fs \in Seq(Rows')
    BY <1>4, <1>8
  <2>2. /\ DOMAIN fs = 1 .. Len(fs) /\ DOMAIN h = 1 .. Len(fs) + Len(l) /\ Len(fs) \in Nat /\ Len(l) \in Nat
        /\ \A i \in 1 .. Len(fs) : h[i] = fs[i]
        /\ \A i \in 1 .. Len(l) : h[Len(fs) + i] = l[i]
    BY <1>7, <2>1, Concatenation
  <2> HIDE DEF h
  <2> SUFFICES ASSUME NEW p \in DOMAIN h
               PROVE  IF p <= Len(fs) THEN p \in DOMAIN fs /\ h[p] = fs[p] ELSE h[p][1] = id /\ h[p] \in SO(id)
    BY DEF h
  <2>3. CASE p <= Len(fs)
    BY <2>2, <2>3
  <2>4. CASE p > Len(fs)
    <3> DEFINE i == p - Len(fs)
    <3>1. i \in 1 .. Len(l) /\ p = Len(fs) + i
      BY <2>2, <2>4
    <3> HIDE DEF i
    <3> QED BY <1>11, <2>2, <2>4, <3>1
  <2> QED BY <2>2, <2>3, <2>4
<1>15. InOrderOnce(samples \o (fs \o l))
  <2> DEFINE a == samples \o fs
  <2>1. /\ a \in Seq(Rows') /\ samples \in Seq(Rows') /\ fs \in Seq(Rows') /\ InOrderOnce(a)
        /\ a \in Seq(Rows)
    BY <1>4, <1>8 DEF RowsInv
  <2>2. a \o l = samples \o (fs \o l)
    <3> DEFINE b == samples
    <3>1. (b \o fs) \o l = b \o (fs \o l)
      <4>1. b \in Seq(Rows')
        BY <2>1
      <4> HIDE DEF b
      <4> QED BY <1>7, <2>1, <4>1, ConcatAssociative
    <3> QED BY <3>1
  <2> HIDE DEF a
  <2>3. \A p \in DOMAIN a, q \in DOMAIN l : a[p][1] # l[q][1]
    BY <1>4, <1>11, <2>1 DEF Rows
  <2>4. InOrderOnce(a \o l)
    BY <1>6, <1>7, <2>1, <2>3, OnceApart
  <2> QED BY <2>2, <2>4
<1>16. ASSUME NEW u \in Threads, NEW p \in DOMAIN Held(u)'
       PROVE  /\ Held(u)'[p] \in SO(Held(u)'[p][1])
              /\ \/ u = t /\ Held(u)'[p][1] = id
                 \/ p \in DOMAIN Held(u) /\ Held(u)'[p] = Held(u)[p] /\ Held(u)[p][1] # id
  <2>1. CASE u = t /\ p > Len(fs)
    BY <1>9, <1>14, <1>16, <2>1
  <2>2. CASE u = t /\ p <= Len(fs)
    BY <1>8, <1>9, <1>10, <1>13, <1>14, <1>16, <2>2
  <2>3. CASE u # t
    BY <1>9, <1>10, <1>13, <1>16, <2>3
  <2>4. u = t => p \in Nat /\ Len(fs) \in Nat
    BY <1>4, <1>7, <1>8, <1>9, <1>16, Concatenation
  <2> QED BY <2>1, <2>2, <2>3, <2>4
<1>17. ASSUME NEW u \in Threads, NEW v \in Threads \ {u}, NEW p \in DOMAIN Held(u)', NEW q \in DOMAIN Held(v)'
       PROVE  Held(u)'[p][1] # Held(v)'[q][1]
  <2>1. \/ u = t /\ Held(u)'[p][1] = id
        \/ p \in DOMAIN Held(u) /\ Held(u)'[p] = Held(u)[p] /\ Held(u)[p][1] # id
    BY <1>16, <1>17
  <2>2. \/ v = t /\ Held(v)'[q][1] = id
        \/ q \in DOMAIN Held(v) /\ Held(v)'[q] = Held(v)[q] /\ Held(v)[q][1] # id
    BY <1>16, <1>17
  <2> QED BY <1>17, <2>1, <2>2 DEF RowsInv
<1>18. ASSUME NEW u \in Threads
       PROVE  InOrderOnce(samples' \o Held(u)')
  <2>1. CASE u = t
    BY <1>2, <1>9, <1>15, <2>1
  <2>2. CASE u # t
    BY <1>2, <1>9, <2>2 DEF RowsInv
  <2> QED BY <2>1, <2>2
<1>19. \A p \in DOMAIN samples' : samples'[p] \in SO(samples'[p][1])
  BY <1>2, <1>10, <1>12
<1> QED BY <1>2, <1>16, <1>17, <1>18, <1>19 DEF RowsInv, SamplesOf, SO

LEMMA RowsStep ==
  TypeOK /\ ThreadInv /\ RowsInv /\ [Next]_vars => RowsInv'
<1> SUFFICES ASSUME TypeOK, ThreadInv, RowsInv, [Next]_vars
             PROVE  RowsInv'
  OBVIOUS
<1> USE ThreadsType DEF configVars, fsVars, dbVars, roundVars, threadVars
<1>1. CASE UNCHANGED <<files, samples, insertion_threads, file_samples, labels>>
  BY <1>1, KeptOrLost DEF Held
<1>2. ASSUME Die, UNCHANGED <<configVars, fsVars, dbVars>>
      PROVE  RowsInv'
  <2>1. ASSUME NEW t \in Threads
        PROVE  Held(t)' = <<>>
    <3>1. file_samples'[t] = <<>> /\ labels'[t] = <<>> /\ <<>> \in Seq(Rows)
      BY <1>2 DEF Die
    <3>2. <<>> \o <<>> = <<>>
      BY <3>1, ConcatEmptySeq
    <3> QED BY <3>1, <3>2 DEF Held
  <2> QED BY <1>2, <2>1, KeptOrLost
<1>3. ASSUME NEW t \in Threads, ThreadThrows(t)
      PROVE  RowsInv'
  <2>1. /\ file_samples' = [file_samples EXCEPT ![t] = <<>>] /\ labels' = [labels EXCEPT ![t] = <<>>]
        /\ UNCHANGED <<files, samples, insertion_threads>>
    BY <1>3 DEF ThreadThrows
  <2>2. <<>> \o <<>> = <<>> /\ <<>> \in Seq(Rows)
    BY ConcatEmptySeq
  <2>3. ASSUME NEW u \in Threads
        PROVE  Held(u)' = Held(u) \/ Held(u)' = <<>>
    <3>1. CASE u = t
      BY <2>1, <2>2, <3>1 DEF Held, TypeOK
    <3>2. CASE u # t
      BY <2>1, <3>2 DEF Held, TypeOK
    <3> QED BY <3>1, <3>2
  <2> QED BY <2>1, <2>3, KeptOrLost
<1>4. CASE SearchForNewFiles
  BY <1>1, <1>4 DEF SearchForNewFiles
<1>5. ASSUME NEW t \in Threads, InsertFile(t)
      PROVE  RowsInv'
  BY <1>5, FileEntered
<1>6. ASSUME NEW t \in Threads, PushSample(t)
      PROVE  RowsInv'
  <2> DEFINE fs == file_samples[t]
             l == labels[t]
  <2>1. /\ fs \in Seq(Rows) /\ l \in Seq(Rows) /\ l # <<>> /\ labels' = [labels EXCEPT ![t] = Tail(l)]
        /\ UNCHANGED <<files, insertion_threads>>
    BY <1>6 DEF PushSample, TypeOK
  <2>2. \A u \in Threads \ {t} : Held(u)' = Held(u)
    BY <1>6 DEF PushSample, Held, TypeOK
  <2>3. CASE BufferFull(t)
    <3>1. samples' = samples \o fs /\ file_samples'[t] = Append(<<>>, Head(l)) /\ labels'[t] = Tail(l)
      BY <1>6, <2>3 DEF PushSample, InsertFileSamples, Emptied, TypeOK
    <3>2. Append(<<>>, Head(l)) \o Tail(l) = l
      <4>1. <<>> \in Seq(Rows) /\ <<>> \o l = l
        BY <2>1, ConcatEmptySeq
      <4> HIDE DEF l
      <4> QED BY <2>1, <4>1, HeadMoves
    <3>3. Held(t)' = l
      BY <3>1, <3>2 DEF Held
    <3> QED BY <2>1, <2>2, <3>1, <3>3, BufferWritten
  <2>4. CASE ~BufferFull(t)
    <3>1. samples' = samples /\ file_samples'[t] = Append(fs, Head(l)) /\ labels'[t] = Tail(l)
      BY <1>6, <2>4 DEF PushSample, TypeOK
    <3>2. Append(fs, Head(l)) \o Tail(l) = fs \o l
      <4> HIDE DEF l, fs
      <4> QED BY <2>1, HeadMoves
    <3>3. Held(t)' = Held(t)
      BY <3>1, <3>2 DEF Held
    <3> QED BY <2>1, <2>2, <3>1, <3>3, KeptOrLost
  <2> QED BY <2>3, <2>4
<1>7. ASSUME NEW t \in Threads, InsertRest(t)
      PROVE  RowsInv'
  <2>1. /\ labels[t] = <<>> /\ samples' = samples \o file_samples[t] /\ UNCHANGED <<files, insertion_threads, labels>>
        /\ file_samples' = [file_samples EXCEPT ![t] = <<>>]
    BY <1>7 DEF InsertRest, InsertFileSamples
  <2>2. <<>> \o <<>> = <<>> /\ <<>> \in Seq(Rows)
    BY ConcatEmptySeq
  <2>3. Held(t)' = labels[t] /\ \A u \in Threads \ {t} : Held(u)' = Held(u)
    BY <2>1, <2>2 DEF Held, TypeOK
  <2> QED BY <2>1, <2>3, BufferWritten
<1> QED BY <1>1, <1>2, <1>3, <1>4, <1>5, <1>6, <1>7 DEF Next, Environment, Watcher, InsertionThread, vars,
         Tick, CreateFile, StartFileWatcherThread, RequestStop, Crash, Restart, SeekDataset, FilterPaths,
         InlineDone, CheckThread, JoinThread, TerminateOnException, UpdateLastTimestamp, Sleep, SeekThrows
-----------------------------------------------------------------------------
LEMMA InitIInv == Init => IInv
<1> SUFFICES ASSUME Init PROVE IInv
  OBVIOUS
<1>1. /\ insertion_threads \in ThreadCounts /\ files = <<>> /\ samples = <<>> /\ pc = "none" /\ index = 1
      /\ state = [t \in Threads |-> "idle"] /\ paths = [t \in Threads |-> {}]
      /\ file_samples = [t \in Threads |-> <<>>] /\ labels = [t \in Threads |-> <<>>]
  BY DEF Init
<1>2. TypeOK
  <2>1. /\ files \in Seq([path : Files, updated_at : 1 .. MaxClock]) /\ samples \in Seq(Rows)
        /\ listed \in Seq(Exists) /\ present \subseteq Exists /\ in_time \subseteq Exists
    BY DEF Init
  <2>2. /\ file_samples \in [Threads -> Seq(Rows)] /\ labels \in [Threads -> Seq(Rows)]
        /\ \A t \in Threads : Len(file_samples[t]) <= sample_dbinsertion_batchsize
    BY <1>1, WatcherAssumption
  <2>3. index \in 1 .. insertion_threads + 1
    BY <1>1, ThreadsType
  <2>4. /\ state \in [Threads -> {"idle", "filter", "insert", "done"}] /\ paths \in [Threads -> SUBSET Exists]
        /\ mtime \in [Files -> 0 .. MaxClock]
    BY <1>1, WatcherAssumption DEF Init
  <2>5. exception_thrown \in [Threads -> BOOLEAN]
    BY DEF Init
  <2>6. stop_file_watcher \in BOOLEAN /\ ignore_last_timestamp \in BOOLEAN
    BY DEF Init
  <2>7. /\ clock \in 1 .. MaxClock /\ last_timestamp \in 0 .. MaxClock /\ timestamp \in 0 .. MaxClock
        /\ disturbances \in 0 .. MaxDisturbances
    BY WatcherAssumption DEF Init
  <2> QED BY <1>1, <2>1, <2>2, <2>3, <2>4, <2>5, <2>6, <2>7 DEF TypeOK
<1>3. WatcherInv /\ ThreadInv /\ OneRowPerFile
  BY <1>1 DEF WatcherInv, ThreadInv, OneRowPerFile
<1>4. RowsInv
  <2>1. <<>> \o <<>> = <<>> /\ <<>> \in Seq(Rows)
    BY ConcatEmptySeq
  <2>2. \A t \in Threads : Held(t) = <<>>
    BY <1>1, <2>1 DEF Held
  <2>3. InOrderOnce(<<>>)
    BY DEF InOrderOnce
  <2> QED BY <1>1, <2>1, <2>2, <2>3 DEF RowsInv
<1> QED BY <1>2, <1>3, <1>4 DEF IInv

LEMMA NextIInv == IInv /\ [Next]_vars => IInv'
BY TypeStep, ControlStep, FilesStep, RowsStep DEF IInv

LEMMA InvariantHolds == Spec => []IInv
BY InitIInv, NextIInv, PTL DEF Spec

(* The watcher's state and the tables have their types.                    *)
THEOREM TypeCorrect == Spec => []TypeOK
BY InvariantHolds, PTL DEF IInv

(* However the paths of a round are dealt to any number of threads, and    *)
(* wherever a thread throws, a thread is destroyed or the process dies:    *)
(* one row per file, and of each file the first samples, each once.        *)
THEOREM EnteredOnce == Spec => []EachFileOnce
<1>1. IInv => EachFileOnce
  <2> SUFFICES ASSUME IInv PROVE EachFileOnce
    OBVIOUS
  <2>1. insertion_threads \in ThreadCounts
    BY DEF IInv, TypeOK
  <2>2. PICK t \in Threads : TRUE
    BY <2>1, ThreadsType
  <2>3. InOrderOnce(samples \o Held(t)) /\ samples \in Seq(Rows) /\ Held(t) \in Seq(Rows)
    BY HeldType DEF IInv, RowsInv
  <2>4. InOrderOnce(samples)
    BY <2>3, OncePrefix
  <2> QED BY <2>4 DEF IInv, RowsInv, OneRowPerFile, EachFileOnce
<1> QED BY <1>1, InvariantHolds, PTL
=============================================================================
