---------------------------- MODULE OnlineDataset ----------------------------
(***************************************************************************)
(* The dataset of a dataloader worker at the trainer server                *)
(* (trainer_server/internal/dataset/online_dataset.py).  A trigger's       *)
(* training set is split into partitions.  The consumer -- the training    *)
(* loop pulling from __iter__ -- reads them one after the other, while     *)
(* fetch threads started ahead of it stream the next ones from storage     *)
(* into a container per partition.                                         *)
(*                                                                         *)
(* An item is its index within its partition; keys, labels and weights     *)
(* travel with it and are left out.  A partition's lock makes one step of  *)
(* what is done under it.  Waiting on a partition's condition variable     *)
(* ends after a second at the latest, so it is just the next poll.         *)
(***************************************************************************)
EXTENDS Integers, Sequences, FiniteSets

CONSTANTS
  MaxPartitions,    \* partition ids are 0 .. MaxPartitions - 1
  PartitionCounts,  \* how many partitions the key source may report
  PrefetchCounts,   \* values of num_prefetched_partitions
  ParallelRequests, \* values of parallel_prefetch_requests
  Sizes,            \* how many items a partition may have
  MaxEpochs         \* bound: how often the dataset is iterated

ASSUME DatasetAssumption ==
  /\ MaxPartitions \in Nat
  /\ PartitionCounts \subseteq 0 .. MaxPartitions
  /\ PrefetchCounts \subseteq Nat
  /\ ParallelRequests \subseteq Nat \ {0}
  /\ Sizes \subseteq Nat
  /\ MaxEpochs \in Nat

VARIABLES
  size,                       \* items storage streams for each partition: a key
                              \* it fails to read is missing, without an error
  num_partitions, num_prefetched_partitions, parallel_prefetch_requests,
  launched_prefetches, next_partition_to_fetch,
  thread,                     \* the fetch thread of each partition
  has_callback,               \* whether it may launch another prefetch
  partition_valid, partition_valid_until,
  container,                  \* partitions held in _thread_data_container
  epoch, pc, start_calls,     \* the consumer: iterations begun, where it is
  partition_id, last_idx,
  yielded                     \* items of each partition yielded this epoch

configVars == <<size, num_partitions, num_prefetched_partitions, parallel_prefetch_requests>>
launchVars == <<launched_prefetches, next_partition_to_fetch, has_callback>>
dataVars == <<partition_valid, partition_valid_until, container>>
consumerVars == <<epoch, pc, start_calls, partition_id, last_idx, yielded>>
vars == <<configVars, launchVars, thread, dataVars, consumerVars>>

Partitions == 0 .. MaxPartitions - 1
Launched(p) == p < next_partition_to_fetch
Items(lo, hi) == [i \in 1 .. hi - lo |-> lo + i]   \* indices lo + 1 .. hi
Smaller(a, b) == IF a < b THEN a ELSE b
-----------------------------------------------------------------------------
(* _prefetch_partition, all of it under _start_prefetch_lock; threads is   *)
(* the state of the threads before it launches another one.                *)
MayPrefetch(maybe_continue) ==
  /\ num_prefetched_partitions >= 1
  /\ next_partition_to_fetch < num_partitions
  /\ ~(maybe_continue /\ launched_prefetches >= num_prefetched_partitions)

Prefetch(maybe_continue, threads) ==
  IF MayPrefetch(maybe_continue)
    THEN LET p == next_partition_to_fetch
         IN /\ launched_prefetches' = launched_prefetches + (IF maybe_continue THEN 1 ELSE 0)
            /\ container' = container \cup {p}
            /\ partition_valid' = [partition_valid EXCEPT ![p] = FALSE]
            /\ partition_valid_until' = [partition_valid_until EXCEPT ![p] = -1]
            /\ has_callback' = [has_callback EXCEPT ![p] = maybe_continue]
            /\ thread' = [threads EXCEPT ![p] = "fetching"]
            /\ next_partition_to_fetch' = p + 1
    ELSE /\ thread' = threads
         /\ UNCHANGED <<launchVars, dataVars>>
-----------------------------------------------------------------------------
(* The fetch thread of partition p: _get_data.  A response of storage is   *)
(* appended under the partition's lock; after the last one the partition   *)
(* is marked valid, then the callback runs.                                *)
ReceiveResponse(p) ==
  /\ thread[p] = "fetching"
  /\ \E n \in 1 .. size[p] - 1 - partition_valid_until[p] :
       partition_valid_until' = [partition_valid_until EXCEPT ![p] = @ + n]
  /\ UNCHANGED <<configVars, launchVars, thread, partition_valid, container, consumerVars>>

StreamEndedOffByOne(p) ==  \* mutant: an index taken for a count
  partition_valid_until[p] = size[p]
StreamEnded(p) == partition_valid_until[p] = size[p] - 1

MarkValid(p) ==
  /\ thread[p] = "fetching" /\ StreamEnded(p)
  /\ partition_valid' = [partition_valid EXCEPT ![p] = TRUE]
  /\ thread' = [thread EXCEPT ![p] = IF has_callback[p] THEN "callback" ELSE "finished"]
  /\ UNCHANGED <<configVars, launchVars, partition_valid_until, container, consumerVars>>

(* callback_func: the limit is read without the lock, and again under it.  *)
CallbackCheck(p) ==
  /\ thread[p] = "callback"
  /\ thread' = [thread EXCEPT ![p] =
       IF launched_prefetches < num_prefetched_partitions THEN "prefetching" ELSE "finished"]
  /\ UNCHANGED <<configVars, launchVars, dataVars, consumerVars>>

CallbackPrefetch(p) ==
  /\ thread[p] = "prefetching"
  /\ Prefetch(TRUE, [thread EXCEPT ![p] = "finished"])
  /\ UNCHANGED <<configVars, consumerVars>>

(* The request to selector or storage raises: the thread dies and nobody   *)
(* is told.                                                                *)
FetchFails(p) ==
  /\ thread[p] = "fetching"
  /\ thread' = [thread EXCEPT ![p] = "failed"]
  /\ UNCHANGED <<configVars, launchVars, dataVars, consumerVars>>
-----------------------------------------------------------------------------
(* The consumer.  __iter__ reinitialises the prefetching structures, but   *)
(* not _launched_prefetches.                                               *)
StartCallsUnlimited(prefetched) ==   \* mutant: the number to prefetch is ignored
  IF prefetched = 0 THEN 0 ELSE parallel_prefetch_requests
StartCalls(prefetched) == Smaller(prefetched, parallel_prefetch_requests)

LaunchedAtStart == launched_prefetches
BeginEpoch ==
  /\ pc = "idle" /\ epoch < MaxEpochs
  /\ epoch' = epoch + 1
  /\ num_prefetched_partitions' = Smaller(num_prefetched_partitions, num_partitions)
  /\ launched_prefetches' = LaunchedAtStart
  /\ next_partition_to_fetch' = 0
  /\ has_callback' = [p \in Partitions |-> FALSE]
  /\ thread' = [p \in Partitions |-> "none"]
  /\ partition_valid' = [p \in Partitions |-> FALSE]
  /\ partition_valid_until' = [p \in Partitions |-> -1]
  /\ container' = {}
  /\ start_calls' = StartCalls(num_prefetched_partitions')
  /\ partition_id' = 0 /\ last_idx' = -1
  /\ yielded' = [p \in Partitions |-> <<>>]
  /\ pc' = "start"
  /\ UNCHANGED <<size, num_partitions, parallel_prefetch_requests>>

(* start_prefetching, one of its calls of _prefetch_partition.             *)
StartPrefetching ==
  /\ pc = "start" /\ start_calls > 0
  /\ Prefetch(num_prefetched_partitions > parallel_prefetch_requests, thread)
  /\ start_calls' = start_calls - 1
  /\ UNCHANGED <<configVars, epoch, pc, partition_id, last_idx, yielded>>

(* all_partition_generator: "As we consume one partition, prefetch exactly *)
(* one more partition"; none for the last one.                             *)
LastPartitionMutant == partition_id >= num_partitions - 2  \* mutant: off by one
LastPartition == partition_id >= num_partitions - 1

BeginPartition ==
  /\ pc = "start" /\ start_calls = 0
  /\ partition_id < num_partitions
  /\ last_idx' = -1
  /\ IF num_prefetched_partitions > 0
       THEN /\ IF LastPartition THEN UNCHANGED <<launchVars, thread, dataVars>>
                                ELSE Prefetch(FALSE, thread)
            /\ pc' = "poll"
       ELSE /\ pc' = "direct"
            /\ UNCHANGED <<launchVars, thread, dataVars>>
  /\ UNCHANGED <<configVars, epoch, start_calls, partition_id, yielded>>

EndEpoch ==
  /\ pc = "start" /\ start_calls = 0
  /\ partition_id >= num_partitions
  /\ pc' = "idle"
  /\ UNCHANGED <<configVars, launchVars, thread, dataVars, epoch, start_calls, partition_id,
                 last_idx, yielded>>

(* _fetch_partition_noprefetch: fetched and yielded in the consumer.       *)
FetchDirectly ==
  /\ pc = "direct"
  /\ yielded' = [yielded EXCEPT ![partition_id] = Items(-1, size[partition_id] - 1)]
  /\ partition_id' = partition_id + 1
  /\ pc' = "start"
  /\ UNCHANGED <<configVars, launchVars, thread, dataVars, epoch, start_calls, last_idx>>

FetchDirectlyFails ==
  /\ pc = "direct"
  /\ pc' = "fetch_error"
  /\ UNCHANGED <<configVars, launchVars, thread, dataVars, epoch, start_calls, partition_id,
                 last_idx, yielded>>

(* prefetched_partition_generator: is the partition complete?              *)
PollPartition ==
  /\ pc = "poll"
  /\ pc' = IF Launched(partition_id) /\ partition_valid[partition_id] THEN "join" ELSE "read"
  /\ UNCHANGED <<configVars, launchVars, thread, dataVars, epoch, start_calls, partition_id,
                 last_idx, yielded>>

YieldFrom(lo, hi) ==
  yielded' = [yielded EXCEPT ![partition_id] = @ \o Items(lo, hi)]

(* If not, yield what arrived since the last look.  A partition that was   *)
(* never launched has no lock: KeyError.                                   *)
LastIdxForgotten == last_idx  \* mutant: last_idx is not advanced
LastIdxAfterRead == partition_valid_until[partition_id]

ReadAvailable ==
  /\ pc = "read"
  /\ IF Launched(partition_id)
       THEN /\ YieldFrom(last_idx, partition_valid_until[partition_id])
            /\ last_idx' = LastIdxAfterRead
            /\ pc' = "poll"
       ELSE /\ pc' = "key_error"
            /\ UNCHANGED <<last_idx, yielded>>
  /\ UNCHANGED <<configVars, launchVars, thread, dataVars, epoch, start_calls, partition_id>>

(* If so, join the thread, yield the rest and clear the partition.         *)
ContainerNotCleared == container   \* mutant: _clear_partition keeps the data
ContainerCleared == container \ {partition_id}

JoinAndClear ==
  /\ pc = "join" /\ thread[partition_id] = "finished"
  /\ YieldFrom(last_idx, partition_valid_until[partition_id])
  /\ partition_valid' = [partition_valid EXCEPT ![partition_id] = FALSE]
  /\ partition_valid_until' = [partition_valid_until EXCEPT ![partition_id] = -1]
  /\ container' = ContainerCleared
  /\ partition_id' = partition_id + 1
  /\ pc' = "start"
  /\ UNCHANGED <<configVars, launchVars, thread, epoch, start_calls, last_idx>>
-----------------------------------------------------------------------------
Init ==
  /\ size \in [Partitions -> Sizes]
  /\ num_partitions \in PartitionCounts
  /\ num_prefetched_partitions \in PrefetchCounts
  /\ parallel_prefetch_requests \in ParallelRequests
  /\ launched_prefetches = 0 /\ next_partition_to_fetch = 0
  /\ has_callback = [p \in Partitions |-> FALSE]
  /\ thread = [p \in Partitions |-> "none"]
  /\ partition_valid = [p \in Partitions |-> FALSE]
  /\ partition_valid_until = [p \in Partitions |-> -1]
  /\ container = {}
  /\ epoch = 0 /\ pc = "idle" /\ start_calls = 0
  /\ partition_id = 0 /\ last_idx = -1
  /\ yielded = [p \in Partitions |-> <<>>]

Consumer ==
  \/ BeginEpoch \/ StartPrefetching \/ BeginPartition \/ EndEpoch
  \/ FetchDirectly \/ PollPartition \/ ReadAvailable \/ JoinAndClear

FetchThread(p) ==
  ReceiveResponse(p) \/ MarkValid(p) \/ CallbackCheck(p) \/ CallbackPrefetch(p)

Next ==
  \/ Consumer
  \/ FetchDirectlyFails
  \/ \E p \in Partitions : FetchThread(p) \/ FetchFails(p)

(* The training loop keeps pulling and every fetch thread is scheduled;    *)
(* nothing obliges a fetch to fail.                                        *)
Fairness == WF_vars(Consumer) /\ \A p \in Partitions : WF_vars(FetchThread(p))

Spec == Init /\ [][Next]_vars /\ Fairness
-----------------------------------------------------------------------------
ThreadState == {"none", "fetching", "callback", "prefetching", "finished", "failed"}

TypeOK ==
  /\ size \in [Partitions -> Sizes]
  /\ num_partitions \in PartitionCounts
  /\ num_prefetched_partitions \in Nat
  /\ parallel_prefetch_requests \in ParallelRequests
  /\ launched_prefetches \in Nat
  /\ next_partition_to_fetch \in 0 .. num_partitions
  /\ has_callback \in [Partitions -> BOOLEAN]
  /\ thread \in [Partitions -> ThreadState]
  /\ partition_valid \in [Partitions -> BOOLEAN]
  /\ partition_valid_until \in [Partitions -> Nat \cup {-1}]
  /\ container \subseteq Partitions
  /\ epoch \in 0 .. MaxEpochs
  /\ pc \in {"idle", "start", "direct", "poll", "read", "join", "key_error", "fetch_error"}
  /\ start_calls \in Nat
  /\ partition_id \in 0 .. num_partitions
  /\ last_idx \in Nat \cup {-1}
  /\ yielded \in [Partitions -> Seq(Nat)]

(* The training loop sees every item of a partition once and in order, and *)
(* finishes one partition before it sees the next, although a fetch thread *)
(* appends while the generator reads without its lock.                     *)
YieldedUpTo(p, n) == yielded[p] = Items(-1, n - 1)
InOrderExactlyOnce ==
  \A p \in Partitions :
    /\ \E n \in 0 .. size[p] : YieldedUpTo(p, n)
    /\ p < partition_id => YieldedUpTo(p, size[p])
    /\ p > partition_id => YieldedUpTo(p, 0)

(* Prefetching holds at most num_prefetched_partitions beyond the one that *)
(* is read, whichever of the consumer and the callbacks launches first.    *)
MemoryBound == Cardinality(container) <= num_prefetched_partitions + 1

(* An epoch leaves nothing behind: every partition was yielded, no data is *)
(* held and no thread of it can touch the structures of the next epoch.    *)
EpochLeavesNothing ==
  (pc = "idle" /\ epoch > 0) =>
    /\ container = {}
    /\ \A p \in Partitions : thread[p] \in {"none", "finished"}
    /\ \A p \in 0 .. num_partitions - 1 : YieldedUpTo(p, size[p])

(* The consumer never reads a partition before its prefetch was launched:  *)
(* in the first iteration of a dataset.                                    *)
FirstEpochLaunchesInTime == pc = "key_error" => epoch > 1

(* As long as no fetch fails, a first iteration that began reaches its end *)
(* -- the consumer never waits for a partition that nobody fetches.        *)
FetchFailed == pc = "fetch_error" \/ \E p \in Partitions : thread[p] = "failed"
FirstEpochCompletes == (epoch = 1) ~> (pc = "idle" \/ FetchFailed)
=============================================================================
